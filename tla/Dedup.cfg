\* Three ads with two texts, two changes around them, one failed call or crash.
CONSTANTS
  Ads = {a1, a2, a3}
  Texts = {t1, t2}
  FirstText = t1
  None = None
  Gone = Gone
  MaxChanges = 2
  MaxMishaps = 1
SPECIFICATION MCSpec
INVARIANTS TypeOK AnnouncedUnique
PROPERTY Converges
CHECK_DEADLOCK FALSE
