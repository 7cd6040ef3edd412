\* Two ads, one of any kind, two channels; two changes of the site and one failure.
CONSTANTS
  Ads = {a1, a2}
  Channels = 2
  Queries = {q1}
  None = None
  AnyAd = a1
  MaxChanges = 2
  MaxFailures = 1
SPECIFICATION MCSpec
INVARIANTS TypeOK WholeResult
PROPERTY Arrives
CHECK_DEADLOCK FALSE
