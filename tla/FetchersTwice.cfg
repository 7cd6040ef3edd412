\* Two ads, one of any kind, two channels; one change of the site and no failure.
CONSTANTS
  Ads = {a1, a2}
  Channels = 2
  Queries = {q1}
  None = None
  AnyAd = a1
  MaxChanges = 1
  MaxFailures = 0
SPECIFICATION MCSpec
INVARIANT OneRow
CHECK_DEADLOCK FALSE
