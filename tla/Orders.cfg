\* Two ads that come and go, two rows, one PATCH under way at a time, one mishap; a tick
\* is as long as it takes a row to become stale.
CONSTANTS
  Ads = {a1, a2}
  Requests = {r1}
  None = None
  StaleAfter = 1
  MaxRows = 2
  MaxMishaps = 1
SPECIFICATION FairSpec
INVARIANTS TypeOK  ArchivedOnce
PROPERTIES FreshKept WithdrawnLeaves
CHECK_DEADLOCK FALSE
