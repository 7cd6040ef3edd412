\* One source polled by the ticker, a manual run in the way, one failed store
\* call, crash or shutdown.
CONSTANTS
  Sources = {s1}
  Fetchers = {s1}
  Requests = {r1}
  Loop = Loop
  None = None
  Intervals = {1, 2}
  MaxBackoff = 3
  AgeCap = 4
  MaxMishaps = 1
SPECIFICATION FairSpec
PROPERTY EverySourcePolled
CHECK_DEADLOCK FALSE
