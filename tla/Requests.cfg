\* Three requests of any kind over two connections; one profile at the start.
CONSTANTS
  r1 = r1  r2 = r2  r3 = r3
  Requests = {r1, r2, r3}
  Existing = {s1}
  None = None
  PoolSize = 2
  MaxMishaps = 1
SPECIFICATION MCSpec
INVARIANTS TypeOK AnswersForward Unstuck
PROPERTIES ImplementsProfileStore RequestsEnd
CHECK_DEADLOCK FALSE
