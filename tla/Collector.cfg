\* The ticker and one manual run over two sources; one store failure and one
\* crash or shutdown.  Sources are interchangeable: all have a fetcher.
CONSTANTS
  s1 = s1  s2 = s2
  Sources = {s1, s2}
  Fetchers = {s1, s2}
  Requests = {r1}
  Loop = Loop
  None = None
  Intervals = {1}
  MaxBackoff = 2
  AgeCap = 2
  MaxMishaps = 1
SYMMETRY SourceSymmetry
SPECIFICATION Spec
INVARIANTS TypeOK OneCollector AbandonedRows
PROPERTIES PollSpacing ImplementsPollDuty
CHECK_DEADLOCK FALSE
