\* Two reports and a download, two runs, two seconds; one summary at a time over two orders.
CONSTANTS
  Writers = {w1, w2}
  Readers = {d1}
  Askers = {s1}
  Runs = {1, 2}
  Seconds = {1, 2}
  Orders = {o1, o2}
  Branched = {o1}
  Span = 1
  MaxNow = 2
  None = None
  MaxMishaps = 1
SPECIFICATION MCSpec
INVARIANTS TypeOK RowHasItsFile DownloadIsTheReport SummaryAddsUp
CHECK_DEADLOCK FALSE
