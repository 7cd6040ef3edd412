\* Three requests of any kind on one order, one failed call or crash.  "offer" is
\* a key that the CHECK refuses.
CONSTANTS
  Keys = {"new", "applied", "offer"}
  Legacy = {"new", "applied", "won"}
  Requests = {r1, r2, r3}
  None = None
  MaxMishaps = 1
SPECIFICATION FairSpec
INVARIANTS TypeOK HistoryChain TellsCommitted
PROPERTIES ImplementsStatusLog RequestsEnd
CHECK_DEADLOCK FALSE
