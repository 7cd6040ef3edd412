\* Two requests on one order, nothing going wrong.
CONSTANTS
  Keys = {"new", "applied"}
  Legacy = {"new", "applied"}
  Requests = {r1, r2}
  None = None
  MaxMishaps = 0
SPECIFICATION Spec
PROPERTY StatusSynced
CHECK_DEADLOCK FALSE
