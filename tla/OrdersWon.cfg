\* One ad and one PATCH, nothing going wrong.
CONSTANTS
  Ads = {a1}
  Requests = {r1}
  None = None
  StaleAfter = 2
  MaxRows = 2
  MaxMishaps = 0
SPECIFICATION Spec
PROPERTY WonKept
CHECK_DEADLOCK FALSE
