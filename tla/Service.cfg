\* Two migrations; two emitters, a page that connects twice; two mishaps of any kind.
CONSTANTS
  Count = 2
  Emitters = {e1, e2}
  Pages = {p1}
  Limit = 2
  MaxEvents = 2
  MaxConns = 2
  MaxMishaps = 2
SPECIFICATION Spec
INVARIANTS TypeOK SchemaIsPrefix Stream HandledInOrder HandledIsShown
PROPERTIES ImplementsBroadcast CatchesUp ServesAgain
CHECK_DEADLOCK FALSE
