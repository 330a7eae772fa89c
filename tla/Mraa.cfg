CONSTANTS
  d1 = d1
  d2 = d2
  p1 = p1
  Dev = {d1, d2}
  Pin = {p1}
  MaxFd = 2
  MaxEvents = 1
  Exported = {}
  Boards = {TRUE, FALSE}
  Careful = TRUE
SPECIFICATION FairSpec
CHECK_DEADLOCK FALSE
INVARIANTS NoFault KeepsItsFile ExportsAreOwned
PROPERTIES ExitReturns EventsAreServed
