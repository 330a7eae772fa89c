CONSTANTS
  c1 = c1
  c2 = c2
  t1 = t1
  t2 = t2
  Channel <- OneChannel
  Thread <- TwoThreads
  Main = Main
  Edges = {"rising", "falling"}
  NoBounce = NoBounce
  BounceTimes = {NoBounce, 100}
  MaxFd = 2
  MaxEp = 2
  MaxCb = 1
  Ops <- WaitOps
  CallbackOps <- NoOps
  Quiet = FALSE
  Null = Null
  Dangling = Dangling
SPECIFICATION FairSpec
CHECK_DEADLOCK FALSE
PROPERTIES EdgeIsFlagged WaitReturns
