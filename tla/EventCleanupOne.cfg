CONSTANTS
  c1 = c1
  c2 = c2
  t1 = t1
  t2 = t2
  Channel <- TwoChannels
  Thread <- OneThread
  Main = Main
  Edges = {"rising"}
  NoBounce = NoBounce
  BounceTimes = {NoBounce}
  MaxFd = 2
  MaxEp = 2
  MaxCb = 1
  Ops <- CleanupOps
  CallbackOps <- NoOps
  Quiet = TRUE
  Null = Null
  Dangling = Dangling
SPECIFICATION Spec
CHECK_DEADLOCK FALSE
PROPERTIES CleanupSparesOthers
