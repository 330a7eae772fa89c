CONSTANTS
  c1 = c1
  c2 = c2
  t1 = t1
  t2 = t2
  Channel <- TwoChannels
  Thread <- OneThread
  Main = Main
  Edges = {"rising"}
  NoBounce = NoBounce
  BounceTimes = {NoBounce}
  MaxFd = 2
  MaxEp = 2
  MaxCb = 1
  Ops <- AllOps
  CallbackOps <- DropOps
  Quiet = FALSE
  Null = Null
  Dangling = Dangling
SPECIFICATION RaceSpec
CHECK_DEADLOCK FALSE
INVARIANTS RegistryMatchesKernel NoOrphanCallback FaultsAreRaces
PROPERTIES CleanupAllIsClean
SYMMETRY Symmetry
