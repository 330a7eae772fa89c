CONSTANTS
  chip1 = chip1
  chip2 = chip2
  t1 = t1
  t2 = t2
  Chip = {chip1, chip2}
  Boards <- SomeBoards
  Size <- SmallSizes
  BankSize = 2
  Bases <- SomeBases
  OnBoard = 512
  Thread = {t1, t2}
  Fails = {"write"}
  Apart = TRUE
SPECIFICATION Spec
INVARIANTS LatchIsAsked
PROPERTIES OthersKept
SYMMETRY Symmetry
