CONSTANTS
  c1 = c1
  c2 = c2
  f1 = f1
  f2 = f2
  Channel = {c1, c2}
  Function = {f1, f2}
  None = None
  MaxCell = 3
SPECIFICATION Spec
CHECK_DEADLOCK FALSE
INVARIANTS NoFault OnlyWanted EachIsCalled
SYMMETRY Symmetry
