CONSTANTS
  p1 = p1
  p2 = p2
  h1 = h1
  w1 = w1
  w2 = w2
  Pin = {p1, p2}
  Main = Main
  Helper = {h1}
  Worker = {w1, w2}
  None = None
  Values = {150}
  Ranges = {0, 150}
  Tones = {6000}
  Programs <- EachKind
SPECIFICATION FairSpec
INVARIANTS OwnPin OneDriver
PROPERTIES StopReturns EdgeServed
