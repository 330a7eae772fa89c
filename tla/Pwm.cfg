CONSTANTS
  c1 = c1
  c2 = c2
  t1 = t1
  t2 = t2
  Channel = {c1, c2}
  Thread = {t1, t2}
  NoChannel = NoChannel
  MaxCell = 3
  Duties = {100}
  Freqs = {50}
  Default = 1000
  Programs <- TwoPrograms
SPECIFICATION RaceFairSpec
CHECK_DEADLOCK FALSE
INVARIANTS FaultsAreRaces OneDriverUntilRace RunningIsDriven StartedIsDriven
PROPERTIES StopEndsLow
