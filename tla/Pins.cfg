CONSTANTS
  main = main
  soft = soft
  bad = bad
  Gpio = {89, 120, 146, 149}
  Wired = {120, 146, 149}
  PwmPin = {146}
  Thread <- Threads
  Stopped = {2, 4}
  Main = main
  SoftPin <- SoftPins
  Chan = {89, 120, 146, 149, bad}
  ModeArgs = {"ASUS", "other"}
  Setups <- SomeSetups
  Outputs <- SomeOutputs
  Cleanups <- SomeCleanups
  PowerOn <- SomePowerOn
  Apart = TRUE
SPECIFICATION RaceSpec
INVARIANTS ClockRuns ClocksRestored PinsAsAsked
PROPERTIES OnlyOwnPin NoGlitch
