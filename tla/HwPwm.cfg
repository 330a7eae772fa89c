CONSTANTS
  pwm0 = pwm0
  pwm1 = pwm1
  other = other
  Channels <- TwoChannels
  Plain = {other}
  Lists <- SomeLists
  Size = 65536
  Clock = 48285
  Values = {30, 65535}
  Periods = {20}
  Divisors = {300}
  Tones = {0, 3}
  Strengths = {6}
  Directions = {"OUTPUT"}
  DrivePins = {other}
  Alone = TRUE
SPECIFICATION HwSpec
INVARIANTS HighTimeKept ToneHeard
