SPECIFICATION BothSpec
CONSTANTS
  Unset = None
  FocusLen = 1
  ShortBreak = 1
  LongBreak = 2
  LongEvery = 2
  Divisor = 2
  Tappers = {web}
  Offsets = {1, 2}
  Alarms <- MCAlarms
  Length = 2
  Grace = 1
  Poll = 2
  Dates = {3}
  MaxTime = 4
  MaxTaps = 2
  MaxSlips = 1
  Calls = {"call"}
  Entries <- MCEntries
  Ahead = 2
  Ttl = 5
  Late = 10
  Minutes = 14
  Turns = 3
  hub = hub
INVARIANTS
  RemindersSound
PROPERTIES
  PhaseEnds
  Converges
