SPECIFICATION LogSpec
CONSTANTS
  Events = {a, b, c}
  Writers = {w}
  MaxShort = 1
  MaxFaults = 1
  NoEvent = NoEvent
  Garbled = Garbled
  Corrupt = Corrupt
  Blank = Blank
INVARIANTS
  ToleratesLastRow
  NeverRefuses
  NoSilentLoss
CHECK_DEADLOCK FALSE
