SPECIFICATION LogSpec
CONSTANTS
  Events = {a, b, c, d}
  Writers = {v, w}
  MaxShort = 3
  MaxFaults = 1
  NoEvent = NoEvent
  Garbled = Garbled
  Corrupt = Corrupt
  Blank = Blank
INVARIANTS
  ReadBackInOrder
CHECK_DEADLOCK FALSE
