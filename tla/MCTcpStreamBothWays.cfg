SPECIFICATION Spec
CONSTANTS
  SeqSpace = 16
  ToSend <- BothWays
  ISS <- Numbers
  Capacity = 3
  MSS = 2
  ReadSize = 2
  MaxTimes = 1
  MaxNet = 2
  Reordering = FALSE
INVARIANTS RingHasRoom
CHECK_DEADLOCK FALSE
