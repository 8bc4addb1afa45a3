SPECIFICATION Spec
CONSTANTS
  SeqSpace = 16
  ToSend <- OneWay4
  ISS <- Numbers
  Capacity = 3
  MSS = 2
  ReadSize = 2
  MaxTimes = 1
  MaxNet = 3
  Reordering = TRUE
INVARIANTS UnackedIsKept AckedIsDelivered
PROPERTIES DeliversPrefix
CHECK_DEADLOCK FALSE
