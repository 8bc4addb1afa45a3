SPECIFICATION FairSpec
CONSTANTS
  SeqSpace = 16
  ToSend <- OneWay5
  ISS <- Numbers
  Capacity = 2
  MSS = 2
  ReadSize = 2
  MaxTimes = 1
  MaxNet = 3
  Reordering = FALSE
INVARIANTS TypeOK SendsIntoFreeSpace RingHasRoom
PROPERTIES EventuallyReadOrGivenUp
CHECK_DEADLOCK FALSE
