SPECIFICATION FairSpec
CONSTANTS
  Clients = {c1}
  Writers = {c1}
  Closers = {c1}
  Backlog = 1
  MaxTimes = 1
  MaxNet = 2
PROPERTIES CloseEnds
CHECK_DEADLOCK FALSE
