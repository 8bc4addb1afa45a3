SPECIFICATION Spec
CONSTANTS
  Clients = {c1, c2}
  Writers = {c1}
  Closers = {}
  Backlog = 1
  MaxTimes = 0
  MaxNet = 1
INVARIANTS QueuesConsistent
CHECK_DEADLOCK FALSE
