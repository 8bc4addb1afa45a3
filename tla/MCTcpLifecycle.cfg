SPECIFICATION FairSpec
CONSTANTS
  Clients = {c1}
  Writers = {c1}
  Closers = {c1}
  Backlog = 1
  MaxTimes = 1
  MaxNet = 2
INVARIANTS TypeOK HandshakeAgrees AckedIsReceived QueuesConsistent NetworkThreadRuns
PROPERTIES EndOfStreamIsLast RetransmissionEnds
CHECK_DEADLOCK FALSE
