SPECIFICATION FairSpec
CONSTANTS
  Addr = {a, b, own}
  Own = own
  Mac = {m}
  Slots = 2
  Timeout = 1
  MaxRetries = 2
  MaxPackets = 2
INVARIANTS TypeOK OneRequestPerAddr WaitingIsUnanswered
PROPERTIES RequestsEnd
CHECK_DEADLOCK FALSE
