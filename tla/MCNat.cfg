SPECIFICATION FairSpec
CONSTANTS
  a = a
  b = b
  c = c
  r = r
  Internal <- Inside
  Remote <- Outside
  NAT_PORT_MIN = 1
  NAT_PORT_MAX = 3
  Rules <- Forwards
  Packets <- Kinds
  Timeout = 2
INVARIANTS TypeOK PortsAccounted RepliesReturn
PROPERTIES PortsComeBack
