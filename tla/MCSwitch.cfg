SPECIFICATION FairSpec
CONSTANTS
  s1 = s1  s2 = s2  a = a  b = b  c = c
  None = None
  Switch <- Switches
  Host <- Hosts
  Port <- Ports
  Toward <- Towards
  Frames = 3
  Timeout = 1
INVARIANTS TypeOK EntriesLeadHome OneCopy
PROPERTIES FramesArrive
