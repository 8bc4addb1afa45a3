SPECIFICATION Spec
CONSTANTS
  a = a
  b = b
  c = c
  None = None
  Router <- Routers
  Link <- Links
  Updates <- UpdatesOf
  MaxNet = 2
  MaxFaults = 1
SYMMETRY Alike
INVARIANTS TypeOK NoOwnEntry FloodingReaches EntriesAgree SettledRoutesReach DijkstraFindsFirstHops
CHECK_DEADLOCK FALSE
