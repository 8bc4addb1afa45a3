SPECIFICATION Spec
CONSTANTS
  Segments = 5
  Window = 3
  Limit = 2
  MaxTimes = 1
INVARIANTS TypeOK LocksHeld UnackedIsBuffered NoStaleResend TimerLinkedOnce
CHECK_DEADLOCK FALSE
