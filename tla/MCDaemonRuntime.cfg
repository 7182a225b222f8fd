\* One loss of the link meets every step of a push and of a reconnect; the control
\* meets poll() and both callers of stop().
CONSTANTS
  Controls = {c1}
  MaxLosses = 1
SPECIFICATION FairSpec
INVARIANTS
  TypeOK
  OneMutation
  TerminalIsQuiet
  TransitionsDelivered
PROPERTIES
  SilenceIsAttended
  ShutdownEnds
CHECK_DEADLOCK FALSE
