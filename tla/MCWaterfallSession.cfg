\* Two leases overlap, or the second restarts what the first has left or failed to start.
\* Two drops: the second one meets the recovery from the first.
CONSTANTS
  Leases = {c1, c2}
  MaxMisses = 2
  MaxDrops = 2
SPECIFICATION FairSpec
INVARIANTS
  TypeOK
  DemandAccounted
  ReservationIsQuiet
  InterruptionIsSeen
PROPERTIES
  ClosedIsFinal
  EveryoneReturns
  InterruptedIsAttended
CHECK_DEADLOCK FALSE
