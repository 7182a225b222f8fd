\* One lease suffices: its start meets the failing retry of the reader.
CONSTANTS
  Leases = {c1, c2}
  MaxMisses = 3
  MaxDrops = 2
SPECIFICATION FairSpec
INVARIANTS
  NoGridlock
CHECK_DEADLOCK FALSE
