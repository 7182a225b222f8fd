\* The default limit of three misses: a poll misses while the last lease is replaced.
CONSTANTS
  Leases = {c1, c2}
  MaxMisses = 3
  MaxDrops = 2
SPECIFICATION FairSpec
INVARIANTS
  FailureMeansConsecutiveMisses
CHECK_DEADLOCK FALSE
