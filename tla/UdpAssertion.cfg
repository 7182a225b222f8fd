\* One session and one socket are enough.
CONSTANTS
  Readers = {r1}
  MaxOpens = 1
SPECIFICATION FairSpec
INVARIANTS
  AssertionHolds
CHECK_DEADLOCK FALSE
