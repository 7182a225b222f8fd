\* One session that loses its first socket and opens a second one.
CONSTANTS
  Readers = {r1}
  MaxOpens = 2
SPECIFICATION FairSpec
INVARIANTS
  StopClosesEverySocket
CHECK_DEADLOCK FALSE
