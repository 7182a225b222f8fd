\* Two sessions, so that a reader may outlive the first; three sockets, so that two
\* are lost after the first one.
CONSTANTS
  Readers = {r1, r2}
  MaxOpens = 3
SPECIFICATION FairSpec
INVARIANTS
  TypeOK
  LossToldOnce
PROPERTIES
  LostLinkIsReopened
CHECK_DEADLOCK FALSE
