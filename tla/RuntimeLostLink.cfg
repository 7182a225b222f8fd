\* One control and no failure of the link but that of the reopening.
CONSTANTS
  Controls = {c1}
  MaxLosses = 0
SPECIFICATION FairSpec
PROPERTIES
  LostLinkIsRetried
CHECK_DEADLOCK FALSE
