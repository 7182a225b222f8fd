\* Two subscriptions, two getters that may share one
\* subscription, and more packets than a queue holds.
CONSTANTS
  s1 = s1
  s2 = s2
  g1 = g1
  g2 = g2
  Subscriptions = {s1, s2}
  Getters = {g1, g2}
  QueueCapacity = 2
  MaxSubscribers = 2
  MaxPayloadBytes = 2
  PayloadSizes <- MCPayloadSizes
  MaxSequence = 3
SPECIFICATION FairSpec
INVARIANTS TypeOK Accounting LossIsVisible NoLostWakeup
PROPERTIES CloseReleasesGetters ImplementsLossyWindow
CHECK_DEADLOCK FALSE
