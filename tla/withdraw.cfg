SPECIFICATION FairSpec
CONSTANTS
  Delivery = {d1}
  Worker = {w1, w2}
  Connects = 1
  LeaseTime = 2
  Timeout = 1
  Margin = 1
  Retention = 3
  DeadRetention = 1
  MaxBackoff = 1
  Cap = 1
  Window = 2
  RetryLimit = 2
  Controls = {"disable", "revoke", "remove", "retry", "drop", "tighten"}
  Faults = {"peer", "fence", "list"}
  MaxClaims = 2
  MaxTime = 3
CHECK_DEADLOCK FALSE
INVARIANT ContentMatchesState DeliveredMeansTaken
PROPERTY LateCallsChangeNothing KeepsOrder EveryDeliveryEnds
