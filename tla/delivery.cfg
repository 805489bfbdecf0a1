SPECIFICATION Spec
CONSTANTS
  Delivery = {d1, d2}
  Worker = {w1, w2}
  Connects = 1
  LeaseTime = 2
  Timeout = 1
  Margin = 1
  Retention = 4
  DeadRetention = 1
  MaxBackoff = 1
  Cap = 1
  Window = 2
  RetryLimit = 2
  Controls = {"pause", "reset"}
  Faults = {"open", "peer", "crash"}
  MaxClaims = 2
  MaxTime = 4
CHECK_DEADLOCK FALSE
SYMMETRY Symmetry
INVARIANT TypeOK ClaimInv HeadOnly DeliveredMeansTaken OneRequestOut CapHolds
PROPERTY KeepsOrder
