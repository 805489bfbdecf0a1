SPECIFICATION Spec
CONSTANTS
  Caller <- Callers
  Approval = {p1, p2}
  Delivery = {d1, d2}
  Lease = 2
  OfferTime = 1
  Wait = 1
  ActTime = 1
  MaxPerson = 1
SYMMETRY Symmetry
CHECK_DEADLOCK FALSE
INVARIANT TypeOK OneWindowActs PinHolds
PROPERTY ServiceTakesNothing SweepEndsHolds
