SPECIFICATION FairSpec
CONSTANTS
  Approval = {a1, a2}
  Worker = {w1, w2}
  Changes = {a2}
  RetentionAge = 1
  Interval = 1
  SlotLimit = 1
  Faults = {"hold", "rot", "crash", "stall", "late", "io", "back"}
  MaxTrouble = 1
CHECK_DEADLOCK FALSE
INVARIANT TypeOK RowBeforeGone ActedOnce
PROPERTY OnlyFinishedDeleted NoStorm FinishedArePruned
