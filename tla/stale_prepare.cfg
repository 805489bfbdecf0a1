SPECIFICATION Spec
CONSTANTS
  Approval = {a1}
  Worker = {w1, w2}
  Policies = {"chat","never"}
  Calls = {}
  Edits = {}
  LockBreaks = FALSE
  Consumed = TRUE
  ChatLife = 1
  ConfirmLife = 1
  ApprovedLife = 1
  Lease = 1
  HourWindow = 1
  DayWindow = 1
  PerHour = 1
  PerDay = 1
  MaxAttempts = 1
  MaxRetries = 0
  MaxEpoch = 1
  MaxVersion = 1
  MaxBack = 0
SYMMETRY Symmetry
INVARIANT NothingPreparedBeforeNeverSends
