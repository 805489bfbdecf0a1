SPECIFICATION Spec
CONSTANTS
  Approval = {a1, a2}
  Worker = {w1, w2}
  Policies = {"chat"}
  Calls = {}
  Edits = {}
  LockBreaks = FALSE
  Consumed = FALSE
  ChatLife = 1
  ConfirmLife = 1
  ApprovedLife = 1
  Lease = 1
  HourWindow = 2
  DayWindow = 2
  PerHour = 1
  PerDay = 1
  MaxAttempts = 1
  MaxRetries = 0
  MaxEpoch = 1
  MaxVersion = 1
  MaxBack = 1
SYMMETRY Symmetry
INVARIANT CapsHold
