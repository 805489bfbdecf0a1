SPECIFICATION Spec
CONSTANTS
  Approval = {a1}
  Worker = {w1, w2}
  Policies = {"chat"}
  Calls = {"status", "revoke"}
  Edits = {"tool", "late"}
  LockBreaks = TRUE
  Consumed = FALSE
  ChatLife = 1
  ConfirmLife = 1
  ApprovedLife = 1
  Lease = 2
  HourWindow = 1
  DayWindow = 1
  PerHour = 1
  PerDay = 1
  MaxAttempts = 1
  MaxRetries = 1
  MaxEpoch = 1
  MaxVersion = 1
  MaxBack = 1
SYMMETRY Symmetry
INVARIANT AtMostOneSend UsedMeansSent FailedMeansUnsent SendsAreCounted SingleUseInv
