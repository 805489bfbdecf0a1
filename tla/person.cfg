SPECIFICATION Spec
CONSTANTS
  Approval = {a1}
  Worker = {w1, w2}
  Policies = {"chat", "confirm"}
  Calls = {"approve"}
  Edits = {"web"}
  LockBreaks = FALSE
  Consumed = TRUE
  ChatLife = 1
  ConfirmLife = 2
  ApprovedLife = 1
  Lease = 1
  HourWindow = 1
  DayWindow = 1
  PerHour = 1
  PerDay = 1
  MaxAttempts = 2
  MaxRetries = 0
  MaxEpoch = 1
  MaxVersion = 2
  MaxBack = 1
SYMMETRY Symmetry
INVARIANT SentIsBound ConfirmNeedsPerson
