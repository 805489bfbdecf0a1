SPECIFICATION Spec
CONSTANTS
  Process = {p1, p2, p3}
  Stale = 1
  Prompt = TRUE
  Modes = {"wait"}
  Renews = FALSE
  MaxCalls = 2
  MaxCrashes = 1
SYMMETRY Symmetry
INVARIANT NoUpdateLost
