SPECIFICATION FairSpec
CONSTANTS
  Process = {p1, p2}
  Stale = 1
  Prompt = TRUE
  Modes = {"wait", "try"}
  Renews = TRUE
  MaxCalls = 3
  MaxCrashes = 1
INVARIANT TypeOK NoUpdateLost
PROPERTY WaitersServed
