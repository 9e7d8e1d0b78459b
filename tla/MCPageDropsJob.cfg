\* The user may have done everything.
CHECK_DEADLOCK FALSE
SPECIFICATION FairSpec
CONSTANTS
  Jobs = {j1, j2}
  Drawn = {j1}
  Files = {f1, f2}
  None = None
  MaxClicks = 3
  MaxCalls = 2
PROPERTIES JobStaysTracked
