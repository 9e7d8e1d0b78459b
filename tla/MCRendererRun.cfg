\* All calls are over at the end.
CHECK_DEADLOCK FALSE
SPECIFICATION FairSpec
CONSTANTS
  Renders = {c1, c2}
  Slots = 1
  CheckRaises = TRUE
INVARIANTS KernelsBounded SurvivorsExplained ResultsAreReal
PROPERTY EveryCallEnds
