SPECIFICATION QueueSpec
CONSTANTS
  Jobs = {j1, j2, j3}
  Workers = {w1, w2}
  None = None
  MaxPending = 2
  MaxAttempts = 2
SYMMETRY NameSymmetry
INVARIANTS
  NoStuckRow
  CancelWins
  CapacityRespected
PROPERTIES
  TerminalImmutable
  LeaseHonoured
  FirstComeFirstServed
