SPECIFICATION FairSpec
CONSTANTS
  Jobs = {j1}
  Workers = {w1, w2}
  None = None
  MaxPending = 2
  MaxAttempts = 2
  CorruptJobs = {}
  Mortal = {w1}
  IoFails = TRUE
PROPERTY
  ImplementsDurableJob
