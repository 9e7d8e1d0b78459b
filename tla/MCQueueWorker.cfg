SPECIFICATION Spec
CONSTANTS
  Jobs = {j1, j2}
  Workers = {w1, w2}
  None = None
  MaxPending = 2
  MaxAttempts = 2
  CorruptJobs = {j2}
  Mortal = {w1}
  IoFails = TRUE
INVARIANT
  ResultMatchesManifest
PROPERTIES
  ManifestFinal
  ImplementsDurableSteps
  JobsSpareWorkers
\* Every worker may be gone with every job settled: nothing is left to do.
CHECK_DEADLOCK FALSE
