CONSTANTS
  Jobs = {j1}
  Workers = {w1}
  NoJob = NoJob
  MaxConcurrentJobs = 1
  QueueSizeOption = 1
  MaxTempBytes = 0
  MaxChunks = 1
  MaxWrites = 1
SPECIFICATION Spec
SYMMETRY Symmetry
INVARIANTS
  TempReturned
