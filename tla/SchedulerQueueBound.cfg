CONSTANTS
  Jobs = {j1, j2, j3, j4, j5}
  Workers = {w1}
  NoJob = NoJob
  MaxConcurrentJobs = 1
  QueueSizeOption = 2
  MaxTempBytes = 0
  MaxChunks = 1
  MaxWrites = 0
SPECIFICATION Spec
SYMMETRY Symmetry
VIEW View
INVARIANTS
  QueueBound
