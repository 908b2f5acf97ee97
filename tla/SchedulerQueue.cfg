CONSTANTS
  Jobs = {j1, j2, j3}
  Workers = {w1, w2}
  NoJob = NoJob
  MaxConcurrentJobs = 1
  QueueSizeOption = 3
  MaxTempBytes = 0
  MaxChunks = 1
  MaxWrites = 0
SPECIFICATION Spec
SYMMETRY Symmetry
VIEW View
INVARIANTS
  TypeOK
  ActiveJobsExact
  CapacityUsed
  NoJobStranded
PROPERTIES
  ImplementsService
