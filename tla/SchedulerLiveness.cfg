CONSTANTS
  Jobs = {j1, j2}
  Workers = {w1, w2}
  NoJob = NoJob
  MaxConcurrentJobs = 1
  QueueSizeOption = 2
  MaxTempBytes = 0
  MaxChunks = 1
  MaxWrites = 0
SPECIFICATION FairSpec
PROPERTIES
  EveryRequestReturns
