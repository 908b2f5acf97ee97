CONSTANTS
  Jobs = {j1, j2}
  Workers = {w1, w2}
  NoJob = NoJob
  MaxConcurrentJobs = 2
  QueueSizeOption = 2
  MaxTempBytes = 1
  MaxChunks = 2
  MaxWrites = 1
SPECIFICATION Spec
SYMMETRY Symmetry
VIEW View
INVARIANTS
  RequestOutlivesChunks
  CompleteWhenAssembling
  ChunksDisjoint
  TempBytesConserved
  NoWorkerOversleeps
  NoJobStranded
PROPERTIES
  FairTurn
  DoneIsFinal
  ImplementsService
