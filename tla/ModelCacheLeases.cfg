CONSTANTS
  Threads = {t1, t2, t3}
  Models = {standard, other}
  DefaultModel = standard
  MaxModelReplicas = 2
  Fields = {"sentenceSilence"}
  CliFields = {"sentenceSilence"}
  MaxChunks = 2
SPECIFICATION Spec
SYMMETRY Symmetry
VIEW View
INVARIANTS
  TypeOK
  ReplicasBounded
  LeaseExclusive
  FreeSlotPristine
  OwnSettings
  NoWakeupLost
PROPERTIES
  ImplementsPool
CHECK_DEADLOCK FALSE
