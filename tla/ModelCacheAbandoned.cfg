CONSTANTS
  Threads = {t1, t2}
  Models = {standard, other}
  DefaultModel = standard
  MaxModelReplicas = 1
  Fields = {"lengthScale", "sentenceSilence"}
  CliFields = {}
  MaxChunks = 1
SPECIFICATION FairSpec
PROPERTIES
  AbandonedChunkEnds
CHECK_DEADLOCK FALSE
