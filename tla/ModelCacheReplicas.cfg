CONSTANTS
  Threads = {t1, t2}
  Models = {standard}
  DefaultModel = standard
  MaxModelReplicas = 2
  Fields = {"lengthScale", "sentenceSilence"}
  CliFields = {"lengthScale"}
  MaxChunks = 1
SPECIFICATION Spec
INVARIANTS
  CliSettingsApply
CHECK_DEADLOCK FALSE
