CONSTANTS
  MaxChunkBytes = 3
  MaxLines = 2
  MaxBuffers = 3
  Texts <- MCTexts
SPECIFICATION FairSpec
INVARIANTS
  TypeOK
  NothingLost
  ChunksFit
  CarryBounded
  RepeatBounded
  AllAudioWritten
  AudioInOrder
  NoWakeupLost
PROPERTIES
  ProgramEnds
  Advances
CHECK_DEADLOCK FALSE
