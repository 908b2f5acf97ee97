CONSTANTS
  MaxChunkBytes = 3
  MaxLines = 2
  MaxBuffers = 3
  Texts <- MCUtf8Texts
SPECIFICATION Spec
INVARIANT CharactersWhole
CHECK_DEADLOCK FALSE
