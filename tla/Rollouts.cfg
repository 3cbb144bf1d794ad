CONSTANTS
  BatchSize = 3
  Tasks = {math, code}
  MaxSeqLen = 4
  MaxNewTokens = 2
  MaxTurns = 3
  PromptLens = {1, 4}
  ObsLens = {0, 1}
SPECIFICATION Spec
SYMMETRY Symmetry
INVARIANTS
  OwnConversation
  RoomToGenerate
  EndsForAReason
CHECK_DEADLOCK FALSE
