\* Four pushes into three places: the buffer fills, is drained in every order
\* and fills again, with groups of every version and target mixed in it.
CONSTANTS
  MaxSize = 3
  MaxAge = 1
  Versions = {0, 1, 2}
  MaxPushes = 4
SPECIFICATION Spec
INVARIANTS
  BufferTypeOK
PROPERTIES
  ImplementsStore
  AnswersAsPromised
CHECK_DEADLOCK FALSE
