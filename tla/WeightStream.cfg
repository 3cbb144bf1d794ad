\* Four parameters of 1 to 7 bytes in two buffers of 7, two refits.
CONSTANTS
  NParams = 4
  Sizes = {1, 3, 5, 7}
  Alignment = 2
  BufferSize = 15
  MaxRefits = 2
SPECIFICATION Spec
INVARIANTS
  BuffersExclusive
  LoadsWhatWasPacked
  OffsetsAgree
  RequestsInTurn
  DoneMeansLoaded
PROPERTY
  RefitEnds
CHECK_DEADLOCK FALSE
