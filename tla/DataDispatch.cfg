\* Two chunks of two rows or one of four, over two, three or four ranks; 39 tokens are
\* too many for a bin of 38, of which 19 (padded to 20) are more than half.
SPECIFICATION Spec
CONSTANTS
  Capacity = 38
  Multiple = 2
  Rows = 4
  Lengths = {3, 8, 9, 18, 19, 39}
  BatchSizes = {2, 4}
  ShardCounts = {2, 3, 4}
  MicroBatch = 2
  Pipeline = 2
  Tensor = 2
INVARIANTS
  EachRowOnce
  NoTwoBinsMerge
  RanksInStep
  RowsComeBack
