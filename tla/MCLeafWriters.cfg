SPECIFICATION LeafSpec
CONSTANTS
  W = 2
  Key = {1, 2}
  IkeyOf <- MCIkeyOf
  Val <- MCVal
  PutVals <- MCPutVal
  Reader = {}
  Writer = {w1, w2}
  Top = Top
  LayerLeaf = {y1, y2}
  NoThread = NoThread
  None = None
  Idle = Idle
  Empty = Empty
  NoSuffix = NoSuffix
  MaxGets = 1
  MaxWrites = 3
SYMMETRY Symmetry
INVARIANTS
  ContentIsMap
  DeadLayersAreEmpty
  RowsAreKept
\* The bounded requests run out.
CHECK_DEADLOCK FALSE
