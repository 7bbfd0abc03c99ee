SPECIFICATION Spec
CONSTANTS
  W = 2
  Key = {1, 2, 3}
  IkeyOf <- MCIkeyOf
  Val <- MCVal
  PutVals <- MCPutVals
  Reader = {r1}
  Writer = {w1}
  Top = Top
  LayerLeaf = {y1, y2}
  NoThread = NoThread
  None = None
  Idle = Idle
  Empty = Empty
  NoSuffix = NoSuffix
  MaxGets = 1
  MaxWrites = 4
SYMMETRY Symmetry
INVARIANT ReadsAreWhole
PROPERTY Linearizable
\* The bounded requests run out.
CHECK_DEADLOCK FALSE
