SPECIFICATION FairSpec
CONSTANTS
  W = 2
  Key = {1, 2}
  IkeyOf <- MCIkeyOf
  Val <- MCVal
  PutVals <- MCPutVal
  Reader = {}
  Writer = {w1, w2}
  Top = Top
  LayerLeaf = {y1, y2}
  NoThread = NoThread
  None = None
  Idle = Idle
  Empty = Empty
  NoSuffix = NoSuffix
  MaxGets = 1
  MaxWrites = 2
PROPERTY RequestsReturn
\* The bounded requests run out.
CHECK_DEADLOCK FALSE
