SPECIFICATION ProgressSpec
CONSTANTS
  Node = {a, b, c, d}
  First = a
  Null = Null
  Thread = {t1, t2}
  NoThread = NoThread
  Udp = {}
  Tcp = {}
  Client = {t1}
  Obj = {o1, o2}
  LateUnlink = {}
  FreeCount = 1
  MaxEpoch = 5
INVARIANTS
  GInv
  ListIsLinked
  ActiveIsReachable
  GraceSuffices
PROPERTIES
  UnlinkedIsFrozen
  OperationsEnd
  RetiredIsFreed
  PutsEnd
\* Every leaf is allocated once: the list may run out of leaves to split into.
CHECK_DEADLOCK FALSE
