SPECIFICATION RcuSpec
CONSTANTS
  Udp = {}
  Tcp = {t1, t2}
  Client = {}
  Obj = {o1, o2}
  LateUnlink = {o2}
  FreeCount = 1
  MaxEpoch = 3
  Group = {First, g2, g3}
  First = First
  Null = Null
  p1 = p1
  p2 = p2
  callback = callback
SYMMETRY Symmetry
INVARIANTS
  RetireInv
  InsideIsSafe
  TreeIsSafe
  LimboIsSound
