SPECIFICATION Spec
CONSTANTS
  Udp = {t2}
  Tcp = {t1}
  Client = {}
  Obj = {o1}
  LateUnlink = {}
  FreeCount = 1
  MaxEpoch = 5
INVARIANT AnswerIsSafe
