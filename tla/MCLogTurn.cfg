CONSTANTS
  w1 = w1
  w2 = w2
  w3 = w3
  Writer = {w1, w2}
  NLog = 1
  LogOf <- MCLogOf
  Key = {"a", "b"}
  KeyOf <- MCKeyOf
  Nobody = Nobody
  Cap = 4
  Room = 3
  MaxEpoch = 3
  MaxPut = 3
  MaxCrash = 0
  Lives = 1
  MaxCkp = 0
SPECIFICATION Spec
INVARIANT FlushedMeansLogged
