CONSTANTS
  w1 = w1
  w2 = w2
  w3 = w3
  Writer = {w1, w2, w3}
  NLog = 2
  LogOf <- MCLogOf
  Key = {"a", "b"}
  KeyOf <- MCKeyOf
  Nobody = Nobody
  Cap = 4
  Room = 3
  MaxEpoch = 4
  MaxPut = 2
  MaxCrash = 2
  Lives = 1
  MaxCkp = 1
SPECIFICATION Spec
SYMMETRY Symmetry
INVARIANTS
  CutIsClosedInOrder
  LoggedInTurn
  RecoveryIsRepeatable
