SPECIFICATION TreeSpec
CONSTANTS
  W = 3
  Width = 2
  Key = {1, 2, 3, 4, 5, 6, 7, 8, 9, 10, 11, 12, 13, 14, 15, 16, 17, 18, 19, 20}
  IkeyOf <- MCIkeyOf
  rd = rd
  w1 = w1
  w2 = w2
  Thread = {rd, w1, w2}
  NoThread = NoThread
  None = None
  Idle = Idle
  Loader = w1
  Scenario <- MCScenario
  MaxOps = 1
INVARIANTS
  KeysAreFound
  LeafIsResponsible
  ParentsAreFound
  ScanSpellsKeys
  SuffixesAreKept
PROPERTIES
  Linearizable
