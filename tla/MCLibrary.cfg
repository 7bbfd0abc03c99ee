SPECIFICATION LibrarySpec
CONSTANTS
  c1 = c1
  c2 = c2
  c3 = c3
  c4 = c4
  s1 = s1
  s2 = s2
  m1 = m1
  m2 = m2
  m3 = m3
  Client = {c1, c2, c3, c4}
  Scenario <- MCScenario
  Udp = {c3}
  TooLong = {c4}
  None = None
  Window = 2
  SeqLimit = 4
  Socket = 3
  InBuf = 2
  OutCap = 2
INVARIANTS
  MessagesAreWhole
  NobodyIsStuck
  AnswersAreMeant
  StringsAreKept
  TestsPass
  
  JsonsAreValues
  SnapshotIsWhole
  ReplayIsFaithful
  WordsAreSound
\* Every part comes to its end.
CHECK_DEADLOCK FALSE
