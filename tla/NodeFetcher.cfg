CONSTANTS
  AppThreads = {a1, a2}
  Workers = {w1, w2}
  Calls = {c1, c2}
  FromHandler = {c2}
  Seeds = {s1, s2, s3}
  BadSeeds = {s3}
  SeedSets = {{s1, s2}, {s3}}
  id1 = id1
  id2 = id2
  x1 = x1
  x2 = x2
  Identity = {id1, id2}
  Contact = {x1, x2}
  Docs <- OneOfEachKind
  MaxParts = 2
  None = None
  Torn = Torn
  Garbled = Garbled
  Odd = Odd
  Bad = Bad
  Unparsable = Unparsable
SPECIFICATION FairSpec
INVARIANTS
  TypeOK
  SerialUseIsSafe
  OneSeedOnly
PROPERTIES
  KeepsContract
  StaleForGood
  EmptyOrWhole
  EveryFetchEnds
\* The application may stop fetching.
CHECK_DEADLOCK FALSE
