CONSTANTS
  AppThreads = {a1, a2}
  Workers = {w1}
  r1 = r1
  r2 = r2
  r3 = r3
  n1 = n1
  n2 = n2
  Requests = {r1, r2, r3}
  FromHandler = {r3}
  Nodes = {n1, n2}
  Edge <- TwoEdges
  MaxParts = 2
  None = None
SPECIFICATION FairSpec
INVARIANTS
  TypeOK
  SharedConnection
  PromiseInScope
  LeakBound
PROPERTIES
  KeepsContract
  UnreachableForGood
  EndedUnlessExhausted
\* The application may stop sending, and the worker pool may be exhausted.
CHECK_DEADLOCK FALSE
