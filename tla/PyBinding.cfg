CONSTANTS
  PyThreads = {p1, p2}
  Workers = {w1, w2}
  Fetches = {f1, f2}
  None = None
SPECIFICATION FairSpec
INVARIANTS
  UsedAfterDropOnly
  StuckOnlyAfterDrop
PROPERTIES
  KeepsContract
  CalledUnlessDropped
\* A destructor may wait forever.
CHECK_DEADLOCK FALSE
