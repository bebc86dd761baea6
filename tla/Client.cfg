CONSTANTS
  Identity = {id1, id2}
  Contact = {x1, NoKey}
  DefaultHopLength = 2
  MaxEdges = 2
  MaxList = 2
  NoKey = NoKey
  MaxSignals = 2
  Unset = Unset
  None = None
SPECIFICATION Spec
INVARIANTS
  ZeroMeansNoSignal
  PayloadInScope
  SelectsFromNodes
PROPERTY
  Ends
\* The process ends.
CHECK_DEADLOCK FALSE
