CONSTANTS
  Identity = {id1, id2, id3}
  Contact = {c1, c2}
  DefaultHopLength = 2
  MaxEdges = 2
  MaxList = 3
SPECIFICATION Spec
SYMMETRY Symmetry
INVARIANTS
  TypeOK
  EdgeBudget
  RepeatOnlyAtEdge
PROPERTIES
  EdgePinned
  OnlyStickyEdgeIsStale
\* SelectFromEmptyList is the end of the process.
CHECK_DEADLOCK FALSE
