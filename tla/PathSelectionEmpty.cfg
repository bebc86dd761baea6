CONSTANTS
  Identity = {id1, id2, id3}
  Contact = {c1, c2}
  DefaultHopLength = 2
  MaxEdges = 2
  MaxList = 3
SPECIFICATION Spec
INVARIANT NoHopsIsNotACrash
