CONSTANTS
  n1 = n1
  n2 = n2
  n3 = n3
  n4 = n4
  Node = {n1, n2, n3, n4}
  Keyless = {n4}
  Requests = {r1, r2}
  Paths <- PathsToTry
  KeyTypes = {"aes_gcm", "xchacha20"}
  None = None
  NullKey = NullKey
SPECIFICATION FairSpec
INVARIANTS
  TypeOK
  OnlyNextHopParses
  HopsSeeTheirPart
  ReplyAuthentic
PROPERTIES
  GenuineReplyAccepted
  ReachesLastHop
\* Every request may have been answered.
CHECK_DEADLOCK FALSE
