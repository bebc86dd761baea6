CONSTANTS
  Prefix = 1
  Limit = 40
  IntLimit = 20
  IvLength <- Ivs
  TagLength <- Tags
  BlockSize <- Blocks
  KeyChars = 4
  Control = 1
  Routing = 2
  Opening = 4
  MaxHops = 3
  MaxPayload = 46
  MaxPacket = 30
  None = None
SPECIFICATION Spec
INVARIANTS
  FitsBuffer
  AllOrNothing
  InBounds
\* An onion that was refused, or answered, is not sent again.
CHECK_DEADLOCK FALSE
