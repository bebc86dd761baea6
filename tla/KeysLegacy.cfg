CONSTANTS
  MaxLen = 100
  Threw = Threw
  Overrun = Overrun
  Unused = Unused
  U = 2
  L = 5
  Messages = {m1, m2}
  None = None
SPECIFICATION KeysSpec
INVARIANT
  LegacyCallsReturn
\* A text is loaded once, one signature is made and verified.
CHECK_DEADLOCK FALSE
