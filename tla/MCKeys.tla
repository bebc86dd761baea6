-------------------------------- MODULE MCKeys ---------------------------------
(***************************************************************************)
(* KeyForms, with texts longer than any form that is accepted, and         *)
(* Signatures, in a group of 8 * 5 points.  A behaviour loads a text, or   *)
(* makes and verifies signatures.                                          *)
(***************************************************************************)
EXTENDS KeyForms, Signatures

NoText == [len |-> 0, hex |-> TRUE, b64 |-> TRUE, b32z |-> TRUE, pads |-> 0]

KeysInit == LoadInit /\ Init /\ (text = NoText \/ privkey = 0)

KeysNext ==
  \/ sig = None /\ called = None /\ privkey = 0 /\ LoadNext /\ UNCHANGED vars
  \/ written = Unused /\ text = NoText /\ Next /\ UNCHANGED loadvars

KeysSpec == KeysInit /\ [][KeysNext]_<<loadvars, vars>>
===============================================================================
