------------------------------ MODULE MCTransport ------------------------------
(***************************************************************************)
(* Small instances of Transport for TLC.                                   *)
(***************************************************************************)
EXTENDS Transport, TLC

CONSTANTS r1, r2, r3, n1, n2

(* Two requests race for the connection to one node; the third, which a    *)
(* handler may send, goes to another.                                      *)
TwoEdges == [r \in Requests |-> IF r = r3 THEN n2 ELSE n1]
===============================================================================
