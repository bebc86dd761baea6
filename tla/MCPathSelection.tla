--------------------------- MODULE MCPathSelection ---------------------------
(***************************************************************************)
(* Small instances of PathSelection for TLC: three service nodes, each in  *)
(* two versions, so that a node can leave the list, come back or change    *)
(* its contact data while it is a sticky edge.                             *)
(***************************************************************************)
EXTENDS PathSelection, TLC

Symmetry == Permutations(Identity) \cup Permutations(Contact)
===============================================================================
