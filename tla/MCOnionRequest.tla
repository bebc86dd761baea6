---------------------------- MODULE MCOnionRequest ----------------------------
(***************************************************************************)
(* Small instances of OnionRequest for TLC.                                *)
(***************************************************************************)
EXTENDS OnionRequest

CONSTANTS n1, n2, n3, n4

(* One hop; two; a path whose sticky first hop was sampled again as the    *)
(* last, of the library's length; one that starts with a node without a    *)
(* key, and one that ends there.                                           *)
PathsToTry == {<<n1>>, <<n3, n2>>, <<n1, n2, n3, n1>>, <<n4, n2>>, <<n4>>}
===============================================================================
