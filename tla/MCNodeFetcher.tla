----------------------------- MODULE MCNodeFetcher -----------------------------
(***************************************************************************)
(* A small instance of NodeFetcher for TLC.                                *)
(***************************************************************************)
EXTENDS NodeFetcher

CONSTANTS id1, id2, x1, x2

Listing(ident, x) == [identity |-> ident, contact |-> x]

(* A reply that is no json, an empty list, two nodes, a node that is       *)
(* listed again, and lists with a field of each kind that is no key.       *)
OneOfEachKind ==
  {Unparsable, << >>,
   <<Listing(id1, x1), Listing(id2, x2)>>,
   <<Listing(id1, x1), Listing(id1, x2)>>,
   <<Listing(id1, x1), Listing(Garbled, x2)>>,
   <<Listing(id1, x1), Listing(id2, Bad)>>,
   <<Listing(id1, x1), Listing(id2, Odd)>>,
   <<Listing(Bad, x1), Listing(id2, Odd)>>}
===============================================================================
