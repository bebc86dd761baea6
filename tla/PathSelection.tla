----------------------------- MODULE PathSelection -----------------------------
(***************************************************************************)
(* PathSelection_Default (onionreq/consensus.cpp): the service node list   *)
(* the application stores, the small set of first hops the selector sticks *)
(* to, and the choice of a path.  Every operation runs under AccessList's  *)
(* mutex from its first to its last access to the two containers, so each  *)
(* is one action whatever threads call it.                                 *)
(***************************************************************************)
EXTENDS Random

CONSTANTS
  Identity,          \* ed25519 identity keys of service nodes
  Contact,           \* the rest of an SNodeInfo: x25519 key, ip, ports
  DefaultHopLength,  \* hops of a path (4 in the source)
  MaxEdges,          \* first hops the selector sticks to (4 in the source)
  MaxList            \* bound: longest node list that is stored

ASSUME HopLengthAssumption == DefaultHopLength \in Nat \ {0}
ASSUME MaxEdgesAssumption  == MaxEdges \in Nat \ {0}
ASSUME MaxListAssumption   == MaxList \in Nat

VARIABLES
  snodelist,  \* _snodelist, in iteration order
  edges,      \* _edges, in iteration order
  path,       \* hops of the OnionPath returned last, << >> before the first
  crashed,    \* the process evaluated hops[0] of an empty vector
  used        \* history: identities of every first hop handed out so far

vars == <<snodelist, edges, path, crashed, used>>

SNodeInfo == [identity : Identity, contact : Contact]

(* SNodeInfo::operator== and its std::hash look at the identity only.      *)
SameNode(a, b) == a.identity = b.identity

(* A map from identity to SNodeInfo, in iteration order.                   *)
NodeList ==
  {l \in UNION {[1..n -> SNodeInfo] : n \in 0..MaxList} :
     \A i, j \in DOMAIN l : SameNode(l[i], l[j]) => i = j}

-------------------------------------------------------------------------------
Init ==
  /\ snodelist = << >>
  /\ edges = << >>
  /\ path = << >>
  /\ crashed = FALSE
  /\ used = {}

(* Wrong variant, for mutation only: the new list is added to the old.     *)
StoreNodeListAppending(list) ==
  /\ ~crashed
  /\ snodelist' = snodelist \o list
  /\ UNCHANGED <<edges, path, crashed, used>>

StoreNodeList(list) ==
  /\ ~crashed
  /\ snodelist' = list
  /\ UNCHANGED <<edges, path, crashed, used>>

(* Wrong variants, for mutation only: the limit compared with > instead of *)
(* >=, sticky edges used before there are MaxEdges of them, and an edge    *)
(* that is really drawn at random.                                         *)
EdgeChoicesOffByOne(hops) ==
  IF Len(edges) > MaxEdges THEN pick_random(edges) ELSE {hops[1]}
EdgeChoicesEager(hops) ==
  IF Len(edges) > 0 THEN pick_random(edges) ELSE {hops[1]}
EdgeChoicesShuffled(hops) ==
  IF Len(edges) >= MaxEdges THEN Range(edges) ELSE {hops[1]}

(* The first hop: a sticky one when there are MaxEdges of them, the first  *)
(* sampled one otherwise.                                                  *)
EdgeChoices(hops) ==
  IF Len(edges) >= MaxEdges THEN pick_random(edges) ELSE {hops[1]}

(* unordered_set<SNodeInfo>::insert: no change when the node is there;     *)
(* otherwise the table may be rehashed, so any iteration order may result. *)
insert(s, x) ==
  IF \E i \in 1..Len(s) : SameNode(s[i], x)
    THEN {s}
    ELSE Bijection(1..(Len(s) + 1), Range(s) \cup {x})

(* MaybeSelectHopsTo on the hops std::sample came up with.                 *)
SelectAmong(hops) ==
  \E edge \in EdgeChoices(hops) :
    /\ path' = [hops EXCEPT ![1] = edge]
    /\ edges' \in insert(edges, edge)
    /\ used' = used \cup {edge.identity}

(* The remote resource is copied into the returned path and plays no part. *)
MaybeSelectHopsTo ==
  /\ ~crashed
  /\ \E hops \in sample(snodelist, DefaultHopLength) :
       /\ hops # << >>
       /\ SelectAmong(hops)
  /\ UNCHANGED <<snodelist, crashed>>

(* The same call with nothing to sample: path.Edge() is hops[0] of an      *)
(* empty vector, whose storage is a null pointer.                          *)
SelectFromEmptyList ==
  /\ ~crashed
  /\ snodelist = << >>
  /\ crashed' = TRUE
  /\ UNCHANGED <<snodelist, edges, path, used>>

Next ==
  \/ \E list \in NodeList : StoreNodeList(list)
  \/ MaybeSelectHopsTo
  \/ SelectFromEmptyList

Spec == Init /\ [][Next]_vars

-------------------------------------------------------------------------------
(* Types of the two containers, of the returned path and of the history.   *)
TypeOK ==
  /\ snodelist \in NodeList
  /\ edges \in Seq(SNodeInfo)
  /\ path \in Seq(SNodeInfo)
  /\ crashed \in BOOLEAN
  /\ used \in SUBSET Identity

(* However many node lists come and go, the paths handed out over the      *)
(* selector's life start at no more than MaxEdges different nodes, the     *)
(* "maximum unique number of edges to use" of MaybeSelectHopsTo.           *)
EdgeBudget == Cardinality(used) <= MaxEdges

Full == Len(edges) = MaxEdges

(* Once _edges is full it is frozen, and since pick_random returns the     *)
(* first element of the container every later path starts at one and the   *)
(* same node, with the contact data it had when it was inserted.           *)
EdgePinned ==
  [][Full => /\ edges' = edges
             /\ path' # path => path'[1] = edges[1]]_vars

(* A path visits a node twice only when a sticky first hop (which          *)
(* MaybeSelectHopsTo writes over the first sampled one) is sampled again   *)
(* as a later hop; the later hops are pairwise different.                  *)
RepeatOnlyAtEdge ==
  \A i, j \in 1..Len(path) :
    i < j /\ SameNode(path[i], path[j]) => i = 1 /\ Full

(* Whatever was stored before, a new path takes every hop from the list    *)
(* stored last, with its latest contact data, except a first hop that      *)
(* comes out of a full _edges.                                             *)
OnlyStickyEdgeIsStale ==
  [][path' # path =>
       \A i \in 1..Len(path') :
         \/ path'[i] \in Range(snodelist)
         \/ i = 1 /\ Full /\ path'[1] \in Range(edges)]_vars

(* What consensus.hpp says of MaybeSelectHopsTo: "maybe select some hops"; *)
(* a call that cannot select any answers nullopt.  Not so of the code.     *)
NoHopsIsNotACrash == ~crashed
===============================================================================
