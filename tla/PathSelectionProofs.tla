-------------------------- MODULE PathSelectionProofs --------------------------
(***************************************************************************)
(* Proofs about PathSelection for every list length, hop length and edge   *)
(* limit.                                                                  *)
(***************************************************************************)
EXTENDS PathSelection, FiniteSetTheorems, TLAPS

(* Sampling all of 1..n in order starts at 1: an increasing map of 1..n    *)
(* into itself is injective, so onto, so something is mapped to 1, and     *)
(* nothing below that can be.                                              *)
LEMMA IncreasingStartsAtOne ==
  ASSUME NEW n \in Nat \ {0}, NEW f \in Increasing(n, n)
  PROVE  f[1] = 1
<1>1. f \in Injection(1..n, 1..n)
  <2>1. /\ f \in [1..n -> 1..n]
        /\ \A i, j \in 1..n : i < j => f[i] < f[j]
    BY DEF Increasing
  <2>2. \A i \in 1..n : f[i] \in Nat
    BY <2>1
  <2>3. \A i, j \in 1..n : f[i] = f[j] => i = j
    BY <2>1, <2>2
  <2> QED BY <2>1, <2>3 DEF Injection, IsInjective
<1>2. IsFiniteSet(1..n) /\ Cardinality(1..n) = Cardinality(1..n)
  BY FS_Interval
<1>3. f \in Surjection(1..n, 1..n)
  BY <1>1, <1>2, FS_Injection
<1>4. PICK k \in 1..n : f[k] = 1
  BY <1>3 DEF Surjection
<1>5. k = 1
  BY <1>4 DEF Increasing
<1> QED BY <1>4, <1>5

(* pick_random returns the first element of a non-empty container and      *)
(* nothing else.                                                           *)
LEMMA PickIsFirst ==
  ASSUME NEW T, NEW s \in Seq(T), s # << >>, NEW x \in pick_random(s)
  PROVE  x = s[1] /\ Len(s) \in Nat \ {0}
<1>1. Len(s) \in Nat \ {0}
  OBVIOUS
<1>2. PICK v \in sample(s, Len(s)) : v # << >> /\ x = v[1]
  BY DEF pick_random
<1>3. PICK f \in Increasing(Len(s), Len(s)) : v = [i \in 1..Len(s) |-> s[f[i]]]
  BY <1>1, <1>2 DEF sample, Smaller
<1>4. f[1] = 1
  BY <1>1, <1>3, IncreasingStartsAtOne
<1> QED BY <1>1, <1>2, <1>3, <1>4

(* v is taken out of s in the order of s: the image of an increasing map   *)
(* into the indices of s.                                                  *)
Ordered(v, s) ==
  \E f \in [1..Len(v) -> 1..Len(s)] :
    /\ \A i, j \in 1..Len(v) : i < j => f[i] < f[j]
    /\ \A i \in 1..Len(v) : v[i] = s[f[i]]

(* std::sample keeps the order of the population.                          *)
LEMMA SampleIsOrdered ==
  ASSUME NEW T, NEW s \in Seq(T), NEW k \in Nat, NEW v \in sample(s, k)
  PROVE  v \in Seq(T) /\ Ordered(v, s)
<1> DEFINE m == Smaller(k, Len(s))
<1>1. m \in Nat
  BY DEF Smaller
<1>2. PICK f \in Increasing(m, Len(s)) : v = [i \in 1..m |-> s[f[i]]]
  BY DEF sample
<1>3. f \in [1..m -> 1..Len(s)] /\ \A i, j \in 1..m : i < j => f[i] < f[j]
  BY <1>2 DEF Increasing
<1> HIDE DEF m
<1>4. v \in Seq(T) /\ Len(v) = m
  BY <1>1, <1>2, <1>3
<1> QED BY <1>2, <1>3, <1>4 DEF Ordered

(* unordered_set::insert leaves the container alone when the element is    *)
(* there; otherwise the container grows by one and holds the old elements  *)
(* and the new one.                                                        *)
LEMMA InsertIsSetInsert ==
  ASSUME NEW T, NEW s \in Seq(T), NEW x \in T, NEW r \in insert(s, x)
  PROVE  /\ r \in Seq(T)
         /\ (\E i \in 1..Len(s) : SameNode(s[i], x)) => r = s
         /\ (\A i \in 1..Len(s) : ~SameNode(s[i], x)) =>
               /\ Len(r) = Len(s) + 1
               /\ \A i \in 1..Len(s) : \E j \in 1..Len(r) : r[j] = s[i]
               /\ \E j \in 1..Len(r) : r[j] = x
               /\ \A j \in 1..Len(r) :
                    r[j] = x \/ \E i \in 1..Len(s) : r[j] = s[i]
<1>1. CASE \E i \in 1..Len(s) : SameNode(s[i], x)
  BY <1>1 DEF insert
<1>2. CASE \A i \in 1..Len(s) : ~SameNode(s[i], x)
  <2> DEFINE U == Range(s) \cup {x}
             n == Len(s) + 1
  <2>1. r \in [1..n -> U] /\ \A u \in U : \E j \in 1..n : r[j] = u
    BY <1>2 DEF insert, Bijection, Injection, Surjection
  <2>2. U \subseteq T /\ n \in Nat
    BY DEF Range
  <2>3. r \in Seq(T) /\ Len(r) = n
    BY <2>1, <2>2
  <2>4. Range(s) = {s[i] : i \in 1..Len(s)}
    BY DEF Range
  <2>5. \A i \in 1..Len(s) : \E j \in 1..Len(r) : r[j] = s[i]
    BY <2>1, <2>3, <2>4
  <2>6. \E j \in 1..Len(r) : r[j] = x
    BY <2>1, <2>3
  <2>7. \A j \in 1..Len(r) : r[j] = x \/ \E i \in 1..Len(s) : r[j] = s[i]
    BY <2>1, <2>3, <2>4
  <2> HIDE DEF U
  <2> QED BY <1>2, <2>3, <2>5, <2>6, <2>7
<1> QED BY <1>1, <1>2

(* The inductive invariant.  As long as _edges is not full every first hop *)
(* handed out is in it, and once it is full the first hops come from it:   *)
(* so the identities ever used are the identities in _edges.               *)
Inv ==
  /\ TypeOK
  /\ Len(edges) <= MaxEdges
  /\ used = {edges[i].identity : i \in 1..Len(edges)}
  /\ RepeatOnlyAtEdge

(* A stored node list is a sequence of nodes with different identities.    *)
LEMMA NodeListIsSeq ==
  ASSUME NEW l \in NodeList
  PROVE  /\ l \in Seq(SNodeInfo)
         /\ \A i, j \in 1..Len(l) : SameNode(l[i], l[j]) => i = j
<1>1. PICK n \in 0..MaxList : l \in [1..n -> SNodeInfo]
  BY DEF NodeList
<1>2. n \in Nat
  BY MaxListAssumption
<1>3. l \in Seq(SNodeInfo) /\ DOMAIN l = 1..Len(l)
  BY <1>1, <1>2
<1> QED BY <1>3 DEF NodeList

(* What one successful selection does: hops 2.. come from the stored list  *)
(* at increasing indices; the first hop does too unless _edges is full, in *)
(* which case it is the first element of _edges and _edges stays as it is. *)
Selected(hops, edge) ==
  /\ Len(hops) > 0
  /\ path' = [hops EXCEPT ![1] = edge]
  /\ edges' \in insert(edges, edge)
  /\ used' = used \cup {edge.identity}
  /\ snodelist' = snodelist /\ crashed' = crashed
  /\ Ordered(hops, snodelist)
  /\ Len(edges) < MaxEdges => edge = hops[1]
  /\ Len(edges) >= MaxEdges =>
       /\ edge = edges[1] /\ 1 \in 1..Len(edges)
       /\ edges' = edges

(* Every successful MaybeSelectHopsTo does what Selected says.             *)
LEMMA SelectStep ==
  ASSUME TypeOK, MaybeSelectHopsTo
  PROVE  \E hops \in Seq(SNodeInfo), edge \in SNodeInfo : Selected(hops, edge)
<1>1. PICK hops \in sample(snodelist, DefaultHopLength) :
        hops # << >> /\ SelectAmong(hops)
  BY DEF MaybeSelectHopsTo
<1>2. PICK edge \in EdgeChoices(hops) :
        /\ path' = [hops EXCEPT ![1] = edge]
        /\ edges' \in insert(edges, edge)
        /\ used' = used \cup {edge.identity}
  BY <1>1 DEF SelectAmong
<1>3. snodelist \in Seq(SNodeInfo)
  BY NodeListIsSeq DEF TypeOK
<1>4. hops \in Seq(SNodeInfo) /\ Ordered(hops, snodelist)
  <2>1. DefaultHopLength \in Nat
    BY HopLengthAssumption
  <2> QED BY <1>1, <1>3, <2>1, SampleIsOrdered
<1>5. Len(hops) > 0
  BY <1>1, <1>4
<1>6. snodelist' = snodelist /\ crashed' = crashed
  BY DEF MaybeSelectHopsTo
<1>7. edges \in Seq(SNodeInfo)
  BY DEF TypeOK
<1>8. CASE Len(edges) < MaxEdges
  <2>1. edge = hops[1] /\ edge \in SNodeInfo
    BY <1>2, <1>4, <1>5, <1>7, <1>8, MaxEdgesAssumption DEF EdgeChoices
  <2>2. ~(Len(edges) >= MaxEdges)
    BY <1>7, <1>8, MaxEdgesAssumption
  <2>3. Selected(hops, edge)
    BY <1>2, <1>4, <1>5, <1>6, <2>1, <2>2, Zenon DEF Selected
  <2> QED BY <1>4, <2>1, <2>3
<1>9. CASE Len(edges) >= MaxEdges
  <2>1. edge \in pick_random(edges) /\ edges # << >>
    BY <1>2, <1>7, <1>9, MaxEdgesAssumption DEF EdgeChoices
  <2>2. edge = edges[1] /\ 1 \in 1..Len(edges) /\ edge \in SNodeInfo
    BY <1>7, <2>1, PickIsFirst
  <2>3. edges' = edges
    BY <1>2, <1>7, <2>2, InsertIsSetInsert DEF SameNode
  <2>4. ~(Len(edges) < MaxEdges)
    BY <1>7, <1>9, MaxEdgesAssumption
  <2>5. Selected(hops, edge)
    BY <1>2, <1>4, <1>5, <1>6, <2>2, <2>3, <2>4, Zenon DEF Selected
  <2> QED BY <1>4, <2>2, <2>5
<1>10. Len(edges) < MaxEdges \/ Len(edges) >= MaxEdges
  BY <1>7, MaxEdgesAssumption
<1> QED BY <1>8, <1>9, <1>10

(* MaybeSelectHopsTo keeps the invariant: the edge is in _edges            *)
(* afterwards, and _edges grows only below MaxEdges.                       *)
LEMMA SelectPreservesInv ==
  ASSUME Inv, MaybeSelectHopsTo
  PROVE  Inv'
<1> USE DEF Inv
<1>a. PICK hops \in Seq(SNodeInfo), edge \in SNodeInfo : Selected(hops, edge)
  BY SelectStep
<1>1. /\ Len(hops) > 0
      /\ path' = [hops EXCEPT ![1] = edge]
      /\ edges' \in insert(edges, edge)
      /\ used' = used \cup {edge.identity}
      /\ snodelist' = snodelist /\ crashed' = crashed
      /\ \E f \in [1..Len(hops) -> 1..Len(snodelist)] :
           /\ \A i, j \in 1..Len(hops) : i < j => f[i] < f[j]
           /\ \A i \in 1..Len(hops) : hops[i] = snodelist[f[i]]
      /\ Len(edges) < MaxEdges => edge = hops[1]
      /\ Len(edges) >= MaxEdges =>
           /\ edge = edges[1] /\ 1 \in 1..Len(edges)
           /\ edges' = edges
  BY <1>a DEF Selected, Ordered
<1>2. edges \in Seq(SNodeInfo) /\ edges' \in Seq(SNodeInfo)
  BY <1>1, InsertIsSetInsert DEF TypeOK
<1>3. path' \in Seq(SNodeInfo) /\ Len(path') = Len(hops)
  BY <1>1
<1>4. edge.identity \in Identity
  BY DEF SNodeInfo
<1>5. TypeOK'
  BY <1>1, <1>2, <1>3, <1>4 DEF TypeOK
<1>6. /\ Len(edges') <= MaxEdges
      /\ used' = {edges'[i].identity : i \in 1..Len(edges')}
  <2>1. CASE \E i \in 1..Len(edges) : SameNode(edges[i], edge)
    <3>1. edges' = edges
      BY <1>1, <1>2, <2>1, InsertIsSetInsert
    <3>2. edge.identity \in used
      BY <2>1 DEF SameNode
    <3> QED BY <1>1, <3>1, <3>2
  <2>2. CASE \A i \in 1..Len(edges) : ~SameNode(edges[i], edge)
    <3>1. Len(edges) < MaxEdges
      BY <1>1, <1>2, <2>2, MaxEdgesAssumption DEF SameNode
    <3>2. /\ Len(edges') = Len(edges) + 1
          /\ \A i \in 1..Len(edges) :
               \E j \in 1..Len(edges') : edges'[j] = edges[i]
          /\ \E j \in 1..Len(edges') : edges'[j] = edge
          /\ \A j \in 1..Len(edges') :
               edges'[j] = edge \/ \E i \in 1..Len(edges) : edges'[j] = edges[i]
      BY <1>1, <1>2, <2>2, InsertIsSetInsert
    <3>3. Len(edges') <= MaxEdges
      BY <1>2, <3>1, <3>2, MaxEdgesAssumption
    <3>4. ASSUME NEW u \in used'
          PROVE  u \in {edges'[i].identity : i \in 1..Len(edges')}
      <4>1. CASE u = edge.identity
        BY <3>2, <4>1
      <4>2. CASE u \in used
        <5>1. PICK i \in 1..Len(edges) : u = edges[i].identity
          BY <4>2
        <5>2. PICK j \in 1..Len(edges') : edges'[j] = edges[i]
          BY <3>2
        <5> QED BY <5>1, <5>2
      <4> QED BY <1>1, <4>1, <4>2
    <3>5. ASSUME NEW j \in 1..Len(edges')
          PROVE  edges'[j].identity \in used'
      BY <1>1, <3>2
    <3> QED BY <3>3, <3>4, <3>5
  <2> QED BY <2>1, <2>2
<1>7. RepeatOnlyAtEdge'
  <2> SUFFICES ASSUME NEW i \in 1..Len(path'), NEW j \in 1..Len(path'),
                      i < j, SameNode(path'[i], path'[j])
               PROVE  i = 1 /\ Full'
    BY DEF RepeatOnlyAtEdge, SameNode
  <2>1. PICK f \in [1..Len(hops) -> 1..Len(snodelist)] :
                /\ \A p, q \in 1..Len(hops) : p < q => f[p] < f[q]
                /\ \A p \in 1..Len(hops) : hops[p] = snodelist[f[p]]
    BY <1>1
  <2>2. \A p, q \in 1..Len(snodelist) :
          SameNode(snodelist[p], snodelist[q]) => p = q
    BY NodeListIsSeq DEF TypeOK
  <2>3. snodelist \in Seq(SNodeInfo)
    BY NodeListIsSeq DEF TypeOK
  <2>4. ~SameNode(hops[i], hops[j])
    <3>1. i \in 1..Len(hops) /\ j \in 1..Len(hops)
      BY <1>3
    <3>2. f[i] \in 1..Len(snodelist) /\ f[j] \in 1..Len(snodelist) /\ f[i] < f[j]
      BY <2>1, <3>1
    <3>3. f[i] # f[j]
      BY <2>3, <3>2
    <3> QED BY <2>1, <2>2, <3>1, <3>2, <3>3
  <2>5. path'[j] = hops[j] /\ (path'[i] # hops[i] => i = 1 /\ edge # hops[1])
    BY <1>1, <1>3
  <2>6. path'[i] # hops[i]
    BY <2>4, <2>5
  <2>7. Len(edges) = MaxEdges /\ edges' = edges
    BY <1>1, <1>2, <2>5, <2>6, MaxEdgesAssumption
  <2> QED BY <2>5, <2>6, <2>7 DEF Full
<1> QED BY <1>5, <1>6, <1>7

(* The invariant, and with it the type correctness of the selector's       *)
(* state, holds whatever node lists are stored and paths selected.         *)
THEOREM InvHolds == Spec => []Inv
<1>1. Init => Inv
  <2> SUFFICES ASSUME Init PROVE Inv
    OBVIOUS
  <2>1. << >> \in NodeList
    <3>1. << >> \in [1..0 -> SNodeInfo] /\ 0 \in 0..MaxList
      BY MaxListAssumption
    <3> QED BY <3>1 DEF NodeList
  <2>2. TypeOK
    <3>1. << >> \in Seq(SNodeInfo) /\ {} \in SUBSET Identity
      OBVIOUS
    <3> QED BY <2>1, <3>1, Zenon DEF Init, TypeOK
  <2>3. Len(edges) <= MaxEdges /\ used = {edges[i].identity : i \in 1..Len(edges)}
    BY MaxEdgesAssumption DEF Init
  <2>4. RepeatOnlyAtEdge
    BY DEF Init, RepeatOnlyAtEdge
  <2> QED BY <2>2, <2>3, <2>4 DEF Inv
<1>2. Inv /\ [Next]_vars => Inv'
  <2> SUFFICES ASSUME Inv, [Next]_vars PROVE Inv'
    OBVIOUS
  <2>1. ASSUME NEW list \in NodeList, StoreNodeList(list) PROVE Inv'
    BY <2>1 DEF Inv, StoreNodeList, TypeOK, RepeatOnlyAtEdge, Full
  <2>2. CASE MaybeSelectHopsTo
    BY <2>2, SelectPreservesInv
  <2>3. CASE SelectFromEmptyList
    BY <2>3 DEF Inv, SelectFromEmptyList, TypeOK, RepeatOnlyAtEdge, Full
  <2>4. CASE UNCHANGED vars
    BY <2>4 DEF Inv, vars, TypeOK, RepeatOnlyAtEdge, Full
  <2> QED BY <2>1, <2>2, <2>3, <2>4 DEF Next
<1> QED BY <1>1, <1>2, PTL DEF Spec

(* The two containers, the returned path and the history keep their types. *)
THEOREM TypeCorrect == Spec => []TypeOK
BY InvHolds, PTL DEF Inv

(* At most MaxEdges different first hops over the selector's whole life.   *)
THEOREM EdgeBudgetHolds == Spec => []EdgeBudget
<1>1. Inv => EdgeBudget
  <2> SUFFICES ASSUME Inv PROVE Cardinality(used) <= MaxEdges
    BY DEF EdgeBudget
  <2> DEFINE n == Len(edges)
             f == [i \in 1..n |-> edges[i].identity]
  <2>1. n \in Nat /\ n <= MaxEdges
    BY DEF Inv, TypeOK
  <2>2. f \in Surjection(1..n, used)
    <3>1. f \in [1..n -> used]
      BY DEF Inv
    <3>2. \A u \in used : \E i \in 1..n : f[i] = u
      BY DEF Inv
    <3> QED BY <3>1, <3>2 DEF Surjection
  <2> HIDE DEF n, f
  <2>3. IsFiniteSet(1..n) /\ Cardinality(1..n) = n
    BY <2>1, FS_Interval
  <2>4. IsFiniteSet(used) /\ Cardinality(used) <= Cardinality(1..n)
    BY <2>2, <2>3, FS_Surjection
  <2>5. Cardinality(used) \in Nat
    BY <2>4, FS_CardinalityType
  <2> QED BY <2>1, <2>3, <2>4, <2>5, MaxEdgesAssumption
<1> QED BY <1>1, InvHolds, PTL

(* Only the sticky first hop can come a second time on a path.             *)
THEOREM RepeatOnlyAtEdgeHolds == Spec => []RepeatOnlyAtEdge
BY InvHolds, PTL DEF Inv

(* A full _edges is frozen and every later path starts at its first node.  *)
THEOREM EdgePinnedHolds == Spec => EdgePinned
<1>1. ASSUME Inv, [Next]_vars, Full
      PROVE  edges' = edges /\ (path' # path => path'[1] = edges[1])
  <2>1. ASSUME NEW list \in NodeList, StoreNodeList(list)
        PROVE  edges' = edges /\ path' = path
    BY <2>1 DEF StoreNodeList
  <2>2. CASE MaybeSelectHopsTo
    <3>1. PICK hops \in Seq(SNodeInfo), edge \in SNodeInfo : Selected(hops, edge)
      BY <1>1, <2>2, SelectStep DEF Inv
    <3>2. Len(edges) >= MaxEdges
      BY <1>1, MaxEdgesAssumption DEF Full
    <3>3. path' = [hops EXCEPT ![1] = edge] /\ edge = edges[1] /\ Len(hops) > 0
      BY <3>1, <3>2 DEF Selected
    <3> QED BY <3>1, <3>2, <3>3 DEF Selected
  <2>3. CASE SelectFromEmptyList
    BY <2>3 DEF SelectFromEmptyList
  <2>4. CASE UNCHANGED vars
    BY <2>4 DEF vars
  <2> QED BY <1>1, <2>1, <2>2, <2>3, <2>4 DEF Next
<1>2. Inv /\ [Next]_vars =>
        [Full => edges' = edges /\ (path' # path => path'[1] = edges[1])]_vars
  BY <1>1
<1> QED BY <1>2, InvHolds, PTL DEF Spec, EdgePinned

(* Every hop comes from the list stored last, a sticky first hop excepted. *)
THEOREM OnlyStickyEdgeIsStaleHolds == Spec => OnlyStickyEdgeIsStale
<1> DEFINE Fresh == \A i \in 1..Len(path') :
                      \/ path'[i] \in Range(snodelist)
                      \/ i = 1 /\ Full /\ path'[1] \in Range(edges)
<1>1. ASSUME Inv, [Next]_vars, path' # path
      PROVE  Fresh
  <2>1. MaybeSelectHopsTo
    BY <1>1 DEF Next, StoreNodeList, SelectFromEmptyList, vars
  <2>2. PICK hops \in Seq(SNodeInfo), edge \in SNodeInfo : Selected(hops, edge)
    BY <1>1, <2>1, SelectStep DEF Inv
  <2>3. Len(path') = Len(hops)
    BY <2>2 DEF Selected
  <2>4. \A i \in 1..Len(hops) : hops[i] \in Range(snodelist)
    <3>1. snodelist \in Seq(SNodeInfo)
      BY <1>1, NodeListIsSeq DEF Inv, TypeOK
    <3> QED BY <2>2, <3>1 DEF Selected, Ordered, Range
  <2> SUFFICES ASSUME NEW i \in 1..Len(path')
               PROVE  \/ path'[i] \in Range(snodelist)
                      \/ i = 1 /\ Full /\ path'[1] \in Range(edges)
    OBVIOUS
  <2>5. edges \in Seq(SNodeInfo) /\ Len(edges) <= MaxEdges
    BY <1>1 DEF Inv, TypeOK
  <2>6. CASE path'[i] = hops[i]
    BY <2>3, <2>4, <2>6
  <2>7. CASE path'[i] # hops[i]
    <3>1. i = 1 /\ path'[1] = edge /\ edge # hops[1]
      BY <2>2, <2>3, <2>7 DEF Selected
    <3>2. Len(edges) >= MaxEdges
      BY <2>2, <2>5, <3>1, MaxEdgesAssumption DEF Selected
    <3>3. edge = edges[1] /\ 1 \in 1..Len(edges)
      BY <2>2, <3>2 DEF Selected
    <3>4. edge \in Range(edges) /\ Full
      BY <2>5, <3>2, <3>3, MaxEdgesAssumption DEF Range, Full
    <3> QED BY <3>1, <3>4
  <2> QED BY <2>6, <2>7
<1>2. Inv /\ [Next]_vars => [path' # path => Fresh]_vars
  BY <1>1
<1> QED BY <1>2, InvHolds, PTL DEF Spec, OnlyStickyEdgeIsStale
===============================================================================
