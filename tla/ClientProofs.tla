------------------------------ MODULE ClientProofs -----------------------------
(***************************************************************************)
(* Proofs about Client for node lists of any length and any number of      *)
(* signals.                                                                *)
(***************************************************************************)
EXTENDS Client, TLAPS

Before == {"start", "waitlist", "selected"}

(* The ranges that the other invariants need.                              *)
RangeInv ==
  /\ transport \in {"curl", "omq"}
  /\ main \in Before \cup {"sending", "wait"}
  /\ request \in {"none", "connecting", "wire", "done"}
  /\ exit \in {None, "0", "1"}
  /\ signals \in Nat

(* The remote is set once, after the list was stored, from that list.      *)
ListInv ==
  /\ main = "start" => fetch = "none"
  /\ fetch \in {"none", "wire", "stored"} => remote = Unset
  /\ fetch = "stored" => 1 \in DOMAIN snodelist
  /\ remote \notin {Unset, None} =>
       \E i \in DOMAIN snodelist : snodelist[i] = remote

(* The payload exists as long as sendOnion's frame does, and with the      *)
(* client's transport that is until the request has its answer.            *)
RequestInv ==
  /\ payload <=> main = "sending"
  /\ request = "none" <=> main \in Before
  /\ request = "connecting" => Async /\ main = "sending"
  /\ main = "wait" /\ ~Async => request = "done"

(* With the client's transport: until the answer a signal is what sets the *)
(* exit promise; a client that survived the answer had no signal.          *)
SignalInv ==
  ~Async /\ Running =>
    /\ request # "done" => (signals = 0 <=> exit = None)
    /\ request = "done" => signals = 0 /\ exit # None

Inv ==
  /\ RangeInv /\ ListInv /\ RequestInv /\ SignalInv
  /\ ZeroMeansNoSignal /\ PayloadInScope

-------------------------------------------------------------------------------
(* A node list that is not empty has a first node.                         *)
LEMMA ListHasFirst ==
  ASSUME NEW list \in Selector!NodeList, list # << >>
  PROVE  1 \in DOMAIN list
<1>1. PICK n \in 0..MaxList : list \in [1..n -> Selector!SNodeInfo]
  BY DEF Selector!NodeList
<1>2. CASE n = 0
  BY <1>1, <1>2
<1>3. CASE n # 0
  BY <1>1, <1>3
<1> QED BY <1>2, <1>3

(* Setting the exit promise, or throwing, where a signal or an answer      *)
(* does: the promise gets a value, or the process ends by an exception.    *)
LEMMA SetExitOutcome ==
  ASSUME RangeInv, Running, NEW code \in {"0", "1"}, NEW inJob,
         set_exit(code, inJob) \/ Throw(inJob)
  PROVE  /\ exit' \in {None, "0", "1"}
         /\ ended' \in {None, "terminated"}
         /\ ~inJob => \/ ended' = "terminated"
                      \/ exit = None /\ exit' = code
BY DEF RangeInv, Running, set_exit, Throw

(* A signal is handled.                                                    *)
LEMMA SignalPreservesInv ==
  ASSUME Inv, _handle_signal
  PROVE  Inv'
<1> USE ConstantsAssumption DEF Inv
<1>1. /\ Running /\ set_exit("0", FALSE) /\ signals' = signals + 1
      /\ UNCHANGED <<selector, transport, main, remote, fetch, request, payload>>
  BY DEF _handle_signal
<1>2. /\ exit' \in {None, "0", "1"} /\ ended' \in {None, "terminated"}
      /\ ended' = "terminated" \/ (exit = None /\ exit' = "0")
  BY <1>1, SetExitOutcome
<1>3. signals \in Nat /\ signals' \in Nat /\ signals' # 0
  BY <1>1 DEF RangeInv
<1>4. RangeInv' /\ ListInv' /\ RequestInv'
  BY <1>1, <1>2, <1>3 DEF RangeInv, ListInv, RequestInv, Async, selector
<1>5. SignalInv'
  BY <1>1, <1>2, <1>3 DEF RangeInv, SignalInv, Async, Running
<1>6. ZeroMeansNoSignal' /\ PayloadInScope'
  BY <1>2 DEF ZeroMeansNoSignal, PayloadInScope
<1> QED BY <1>4, <1>5, <1>6

(* The answer to the onion request.                                        *)
LEMMA AnswerPreservesInv ==
  ASSUME Inv, NoResponse \/ Response
  PROVE  Inv'
<1> USE ConstantsAssumption DEF Inv
<1>1. /\ Running /\ request = "wire" /\ request' = "done"
      /\ UNCHANGED <<selector, transport, main, remote, fetch, payload, signals>>
  BY DEF NoResponse, Response
<1>2. main = "sending" \/ (main = "wait" /\ Async)
  BY <1>1 DEF RangeInv, RequestInv, Before
<1>3. \/ \E code \in {"0", "1"} : set_exit(code, Async) \/ Throw(Async)
      \/ ended' = "undefined" /\ exit' = exit /\ main = "wait" /\ Async
  BY <1>2 DEF NoResponse, Response, RequestInv
<1>4. CASE ended' = "undefined" /\ exit' = exit /\ main = "wait" /\ Async
  BY <1>1, <1>4 DEF RangeInv, ListInv, RequestInv, SignalInv, ZeroMeansNoSignal,
                    PayloadInScope, Async, Running, selector, Before
<1>5. ASSUME NEW code \in {"0", "1"}, set_exit(code, Async) \/ Throw(Async)
      PROVE  Inv'
  <2>1. /\ exit' \in {None, "0", "1"} /\ ended' \in {None, "terminated"}
        /\ ~Async => ended' = "terminated" \/ (exit = None /\ exit' = code)
    BY <1>1, <1>5, SetExitOutcome
  <2>2. RangeInv' /\ ListInv' /\ RequestInv'
    BY <1>1, <1>2, <2>1 DEF RangeInv, ListInv, RequestInv, Async, selector, Before
  <2>3. SignalInv'
    BY <1>1, <2>1 DEF SignalInv, Async, Running
  <2>4. ZeroMeansNoSignal' /\ PayloadInScope'
    BY <2>1 DEF ZeroMeansNoSignal, PayloadInScope
  <2> QED BY <2>2, <2>3, <2>4
<1> QED BY <1>3, <1>4, <1>5

(* The connection is there, or it is not and the handler is called by the  *)
(* main thread.                                                            *)
LEMMA ConnectPreservesInv ==
  ASSUME Inv, Connected \/ NoConnection
  PROVE  Inv'
<1> USE ConstantsAssumption DEF Inv
<1>1. /\ Running /\ request = "connecting" /\ request' \in {"wire", "done"}
      /\ UNCHANGED <<selector, transport, main, remote, fetch, payload, signals>>
      /\ Async /\ main = "sending"
  BY DEF Connected, NoConnection, RequestInv
<1>2. exit' \in {None, "0", "1"} /\ ended' \in {None, "terminated"}
  <2>1. CASE Connected
    BY <2>1 DEF Connected, RangeInv, Running
  <2>2. CASE NoConnection
    BY <2>2, SetExitOutcome DEF NoConnection
  <2> QED BY <2>1, <2>2
<1> QED BY <1>1, <1>2 DEF RangeInv, ListInv, RequestInv, SignalInv, Async, selector,
           Before, ZeroMeansNoSignal, PayloadInScope

(* The node list arrives, and the remote is picked from it.                *)
LEMMA ListPreservesInv ==
  ASSUME Inv, RefreshNodeList \/ GotNodeList \/ SetRemote
  PROVE  Inv'
<1> USE ConstantsAssumption DEF Inv
<1>1. /\ Running /\ UNCHANGED <<transport, exit, request, payload, signals, ended>>
      /\ main' = main \/ (main = "start" /\ main' = "waitlist")
  BY DEF RefreshNodeList, GotNodeList, SetRemote
<1>2. ListInv'
  <2>1. CASE RefreshNodeList
    BY <2>1 DEF RefreshNodeList, ListInv, selector
  <2>2. CASE GotNodeList
    <3>1. PICK list \in Selector!NodeList :
            IF list = << >> THEN remote' = None /\ fetch' = "done" /\ UNCHANGED selector
                            ELSE Use(list) /\ fetch' = "stored"
      BY <2>2 DEF GotNodeList
    <3>2. main' = main /\ fetch = "wire"
      BY <2>2 DEF GotNodeList
    <3>3. CASE list = << >>
      BY <3>1, <3>2, <3>3 DEF ListInv
    <3>4. CASE list # << >>
      <4>1. snodelist' = list /\ remote' = remote /\ fetch' = "stored"
        BY <3>1, <3>4 DEF Use, Selector!StoreNodeList
      <4>2. 1 \in DOMAIN list
        BY <3>4, ListHasFirst
      <4> QED BY <3>2, <4>1, <4>2 DEF ListInv
    <3> QED BY <3>3, <3>4
  <2>3. CASE SetRemote
    BY <2>3 DEF SetRemote, ListInv, selector
  <2> QED BY <2>1, <2>2, <2>3
<1>3. RangeInv' /\ RequestInv'
  BY <1>1 DEF RangeInv, RequestInv, Async, Before
<1>4. SignalInv' /\ ZeroMeansNoSignal' /\ PayloadInScope'
  BY <1>1 DEF SignalInv, ZeroMeansNoSignal, PayloadInScope, Async, Running
<1> QED BY <1>2, <1>3, <1>4

(* sendOnion, up to its return.                                            *)
LEMMA SendPreservesInv ==
  ASSUME Inv, SelectHops \/ MakeAndSend \/ SendReturns
  PROVE  Inv'
<1> USE ConstantsAssumption DEF Inv
<1>1. Running /\ UNCHANGED <<transport, remote, exit, fetch, signals, ended, snodelist>>
  BY DEF SelectHops, MakeAndSend, SendReturns, Selector!MaybeSelectHopsTo, selector
<1>2. \/ main = "waitlist" /\ main' = "selected" /\ UNCHANGED <<request, payload>>
      \/ /\ main = "selected" /\ main' = "sending"
         /\ request' = (IF Async THEN "connecting" ELSE "wire") /\ payload' = TRUE
      \/ /\ main = "sending" /\ main' = "wait"
         /\ request = "done" \/ (Async /\ request = "wire")
         /\ UNCHANGED request /\ payload' = FALSE
  BY DEF SelectHops, MakeAndSend, SendReturns, answered
<1>3. RangeInv' /\ ListInv'
  BY <1>1, <1>2 DEF RangeInv, ListInv, Before
<1>4. RequestInv'
  BY <1>1, <1>2 DEF RequestInv, Async, Before
<1>5. SignalInv'
  BY <1>1, <1>2 DEF SignalInv, RequestInv, Async, Running, Before
<1>6. ZeroMeansNoSignal' /\ PayloadInScope'
  BY <1>1 DEF ZeroMeansNoSignal, PayloadInScope, Async, Running
<1> QED BY <1>3, <1>4, <1>5, <1>6

(* The process ends.                                                       *)
LEMMA EndPreservesInv ==
  ASSUME Inv, ReturnEarly \/ MakeOnionThrows \/ Exit \/ ListOverrun \/ NoAddress
  PROVE  Inv'
<1> USE ConstantsAssumption DEF Inv
<1>1. /\ Running /\ ended' # "undefined"
      /\ UNCHANGED <<selector, transport, main, remote, exit, fetch, request, payload,
                     signals>>
  BY DEF ReturnEarly, MakeOnionThrows, Exit, ListOverrun, NoAddress, RangeInv
<1>2. ended' = "0" => main = "wait" /\ exit # None
  BY DEF ReturnEarly, MakeOnionThrows, Exit, ListOverrun, NoAddress
<1>3. ended' # None
  BY DEF ReturnEarly, MakeOnionThrows, Exit, ListOverrun, NoAddress
<1>4. ZeroMeansNoSignal'
  BY <1>1, <1>2 DEF ZeroMeansNoSignal, SignalInv, RequestInv, Async
<1> QED BY <1>1, <1>3, <1>4 DEF RangeInv, ListInv, RequestInv, SignalInv,
           PayloadInScope, Async, Running, selector

(* The invariant holds in every reachable state.                           *)
THEOREM InvHolds == Spec => []Inv
<1>1. Init => Inv
  BY ConstantsAssumption
     DEF Init, Selector!Init, Inv, RangeInv, ListInv, RequestInv, SignalInv,
         ZeroMeansNoSignal, PayloadInScope, Before, Running
<1>2. Inv /\ [Next]_vars => Inv'
  <2>1. Inv /\ Next => Inv'
    BY SignalPreservesInv, AnswerPreservesInv, ListPreservesInv, SendPreservesInv,
       ConnectPreservesInv, EndPreservesInv DEF Next, Progress, AnswerArrives
  <2>2. Inv /\ UNCHANGED vars => Inv'
    BY DEF vars, selector, Inv, RangeInv, ListInv, RequestInv, SignalInv,
           ZeroMeansNoSignal, PayloadInScope, Async, Running
  <2> QED BY <2>1, <2>2
<1> QED BY <1>1, <1>2, PTL DEF Spec

(* With the client's transport no signal, whenever it arrives, leads to    *)
(* exit code 0.                                                            *)
THEOREM ZeroMeansNoSignalHolds == Spec => []ZeroMeansNoSignal
BY InvHolds, PTL DEF Inv

(* Only the library's transport can decrypt a response by a payload that   *)
(* is gone.                                                                *)
THEOREM PayloadInScopeHolds == Spec => []PayloadInScope
BY InvHolds, PTL DEF Inv

(* The client selects from a list with nodes, the remote among them.       *)
THEOREM SelectsFromNodesHolds == Spec => []SelectsFromNodes
<1>1. Inv => SelectsFromNodes
  BY DEF Inv, ListInv, SelectsFromNodes
<1> QED BY <1>1, InvHolds, PTL

(* What the client does with its selector, a selector promises: it stores  *)
(* a node list or selects hops, whatever the other threads and signals do, *)
(* so that the limits on first hops hold for a client's paths.             *)
THEOREM UsesSelector == Spec => Selector!Spec
<1>1. Init => Selector!Init
  BY DEF Init
<1>2. [Next]_vars => [Selector!Next]_Selector!vars
  <2> SUFFICES ASSUME [Next]_vars
               PROVE  Selector!Next \/ UNCHANGED Selector!vars
    OBVIOUS
  <2>1. CASE GotNodeList
    <3>1. PICK list \in Selector!NodeList :
            IF list = << >> THEN remote' = None /\ fetch' = "done" /\ UNCHANGED selector
                            ELSE Use(list) /\ fetch' = "stored"
      BY <2>1 DEF GotNodeList
    <3>2. CASE list = << >>
      BY <3>1, <3>2 DEF selector, Selector!vars
    <3>3. CASE list # << >>
      BY <3>1, <3>3 DEF Use, Selector!Next
    <3> QED BY <3>2, <3>3
  <2>2. CASE SelectHops
    BY <2>2 DEF SelectHops, Selector!Next
  <2>3. CASE UNCHANGED selector
    BY <2>3 DEF selector, Selector!vars
  <2>4. GotNodeList \/ SelectHops \/ UNCHANGED selector
    BY DEF Next, Progress, AnswerArrives, RefreshNodeList, SetRemote, ListOverrun,
           ReturnEarly, MakeOnionThrows, MakeAndSend, Connected, NoConnection,
           NoAddress, SendReturns, NoResponse, Response, Exit, _handle_signal, vars
  <2> QED BY <2>1, <2>2, <2>3, <2>4
<1> QED BY <1>1, <1>2, PTL DEF Spec, Selector!Spec

-------------------------------------------------------------------------------
(* What is proved of PathSelection, for the client's selector.             *)
Selects == INSTANCE PathSelectionProofs

(* The client's selector is one that PathSelectionProofs speaks of.        *)
LEMMA SelectorIsSelects == Selector!Spec => Selects!Spec
<1>1. Selector!Init => Selects!Init
  BY DEF Selector!Init, Selects!Init
<1>2. [Selector!Next]_Selector!vars => [Selects!Next]_Selects!vars
  <2> SUFFICES ASSUME [Selector!Next]_Selector!vars
               PROVE  Selects!Next \/ UNCHANGED Selects!vars
    OBVIOUS
  <2>1. CASE UNCHANGED Selector!vars
    BY <2>1 DEF Selector!vars, Selects!vars
  <2>2. ASSUME NEW list \in Selector!NodeList, Selector!StoreNodeList(list)
        PROVE  Selects!Next
    <3>1. list \in Selects!NodeList
      BY DEF Selector!NodeList, Selects!NodeList, Selector!SNodeInfo,
             Selects!SNodeInfo, Selector!SameNode, Selects!SameNode
    <3>2. Selects!StoreNodeList(list)
      BY <2>2 DEF Selector!StoreNodeList, Selects!StoreNodeList
    <3> QED BY <3>1, <3>2 DEF Selects!Next
  <2>3. CASE Selector!SelectFromEmptyList
    BY <2>3 DEF Selector!SelectFromEmptyList, Selects!SelectFromEmptyList,
                Selects!Next
  <2>4. CASE Selector!MaybeSelectHopsTo
    <3>1. Selects!MaybeSelectHopsTo
      BY <2>4 DEF Selector!MaybeSelectHopsTo, Selects!MaybeSelectHopsTo,
         Selector!SelectAmong, Selects!SelectAmong, Selector!EdgeChoices,
         Selects!EdgeChoices, Selector!insert, Selects!insert, Selector!SameNode,
         Selects!SameNode, Selector!sample, Selects!sample, Selector!pick_random,
         Selects!pick_random, Selector!Smaller, Selects!Smaller,
         Selector!Increasing, Selects!Increasing, Selector!Range, Selects!Range,
         Selector!Bijection, Selects!Bijection, Selector!Injection,
         Selects!Injection, Selector!Surjection, Selects!Surjection,
         Selector!IsInjective, Selects!IsInjective
    <3> QED BY <3>1 DEF Selects!Next
  <2> QED BY <2>1, <2>2, <2>3, <2>4 DEF Selector!Next
<1> QED BY <1>1, <1>2, PTL DEF Selector!Spec, Selects!Spec

(* Over its whole run a client's paths start at no more than MaxEdges      *)
(* different nodes, and visit a node twice only through a sticky first     *)
(* hop: what the selector promises, whatever threads and signals do.       *)
THEOREM ClientEdgeBudget == Spec => [](Selector!EdgeBudget /\ Selector!RepeatOnlyAtEdge)
<1>1. Selects!Spec => []Selects!EdgeBudget
  BY Selects!EdgeBudgetHolds, ConstantsAssumption
<1>2. Selects!Spec => []Selects!RepeatOnlyAtEdge
  BY Selects!RepeatOnlyAtEdgeHolds, ConstantsAssumption
<1>3. Selects!EdgeBudget => Selector!EdgeBudget
  BY DEF Selects!EdgeBudget, Selector!EdgeBudget, Selects!Cardinality,
         Selector!Cardinality
<1>4. Selects!RepeatOnlyAtEdge => Selector!RepeatOnlyAtEdge
  BY DEF Selects!RepeatOnlyAtEdge, Selector!RepeatOnlyAtEdge, Selects!SameNode,
         Selector!SameNode, Selects!Full, Selector!Full
<1> QED BY <1>1, <1>2, <1>3, <1>4, UsesSelector, SelectorIsSelects, PTL

(* Once a client's _edges is full every later path starts at its first     *)
(* node, and apart from such a first hop a path is made of the nodes that  *)
(* were fetched last.                                                      *)
THEOREM ClientEdgePinned ==
  Spec => Selector!EdgePinned /\ Selector!OnlyStickyEdgeIsStale
<1>1. Selects!Spec => Selects!EdgePinned
  BY Selects!EdgePinnedHolds, ConstantsAssumption
<1>2. Selects!Spec => Selects!OnlyStickyEdgeIsStale
  BY Selects!OnlyStickyEdgeIsStaleHolds, ConstantsAssumption
<1>3. Selects!EdgePinned => Selector!EdgePinned
  <2> DEFINE A == Selects!Full => /\ edges' = edges
                                  /\ path' # path => path'[1] = edges[1]
             B == Selector!Full => /\ edges' = edges
                                   /\ path' # path => path'[1] = edges[1]
  <2>1. [A]_Selects!vars => [B]_Selector!vars
    BY DEF Selects!Full, Selector!Full, Selects!vars, Selector!vars
  <2> QED BY <2>1, PTL DEF Selects!EdgePinned, Selector!EdgePinned
<1>4. Selects!OnlyStickyEdgeIsStale => Selector!OnlyStickyEdgeIsStale
  <2> DEFINE A == path' # path =>
                    \A i \in 1..Len(path') :
                      \/ path'[i] \in Selects!Range(snodelist)
                      \/ i = 1 /\ Selects!Full /\ path'[1] \in Selects!Range(edges)
             B == path' # path =>
                    \A i \in 1..Len(path') :
                      \/ path'[i] \in Selector!Range(snodelist)
                      \/ i = 1 /\ Selector!Full /\ path'[1] \in Selector!Range(edges)
  <2>1. [A]_Selects!vars => [B]_Selector!vars
    BY DEF Selects!Full, Selector!Full, Selects!vars, Selector!vars,
           Selects!Range, Selector!Range
  <2> QED BY <2>1, PTL DEF Selects!OnlyStickyEdgeIsStale,
                           Selector!OnlyStickyEdgeIsStale
<1> QED BY <1>1, <1>2, <1>3, <1>4, UsesSelector, SelectorIsSelects, PTL

-------------------------------------------------------------------------------
(* The fetch is made as the client starts, and sets the remote as it ends. *)
FetchInv ==
  /\ main # "start" => fetch \in {"wire", "stored", "done"}
  /\ fetch = "stored" => snodelist[1] \in Selector!SNodeInfo
  /\ fetch = "done" => remote # Unset

(* Something of the client's, of its fetch or of its request can go on,    *)
(* and does not have to wait for a post to end.                            *)
CanGoOn ==
  \/ main \in {"start", "selected"}
  \/ fetch \in {"wire", "stored"}
  \/ main = "waitlist" /\ remote # Unset
  \/ main = "sending" /\ answered
  \/ request = "connecting" \/ (Async /\ request = "wire")
  \/ main = "wait" /\ exit # None

(* The client waits for ever, or for a signal, in two ways only: for a     *)
(* post that does not end, and with the library's transport, whose worker  *)
(* swallows the exception of a handler that has not set the exit promise.  *)
HangsInTwoWays ==
  Running /\ ~CanGoOn =>
    \/ ~Async /\ main = "sending" /\ request = "wire"
    \/ Async /\ main = "wait" /\ request = "done" /\ exit = None

(* CanGoOn says what it should: where a step of the client is possible it  *)
(* holds.                                                                  *)
LEMMA ProgressCanGoOn == Progress => Running /\ CanGoOn
BY DEF Progress, AnswerArrives, CanGoOn, RefreshNodeList, GotNodeList, SetRemote,
       ListOverrun, ReturnEarly, SelectHops, MakeOnionThrows, MakeAndSend, Connected,
       NoConnection, NoAddress, SendReturns, NoResponse, Response, Exit

(* With the client's own transport there is always something to wait for   *)
(* that comes, short of a post: the safety half of Ends.                   *)
THEOREM HangsInTwoWaysHolds == Spec => []HangsInTwoWays
<1>1. Init => FetchInv
  BY DEF Init, FetchInv
<1>2. Inv /\ FetchInv /\ [Next]_vars => FetchInv'
  <2> SUFFICES ASSUME Inv, FetchInv, [Next]_vars PROVE FetchInv'
    OBVIOUS
  <2>1. CASE RefreshNodeList
    BY <2>1, ConstantsAssumption DEF RefreshNodeList, FetchInv
  <2>2. CASE GotNodeList
    <3>1. PICK list \in Selector!NodeList :
            IF list = << >> THEN remote' = None /\ fetch' = "done" /\ UNCHANGED selector
                            ELSE Use(list) /\ fetch' = "stored"
      BY <2>2 DEF GotNodeList
    <3>2. CASE list = << >>
      BY <2>2, <3>1, <3>2, ConstantsAssumption DEF GotNodeList, FetchInv
    <3>3. CASE list # << >>
      <4>1. PICK n \in 0..MaxList : list \in [1..n -> Selector!SNodeInfo]
        BY DEF Selector!NodeList
      <4>2. 1 \in DOMAIN list
        BY <3>3, ListHasFirst
      <4>3. list[1] \in Selector!SNodeInfo
        BY <4>1, <4>2
      <4>4. snodelist' = list /\ fetch' = "stored"
        BY <3>1, <3>3 DEF Use, Selector!StoreNodeList
      <4> QED BY <4>3, <4>4 DEF FetchInv
    <3> QED BY <3>2, <3>3
  <2>3. CASE SetRemote
    <3>1. snodelist[1] # Unset
      BY <2>3, ConstantsAssumption DEF SetRemote, FetchInv, Selector!SNodeInfo
    <3> QED BY <2>3, <3>1 DEF SetRemote, FetchInv
  <2>4. CASE /\ UNCHANGED <<fetch, remote, snodelist>>
             /\ main' # "start" => main # "start"
    BY <2>4 DEF FetchInv
  <2>5. CASE SelectHops
    BY <2>4, <2>5 DEF SelectHops, Selector!MaybeSelectHopsTo
  <2>6. CASE \/ ListOverrun \/ ReturnEarly \/ MakeOnionThrows \/ MakeAndSend
             \/ Connected \/ NoConnection \/ NoAddress \/ SendReturns
             \/ NoResponse \/ Response \/ Exit \/ _handle_signal
    BY <2>4, <2>6 DEF ListOverrun, ReturnEarly, MakeOnionThrows, MakeAndSend,
         Connected, NoConnection, NoAddress, SendReturns, NoResponse, Response,
         Exit, _handle_signal, selector
  <2>7. CASE UNCHANGED vars
    BY <2>4, <2>7 DEF vars, selector
  <2> QED BY <2>1, <2>2, <2>3, <2>5, <2>6, <2>7 DEF Next, Progress, AnswerArrives
<1>3. Inv /\ FetchInv => HangsInTwoWays
  <2> SUFFICES ASSUME Inv, FetchInv, Running, ~CanGoOn
               PROVE  \/ ~Async /\ main = "sending" /\ request = "wire"
                      \/ Async /\ main = "wait" /\ request = "done" /\ exit = None
    BY DEF HangsInTwoWays
  <2>1. main \in {"waitlist", "sending", "wait"}
    BY DEF Inv, RangeInv, Before, CanGoOn
  <2>2. main # "waitlist"
    BY DEF FetchInv, CanGoOn
  <2>3. request = "done" \/ (request = "wire" /\ ~Async)
    BY <2>1, <2>2 DEF Inv, RangeInv, RequestInv, Before, CanGoOn
  <2>4. CASE request = "wire" /\ ~Async
    BY <2>1, <2>2, <2>4 DEF Inv, RequestInv
  <2>5. CASE request = "done"
    <3>1. main = "wait" /\ exit = None
      BY <2>1, <2>2, <2>5 DEF CanGoOn, answered
    <3>2. Async
      BY <2>5, <3>1 DEF Inv, SignalInv
    <3> QED BY <2>5, <3>1, <3>2
  <2> QED BY <2>3, <2>4, <2>5
<1> QED BY <1>1, <1>2, <1>3, InvHolds, PTL DEF Spec
===============================================================================
