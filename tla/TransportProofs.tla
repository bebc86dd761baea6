---------------------------- MODULE TransportProofs ----------------------------
(***************************************************************************)
(* Proofs about Transport for any number of threads, workers, requests and *)
(* nodes.                                                                  *)
(***************************************************************************)
EXTENDS Transport, FiniteSetTheorems, TLAPS

InCall == {"connect", "wait", "request"}

(* A thread inside SendPayload sends a request of its own.                 *)
ThreadInv ==
  \A t \in Threads :
    /\ pc[t] \in InCall <=> req[t] # None
    /\ req[t] # None => phase[req[t]] = "calling" /\ caller[req[t]] = t
    /\ pc[t] = "connect" => attempt[req[t]] = "none"

(* An attempt whose callback is still to run has its caller waiting for it *)
(* (PromiseInScope with the witness made explicit); a request that was not *)
(* sent has left no trace.                                                 *)
RequestInv ==
  \A r \in Requests :
    /\ phase[r] = "unsent" <=> caller[r] = None
    /\ phase[r] = "unsent" => attempt[r] = "none" /\ via[r] = None
    /\ attempt[r] \in {"opening", "upjob", "failjob"} =>
         pc[caller[r]] = "wait" /\ req[caller[r]] = r
    /\ answers[r] = << >> <=> phase[r] # "done"

(* The cache holds established connections to the right node; a request    *)
(* that obtained a connection obtained the cached one; an established      *)
(* connection is in the cache's hands or its opener is about to emplace    *)
(* it.                                                                     *)
CacheInv ==
  /\ \A n \in Nodes :
       edges[n] # None => Edge[edges[n]] = n /\ attempt[edges[n]] = "up"
  /\ \A r \in Requests : via[r] # None => via[r] = edges[Edge[r]]
  /\ \A r \in Requests :
       attempt[r] = "up" =>
         edges[Edge[r]] # None \/ (pc[caller[r]] = "wait" /\ req[caller[r]] = r)

Live == {"opening", "upjob", "up"}

(* A thread has at most one live connection attempt to a node, and none    *)
(* when it is about to start one.                                          *)
OpenerInv ==
  /\ \A r, s \in Requests :
       /\ attempt[r] \in Live /\ attempt[s] \in Live
       /\ caller[r] = caller[s] /\ Edge[r] = Edge[s]
       => r = s
  /\ \A t \in Threads, r \in Requests :
       pc[t] = "connect" /\ caller[r] = t /\ attempt[r] \in Live =>
         Edge[r] # Edge[req[t]]

(* What is requested is requested over a connection, and a request has a   *)
(* result from OxenMQ only while the job for it is queued.                 *)
WireInv ==
  /\ \A t \in Threads : pc[t] = "request" => via[req[t]] # None
  /\ \A r \in Requests :
       /\ phase[r] = "wire" => via[r] # None
       /\ phase[r] # "replyjob" => reply[r] = NoReply

Inv == TypeOK /\ ThreadInv /\ RequestInv /\ CacheInv /\ OpenerInv /\ WireInv

(* Looking a connection up keeps the invariant: what the cache yields is   *)
(* an established connection to the request's node.                        *)
LEMMA SendPayloadPreservesInv ==
  ASSUME Inv, NEW t \in Threads, NEW r \in Requests, SendPayload(t, r)
  PROVE  Inv'
<1> USE ThreadsAssumption, RequestsAssumption, EdgeAssumption
    DEF Inv, SendPayload, Threads
<1>1. TypeOK'
  BY DEF TypeOK, PC, Attempt, Phase, Reply
<1>2. ThreadInv'
  BY DEF TypeOK, ThreadInv, RequestInv, InCall
<1>3. RequestInv'
  BY DEF TypeOK, ThreadInv, RequestInv, InCall
<1>4. CacheInv'
  BY DEF TypeOK, ThreadInv, RequestInv, CacheInv, InCall
<1>5. OpenerInv'
  BY DEF TypeOK, ThreadInv, RequestInv, CacheInv, OpenerInv, InCall, Live
<1>6. WireInv'
  BY DEF TypeOK, ThreadInv, RequestInv, WireInv, InCall
<1> QED BY <1>1, <1>2, <1>3, <1>4, <1>5, <1>6

(* Starting an attempt keeps the invariant: the thread has no other live   *)
(* attempt for this node.                                                  *)
LEMMA ConnectRemotePreservesInv ==
  ASSUME Inv, NEW t \in Threads, ConnectRemote(t)
  PROVE  Inv'
<1> USE ThreadsAssumption, RequestsAssumption, EdgeAssumption
    DEF Inv, ConnectRemote, Threads
<1>0. req[t] \in Requests /\ caller[req[t]] = t /\ phase[req[t]] = "calling"
  BY DEF TypeOK, ThreadInv, InCall
<1>1. TypeOK'
  BY <1>0 DEF TypeOK, PC, Attempt, Phase, Reply
<1>2. ThreadInv'
  BY <1>0 DEF TypeOK, ThreadInv, RequestInv, InCall
<1>3. RequestInv'
  BY <1>0 DEF TypeOK, ThreadInv, RequestInv, InCall
<1>4. CacheInv'
  BY <1>0 DEF TypeOK, ThreadInv, RequestInv, CacheInv, InCall
<1>5. OpenerInv'
  <2>1. \A r \in Requests :
          caller[r] = t /\ attempt[r] \in Live => Edge[r] # Edge[req[t]]
    BY DEF OpenerInv
  <2>2. /\ attempt' = [attempt EXCEPT ![req[t]] = "opening"]
        /\ pc' = [pc EXCEPT ![t] = "wait"]
        /\ UNCHANGED <<caller, req>>
    OBVIOUS
  <2>3. attempt \in [Requests -> Attempt] /\ pc \in [Threads -> PC]
    BY DEF TypeOK
  <2> QED BY ONLY <1>0, <2>1, <2>2, <2>3, OpenerInv DEF OpenerInv, Live
<1>6. WireInv'
  BY <1>0 DEF TypeOK, ThreadInv, RequestInv, WireInv, InCall
<1> QED BY <1>1, <1>2, <1>3, <1>4, <1>5, <1>6

(* An address that is none keeps the invariant: the call leaves no trace.  *)
LEMMA NoAddressPreservesInv ==
  ASSUME Inv, NEW t \in Threads, NoAddress(t)
  PROVE  Inv'
<1> USE ThreadsAssumption, RequestsAssumption, EdgeAssumption
    DEF Inv, NoAddress, Threads
<1>0. req[t] \in Requests /\ caller[req[t]] = t /\ phase[req[t]] = "calling"
  BY DEF TypeOK, ThreadInv, InCall
<1>1. TypeOK'
  BY <1>0 DEF TypeOK, PC, Attempt, Phase, Reply
<1>2. ThreadInv'
  BY <1>0 DEF TypeOK, ThreadInv, RequestInv, InCall
<1>3. RequestInv'
  BY <1>0 DEF TypeOK, ThreadInv, RequestInv, InCall
<1>4. CacheInv'
  BY <1>0 DEF TypeOK, ThreadInv, RequestInv, CacheInv, InCall
<1>5. OpenerInv'
  BY <1>0 DEF TypeOK, ThreadInv, RequestInv, CacheInv, OpenerInv, InCall, Live
<1>6. WireInv'
  BY <1>0 DEF TypeOK, ThreadInv, RequestInv, WireInv, InCall
<1> QED BY <1>1, <1>2, <1>3, <1>4, <1>5, <1>6

(* emplace keeps the invariant: whoever opened it, the cached connection   *)
(* is the one returned.                                                    *)
LEMMA ConnectedPreservesInv ==
  ASSUME Inv, NEW t \in Threads, Connected(t)
  PROVE  Inv'
<1> USE ThreadsAssumption, RequestsAssumption, EdgeAssumption
    DEF Inv, Connected, emplace, Threads
<1>0. req[t] \in Requests /\ caller[req[t]] = t /\ phase[req[t]] = "calling"
  BY DEF TypeOK, ThreadInv, InCall
<1>1. TypeOK'
  BY <1>0 DEF TypeOK, PC, Attempt, Phase, Reply
<1>2. ThreadInv'
  BY <1>0 DEF TypeOK, ThreadInv, RequestInv, InCall
<1>3. RequestInv'
  BY <1>0 DEF TypeOK, ThreadInv, RequestInv, InCall
<1>4. CacheInv'
  <2> DEFINE n == Edge[req[t]]
             kept == IF edges[n] = None THEN req[t] ELSE edges[n]
  <2>1. n \in Nodes /\ kept \in Requests /\ kept # None
    BY <1>0 DEF TypeOK
  <2>2. Edge[kept] = n /\ attempt[kept] = "up"
    BY <1>0, <2>1 DEF CacheInv
  <2>3. /\ edges' = [edges EXCEPT ![n] = kept]
        /\ via' = [via EXCEPT ![req[t]] = kept]
        /\ edges[n] # None => kept = edges[n]
    BY <1>0, <2>1 DEF TypeOK
  <2> HIDE DEF kept
  <2>4. \A m \in Nodes :
          edges'[m] # None => Edge[edges'[m]] = m /\ attempt'[edges'[m]] = "up"
    BY <2>1, <2>2, <2>3 DEF TypeOK, CacheInv
  <2>5. \A r \in Requests : via'[r] # None => via'[r] = edges'[Edge[r]]
    BY <1>0, <2>1, <2>3 DEF TypeOK, CacheInv
  <2>6. ASSUME NEW r \in Requests, attempt'[r] = "up"
        PROVE  edges'[Edge[r]] # None
                 \/ (pc'[caller'[r]] = "wait" /\ req'[caller'[r]] = r)
    <3>1. CASE Edge[r] = n
      BY <2>1, <2>3, <3>1 DEF TypeOK
    <3>2. CASE Edge[r] # n
      <4>1. edges'[Edge[r]] = edges[Edge[r]]
        BY <2>3, <3>2 DEF TypeOK
      <4>2. edges[Edge[r]] # None \/ (pc[caller[r]] = "wait" /\ req[caller[r]] = r)
        BY <2>6 DEF CacheInv
      <4>3. req[caller[r]] = r => pc'[caller[r]] = pc[caller[r]]
        BY <1>0, <3>2 DEF TypeOK
      <4> QED BY <4>1, <4>2, <4>3
    <3> QED BY <3>1, <3>2
  <2> QED BY <2>4, <2>5, <2>6 DEF CacheInv
<1>5. OpenerInv'
  BY <1>0 DEF TypeOK, ThreadInv, RequestInv, CacheInv, OpenerInv, InCall, Live
<1>6. WireInv'
  <2>1. edges'[Edge[req[t]]] # None
    BY <1>0 DEF TypeOK
  <2>2. via'[req[t]] # None /\ pc[t] = "wait"
    BY <1>0, <2>1 DEF TypeOK
  <2> QED BY <1>0, <2>2 DEF TypeOK, ThreadInv, RequestInv, WireInv, InCall
<1> QED BY <1>1, <1>2, <1>3, <1>4, <1>5, <1>6

(* A failed attempt keeps the invariant: the handler had not been called.  *)
LEMMA ConnectFailedPreservesInv ==
  ASSUME Inv, NEW t \in Threads, ConnectFailed(t)
  PROVE  Inv'
<1> USE ThreadsAssumption, RequestsAssumption, EdgeAssumption
    DEF Inv, ConnectFailed, Refused, Respond, Threads
<1>0. req[t] \in Requests /\ caller[req[t]] = t /\ phase[req[t]] = "calling"
  BY DEF TypeOK, ThreadInv, InCall
<1>1. TypeOK'
  <2>1. Append(answers[req[t]], "nullopt") \in Seq(Answer)
    <3>1. answers[req[t]] \in Seq(Answer) /\ "nullopt" \in Answer
      BY <1>0 DEF TypeOK, Answer
    <3> QED BY <3>1
  <2> QED BY <1>0, <2>1 DEF TypeOK, PC, Phase
<1>2. ThreadInv'
  BY <1>0 DEF TypeOK, ThreadInv, RequestInv, InCall
<1>3. RequestInv'
  <2>1. answers[req[t]] = << >>
    BY <1>0 DEF RequestInv
  <2>2. Append(answers[req[t]], "nullopt") # << >>
    BY <2>1
  <2>3. answers'[req[t]] # << >>
    BY <1>0, <2>2 DEF TypeOK
  <2> QED BY <1>0, <2>3 DEF TypeOK, ThreadInv, RequestInv, InCall
<1>4. CacheInv'
  BY <1>0 DEF TypeOK, ThreadInv, RequestInv, CacheInv, InCall
<1>5. OpenerInv'
  BY <1>0 DEF TypeOK, ThreadInv, RequestInv, CacheInv, OpenerInv, InCall, Live
<1>6. WireInv'
  BY <1>0 DEF TypeOK, ThreadInv, RequestInv, WireInv, InCall
<1> QED BY <1>1, <1>2, <1>3, <1>4, <1>5, <1>6

(* Handing the request to OxenMQ keeps the invariant.                      *)
LEMMA RequestPreservesInv ==
  ASSUME Inv, NEW t \in Threads, Request(t)
  PROVE  Inv'
<1> USE ThreadsAssumption, RequestsAssumption, EdgeAssumption
    DEF Inv, Request, Threads
<1>0. req[t] \in Requests /\ caller[req[t]] = t /\ phase[req[t]] = "calling"
  BY DEF TypeOK, ThreadInv, InCall
<1>1. TypeOK'
  BY <1>0 DEF TypeOK, PC, Attempt, Phase, Reply
<1>2. ThreadInv'
  BY <1>0 DEF TypeOK, ThreadInv, RequestInv, InCall
<1>3. RequestInv'
  BY <1>0 DEF TypeOK, ThreadInv, RequestInv, InCall
<1>4. CacheInv'
  BY <1>0 DEF TypeOK, ThreadInv, RequestInv, CacheInv, InCall
<1>5. OpenerInv'
  BY <1>0 DEF TypeOK, ThreadInv, RequestInv, CacheInv, OpenerInv, InCall, Live
<1>6. WireInv'
  BY <1>0 DEF TypeOK, ThreadInv, RequestInv, WireInv, InCall
<1> QED BY <1>1, <1>2, <1>3, <1>4, <1>5, <1>6

(* The end of a handshake keeps the invariant: the caller goes on waiting. *)
LEMMA ConnectResultPreservesInv ==
  ASSUME Inv, NEW r \in Requests, ConnectResult(r)
  PROVE  Inv'
<1> USE ThreadsAssumption, RequestsAssumption, EdgeAssumption
    DEF Inv, ConnectResult, Threads
<1>1. TypeOK'
  BY DEF TypeOK, PC, Attempt, Phase, Reply
<1>2. ThreadInv'
  BY DEF TypeOK, ThreadInv, RequestInv, InCall
<1>3. RequestInv'
  BY DEF TypeOK, ThreadInv, RequestInv, InCall
<1>4. CacheInv'
  BY DEF TypeOK, ThreadInv, RequestInv, CacheInv, InCall
<1>5. OpenerInv'
  BY DEF TypeOK, ThreadInv, RequestInv, CacheInv, OpenerInv, InCall, Live
<1>6. WireInv'
  BY DEF TypeOK, ThreadInv, RequestInv, WireInv, InCall
<1> QED BY <1>1, <1>2, <1>3, <1>4, <1>5, <1>6

(* Setting the promise keeps the invariant: the caller still waits for it. *)
LEMMA SetPromisePreservesInv ==
  ASSUME Inv, NEW r \in Requests, SetPromise(r)
  PROVE  Inv'
<1> USE ThreadsAssumption, RequestsAssumption, EdgeAssumption
    DEF Inv, SetPromise, Callbacks, Threads
<1>1. TypeOK'
  BY DEF TypeOK, PC, Attempt, Phase, Reply
<1>2. ThreadInv'
  BY DEF TypeOK, ThreadInv, RequestInv, InCall
<1>3. RequestInv'
  BY DEF TypeOK, ThreadInv, RequestInv, InCall
<1>4. CacheInv'
  BY DEF TypeOK, ThreadInv, RequestInv, CacheInv, InCall
<1>5. OpenerInv'
  BY DEF TypeOK, ThreadInv, RequestInv, CacheInv, OpenerInv, InCall, Live
<1>6. WireInv'
  BY DEF TypeOK, ThreadInv, RequestInv, WireInv, InCall
<1> QED BY <1>1, <1>2, <1>3, <1>4, <1>5, <1>6

(* A broken connection keeps the invariant: nobody takes notice.           *)
LEMMA BreakPreservesInv ==
  ASSUME Inv, NEW c \in Requests, Break(c)
  PROVE  Inv'
BY DEF Inv, Break, TypeOK, ThreadInv, RequestInv, CacheInv, OpenerInv, WireInv

(* A result of a request keeps the invariant.                              *)
LEMMA RequestResultPreservesInv ==
  ASSUME Inv, NEW r \in Requests, RequestResult(r)
  PROVE  Inv'
<1> USE ThreadsAssumption, RequestsAssumption, EdgeAssumption
    DEF Inv, RequestResult, Threads
<1>1. TypeOK'
  BY DEF TypeOK, PC, Attempt, Phase, Reply
<1>2. ThreadInv'
  BY DEF TypeOK, ThreadInv, RequestInv, InCall
<1>3. RequestInv'
  BY DEF TypeOK, ThreadInv, RequestInv, InCall
<1>4. CacheInv'
  BY DEF TypeOK, ThreadInv, RequestInv, CacheInv, InCall
<1>5. OpenerInv'
  BY DEF TypeOK, ThreadInv, RequestInv, CacheInv, OpenerInv, InCall, Live
<1>6. WireInv'
  BY DEF TypeOK, ThreadInv, RequestInv, WireInv, InCall
<1> QED BY <1>1, <1>2, <1>3, <1>4, <1>5, <1>6

(* Calling the response handler keeps the invariant: it had not been       *)
(* called.                                                                 *)
LEMMA RunReplyPreservesInv ==
  ASSUME Inv, NEW w \in Workers, NEW r \in Requests, RunReply(w, r)
  PROVE  Inv'
<1> USE ThreadsAssumption, RequestsAssumption, EdgeAssumption
    DEF Inv, RunReply, Respond, Threads
<1>1. TypeOK'
  <2>1. Append(answers[r], Outcome(reply[r])) \in Seq(Answer)
    <3>1. answers[r] \in Seq(Answer) /\ Outcome(reply[r]) \in Answer
      BY DEF TypeOK, Answer, Outcome
    <3> QED BY <3>1
  <2>2. NoReply \in Reply
    BY MaxPartsAssumption DEF Reply, NoReply
  <2> QED BY <2>1, <2>2 DEF TypeOK, PC, Phase
<1>2. ThreadInv'
  BY DEF TypeOK, ThreadInv, RequestInv, InCall
<1>3. RequestInv'
  BY DEF TypeOK, ThreadInv, RequestInv, InCall
<1>4. CacheInv'
  BY DEF TypeOK, ThreadInv, RequestInv, CacheInv, InCall
<1>5. OpenerInv'
  BY DEF TypeOK, ThreadInv, RequestInv, CacheInv, OpenerInv, InCall, Live
<1>6. WireInv'
  BY DEF TypeOK, ThreadInv, RequestInv, WireInv, InCall
<1> QED BY <1>1, <1>2, <1>3, <1>4, <1>5, <1>6

(* The return of a response handler keeps the invariant.                   *)
LEMMA HandlerReturnPreservesInv ==
  ASSUME Inv, NEW w \in Workers, HandlerReturn(w)
  PROVE  Inv'
<1> USE ThreadsAssumption, RequestsAssumption, EdgeAssumption
    DEF Inv, HandlerReturn, Threads
<1>1. TypeOK'
  BY DEF TypeOK, PC, Attempt, Phase, Reply
<1>2. ThreadInv'
  BY DEF TypeOK, ThreadInv, RequestInv, InCall
<1>3. RequestInv'
  BY DEF TypeOK, ThreadInv, RequestInv, InCall
<1>4. CacheInv'
  BY DEF TypeOK, ThreadInv, RequestInv, CacheInv, InCall
<1>5. OpenerInv'
  BY DEF TypeOK, ThreadInv, RequestInv, CacheInv, OpenerInv, InCall, Live
<1>6. WireInv'
  BY DEF TypeOK, ThreadInv, RequestInv, WireInv, InCall
<1> QED BY <1>1, <1>2, <1>3, <1>4, <1>5, <1>6

(* The invariant holds in every reachable state.                           *)
THEOREM InvHolds == Spec => []Inv
<1>1. Init => Inv
  <2> SUFFICES ASSUME Init PROVE Inv
    OBVIOUS
  <2> USE ThreadsAssumption, RequestsAssumption, EdgeAssumption DEF Init, Threads
  <2>1. TypeOK
    <3>1. NoReply \in Reply
      BY MaxPartsAssumption DEF Reply, NoReply
    <3> QED BY <3>1 DEF TypeOK, PC, Attempt, Phase
  <2>2. ThreadInv /\ RequestInv
    BY DEF ThreadInv, RequestInv, InCall
  <2>3. CacheInv /\ OpenerInv /\ WireInv
    BY DEF CacheInv, OpenerInv, WireInv, Live
  <2> QED BY <2>1, <2>2, <2>3 DEF Inv
<1>2. Inv /\ [Next]_vars => Inv'
  <2> SUFFICES ASSUME Inv, [Next]_vars PROVE Inv'
    OBVIOUS
  <2>1. ASSUME NEW t \in Threads, NEW r \in Requests, SendPayload(t, r)
        PROVE  Inv'
    BY <2>1, SendPayloadPreservesInv
  <2>2. ASSUME NEW t \in Threads, ThreadStep(t) PROVE Inv'
    BY <2>2, ConnectRemotePreservesInv, NoAddressPreservesInv,
       ConnectedPreservesInv, ConnectFailedPreservesInv, RequestPreservesInv DEF ThreadStep
  <2>3. ASSUME NEW r \in Requests, RequestStep(r) PROVE Inv'
    BY <2>3, ConnectResultPreservesInv, SetPromisePreservesInv,
       RequestResultPreservesInv, RunReplyPreservesInv DEF RequestStep
  <2>4. ASSUME NEW w \in Workers, HandlerReturn(w) PROVE Inv'
    BY <2>4, HandlerReturnPreservesInv
  <2>5. CASE UNCHANGED vars
    BY <2>5 DEF vars, Inv, TypeOK, ThreadInv, RequestInv, CacheInv, OpenerInv,
                WireInv
  <2>6. ASSUME NEW c \in Requests, Break(c) PROVE Inv'
    BY <2>6, BreakPreservesInv
  <2> QED BY <2>1, <2>2, <2>3, <2>4, <2>5, <2>6 DEF Next, Progress
<1> QED BY <1>1, <1>2, PTL DEF Spec

(* The transport's, OxenMQ's and the threads' state keeps its types.       *)
THEOREM TypeCorrect == Spec => []TypeOK
BY InvHolds, PTL DEF Inv

(* All requests to a node share the one cached connection.                 *)
THEOREM SharedConnectionHolds == Spec => []SharedConnection
<1>1. Inv => SharedConnection
  BY EdgeAssumption DEF Inv, TypeOK, CacheInv, SharedConnection
<1> QED BY <1>1, InvHolds, PTL

(* No connection callback outlives the promise it refers to.               *)
THEOREM PromiseInScopeHolds == Spec => []PromiseInScope
<1>1. Inv => PromiseInScope
  <2> SUFFICES ASSUME Inv, NEW r \in Requests,
                      attempt[r] \in {"opening", "upjob", "failjob"}
               PROVE  \E t \in Threads : pc[t] = "wait" /\ req[t] = r
    BY DEF PromiseInScope
  <2>1. pc[caller[r]] = "wait" /\ req[caller[r]] = r /\ caller[r] # None
    BY DEF Inv, RequestInv
  <2>2. caller[r] \in Threads
    BY <2>1 DEF Inv, TypeOK
  <2> QED BY <2>1, <2>2
<1> QED BY <1>1, InvHolds, PTL

(* No thread opens a second connection to a node: the callers of the       *)
(* requests that opened connections to it are pairwise different.          *)
THEOREM LeakBoundHolds == Spec => []LeakBound
<1>1. Inv => LeakBound
  BY DEF Inv, OpenerInv, Live, LeakBound, Opened
<1> QED BY <1>1, InvHolds, PTL

(* With finitely many threads, no node ever has more connections open than *)
(* there are threads.                                                      *)
THEOREM ConnectionsBounded ==
  IsFiniteSet(Threads) =>
    (Spec => [](\A n \in Nodes : Cardinality(Opened(n)) <= Cardinality(Threads)))
<1> SUFFICES ASSUME IsFiniteSet(Threads)
             PROVE  Spec => [](\A n \in Nodes : Cardinality(Opened(n)) <= Cardinality(Threads))
  OBVIOUS
<1>1. Inv => \A n \in Nodes : Cardinality(Opened(n)) <= Cardinality(Threads)
  <2> SUFFICES ASSUME Inv, NEW n \in Nodes
               PROVE  Cardinality(Opened(n)) <= Cardinality(Threads)
    OBVIOUS
  <2> DEFINE f == [r \in Opened(n) |-> caller[r]]
  <2>1. \A r \in Opened(n) : caller[r] \in Threads
    BY DEF Opened, Inv, TypeOK, RequestInv
  <2>2. \A r, s \in Opened(n) : caller[r] = caller[s] => r = s
    BY DEF Opened, Inv, OpenerInv, Live
  <2>3. f \in Injection(Opened(n), Threads)
    BY <2>1, <2>2 DEF Injection, IsInjective
  <2> QED BY <2>3, FS_Injection
<1> QED BY <1>1, InvHolds, PTL

(* Every step of the transport is a step of the contract or leaves its     *)
(* state alone: the handler of a request is called at most once, only      *)
(* after the request was sent, with a body or nullopt.                     *)
THEOREM KeepsContractHolds == Spec => KeepsContract
<1> DEFINE mapped == {r \in Requests : phase[r] # "unsent"}
<1>1. Init => Contract!Init
  BY DEF Init, Contract!Init
<1>2. Inv /\ [Next]_vars => [Contract!Next]_Contract!vars
  <2> SUFFICES ASSUME Inv, [Next]_vars
               PROVE  Contract!Next \/ UNCHANGED Contract!vars
    OBVIOUS
  <2> USE DEF Contract!Next, Contract!vars
  <2>1. ASSUME NEW t \in Threads, NEW r \in Requests, SendPayload(t, r)
        PROVE  Contract!Send(r)
    BY <2>1 DEF Inv, TypeOK, SendPayload, Contract!Send
  <2>2. ASSUME NEW r \in Requests, NEW a \in Answer,
               phase[r] \notin {"unsent", "done"},
               phase' = [phase EXCEPT ![r] = "done"],
               answers' = [answers EXCEPT ![r] = Append(@, a)]
        PROVE  Contract!Respond(r)
    <3>1. answers[r] = << >>
      BY <2>2 DEF Inv, RequestInv
    <3>2. Append(answers[r], a) = <<a>>
      BY <3>1
    <3>3. answers' = [answers EXCEPT ![r] = <<a>>]
      BY <2>2, <3>2 DEF Inv, TypeOK
    <3>4. mapped' = mapped /\ r \in mapped
      BY <2>2 DEF Inv, TypeOK
    <3> QED BY <3>1, <3>3, <3>4 DEF Contract!Respond, Contract!Answer, Answer
  <2>3. ASSUME NEW t \in Threads, ThreadStep(t)
        PROVE  Contract!Next \/ UNCHANGED Contract!vars
    <3>0. req[t] \in Requests /\ phase[req[t]] = "calling"
      BY <2>3 DEF ThreadStep, ConnectRemote, NoAddress, Connected, ConnectFailed,
                  Request, Inv, TypeOK, ThreadInv, InCall
    <3>1. CASE ConnectRemote(t) \/ Connected(t)
      BY <3>1 DEF ConnectRemote, Connected
    <3>2. CASE ConnectFailed(t)
      BY <2>2, <3>0, <3>2 DEF ConnectFailed, Respond, Answer
    <3>3. CASE Request(t) \/ NoAddress(t)
      <4>1. mapped' = mapped
        BY <3>0, <3>3 DEF Request, NoAddress, Inv, TypeOK
      <4> QED BY <3>3, <4>1 DEF Request, NoAddress
    <3> QED BY <2>3, <3>1, <3>2, <3>3 DEF ThreadStep
  <2>4. ASSUME NEW r \in Requests, RequestStep(r)
        PROVE  Contract!Next \/ UNCHANGED Contract!vars
    <3>1. CASE ConnectResult(r) \/ SetPromise(r)
      BY <3>1 DEF ConnectResult, SetPromise
    <3>2. CASE RequestResult(r)
      <4>1. mapped' = mapped
        BY <3>2 DEF RequestResult, Inv, TypeOK
      <4> QED BY <3>2, <4>1 DEF RequestResult
    <3>3. ASSUME NEW w \in Workers, RunReply(w, r) PROVE Contract!Respond(r)
      BY <2>2, <3>3 DEF RunReply, Respond, Outcome, Answer
    <3> QED BY <2>4, <3>1, <3>2, <3>3 DEF RequestStep
  <2>5. ASSUME NEW w \in Workers, HandlerReturn(w)
        PROVE  UNCHANGED Contract!vars
    BY <2>5 DEF HandlerReturn
  <2>6. CASE UNCHANGED vars
    BY <2>6 DEF vars
  <2>7. ASSUME NEW c \in Requests, Break(c) PROVE UNCHANGED Contract!vars
    BY <2>7 DEF Break
  <2> QED BY <2>1, <2>3, <2>4, <2>5, <2>6, <2>7 DEF Next, Progress
<1> QED BY <1>1, <1>2, InvHolds, PTL DEF Spec, KeepsContract, Contract!Spec

(* A node whose cached connection broke is never reached again: emplace    *)
(* does not replace the cached connection, and every request to the node   *)
(* goes over it.                                                           *)
THEOREM UnreachableForGoodHolds == Spec => UnreachableForGood
<1> DEFINE Final(n) ==
      /\ edges'[n] = edges[n]
      /\ \A r \in Requests :
           Edge[r] = n /\ phase[r] # "replyjob" => ~reply'[r].success
<1>1. Inv /\ [Next]_vars => [\A n \in Nodes : edges[n] \in dead => Final(n)]_vars
  <2> SUFFICES ASSUME Inv, Next, NEW n \in Nodes, edges[n] \in dead
               PROVE  Final(n)
    OBVIOUS
  <2>1. edges[n] # None /\ edges[n] \in Requests
    BY RequestsAssumption DEF Inv, TypeOK
  <2>2. \A r \in Requests : phase[r] # "replyjob" => ~reply[r].success
    BY DEF Inv, WireInv, NoReply
  <2>3. ASSUME NEW t \in Threads, Connected(t) PROVE Final(n)
    <3>1. edges'[n] = edges[n]
      BY <2>1, <2>3 DEF Connected, emplace, Inv, TypeOK
    <3> QED BY <2>2, <2>3, <3>1 DEF Connected
  <2>4. ASSUME NEW r \in Requests, RequestResult(r) PROVE Final(n)
    <3>1. Edge[r] = n => via[r] = edges[n]
      BY <2>4 DEF RequestResult, Inv, WireInv, CacheInv
    <3>2. PICK m \in Reply : /\ via[r] \in dead => ~m.success
                            /\ reply' = [reply EXCEPT ![r] = m]
      BY <2>4 DEF RequestResult
    <3>3. ASSUME NEW s \in Requests, Edge[s] = n, phase[s] # "replyjob"
          PROVE  ~reply'[s].success
      <4>1. CASE s = r
        BY <3>1, <3>2, <3>3, <4>1 DEF Inv, TypeOK
      <4>2. CASE s # r
        BY <2>2, <3>2, <3>3, <4>2 DEF Inv, TypeOK
      <4> QED BY <4>1, <4>2
    <3> QED BY <2>4, <3>3 DEF RequestResult
  <2>5. ASSUME NEW w \in Workers, NEW r \in Requests, RunReply(w, r)
        PROVE  Final(n)
    <3>1. edges' = edges /\ reply' = [reply EXCEPT ![r] = NoReply]
      BY <2>5 DEF RunReply
    <3> QED BY <2>2, <3>1 DEF Inv, TypeOK, NoReply
  <2>6. CASE UNCHANGED <<edges, reply>>
    BY <2>2, <2>6
  <2> QED BY <2>3, <2>4, <2>5, <2>6
          DEF Next, Progress, ThreadStep, RequestStep, SendPayload, Break,
              ConnectRemote, NoAddress, ConnectFailed, Request, ConnectResult,
              SetPromise, HandlerReturn
<1> QED BY <1>1, InvHolds, PTL DEF Spec, UnreachableForGood

-------------------------------------------------------------------------------
(* The call of a request that is not yet on the wire is under way, and has *)
(* no connection until its attempt ends; workers make only the calls that  *)
(* handlers may make.                                                      *)
CallInv ==
  /\ \A r \in Requests :
       /\ phase[r] = "calling" => req[caller[r]] = r
       /\ caller[r] \in Workers => r \in FromHandler
  /\ \A t \in Threads :
       /\ pc[t] \in {"connect", "wait"} => via[req[t]] = None
       /\ pc[t] = "wait" => attempt[req[t]] # "none"

(* What a thread inside SendPayload refers to.                             *)
LEMMA InCallFacts ==
  ASSUME Inv, NEW t \in Threads, pc[t] \in InCall
  PROVE  req[t] \in Requests /\ caller[req[t]] = t /\ phase[req[t]] = "calling"
BY RequestsAssumption DEF Inv, TypeOK, ThreadInv

(* Every step of the transport keeps the invariant of the calls.           *)
LEMMA NextPreservesCallInv ==
  ASSUME Inv, CallInv, Next
  PROVE  CallInv'
<1>0. TypeOK /\ ThreadInv /\ RequestInv
  BY DEF Inv
<1> USE <1>0 DEF InCall
<1>1. ASSUME NEW t \in Threads, NEW r \in Requests, SendPayload(t, r)
      PROVE  CallInv'
  <2>1. /\ \A u \in Threads : u # t => pc'[u] = pc[u] /\ req'[u] = req[u]
        /\ pc'[t] = IF edges[Edge[r]] = None THEN "connect" ELSE "request"
        /\ req'[t] = r /\ caller'[r] = t /\ via'[r] = edges[Edge[r]]
        /\ \A s \in Requests : s # r => /\ caller'[s] = caller[s] /\ via'[s] = via[s]
                                        /\ phase'[s] = phase[s]
        /\ attempt' = attempt /\ phase[r] = "unsent" /\ pc[t] = "app"
    BY <1>1 DEF SendPayload, TypeOK
  <2>2. ASSUME NEW s \in Requests, phase'[s] = "calling"
        PROVE  req'[caller'[s]] = s
    <3>1. CASE s = r
      BY <2>1, <3>1
    <3>2. CASE s # r
      <4>1. req[caller[s]] = s /\ caller[s] \in Threads
        BY <2>1, <2>2, <3>2 DEF CallInv, TypeOK, RequestInv
      <4>2. caller[s] # t
        BY <2>1, <4>1, RequestsAssumption DEF ThreadInv
      <4> QED BY <2>1, <3>2, <4>1, <4>2
    <3> QED BY <3>1, <3>2
  <2>3. ASSUME NEW u \in Threads
        PROVE  /\ pc'[u] \in {"connect", "wait"} => via'[req'[u]] = None
               /\ pc'[u] = "wait" => attempt'[req'[u]] # "none"
    <3>1. CASE u = t
      BY <2>1, <3>1
    <3>2. CASE u # t /\ pc[u] \in {"connect", "wait"}
      <4>1. req[u] \in Requests /\ req[u] # r
        BY <2>1, <3>2, InCallFacts
      <4> QED BY <2>1, <3>2, <4>1 DEF CallInv
    <3> QED BY <2>1, <3>1, <3>2
  <2>4. ASSUME NEW s \in Requests, caller'[s] \in Workers PROVE s \in FromHandler
    BY <1>1, <2>1, <2>4 DEF SendPayload, CallInv
  <2> QED BY ONLY <2>2, <2>3, <2>4 DEF CallInv
<1>2. ASSUME NEW t \in Threads, ConnectRemote(t) PROVE CallInv'
  <2>1. req[t] \in Requests
    BY <1>2, InCallFacts DEF ConnectRemote
  <2> QED BY <1>2, <2>1 DEF ConnectRemote, CallInv, TypeOK
<1>3. ASSUME NEW t \in Threads, Connected(t) PROVE CallInv'
  <2>1. req[t] \in Requests /\ caller[req[t]] = t
    BY <1>3, InCallFacts DEF Connected
  <2>2. ASSUME NEW u \in Threads, u # t, pc[u] \in InCall PROVE req[u] # req[t]
    BY <2>1, <2>2, InCallFacts
  <2>3. /\ \A u \in Threads : u # t => pc'[u] = pc[u]
        /\ pc'[t] = "request"
        /\ \A s \in Requests : s # req[t] => via'[s] = via[s]
        /\ UNCHANGED <<req, attempt, phase, caller>>
    BY <1>3, <2>1 DEF Connected, TypeOK
  <2>4. ASSUME NEW u \in Threads
        PROVE  /\ pc'[u] \in {"connect", "wait"} => via'[req'[u]] = None
               /\ pc'[u] = "wait" => attempt'[req'[u]] # "none"
    <3>1. CASE u # t /\ pc[u] \in {"connect", "wait"}
      <4>1. req[u] \in Requests /\ req[u] # req[t]
        BY <2>2, <3>1, InCallFacts
      <4> QED BY <2>3, <3>1, <4>1 DEF CallInv
    <3> QED BY <2>3, <3>1
  <2> QED BY ONLY <2>3, <2>4, CallInv DEF CallInv
<1>4. ASSUME NEW t \in Threads, ConnectFailed(t) \/ Request(t) \/ NoAddress(t)
      PROVE  CallInv'
  <2>1. req[t] \in Requests /\ caller[req[t]] = t
    BY <1>4, InCallFacts DEF ConnectFailed, Request, NoAddress
  <2>2. /\ \A u \in Threads : u # t => pc'[u] = pc[u] /\ req'[u] = req[u]
        /\ pc'[t] = "app" /\ phase'[req[t]] # "calling"
        /\ \A s \in Requests : s # req[t] => phase'[s] = phase[s]
        /\ UNCHANGED <<via, attempt, caller>>
    BY <1>4, <2>1 DEF ConnectFailed, Request, NoAddress, Respond, TypeOK
  <2>3. ASSUME NEW s \in Requests, phase'[s] = "calling"
        PROVE  req'[caller'[s]] = s
    <3>1. s # req[t] /\ req[caller[s]] = s /\ caller[s] \in Threads
      BY <2>2, <2>3 DEF CallInv, RequestInv, TypeOK
    <3> QED BY <2>2, <3>1
  <2> QED BY <2>2, <2>3 DEF CallInv
<1>5. ASSUME NEW r \in Requests, ConnectResult(r) \/ SetPromise(r) PROVE CallInv'
  <2>1. /\ \A s \in Requests : attempt[s] # "none" => attempt'[s] # "none"
        /\ UNCHANGED <<pc, req, via, phase, caller>>
    BY <1>5 DEF ConnectResult, SetPromise, TypeOK
  <2>2. \A t \in Threads : pc[t] = "wait" => req[t] \in Requests
    BY InCallFacts
  <2> QED BY <2>1, <2>2 DEF CallInv
<1>6. ASSUME NEW r \in Requests,
             RequestResult(r) \/ \E w \in Workers : RunReply(w, r)
      PROVE  CallInv'
  <2>1. /\ \A s \in Requests : phase'[s] = "calling" => phase[s] = "calling"
        /\ UNCHANGED <<req, via, attempt, caller>>
    BY <1>6 DEF RequestResult, RunReply, Respond, TypeOK
  <2>2. \A t \in Threads : pc'[t] \in {"connect", "wait"} => pc'[t] = pc[t]
    BY <1>6 DEF RequestResult, RunReply, TypeOK
  <2> QED BY <2>1, <2>2 DEF CallInv
<1>7. ASSUME NEW w \in Workers, HandlerReturn(w) PROVE CallInv'
  <2>1. \A t \in Threads : pc'[t] \in {"connect", "wait"} => pc'[t] = pc[t]
    BY <1>7 DEF HandlerReturn, TypeOK
  <2> QED BY <1>7, <2>1 DEF HandlerReturn, CallInv
<1>8. ASSUME NEW c \in Requests, Break(c) PROVE CallInv'
  BY <1>8 DEF Break, CallInv
<1> QED BY <1>1, <1>2, <1>3, <1>4, <1>5, <1>6, <1>7, <1>8
        DEF Next, Progress, ThreadStep, RequestStep

(* The calls are as their invariant says in every reachable state.         *)
THEOREM CallInvHolds == Spec => []CallInv
<1>1. Init => CallInv
  BY ThreadsAssumption DEF Init, CallInv, Threads
<1>2. Inv /\ CallInv /\ [Next]_vars => CallInv'
  <2> SUFFICES ASSUME CallInv, UNCHANGED vars PROVE CallInv'
    BY NextPreservesCallInv
  <2> QED BY DEF vars, CallInv
<1> QED BY <1>1, <1>2, InvHolds, PTL DEF Spec

(* A request whose call threw has opened and obtained no connection.       *)
ThrewInv ==
  \A r \in Requests : phase[r] = "threw" => attempt[r] = "none" /\ via[r] = None

(* A call that threw leaves no trace.                                      *)
THEOREM ThrewInvHolds == Spec => []ThrewInv
<1>1. Init => ThrewInv
  BY DEF Init, ThrewInv
<1>2. ASSUME Inv, CallInv, ThrewInv, Next PROVE ThrewInv'
  <2>0. TypeOK /\ ThreadInv /\ RequestInv
    BY <1>2 DEF Inv
  <2> USE <2>0, <1>2 DEF ThrewInv
  <2>1. ASSUME NEW t \in Threads, NEW r \in Requests, SendPayload(t, r)
        PROVE  ThrewInv'
    BY <2>1 DEF SendPayload, TypeOK
  <2>2. ASSUME NEW t \in Threads, ThreadStep(t) PROVE ThrewInv'
    <3>1. req[t] \in Requests /\ phase[req[t]] = "calling"
      BY <2>2, InCallFacts DEF ThreadStep, ConnectRemote, NoAddress, Connected,
                               ConnectFailed, Request, InCall
    <3>2. CASE NoAddress(t)
      <4>1. attempt[req[t]] = "none" /\ via[req[t]] = None
        BY <3>2 DEF NoAddress, ThreadInv, CallInv
      <4> QED BY <3>1, <3>2, <4>1 DEF NoAddress, TypeOK
    <3>3. CASE ConnectRemote(t) \/ Connected(t)
      BY <3>1, <3>3 DEF ConnectRemote, Connected, TypeOK
    <3>4. CASE ConnectFailed(t) \/ Request(t)
      BY <3>1, <3>4 DEF ConnectFailed, Request, Respond, TypeOK
    <3> QED BY <2>2, <3>2, <3>3, <3>4 DEF ThreadStep
  <2>3. ASSUME NEW r \in Requests, RequestStep(r) PROVE ThrewInv'
    BY <2>3 DEF RequestStep, ConnectResult, SetPromise, RequestResult, RunReply,
                Respond, Callbacks, TypeOK
  <2>4. ASSUME NEW w \in Workers, HandlerReturn(w) PROVE ThrewInv'
    BY <2>4 DEF HandlerReturn
  <2>5. ASSUME NEW c \in Requests, Break(c) PROVE ThrewInv'
    BY <2>5 DEF Break
  <2> QED BY <2>1, <2>2, <2>3, <2>4, <2>5 DEF Next, Progress
<1>3. ThrewInv /\ UNCHANGED vars => ThrewInv'
  BY DEF ThrewInv, vars
<1> QED BY <1>1, <1>2, <1>3, InvHolds, CallInvHolds, PTL DEF Spec

(* A thread that neither waits for a promise nor for a job, and is not the *)
(* application's to move.                                                  *)
CanGoOn(t) ==
  \/ pc[t] \in {"connect", "request"}
  \/ pc[t] = "wait" /\ attempt[req[t]] \in {"up", "failed"}
  \/ pc[t] = "app" /\ t \in Workers

(* OxenMQ has something to report, and a worker to report it if need be.   *)
CanServe(r) ==
  \/ attempt[r] = "opening" \/ phase[r] = "wire"
  \/ /\ \E w \in Workers : pc[w] = "idle"
     /\ attempt[r] \in Callbacks \/ phase[r] = "replyjob"

Stuck == (\A t \in Threads : ~CanGoOn(t)) /\ (\A r \in Requests : ~CanServe(r))

(* Where the transport can take a step of its own it is not stuck.         *)
LEMMA ProgressNotStuck == Progress => ~Stuck
<1> SUFFICES ASSUME Progress PROVE ~Stuck
  OBVIOUS
<1>1. ASSUME NEW t \in Threads, ThreadStep(t) PROVE CanGoOn(t)
  BY <1>1 DEF CanGoOn, ThreadStep, ConnectRemote, NoAddress, Connected,
              ConnectFailed, Request, Refused
<1>2. ASSUME NEW w \in Workers, HandlerReturn(w) PROVE CanGoOn(w) /\ w \in Threads
  BY <1>2 DEF CanGoOn, HandlerReturn, Threads
<1>3. ASSUME NEW r \in Requests, RequestStep(r) PROVE CanServe(r)
  BY <1>3 DEF CanServe, RequestStep, ConnectResult, SetPromise, RequestResult,
              RunReply
<1> QED BY <1>1, <1>2, <1>3 DEF Stuck, Progress

(* A request whose call did not throw is left without an answer in one way *)
(* only: every worker waits inside a handler's SendPayload for a callback  *)
(* that is queued, and that only a worker can run.                         *)
StuckOnlyExhausted ==
  Stuck => \/ \A r \in Requests : phase[r] # "unsent" => Ended(r)
           \/ Exhausted /\ \A w \in Workers : attempt[req[w]] \in Callbacks

(* The transport has no other deadlock, with any number of threads,        *)
(* workers and requests: the safety half of EndedUnlessExhausted.          *)
THEOREM StuckOnlyExhaustedHolds == Spec => []StuckOnlyExhausted
<1>1. Inv /\ CallInv /\ ThrewInv => StuckOnlyExhausted
  <2> SUFFICES ASSUME Inv, CallInv, ThrewInv, Stuck,
                      NEW r \in Requests, phase[r] # "unsent", ~Ended(r),
                      NEW w \in Workers
               PROVE  pc[w] = "wait" /\ attempt[req[w]] \in Callbacks
    BY DEF StuckOnlyExhausted, Exhausted
  <2>0. phase[r] \notin {"unsent", "done", "threw"}
    BY DEF Ended, Inv, RequestInv, ThrewInv
  <2>1. ASSUME NEW t \in Threads, pc[t] = "wait"
        PROVE  req[t] \in Requests /\ attempt[req[t]] \in Callbacks
    <3>1. req[t] \in Requests
      BY <2>1, InCallFacts DEF InCall
    <3>2. attempt[req[t]] \in Attempt \ {"none", "up", "failed", "opening"}
      BY <2>1, <3>1 DEF Inv, TypeOK, CallInv, Stuck, CanGoOn, CanServe
    <3> QED BY <3>1, <3>2 DEF Attempt, Callbacks
  <2>2. pc[w] # "idle"
    <3> SUFFICES ASSUME pc[w] = "idle" PROVE FALSE
      OBVIOUS
    <3>1. phase[r] = "calling"
      BY <2>0 DEF Inv, TypeOK, Phase, Stuck, CanServe
    <3>2. caller[r] \in Threads /\ req[caller[r]] = r
      BY <3>1 DEF Inv, TypeOK, RequestInv, CallInv
    <3>3. pc[caller[r]] \in InCall
      BY <3>2, RequestsAssumption DEF Inv, ThreadInv
    <3>4. pc[caller[r]] = "wait"
      BY <3>2, <3>3 DEF InCall, Stuck, CanGoOn
    <3>5. attempt[r] \in Callbacks
      BY <2>1, <3>2, <3>4
    <3> QED BY <3>5 DEF Stuck, CanServe
  <2>3. w \in Threads /\ pc[w] = "wait"
    BY <2>2 DEF Inv, TypeOK, PC, Stuck, CanGoOn, Threads
  <2> QED BY <2>1, <2>3
<1> QED BY <1>1, InvHolds, CallInvHolds, ThrewInvHolds, PTL

(* Something is under way as long as a request is.                         *)
GoesOn == (\E r \in Requests : phase[r] # "unsent" /\ ~Ended(r)) => ~Stuck

(* With more workers than requests that handlers may send, the pool is     *)
(* never exhausted, and the transport can always go on with a request      *)
(* until it is answered, or its call threw with nothing connected.         *)
THEOREM PoolSuffices ==
  /\ IsFiniteSet(FromHandler) /\ IsFiniteSet(Workers)
  /\ Cardinality(FromHandler) < Cardinality(Workers)
  => (Spec => [](~Exhausted /\ GoesOn))
<1> SUFFICES ASSUME IsFiniteSet(FromHandler), IsFiniteSet(Workers),
                    Cardinality(FromHandler) < Cardinality(Workers)
             PROVE  Spec => [](~Exhausted /\ GoesOn)
  OBVIOUS
<1>1. Inv /\ CallInv => ~Exhausted
  <2> SUFFICES ASSUME Inv, CallInv, Exhausted PROVE FALSE
    OBVIOUS
  <2> DEFINE f == [w \in Workers |-> req[w]]
  <2>1. \A w \in Workers : req[w] \in Requests /\ caller[req[w]] = w
    BY InCallFacts DEF Exhausted, InCall, Threads
  <2>2. \A w \in Workers : req[w] \in FromHandler
    BY <2>1 DEF CallInv
  <2>3. \A v, w \in Workers : req[v] = req[w] => v = w
    BY <2>1
  <2>4. f \in Injection(Workers, FromHandler)
    BY <2>2, <2>3 DEF Injection, IsInjective
  <2>5. Cardinality(Workers) <= Cardinality(FromHandler)
    BY <2>4, FS_Injection
  <2>6. Cardinality(Workers) \in Nat /\ Cardinality(FromHandler) \in Nat
    BY FS_CardinalityType
  <2> QED BY <2>5, <2>6
<1>2. ~Exhausted /\ StuckOnlyExhausted => GoesOn
  BY DEF StuckOnlyExhausted, GoesOn
<1> QED BY <1>1, <1>2, InvHolds, CallInvHolds, StuckOnlyExhaustedHolds, PTL

-------------------------------------------------------------------------------
PhaseRank(p) ==
  CASE p = "unsent" -> 0 [] p = "calling" -> 1 [] p = "wire" -> 2
    [] p = "replyjob" -> 3 [] p \in {"done", "threw"} -> 4

AttemptRank(a) ==
  CASE a = "none" -> 0 [] a = "opening" -> 1 [] a \in {"upjob", "failjob"} -> 2
    [] a \in {"up", "failed"} -> 3

(* How far a request has come, between 0 and 8.                            *)
Rank(r) ==
  PhaseRank(phase[r]) + AttemptRank(attempt[r]) + (IF via[r] = None THEN 0 ELSE 1)

(* A request only moves forward, and everything the transport does by      *)
(* itself takes one further or ends a job of a worker: it cannot go round  *)
(* in circles instead of answering.                                        *)
OnlyForward ==
  [][/\ \A r \in Requests : Rank(r) <= Rank(r)'
     /\ Progress => \/ \E r \in Requests : Rank(r) < Rank(r)'
                    \/ \E w \in Workers : HandlerReturn(w)]_vars

(* The ranks are natural numbers.                                          *)
LEMMA RankTypes ==
  ASSUME TypeOK, NEW r \in Requests
  PROVE  /\ PhaseRank(phase[r]) \in 0..4 /\ AttemptRank(attempt[r]) \in 0..3
         /\ Rank(r) \in 0..8
<1>1. phase[r] \in Phase /\ attempt[r] \in Attempt
  BY DEF TypeOK
<1>2. PhaseRank(phase[r]) \in 0..4
  BY <1>1 DEF Phase, PhaseRank
<1>3. AttemptRank(attempt[r]) \in 0..3
  BY <1>1 DEF Attempt, AttemptRank
<1> QED BY <1>2, <1>3 DEF Rank

(* A step that leaves a request alone leaves its rank.                     *)
LEMMA RankKept ==
  ASSUME TypeOK, NEW r \in Requests,
         phase'[r] = phase[r], attempt'[r] = attempt[r], via'[r] = via[r]
  PROVE  Rank(r) <= Rank(r)'
<1>1. Rank(r)' = Rank(r)
  BY DEF Rank
<1> QED BY <1>1, RankTypes

(* A step that takes one part of a request forward, and no other back,     *)
(* takes it further.                                                       *)
LEMMA RankAdvances ==
  ASSUME TypeOK, TypeOK', NEW r \in Requests,
         PhaseRank(phase[r]) <= PhaseRank(phase'[r]),
         AttemptRank(attempt[r]) <= AttemptRank(attempt'[r]),
         via[r] = None \/ via'[r] = via[r],
         \/ PhaseRank(phase[r]) < PhaseRank(phase'[r])
         \/ AttemptRank(attempt[r]) < AttemptRank(attempt'[r])
         \/ via[r] = None /\ via'[r] # None
  PROVE  Rank(r) < Rank(r)'
<1>1. PICK p \in 0..4 : p = PhaseRank(phase[r])
  BY RankTypes
<1>2. PICK a \in 0..3 : a = AttemptRank(attempt[r])
  BY RankTypes
<1>3. PhaseRank(phase'[r]) \in 0..4 /\ AttemptRank(attempt'[r]) \in 0..3
  <2>1. phase'[r] \in Phase /\ attempt'[r] \in Attempt
    BY DEF TypeOK
  <2> QED BY <2>1 DEF Phase, Attempt, PhaseRank, AttemptRank
<1>4. PICK q \in 0..4 : q = PhaseRank(phase'[r])
  BY <1>3
<1>5. PICK b \in 0..3 : b = AttemptRank(attempt'[r])
  BY <1>3
<1>6. Rank(r) = p + a + (IF via[r] = None THEN 0 ELSE 1)
  BY <1>1, <1>2 DEF Rank
<1>7. Rank(r)' = q + b + (IF via'[r] = None THEN 0 ELSE 1)
  BY <1>4, <1>5 DEF Rank
<1>8. p <= q /\ a <= b /\ (p < q \/ a < b \/ (via[r] = None /\ via'[r] # None))
  BY <1>1, <1>2, <1>4, <1>5
<1> QED BY <1>6, <1>7, <1>8

(* Requests are taken forward and never back.                              *)
THEOREM OnlyForwardHolds == Spec => OnlyForward
<1> DEFINE Further(r) ==
      /\ \A s \in Requests : Rank(s) <= Rank(s)'
      /\ Rank(r) < Rank(r)'
    Others(r) ==
      \A s \in Requests \ {r} : /\ phase'[s] = phase[s]
                                /\ attempt'[s] = attempt[s] /\ via'[s] = via[s]
<1>1. ASSUME Inv, CallInv, Inv', [Next]_vars
      PROVE  \/ /\ \A r \in Requests : Rank(r) <= Rank(r)'
                /\ Progress => \/ \E r \in Requests : Rank(r) < Rank(r)'
                               \/ \E w \in Workers : HandlerReturn(w)
             \/ UNCHANGED vars
  <2>0. TypeOK /\ TypeOK'
    BY <1>1 DEF Inv
  <2>1. ASSUME NEW r \in Requests, Rank(r) < Rank(r)', Others(r)
        PROVE  Further(r)
    <3>1. Rank(r) <= Rank(r)'
      <4>1. Rank(r) \in 0..8
        BY <2>0, RankTypes
      <4>2. Rank(r)' \in 0..8
        <5>1. phase'[r] \in Phase /\ attempt'[r] \in Attempt
          BY <2>0 DEF TypeOK
        <5>2. PhaseRank(phase'[r]) \in 0..4
          BY <5>1 DEF Phase, PhaseRank
        <5>3. AttemptRank(attempt'[r]) \in 0..3
          BY <5>1 DEF Attempt, AttemptRank
        <5> QED BY <5>2, <5>3 DEF Rank
      <4> QED BY <2>1, <4>1, <4>2
    <3>2. \A s \in Requests : s # r => Rank(s) <= Rank(s)'
      BY <2>0, <2>1, RankKept
    <3> QED BY <2>1, <3>1, <3>2
  <2>2. ASSUME NEW t \in Threads, NEW r \in Requests, SendPayload(t, r)
        PROVE  Further(r)
    <3>1. /\ phase[r] = "unsent" /\ phase'[r] = "calling" /\ attempt' = attempt
          /\ via[r] = None /\ Others(r)
      BY <1>1, <2>0, <2>2 DEF SendPayload, TypeOK, Inv, RequestInv
    <3>2. Rank(r) < Rank(r)'
      <4>1. PhaseRank(phase[r]) = 0 /\ PhaseRank(phase'[r]) = 1
        BY <3>1 DEF PhaseRank
      <4>2. AttemptRank(attempt[r]) \in 0..3
        BY <2>0, RankTypes
      <4> QED BY <2>0, <3>1, <4>1, <4>2, RankAdvances
    <3> QED BY <2>1, <3>1, <3>2
  <2>3. ASSUME NEW t \in Threads, ThreadStep(t)
        PROVE  \E r \in Requests : Further(r)
    <3>1. PICK r \in Requests : r = req[t] /\ phase[r] = "calling"
      BY <1>1, <2>3, InCallFacts
         DEF ThreadStep, ConnectRemote, NoAddress, Connected, ConnectFailed,
             Request, InCall
    <3>2. Others(r)
      BY <2>0, <2>3, <3>1 DEF ThreadStep, ConnectRemote, NoAddress, Connected,
                             ConnectFailed, Request, Respond, TypeOK
    <3>3. /\ PhaseRank("calling") = 1 /\ PhaseRank("wire") = 2
          /\ PhaseRank("done") = 4 /\ PhaseRank("threw") = 4
          /\ AttemptRank("none") = 0 /\ AttemptRank("opening") = 1
      BY DEF PhaseRank, AttemptRank
    <3>4. AttemptRank(attempt[r]) \in 0..3
      BY <2>0, <3>1, RankTypes
    <3>5. CASE ConnectRemote(t)
      <4>1. /\ attempt[r] = "none" /\ attempt'[r] = "opening"
            /\ phase' = phase /\ via' = via
        BY <1>1, <2>0, <3>1, <3>5 DEF ConnectRemote, TypeOK, Inv, ThreadInv
      <4>2. Rank(r) < Rank(r)'
        BY <2>0, <3>1, <3>3, <4>1, RankAdvances
      <4> QED BY <2>1, <3>1, <3>2, <4>2
    <3>6. CASE Connected(t)
      <4>1. via[r] = None /\ phase' = phase /\ attempt' = attempt
        BY <1>1, <3>1, <3>6 DEF Connected, CallInv
      <4>2. via'[r] # None
        BY <2>0, <3>1, <3>6, EdgeAssumption, RequestsAssumption
           DEF Connected, emplace, TypeOK
      <4>3. Rank(r) < Rank(r)'
        BY <2>0, <3>1, <3>3, <3>4, <4>1, <4>2, RankAdvances
      <4> QED BY <2>1, <3>1, <3>2, <4>3
    <3>7. CASE ConnectFailed(t) \/ Request(t) \/ NoAddress(t)
      <4>1. /\ phase'[r] \in {"wire", "done", "threw"}
            /\ attempt' = attempt /\ via' = via
        BY <2>0, <3>1, <3>7 DEF ConnectFailed, Request, NoAddress, Respond, TypeOK
      <4>2. Rank(r) < Rank(r)'
        BY <2>0, <3>1, <3>3, <3>4, <4>1, RankAdvances
      <4> QED BY <2>1, <3>1, <3>2, <4>2
    <3> QED BY <2>3, <3>5, <3>6, <3>7 DEF ThreadStep
  <2>4. ASSUME NEW r \in Requests, RequestStep(r)
        PROVE  Further(r)
    <3>1. Others(r)
      BY <2>0, <2>4 DEF RequestStep, ConnectResult, SetPromise, RequestResult,
                       RunReply, Respond, TypeOK
    <3>2. /\ PhaseRank("wire") = 2 /\ PhaseRank("replyjob") = 3
          /\ PhaseRank("done") = 4
          /\ AttemptRank("opening") = 1
          /\ AttemptRank("upjob") = 2 /\ AttemptRank("failjob") = 2
          /\ AttemptRank("up") = 3 /\ AttemptRank("failed") = 3
      BY DEF PhaseRank, AttemptRank
    <3>3. AttemptRank(attempt[r]) \in 0..3 /\ PhaseRank(phase[r]) \in 0..4
      BY <2>0, RankTypes
    <3>4. CASE ConnectResult(r) \/ SetPromise(r)
      <4>1. /\ phase' = phase /\ via' = via
            /\ \/ attempt[r] = "opening" /\ attempt'[r] \in {"upjob", "failjob"}
               \/ attempt[r] \in {"upjob", "failjob"} /\ attempt'[r] \in {"up", "failed"}
        BY <2>0, <3>4 DEF ConnectResult, SetPromise, Callbacks, TypeOK
      <4>2. Rank(r) < Rank(r)'
        BY <2>0, <3>2, <3>3, <4>1, RankAdvances
      <4> QED BY <2>1, <3>1, <4>2
    <3>5. CASE RequestResult(r) \/ \E w \in Workers : RunReply(w, r)
      <4>1. /\ attempt' = attempt /\ via' = via
            /\ \/ phase[r] = "wire" /\ phase'[r] = "replyjob"
               \/ phase[r] = "replyjob" /\ phase'[r] = "done"
        BY <2>0, <3>5 DEF RequestResult, RunReply, Respond, TypeOK
      <4>2. Rank(r) < Rank(r)'
        BY <2>0, <3>2, <3>3, <4>1, RankAdvances
      <4> QED BY <2>1, <3>1, <4>2
    <3> QED BY <2>4, <3>4, <3>5 DEF RequestStep
  <2>5. ASSUME UNCHANGED <<phase, attempt, via>>
        PROVE  \A r \in Requests : Rank(r) <= Rank(r)'
    BY <2>0, <2>5, RankKept
  <2>6. ASSUME NEW w \in Workers, HandlerReturn(w)
        PROVE  \A r \in Requests : Rank(r) <= Rank(r)'
    BY <2>5, <2>6 DEF HandlerReturn
  <2>7. ASSUME NEW c \in Requests, Break(c), ~Progress
        PROVE  \A r \in Requests : Rank(r) <= Rank(r)'
    BY <2>5, <2>7 DEF Break
  <2>8. CASE Progress
    <3> HIDE DEF Further
    <3>1. (\E r \in Requests : Further(r)) \/ \E w \in Workers : HandlerReturn(w)
      BY <2>3, <2>4, <2>8 DEF Progress
    <3> QED BY <2>6, <3>1 DEF Further
  <2>9. CASE ~Progress
    <3> HIDE DEF Further
    <3>1. \/ \E r \in Requests : Further(r)
          \/ \E c \in Requests : Break(c)
          \/ UNCHANGED vars
      BY <1>1, <2>2, <2>9 DEF Next
    <3> QED BY <2>7, <2>9, <3>1 DEF Further
  <2> QED BY <2>8, <2>9
<1> QED BY <1>1, InvHolds, CallInvHolds, PTL DEF Spec, OnlyForward
===============================================================================
