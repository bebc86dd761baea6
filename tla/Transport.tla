------------------------------- MODULE Transport -------------------------------
(***************************************************************************)
(* Transport_OMQ (onionreq/transport.cpp): any number of threads call      *)
(* SendPayload; the connection to a first hop is cached by its identity    *)
(* key.  OxenMQ is external: it reports on a connection attempt and on a   *)
(* request by a callback that it queues as a job for its worker threads.   *)
(* Response handlers run on those workers and may call SendPayload again,  *)
(* which blocks the worker for as long as a connection attempt takes.      *)
(* An established connection may break; OxenMQ then fails what is sent     *)
(* over it, and Transport_OMQ is not told.                                 *)
(*                                                                         *)
(* A call of SendPayload makes at most one connection attempt, so the      *)
(* attempt, its promise and the ConnectionID it yields go by the name of   *)
(* the request that the call is for.                                       *)
(***************************************************************************)
EXTENDS Integers, Sequences, FiniteSets

CONSTANTS
  AppThreads,   \* threads of the application
  Workers,      \* worker threads of OxenMQ
  Requests,     \* calls of SendPayload
  FromHandler,  \* the calls that response handlers may make
  Nodes,        \* first hops
  Edge,         \* Edge[r]: the identity of payload.path.Edge() of request r
  MaxParts,     \* bound: message parts of a reply
  None          \* no thread, no connection

Threads == AppThreads \cup Workers

ASSUME ThreadsAssumption == AppThreads \cap Workers = {} /\ None \notin Threads
ASSUME RequestsAssumption == None \notin Requests /\ FromHandler \subseteq Requests
ASSUME EdgeAssumption == Edge \in [Requests -> Nodes]
ASSUME MaxPartsAssumption == MaxParts \in Nat

VARIABLES
  edges,    \* _edges: the cached connection to each node, None where absent
  pc,       \* what each thread does
  req,      \* the request a thread inside SendPayload sends
  attempt,  \* connect_remote for a request, up to its promise being set
  dead,     \* established connections that broke
  via,      \* the connection ObtainConnectionTo returned for a request
  reply,    \* OxenMQ's result for a request, as its callback receives it
  phase,    \* how far a request is
  caller,   \* history: the thread that called SendPayload
  answers   \* history: what the response handler was called with

vars == <<edges, pc, req, attempt, dead, via, reply, phase, caller, answers>>

PC == {"idle",      \* worker without a job
       "app",       \* application code, in a response handler on a worker
       "connect",   \* cache miss, about to call connect_remote
       "wait",      \* in ftr.get()
       "request"}   \* holds a connection, about to call _mq.request

Attempt == {"none", "opening", "upjob", "failjob", "up", "failed"}
Phase   == {"unsent", "calling", "wire", "replyjob", "done", "threw"}
Reply   == [success : BOOLEAN, parts : 0..MaxParts]
Answer  == {"body", "nullopt"}

NoReply == [success |-> FALSE, parts |-> 0]

Init ==
  /\ edges = [n \in Nodes |-> None]
  /\ pc = [t \in Threads |-> IF t \in Workers THEN "idle" ELSE "app"]
  /\ req = [t \in Threads |-> None]
  /\ attempt = [r \in Requests |-> "none"]
  /\ dead = {}
  /\ via = [r \in Requests |-> None]
  /\ reply = [r \in Requests |-> NoReply]
  /\ phase = [r \in Requests |-> "unsent"]
  /\ caller = [r \in Requests |-> None]
  /\ answers = [r \in Requests |-> << >>]

-------------------------------------------------------------------------------
(* SendPayload and ObtainConnectionTo                                      *)

(* SendPayload up to the end of ObtainConnectionTo's first critical        *)
(* section: the cached connection is used, or there is none.               *)
SendPayload(t, r) ==
  /\ pc[t] = "app"
  /\ phase[r] = "unsent"
  /\ t \in Workers => r \in FromHandler
  /\ phase' = [phase EXCEPT ![r] = "calling"]
  /\ caller' = [caller EXCEPT ![r] = t]
  /\ req' = [req EXCEPT ![t] = r]
  /\ via' = [via EXCEPT ![r] = edges[Edge[r]]]
  /\ pc' = [pc EXCEPT ![t] = IF edges[Edge[r]] = None THEN "connect"
                                                      ELSE "request"]
  /\ UNCHANGED <<edges, attempt, dead, reply, answers>>

(* The promise is on the caller's stack, the callbacks refer to it.        *)
ConnectRemote(t) ==
  /\ pc[t] = "connect"
  /\ attempt' = [attempt EXCEPT ![req[t]] = "opening"]
  /\ pc' = [pc EXCEPT ![t] = "wait"]
  /\ UNCHANGED <<edges, req, dead, via, reply, phase, caller, answers>>

(* publicIP is what the list of nodes said.  Where it makes no address,    *)
(* oxenmq::address throws, and the exception leaves SendPayload before     *)
(* anything is connected and without a call of the handler.  On a worker   *)
(* it ends the job, unless the response handler catches it.                *)
NoAddress(t) ==
  /\ pc[t] = "connect"
  /\ phase' = [phase EXCEPT ![req[t]] = "threw"]
  /\ req' = [req EXCEPT ![t] = None]
  /\ pc' = [pc EXCEPT ![t] = "app"]
  /\ UNCHANGED <<edges, attempt, dead, via, reply, caller, answers>>

(* Wrong variants, for mutation only: the latest connection is cached;     *)
(* nothing is.                                                             *)
insert_or_assign(n, c) == [edges EXCEPT ![n] = c]
emplace_nothing(n, c) == edges

(* A connection that another thread has put there meanwhile is kept.       *)
emplace(n, c) == [edges EXCEPT ![n] = IF @ = None THEN c ELSE @]

(* ftr.get() returned a connection; the cached one is returned.            *)
Connected(t) ==
  /\ pc[t] = "wait"
  /\ attempt[req[t]] = "up"
  /\ edges' = emplace(Edge[req[t]], req[t])
  /\ via' = [via EXCEPT ![req[t]] = edges'[Edge[req[t]]]]
  /\ pc' = [pc EXCEPT ![t] = "request"]
  /\ UNCHANGED <<req, attempt, dead, reply, phase, caller, answers>>

(* Wrong variants, for mutation only: the callback falls through to a      *)
(* second call of the handler; it does not call the handler.               *)
RespondTwice(r, answer) ==
  /\ answers' = [answers EXCEPT ![r] = Append(Append(@, answer), "nullopt")]
  /\ phase' = [phase EXCEPT ![r] = "done"]
RespondSilently(r, answer) ==
  /\ phase' = [phase EXCEPT ![r] = "done"]
  /\ UNCHANGED answers

(* responseHandler(answer)                                                 *)
Respond(r, answer) ==
  /\ answers' = [answers EXCEPT ![r] = Append(@, answer)]
  /\ phase' = [phase EXCEPT ![r] = "done"]

(* Wrong variant, for mutation only: the wait is given up after a timeout. *)
RefusedOrSlow(r) == attempt[r] # "up"

(* ftr.get() returned nullopt.                                             *)
Refused(r) == attempt[r] = "failed"

(* SendPayload itself calls the handler, and returns to the application    *)
(* code it was called from.                                                *)
ConnectFailed(t) ==
  /\ pc[t] = "wait"
  /\ Refused(req[t])
  /\ Respond(req[t], "nullopt")
  /\ req' = [req EXCEPT ![t] = None]
  /\ pc' = [pc EXCEPT ![t] = "app"]
  /\ UNCHANGED <<edges, attempt, dead, via, reply, caller>>

(* _mq.request, after which SendPayload returns.                           *)
Request(t) ==
  /\ pc[t] = "request"
  /\ phase' = [phase EXCEPT ![req[t]] = "wire"]
  /\ req' = [req EXCEPT ![t] = None]
  /\ pc' = [pc EXCEPT ![t] = "app"]
  /\ UNCHANGED <<edges, attempt, dead, via, reply, caller, answers>>

-------------------------------------------------------------------------------
(* OxenMQ and the callbacks                                                *)

(* The handshake ends, or times out; a job for the callback is queued.     *)
ConnectResult(r) ==
  /\ attempt[r] = "opening"
  /\ \E job \in {"upjob", "failjob"} : attempt' = [attempt EXCEPT ![r] = job]
  /\ UNCHANGED <<edges, pc, req, dead, via, reply, phase, caller, answers>>

(* Wrong variant, for mutation only: no callback for failed attempts.      *)
SuccessOnly == {"upjob"}

(* The results that connect_remote was given a callback for.               *)
Callbacks == {"upjob", "failjob"}

(* An idle worker runs the callback that sets the promise.                 *)
SetPromise(r) ==
  /\ \E w \in Workers : pc[w] = "idle"
  /\ attempt[r] \in Callbacks
  /\ attempt' = [attempt EXCEPT ![r] = IF @ = "upjob" THEN "up" ELSE "failed"]
  /\ UNCHANGED <<edges, pc, req, dead, via, reply, phase, caller, answers>>

(* The peer goes away.                                                     *)
Break(c) ==
  /\ attempt[c] \in {"upjob", "up"}
  /\ dead' = dead \cup {c}
  /\ UNCHANGED <<edges, pc, req, attempt, via, reply, phase, caller, answers>>

(* A reply, or a failure or timeout, with any number of message parts.     *)
RequestResult(r) ==
  /\ phase[r] = "wire"
  /\ \E m \in Reply :
       /\ via[r] \in dead => ~m.success
       /\ reply' = [reply EXCEPT ![r] = m]
  /\ phase' = [phase EXCEPT ![r] = "replyjob"]
  /\ UNCHANGED <<edges, pc, req, attempt, dead, via, caller, answers>>

(* Wrong variant, for mutation only: msgs[1] without looking at the size.  *)
OutcomeUnchecked(m) ==
  CASE ~m.success                -> "nullopt"
    [] m.success /\ m.parts > 1  -> "body"
    [] m.success /\ m.parts <= 1 -> "out of bounds"

(* What the request callback makes of OxenMQ's result.                     *)
Outcome(m) == IF m.success /\ m.parts > 1 THEN "body" ELSE "nullopt"

(* An idle worker runs the callback of _mq.request, which calls the        *)
(* response handler; the message is gone when it returns.                  *)
RunReply(w, r) ==
  /\ pc[w] = "idle"
  /\ phase[r] = "replyjob"
  /\ Respond(r, Outcome(reply[r]))
  /\ reply' = [reply EXCEPT ![r] = NoReply]
  /\ pc' = [pc EXCEPT ![w] = "app"]
  /\ UNCHANGED <<edges, req, attempt, dead, via, caller>>

HandlerReturn(w) ==
  /\ pc[w] = "app"
  /\ pc' = [pc EXCEPT ![w] = "idle"]
  /\ UNCHANGED <<edges, req, attempt, dead, via, reply, phase, caller, answers>>

-------------------------------------------------------------------------------
ThreadStep(t) ==
  \/ ConnectRemote(t) \/ NoAddress(t) \/ Connected(t)
  \/ ConnectFailed(t) \/ Request(t)

RequestStep(r) ==
  \/ ConnectResult(r) \/ SetPromise(r) \/ RequestResult(r)
  \/ \E w \in Workers : RunReply(w, r)

(* Everything but the application's decisions to send and lost peers.      *)
Progress ==
  \/ \E t \in Threads : ThreadStep(t)
  \/ \E r \in Requests : RequestStep(r)
  \/ \E w \in Workers : HandlerReturn(w)

Next ==
  \/ \E t \in Threads, r \in Requests : SendPayload(t, r)
  \/ \E c \in Requests : Break(c)
  \/ Progress

Spec == Init /\ [][Next]_vars

(* Threads are scheduled, OxenMQ bounds connection attempts and requests   *)
(* by timeouts and serves its jobs in order, response handlers return.     *)
Fairness ==
  /\ \A t \in Threads : WF_vars(ThreadStep(t))
  /\ \A r \in Requests : WF_vars(RequestStep(r))
  /\ \A w \in Workers : WF_vars(HandlerReturn(w))

FairSpec == Spec /\ Fairness

-------------------------------------------------------------------------------
(* The types of the transport's, OxenMQ's and the threads' state.          *)
TypeOK ==
  /\ edges \in [Nodes -> Requests \cup {None}]
  /\ pc \in [Threads -> PC]
  /\ req \in [Threads -> Requests \cup {None}]
  /\ attempt \in [Requests -> Attempt]
  /\ dead \in SUBSET Requests
  /\ via \in [Requests -> Requests \cup {None}]
  /\ reply \in [Requests -> Reply]
  /\ phase \in [Requests -> Phase]
  /\ caller \in [Requests -> Threads \cup {None}]
  /\ answers \in [Requests -> Seq(Answer)]

(* Two threads that miss the cache at the same time both connect, but all  *)
(* requests to a node go over one connection: the established one that is  *)
(* cached for this node, whoever opened it.                                *)
SharedConnection ==
  \A r \in Requests :
    via[r] # None => /\ via[r] = edges[Edge[r]]
                     /\ Edge[via[r]] = Edge[r]
                     /\ attempt[via[r]] = "up"

(* connect_remote's callbacks hold a reference to a promise on the stack   *)
(* of ObtainConnectionTo: as long as one may still run, its thread is in   *)
(* ftr.get() for that very request.                                        *)
PromiseInScope ==
  \A r \in Requests :
    attempt[r] \in {"opening", "upjob", "failjob"} =>
      \E t \in Threads : pc[t] = "wait" /\ req[t] = r

Opened(n) ==
  {r \in Requests : Edge[r] = n /\ attempt[r] \in {"upjob", "up"}}

(* Connections that lost the race to emplace are never closed, but no      *)
(* thread ever opens a second connection to a node, however many requests  *)
(* it sends: they never outnumber the threads.                             *)
LeakBound ==
  \A n \in Nodes : \A r, s \in Opened(n) : caller[r] = caller[s] => r = s

(* Nothing takes a connection out of _edges: once the cached one broke, no *)
(* request to its node succeeds any more, unless its reply is already in   *)
(* the queue, and no fresh connection that another thread has opened       *)
(* meanwhile replaces it.                                                  *)
UnreachableForGood ==
  [][\A n \in Nodes :
       edges[n] \in dead =>
         /\ edges'[n] = edges[n]
         /\ \A r \in Requests :
              Edge[r] = n /\ phase[r] # "replyjob" => ~reply'[r].success]_vars

Contract == INSTANCE RequestContract
              WITH sent <- {r \in Requests : phase[r] # "unsent"}

(* SendPayload keeps its promise: no handler is called before the request  *)
(* is sent, twice, or with anything but a body or nullopt.                 *)
KeepsContract == Contract!Spec

Exhausted == \A w \in Workers : pc[w] = "wait"

(* What becomes of a request: its handler is called, or SendPayload threw  *)
(* with nothing connected and nothing sent.                                *)
Ended(r) ==
  \/ answers[r] # << >>
  \/ phase[r] = "threw" /\ attempt[r] = "none" /\ via[r] = None

(* Every request comes to an end, whatever attempts and requests fail,     *)
(* unless every worker comes to be inside a handler's SendPayload for      *)
(* good, waiting for a connection callback that only a worker can run.     *)
EndedUnlessExhausted ==
  (\A r \in Requests : phase[r] # "unsent" ~> Ended(r)) \/ <>[]Exhausted
===============================================================================
