------------------------------- MODULE PyBinding -------------------------------
(***************************************************************************)
(* The Python binding (pybind/consensus.cpp, common.hpp, junk.cpp): Python *)
(* threads share one Direct consensus, which owns the OxenMQ object, and   *)
(* one fetcher, which refers to it; nothing keeps one alive for the other. *)
(* fetch_all and parse_junk give up the interpreter lock (GIL), the        *)
(* callback of a fetch takes it on whatever thread it is called, and the   *)
(* destructor of the consensus joins OxenMQ's threads with the GIL held.   *)
(* The callback is a Python function in a wrapper of pybind11, which takes *)
(* the GIL for a moment whenever it is copied or destroyed.                *)
(*                                                                         *)
(* The fetcher is the one of NodeFetcher, with _conn accessed atomically;  *)
(* the seeds are addresses.  Callbacks stay within Python.                 *)
(***************************************************************************)
EXTENDS Integers, Sequences

CONSTANTS
  PyThreads,  \* threads of the Python program
  Workers,    \* worker threads of OxenMQ
  Fetches,    \* calls of fetch_all
  None        \* no thread, no fetch

Threads == PyThreads \cup Workers

ASSUME ThreadsAssumption ==
  /\ PyThreads # {} /\ Workers # {}
  /\ PyThreads \cap Workers = {} /\ None \notin Threads
ASSUME FetchesAssumption == None \notin Fetches

VARIABLES
  gil,        \* the thread that holds the GIL
  pc,         \* what each thread does
  call,       \* the fetch a thread is in, or runs the callback of
  fetch,      \* how far a fetch is
  conn,       \* the fetcher has a connection
  consensus,  \* the consensus and its OxenMQ
  fetcher,    \* the fetcher
  orphans,    \* history: fetches under way when the fetcher was destroyed
  answers     \* history: what the callback of a fetch was called with

objects == <<consensus, fetcher, orphans>>
vars == <<gil, pc, call, fetch, conn, objects, answers>>

PC == {"py", "want",      \* in Python with the GIL, and waiting to go on there
       "copy",            \* about to copy the callback for FetchAll
       "obtain",          \* in FetchAll, before the test of _conn
       "wait",            \* in ftr.get()
       "bind",            \* about to copy the callback for the request
       "send",            \* about to call _mq.request
       "callback",        \* about to take the GIL for the callback
       "incb", "cbwant",  \* in the callback with the GIL, and waiting for it
       "release",         \* about to destroy the callback, at a job's end
       "parse",           \* in ParseJunk
       "join",            \* in ~OxenMQ
       "idle",            \* worker without a job
       "dead"}            \* undefined behaviour

(* What comes of a request: nodes, a body that does not parse, one with a  *)
(* key of odd length, and no body.                                         *)
Result == {"list", "junk", "odd", "nothing"}

Fetch == {"unsent", "calling", "opening", "up", "refused", "wire", "overrun",
          "done"} \cup Result

(* Direct(seeds), make_node_fetcher                                        *)
Init ==
  /\ gil = None
  /\ pc = [t \in Threads |-> IF t \in Workers THEN "idle" ELSE "want"]
  /\ call = [t \in Threads |-> None]
  /\ fetch = [f \in Fetches |-> "unsent"]
  /\ conn = FALSE
  /\ consensus = "alive" /\ fetcher = "alive"
  /\ orphans = {}
  /\ answers = [f \in Fetches |-> << >>]

Goto(t, l) == pc' = [pc EXCEPT ![t] = l]

Proceed(f, s) == fetch' = [fetch EXCEPT ![f] = s]

(* A destroyed object is used or memory overrun: anything may follow.      *)
Undefined == pc' = [t \in Threads |-> "dead"]

undefined == \E t \in Threads : pc[t] = "dead"

-------------------------------------------------------------------------------
(* The interpreter                                                         *)

Back(l) == IF l = "want" THEN "py" ELSE "incb"

(* A call that was waiting to return does, and gives its arguments back.   *)
Acquire(t) ==
  /\ gil = None /\ pc[t] \in {"want", "cbwant"}
  /\ gil' = t /\ Goto(t, Back(pc[t]))
  /\ call' = [call EXCEPT ![t] = IF pc[t] = "want" THEN None ELSE @]
  /\ UNCHANGED <<fetch, conn, objects, answers>>

(* Python hands the GIL over when another thread asks for it.              *)
Yield(t) ==
  /\ gil = t /\ pc[t] \in {"py", "incb"}
  /\ gil' = None /\ Goto(t, IF pc[t] = "py" THEN "want" ELSE "cbwant")
  /\ UNCHANGED <<call, fetch, conn, objects, answers>>

(* py::gil_scoped_release                                                  *)
Release(t, l) == gil = t /\ pc[t] = "py" /\ gil' = None /\ Goto(t, l)

parse_junk(t) ==
  /\ Release(t, "parse")
  /\ UNCHANGED <<call, fetch, conn, objects, answers>>

(* ParseJunk returns or throws, and the GIL is asked for again.            *)
ParseEnds(t) ==
  /\ pc[t] = "parse" /\ Goto(t, "want")
  /\ UNCHANGED <<gil, call, fetch, conn, objects, answers>>

-------------------------------------------------------------------------------
(* fetch_all                                                               *)

fetch_all(t, f) ==
  /\ fetcher = "alive" /\ fetch[f] = "unsent"
  /\ Release(t, "copy")
  /\ call' = [call EXCEPT ![t] = f]
  /\ Proceed(f, "calling")
  /\ UNCHANGED <<conn, objects, answers>>

(* A capture of the callback, in fetch_all and in FetchAll: pybind11 takes *)
(* the GIL and gives it back.                                              *)
CopyCallback(t) ==
  /\ gil = None /\ pc[t] \in {"copy", "bind"}
  /\ Goto(t, IF pc[t] = "copy" THEN "obtain" ELSE "send")
  /\ UNCHANGED <<gil, call, fetch, conn, objects, answers>>

(* FetchAll up to ftr.get(); without a connection it uses _mq.             *)
Obtain(t) ==
  /\ pc[t] = "obtain"
  /\ \/ conn /\ Goto(t, "bind") /\ UNCHANGED fetch
     \/ /\ ~conn /\ consensus = "alive"
        /\ Goto(t, "wait") /\ Proceed(call[t], "opening")
     \/ ~conn /\ consensus # "alive" /\ Undefined /\ UNCHANGED fetch
  /\ UNCHANGED <<gil, call, conn, objects, answers>>

(* ftr.get() returns, and FetchAll goes on with or without a connection.   *)
Obtained(t) ==
  /\ pc[t] = "wait" /\ fetch[call[t]] \in {"up", "refused"}
  /\ conn' = (fetch[call[t]] = "up")
  /\ Goto(t, IF conn' THEN "bind" ELSE "callback")
  /\ UNCHANGED <<gil, call, fetch, objects, answers>>

(* _mq.request; fetch_all returns once it has the GIL again.               *)
Send(t) ==
  /\ pc[t] = "send"
  /\ IF consensus = "alive"
       THEN Proceed(call[t], "wire") /\ Goto(t, "want")
       ELSE Undefined /\ UNCHANGED fetch
  /\ UNCHANGED <<gil, call, conn, objects, answers>>

(* Nodes, or the empty list.                                               *)
Heard(f) == IF fetch[f] = "list" THEN "body" ELSE "nullopt"

(* Wrong variant, for mutation only: the callback is not called when there *)
(* is nothing to report.                                                   *)
CallIfAny(f) ==
  answers' = IF fetch[f] = "list" THEN [answers EXCEPT ![f] = <<"body">>]
                                  ELSE answers

(* Wrong variant, for mutation only: the callback is called again with     *)
(* the empty list after the nodes.                                         *)
CallTwice(f) == answers' = [answers EXCEPT ![f] = @ \o <<Heard(f), "nullopt">>]

Call(f) == answers' = [answers EXCEPT ![f] = Append(@, Heard(f))]

(* gil_scoped_acquire, then the Python function is called.                 *)
CallbackStarts(t) ==
  /\ gil = None /\ pc[t] = "callback"
  /\ gil' = t /\ Goto(t, "incb") /\ Call(call[t])
  /\ UNCHANGED <<call, fetch, conn, objects>>

(* Wrong variant, for mutation only: the GIL is not given back.            *)
held_on == gil

(* The end of gil_scoped_acquire's scope.                                  *)
given_back == None

(* It returns or raises; then the job ends, or fetch_all does, each with   *)
(* the GIL taken once more.                                                *)
CallbackEnds(t) ==
  /\ gil = t /\ pc[t] = "incb"
  /\ gil' = given_back
  /\ Proceed(call[t], "done")
  /\ IF t \in Workers
       THEN Goto(t, "release") /\ call' = [call EXCEPT ![t] = None]
       ELSE Goto(t, "want") /\ UNCHANGED call
  /\ UNCHANGED <<conn, objects, answers>>

(* The callback of the request goes with the job, and in it the Python     *)
(* function: pybind11 takes the GIL for that.                              *)
DestroyCallback(w) ==
  /\ gil = None /\ pc[w] = "release"
  /\ Goto(w, "idle")
  /\ UNCHANGED <<gil, call, fetch, conn, objects, answers>>

-------------------------------------------------------------------------------
(* OxenMQ, up to the time it is told to quit                               *)

Ready(w) == consensus = "alive" /\ pc[w] = "idle"

SetPromise(f) ==
  /\ \E w \in Workers : Ready(w)
  /\ fetch[f] = "opening" /\ \E s \in {"up", "refused"} : Proceed(f, s)
  /\ UNCHANGED <<gil, pc, call, conn, objects, answers>>

RequestResult(f) ==
  /\ consensus = "alive" /\ ~undefined /\ fetch[f] = "wire"
  /\ \E s \in Result : Proceed(f, s)
  /\ UNCHANGED <<gil, pc, call, conn, objects, answers>>

(* No worker has begun with the result of f.                               *)
Queued(f) == fetch[f] \in Result /\ \A w \in Workers : call[w] # f

(* The callback of _mq.request: this->ParseNodeList when there is a body.  *)
(* Its exceptions are caught; LoadFromHex overruns on a key of odd length. *)
RunReply(w, f) ==
  /\ Ready(w) /\ Queued(f)
  /\ \/ /\ fetch[f] # "nothing" /\ fetcher = "gone"
        /\ Undefined /\ UNCHANGED <<call, fetch>>
     \/ /\ fetch[f] = "odd" /\ fetcher = "alive"
        /\ Undefined /\ Proceed(f, "overrun") /\ UNCHANGED call
     \/ /\ fetch[f] = "nothing" \/ (fetch[f] # "odd" /\ fetcher = "alive")
        /\ Goto(w, "callback") /\ call' = [call EXCEPT ![w] = f]
        /\ UNCHANGED fetch
  /\ UNCHANGED <<gil, conn, objects, answers>>

-------------------------------------------------------------------------------
(* The last references go                                                  *)

(* Wrong variant, for mutation only: a call does not keep its object.      *)
InUseNever == FALSE

(* The arguments of a call refer to the fetcher.                           *)
InUse == \E t \in PyThreads : call[t] # None

DropFetcher(t) ==
  /\ gil = t /\ pc[t] = "py" /\ fetcher = "alive" /\ ~InUse
  /\ fetcher' = "gone"
  /\ orphans' = {f \in Fetches : fetch[f] = "wire" \/ Queued(f)}
  /\ UNCHANGED <<gil, pc, call, fetch, conn, consensus, answers>>

(* ~PyDirectConsensus: ~OxenMQ tells its threads to quit and joins them.   *)
DropConsensus(t) ==
  /\ gil = t /\ pc[t] = "py" /\ consensus = "alive"
  /\ consensus' = "quit" /\ Goto(t, "join")
  /\ UNCHANGED <<gil, call, fetch, conn, fetcher, orphans, answers>>

Joined(t) ==
  /\ pc[t] = "join" /\ \A w \in Workers : pc[w] = "idle"
  /\ consensus' = "gone" /\ Goto(t, "py")
  /\ UNCHANGED <<gil, call, fetch, conn, fetcher, orphans, answers>>

-------------------------------------------------------------------------------
Step(t) == Yield(t) \/ ParseEnds(t) \/ Obtain(t) \/ Obtained(t) \/ Send(t) \/ Joined(t)

TakeGil(t) ==
  \/ Acquire(t) \/ CallbackStarts(t) \/ CopyCallback(t) \/ DestroyCallback(t)

FetchStep(f) ==
  SetPromise(f) \/ RequestResult(f) \/ \E w \in Workers : RunReply(w, f)

Progress ==
  \/ \E t \in Threads : Step(t) \/ TakeGil(t) \/ CallbackEnds(t)
  \/ \E f \in Fetches : FetchStep(f)

Next ==
  \/ Progress
  \/ \E t \in PyThreads, f \in Fetches : fetch_all(t, f)
  \/ \E t \in PyThreads : parse_junk(t) \/ DropFetcher(t) \/ DropConsensus(t)

Spec == Init /\ [][Next]_vars

(* Threads are scheduled, the GIL changes hands on request and comes round *)
(* to every thread, callbacks return, OxenMQ's timeouts bound its          *)
(* attempts and requests.                                                  *)
FairSpec ==
  /\ Spec
  /\ \A t \in Threads :
       WF_vars(Step(t)) /\ SF_vars(TakeGil(t)) /\ SF_vars(CallbackEnds(t))
  /\ \A f \in Fetches : WF_vars(FetchStep(f))

-------------------------------------------------------------------------------
(* The types of the binding's state.                                       *)
TypeOK ==
  /\ gil \in Threads \cup {None} /\ pc \in [Threads -> PC]
  /\ call \in [Threads -> Fetches \cup {None}] /\ fetch \in [Fetches -> Fetch]
  /\ conn \in BOOLEAN
  /\ consensus \in {"alive", "quit", "gone"} /\ fetcher \in {"alive", "gone"}
  /\ orphans \in SUBSET Fetches
  /\ answers \in [Fetches -> Seq({"body", "nullopt"})]

(* Unless a list with a key of odd length was parsed, a destroyed object   *)
(* is used only by the reply to a fetch that was under way when the        *)
(* fetcher was dropped, or by a fetch_all that goes on, or is made, after  *)
(* the consensus was dropped.                                              *)
UsedAfterDropOnly ==
  undefined => \/ \E f \in Fetches : fetch[f] = "overrun"
               \/ \E f \in orphans : Queued(f)
               \/ /\ consensus # "alive"
                  /\ \E t \in PyThreads :
                       call[t] # None /\ fetch[call[t]] \in {"calling", "up"}

(* A thread that waits for nothing: not for the GIL, for the promise of    *)
(* its connection or for the workers to end.                               *)
CanGoOn(t) ==
  \/ gil = t /\ pc[t] \in {"py", "incb"}
  \/ pc[t] \in {"parse", "obtain", "send"}
  \/ gil = None /\ pc[t] \in {"want", "cbwant", "callback", "copy", "bind", "release"}
  \/ pc[t] = "wait" /\ fetch[call[t]] \in {"up", "refused"}
  \/ pc[t] = "join" /\ \A w \in Workers : pc[w] = "idle"

(* OxenMQ has something to report, and a worker to report it if need be.   *)
CanServe(f) ==
  \/ consensus = "alive" /\ fetch[f] = "wire"
  \/ \E w \in Workers : Ready(w) /\ (fetch[f] = "opening" \/ Queued(f))

Stuck ==
  (\A t \in Threads : ~CanGoOn(t)) /\ (\A f \in Fetches : ~CanServe(f))

(* The binding gets stuck in two ways only: a thread has dropped the       *)
(* consensus, and waits with the GIL held for a worker that waits for the  *)
(* GIL, be it to call the Python function or to destroy it; or it has left *)
(* a fetch_all behind that waits for a connection.                         *)
StuckOnlyAfterDrop ==
  ~undefined /\ Stuck =>
    \/ /\ \E t \in PyThreads : pc[t] = "join" /\ gil = t
       /\ \E w \in Workers : pc[w] \in {"callback", "cbwant", "release"}
    \/ consensus = "gone" /\ \A t \in Threads : pc[t] \in {"wait", "idle"}

Contract == INSTANCE RequestContract
              WITH Requests <- Fetches,
                   sent <- {f \in Fetches : fetch[f] # "unsent"}

(* The Python function of a fetch_all is called at most once, whatever     *)
(* other threads do with the GIL and whichever object is dropped.          *)
KeepsContract == Contract!Spec

(* As long as the consensus is kept, no destroyed fetcher has been used    *)
(* and no key of odd length parsed, the Python function of every fetch_all *)
(* is called in the end: no thread keeps the GIL from the one that is to   *)
(* call it.                                                                *)
CalledUnlessDropped ==
  \A f \in Fetches : fetch[f] # "unsent" ~>
    answers[f] # << >> \/ consensus # "alive" \/ undefined
===============================================================================
