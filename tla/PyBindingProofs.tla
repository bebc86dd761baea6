---------------------------- MODULE PyBindingProofs ----------------------------
(***************************************************************************)
(* Proofs about PyBinding for any number of Python threads, workers and    *)
(* fetches.                                                                *)
(***************************************************************************)
EXTENDS PyBinding, TLAPS

(* A Python thread refers to the fetch that it makes until it is back in   *)
(* Python; how far the fetch is follows from where the thread is.          *)
PyInv ==
  /\ \A t \in PyThreads :
       /\ pc[t] \in {"copy", "obtain", "wait", "bind", "send", "callback",
                    "incb", "cbwant"} => call[t] # None
       /\ pc[t] \in {"py", "parse", "join"} => call[t] = None
       /\ pc[t] \notin {"idle", "release"}
       /\ pc[t] \in {"copy", "obtain"} => fetch[call[t]] = "calling"
       /\ pc[t] = "wait" => fetch[call[t]] \in {"opening", "up", "refused"}
       /\ pc[t] \in {"bind", "send"} => fetch[call[t]] \in {"calling", "up"}
       /\ pc[t] \in {"callback", "incb", "cbwant"} => fetch[call[t]] = "refused"
       /\ pc[t] = "want" /\ call[t] # None =>
            fetch[call[t]] \in {"wire", "done", "overrun"} \cup Result
       /\ call[t] # None => fetch[call[t]] # "unsent"
  /\ \A t, u \in PyThreads : call[t] # None /\ call[t] = call[u] => t = u

(* A worker refers to the fetch whose result it passes on.                 *)
WorkerInv ==
  /\ \A w \in Workers :
       /\ pc[w] \in {"idle", "callback", "incb", "cbwant", "release", "dead"}
       /\ pc[w] \in {"idle", "release"} => call[w] = None
       /\ pc[w] \in {"callback", "incb", "cbwant"} => call[w] # None
       /\ call[w] # None => fetch[call[w]] \in Result
  /\ \A v, w \in Workers : call[v] # None /\ call[v] = call[w] => v = w

(* A Python function that is still to be called has not been called.       *)
AnswerInv ==
  /\ \A f \in Fetches :
       \/ fetch[f] \in {"unsent", "calling", "opening", "up", "wire"}
       \/ Queued(f)
       => answers[f] = << >>
  /\ \A t \in Threads : pc[t] \in {"wait", "callback"} => answers[call[t]] = << >>

(* When the fetcher is gone no thread is in one of its calls, and what is  *)
(* still under way was so when it went.                                    *)
DropInv ==
  fetcher = "gone" =>
    /\ ~InUse
    /\ \A f \in Fetches : fetch[f] = "wire" \/ Queued(f) => f \in orphans

(* Undefined behaviour ends everything.                                    *)
DeadInv == undefined => \A t \in Threads : pc[t] = "dead"

Inv ==
  /\ TypeOK /\ PyInv /\ WorkerInv /\ AnswerInv /\ DropInv /\ DeadInv
  /\ UsedAfterDropOnly

-------------------------------------------------------------------------------
(* The condition under which a destroyed object may be used.               *)
Dropped ==
  \/ \E f \in orphans : Queued(f)
  \/ /\ consensus # "alive"
     /\ \E t \in PyThreads :
          call[t] # None /\ fetch[call[t]] \in {"calling", "up"}

(* Nothing happens after a destroyed object was used.                      *)
LEMMA NothingAfterUse ==
  ASSUME Inv, Next
  PROVE  \A t \in Threads : pc[t] # "dead"
<1> SUFFICES ASSUME undefined PROVE FALSE
  BY DEF undefined
<1>1. \A t \in Threads : pc[t] = "dead"
  BY DEF Inv, DeadInv
<1> QED BY <1>1 DEF Next, Progress, Step, TakeGil, FetchStep, Acquire, Yield,
            ParseEnds, Obtain, Obtained, Send, CallbackStarts, CallbackEnds,
            CopyCallback, DestroyCallback, Ready, SetPromise, RequestResult, RunReply, fetch_all, parse_junk,
            Release, DropFetcher, DropConsensus, Joined, Threads

(* The use of a destroyed object keeps the invariant where it may happen.  *)
LEMMA UndefinedPreservesInv ==
  ASSUME Inv, Dropped, Undefined,
         UNCHANGED <<gil, call, fetch, conn, objects, answers>>
  PROVE  Inv'
<1> USE ThreadsAssumption, FetchesAssumption DEF Inv, Result, Undefined, Threads, objects
<1>1. TypeOK'
  BY DEF TypeOK, PC
<1>2. PyInv' /\ WorkerInv'
  BY DEF PyInv, WorkerInv
<1>3. AnswerInv' /\ DropInv'
  BY DEF AnswerInv, DropInv, Queued, InUse
<1>4. DeadInv' /\ Dropped'
  BY DEF DeadInv, Dropped, Queued
<1> QED BY <1>1, <1>2, <1>3, <1>4 DEF UsedAfterDropOnly, Dropped

(* A thread takes the GIL and is back in Python.                           *)
LEMMA AcquirePreservesInv ==
  ASSUME Inv, NEW t \in Threads, Acquire(t),
         \A u \in Threads : pc[u] # "dead"
  PROVE  Inv'
<1> USE ThreadsAssumption, FetchesAssumption
    DEF Inv, Result, Acquire, Goto, Proceed, Threads, objects, Back
<1>1. TypeOK'
  BY DEF TypeOK, PC, Fetch
<1>2. PyInv'
  BY DEF TypeOK, PyInv, WorkerInv
<1>3. WorkerInv'
  BY DEF TypeOK, PyInv, WorkerInv, Queued
<1>4. AnswerInv'
  BY DEF TypeOK, PyInv, WorkerInv, AnswerInv, Queued
<1>5. DropInv'
  BY DEF TypeOK, PyInv, WorkerInv, DropInv, Queued, InUse
<1>6. ~undefined'
  BY DEF TypeOK, undefined
<1> QED BY <1>1, <1>2, <1>3, <1>4, <1>5, <1>6 DEF DeadInv, UsedAfterDropOnly

(* The GIL is handed over.                                                 *)
LEMMA YieldPreservesInv ==
  ASSUME Inv, NEW t \in Threads, Yield(t),
         \A u \in Threads : pc[u] # "dead"
  PROVE  Inv'
<1> USE ThreadsAssumption, FetchesAssumption
    DEF Inv, Result, Yield, Goto, Proceed, Threads, objects
<1>1. TypeOK'
  BY DEF TypeOK, PC, Fetch
<1>2. PyInv'
  BY DEF TypeOK, PyInv, WorkerInv
<1>3. WorkerInv'
  BY DEF TypeOK, PyInv, WorkerInv, Queued
<1>4. AnswerInv'
  BY DEF TypeOK, PyInv, WorkerInv, AnswerInv, Queued
<1>5. DropInv'
  BY DEF TypeOK, PyInv, WorkerInv, DropInv, Queued, InUse
<1>6. ~undefined'
  BY DEF TypeOK, undefined
<1> QED BY <1>1, <1>2, <1>3, <1>4, <1>5, <1>6 DEF DeadInv, UsedAfterDropOnly

(* parse_junk is called by a thread that is in no fetch.                   *)
LEMMA parse_junkPreservesInv ==
  ASSUME Inv, NEW t \in PyThreads, parse_junk(t),
         \A u \in Threads : pc[u] # "dead"
  PROVE  Inv'
<1> USE ThreadsAssumption, FetchesAssumption
    DEF Inv, Result, parse_junk, Goto, Proceed, Threads, objects, Release
<1>1. TypeOK'
  BY DEF TypeOK, PC, Fetch
<1>2. PyInv'
  BY DEF TypeOK, PyInv, WorkerInv
<1>3. WorkerInv'
  BY DEF TypeOK, PyInv, WorkerInv, Queued
<1>4. AnswerInv'
  BY DEF TypeOK, PyInv, WorkerInv, AnswerInv, Queued
<1>5. DropInv'
  BY DEF TypeOK, PyInv, WorkerInv, DropInv, Queued, InUse
<1>6. ~undefined'
  BY DEF TypeOK, undefined
<1> QED BY <1>1, <1>2, <1>3, <1>4, <1>5, <1>6 DEF DeadInv, UsedAfterDropOnly

(* parse_junk ends.                                                        *)
LEMMA ParseEndsPreservesInv ==
  ASSUME Inv, NEW t \in Threads, ParseEnds(t),
         \A u \in Threads : pc[u] # "dead"
  PROVE  Inv'
<1> USE ThreadsAssumption, FetchesAssumption
    DEF Inv, Result, ParseEnds, Goto, Proceed, Threads, objects
<1>1. TypeOK'
  BY DEF TypeOK, PC, Fetch
<1>2. PyInv'
  BY DEF TypeOK, PyInv, WorkerInv
<1>3. WorkerInv'
  BY DEF TypeOK, PyInv, WorkerInv, Queued
<1>4. AnswerInv'
  BY DEF TypeOK, PyInv, WorkerInv, AnswerInv, Queued
<1>5. DropInv'
  BY DEF TypeOK, PyInv, WorkerInv, DropInv, Queued, InUse
<1>6. ~undefined'
  BY DEF TypeOK, undefined
<1> QED BY <1>1, <1>2, <1>3, <1>4, <1>5, <1>6 DEF DeadInv, UsedAfterDropOnly

(* A fetch is made once, and only while there is a fetcher.                *)
LEMMA fetch_allPreservesInv ==
  ASSUME Inv, NEW t \in PyThreads, NEW f \in Fetches, fetch_all(t, f),
         \A u \in Threads : pc[u] # "dead"
  PROVE  Inv'
<1> USE ThreadsAssumption, FetchesAssumption
    DEF Inv, Result, fetch_all, Goto, Proceed, Threads, objects, Release
<1>1. TypeOK'
  BY DEF TypeOK, PC, Fetch
<1>2. PyInv'
  BY DEF TypeOK, PyInv, WorkerInv
<1>3. WorkerInv'
  BY DEF TypeOK, PyInv, WorkerInv, Queued
<1>4. AnswerInv'
  BY DEF TypeOK, PyInv, WorkerInv, AnswerInv, Queued
<1>5. DropInv'
  BY DEF TypeOK, PyInv, WorkerInv, DropInv, Queued, InUse
<1>6. ~undefined'
  BY DEF TypeOK, undefined
<1> QED BY <1>1, <1>2, <1>3, <1>4, <1>5, <1>6 DEF DeadInv, UsedAfterDropOnly

(* The callback is copied, in fetch_all or for the request.                *)
LEMMA CopyCallbackPreservesInv ==
  ASSUME Inv, NEW t \in Threads, CopyCallback(t),
         \A u \in Threads : pc[u] # "dead"
  PROVE  Inv'
<1> USE ThreadsAssumption, FetchesAssumption
    DEF Inv, Result, CopyCallback, Goto, Threads, objects
<1>0. t \in PyThreads
  BY DEF WorkerInv
<1>1. TypeOK'
  BY DEF TypeOK, PC
<1>2. PyInv'
  <2>1. \A u \in PyThreads :
          pc'[u] = IF u # t THEN pc[u]
                   ELSE IF pc[t] = "copy" THEN "obtain" ELSE "send"
    BY <1>0 DEF TypeOK
  <2> QED BY ONLY PyInv, CopyCallback(t), <1>0, <2>1 DEF PyInv, CopyCallback, Result
<1>3. WorkerInv'
  BY <1>0 DEF TypeOK, WorkerInv
<1>4. AnswerInv'
  BY DEF TypeOK, AnswerInv, Queued
<1>5. DropInv'
  BY DEF DropInv, Queued, InUse
<1>6. ~undefined'
  BY DEF TypeOK, undefined
<1> QED BY <1>1, <1>2, <1>3, <1>4, <1>5, <1>6 DEF DeadInv, UsedAfterDropOnly

(* The callback is destroyed at the end of a worker's job.                 *)
LEMMA DestroyCallbackPreservesInv ==
  ASSUME Inv, NEW t \in Threads, DestroyCallback(t),
         \A u \in Threads : pc[u] # "dead"
  PROVE  Inv'
<1> USE ThreadsAssumption, FetchesAssumption
    DEF Inv, Result, DestroyCallback, Goto, Threads, objects
<1>0. t \in Workers
  BY DEF PyInv
<1>1. TypeOK'
  BY DEF TypeOK, PC
<1>2. PyInv'
  BY <1>0 DEF TypeOK, PyInv
<1>3. WorkerInv'
  BY <1>0 DEF TypeOK, WorkerInv
<1>4. AnswerInv'
  BY DEF TypeOK, AnswerInv, Queued
<1>5. DropInv'
  BY DEF DropInv, Queued, InUse
<1>6. ~undefined'
  BY DEF TypeOK, undefined
<1> QED BY <1>1, <1>2, <1>3, <1>4, <1>5, <1>6 DEF DeadInv, UsedAfterDropOnly

(* FetchAll reads _conn: without a connection it needs the consensus, and  *)
(* a call that does not find it is under way.                              *)
LEMMA ObtainPreservesInv ==
  ASSUME Inv, NEW t \in Threads, Obtain(t), \A u \in Threads : pc[u] # "dead"
  PROVE  Inv'
<1> USE ThreadsAssumption, FetchesAssumption
    DEF Inv, Result, Obtain, Goto, Proceed, Threads, objects
<1>0. t \in PyThreads /\ call[t] \in Fetches /\ fetch[call[t]] = "calling"
  BY DEF TypeOK, PyInv, WorkerInv
<1>7. CASE Undefined
  <2>1. CASE UNCHANGED fetch /\ consensus # "alive"
    BY <1>0, <1>7, <2>1, UndefinedPreservesInv DEF Dropped
  <2>2. CASE ~(UNCHANGED fetch /\ consensus # "alive")
    <3>1. pc' = [pc EXCEPT ![t] = "bind"] \/ pc' = [pc EXCEPT ![t] = "wait"]
      BY <2>2
    <3> QED BY <1>7, <3>1 DEF TypeOK, Undefined
  <2> QED BY <2>1, <2>2
<1>8. CASE ~Undefined
  <2>0. \/ pc' = [pc EXCEPT ![t] = "bind"] /\ UNCHANGED fetch
        \/ /\ pc' = [pc EXCEPT ![t] = "wait"]
           /\ fetch' = [fetch EXCEPT ![call[t]] = "opening"]
    BY <1>8
  <2>1. TypeOK'
    BY <1>0, <2>0 DEF TypeOK, PC, Fetch
  <2>2. PyInv'
    BY <1>0, <2>0 DEF TypeOK, PyInv, WorkerInv
  <2>3. WorkerInv'
    BY <1>0, <2>0 DEF TypeOK, PyInv, WorkerInv, Queued
  <2>4. AnswerInv'
    BY <1>0, <2>0 DEF TypeOK, PyInv, WorkerInv, AnswerInv, Queued
  <2>5. DropInv'
    BY <1>0, <2>0 DEF TypeOK, PyInv, WorkerInv, DropInv, Queued, InUse
  <2>6. ~undefined'
    BY <1>0, <2>0 DEF TypeOK, undefined
  <2> QED BY <2>1, <2>2, <2>3, <2>4, <2>5, <2>6 DEF DeadInv, UsedAfterDropOnly
<1> QED BY <1>7, <1>8

(* The promise is set: the callback of a refused call had not been called. *)
LEMMA ObtainedPreservesInv ==
  ASSUME Inv, NEW t \in Threads, Obtained(t),
         \A u \in Threads : pc[u] # "dead"
  PROVE  Inv'
<1> USE ThreadsAssumption, FetchesAssumption
    DEF Inv, Result, Obtained, Goto, Proceed, Threads, objects
<1>0. t \in PyThreads /\ call[t] \in Fetches
  BY DEF TypeOK, PyInv, WorkerInv
<1>1. TypeOK'
  BY <1>0 DEF TypeOK, PC, Fetch
<1>2. PyInv'
  <2>1. /\ \A u \in PyThreads : u # t => pc'[u] = pc[u]
        /\ pc'[t] = IF fetch[call[t]] = "up" THEN "bind" ELSE "callback"
        /\ call' = call /\ fetch' = fetch
    BY <1>0 DEF TypeOK
  <2> QED BY ONLY PyInv, Obtained(t), <1>0, <2>1 DEF PyInv, Obtained, Result
<1>3. WorkerInv'
  BY <1>0 DEF TypeOK, PyInv, WorkerInv, Queued
<1>4. AnswerInv'
  BY <1>0 DEF TypeOK, PyInv, WorkerInv, AnswerInv, Queued
<1>5. DropInv'
  BY <1>0 DEF TypeOK, PyInv, WorkerInv, DropInv, Queued, InUse
<1>6. ~undefined'
  BY <1>0 DEF TypeOK, undefined
<1> QED BY <1>1, <1>2, <1>3, <1>4, <1>5, <1>6 DEF DeadInv, UsedAfterDropOnly

(* The request needs the consensus, and a call that does not find it is    *)
(* under way.                                                              *)
LEMMA SendPreservesInv ==
  ASSUME Inv, NEW t \in Threads, Send(t), \A u \in Threads : pc[u] # "dead"
  PROVE  Inv'
<1> USE ThreadsAssumption, FetchesAssumption
    DEF Inv, Result, Send, Goto, Proceed, Threads, objects
<1>0. t \in PyThreads /\ call[t] \in Fetches /\ fetch[call[t]] \in {"calling", "up"}
  <2>1. pc[t] = "send"
    OBVIOUS
  <2> QED BY ONLY <2>1, TypeOK, PyInv, WorkerInv DEF TypeOK, PyInv, WorkerInv, Threads, Result
<1>7. CASE consensus # "alive"
  BY <1>0, <1>7, UndefinedPreservesInv DEF Dropped
<1>8. CASE consensus = "alive"
  <2>0. /\ pc' = [pc EXCEPT ![t] = "want"]
        /\ fetch' = [fetch EXCEPT ![call[t]] = "wire"]
    BY <1>8
  <2>1. TypeOK'
    BY <1>0, <2>0 DEF TypeOK, PC, Fetch
  <2>2. PyInv'
    BY <1>0, <2>0 DEF TypeOK, PyInv, WorkerInv
  <2>3. WorkerInv'
    BY <1>0, <2>0 DEF TypeOK, PyInv, WorkerInv, Queued
  <2>4. AnswerInv'
    BY <1>0, <2>0 DEF TypeOK, PyInv, WorkerInv, AnswerInv, Queued
  <2>5. DropInv'
    BY <1>0, <2>0 DEF TypeOK, PyInv, WorkerInv, DropInv, Queued, InUse
  <2>6. ~undefined'
    BY <1>0, <2>0 DEF TypeOK, undefined
  <2> QED BY <2>1, <2>2, <2>3, <2>4, <2>5, <2>6 DEF DeadInv, UsedAfterDropOnly
<1> QED BY <1>7, <1>8

(* The Python function is called: by one thread, and for the first time.   *)
LEMMA CallbackStartsPreservesInv ==
  ASSUME Inv, NEW t \in Threads, CallbackStarts(t),
         \A u \in Threads : pc[u] # "dead"
  PROVE  Inv'
<1> USE ThreadsAssumption, FetchesAssumption
    DEF Inv, Result, CallbackStarts, Goto, Proceed, Threads, objects, Call
<1>0. call[t] \in Fetches
  BY DEF TypeOK, PyInv, WorkerInv
<1>1. TypeOK'
  <2>1. Append(answers[call[t]], Heard(call[t])) \in Seq({"body", "nullopt"})
    <3>1. /\ answers[call[t]] \in Seq({"body", "nullopt"})
          /\ Heard(call[t]) \in {"body", "nullopt"}
      BY <1>0 DEF TypeOK, Heard
    <3> QED BY <3>1
  <2> QED BY <1>0, <2>1 DEF TypeOK, PC
<1>2. PyInv'
  BY <1>0 DEF TypeOK, PyInv, WorkerInv
<1>3. WorkerInv'
  BY <1>0 DEF TypeOK, PyInv, WorkerInv, Queued
<1>4. AnswerInv'
  <2>1. ~Queued(call[t]) /\ fetch[call[t]] \in {"refused"} \cup Result
    BY DEF PyInv, WorkerInv, Queued
  <2>2. \A f \in Fetches : f # call[t] => answers'[f] = answers[f]
    BY <1>0 DEF TypeOK
  <2>3. \A f \in Fetches : Queued(f)' <=> Queued(f)
    BY DEF Queued
  <2>4. ASSUME NEW f \in Fetches,
               \/ fetch'[f] \in {"unsent", "calling", "opening", "up", "wire"}
               \/ Queued(f)'
        PROVE  answers'[f] = << >>
    <3>1. f # call[t]
      BY <2>1, <2>3, <2>4
    <3> QED BY <2>2, <2>3, <2>4, <3>1 DEF AnswerInv
  <2>5. ASSUME NEW u \in Threads, pc'[u] \in {"wait", "callback"}
        PROVE  answers'[call'[u]] = << >>
    <3>1. u # t /\ pc[u] = pc'[u] /\ call'[u] = call[u]
      BY <2>5 DEF TypeOK
    <3>2. call[u] \in Fetches
      BY <2>5, <3>1 DEF TypeOK, PyInv, WorkerInv
    <3>3. call[u] # call[t]
      <4>1. CASE t \in PyThreads /\ u \in PyThreads
        BY <1>0, <3>1, <4>1 DEF PyInv
      <4>2. CASE t \in Workers /\ u \in Workers
        BY <1>0, <3>1, <4>2 DEF WorkerInv
      <4>3. CASE t \in PyThreads /\ u \in Workers
        BY <1>0, <4>3 DEF PyInv, WorkerInv
      <4>4. CASE t \in Workers /\ u \in PyThreads
        BY <1>0, <2>5, <3>1, <4>4 DEF PyInv, WorkerInv
      <4> QED BY <4>1, <4>2, <4>3, <4>4
    <3>4. answers[call[u]] = << >>
      BY <2>5, <3>1 DEF AnswerInv
    <3> QED BY <2>2, <3>1, <3>2, <3>3, <3>4
  <2> QED BY ONLY <2>4, <2>5 DEF AnswerInv
<1>5. DropInv'
  BY <1>0 DEF TypeOK, PyInv, WorkerInv, DropInv, Queued, InUse
<1>6. ~undefined'
  BY <1>0 DEF TypeOK, undefined
<1> QED BY <1>1, <1>2, <1>3, <1>4, <1>5, <1>6 DEF DeadInv, UsedAfterDropOnly

(* The Python function returns or raises.                                  *)
LEMMA CallbackEndsPreservesInv ==
  ASSUME Inv, NEW t \in Threads, CallbackEnds(t),
         \A u \in Threads : pc[u] # "dead"
  PROVE  Inv'
<1> USE ThreadsAssumption, FetchesAssumption
    DEF Inv, Result, CallbackEnds, Goto, Proceed, Threads, objects, given_back
<1>0. call[t] \in Fetches
  BY DEF TypeOK, PyInv, WorkerInv
<1>1. TypeOK'
  BY <1>0 DEF TypeOK, PC, Fetch
<1>2. PyInv'
  <2>1. fetch' = [fetch EXCEPT ![call[t]] = "done"] /\ pc[t] = "incb"
    OBVIOUS
  <2>2. CASE t \in Workers
    <3>1. /\ pc' = [pc EXCEPT ![t] = "release"]
          /\ call' = [call EXCEPT ![t] = None]
          /\ fetch[call[t]] \in Result
      BY <1>0, <2>1, <2>2 DEF WorkerInv
    <3>2. \A u \in PyThreads : pc'[u] = pc[u] /\ call'[u] = call[u]
      BY <2>2, <3>1 DEF TypeOK
    <3> QED BY ONLY <1>0, <2>1, <3>1, <3>2, TypeOK, PyInv
            DEF TypeOK, PyInv, Threads, Result
  <2>3. CASE t \in PyThreads
    <3>1. pc' = [pc EXCEPT ![t] = "want"] /\ UNCHANGED call
      BY <2>3
    <3>2. \A u \in PyThreads : u # t => pc'[u] = pc[u] /\ call[u] # call[t]
      BY <1>0, <2>3, <3>1 DEF TypeOK, PyInv
    <3> QED BY ONLY <1>0, <2>1, <2>3, <3>1, <3>2, TypeOK, PyInv
            DEF TypeOK, PyInv, Threads, Result
  <2> QED BY <2>2, <2>3
<1>3. WorkerInv'
  <2>1. fetch' = [fetch EXCEPT ![call[t]] = "done"] /\ pc[t] = "incb"
    OBVIOUS
  <2>2. CASE t \in Workers
    <3>1. /\ pc' = [pc EXCEPT ![t] = "release"]
          /\ call' = [call EXCEPT ![t] = None]
      BY <2>2
    <3>2. \A w \in Workers : w # t => /\ pc'[w] = pc[w] /\ call'[w] = call[w]
                                     /\ call[w] # call[t]
      BY <1>0, <2>2, <3>1 DEF TypeOK, WorkerInv
    <3> QED BY ONLY <1>0, <2>1, <2>2, <3>1, <3>2, TypeOK, WorkerInv
            DEF TypeOK, WorkerInv, Threads, Result
  <2>3. CASE t \in PyThreads
    <3>1. pc' = [pc EXCEPT ![t] = "want"] /\ UNCHANGED call
      BY <2>3
    <3>2. \A w \in Workers : pc'[w] = pc[w] /\ call[w] # call[t]
      BY <1>0, <2>1, <2>3, <3>1 DEF TypeOK, PyInv, WorkerInv
    <3> QED BY ONLY <1>0, <2>1, <3>1, <3>2, TypeOK, WorkerInv
            DEF TypeOK, WorkerInv, Threads, Result
  <2> QED BY <2>2, <2>3
<1>4. AnswerInv'
  <2>1. /\ fetch' = [fetch EXCEPT ![call[t]] = "done"] /\ UNCHANGED answers
        /\ pc[t] = "incb"
    OBVIOUS
  <2>2. \A f \in Fetches : Queued(f)' => Queued(f)
    BY <1>0, <2>1 DEF TypeOK, Queued
  <2>3. \A u \in Threads :
          pc'[u] \in {"wait", "callback"} => pc'[u] = pc[u] /\ call'[u] = call[u]
    BY DEF TypeOK
  <2> QED BY <1>0, <2>1, <2>2, <2>3 DEF TypeOK, AnswerInv
<1>5. DropInv'
  BY <1>0 DEF TypeOK, PyInv, WorkerInv, DropInv, Queued, InUse
<1>6. ~undefined'
  BY <1>0 DEF TypeOK, undefined
<1> QED BY <1>1, <1>2, <1>3, <1>4, <1>5, <1>6 DEF DeadInv, UsedAfterDropOnly

(* The promise of a fetch is set while its thread waits for it.            *)
LEMMA SetPromisePreservesInv ==
  ASSUME Inv, NEW f \in Fetches, SetPromise(f),
         \A u \in Threads : pc[u] # "dead"
  PROVE  Inv'
<1> USE ThreadsAssumption, FetchesAssumption
    DEF Inv, Result, SetPromise, Goto, Proceed, Threads, objects
<1>1. TypeOK'
  BY DEF TypeOK, PC, Fetch
<1>2. PyInv'
  BY DEF TypeOK, PyInv, WorkerInv
<1>3. WorkerInv'
  BY DEF TypeOK, PyInv, WorkerInv, Queued
<1>4. AnswerInv'
  BY DEF TypeOK, PyInv, WorkerInv, AnswerInv, Queued
<1>5. DropInv'
  BY DEF TypeOK, PyInv, WorkerInv, DropInv, Queued, InUse
<1>6. ~undefined'
  BY DEF TypeOK, undefined
<1> QED BY <1>1, <1>2, <1>3, <1>4, <1>5, <1>6 DEF DeadInv, UsedAfterDropOnly

(* A result of a fetch is queued.                                          *)
LEMMA RequestResultPreservesInv ==
  ASSUME Inv, NEW f \in Fetches, RequestResult(f),
         \A u \in Threads : pc[u] # "dead"
  PROVE  Inv'
<1> USE ThreadsAssumption, FetchesAssumption
    DEF Inv, Result, RequestResult, Goto, Proceed, Threads, objects
<1>1. TypeOK'
  BY DEF TypeOK, PC, Fetch
<1>2. PyInv'
  BY DEF TypeOK, PyInv, WorkerInv
<1>3. WorkerInv'
  BY DEF TypeOK, PyInv, WorkerInv, Queued
<1>4. AnswerInv'
  BY DEF TypeOK, PyInv, WorkerInv, AnswerInv, Queued
<1>5. DropInv'
  BY DEF TypeOK, PyInv, WorkerInv, DropInv, Queued, InUse
<1>6. ~undefined'
  BY DEF TypeOK, undefined
<1> QED BY <1>1, <1>2, <1>3, <1>4, <1>5, <1>6 DEF DeadInv, UsedAfterDropOnly

(* A worker begins with a result, and needs the fetcher to parse a body: a *)
(* result that does not find it was under way when it was dropped.  A body *)
(* with a key of odd length overruns.                                      *)
LEMMA RunReplyPreservesInv ==
  ASSUME Inv, NEW w \in Workers, NEW f \in Fetches, RunReply(w, f),
         \A u \in Threads : pc[u] # "dead"
  PROVE  Inv'
<1> USE ThreadsAssumption, FetchesAssumption
    DEF Inv, Result, RunReply, Ready, Goto, Proceed, Threads, objects
<1>7. CASE fetcher = "gone" /\ Undefined /\ UNCHANGED <<call, fetch>>
  <2>1. Dropped
    BY <1>7 DEF DropInv, Dropped
  <2> QED BY <1>7, <2>1, UndefinedPreservesInv
<1>9. CASE Undefined /\ Proceed(f, "overrun") /\ UNCHANGED call
  <2>0. /\ \A t \in Threads : pc'[t] = "dead"
        /\ fetch' = [fetch EXCEPT ![f] = "overrun"] /\ Queued(f)
        /\ \A v \in Workers : call[v] # f
    BY <1>9 DEF Undefined, Queued
  <2>1. TypeOK'
    BY <1>9, <2>0 DEF TypeOK, PC, Fetch, Undefined
  <2>2. PyInv' /\ WorkerInv'
    BY <1>9, <2>0 DEF TypeOK, PyInv, WorkerInv
  <2>3. \A g \in Fetches : Queued(g)' => Queued(g) /\ fetch'[g] = fetch[g]
    BY <1>9, <2>0 DEF TypeOK, Queued
  <2>4. AnswerInv'
    BY <2>0, <2>3 DEF TypeOK, AnswerInv
  <2>5. DropInv'
    BY <1>9, <2>0, <2>3 DEF TypeOK, DropInv, InUse
  <2>6. DeadInv' /\ UsedAfterDropOnly'
    BY <2>0 DEF TypeOK, DeadInv, UsedAfterDropOnly
  <2> QED BY <2>1, <2>2, <2>4, <2>5, <2>6
<1>8. CASE Goto(w, "callback") /\ call' = [call EXCEPT ![w] = f] /\ UNCHANGED fetch
  <2>0. /\ pc' = [pc EXCEPT ![w] = "callback"] /\ call' = [call EXCEPT ![w] = f]
        /\ Queued(f) /\ call[w] = None /\ UNCHANGED fetch
    BY <1>8 DEF WorkerInv
  <2>1. TypeOK'
    BY <2>0 DEF TypeOK, PC, Fetch
  <2>2. PyInv'
    BY <2>0 DEF TypeOK, PyInv, WorkerInv
  <2>3. WorkerInv'
    BY <2>0 DEF TypeOK, PyInv, WorkerInv, Queued
  <2>4. AnswerInv'
    BY <2>0 DEF TypeOK, PyInv, WorkerInv, AnswerInv, Queued
  <2>5. DropInv'
    BY <2>0 DEF TypeOK, PyInv, WorkerInv, DropInv, Queued, InUse
  <2>6. ~undefined'
    BY <2>0 DEF TypeOK, undefined
  <2> QED BY <2>1, <2>2, <2>3, <2>4, <2>5, <2>6 DEF DeadInv, UsedAfterDropOnly
<1> QED BY <1>7, <1>8, <1>9

(* The fetcher goes while no thread is in one of its calls.                *)
LEMMA DropFetcherPreservesInv ==
  ASSUME Inv, NEW t \in PyThreads, DropFetcher(t),
         \A u \in Threads : pc[u] # "dead"
  PROVE  Inv'
<1> USE ThreadsAssumption, FetchesAssumption
    DEF Inv, Result, DropFetcher, Goto, Proceed, Threads, objects
<1>1. TypeOK'
  BY DEF TypeOK, PC, Fetch
<1>2. PyInv'
  BY DEF TypeOK, PyInv, WorkerInv
<1>3. WorkerInv'
  BY DEF TypeOK, PyInv, WorkerInv, Queued
<1>4. AnswerInv'
  BY DEF TypeOK, PyInv, WorkerInv, AnswerInv, Queued
<1>5. DropInv'
  BY DEF TypeOK, PyInv, WorkerInv, DropInv, Queued, InUse
<1>6. ~undefined'
  BY DEF TypeOK, undefined
<1> QED BY <1>1, <1>2, <1>3, <1>4, <1>5, <1>6 DEF DeadInv, UsedAfterDropOnly

(* The consensus goes, whoever uses it.                                    *)
LEMMA DropConsensusPreservesInv ==
  ASSUME Inv, NEW t \in PyThreads, DropConsensus(t),
         \A u \in Threads : pc[u] # "dead"
  PROVE  Inv'
<1> USE ThreadsAssumption, FetchesAssumption
    DEF Inv, Result, DropConsensus, Goto, Proceed, Threads, objects
<1>1. TypeOK'
  BY DEF TypeOK, PC, Fetch
<1>2. PyInv'
  BY DEF TypeOK, PyInv, WorkerInv
<1>3. WorkerInv'
  BY DEF TypeOK, PyInv, WorkerInv, Queued
<1>4. AnswerInv'
  BY DEF TypeOK, PyInv, WorkerInv, AnswerInv, Queued
<1>5. DropInv'
  BY DEF TypeOK, PyInv, WorkerInv, DropInv, Queued, InUse
<1>6. ~undefined'
  BY DEF TypeOK, undefined
<1> QED BY <1>1, <1>2, <1>3, <1>4, <1>5, <1>6 DEF DeadInv, UsedAfterDropOnly

(* The destructor ends.                                                    *)
LEMMA JoinedPreservesInv ==
  ASSUME Inv, NEW t \in Threads, Joined(t),
         \A u \in Threads : pc[u] # "dead"
  PROVE  Inv'
<1> USE ThreadsAssumption, FetchesAssumption
    DEF Inv, Result, Joined, Goto, Proceed, Threads, objects
<1>1. TypeOK'
  BY DEF TypeOK, PC, Fetch
<1>2. PyInv'
  BY DEF TypeOK, PyInv, WorkerInv
<1>3. WorkerInv'
  BY DEF TypeOK, PyInv, WorkerInv, Queued
<1>4. AnswerInv'
  BY DEF TypeOK, PyInv, WorkerInv, AnswerInv, Queued
<1>5. DropInv'
  BY DEF TypeOK, PyInv, WorkerInv, DropInv, Queued, InUse
<1>6. ~undefined'
  BY DEF TypeOK, undefined
<1> QED BY <1>1, <1>2, <1>3, <1>4, <1>5, <1>6 DEF DeadInv, UsedAfterDropOnly

(* The invariant holds in every reachable state.                           *)
THEOREM InvHolds == Spec => []Inv
<1>1. Init => Inv
  <2> SUFFICES ASSUME Init PROVE Inv
    OBVIOUS
  <2> USE ThreadsAssumption, FetchesAssumption DEF Init, Threads
  <2>1. TypeOK
    <3>1. pc \in [Threads -> PC] /\ fetch \in [Fetches -> Fetch]
      BY DEF PC, Fetch
    <3>2. conn \in BOOLEAN
      OBVIOUS
    <3>3. answers \in [Fetches -> Seq({"body", "nullopt"})]
      OBVIOUS
    <3> QED BY <3>1, <3>2, <3>3 DEF TypeOK
  <2>2. PyInv /\ WorkerInv
    BY DEF PyInv, WorkerInv
  <2>3. AnswerInv /\ DropInv
    BY DEF AnswerInv, DropInv
  <2>4. ~undefined
    BY DEF undefined
  <2> QED BY <2>1, <2>2, <2>3, <2>4 DEF Inv, DeadInv, UsedAfterDropOnly
<1>2. Inv /\ [Next]_vars => Inv'
  <2> SUFFICES ASSUME Inv, [Next]_vars PROVE Inv'
    OBVIOUS
  <2>1. CASE Next
    <3>0. \A t \in Threads : pc[t] # "dead"
      BY <2>1, NothingAfterUse
    <3>1. ASSUME NEW t \in Threads, Step(t) PROVE Inv'
      BY <3>0, <3>1, YieldPreservesInv, ParseEndsPreservesInv, ObtainPreservesInv,
         ObtainedPreservesInv, SendPreservesInv, JoinedPreservesInv DEF Step
    <3>2. ASSUME NEW t \in Threads, TakeGil(t) \/ CallbackEnds(t) PROVE Inv'
      BY <3>0, <3>2, AcquirePreservesInv, CallbackStartsPreservesInv,
         CopyCallbackPreservesInv, DestroyCallbackPreservesInv,
         CallbackEndsPreservesInv DEF TakeGil
    <3>3. ASSUME NEW f \in Fetches, FetchStep(f) PROVE Inv'
      BY <3>0, <3>3, SetPromisePreservesInv, RequestResultPreservesInv,
         RunReplyPreservesInv DEF FetchStep
    <3>4. ASSUME NEW t \in PyThreads, NEW f \in Fetches, fetch_all(t, f) PROVE Inv'
      BY <3>0, <3>4, fetch_allPreservesInv
    <3>5. ASSUME NEW t \in PyThreads,
                 parse_junk(t) \/ DropFetcher(t) \/ DropConsensus(t)
          PROVE  Inv'
      BY <3>0, <3>5, parse_junkPreservesInv, DropFetcherPreservesInv,
         DropConsensusPreservesInv
    <3> QED BY <2>1, <3>1, <3>2, <3>3, <3>4, <3>5 DEF Next, Progress
  <2>2. CASE UNCHANGED vars
    BY <2>2 DEF vars, objects, Inv, TypeOK, PyInv, WorkerInv, AnswerInv, DropInv,
                DeadInv, UsedAfterDropOnly, undefined, Queued, InUse
  <2> QED BY <2>1, <2>2
<1> QED BY <1>1, <1>2, PTL DEF Spec

(* The binding's state keeps its types.                                    *)
THEOREM TypeCorrect == Spec => []TypeOK
BY InvHolds, PTL DEF Inv

(* Apart from the overrun on a key of odd length, a destroyed object is    *)
(* used only after one of the two drops that can lead there, with any      *)
(* number of threads and fetches.                                          *)
THEOREM UsedAfterDropOnlyHolds == Spec => []UsedAfterDropOnly
BY InvHolds, PTL DEF Inv

(* Every step of the binding is a step of the contract or leaves its state *)
(* alone: a Python function is called at most once, after its fetch_all.   *)
THEOREM KeepsContractHolds == Spec => KeepsContract
<1> DEFINE mapped == {f \in Fetches : fetch[f] # "unsent"}
<1>1. Init => Contract!Init
  BY DEF Init, Contract!Init
<1>2. Inv /\ [Next]_vars => [Contract!Next]_Contract!vars
  <2> SUFFICES ASSUME Inv, [Next]_vars
               PROVE  Contract!Next \/ UNCHANGED Contract!vars
    OBVIOUS
  <2> USE DEF Contract!Next, Contract!vars
  <2>0. TypeOK
    BY DEF Inv
  <2>1. ASSUME NEW t \in PyThreads, NEW f \in Fetches, fetch_all(t, f)
        PROVE  Contract!Send(f)
    BY <2>0, <2>1 DEF TypeOK, fetch_all, Proceed, Contract!Send
  <2>2. ASSUME NEW t \in Threads, CallbackStarts(t)
        PROVE  Contract!Respond(call[t])
    <3>1. /\ call[t] \in Fetches /\ fetch[call[t]] # "unsent"
          /\ answers[call[t]] = << >>
      BY <2>2, FetchesAssumption
         DEF CallbackStarts, Inv, TypeOK, PyInv, WorkerInv, AnswerInv, Threads,
             Result
    <3>2. Append(answers[call[t]], Heard(call[t])) = <<Heard(call[t])>>
      BY <3>1
    <3>3. answers' = [answers EXCEPT ![call[t]] = <<Heard(call[t])>>]
      BY <2>0, <2>2, <3>1, <3>2 DEF CallbackStarts, Call, TypeOK
    <3>4. mapped' = mapped /\ call[t] \in mapped
      BY <2>2, <3>1 DEF CallbackStarts
    <3>5. Heard(call[t]) \in Contract!Answer
      BY DEF Heard, Contract!Answer
    <3> QED BY <3>1, <3>3, <3>4, <3>5 DEF Contract!Respond
  <2>3. ASSUME NEW t \in Threads, NEW s \in {"opening", "wire", "done"},
               call[t] # None, fetch[call[t]] # "unsent",
               fetch' = [fetch EXCEPT ![call[t]] = s], UNCHANGED answers
        PROVE  UNCHANGED Contract!vars
    BY <2>0, <2>3 DEF TypeOK
  <2>4. ASSUME NEW t \in Threads, Obtain(t) \/ Send(t) \/ CallbackEnds(t)
        PROVE  UNCHANGED Contract!vars
    <3>1. call[t] # None /\ fetch[call[t]] # "unsent"
      BY <2>4 DEF Obtain, Send, CallbackEnds, Inv, PyInv, WorkerInv, Threads, Result
    <3> QED BY <2>3, <2>4, <3>1 DEF Obtain, Send, CallbackEnds, Proceed
  <2>5. ASSUME NEW f \in Fetches, SetPromise(f) \/ RequestResult(f)
        PROVE  UNCHANGED Contract!vars
    BY <2>0, <2>5 DEF TypeOK, SetPromise, RequestResult, Proceed, Result
  <2>6. CASE UNCHANGED <<fetch, answers>>
    BY <2>6
  <2>7. ASSUME NEW t \in Threads,
               \/ Yield(t) \/ ParseEnds(t) \/ Obtained(t) \/ Joined(t)
               \/ CopyCallback(t) \/ DestroyCallback(t)
               \/ Acquire(t) \/ parse_junk(t) \/ DropFetcher(t)
               \/ DropConsensus(t)
        PROVE  UNCHANGED <<fetch, answers>>
    BY <2>7 DEF Yield, ParseEnds, Obtained, Joined, Acquire, parse_junk,
                CopyCallback, DestroyCallback, DropFetcher, DropConsensus
  <2>8. ASSUME NEW w \in Workers, NEW f \in Fetches, RunReply(w, f)
        PROVE  UNCHANGED Contract!vars
    <3>1. fetch[f] # "unsent" /\ UNCHANGED answers
      BY <2>8 DEF RunReply, Queued, Result
    <3>2. UNCHANGED fetch \/ fetch' = [fetch EXCEPT ![f] = "overrun"]
      BY <2>8 DEF RunReply, Proceed
    <3> QED BY <2>0, <3>1, <3>2 DEF TypeOK
  <2>9. CASE UNCHANGED vars
    BY <2>6, <2>9 DEF vars
  <2>10. ASSUME NEW t \in Threads, Step(t) \/ TakeGil(t) \/ CallbackEnds(t)
         PROVE  Contract!Next \/ UNCHANGED Contract!vars
    <3>1. CASE CallbackStarts(t)
      <4>1. call[t] \in Fetches
        BY <3>1, FetchesAssumption
           DEF CallbackStarts, Inv, TypeOK, PyInv, WorkerInv, Threads
      <4> QED BY <2>2, <3>1, <4>1
    <3> QED BY <2>4, <2>6, <2>7, <2>10, <3>1 DEF Step, TakeGil
  <2>11. ASSUME NEW f \in Fetches, FetchStep(f)
         PROVE  UNCHANGED Contract!vars
    BY <2>5, <2>6, <2>8, <2>11 DEF FetchStep
  <2>12. ASSUME NEW t \in PyThreads,
                parse_junk(t) \/ DropFetcher(t) \/ DropConsensus(t)
         PROVE  UNCHANGED Contract!vars
    BY <2>6, <2>7, <2>12 DEF Threads
  <2> QED BY <2>1, <2>9, <2>10, <2>11, <2>12 DEF Next, Progress
<1> QED BY <1>1, <1>2, InvHolds, PTL DEF Spec, KeepsContract, Contract!Spec

-------------------------------------------------------------------------------
(* The thread that holds the GIL is in Python, in a callback or in the     *)
(* destructor of the consensus, and only such a thread is there; a thread  *)
(* waits for OxenMQ's workers while they are told to quit, and only then.  *)
GilInv ==
  /\ \A t \in Threads :
       /\ pc[t] \in {"py", "incb", "join"} => gil = t
       /\ gil = t => pc[t] \in {"py", "incb", "join", "dead"}
       /\ pc[t] = "join" => consensus = "quit"
  /\ consensus = "quit" /\ ~undefined => \E t \in PyThreads : pc[t] = "join"

(* A thread that neither holds the GIL nor takes it keeps the invariant.   *)
LEMMA ElsewherePreservesGilInv ==
  ASSUME TypeOK, GilInv, NEW t \in Threads, NEW l \in PC,
         pc[t] \notin {"py", "incb", "join", "dead"},
         l \notin {"py", "incb", "join", "dead"},
         pc' = [pc EXCEPT ![t] = l], UNCHANGED <<gil, consensus>>
  PROVE  GilInv'
<1>1. \A u \in Threads : pc'[u] = IF u = t THEN l ELSE pc[u]
  BY DEF TypeOK
<1>2. undefined' <=> undefined
  BY <1>1 DEF undefined
<1>3. ASSUME NEW u \in Threads
      PROVE  /\ pc'[u] \in {"py", "incb", "join"} => gil' = u
             /\ gil' = u => pc'[u] \in {"py", "incb", "join", "dead"}
             /\ pc'[u] = "join" => consensus' = "quit"
  BY <1>1 DEF GilInv
<1>4. consensus' = "quit" /\ ~undefined' => \E u \in PyThreads : pc'[u] = "join"
  BY <1>1, <1>2 DEF GilInv, Threads
<1> QED BY ONLY <1>3, <1>4 DEF GilInv

(* A thread that holds the GIL gives it back.                              *)
LEMMA GivingBackPreservesGilInv ==
  ASSUME TypeOK, GilInv, NEW t \in Threads, NEW l \in PC,
         gil = t, gil' = None, pc[t] \in {"py", "incb"},
         l \notin {"py", "incb", "join", "dead"},
         pc' = [pc EXCEPT ![t] = l], UNCHANGED consensus
  PROVE  GilInv'
<1>1. \A u \in Threads : pc'[u] = IF u = t THEN l ELSE pc[u]
  BY DEF TypeOK
<1>2. undefined' <=> undefined
  BY <1>1 DEF undefined
<1>3. ASSUME NEW u \in Threads
      PROVE  /\ pc'[u] \notin {"py", "incb", "join"}
             /\ gil' # u
  BY <1>1, ThreadsAssumption DEF GilInv
<1>4. consensus' = "quit" /\ ~undefined' => \E u \in PyThreads : pc'[u] = "join"
  BY <1>1, <1>2 DEF GilInv, Threads
<1> QED BY ONLY <1>3, <1>4 DEF GilInv

(* A thread takes the GIL when nobody holds it.                            *)
LEMMA TakingPreservesGilInv ==
  ASSUME TypeOK, GilInv, NEW t \in Threads, NEW l \in {"py", "incb"},
         gil = None, gil' = t, pc[t] \in {"want", "cbwant", "callback"},
         pc' = [pc EXCEPT ![t] = l], UNCHANGED consensus
  PROVE  GilInv'
<1>1. \A u \in Threads : pc'[u] = IF u = t THEN l ELSE pc[u]
  BY DEF TypeOK
<1>2. undefined' <=> undefined
  BY <1>1 DEF undefined
<1>3. ASSUME NEW u \in Threads
      PROVE  /\ pc'[u] \in {"py", "incb", "join"} => gil' = u
             /\ gil' = u => pc'[u] \in {"py", "incb", "join", "dead"}
             /\ pc'[u] = "join" => consensus' = "quit"
  BY <1>1, ThreadsAssumption DEF GilInv
<1>4. consensus' = "quit" /\ ~undefined' => \E u \in PyThreads : pc'[u] = "join"
  BY <1>1, <1>2 DEF GilInv, Threads
<1> QED BY ONLY <1>3, <1>4 DEF GilInv

(* The use of a destroyed object leaves nothing to say.                    *)
LEMMA UndefinedPreservesGilInv ==
  ASSUME TypeOK, Undefined, UNCHANGED gil
  PROVE  GilInv'
<1>1. \A u \in Threads : pc'[u] = "dead"
  BY DEF Undefined
<1>2. \E u \in Threads : TRUE
  BY ThreadsAssumption DEF Threads
<1> QED BY <1>1, <1>2 DEF GilInv, undefined

(* Every step of the binding keeps the invariant of the GIL.               *)
LEMMA NextPreservesGilInv ==
  ASSUME Inv, GilInv, Next
  PROVE  GilInv'
<1>0. TypeOK /\ \A t \in Threads : pc[t] # "dead"
  BY NothingAfterUse DEF Inv
<1> USE <1>0 DEF PC
<1>1. ASSUME NEW t \in Threads, Acquire(t) PROVE GilInv'
  <2>1. Back(pc[t]) \in {"py", "incb"}
    BY DEF Back
  <2> QED BY <1>1, <2>1, TakingPreservesGilInv DEF Acquire, Goto, objects
<1>2. ASSUME NEW t \in Threads, CallbackStarts(t) PROVE GilInv'
  BY <1>2, TakingPreservesGilInv DEF CallbackStarts, Goto, objects
<1>3. ASSUME NEW t \in Threads, Yield(t) PROVE GilInv'
  BY <1>3, GivingBackPreservesGilInv DEF Yield, Goto, objects
<1>4. ASSUME NEW t \in Threads, CallbackEnds(t) PROVE GilInv'
  BY <1>4, GivingBackPreservesGilInv DEF CallbackEnds, Goto, objects, given_back
<1>5. ASSUME NEW t \in PyThreads, parse_junk(t) PROVE GilInv'
  BY <1>5, GivingBackPreservesGilInv DEF parse_junk, Release, Goto, objects, Threads
<1>6. ASSUME NEW t \in PyThreads, NEW f \in Fetches, fetch_all(t, f) PROVE GilInv'
  BY <1>6, GivingBackPreservesGilInv DEF fetch_all, Release, Goto, objects, Threads
<1>7. ASSUME NEW t \in Threads,
             \/ ParseEnds(t) \/ Obtained(t)
             \/ CopyCallback(t) \/ DestroyCallback(t)
      PROVE  GilInv'
  <2>1. CASE ParseEnds(t) \/ Obtained(t)
    BY <2>1, ElsewherePreservesGilInv DEF ParseEnds, Obtained, Goto, objects
  <2>2. CASE CopyCallback(t) \/ DestroyCallback(t)
    BY <2>2, ElsewherePreservesGilInv DEF CopyCallback, DestroyCallback, Goto, objects
  <2> QED BY <1>7, <2>1, <2>2
<1>8. ASSUME NEW t \in Threads, Obtain(t) \/ Send(t) PROVE GilInv'
  <2>1. UNCHANGED <<gil, consensus>> /\ pc[t] \in {"obtain", "send"}
    BY <1>8 DEF Obtain, Send, objects
  <2>2. Undefined \/ \E l \in {"bind", "wait", "want"} : Goto(t, l)
    BY <1>8 DEF Obtain, Send
  <2>3. CASE Undefined
    BY <2>1, <2>3, UndefinedPreservesGilInv
  <2>4. ASSUME NEW l \in {"bind", "wait", "want"}, Goto(t, l) PROVE GilInv'
    BY <2>1, <2>4, ElsewherePreservesGilInv DEF Goto
  <2> QED BY <2>2, <2>3, <2>4
<1>9. ASSUME NEW w \in Workers, NEW f \in Fetches, RunReply(w, f) PROVE GilInv'
  <2>1. UNCHANGED <<gil, consensus>> /\ pc[w] = "idle" /\ w \in Threads
    BY <1>9 DEF RunReply, Ready, objects, Threads
  <2>2. Undefined \/ Goto(w, "callback")
    BY <1>9 DEF RunReply
  <2> QED BY <2>1, <2>2, UndefinedPreservesGilInv, ElsewherePreservesGilInv DEF Goto
<1>10. ASSUME UNCHANGED <<gil, pc, consensus>> PROVE GilInv'
  BY <1>10 DEF GilInv, undefined
<1>11. ASSUME NEW f \in Fetches, SetPromise(f) \/ RequestResult(f) PROVE GilInv'
  BY <1>10, <1>11 DEF SetPromise, RequestResult, objects
<1>12. ASSUME NEW t \in PyThreads, DropFetcher(t) PROVE GilInv'
  BY <1>10, <1>12 DEF DropFetcher
<1>13. ASSUME NEW t \in PyThreads, DropConsensus(t) PROVE GilInv'
  <2>1. \A u \in Threads : pc'[u] = IF u = t THEN "join" ELSE pc[u]
    BY <1>13 DEF DropConsensus, Goto, TypeOK
  <2>2. gil = t /\ gil' = t /\ t \in Threads
    BY <1>13 DEF DropConsensus, Threads
  <2>3. consensus' = "quit"
    BY <1>13 DEF DropConsensus
  <2> QED BY <2>1, <2>2, <2>3 DEF GilInv
<1>14. ASSUME NEW t \in Threads, Joined(t) PROVE GilInv'
  <2>1. \A u \in Threads : pc'[u] = IF u = t THEN "py" ELSE pc[u]
    BY <1>14 DEF Joined, Goto, TypeOK
  <2>2. gil = t /\ gil' = t /\ consensus' # "quit"
    BY <1>14 DEF Joined, GilInv
  <2> QED BY <2>1, <2>2 DEF GilInv
<1> QED BY <1>1, <1>2, <1>3, <1>4, <1>5, <1>6, <1>7, <1>8, <1>9, <1>11, <1>12,
           <1>13, <1>14 DEF Next, Progress, Step, TakeGil, FetchStep

(* The GIL is where its invariant says, in every reachable state.          *)
THEOREM GilInvHolds == Spec => []GilInv
<1>1. Init => GilInv
  <2> SUFFICES ASSUME Init PROVE GilInv
    OBVIOUS
  <2>1. gil = None /\ None \notin Threads /\ consensus = "alive"
    BY ThreadsAssumption DEF Init
  <2>2. \A t \in Threads : pc[t] \in {"idle", "want"}
    BY DEF Init
  <2> QED BY <2>1, <2>2 DEF GilInv
<1>2. Inv /\ GilInv /\ [Next]_vars => GilInv'
  <2> SUFFICES ASSUME Inv, GilInv, UNCHANGED vars PROVE GilInv'
    BY NextPreservesGilInv
  <2> QED BY DEF vars, objects, GilInv, undefined
<1> QED BY <1>1, <1>2, InvHolds, PTL DEF Spec

(* The binding is stuck only where a thread has dropped the consensus: it  *)
(* waits with the GIL for a worker that waits for the GIL, to call the     *)
(* Python function or to destroy it, or a fetch_all waits for a promise    *)
(* that OxenMQ will not set any more.                                      *)
THEOREM StuckOnlyAfterDropHolds == Spec => []StuckOnlyAfterDrop
<1>1. Inv /\ GilInv => StuckOnlyAfterDrop
  <2> SUFFICES ASSUME Inv, GilInv, ~undefined, Stuck
               PROVE  \/ /\ \E t \in PyThreads : pc[t] = "join" /\ gil = t
                         /\ \E w \in Workers : pc[w] \in {"callback", "cbwant", "release"}
                      \/ /\ consensus = "gone"
                         /\ \A t \in Threads : pc[t] \in {"wait", "idle"}
    BY DEF StuckOnlyAfterDrop
  <2>0. /\ \A t \in Threads : pc[t] \in PC \ {"dead"}
        /\ gil \in Threads \cup {None} /\ None \notin Threads
    BY ThreadsAssumption DEF Inv, TypeOK, undefined
  <2>1. CASE gil # None
    <3>1. gil \in Threads /\ pc[gil] = "join"
      BY <2>0, <2>1 DEF GilInv, Stuck, CanGoOn
    <3>2. gil \in PyThreads
      BY <3>1 DEF Inv, WorkerInv, Threads
    <3>3. PICK w \in Workers : pc[w] # "idle"
      BY <3>1 DEF Stuck, CanGoOn
    <3>4. pc[w] # "incb"
      BY <3>1, <3>3 DEF GilInv, Threads
    <3>5. pc[w] \in {"callback", "cbwant", "release"}
      BY <2>0, <3>3, <3>4 DEF Inv, WorkerInv, Threads
    <3> QED BY <3>1, <3>2, <3>5
  <2>2. CASE gil = None
    <3>1. \A t \in Threads : pc[t] \in {"wait", "idle"}
      BY <2>0, <2>2 DEF GilInv, Stuck, CanGoOn, PC
    <3>2. consensus # "quit"
      BY <3>1 DEF GilInv, Threads
    <3>3. consensus # "alive"
      <4> SUFFICES ASSUME consensus = "alive" PROVE FALSE
        OBVIOUS
      <4>1. PICK t \in PyThreads : TRUE
        BY ThreadsAssumption
      <4>2. PICK w \in Workers : TRUE
        BY ThreadsAssumption
      <4>3. pc[w] = "idle"
        BY <3>1 DEF Inv, WorkerInv, Threads
      <4>4. pc[t] = "wait" /\ t \in Threads
        BY <3>1 DEF Inv, PyInv, Threads
      <4>5. call[t] \in Fetches /\ fetch[call[t]] = "opening"
        BY <4>4 DEF Inv, TypeOK, PyInv, Stuck, CanGoOn
      <4>6. CanServe(call[t])
        BY <4>3, <4>5 DEF CanServe, Ready
      <4> QED BY <4>5, <4>6 DEF Stuck
    <3>4. consensus = "gone"
      BY <3>2, <3>3 DEF Inv, TypeOK
    <3> QED BY <3>1, <3>4
  <2> QED BY <2>1, <2>2
<1> QED BY <1>1, InvHolds, GilInvHolds, PTL

(* As long as the consensus is kept and no destroyed object was used, some *)
(* thread or OxenMQ can go on: the threads never wait for the GIL, for a   *)
(* promise and for each other all at once.  This is the safety half of     *)
(* CalledUnlessDropped.                                                    *)
THEOREM KeptNeverStuck == Spec => [](consensus = "alive" /\ ~undefined => ~Stuck)
<1>1. GilInv /\ StuckOnlyAfterDrop =>
        (consensus = "alive" /\ ~undefined => ~Stuck)
  BY DEF GilInv, StuckOnlyAfterDrop, Threads
<1> QED BY <1>1, GilInvHolds, StuckOnlyAfterDropHolds, PTL

(* Stuck says what it should: where the binding can take a step that is    *)
(* not a new call, it is not stuck.                                        *)
LEMMA ProgressNotStuck == Progress => ~Stuck
<1> SUFFICES ASSUME Progress PROVE ~Stuck
  OBVIOUS
<1>1. ASSUME NEW t \in Threads, Step(t) \/ TakeGil(t) \/ CallbackEnds(t)
      PROVE  CanGoOn(t)
  BY <1>1 DEF CanGoOn, Step, TakeGil, Yield, ParseEnds, Obtain, Obtained, Send,
              Joined, Acquire, CallbackStarts, CallbackEnds, CopyCallback,
              DestroyCallback
<1>2. ASSUME NEW f \in Fetches, FetchStep(f) PROVE CanServe(f)
  BY <1>2 DEF CanServe, FetchStep, SetPromise, RequestResult, RunReply
<1> QED BY <1>1, <1>2 DEF Stuck, Progress
===============================================================================
