------------------------------ MODULE NodeFetcher ------------------------------
(***************************************************************************)
(* Consensus_Direct and its OxenMQ_NodeFetcher_JSON (onionreq/             *)
(* consensus.cpp): the seeds, a fetcher made with a copy of them, and      *)
(* FetchAll on any number of threads.  The fetcher caches one connection   *)
(* in _conn, which no lock protects: an access that overlaps an            *)
(* assignment to it by another thread is a data race, with any outcome     *)
(* between the old and the new value.                                      *)
(*                                                                         *)
(* OxenMQ is external, as in Transport: callbacks are jobs of its workers. *)
(* A connection attempt and its ConnectionID go by the name of the call.   *)
(***************************************************************************)
EXTENDS Random

CONSTANTS
  AppThreads,   \* threads of the application
  Workers,      \* worker threads of OxenMQ
  Calls,        \* calls of FetchAll
  FromHandler,  \* the calls that callbacks may make
  Seeds,        \* seed node addresses
  BadSeeds,     \* strings among them that are no address
  SeedSets,     \* bound: what SeedNodes is called with
  Identity,     \* ed25519 identity keys of service nodes
  Contact,      \* the rest of an SNodeInfo: x25519 key, ip, ports
  Docs,         \* bound: documents a seed replies with
  MaxParts,     \* bound: message parts of a reply
  None,         \* std::nullopt, no call, no seed
  Torn,         \* a ConnectionID that was copied while it was assigned
  Garbled,      \* an even number of characters, too few or no hex digits
  Odd,          \* an odd number of characters
  Bad,          \* a field that is missing, of the wrong type or too long
  Unparsable    \* a reply that is no json

Threads == AppThreads \cup Workers

SNodeInfo == [identity : Identity, contact : Contact]

(* An element of "service_node_states", field by field.                    *)
Entry == [identity : Identity \cup {Garbled, Odd, Bad},
          contact  : Contact \cup {Garbled, Odd, Bad}]

ASSUME ThreadsAssumption == AppThreads \cap Workers = {} /\ None \notin Threads
ASSUME CallsAssumption ==
  /\ None \notin Calls /\ Torn \notin Calls /\ None # Torn
  /\ FromHandler \subseteq Calls
ASSUME SeedsAssumption ==
  /\ IsFiniteSet(Seeds) /\ BadSeeds \subseteq Seeds /\ None \notin Seeds
  /\ SeedSets \subseteq SUBSET Seeds
ASSUME KeysAssumption ==
  /\ Garbled \notin {Odd, Bad} /\ Odd # Bad
  /\ {Garbled, Odd, Bad} \cap (Identity \cup Contact) = {}
ASSUME DocsAssumption == Docs \subseteq Seq(Entry) \cup {Unparsable}
ASSUME MaxPartsAssumption == MaxParts \in Nat

VARIABLES
  seedNodes,  \* Consensus_Base::_seeds
  made,       \* CreateNodeFetcher was called
  seeds,      \* the fetcher's _seeds, in iteration order
  conn,       \* _conn
  clash,      \* threads whose assignment to _conn overlaps another one
  pc,         \* what each thread does
  call,       \* the call a thread inside FetchAll is in
  attempt,    \* connect_remote for a call, up to its promise being set
  lost,       \* established connections that broke
  seed,       \* the seed that attempt goes to
  via,        \* what ObtainConnection returned for a call
  reply,      \* OxenMQ's result for a call, as its callback receives it
  phase,      \* how far a call is
  overlap,    \* history: two threads were in ObtainConnection at once
  answers     \* history: the lists the callback of a call was called with

consensus == <<seedNodes, made, seeds>>
cache     == <<conn, clash>>
threads   == <<pc, call>>
connects  == <<attempt, lost, seed>>
requests  == <<via, reply, phase>>
history   == <<overlap, answers>>
vars == <<consensus, cache, threads, connects, requests, history>>

PC == {"idle",     \* worker without a job
       "app",      \* application code, in a callback on a worker
       "connect",  \* _conn was empty, about to call connect_remote
       "wait",     \* in ftr.get()
       "assign",   \* in the assignment to _conn
       "return",   \* about to copy _conn for the caller
       "obtained", \* back in FetchAll
       "dead"}     \* the process crashed

Attempt == {"none", "opening", "upjob", "failjob", "up", "failed"}
Phase   == {"unsent", "calling", "wire", "replyjob", "parsing", "done", "threw"}
Reply   == [success : BOOLEAN, parts : 0..MaxParts, doc : Docs \cup {None}]

NoReply == [success |-> FALSE, parts |-> 0, doc |-> None]

Init ==
  /\ seedNodes = {} /\ made = FALSE /\ seeds = << >>
  /\ conn = None /\ clash = {} /\ lost = {}
  /\ pc = [t \in Threads |-> IF t \in Workers THEN "idle" ELSE "app"]
  /\ call = [t \in Threads |-> None]
  /\ attempt = [c \in Calls |-> "none"]
  /\ seed = [c \in Calls |-> None]
  /\ via = [c \in Calls |-> None]
  /\ reply = [c \in Calls |-> NoReply]
  /\ phase = [c \in Calls |-> "unsent"]
  /\ overlap = FALSE
  /\ answers = [c \in Calls |-> << >>]

Goto(t, l) == pc' = [pc EXCEPT ![t] = l]

(* FetchAll ends.                                                          *)
Leave(t) == Goto(t, "app") /\ call' = [call EXCEPT ![t] = None]

Proceed(c, p) == phase' = [phase EXCEPT ![c] = p]

(* Wrong variants, for mutation only: the callback is called once more; it *)
(* is not called.                                                          *)
CallBackTwice(c, list) == answers' = [answers EXCEPT ![c] = @ \o <<list, {}>>]
CallBackNever(c, list) == UNCHANGED answers

(* callback(list)                                                          *)
CallBack(c, list) == answers' = [answers EXCEPT ![c] = Append(@, list)]

-------------------------------------------------------------------------------
(* The consensus object                                                    *)

SeedNodes(S) ==
  /\ \E t \in AppThreads : pc[t] = "app"
  /\ seedNodes' = S
  /\ UNCHANGED <<made, seeds, cache, threads, connects, requests, history>>

(* The fetcher gets a copy of the seeds, in some iteration order.          *)
CreateNodeFetcher ==
  /\ \E t \in AppThreads : pc[t] = "app"
  /\ ~made
  /\ made' = TRUE
  /\ seeds' \in Bijection(1..Cardinality(seedNodes), seedNodes)
  /\ UNCHANGED <<seedNodes, cache, threads, connects, requests, history>>

-------------------------------------------------------------------------------
(* The unprotected _conn                                                   *)

Assigning(t) == {u \in Threads \ {t} : pc[u] = "assign"}

(* What ftr.get() returned to a thread.                                    *)
Result(t) == IF attempt[call[t]] = "up" THEN call[t] ELSE None

(* An access that may see any of the values S may see a mixture of them.   *)
Mixed(S) == IF S \subseteq {None} THEN S ELSE S \cup {Torn}

(* What thread t may read.                                                 *)
Readable(t) ==
  IF Assigning(t) = {} THEN {conn}
  ELSE Mixed({conn} \cup {Result(u) : u \in Assigning(t)})

(* Wrong variant, for mutation only: the connection is not kept.           *)
StoredNothing(t) == {conn}

(* What an assignment by thread t may leave.                               *)
Stored(t) ==
  CASE t \notin clash                   -> {Result(t)}
    [] t \in clash /\ Assigning(t) = {} -> Mixed({Result(t), conn})
    [] t \in clash /\ Assigning(t) # {} ->
         Mixed({Result(t)} \cup {Result(u) : u \in Assigning(t)})

InObtainConnection(t) == pc[t] \in {"connect", "wait", "assign", "return"}

-------------------------------------------------------------------------------
(* FetchAll and ObtainConnection                                           *)

(* Wrong variant, for mutation only: the cache is never looked at.         *)
cached_never(v) == FALSE

(* if (_conn)                                                              *)
cached(v) == v # None

(* FetchAll up to the test of _conn.                                       *)
FetchAll(t, c) ==
  /\ made
  /\ pc[t] = "app"
  /\ phase[c] = "unsent"
  /\ t \in Workers => c \in FromHandler
  /\ Proceed(c, "calling")
  /\ call' = [call EXCEPT ![t] = c]
  /\ \E v \in Readable(t) : Goto(t, IF cached(v) THEN "return" ELSE "connect")
  /\ overlap' = (overlap \/ \E u \in Threads : InObtainConnection(u))
  /\ UNCHANGED <<consensus, cache, connects, via, reply, answers>>

ConnectRemote(t) ==
  /\ pc[t] = "connect"
  /\ \E s \in pick_random(seeds) \ BadSeeds :
       seed' = [seed EXCEPT ![call[t]] = s]
  /\ attempt' = [attempt EXCEPT ![call[t]] = "opening"]
  /\ Goto(t, "wait")
  /\ UNCHANGED <<consensus, cache, call, lost, requests, history>>

(* There is no seed, or the one picked is no address: invalid_argument     *)
(* leaves FetchAll.                                                        *)
NoAddress(t) ==
  /\ pc[t] = "connect"
  /\ pick_random(seeds) \subseteq BadSeeds
  /\ Proceed(call[t], "threw")
  /\ Leave(t)
  /\ UNCHANGED <<consensus, cache, connects, via, reply, history>>

(* ftr.get() has returned, the assignment of its result begins ...         *)
BeginAssign(t) ==
  /\ pc[t] = "wait"
  /\ attempt[call[t]] \in {"up", "failed"}
  /\ Goto(t, "assign")
  /\ clash' = IF Assigning(t) = {} THEN clash
                                   ELSE clash \cup {t} \cup Assigning(t)
  /\ UNCHANGED <<consensus, conn, call, connects, requests, history>>

(* ... and ends.  A failed attempt empties _conn, whatever is there.       *)
EndAssign(t) ==
  /\ pc[t] = "assign"
  /\ conn' \in Stored(t)
  /\ clash' = clash \ {t}
  /\ Goto(t, "return")
  /\ UNCHANGED <<consensus, call, connects, requests, history>>

(* Both returns of ObtainConnection copy _conn as it is by then.           *)
ReturnConn(t) ==
  /\ pc[t] = "return"
  /\ \E v \in Readable(t) : via' = [via EXCEPT ![call[t]] = v]
  /\ Goto(t, "obtained")
  /\ UNCHANGED <<consensus, cache, call, connects, reply, phase, history>>

(* A ConnectionID owns strings: copying or freeing a torn one may crash.   *)
Crash(t) ==
  /\ \/ pc[t] = "assign" /\ Torn \in Stored(t) \cup {conn}
     \/ pc[t] = "return" /\ Torn \in Readable(t)
  /\ pc' = [u \in Threads |-> "dead"]
  /\ UNCHANGED <<consensus, cache, call, connects, requests, history>>

(* No connection: FetchAll itself calls the callback with an empty list.   *)
FetchNothing(t) ==
  /\ pc[t] = "obtained"
  /\ via[call[t]] = None
  /\ CallBack(call[t], {})
  /\ Proceed(call[t], "done")
  /\ Leave(t)
  /\ UNCHANGED <<consensus, cache, connects, via, reply, overlap>>

Request(t) ==
  /\ pc[t] = "obtained"
  /\ via[call[t]] # None
  /\ Proceed(call[t], "wire")
  /\ Leave(t)
  /\ UNCHANGED <<consensus, cache, connects, via, reply, history>>

-------------------------------------------------------------------------------
(* The node list                                                           *)

(* Shorter hex leaves the rest of the key, which is indeterminate, and     *)
(* nothing asks whether it is hex; what throws has no result, and neither  *)
(* has an odd number of characters, of which the decoder does not find the *)
(* end.                                                                    *)
LoadFromHex(str, Key) ==
  CASE str = Garbled      -> Key
    [] str \in {Odd, Bad} -> {}
    [] OTHER              -> {str}

(* The possible results of constructing an SNodeInfo from an entry.        *)
LoadSNodeInfo(entry) ==
  [identity : LoadFromHex(entry.identity, Identity),
   contact  : LoadFromHex(entry.contact, Contact)]

(* list[info.identity] = info for one info after the other: the last one   *)
(* of an identity stays.                                                   *)
LastOfEach(infos) ==
  {infos[i] : i \in {j \in DOMAIN infos :
                       \A k \in DOMAIN infos :
                         k > j => infos[k].identity # infos[j].identity}}

(* Wrong variant, for mutation only: an entry that throws is skipped.      *)
ParseNodeListSkipping(doc) ==
  IF doc = Unparsable THEN {} ELSE
    LET good == SelectSeq(doc, LAMBDA e : LoadSNodeInfo(e) # {})
    IN  {LastOfEach(infos) :
           infos \in {f \in [DOMAIN good -> SNodeInfo] :
                        \A i \in DOMAIN good : f[i] \in LoadSNodeInfo(good[i])}}

(* The lists that parsing a document may yield, none when it throws.       *)
ParseNodeList(doc) ==
  IF doc = Unparsable THEN {} ELSE
    {LastOfEach(infos) :
       infos \in {f \in [DOMAIN doc -> SNodeInfo] :
                    \A i \in DOMAIN doc : f[i] \in LoadSNodeInfo(doc[i])}}

(* The first field that cannot be loaded has an odd number of characters.  *)
Overruns(doc) ==
  /\ doc # Unparsable
  /\ \E i \in DOMAIN doc :
       /\ \A j \in 1..(i - 1) : Bad \notin {doc[j].identity, doc[j].contact}
       /\ doc[i].identity = Odd \/ (doc[i].identity # Bad /\ doc[i].contact = Odd)

(* Wrong variant, for mutation only: msgs[1] without looking at the size.  *)
DeliveredUnchecked(m) ==
  CASE m.success /\ m.parts > 1  -> ParseNodeList(m.doc) \cup {{}}
    [] m.success /\ m.parts <= 1 -> {{None}}
    [] ~m.success                -> {{}}

(* What the request callback passes on of OxenMQ's result.                 *)
Delivered(m) ==
  IF m.success /\ m.parts > 1 /\ ParseNodeList(m.doc) # {}
    THEN ParseNodeList(m.doc)
    ELSE {{}}

-------------------------------------------------------------------------------
(* OxenMQ and the callbacks                                                *)

ConnectResult(c) ==
  /\ attempt[c] = "opening"
  /\ \E job \in {"upjob", "failjob"} : attempt' = [attempt EXCEPT ![c] = job]
  /\ UNCHANGED <<consensus, cache, threads, lost, seed, requests, history>>

(* An idle worker runs the callback that sets the promise.                 *)
SetPromise(c) ==
  /\ \E w \in Workers : pc[w] = "idle"
  /\ attempt[c] \in {"upjob", "failjob"}
  /\ attempt' = [attempt EXCEPT ![c] = IF @ = "upjob" THEN "up" ELSE "failed"]
  /\ UNCHANGED <<consensus, cache, threads, lost, seed, requests, history>>

(* The seed goes away.                                                     *)
Break(c) ==
  /\ attempt[c] \in {"upjob", "up"}
  /\ lost' = lost \cup {c}
  /\ UNCHANGED <<consensus, cache, threads, attempt, seed, requests, history>>

(* A request over a broken connection fails, and one over a torn           *)
(* ConnectionID, which OxenMQ does not know.  Nobody looks at the message  *)
(* parts of a failure.                                                     *)
RequestResult(c) ==
  /\ phase[c] = "wire"
  /\ \E m \in Reply :
       /\ m.success => via[c] \notin lost \cup {Torn}
       /\ ~m.success => m.parts = 0
       /\ m.doc # None <=> m.parts > 1
       /\ reply' = [reply EXCEPT ![c] = m]
  /\ Proceed(c, "replyjob")
  /\ UNCHANGED <<consensus, cache, threads, connects, via, history>>

NeverParsed(m) == m.success /\ m.parts > 1 /\ Overruns(m.doc)

(* An idle worker runs the callback of _mq.request ...                     *)
RunReply(w, c) ==
  /\ pc[w] = "idle"
  /\ phase[c] = "replyjob"
  /\ ~NeverParsed(reply[c])
  /\ \E list \in Delivered(reply[c]) : CallBack(c, list)
  /\ reply' = [reply EXCEPT ![c] = NoReply]
  /\ Proceed(c, "done")
  /\ Goto(w, "app")
  /\ UNCHANGED <<consensus, cache, call, connects, via, overlap>>

(* ... in which the decoder may run through memory until the process ends. *)
ParseOverrun(w, c) ==
  /\ pc[w] = "idle"
  /\ phase[c] = "replyjob"
  /\ NeverParsed(reply[c])
  /\ Proceed(c, "parsing")
  /\ pc' = [u \in Threads |-> "dead"]
  /\ UNCHANGED <<consensus, cache, call, connects, via, reply, history>>

CallbackReturn(w) ==
  /\ pc[w] = "app"
  /\ Goto(w, "idle")
  /\ UNCHANGED <<consensus, cache, call, connects, requests, history>>

-------------------------------------------------------------------------------
ThreadStep(t) ==
  \/ ConnectRemote(t) \/ NoAddress(t)
  \/ BeginAssign(t) \/ EndAssign(t) \/ ReturnConn(t) \/ Crash(t)
  \/ FetchNothing(t) \/ Request(t)

CallStep(c) ==
  \/ ConnectResult(c) \/ SetPromise(c) \/ RequestResult(c)
  \/ \E w \in Workers : RunReply(w, c) \/ ParseOverrun(w, c)

Next ==
  \/ \E S \in SeedSets : SeedNodes(S)
  \/ CreateNodeFetcher
  \/ \E t \in Threads, c \in Calls : FetchAll(t, c)
  \/ \E t \in Threads : ThreadStep(t)
  \/ \E c \in Calls : CallStep(c)
  \/ \E w \in Workers : CallbackReturn(w)
  \/ \E c \in Calls : Break(c)

Spec == Init /\ [][Next]_vars

(* Threads are scheduled, OxenMQ bounds connection attempts and requests   *)
(* by timeouts and serves its jobs, callbacks return.                      *)
Fairness ==
  /\ \A t \in Threads : WF_vars(ThreadStep(t))
  /\ \A c \in Calls : WF_vars(CallStep(c))
  /\ \A w \in Workers : WF_vars(CallbackReturn(w))

FairSpec == Spec /\ Fairness

-------------------------------------------------------------------------------
(* The types of the consensus', the fetcher's and OxenMQ's state.          *)
TypeOK ==
  /\ seedNodes \in SUBSET Seeds /\ made \in BOOLEAN /\ seeds \in Seq(Seeds)
  /\ conn \in Calls \cup {None, Torn} /\ clash \in SUBSET Threads
  /\ pc \in [Threads -> PC]
  /\ call \in [Threads -> Calls \cup {None}]
  /\ attempt \in [Calls -> Attempt] /\ lost \in SUBSET Calls
  /\ seed \in [Calls -> Seeds \cup {None}]
  /\ via \in [Calls -> Calls \cup {None, Torn}]
  /\ reply \in [Calls -> Reply]
  /\ phase \in [Calls -> Phase]
  /\ overlap \in BOOLEAN
  /\ answers \in [Calls -> Seq(SUBSET SNodeInfo)]

Opened == {c \in Calls : attempt[c] \in {"upjob", "up"}}

(* A list was parsed that has a key with an odd number of characters.      *)
OddKeyRead == \E c \in Calls : phase[c] = "parsing"

(* When no two calls are in ObtainConnection at once, on whatever threads  *)
(* and with whatever failures in between, _conn is never torn, one         *)
(* connection at most is ever opened, so that none leaks, and every call   *)
(* uses it unless its own attempt to open one failed.  Nothing but an odd  *)
(* key in a node list ends the process.                                    *)
SerialUseIsSafe ==
  overlap \/ OddKeyRead \/
    /\ conn # Torn
    /\ \A t \in Threads : pc[t] # "dead"
    /\ Cardinality(Opened) <= 1
    /\ \A t \in Threads :
         pc[t] = "obtained" => \/ via[call[t]] \in Opened
                               \/ attempt[call[t]] = "failed"

(* The cached connection broke, and no thread is opening another one.      *)
Stale ==
  conn \in lost /\ \A t \in Threads : pc[t] \notin {"connect", "wait", "assign"}

(* Nothing empties _conn when its connection breaks: unless a racing call  *)
(* happens to replace it, the fetcher hands out the broken connection to   *)
(* every later call and never connects again.                              *)
StaleForGood ==
  [][Stale => /\ Stale'
              /\ \A c \in Calls : via'[c] # via[c] => via'[c] \in lost]_vars

(* A fetcher that was given several seeds only ever talks to one of them,  *)
(* even when every attempt fails, and whatever SeedNodes is called with    *)
(* later: pick_random_from yields the first element of the constant set.   *)
OneSeedOnly ==
  \A c, d \in Calls : seed[c] # None /\ seed[d] # None => seed[c] = seed[d]

Whole(list, doc) ==
  /\ \A i \in DOMAIN doc :
       /\ {Odd, Bad} \cap {doc[i].identity, doc[i].contact} = {}
       /\ doc[i].identity # Garbled =>
            \E n \in list : n.identity = doc[i].identity
  /\ \A n \in list : \E i \in DOMAIN doc :
       /\ doc[i].identity \in {n.identity, Garbled}
       /\ doc[i].contact \in {n.contact, Garbled}
       /\ \A j \in DOMAIN doc : j > i => doc[j].identity # n.identity

(* The callback gets the whole list of the reply or nothing: one entry     *)
(* that cannot be loaded throws the others away, no failed parse leaves a  *)
(* part of a list, and of an identity listed twice the last one counts.    *)
EmptyOrWhole ==
  [][\A c \in Calls :
       phase[c] = "replyjob" /\ answers'[c] # answers[c] =>
         \/ answers'[c] = <<{}>>
         \/ Whole(answers'[c][1], reply[c].doc)]_vars

Heard(c) ==
  [i \in DOMAIN answers[c] |-> IF answers[c][i] = {} THEN "nullopt" ELSE "body"]

Contract == INSTANCE RequestContract
              WITH Requests <- Calls,
                   sent <- {c \in Calls : phase[c] # "unsent"},
                   answers <- [c \in Calls |-> Heard(c)]

(* FetchAll keeps the promise of a request: no callback is called before   *)
(* the call, or twice, races on _conn included.                            *)
KeepsContract == Contract!Spec

(* With fewer calls made from callbacks than there are workers, FetchAll   *)
(* calls back or throws, unless a race on _conn or an odd key ends the     *)
(* process.                                                                *)
EveryFetchEnds ==
  \A c \in Calls :
    phase[c] # "unsent" ~> \/ answers[c] # << >>
                           \/ phase[c] = "threw"
                           \/ \E t \in Threads : pc[t] = "dead"
===============================================================================
