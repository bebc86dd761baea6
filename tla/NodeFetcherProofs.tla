--------------------------- MODULE NodeFetcherProofs ---------------------------
(***************************************************************************)
(* Proofs about NodeFetcher for any number of threads, workers, calls and  *)
(* seeds, and for node lists of any length.                                *)
(***************************************************************************)
EXTENDS NodeFetcher, FiniteSetTheorems, WellFoundedInduction, TLAPS

InCall == {"connect", "wait", "assign", "return", "obtained"}

(* A thread inside FetchAll is in a call of its own.                       *)
ThreadInv ==
  /\ \A t \in Threads :
       /\ pc[t] \in InCall => call[t] # None
       /\ pc[t] \in {"idle", "app"} => call[t] = None
       /\ call[t] # None => phase[call[t]] = "calling"
  /\ \A t, u \in Threads : call[t] # None /\ call[t] = call[u] => t = u

(* A call connects once at most, while it is in ObtainConnection.          *)
AttemptInv ==
  /\ \A c \in Calls : phase[c] = "unsent" => attempt[c] = "none"
  /\ \A t \in Threads :
       /\ pc[t] = "connect" => attempt[call[t]] = "none"
       /\ pc[t] = "assign" => attempt[call[t]] \in {"up", "failed"}

(* The callback was called for the calls that are done, and no other; a    *)
(* reply has a document where the callback looks for it.                   *)
RequestInv ==
  \A c \in Calls :
    /\ answers[c] = << >> <=> phase[c] # "done"
    /\ reply[c].parts > 1 => reply[c].doc # None

(* Only the first seed of the fetcher's copy was ever connected to.        *)
SeedInv ==
  \A c \in Calls :
    /\ phase[c] # "unsent" => made
    /\ seed[c] # None => made /\ seed[c] = seeds[1]

Live == {"opening", "upjob", "up"}

Crashed == \E t \in Threads : pc[t] = "dead"

(* As long as ObtainConnection was never entered twice at once: a thread   *)
(* that connects found _conn empty and finds it so until it assigns, _conn *)
(* is an established connection, and the only other one there may be is    *)
(* the one that is about to be assigned.                                   *)
SerialInv ==
  ~overlap /\ ~Crashed =>
    /\ clash = {} /\ conn # Torn
    /\ \A t, u \in Threads : InObtainConnection(t) /\ InObtainConnection(u) => t = u
    /\ conn # None => attempt[conn] = "up"
    /\ \A c \in Calls :
         attempt[c] \in Live =>
           \/ conn = c
           \/ \E t \in Threads : pc[t] \in {"wait", "assign"} /\ call[t] = c
    /\ \A t \in Threads :
         /\ pc[t] \in {"connect", "wait", "assign"} => conn = None
         /\ pc[t] = "return" => conn # None \/ attempt[call[t]] = "failed"
         /\ pc[t] = "obtained" =>
              via[call[t]] \in Opened \/ attempt[call[t]] = "failed"

Inv == TypeOK /\ ThreadInv /\ AttemptInv /\ RequestInv /\ SeedInv /\ SerialInv

-------------------------------------------------------------------------------
(* Operators                                                               *)

(* Sampling all of 1..n in order starts at 1: an increasing map of 1..n    *)
(* into itself is injective, so onto, and 1 can only come from 1.          *)
LEMMA IncreasingStartsAtOne ==
  ASSUME NEW n \in Nat \ {0}, NEW f \in Increasing(n, n)
  PROVE  f[1] = 1
<1>1. f \in Injection(1..n, 1..n)
  <2>1. /\ f \in [1..n -> 1..n]
        /\ \A i, j \in 1..n : i < j => f[i] < f[j]
    BY DEF Increasing
  <2>2. \A i \in 1..n : f[i] \in Nat
    BY <2>1
  <2>3. \A i, j \in 1..n : f[i] = f[j] => i = j
    BY <2>1, <2>2
  <2> QED BY <2>1, <2>3 DEF Injection, IsInjective
<1>2. IsFiniteSet(1..n) /\ Cardinality(1..n) = Cardinality(1..n)
  BY FS_Interval
<1>3. f \in Surjection(1..n, 1..n)
  BY <1>1, <1>2, FS_Injection
<1>4. PICK k \in 1..n : f[k] = 1
  BY <1>3 DEF Surjection
<1>5. k = 1
  BY <1>4 DEF Increasing
<1> QED BY <1>4, <1>5

(* pick_random yields the first element, and nothing when there is none.   *)
LEMMA PickIsFirst ==
  ASSUME NEW T, NEW s \in Seq(T), NEW x \in pick_random(s)
  PROVE  x = s[1] /\ x \in T
<1>1. PICK v \in sample(s, Len(s)) : v # << >> /\ x = v[1]
  BY DEF pick_random
<1>2. PICK f \in Increasing(Len(s), Len(s)) : v = [i \in 1..Len(s) |-> s[f[i]]]
  BY <1>1 DEF sample, Smaller
<1>3. Len(s) \in Nat \ {0}
  <2> SUFFICES ASSUME Len(s) = 0 PROVE FALSE
    OBVIOUS
  <2> QED BY <1>1, <1>2
<1>4. f[1] = 1
  BY <1>2, <1>3, IncreasingStartsAtOne
<1> QED BY <1>1, <1>2, <1>3, <1>4

(* A copy of the seeds, in any order, is a list of seeds.                  *)
LEMMA CopyIsList ==
  ASSUME NEW S \in SUBSET Seeds, NEW f \in Bijection(1..Cardinality(S), S)
  PROVE  f \in Seq(Seeds)
<1>1. Cardinality(S) \in Nat
  BY SeedsAssumption, FS_Subset, FS_CardinalityType
<1>2. f \in [1..Cardinality(S) -> S]
  BY DEF Bijection, Injection
<1> QED BY <1>1, <1>2

(* What an access to _conn yields is a ConnectionID, nothing or a mixture. *)
LEMMA AccessTypes ==
  ASSUME TypeOK, NEW t \in Threads
  PROVE  /\ Readable(t) \subseteq Calls \cup {None, Torn}
         /\ Stored(t) \subseteq Calls \cup {None, Torn}
         /\ Assigning(t) = {} => Readable(t) = {conn}
         /\ t \notin clash => Stored(t) = {Result(t)}
<1>1. \A u \in Threads : Result(u) \in Calls \cup {None}
  BY DEF TypeOK, Result
<1>2. Assigning(t) \subseteq Threads
  BY DEF Assigning
<1>3. Readable(t) \subseteq Calls \cup {None, Torn}
  <2>1. conn \in Calls \cup {None, Torn}
    BY DEF TypeOK
  <2>2. CASE Assigning(t) = {}
    BY <2>1, <2>2 DEF Readable
  <2>3. CASE Assigning(t) # {}
    BY <1>1, <1>2, <2>1, <2>3 DEF Readable, Mixed
  <2> QED BY <2>2, <2>3
<1>4. Stored(t) \subseteq Calls \cup {None, Torn}
  <2>1. CASE t \notin clash
    BY <1>1, <2>1 DEF Stored
  <2>2. CASE t \in clash /\ Assigning(t) = {}
    BY <1>1, <2>2 DEF TypeOK, Stored, Mixed
  <2>3. CASE t \in clash /\ Assigning(t) # {}
    BY <1>1, <1>2, <2>3 DEF Stored, Mixed
  <2> QED BY <2>1, <2>2, <2>3
<1>5. Assigning(t) = {} => Readable(t) = {conn}
  BY DEF Readable
<1>6. t \notin clash => Stored(t) = {Result(t)}
  BY DEF Stored
<1> QED BY <1>3, <1>4, <1>5, <1>6

(* Every list a callback may get consists of nodes.                        *)
LEMMA DeliveredType ==
  ASSUME NEW m, NEW list \in Delivered(m)
  PROVE  list \in SUBSET SNodeInfo
<1>1. CASE list \in ParseNodeList(m.doc)
  <2>1. PICK infos \in [DOMAIN m.doc -> SNodeInfo] : list = LastOfEach(infos)
    BY <1>1 DEF ParseNodeList
  <2> QED BY <2>1 DEF LastOfEach
<1>2. CASE list = {}
  BY <1>2
<1> QED BY <1>1, <1>2 DEF Delivered

(* A non-empty set of indices has a last one.                              *)
LEMMA LastIndex ==
  ASSUME NEW n \in Nat, NEW S \in SUBSET (1..n), S # {}
  PROVE  \E k \in S : \A j \in S : j <= k
<1> DEFINE T == {n - k : k \in S}
<1>1. T \subseteq Nat /\ T # {}
  <2>1. \A k \in S : n - k \in Nat
    OBVIOUS
  <2>2. PICK k \in S : TRUE
    OBVIOUS
  <2> QED BY <2>1, <2>2
<1>2. PICK x \in T : \A y \in T : ~(<<y, x>> \in OpToRel(<, Nat))
  <2> HIDE DEF T
  <2> QED BY <1>1, NatLessThanWellFounded, WFMin
<1>3. \A y \in T : ~(y < x)
  BY <1>1, <1>2 DEF OpToRel
<1>4. PICK k \in S : x = n - k
  OBVIOUS
<1>5. \A j \in S : n - j \in T /\ ~(n - j < n - k)
  BY <1>3, <1>4
<1> QED BY <1>5

(* Parsing a document yields its whole list or nothing.                    *)
LEMMA ParsedIsWhole ==
  ASSUME NEW doc \in Seq(Entry), NEW list \in ParseNodeList(doc)
  PROVE  Whole(list, doc)
<1>1. doc # Unparsable
  BY DEF ParseNodeList
<1>2. PICK infos \in [DOMAIN doc -> SNodeInfo] :
        /\ list = LastOfEach(infos)
        /\ \A i \in DOMAIN doc : infos[i] \in LoadSNodeInfo(doc[i])
  BY <1>1 DEF ParseNodeList
<1>3. \A i \in DOMAIN doc :
        /\ infos[i].identity \in Identity /\ infos[i].contact \in Contact
        /\ doc[i].identity \in {infos[i].identity, Garbled}
        /\ doc[i].contact \in {infos[i].contact, Garbled}
  <2> SUFFICES ASSUME NEW i \in DOMAIN doc
               PROVE  /\ infos[i].identity \in Identity /\ infos[i].contact \in Contact
                      /\ doc[i].identity \in {infos[i].identity, Garbled}
                      /\ doc[i].contact \in {infos[i].contact, Garbled}
    OBVIOUS
  <2>1. infos[i] \in SNodeInfo
    BY <1>2
  <2>2. /\ infos[i].identity \in LoadFromHex(doc[i].identity, Identity)
        /\ infos[i].contact \in LoadFromHex(doc[i].contact, Contact)
    BY <1>2 DEF LoadSNodeInfo
  <2> QED BY <2>1, <2>2, KeysAssumption DEF SNodeInfo, LoadFromHex
<1>4. DOMAIN doc = 1..Len(doc) /\ Len(doc) \in Nat /\ DOMAIN infos = DOMAIN doc
  OBVIOUS
<1>5. ASSUME NEW i \in DOMAIN doc, doc[i].identity # Garbled
      PROVE  \E n \in list : n.identity = doc[i].identity
  <2> DEFINE S == {j \in DOMAIN doc : infos[j].identity = infos[i].identity}
  <2>1. doc[i].identity = infos[i].identity
    BY <1>3, <1>5, KeysAssumption
  <2>2. S \in SUBSET (1..Len(doc)) /\ i \in S
    BY <1>4
  <2>3. PICK k \in S : \A j \in S : j <= k
    <3> HIDE DEF S
    <3> QED BY <1>4, <2>2, LastIndex
  <2>4. \A j \in DOMAIN infos : j > k => infos[j].identity # infos[k].identity
    BY <1>4, <2>3
  <2>5. infos[k] \in list
    BY <1>2, <1>4, <2>3, <2>4 DEF LastOfEach
  <2> QED BY <2>1, <2>3, <2>5
<1>6. ASSUME NEW n \in list
      PROVE  \E i \in DOMAIN doc :
               /\ doc[i].identity \in {n.identity, Garbled}
               /\ doc[i].contact \in {n.contact, Garbled}
               /\ \A j \in DOMAIN doc : j > i => doc[j].identity # n.identity
  <2>1. PICK i \in DOMAIN infos :
          /\ n = infos[i]
          /\ \A k \in DOMAIN infos : k > i => infos[k].identity # infos[i].identity
    BY <1>2 DEF LastOfEach
  <2>2. ASSUME NEW j \in DOMAIN doc, j > i PROVE doc[j].identity # n.identity
    <3>1. infos[j].identity # n.identity
      BY <1>4, <2>1, <2>2
    <3>2. n.identity \in Identity
      BY <1>3, <1>4, <2>1
    <3> QED BY <1>3, <3>1, <3>2, KeysAssumption
  <2> QED BY <1>3, <1>4, <2>1, <2>2
<1>7. \A i \in DOMAIN doc : {Odd, Bad} \cap {doc[i].identity, doc[i].contact} = {}
  BY <1>3, KeysAssumption
<1> QED BY <1>5, <1>6, <1>7 DEF Whole

-------------------------------------------------------------------------------
(* The invariant                                                           *)

(* A thread in ObtainConnection races with nobody unless calls overlap.    *)
LEMMA AloneUnlessOverlap ==
  ASSUME Inv, ~overlap, ~Crashed, NEW t \in Threads, InObtainConnection(t)
  PROVE  /\ Assigning(t) = {} /\ Readable(t) = {conn}
         /\ Stored(t) = {Result(t)} /\ Result(t) # Torn
<1>1. Assigning(t) = {}
  BY DEF Inv, SerialInv, Assigning, InObtainConnection
<1>2. t \notin clash
  BY DEF Inv, SerialInv
<1>3. Result(t) # Torn
  BY CallsAssumption DEF Inv, TypeOK, Result
<1> QED BY <1>1, <1>2, <1>3, AccessTypes DEF Inv

(* Other seeds for the consensus object: the fetcher has its own.          *)
LEMMA SeedNodesPreservesInv ==
  ASSUME Inv, NEW S \in SeedSets, SeedNodes(S)
  PROVE  Inv'
<1> USE ThreadsAssumption, CallsAssumption
    DEF Inv, SeedNodes, Goto, Leave, Proceed, CallBack, Threads,
        consensus, cache, threads, connects, requests, history, vars
<1>1. TypeOK'
  BY SeedsAssumption DEF TypeOK, PC, Attempt, Phase, Reply
<1>2. ThreadInv'
  BY DEF TypeOK, ThreadInv, InCall
<1>3. AttemptInv'
  BY DEF TypeOK, ThreadInv, AttemptInv, InCall
<1>4. RequestInv'
  BY DEF TypeOK, ThreadInv, RequestInv, InCall
<1>5. SeedInv'
  BY DEF TypeOK, ThreadInv, SeedInv, InCall
<1>6. SerialInv'
  BY DEF TypeOK, ThreadInv, AttemptInv, SerialInv, Crashed, InObtainConnection,
         Opened, InCall, Live
<1> QED BY <1>1, <1>2, <1>3, <1>4, <1>5, <1>6

(* The fetcher's copy of the seeds is made before any call.                *)
LEMMA CreateNodeFetcherPreservesInv ==
  ASSUME Inv, CreateNodeFetcher
  PROVE  Inv'
<1> USE ThreadsAssumption, CallsAssumption
    DEF Inv, CreateNodeFetcher, Goto, Leave, Proceed, CallBack, Threads,
        consensus, cache, threads, connects, requests, history, vars
<1>1. TypeOK'
  <2>1. seeds' \in Seq(Seeds)
    BY CopyIsList DEF TypeOK
  <2> QED BY <2>1 DEF TypeOK
<1>2. ThreadInv'
  BY DEF TypeOK, ThreadInv, InCall
<1>3. AttemptInv'
  BY DEF TypeOK, ThreadInv, AttemptInv, InCall
<1>4. RequestInv'
  BY DEF TypeOK, ThreadInv, RequestInv, InCall
<1>5. SeedInv'
  BY DEF TypeOK, ThreadInv, SeedInv, InCall
<1>6. SerialInv'
  BY DEF TypeOK, ThreadInv, AttemptInv, SerialInv, Crashed, InObtainConnection,
         Opened, InCall, Live
<1> QED BY <1>1, <1>2, <1>3, <1>4, <1>5, <1>6

(* A call enters ObtainConnection: unless another one is in there, it      *)
(* connects only if _conn is empty.                                        *)
LEMMA FetchAllPreservesInv ==
  ASSUME Inv, NEW t \in Threads, NEW c \in Calls, FetchAll(t, c)
  PROVE  Inv'
<1> USE ThreadsAssumption, CallsAssumption
    DEF Inv, FetchAll, Goto, Leave, Proceed, CallBack, Threads,
        consensus, cache, threads, connects, requests, history, vars
<1>1. TypeOK'
  BY DEF TypeOK, PC, Attempt, Phase, Reply
<1>2. ThreadInv'
  BY DEF TypeOK, ThreadInv, InCall
<1>3. AttemptInv'
  BY DEF TypeOK, ThreadInv, AttemptInv, InCall
<1>4. RequestInv'
  BY DEF TypeOK, ThreadInv, RequestInv, InCall
<1>5. SeedInv'
  BY DEF TypeOK, ThreadInv, SeedInv, InCall
<1>6. SerialInv'
  <2> SUFFICES ASSUME ~overlap', ~Crashed PROVE SerialInv'
    BY DEF SerialInv, Crashed, TypeOK
  <2>1. ~overlap /\ \A u \in Threads : ~InObtainConnection(u)
    BY DEF TypeOK
  <2>2. Readable(t) = {conn}
    BY <2>1, AccessTypes DEF Assigning, InObtainConnection
  <2>3. pc' = [pc EXCEPT ![t] = IF conn # None THEN "return" ELSE "connect"]
    BY <2>2 DEF cached
  <2> QED BY <2>1, <2>3
          DEF TypeOK, ThreadInv, SerialInv, Crashed, InObtainConnection, Opened,
              InCall, Live
<1> QED BY <1>1, <1>2, <1>3, <1>4, <1>5, <1>6

(* The only seed there is to connect to is the first one.                  *)
LEMMA ConnectRemotePreservesInv ==
  ASSUME Inv, NEW t \in Threads, ConnectRemote(t)
  PROVE  Inv'
<1> USE ThreadsAssumption, CallsAssumption
    DEF Inv, ConnectRemote, Goto, Leave, Proceed, CallBack, Threads,
        consensus, cache, threads, connects, requests, history, vars
<1>0. call[t] \in Calls /\ phase[call[t]] = "calling"
  BY DEF TypeOK, ThreadInv, InCall
<1>7. PICK s \in pick_random(seeds) : seed' = [seed EXCEPT ![call[t]] = s]
  OBVIOUS
<1>8. s \in Seeds /\ s = seeds[1]
  BY PickIsFirst DEF TypeOK
<1>1. TypeOK'
  BY <1>0, <1>7, <1>8 DEF TypeOK, PC, Attempt
<1>2. ThreadInv'
  BY <1>0 DEF TypeOK, ThreadInv, InCall
<1>3. AttemptInv'
  BY <1>0 DEF TypeOK, ThreadInv, AttemptInv, InCall
<1>4. RequestInv'
  BY <1>0 DEF TypeOK, ThreadInv, RequestInv, InCall
<1>5. SeedInv'
  BY <1>0, <1>7, <1>8 DEF TypeOK, SeedInv
<1>6. SerialInv'
  BY <1>0 DEF TypeOK, ThreadInv, AttemptInv, SerialInv, Crashed, InObtainConnection,
         Opened, InCall, Live
<1> QED BY <1>1, <1>2, <1>3, <1>4, <1>5, <1>6

(* A call without an address leaves no attempt behind.                     *)
LEMMA NoAddressPreservesInv ==
  ASSUME Inv, NEW t \in Threads, NoAddress(t)
  PROVE  Inv'
<1> USE ThreadsAssumption, CallsAssumption
    DEF Inv, NoAddress, Goto, Leave, Proceed, CallBack, Threads,
        consensus, cache, threads, connects, requests, history, vars
<1>0. call[t] \in Calls /\ phase[call[t]] = "calling"
  BY DEF TypeOK, ThreadInv, InCall
<1>1. TypeOK'
  BY <1>0 DEF TypeOK, PC, Attempt, Phase, Reply
<1>2. ThreadInv'
  BY <1>0 DEF TypeOK, ThreadInv, InCall
<1>3. AttemptInv'
  BY <1>0 DEF TypeOK, ThreadInv, AttemptInv, InCall
<1>4. RequestInv'
  BY <1>0 DEF TypeOK, ThreadInv, RequestInv, InCall
<1>5. SeedInv'
  BY <1>0 DEF TypeOK, ThreadInv, SeedInv, InCall
<1>6. SerialInv'
  BY <1>0 DEF TypeOK, ThreadInv, AttemptInv, SerialInv, Crashed, InObtainConnection,
         Opened, InCall, Live
<1> QED BY <1>1, <1>2, <1>3, <1>4, <1>5, <1>6

(* An assignment begins: nobody else assigns unless calls overlap.         *)
LEMMA BeginAssignPreservesInv ==
  ASSUME Inv, NEW t \in Threads, BeginAssign(t)
  PROVE  Inv'
<1> USE ThreadsAssumption, CallsAssumption
    DEF Inv, BeginAssign, Goto, Leave, Proceed, CallBack, Threads,
        consensus, cache, threads, connects, requests, history, vars
<1>0. call[t] \in Calls /\ phase[call[t]] = "calling"
  BY DEF TypeOK, ThreadInv, InCall
<1>1. TypeOK'
  BY <1>0 DEF TypeOK, PC, Attempt, Phase, Assigning
<1>2. ThreadInv'
  BY <1>0 DEF TypeOK, ThreadInv, InCall
<1>3. AttemptInv'
  BY <1>0 DEF TypeOK, ThreadInv, AttemptInv, InCall
<1>4. RequestInv'
  BY <1>0 DEF TypeOK, ThreadInv, RequestInv, InCall
<1>5. SeedInv'
  BY <1>0 DEF TypeOK, ThreadInv, SeedInv, InCall
<1>6. SerialInv'
  <2> SUFFICES ASSUME ~overlap, ~Crashed PROVE SerialInv'
    BY DEF SerialInv, Crashed, TypeOK
  <2>1. InObtainConnection(t)
    BY DEF InObtainConnection
  <2>2. clash' = {}
    BY <2>1, AloneUnlessOverlap DEF SerialInv
  <2> QED BY <1>0, <2>2
          DEF TypeOK, ThreadInv, AttemptInv, SerialInv, Crashed, InObtainConnection,
              Opened, InCall, Live
<1> QED BY <1>1, <1>2, <1>3, <1>4, <1>5, <1>6

(* _conn becomes what the promise was set to, unless calls overlap.        *)
LEMMA EndAssignPreservesInv ==
  ASSUME Inv, NEW t \in Threads, EndAssign(t)
  PROVE  Inv'
<1> USE ThreadsAssumption, CallsAssumption
    DEF Inv, EndAssign, Goto, Leave, Proceed, CallBack, Threads,
        consensus, cache, threads, connects, requests, history, vars
<1>0. call[t] \in Calls /\ phase[call[t]] = "calling"
  BY DEF TypeOK, ThreadInv, InCall
<1>1. TypeOK'
  <2>1. conn' \in Calls \cup {None, Torn}
    BY AccessTypes
  <2> QED BY <1>0, <2>1 DEF TypeOK, PC
<1>2. ThreadInv'
  BY <1>0 DEF TypeOK, ThreadInv, InCall
<1>3. AttemptInv'
  BY <1>0 DEF TypeOK, ThreadInv, AttemptInv, InCall
<1>4. RequestInv'
  BY <1>0 DEF TypeOK, ThreadInv, RequestInv, InCall
<1>5. SeedInv'
  BY <1>0 DEF TypeOK, ThreadInv, SeedInv, InCall
<1>6. SerialInv'
  <2> SUFFICES ASSUME ~overlap, ~Crashed PROVE SerialInv'
    BY DEF SerialInv, Crashed, TypeOK
  <2>1. InObtainConnection(t)
    BY DEF InObtainConnection
  <2>2. conn' = Result(t) /\ conn = None /\ clash' = {}
    BY <2>1, AloneUnlessOverlap DEF SerialInv
  <2>3. \/ attempt[call[t]] = "up" /\ conn' = call[t]
        \/ attempt[call[t]] = "failed" /\ conn' = None
    BY <2>2 DEF Result, AttemptInv
  <2>4. /\ pc' = [pc EXCEPT ![t] = "return"] /\ pc[t] = "assign"
        /\ UNCHANGED <<attempt, call, via, overlap>>
    OBVIOUS
  <2>5. \A u \in Threads : u # t => pc'[u] = pc[u] /\ ~InObtainConnection(u)
    BY <2>1, <2>4 DEF TypeOK, SerialInv
  <2>6. \A u \in Threads : pc'[u] = "obtained" => pc[u] = "obtained" /\ u # t
    BY <2>4, <2>5 DEF TypeOK
  <2>7. pc'[t] = "return"
    BY <2>4 DEF TypeOK
  <2>8. ASSUME NEW c \in Calls, attempt'[c] \in Live PROVE conn' = c
    <3>1. PICK u \in Threads : pc[u] \in {"wait", "assign"} /\ call[u] = c
      BY <2>2, <2>4, <2>8 DEF SerialInv
    <3>2. u = t
      BY <2>5, <3>1 DEF InObtainConnection
    <3> QED BY <2>3, <2>4, <2>8, <3>1, <3>2 DEF Live
  <2>9. \A u, v \in Threads :
          InObtainConnection(u)' /\ InObtainConnection(v)' => u = v
    BY <2>5 DEF InObtainConnection
  <2>10. conn' # Torn /\ (conn' # None => attempt'[conn'] = "up")
    BY <1>0, <2>3, <2>4
  <2>11. ASSUME NEW u \in Threads
         PROVE  /\ pc'[u] \notin {"connect", "wait", "assign"}
                /\ pc'[u] = "return" => conn' # None \/ attempt'[call'[u]] = "failed"
    <3>1. CASE u = t
      BY <1>0, <2>3, <2>4, <2>7, <3>1
    <3>2. CASE u # t
      BY <2>5, <3>2 DEF SerialInv, InObtainConnection
    <3> QED BY <3>1, <3>2
  <2>12. \A u \in Threads :
           pc'[u] = "obtained" => via'[call'[u]] \in Opened' \/ attempt'[call'[u]] = "failed"
    BY <2>4, <2>6 DEF SerialInv, Opened
  <2> QED BY <2>2, <2>8, <2>9, <2>10, <2>11, <2>12 DEF SerialInv
<1> QED BY <1>1, <1>2, <1>3, <1>4, <1>5, <1>6

(* A call gets what is in _conn, unless calls overlap.                     *)
LEMMA ReturnConnPreservesInv ==
  ASSUME Inv, NEW t \in Threads, ReturnConn(t)
  PROVE  Inv'
<1> USE ThreadsAssumption, CallsAssumption
    DEF Inv, ReturnConn, Goto, Leave, Proceed, CallBack, Threads,
        consensus, cache, threads, connects, requests, history, vars
<1>0. call[t] \in Calls /\ phase[call[t]] = "calling"
  BY DEF TypeOK, ThreadInv, InCall
<1>1. TypeOK'
  <2>1. PICK v \in Readable(t) : via' = [via EXCEPT ![call[t]] = v]
    OBVIOUS
  <2>2. v \in Calls \cup {None, Torn}
    BY AccessTypes
  <2> QED BY <1>0, <2>1, <2>2 DEF TypeOK, PC
<1>2. ThreadInv'
  BY <1>0 DEF TypeOK, ThreadInv, InCall
<1>3. AttemptInv'
  BY <1>0 DEF TypeOK, ThreadInv, AttemptInv, InCall
<1>4. RequestInv'
  BY <1>0 DEF TypeOK, ThreadInv, RequestInv, InCall
<1>5. SeedInv'
  BY <1>0 DEF TypeOK, ThreadInv, SeedInv, InCall
<1>6. SerialInv'
  <2> SUFFICES ASSUME ~overlap, ~Crashed PROVE SerialInv'
    BY DEF SerialInv, Crashed, TypeOK
  <2>1. InObtainConnection(t)
    BY DEF InObtainConnection
  <2>2. via' = [via EXCEPT ![call[t]] = conn]
    BY <2>1, AloneUnlessOverlap
  <2>3. conn # None => conn \in Opened
    BY DEF TypeOK, SerialInv, Opened
  <2> QED BY <1>0, <2>2, <2>3
          DEF TypeOK, ThreadInv, AttemptInv, SerialInv, Crashed, InObtainConnection,
              Opened, InCall, Live
<1> QED BY <1>1, <1>2, <1>3, <1>4, <1>5, <1>6

(* A crash ends it all.                                                    *)
LEMMA CrashPreservesInv ==
  ASSUME Inv, NEW t \in Threads, Crash(t)
  PROVE  Inv'
<1> USE ThreadsAssumption, CallsAssumption
    DEF Inv, Crash, Goto, Leave, Proceed, CallBack, Threads,
        consensus, cache, threads, connects, requests, history, vars
<1>0. call[t] \in Calls /\ phase[call[t]] = "calling"
  BY DEF TypeOK, ThreadInv, InCall
<1>1. TypeOK'
  BY <1>0 DEF TypeOK, PC, Attempt, Phase, Reply
<1>2. ThreadInv'
  BY <1>0 DEF TypeOK, ThreadInv, InCall
<1>3. AttemptInv'
  BY <1>0 DEF TypeOK, ThreadInv, AttemptInv, InCall
<1>4. RequestInv'
  BY <1>0 DEF TypeOK, ThreadInv, RequestInv, InCall
<1>5. SeedInv'
  BY <1>0 DEF TypeOK, ThreadInv, SeedInv, InCall
<1>6. SerialInv'
  BY <1>0 DEF SerialInv, Crashed
<1> QED BY <1>1, <1>2, <1>3, <1>4, <1>5, <1>6

(* FetchAll calls back itself: the callback had not been called.           *)
LEMMA FetchNothingPreservesInv ==
  ASSUME Inv, NEW t \in Threads, FetchNothing(t)
  PROVE  Inv'
<1> USE ThreadsAssumption, CallsAssumption
    DEF Inv, FetchNothing, Goto, Leave, Proceed, CallBack, Threads,
        consensus, cache, threads, connects, requests, history, vars
<1>0. call[t] \in Calls /\ phase[call[t]] = "calling"
  BY DEF TypeOK, ThreadInv, InCall
<1>1. TypeOK'
  <2>1. Append(answers[call[t]], {}) \in Seq(SUBSET SNodeInfo)
    <3>1. answers[call[t]] \in Seq(SUBSET SNodeInfo) /\ {} \in SUBSET SNodeInfo
      BY <1>0 DEF TypeOK
    <3> QED BY <3>1
  <2> QED BY <1>0, <2>1 DEF TypeOK, PC, Phase
<1>2. ThreadInv'
  BY <1>0 DEF TypeOK, ThreadInv, InCall
<1>3. AttemptInv'
  BY <1>0 DEF TypeOK, ThreadInv, AttemptInv, InCall
<1>4. RequestInv'
  <2>1. answers[call[t]] = << >>
    BY <1>0 DEF RequestInv
  <2>2. Append(answers[call[t]], {}) # << >>
    BY <2>1
  <2>3. answers'[call[t]] # << >>
    BY <1>0, <2>2 DEF TypeOK
  <2> QED BY <1>0, <2>3 DEF TypeOK, RequestInv
<1>5. SeedInv'
  BY <1>0 DEF TypeOK, ThreadInv, SeedInv, InCall
<1>6. SerialInv'
  BY <1>0 DEF TypeOK, ThreadInv, AttemptInv, SerialInv, Crashed, InObtainConnection,
         Opened, InCall, Live
<1> QED BY <1>1, <1>2, <1>3, <1>4, <1>5, <1>6

(* The request goes to OxenMQ.                                             *)
LEMMA RequestPreservesInv ==
  ASSUME Inv, NEW t \in Threads, Request(t)
  PROVE  Inv'
<1> USE ThreadsAssumption, CallsAssumption
    DEF Inv, Request, Goto, Leave, Proceed, CallBack, Threads,
        consensus, cache, threads, connects, requests, history, vars
<1>0. call[t] \in Calls /\ phase[call[t]] = "calling"
  BY DEF TypeOK, ThreadInv, InCall
<1>1. TypeOK'
  BY <1>0 DEF TypeOK, PC, Attempt, Phase, Reply
<1>2. ThreadInv'
  BY <1>0 DEF TypeOK, ThreadInv, InCall
<1>3. AttemptInv'
  BY <1>0 DEF TypeOK, ThreadInv, AttemptInv, InCall
<1>4. RequestInv'
  BY <1>0 DEF TypeOK, ThreadInv, RequestInv, InCall
<1>5. SeedInv'
  BY <1>0 DEF TypeOK, ThreadInv, SeedInv, InCall
<1>6. SerialInv'
  BY <1>0 DEF TypeOK, ThreadInv, AttemptInv, SerialInv, Crashed, InObtainConnection,
         Opened, InCall, Live
<1> QED BY <1>1, <1>2, <1>3, <1>4, <1>5, <1>6

(* The end of a handshake: the caller goes on waiting.                     *)
LEMMA ConnectResultPreservesInv ==
  ASSUME Inv, NEW c \in Calls, ConnectResult(c)
  PROVE  Inv'
<1> USE ThreadsAssumption, CallsAssumption
    DEF Inv, ConnectResult, Goto, Leave, Proceed, CallBack, Threads,
        consensus, cache, threads, connects, requests, history, vars
<1>1. TypeOK'
  BY DEF TypeOK, PC, Attempt, Phase, Reply
<1>2. ThreadInv'
  BY DEF TypeOK, ThreadInv, InCall
<1>3. AttemptInv'
  BY DEF TypeOK, ThreadInv, AttemptInv, InCall
<1>4. RequestInv'
  BY DEF TypeOK, ThreadInv, RequestInv, InCall
<1>5. SeedInv'
  BY DEF TypeOK, ThreadInv, SeedInv, InCall
<1>6. SerialInv'
  BY DEF TypeOK, ThreadInv, AttemptInv, SerialInv, Crashed, InObtainConnection,
         Opened, InCall, Live
<1> QED BY <1>1, <1>2, <1>3, <1>4, <1>5, <1>6

(* The promise is set while the caller waits for it.                       *)
LEMMA SetPromisePreservesInv ==
  ASSUME Inv, NEW c \in Calls, SetPromise(c)
  PROVE  Inv'
<1> USE ThreadsAssumption, CallsAssumption
    DEF Inv, SetPromise, Goto, Leave, Proceed, CallBack, Threads,
        consensus, cache, threads, connects, requests, history, vars
<1>1. TypeOK'
  BY DEF TypeOK, PC, Attempt, Phase, Reply
<1>2. ThreadInv'
  BY DEF TypeOK, ThreadInv, InCall
<1>3. AttemptInv'
  BY DEF TypeOK, ThreadInv, AttemptInv, InCall
<1>4. RequestInv'
  BY DEF TypeOK, ThreadInv, RequestInv, InCall
<1>5. SeedInv'
  BY DEF TypeOK, ThreadInv, SeedInv, InCall
<1>6. SerialInv'
  BY DEF TypeOK, ThreadInv, AttemptInv, SerialInv, Crashed, InObtainConnection,
         Opened, InCall, Live
<1> QED BY <1>1, <1>2, <1>3, <1>4, <1>5, <1>6

(* A connection breaks and nobody takes notice.                            *)
LEMMA BreakPreservesInv ==
  ASSUME Inv, NEW c \in Calls, Break(c)
  PROVE  Inv'
<1> USE ThreadsAssumption, CallsAssumption
    DEF Inv, Break, Goto, Leave, Proceed, CallBack, Threads,
        consensus, cache, threads, connects, requests, history, vars
<1>1. TypeOK'
  BY DEF TypeOK, PC, Attempt, Phase, Reply
<1>2. ThreadInv'
  BY DEF TypeOK, ThreadInv, InCall
<1>3. AttemptInv'
  BY DEF TypeOK, ThreadInv, AttemptInv, InCall
<1>4. RequestInv'
  BY DEF TypeOK, ThreadInv, RequestInv, InCall
<1>5. SeedInv'
  BY DEF TypeOK, ThreadInv, SeedInv, InCall
<1>6. SerialInv'
  BY DEF TypeOK, ThreadInv, AttemptInv, SerialInv, Crashed, InObtainConnection,
         Opened, InCall, Live
<1> QED BY <1>1, <1>2, <1>3, <1>4, <1>5, <1>6

(* A result of a request.                                                  *)
LEMMA RequestResultPreservesInv ==
  ASSUME Inv, NEW c \in Calls, RequestResult(c)
  PROVE  Inv'
<1> USE ThreadsAssumption, CallsAssumption
    DEF Inv, RequestResult, Goto, Leave, Proceed, CallBack, Threads,
        consensus, cache, threads, connects, requests, history, vars
<1>1. TypeOK'
  BY DEF TypeOK, PC, Attempt, Phase, Reply
<1>2. ThreadInv'
  BY DEF TypeOK, ThreadInv, InCall
<1>3. AttemptInv'
  BY DEF TypeOK, ThreadInv, AttemptInv, InCall
<1>4. RequestInv'
  BY DEF TypeOK, ThreadInv, RequestInv, InCall
<1>5. SeedInv'
  BY DEF TypeOK, ThreadInv, SeedInv, InCall
<1>6. SerialInv'
  BY DEF TypeOK, ThreadInv, AttemptInv, SerialInv, Crashed, InObtainConnection,
         Opened, InCall, Live
<1> QED BY <1>1, <1>2, <1>3, <1>4, <1>5, <1>6

(* The request's callback calls back: the callback had not been called.    *)
LEMMA RunReplyPreservesInv ==
  ASSUME Inv, NEW w \in Workers, NEW c \in Calls, RunReply(w, c)
  PROVE  Inv'
<1> USE ThreadsAssumption, CallsAssumption
    DEF Inv, RunReply, Goto, Leave, Proceed, CallBack, Threads,
        consensus, cache, threads, connects, requests, history, vars
<1>0. PICK list \in Delivered(reply[c]) :
        answers' = [answers EXCEPT ![c] = Append(@, list)]
  OBVIOUS
<1>1. TypeOK'
  <2>1. Append(answers[c], list) \in Seq(SUBSET SNodeInfo)
    <3>1. answers[c] \in Seq(SUBSET SNodeInfo) /\ list \in SUBSET SNodeInfo
      BY DeliveredType DEF TypeOK
    <3> QED BY <3>1
  <2>2. NoReply \in Reply
    BY MaxPartsAssumption DEF Reply, NoReply
  <2> QED BY <1>0, <2>1, <2>2 DEF TypeOK, PC, Phase
<1>2. ThreadInv'
  BY <1>0 DEF TypeOK, ThreadInv, InCall
<1>3. AttemptInv'
  BY <1>0 DEF TypeOK, ThreadInv, AttemptInv, InCall
<1>4. RequestInv'
  <2>1. answers[c] = << >>
    BY DEF RequestInv
  <2>2. Append(answers[c], list) # << >>
    BY <2>1
  <2>3. answers'[c] # << >>
    BY <1>0, <2>2 DEF TypeOK
  <2>4. ~(NoReply.parts > 1)
    BY DEF NoReply
  <2> QED BY <1>0, <2>3, <2>4 DEF TypeOK, RequestInv
<1>5. SeedInv'
  BY <1>0 DEF TypeOK, ThreadInv, SeedInv, InCall
<1>6. SerialInv'
  BY <1>0 DEF TypeOK, ThreadInv, AttemptInv, SerialInv, Crashed, InObtainConnection,
         Opened, InCall, Live
<1> QED BY <1>1, <1>2, <1>3, <1>4, <1>5, <1>6

(* The decoder runs on until the process ends.                             *)
LEMMA ParseOverrunPreservesInv ==
  ASSUME Inv, NEW w \in Workers, NEW c \in Calls, ParseOverrun(w, c)
  PROVE  Inv'
<1> USE ThreadsAssumption, CallsAssumption
    DEF Inv, ParseOverrun, Proceed, Threads,
        consensus, cache, threads, connects, requests, history, vars
<1>1. TypeOK'
  BY DEF TypeOK, PC, Phase
<1>2. ThreadInv'
  BY DEF TypeOK, ThreadInv, InCall
<1>3. AttemptInv'
  BY DEF TypeOK, AttemptInv
<1>4. RequestInv'
  BY DEF TypeOK, RequestInv
<1>5. SeedInv'
  BY DEF TypeOK, SeedInv
<1>6. SerialInv'
  BY DEF SerialInv, Crashed
<1> QED BY <1>1, <1>2, <1>3, <1>4, <1>5, <1>6

(* The return of a callback.                                               *)
LEMMA CallbackReturnPreservesInv ==
  ASSUME Inv, NEW w \in Workers, CallbackReturn(w)
  PROVE  Inv'
<1> USE ThreadsAssumption, CallsAssumption
    DEF Inv, CallbackReturn, Goto, Leave, Proceed, CallBack, Threads,
        consensus, cache, threads, connects, requests, history, vars
<1>1. TypeOK'
  BY DEF TypeOK, PC, Attempt, Phase, Reply
<1>2. ThreadInv'
  BY DEF TypeOK, ThreadInv, InCall
<1>3. AttemptInv'
  BY DEF TypeOK, ThreadInv, AttemptInv, InCall
<1>4. RequestInv'
  BY DEF TypeOK, ThreadInv, RequestInv, InCall
<1>5. SeedInv'
  BY DEF TypeOK, ThreadInv, SeedInv, InCall
<1>6. SerialInv'
  BY DEF TypeOK, ThreadInv, AttemptInv, SerialInv, Crashed, InObtainConnection,
         Opened, InCall, Live
<1> QED BY <1>1, <1>2, <1>3, <1>4, <1>5, <1>6

(* The invariant holds in every reachable state.                           *)
THEOREM InvHolds == Spec => []Inv
<1>1. Init => Inv
  <2> SUFFICES ASSUME Init PROVE Inv
    OBVIOUS
  <2> USE ThreadsAssumption, CallsAssumption DEF Init, Threads
  <2>1. TypeOK
    <3>1. NoReply \in Reply
      BY MaxPartsAssumption DEF Reply, NoReply
    <3>2. /\ seedNodes \in SUBSET Seeds /\ seeds \in Seq(Seeds)
          /\ conn \in Calls \cup {None, Torn} /\ clash \in SUBSET Threads
          /\ lost \in SUBSET Calls
      OBVIOUS
    <3>3. made \in BOOLEAN /\ overlap \in BOOLEAN
      OBVIOUS
    <3>4. pc \in [Threads -> PC] /\ call \in [Threads -> Calls \cup {None}]
      BY DEF PC
    <3>5. /\ attempt \in [Calls -> Attempt] /\ phase \in [Calls -> Phase]
          /\ seed \in [Calls -> Seeds \cup {None}]
          /\ via \in [Calls -> Calls \cup {None, Torn}]
          /\ reply \in [Calls -> Reply]
      BY <3>1 DEF Attempt, Phase
    <3>6. answers \in [Calls -> Seq(SUBSET SNodeInfo)]
      OBVIOUS
    <3> QED BY <3>2, <3>3, <3>4, <3>5, <3>6 DEF TypeOK
  <2>2. ThreadInv /\ AttemptInv /\ SeedInv
    BY DEF ThreadInv, AttemptInv, SeedInv, InCall
  <2>3. RequestInv
    BY DEF RequestInv, NoReply
  <2>4. SerialInv
    BY DEF SerialInv, InObtainConnection, Live
  <2> QED BY <2>1, <2>2, <2>3, <2>4 DEF Inv
<1>2. Inv /\ [Next]_vars => Inv'
  <2> SUFFICES ASSUME Inv, [Next]_vars PROVE Inv'
    OBVIOUS
  <2>1. ASSUME NEW S \in SeedSets, SeedNodes(S) PROVE Inv'
    BY <2>1, SeedNodesPreservesInv
  <2>2. CASE CreateNodeFetcher
    BY <2>2, CreateNodeFetcherPreservesInv
  <2>3. ASSUME NEW t \in Threads, NEW c \in Calls, FetchAll(t, c) PROVE Inv'
    BY <2>3, FetchAllPreservesInv
  <2>5. ASSUME NEW t \in Threads, ThreadStep(t) PROVE Inv'
    BY <2>5, ConnectRemotePreservesInv, NoAddressPreservesInv,
       BeginAssignPreservesInv, EndAssignPreservesInv, ReturnConnPreservesInv,
       CrashPreservesInv, FetchNothingPreservesInv, RequestPreservesInv
       DEF ThreadStep
  <2>6. ASSUME NEW c \in Calls, CallStep(c) PROVE Inv'
    BY <2>6, ConnectResultPreservesInv, SetPromisePreservesInv,
       RequestResultPreservesInv, RunReplyPreservesInv,
       ParseOverrunPreservesInv DEF CallStep
  <2>7. ASSUME NEW w \in Workers, CallbackReturn(w) PROVE Inv'
    BY <2>7, CallbackReturnPreservesInv
  <2>8. ASSUME NEW c \in Calls, Break(c) PROVE Inv'
    BY <2>8, BreakPreservesInv
  <2>9. CASE UNCHANGED vars
    BY <2>9 DEF vars, consensus, cache, threads, connects, requests, history,
                Inv, TypeOK, ThreadInv, AttemptInv, RequestInv, SeedInv,
                SerialInv, Crashed, InObtainConnection, Opened
  <2> QED BY <2>1, <2>2, <2>3, <2>5, <2>6, <2>7, <2>8, <2>9 DEF Next
<1> QED BY <1>1, <1>2, PTL DEF Spec

-------------------------------------------------------------------------------
(* What follows from it                                                    *)

(* The consensus', the fetcher's and OxenMQ's state keeps its types.       *)
THEOREM TypeCorrect == Spec => []TypeOK
BY InvHolds, PTL DEF Inv

(* Two things end the process: a race, and an odd key in a node list.      *)
CrashInv == Crashed => overlap \/ OddKeyRead

(* A step that leaves the phases of parsed lists alone, ends nothing and   *)
(* makes no race undone.                                                   *)
LEMMA HarmlessPreservesCrashInv ==
  ASSUME CrashInv, Crashed' => Crashed, overlap => overlap',
         \A c \in Calls : phase[c] = "parsing" => phase'[c] = "parsing"
  PROVE  CrashInv'
BY DEF CrashInv, OddKeyRead

(* They are the only ones, in every reachable state.                       *)
THEOREM CrashInvHolds == Spec => []CrashInv
<1>1. Init => CrashInv
  BY DEF Init, CrashInv, Crashed, Threads
<1>2. Inv /\ CrashInv /\ [Next]_vars => CrashInv'
  <2> SUFFICES ASSUME Inv, CrashInv, [Next]_vars PROVE CrashInv'
    OBVIOUS
  <2>0. TypeOK
    BY DEF Inv
  <2>1. CASE UNCHANGED <<pc, phase, overlap>>
    BY <2>1 DEF CrashInv, Crashed, OddKeyRead
  <2>2. ASSUME NEW t \in Threads, NEW c \in Calls, FetchAll(t, c) PROVE CrashInv'
    <3>1. Crashed' => Crashed
      BY <2>0, <2>2 DEF FetchAll, Goto, Crashed, TypeOK
    <3>2. \A d \in Calls : phase[d] = "parsing" => phase'[d] = "parsing"
      BY <2>0, <2>2 DEF FetchAll, Proceed, TypeOK
    <3> QED BY <2>2, <3>1, <3>2, HarmlessPreservesCrashInv DEF FetchAll
  <2>3. ASSUME NEW t \in Threads,
               NoAddress(t) \/ FetchNothing(t) \/ Request(t)
        PROVE  CrashInv'
    <3>1. phase[call[t]] = "calling" /\ call[t] \in Calls
      BY <2>3, CallsAssumption
         DEF NoAddress, FetchNothing, Request, Inv, TypeOK, ThreadInv, InCall
    <3>2. Leave(t) /\ UNCHANGED overlap
      BY <2>3 DEF NoAddress, FetchNothing, Request, history
    <3>3. Crashed' => Crashed
      BY <2>0, <3>2 DEF Leave, Goto, Crashed, TypeOK
    <3>4. \A d \in Calls : phase[d] = "parsing" => phase'[d] = "parsing"
      BY <2>0, <2>3, <3>1 DEF NoAddress, FetchNothing, Request, Proceed, TypeOK
    <3> QED BY <3>2, <3>3, <3>4, HarmlessPreservesCrashInv
  <2>4. ASSUME NEW t \in Threads,
               ConnectRemote(t) \/ BeginAssign(t) \/ EndAssign(t) \/ ReturnConn(t)
        PROVE  CrashInv'
    <3>1. (\E l \in PC \ {"dead"} : Goto(t, l)) /\ UNCHANGED <<phase, overlap>>
      BY <2>4 DEF ConnectRemote, BeginAssign, EndAssign, ReturnConn, PC,
                  requests, history
    <3>2. Crashed' => Crashed
      BY <2>0, <3>1 DEF Goto, Crashed, TypeOK
    <3> QED BY <3>1, <3>2, HarmlessPreservesCrashInv
  <2>5. ASSUME NEW t \in Threads, Crash(t) PROVE CrashInv'
    <3>1. UNCHANGED <<phase, overlap>>
      BY <2>5 DEF Crash, requests, history
    <3>2. CASE Crashed \/ overlap
      BY <3>1, <3>2 DEF CrashInv, OddKeyRead
    <3>3. CASE ~Crashed /\ ~overlap
      <4>1. InObtainConnection(t)
        BY <2>5 DEF Crash, InObtainConnection
      <4>2. FALSE
        BY <2>5, <3>3, <4>1, AloneUnlessOverlap DEF Crash, Inv, SerialInv
      <4> QED BY <4>2
    <3> QED BY <3>2, <3>3
  <2>6. ASSUME NEW c \in Calls, RequestResult(c) PROVE CrashInv'
    <3>1. \A d \in Calls : phase[d] = "parsing" => phase'[d] = "parsing"
      BY <2>0, <2>6 DEF RequestResult, Proceed, TypeOK
    <3> QED BY <2>6, <3>1, HarmlessPreservesCrashInv
            DEF RequestResult, Crashed, threads, history
  <2>7. ASSUME NEW w \in Workers, NEW c \in Calls, RunReply(w, c) PROVE CrashInv'
    <3>1. \A d \in Calls : phase[d] = "parsing" => phase'[d] = "parsing"
      BY <2>0, <2>7 DEF RunReply, Proceed, TypeOK
    <3>2. Crashed' => Crashed
      BY <2>0, <2>7 DEF RunReply, Goto, Crashed, TypeOK
    <3> QED BY <2>7, <3>1, <3>2, HarmlessPreservesCrashInv DEF RunReply
  <2>8. ASSUME NEW w \in Workers, NEW c \in Calls, ParseOverrun(w, c)
        PROVE  CrashInv'
    BY <2>0, <2>8 DEF ParseOverrun, Proceed, CrashInv, OddKeyRead, TypeOK
  <2>9. ASSUME NEW w \in Workers, CallbackReturn(w) PROVE CrashInv'
    <3>1. Crashed' => Crashed
      BY <2>0, <2>9 DEF CallbackReturn, Goto, Crashed, TypeOK
    <3> QED BY <2>9, <3>1, HarmlessPreservesCrashInv
            DEF CallbackReturn, requests, history
  <2> QED BY <2>1, <2>2, <2>3, <2>4, <2>5, <2>6, <2>7, <2>8, <2>9
          DEF Next, ThreadStep, CallStep, SeedNodes, CreateNodeFetcher,
              ConnectResult, SetPromise, Break, vars, threads, requests, history
<1> QED BY <1>1, <1>2, InvHolds, PTL DEF Spec

(* Without overlapping calls _conn is never torn, no connection leaks and  *)
(* every call goes over the one that was opened, unless its own attempt    *)
(* failed: at most one call ever has a connection, since a call connects   *)
(* only while _conn is empty and no other call is connecting.              *)
THEOREM SerialUseIsSafeHolds == Spec => []SerialUseIsSafe
<1>1. Inv /\ CrashInv => SerialUseIsSafe
  <2> SUFFICES ASSUME Inv, ~overlap, ~Crashed
               PROVE  /\ conn # Torn
                      /\ \A t \in Threads : pc[t] # "dead"
                      /\ Cardinality(Opened) <= 1
                      /\ \A t \in Threads :
                           pc[t] = "obtained" => \/ via[call[t]] \in Opened
                                                 \/ attempt[call[t]] = "failed"
    BY DEF SerialUseIsSafe, CrashInv
  <2>1. ASSUME NEW c \in Opened, NEW d \in Opened PROVE c = d
    <3>1. c \in Calls /\ d \in Calls /\ attempt[c] \in Live /\ attempt[d] \in Live
      BY DEF Opened, Live
    <3>2. CASE conn # None
      BY <3>1, <3>2 DEF Inv, SerialInv
    <3>3. CASE conn = None
      <4>1. PICK t \in Threads : pc[t] \in {"wait", "assign"} /\ call[t] = c
        BY <3>1, <3>3, CallsAssumption DEF Inv, SerialInv
      <4>2. PICK u \in Threads : pc[u] \in {"wait", "assign"} /\ call[u] = d
        BY <3>1, <3>3, CallsAssumption DEF Inv, SerialInv
      <4> QED BY <4>1, <4>2 DEF Inv, SerialInv, InObtainConnection
    <3> QED BY <3>2, <3>3
  <2>2. Cardinality(Opened) <= 1
    <3>1. CASE Opened = {}
      BY <3>1, FS_EmptySet
    <3>2. CASE Opened # {}
      <4>1. PICK c \in Opened : Opened = {c}
        BY <2>1, <3>2
      <4>2. Cardinality({c}) = 1
        BY FS_Singleton, Zenon
      <4> QED BY <4>1, <4>2
    <3> QED BY <3>1, <3>2
  <2> QED BY <2>2 DEF Inv, SerialInv, Crashed
<1> QED BY <1>1, InvHolds, CrashInvHolds, PTL

(* Of several seeds a fetcher only ever connects to one.                   *)
THEOREM OneSeedOnlyHolds == Spec => []OneSeedOnly
<1>1. Inv => OneSeedOnly
  BY DEF Inv, SeedInv, OneSeedOnly
<1> QED BY <1>1, InvHolds, PTL

(* A broken connection in _conn stays there, and every later call goes     *)
(* over it: _conn is not empty, so no call connects, and nobody assigns.   *)
THEOREM StaleForGoodHolds == Spec => StaleForGood
<1> DEFINE Kept == \A c \in Calls : via'[c] # via[c] => via'[c] \in lost
<1>1. Inv /\ [Next]_vars => [Stale => Stale' /\ Kept]_vars
  <2> SUFFICES ASSUME Inv, Next, Stale PROVE Stale' /\ Kept
    OBVIOUS
  <2>1. /\ conn \in lost /\ conn \in Calls /\ conn # None
        /\ \A t \in Threads : Readable(t) = {conn}
    BY CallsAssumption, AccessTypes DEF Inv, TypeOK, Stale, Assigning
  <2>2. TypeOK
    BY DEF Inv
  <2> USE DEF Goto, Leave, Proceed, consensus, cache, threads, connects,
              requests, history
  <2>3. ASSUME NEW t \in Threads, NEW c \in Calls, FetchAll(t, c)
        PROVE  Stale' /\ Kept
    <3>1. pc' = [pc EXCEPT ![t] = "return"]
      BY <2>1, <2>3 DEF FetchAll, cached
    <3> QED BY <2>2, <2>3, <3>1 DEF FetchAll, Stale, TypeOK
  <2>4. ASSUME NEW t \in Threads, ReturnConn(t) PROVE Stale' /\ Kept
    <3>1. via' = [via EXCEPT ![call[t]] = conn]
      BY <2>1, <2>4 DEF ReturnConn
    <3> QED BY <2>1, <2>2, <2>4, <3>1 DEF ReturnConn, Stale, TypeOK
  <2>5. ASSUME NEW t \in Threads,
               NoAddress(t) \/ Crash(t) \/ FetchNothing(t) \/ Request(t)
        PROVE  Stale' /\ Kept
    BY <2>2, <2>5 DEF NoAddress, Crash, FetchNothing, Request, Stale, TypeOK
  <2>6. ASSUME NEW t \in Threads,
               ConnectRemote(t) \/ BeginAssign(t) \/ EndAssign(t)
        PROVE  FALSE
    BY <2>6 DEF ConnectRemote, BeginAssign, EndAssign, Stale
  <2>7. ASSUME NEW c \in Calls, CallStep(c) PROVE Stale' /\ Kept
    BY <2>2, <2>7 DEF CallStep, ConnectResult, SetPromise, RequestResult,
                      RunReply, ParseOverrun, Stale, TypeOK, Threads
  <2>8. ASSUME NEW w \in Workers, CallbackReturn(w) PROVE Stale' /\ Kept
    BY <2>2, <2>8 DEF CallbackReturn, Stale, TypeOK, Threads
  <2>9. ASSUME NEW c \in Calls, Break(c) PROVE Stale' /\ Kept
    BY <2>9 DEF Break, Stale
  <2>10. CASE UNCHANGED <<conn, lost, pc, via>>
    BY <2>10 DEF Stale
  <2> QED BY <2>3, <2>4, <2>5, <2>6, <2>7, <2>8, <2>9, <2>10
          DEF Next, ThreadStep, SeedNodes, CreateNodeFetcher
<1> QED BY <1>1, InvHolds, PTL DEF Spec, StaleForGood

(* The request's callback passes the whole list of its reply on, or an     *)
(* empty one, for replies of any length.                                   *)
THEOREM EmptyOrWholeHolds == Spec => EmptyOrWhole
<1> DEFINE A == \A c \in Calls :
                  phase[c] = "replyjob" /\ answers'[c] # answers[c] =>
                    \/ answers'[c] = <<{}>>
                    \/ Whole(answers'[c][1], reply[c].doc)
<1>1. Inv /\ [Next]_vars => [A]_vars
  <2> SUFFICES ASSUME Inv, Next, NEW c \in Calls,
                      phase[c] = "replyjob", answers'[c] # answers[c]
               PROVE  answers'[c] = <<{}>> \/ Whole(answers'[c][1], reply[c].doc)
    OBVIOUS
  <2>1. TypeOK /\ answers[c] = << >>
    BY DEF Inv, RequestInv
  <2>2. ASSUME NEW t \in Threads, FetchNothing(t) PROVE FALSE
    <3>1. call[t] \in Calls /\ phase[call[t]] = "calling"
      BY <2>2 DEF FetchNothing, Inv, TypeOK, ThreadInv, InCall
    <3>2. answers' = [answers EXCEPT ![call[t]] = Append(@, {})]
      BY <2>2 DEF FetchNothing, CallBack
    <3> QED BY <2>1, <3>1, <3>2 DEF TypeOK
  <2>3. ASSUME NEW w \in Workers, NEW d \in Calls, RunReply(w, d)
        PROVE  answers'[c] = <<{}>> \/ Whole(answers'[c][1], reply[c].doc)
    <3>1. PICK list \in Delivered(reply[d]) :
            answers' = [answers EXCEPT ![d] = Append(@, list)]
      BY <2>3 DEF RunReply, CallBack
    <3>2. c = d /\ answers'[c] = Append(answers[c], list)
      BY <2>1, <3>1 DEF TypeOK
    <3>3. answers'[c] = <<list>>
      <4>1. answers[c] = << >>
        BY <2>1
      <4>2. Append(answers[c], list) = <<list>>
        BY <4>1
      <4> QED BY <3>2, <4>2
    <3>4. CASE list = {}
      BY <3>3, <3>4
    <3>5. CASE list # {}
      <4>1. /\ list \in ParseNodeList(reply[c].doc)
            /\ reply[c].parts > 1
        BY <3>1, <3>2, <3>5 DEF Delivered
      <4>2. reply[c].doc \in Docs /\ reply[c].doc # Unparsable
        BY <2>1, <4>1 DEF Inv, TypeOK, Reply, RequestInv, ParseNodeList
      <4>3. reply[c].doc \in Seq(Entry)
        BY <4>2, DocsAssumption
      <4> QED BY <3>3, <4>1, <4>3, ParsedIsWhole
    <3> QED BY <3>4, <3>5
  <2>4. CASE UNCHANGED answers
    BY <2>4
  <2> QED BY <2>2, <2>3, <2>4
          DEF Next, ThreadStep, CallStep, SeedNodes, CreateNodeFetcher, FetchAll,
              ConnectRemote, NoAddress, BeginAssign, EndAssign, ReturnConn,
              Crash, Request, ConnectResult, SetPromise, RequestResult,
              ParseOverrun, CallbackReturn, Break, history
<1> QED BY <1>1, InvHolds, PTL DEF Spec, EmptyOrWhole

(* Every step of the fetcher is a step of the contract or leaves its state *)
(* alone, races on _conn included: the callback of a call is called at     *)
(* most once, and only after the call.                                     *)
THEOREM KeepsContractHolds == Spec => KeepsContract
<1> DEFINE mapped == {c \in Calls : phase[c] # "unsent"}
           heard == [c \in Calls |-> Heard(c)]
<1>1. Init => Contract!Init
  BY DEF Init, Contract!Init, Heard
<1>2. Inv /\ [Next]_vars => [Contract!Next]_Contract!vars
  <2> SUFFICES ASSUME Inv, [Next]_vars
               PROVE  Contract!Next \/ UNCHANGED Contract!vars
    OBVIOUS
  <2> USE DEF Contract!Next, Contract!vars
  <2>0. UNCHANGED answers => heard' = heard
    BY DEF Heard
  <2>1. ASSUME NEW t \in Threads, NEW c \in Calls, FetchAll(t, c)
        PROVE  Contract!Send(c)
    <3>1. mapped' = mapped \cup {c} /\ c \notin mapped
      BY <2>1 DEF Inv, TypeOK, FetchAll, Proceed
    <3>2. heard' = heard
      BY <2>0, <2>1 DEF FetchAll
    <3> QED BY <3>1, <3>2 DEF Contract!Send
  <2>2. ASSUME NEW c \in Calls, NEW list,
               phase[c] \notin {"unsent", "done"},
               phase' = [phase EXCEPT ![c] = "done"],
               answers' = [answers EXCEPT ![c] = Append(@, list)]
        PROVE  Contract!Respond(c)
    <3> DEFINE a == IF list = {} THEN "nullopt" ELSE "body"
    <3>1. answers[c] = << >>
      BY <2>2 DEF Inv, RequestInv
    <3>2. Append(answers[c], list) = <<list>>
      BY <3>1
    <3>3. answers' = [answers EXCEPT ![c] = <<list>>]
      BY <2>2, <3>2 DEF Inv, TypeOK
    <3>4. Heard(c) = << >> /\ Heard(c)' = <<a>>
      <4>1. answers'[c] = <<list>>
        BY <3>3 DEF Inv, TypeOK
      <4> QED BY <3>1, <4>1 DEF Heard
    <3>5. \A d \in Calls \ {c} : Heard(d)' = Heard(d)
      BY <3>3 DEF Inv, TypeOK, Heard
    <3>6. heard' = [heard EXCEPT ![c] = <<a>>]
      BY <3>4, <3>5
    <3>7. mapped' = mapped /\ c \in mapped
      BY <2>2 DEF Inv, TypeOK
    <3>8. heard[c] = << >> /\ a \in Contract!Answer
      BY <3>4 DEF Contract!Answer
    <3> QED BY <3>6, <3>7, <3>8 DEF Contract!Respond
  <2>3. ASSUME NEW t \in Threads, ThreadStep(t)
        PROVE  Contract!Next \/ UNCHANGED Contract!vars
    <3>1. CASE ConnectRemote(t) \/ BeginAssign(t) \/ EndAssign(t) \/ ReturnConn(t)
               \/ Crash(t)
      BY <2>0, <3>1 DEF ConnectRemote, BeginAssign, EndAssign, ReturnConn, Crash,
                        requests, history
    <3>2. CASE FetchNothing(t) \/ NoAddress(t) \/ Request(t)
      <4>1. call[t] \in Calls /\ phase[call[t]] = "calling"
        BY <3>2 DEF FetchNothing, NoAddress, Request, Inv, TypeOK, ThreadInv, InCall
      <4>2. CASE FetchNothing(t)
        BY <2>2, <4>1, <4>2 DEF FetchNothing, CallBack, Proceed
      <4>3. CASE NoAddress(t) \/ Request(t)
        <5>1. mapped' = mapped
          BY <4>1, <4>3 DEF NoAddress, Request, Proceed, Inv, TypeOK
        <5> QED BY <2>0, <4>3, <5>1 DEF NoAddress, Request, history
      <4> QED BY <3>2, <4>2, <4>3
    <3> QED BY <2>3, <3>1, <3>2 DEF ThreadStep
  <2>4. ASSUME NEW c \in Calls, CallStep(c)
        PROVE  Contract!Next \/ UNCHANGED Contract!vars
    <3>1. CASE ConnectResult(c) \/ SetPromise(c)
      BY <2>0, <3>1 DEF ConnectResult, SetPromise, requests, history
    <3>2. CASE RequestResult(c)
      <4>1. mapped' = mapped
        BY <3>2 DEF RequestResult, Proceed, Inv, TypeOK
      <4> QED BY <2>0, <3>2, <4>1 DEF RequestResult, history
    <3>3. ASSUME NEW w \in Workers, RunReply(w, c) PROVE Contract!Respond(c)
      BY <2>2, <3>3 DEF RunReply, CallBack, Proceed
    <3>4. ASSUME NEW w \in Workers, ParseOverrun(w, c) PROVE UNCHANGED Contract!vars
      <4>1. mapped' = mapped
        BY <3>4 DEF ParseOverrun, Proceed, Inv, TypeOK
      <4> QED BY <2>0, <3>4, <4>1 DEF ParseOverrun, history
    <3> QED BY <2>4, <3>1, <3>2, <3>3, <3>4 DEF CallStep
  <2>5. CASE UNCHANGED <<phase, answers>>
    BY <2>0, <2>5
  <2> QED BY <2>1, <2>3, <2>4, <2>5
          DEF Next, SeedNodes, CreateNodeFetcher, CallbackReturn, Break,
              vars, requests, history
<1> QED BY <1>1, <1>2, InvHolds, PTL DEF Spec, KeepsContract, Contract!Spec

-------------------------------------------------------------------------------
(* A call that is neither on the wire nor over is some thread's; one that  *)
(* waits has an attempt to wait for; workers make only the calls that      *)
(* callbacks may make.                                                     *)
CallInv ==
  /\ \A c \in Calls : phase[c] = "calling" => \E t \in Threads : call[t] = c
  /\ \A t \in Threads : pc[t] = "wait" => attempt[call[t]] # "none"
  /\ \A w \in Workers : call[w] # None => call[w] \in FromHandler

(* What a thread inside FetchAll refers to.                                *)
LEMMA InCallFacts ==
  ASSUME Inv, NEW t \in Threads, pc[t] \in InCall
  PROVE  call[t] \in Calls /\ phase[call[t]] = "calling"
BY CallsAssumption DEF Inv, TypeOK, ThreadInv

(* A step that only moves one thread, not into ftr.get(), keeps the        *)
(* invariant of the calls.                                                 *)
LEMMA MovePreservesCallInv ==
  ASSUME CallInv, NEW t \in Threads, pc \in [Threads -> PC],
         NEW l, l # "wait", Goto(t, l), UNCHANGED <<call, phase, attempt>>
  PROVE  CallInv'
<1>1. \A u \in Threads : pc'[u] = "wait" => pc[u] = "wait"
  BY DEF Goto
<1> QED BY <1>1 DEF CallInv

(* A call that ends, or whose request is sent, leaves the thread.          *)
LEMMA LeavePreservesCallInv ==
  ASSUME Inv, CallInv, NEW t \in Threads, pc[t] \in InCall, Leave(t),
         NEW p \in {"wire", "done", "threw"}, Proceed(call[t], p),
         UNCHANGED attempt
  PROVE  CallInv'
<1>0. TypeOK
  BY DEF Inv
<1>1. call[t] \in Calls
  BY InCallFacts
<1>2. /\ \A u \in Threads : u # t => pc'[u] = pc[u] /\ call'[u] = call[u]
      /\ pc'[t] = "app" /\ call'[t] = None
      /\ phase'[call[t]] # "calling"
      /\ \A c \in Calls : c # call[t] => phase'[c] = phase[c]
  BY <1>0, <1>1 DEF Leave, Goto, Proceed, TypeOK
<1>3. ASSUME NEW c \in Calls, phase'[c] = "calling"
      PROVE  \E u \in Threads : call'[u] = c
  <2>1. PICK u \in Threads : call[u] = c
    BY <1>2, <1>3 DEF CallInv
  <2>2. u # t
    BY <1>2, <1>3, <2>1
  <2> QED BY <1>2, <2>1, <2>2
<1>4. \A u \in Threads : pc'[u] = "wait" => attempt'[call'[u]] # "none"
  BY <1>2 DEF CallInv
<1>5. \A w \in Workers : call'[w] # None => call'[w] \in FromHandler
  BY <1>2 DEF CallInv, Threads
<1> QED BY ONLY <1>3, <1>4, <1>5 DEF CallInv

(* Every step of the fetcher keeps the invariant of the calls.             *)
LEMMA NextPreservesCallInv ==
  ASSUME Inv, CallInv, Next
  PROVE  CallInv'
<1>0. TypeOK
  BY DEF Inv
<1>1. ASSUME UNCHANGED <<pc, call, phase, attempt>> PROVE CallInv'
  BY <1>1 DEF CallInv
<1>2. ASSUME NEW S \in SeedSets, SeedNodes(S) PROVE CallInv'
  BY <1>1, <1>2 DEF SeedNodes, threads, connects, requests
<1>3. ASSUME CreateNodeFetcher PROVE CallInv'
  BY <1>1, <1>3 DEF CreateNodeFetcher, threads, connects, requests
<1>5. ASSUME NEW c \in Calls, Break(c) PROVE CallInv'
  BY <1>1, <1>5 DEF Break, threads, requests
<1>6. ASSUME NEW t \in Threads, NEW c \in Calls, FetchAll(t, c) PROVE CallInv'
  <2>1. /\ \A u \in Threads : u # t => pc'[u] = pc[u] /\ call'[u] = call[u]
        /\ pc'[t] # "wait" /\ call'[t] = c
        /\ \A d \in Calls : d # c => phase'[d] = phase[d]
        /\ attempt' = attempt
        /\ t \in Workers => c \in FromHandler
    BY <1>0, <1>6 DEF FetchAll, Goto, Proceed, TypeOK, connects
  <2>2. call[t] = None
    BY <1>6 DEF FetchAll, Inv, ThreadInv
  <2>3. ASSUME NEW d \in Calls, phase'[d] = "calling"
        PROVE  \E u \in Threads : call'[u] = d
    <3>1. CASE d = c
      BY <2>1, <3>1
    <3>2. CASE d # c
      <4>1. PICK u \in Threads : call[u] = d
        BY <2>1, <2>3, <3>2 DEF CallInv
      <4>2. u # t
        BY <2>2, <4>1, CallsAssumption
      <4> QED BY <2>1, <4>1, <4>2
    <3> QED BY <3>1, <3>2
  <2>4. \A u \in Threads : pc'[u] = "wait" => attempt'[call'[u]] # "none"
    BY <2>1 DEF CallInv
  <2>5. \A w \in Workers : call'[w] # None => call'[w] \in FromHandler
    BY <2>1 DEF CallInv, Threads
  <2> QED BY ONLY <2>3, <2>4, <2>5 DEF CallInv
<1>7. ASSUME NEW t \in Threads, ConnectRemote(t) PROVE CallInv'
  <2>1. call[t] \in Calls
    BY <1>7, InCallFacts DEF ConnectRemote, InCall
  <2>2. /\ \A u \in Threads : u # t => pc'[u] = pc[u]
        /\ attempt'[call[t]] = "opening"
        /\ \A c \in Calls : c # call[t] => attempt'[c] = attempt[c]
        /\ UNCHANGED <<call, phase>>
    BY <1>0, <1>7, <2>1 DEF ConnectRemote, Goto, TypeOK, requests
  <2>3. ASSUME NEW u \in Threads, pc'[u] = "wait" PROVE attempt'[call'[u]] # "none"
    <3>1. CASE call[u] = call[t]
      BY <2>2, <3>1
    <3>2. CASE call[u] # call[t]
      <4>1. pc[u] = "wait"
        BY <2>2, <2>3, <3>2
      <4>2. call[u] \in Calls
        BY <4>1, InCallFacts DEF InCall
      <4> QED BY <2>2, <3>2, <4>1, <4>2 DEF CallInv
    <3> QED BY <3>1, <3>2
  <2> QED BY ONLY <2>2, <2>3, CallInv DEF CallInv
<1>8. ASSUME NEW t \in Threads, BeginAssign(t) \/ EndAssign(t) \/ ReturnConn(t)
      PROVE  CallInv'
  <2>1. \E l \in {"assign", "return", "obtained"} : Goto(t, l)
    BY <1>8 DEF BeginAssign, EndAssign, ReturnConn
  <2>2. UNCHANGED <<call, phase, attempt>>
    BY <1>8 DEF BeginAssign, EndAssign, ReturnConn, connects, requests
  <2> QED BY <1>0, <2>1, <2>2, MovePreservesCallInv DEF TypeOK
<1>9. ASSUME NEW t \in Threads, NoAddress(t) \/ FetchNothing(t) \/ Request(t)
      PROVE  CallInv'
  <2>1. pc[t] \in InCall /\ Leave(t) /\ UNCHANGED attempt
    BY <1>9 DEF NoAddress, FetchNothing, Request, InCall, connects
  <2>2. \E p \in {"wire", "done", "threw"} : Proceed(call[t], p)
    BY <1>9 DEF NoAddress, FetchNothing, Request
  <2> QED BY <2>1, <2>2, LeavePreservesCallInv
<1>10. ASSUME NEW t \in Threads, Crash(t) PROVE CallInv'
  BY <1>10 DEF Crash, CallInv, connects, requests
<1>11. ASSUME NEW c \in Calls, ConnectResult(c) \/ SetPromise(c) PROVE CallInv'
  <2>1. /\ \A d \in Calls : attempt[d] # "none" => attempt'[d] # "none"
        /\ UNCHANGED <<pc, call, phase>>
    BY <1>0, <1>11 DEF ConnectResult, SetPromise, TypeOK, threads, requests
  <2>2. \A t \in Threads : pc[t] = "wait" => call[t] \in Calls
    BY InCallFacts DEF InCall
  <2> QED BY <2>1, <2>2 DEF CallInv
<1>12. ASSUME NEW c \in Calls,
              \/ RequestResult(c)
              \/ \E w \in Workers : RunReply(w, c) \/ ParseOverrun(w, c)
       PROVE  CallInv'
  <2>1. /\ \A d \in Calls : phase'[d] = "calling" => phase[d] = "calling"
        /\ UNCHANGED <<call, attempt>>
    BY <1>0, <1>12 DEF RequestResult, RunReply, ParseOverrun, Proceed, TypeOK,
                           threads, connects
  <2>2. \A t \in Threads : pc'[t] = "wait" => pc[t] = "wait"
    BY <1>0, <1>12 DEF RequestResult, RunReply, ParseOverrun, Goto, TypeOK, threads
  <2> QED BY <2>1, <2>2 DEF CallInv
<1>13. ASSUME NEW w \in Workers, CallbackReturn(w) PROVE CallInv'
  BY <1>0, <1>13, MovePreservesCallInv
     DEF CallbackReturn, TypeOK, Threads, connects, requests
<1> QED BY <1>2, <1>3, <1>5, <1>6, <1>7, <1>8, <1>9, <1>10, <1>11, <1>12,
           <1>13 DEF Next, ThreadStep, CallStep

(* The calls are as their invariant says in every reachable state.         *)
THEOREM CallInvHolds == Spec => []CallInv
<1>1. Init => CallInv
  BY DEF Init, CallInv, Threads
<1>2. Inv /\ CallInv /\ [Next]_vars => CallInv'
  <2> SUFFICES ASSUME CallInv, UNCHANGED vars PROVE CallInv'
    BY NextPreservesCallInv
  <2> QED BY DEF vars, CallInv, threads, connects, requests
<1> QED BY <1>1, <1>2, InvHolds, PTL DEF Spec

(* A thread that waits neither for a promise nor for a job, and is not the *)
(* application's to move.                                                  *)
CanGoOn(t) ==
  \/ pc[t] \in {"connect", "assign", "return", "obtained"}
  \/ pc[t] = "wait" /\ attempt[call[t]] \in {"up", "failed"}
  \/ pc[t] = "app" /\ t \in Workers

(* OxenMQ has something to report, and a worker to report it if need be.   *)
CanServe(c) ==
  \/ attempt[c] = "opening" \/ phase[c] = "wire"
  \/ /\ \E w \in Workers : pc[w] = "idle"
     /\ attempt[c] \in {"upjob", "failjob"} \/ phase[c] = "replyjob"

Stuck == (\A t \in Threads : ~CanGoOn(t)) /\ (\A c \in Calls : ~CanServe(c))

(* What the fetcher and OxenMQ do by themselves.                           *)
Progress ==
  \/ \E t \in Threads : ThreadStep(t)
  \/ \E c \in Calls : CallStep(c)
  \/ \E w \in Workers : CallbackReturn(w)

(* Where one of them takes a step the fetcher was not stuck.               *)
LEMMA ProgressNotStuck == Progress => ~Stuck
<1>1. ASSUME NEW t \in Threads, ThreadStep(t) PROVE CanGoOn(t)
  BY <1>1 DEF CanGoOn, ThreadStep, ConnectRemote, NoAddress, BeginAssign, EndAssign,
              ReturnConn, Crash, FetchNothing, Request
<1>2. ASSUME NEW w \in Workers, CallbackReturn(w) PROVE CanGoOn(w) /\ w \in Threads
  BY <1>2 DEF CanGoOn, CallbackReturn, Threads
<1>3. ASSUME NEW c \in Calls, CallStep(c) PROVE CanServe(c)
  BY <1>3 DEF CanServe, CallStep, ConnectResult, SetPromise, RequestResult, RunReply,
              ParseOverrun
<1> QED BY <1>1, <1>2, <1>3 DEF Stuck, Progress

(* And no step that is due lacks an outcome: there is always a value to    *)
(* read or to leave in _conn, and something to call back with.             *)
LEMMA StepsHaveOutcomes ==
  ASSUME NEW t \in Threads, NEW m
  PROVE  Readable(t) # {} /\ Stored(t) # {} /\ Delivered(m) # {}
<1>1. Readable(t) # {}
  BY DEF Readable, Mixed
<1>2. Stored(t) # {}
  BY DEF Stored, Mixed
<1>3. Delivered(m) # {}
  BY DEF Delivered
<1> QED BY <1>1, <1>2, <1>3

InFlight == \E c \in Calls : phase[c] \in {"calling", "wire", "replyjob"}

(* A call hangs in one way only, short of a crash: every worker waits in a *)
(* callback's FetchAll for a job that only a worker can run.               *)
HangsOnlyExhausted ==
  Stuck /\ InFlight /\ ~Crashed =>
    \A w \in Workers : pc[w] = "wait" /\ attempt[call[w]] \in {"upjob", "failjob"}

(* No race on _conn, failed attempt or exception makes FetchAll hang in    *)
(* any other way, with any number of threads, workers and calls.           *)
THEOREM HangsOnlyExhaustedHolds == Spec => []HangsOnlyExhausted
<1>1. Inv /\ CallInv => HangsOnlyExhausted
  <2> SUFFICES ASSUME Inv, CallInv, Stuck, ~Crashed, NEW c \in Calls,
                      phase[c] \in {"calling", "wire", "replyjob"},
                      NEW w \in Workers
               PROVE  pc[w] = "wait" /\ attempt[call[w]] \in {"upjob", "failjob"}
    BY DEF HangsOnlyExhausted, InFlight
  <2>1. ASSUME NEW t \in Threads, pc[t] = "wait"
        PROVE  call[t] \in Calls /\ attempt[call[t]] \in {"upjob", "failjob"}
    <3>1. call[t] \in Calls
      BY <2>1, InCallFacts DEF InCall
    <3>2. attempt[call[t]] \in Attempt \ {"none", "up", "failed", "opening"}
      BY <2>1, <3>1 DEF Inv, TypeOK, CallInv, Stuck, CanGoOn, CanServe
    <3> QED BY <3>1, <3>2 DEF Attempt
  <2>2. pc[w] # "idle"
    <3> SUFFICES ASSUME pc[w] = "idle" PROVE FALSE
      OBVIOUS
    <3>1. phase[c] = "calling"
      BY DEF Inv, TypeOK, Phase, Stuck, CanServe
    <3>2. PICK t \in Threads : call[t] = c
      BY <3>1 DEF CallInv
    <3>3. pc[t] \notin {"idle", "app", "dead"}
      BY <3>2, CallsAssumption DEF Inv, ThreadInv, Crashed
    <3>4. pc[t] = "wait"
      BY <3>3 DEF Inv, TypeOK, PC, Stuck, CanGoOn
    <3>5. attempt[c] \in {"upjob", "failjob"}
      BY <2>1, <3>2, <3>4
    <3> QED BY <3>5 DEF Stuck, CanServe
  <2>3. w \in Threads /\ pc[w] = "wait"
    BY <2>2 DEF Inv, TypeOK, PC, Stuck, CanGoOn, Threads, Crashed
  <2> QED BY <2>1, <2>3
<1> QED BY <1>1, InvHolds, CallInvHolds, PTL

(* With more workers than calls that callbacks may make, a call can always *)
(* go on until it has called back or thrown, unless a race on _conn or an  *)
(* odd key ends the process: the safety half of EveryFetchEnds, under its  *)
(* condition.                                                              *)
THEOREM PoolSuffices ==
  /\ IsFiniteSet(FromHandler) /\ IsFiniteSet(Workers)
  /\ Cardinality(FromHandler) < Cardinality(Workers)
  => (Spec => [](InFlight /\ ~Crashed => ~Stuck))
<1> SUFFICES ASSUME IsFiniteSet(FromHandler), IsFiniteSet(Workers),
                    Cardinality(FromHandler) < Cardinality(Workers)
             PROVE  Spec => [](InFlight /\ ~Crashed => ~Stuck)
  OBVIOUS
<1>1. Inv /\ CallInv => \E w \in Workers : pc[w] # "wait"
  <2> SUFFICES ASSUME Inv, CallInv, \A w \in Workers : pc[w] = "wait" PROVE FALSE
    OBVIOUS
  <2> DEFINE f == [w \in Workers |-> call[w]]
  <2>1. \A w \in Workers : call[w] \in Calls /\ call[w] # None
    BY InCallFacts, CallsAssumption DEF InCall, Threads
  <2>2. \A w \in Workers : call[w] \in FromHandler
    BY <2>1 DEF CallInv
  <2>3. \A v, w \in Workers : call[v] = call[w] => v = w
    BY <2>1 DEF Inv, ThreadInv, Threads
  <2>4. f \in Injection(Workers, FromHandler)
    BY <2>2, <2>3 DEF Injection, IsInjective
  <2>5. Cardinality(Workers) <= Cardinality(FromHandler)
    BY <2>4, FS_Injection
  <2>6. Cardinality(Workers) \in Nat /\ Cardinality(FromHandler) \in Nat
    BY FS_CardinalityType
  <2> QED BY <2>5, <2>6
<1>2. /\ HangsOnlyExhausted
      /\ \E w \in Workers : pc[w] # "wait"
      => (InFlight /\ ~Crashed => ~Stuck)
  BY DEF HangsOnlyExhausted
<1> QED BY <1>1, <1>2, InvHolds, CallInvHolds, HangsOnlyExhaustedHolds, PTL

-------------------------------------------------------------------------------
PhaseRank(p) ==
  CASE p = "unsent" -> 0 [] p = "calling" -> 1 [] p = "wire" -> 2
    [] p = "replyjob" -> 3 [] p \in {"parsing", "done", "threw"} -> 4

AttemptRank(a) ==
  CASE a = "none" -> 0 [] a = "opening" -> 1 [] a \in {"upjob", "failjob"} -> 2
    [] a \in {"up", "failed"} -> 3

PlaceRank(l) ==
  CASE l \in {"idle", "app"} -> 0 [] l = "connect" -> 1 [] l = "wait" -> 2
    [] l = "assign" -> 3 [] l = "return" -> 4 [] l = "obtained" -> 5
    [] l = "dead" -> 6

(* A call, its connection attempt, and the thread while it is in the call  *)
(* do not go back.                                                         *)
NoneBack ==
  /\ \A c \in Calls : /\ PhaseRank(phase[c]) <= PhaseRank(phase'[c])
                      /\ AttemptRank(attempt[c]) <= AttemptRank(attempt'[c])
  /\ \A t \in Threads :
       call[t] # None /\ call'[t] = call[t] => PlaceRank(pc[t]) <= PlaceRank(pc'[t])

(* One of them goes further.                                               *)
OneFurther ==
  \/ \E c \in Calls : \/ PhaseRank(phase[c]) < PhaseRank(phase'[c])
                      \/ AttemptRank(attempt[c]) < AttemptRank(attempt'[c])
  \/ \E t \in Threads : /\ call[t] # None /\ call'[t] = call[t]
                        /\ PlaceRank(pc[t]) < PlaceRank(pc'[t])

(* FetchAll does nothing over, whatever fails and whatever races there are *)
(* on _conn: it cannot go round in circles instead of calling back.        *)
OnlyForward ==
  [][NoneBack /\ (Progress => OneFurther \/ \E w \in Workers : CallbackReturn(w))]_vars

(* The ranks are numbers.                                                  *)
LEMMA RankTypes ==
  /\ \A p \in Phase : PhaseRank(p) \in 0..4
  /\ \A a \in Attempt : AttemptRank(a) \in 0..3
  /\ \A l \in PC : PlaceRank(l) \in 0..6
<1>1. \A p \in Phase : PhaseRank(p) \in 0..4
  BY DEF Phase, PhaseRank
<1>2. \A a \in Attempt : AttemptRank(a) \in 0..3
  BY DEF Attempt, AttemptRank
<1>3. \A l \in PC : PlaceRank(l) \in 0..6
  BY DEF PC, PlaceRank
<1> QED BY <1>1, <1>2, <1>3

(* What stays where it is does not go back.                                *)
LEMMA Stays ==
  ASSUME TypeOK
  PROVE  /\ \A c \in Calls : /\ PhaseRank(phase[c]) <= PhaseRank(phase[c])
                             /\ AttemptRank(attempt[c]) <= AttemptRank(attempt[c])
         /\ \A t \in Threads : PlaceRank(pc[t]) <= PlaceRank(pc[t])
<1>1. ASSUME NEW c \in Calls
      PROVE  /\ PhaseRank(phase[c]) <= PhaseRank(phase[c])
             /\ AttemptRank(attempt[c]) <= AttemptRank(attempt[c])
  <2>1. phase[c] \in Phase /\ attempt[c] \in Attempt
    BY DEF TypeOK
  <2> QED BY <2>1, RankTypes
<1>2. ASSUME NEW t \in Threads PROVE PlaceRank(pc[t]) <= PlaceRank(pc[t])
  <2>1. pc[t] \in PC
    BY DEF TypeOK
  <2> QED BY <2>1, RankTypes
<1> QED BY <1>1, <1>2

(* A step that changes the phase of one call, for a later one.             *)
LEMMA LaterPhase ==
  ASSUME TypeOK, NEW c \in Calls, NEW p \in Phase, Proceed(c, p),
         PhaseRank(phase[c]) < PhaseRank(p), UNCHANGED attempt,
         \A t \in Threads : call[t] # None => call'[t] # call[t] \/ pc'[t] = pc[t]
  PROVE  NoneBack /\ OneFurther
<1>1. \A d \in Calls : phase'[d] = IF d = c THEN p ELSE phase[d]
  BY DEF Proceed, TypeOK
<1>2. PhaseRank(phase[c]) \in Int /\ PhaseRank(p) \in Int
  <2>1. phase[c] \in Phase
    BY DEF TypeOK
  <2> QED BY <2>1, RankTypes
<1>3. PhaseRank(phase[c]) <= PhaseRank(p)
  BY <1>2
<1>4. \A d \in Calls : /\ PhaseRank(phase[d]) <= PhaseRank(phase'[d])
                       /\ AttemptRank(attempt[d]) <= AttemptRank(attempt'[d])
  BY <1>1, <1>3, Stays
<1>5. \A t \in Threads :
        call[t] # None /\ call'[t] = call[t] => PlaceRank(pc[t]) <= PlaceRank(pc'[t])
  BY Stays
<1> QED BY <1>1, <1>4, <1>5 DEF NoneBack, OneFurther

(* A step of a connection attempt, and of nothing else.                    *)
LEMMA LaterAttempt ==
  ASSUME TypeOK, NEW c \in Calls, NEW a \in Attempt,
         attempt' = [attempt EXCEPT ![c] = a],
         AttemptRank(attempt[c]) < AttemptRank(a), UNCHANGED phase,
         \A t \in Threads : call[t] # None /\ call'[t] = call[t] =>
                              PlaceRank(pc[t]) <= PlaceRank(pc'[t])
  PROVE  NoneBack /\ OneFurther
<1>1. \A d \in Calls : attempt'[d] = IF d = c THEN a ELSE attempt[d]
  BY DEF TypeOK
<1>2. AttemptRank(attempt[c]) \in Int /\ AttemptRank(a) \in Int
  <2>1. attempt[c] \in Attempt
    BY DEF TypeOK
  <2> QED BY <2>1, RankTypes
<1>3. AttemptRank(attempt[c]) <= AttemptRank(a)
  BY <1>2
<1>4. \A d \in Calls : /\ PhaseRank(phase[d]) <= PhaseRank(phase'[d])
                       /\ AttemptRank(attempt[d]) <= AttemptRank(attempt'[d])
  BY <1>1, <1>3, Stays
<1> QED BY <1>1, <1>4 DEF NoneBack, OneFurther

(* A step of a thread inside its call, and of nothing else.                *)
LEMMA LaterPlace ==
  ASSUME TypeOK, NEW t \in Threads, NEW l \in PC, Goto(t, l),
         PlaceRank(pc[t]) < PlaceRank(l), call[t] # None,
         UNCHANGED <<call, phase, attempt>>
  PROVE  NoneBack /\ OneFurther
<1>1. \A u \in Threads : pc'[u] = IF u = t THEN l ELSE pc[u]
  BY DEF Goto, TypeOK
<1>2. PlaceRank(pc[t]) \in Int /\ PlaceRank(l) \in Int
  <2>1. pc[t] \in PC
    BY DEF TypeOK
  <2> QED BY <2>1, RankTypes
<1>3. PlaceRank(pc[t]) <= PlaceRank(l)
  BY <1>2
<1>4. \A u \in Threads : PlaceRank(pc[u]) <= PlaceRank(pc'[u])
  BY <1>1, <1>3, Stays
<1>5. PlaceRank(pc[t]) < PlaceRank(pc'[t])
  BY <1>1
<1>6. \A d \in Calls : /\ PhaseRank(phase[d]) <= PhaseRank(phase'[d])
                       /\ AttemptRank(attempt[d]) <= AttemptRank(attempt'[d])
  BY Stays
<1> QED BY <1>4, <1>5, <1>6 DEF NoneBack, OneFurther

(* Calls are taken forward and never back: with HangsOnlyExhaustedHolds,   *)
(* all that fairness has to add for EveryFetchEnds is that a step that can *)
(* be taken is taken.                                                      *)
THEOREM OnlyForwardHolds == Spec => OnlyForward
<1>0. /\ PhaseRank("unsent") = 0 /\ PhaseRank("calling") = 1
      /\ PhaseRank("wire") = 2 /\ PhaseRank("replyjob") = 3
      /\ PhaseRank("done") = 4 /\ PhaseRank("threw") = 4
      /\ PhaseRank("parsing") = 4
  BY DEF PhaseRank
<1>1. /\ AttemptRank("none") = 0 /\ AttemptRank("opening") = 1
      /\ AttemptRank("upjob") = 2 /\ AttemptRank("failjob") = 2
      /\ AttemptRank("up") = 3 /\ AttemptRank("failed") = 3
  BY DEF AttemptRank
<1>2. /\ PlaceRank("connect") = 1 /\ PlaceRank("wait") = 2
      /\ PlaceRank("assign") = 3 /\ PlaceRank("return") = 4
      /\ PlaceRank("obtained") = 5 /\ PlaceRank("dead") = 6
  BY DEF PlaceRank
<1>3. ASSUME Inv, Next
      PROVE  NoneBack /\ (Progress => OneFurther \/ \E w \in Workers : CallbackReturn(w))
  <2>0. TypeOK /\ "unsent" \in Phase
    BY <1>3 DEF Inv, Phase
  <2>1. ASSUME NEW t \in Threads, NEW c \in Calls, FetchAll(t, c)
        PROVE  NoneBack /\ OneFurther
    <3>1. call[t] = None /\ \A u \in Threads \ {t} : pc'[u] = pc[u]
      BY <1>3, <2>0, <2>1 DEF FetchAll, Goto, Inv, ThreadInv, TypeOK
    <3>2. /\ Proceed(c, "calling") /\ "calling" \in Phase /\ UNCHANGED attempt
          /\ phase[c] = "unsent"
      BY <2>1 DEF FetchAll, Phase, connects
    <3>3. PhaseRank(phase[c]) < PhaseRank("calling")
      BY <1>0, <3>2
    <3> QED BY <2>0, <3>1, <3>2, <3>3, LaterPhase
  <2>2. ASSUME NEW t \in Threads, ThreadStep(t)
        PROVE  NoneBack /\ OneFurther
    <3>1. pc[t] \in InCall
      BY <2>2 DEF ThreadStep, ConnectRemote, NoAddress, BeginAssign, EndAssign,
                  ReturnConn, Crash, FetchNothing, Request, InCall
    <3>2. PICK c \in Calls : c = call[t] /\ phase[c] = "calling" /\ c # None
      BY <1>3, <3>1, InCallFacts, CallsAssumption
    <3>3. CASE ConnectRemote(t)
      <4>1. /\ attempt' = [attempt EXCEPT ![c] = "opening"] /\ "opening" \in Attempt
            /\ attempt[c] = "none" /\ UNCHANGED phase
        BY <1>3, <3>2, <3>3 DEF ConnectRemote, Inv, AttemptInv, Attempt, requests
      <4>2. \A u \in Threads : pc'[u] = IF u = t THEN "wait" ELSE pc[u]
        BY <2>0, <3>3 DEF ConnectRemote, Goto, TypeOK
      <4>3. PlaceRank(pc[t]) <= PlaceRank("wait")
        BY <1>2, <3>3 DEF ConnectRemote
      <4>4. \A u \in Threads : PlaceRank(pc[u]) <= PlaceRank(pc'[u])
        BY <2>0, <4>2, <4>3, Stays
      <4>5. AttemptRank(attempt[c]) < AttemptRank("opening")
        BY <1>1, <4>1
      <4> QED BY <2>0, <4>1, <4>4, <4>5, LaterAttempt
    <3>4. CASE NoAddress(t) \/ FetchNothing(t) \/ Request(t)
      <4>1. /\ \E p \in {"threw", "done", "wire"} : Proceed(c, p)
            /\ UNCHANGED attempt
        BY <3>2, <3>4 DEF NoAddress, FetchNothing, Request, connects
      <4>2. \A u \in Threads : u # t => pc'[u] = pc[u]
        BY <2>0, <3>4 DEF NoAddress, FetchNothing, Request, Leave, Goto, TypeOK
      <4>3. call'[t] = None
        BY <2>0, <3>4 DEF NoAddress, FetchNothing, Request, Leave, TypeOK
      <4>4. \A p \in {"threw", "done", "wire"} :
              p \in Phase /\ PhaseRank(phase[c]) < PhaseRank(p)
        BY <1>0, <3>2 DEF Phase
      <4>5. \A u \in Threads : call[u] # None => call'[u] # call[u] \/ pc'[u] = pc[u]
        BY <4>2, <4>3
      <4> QED BY <2>0, <4>1, <4>4, <4>5, LaterPhase
    <3>5. CASE BeginAssign(t) \/ EndAssign(t) \/ ReturnConn(t)
      <4>1. \E l \in {"assign", "return", "obtained"} :
              Goto(t, l) /\ l \in PC /\ PlaceRank(pc[t]) < PlaceRank(l)
        BY <1>2, <3>5 DEF BeginAssign, EndAssign, ReturnConn, PC
      <4>2. UNCHANGED <<call, phase, attempt>> /\ call[t] # None
        BY <3>2, <3>5 DEF BeginAssign, EndAssign, ReturnConn, connects, requests
      <4> QED BY <2>0, <4>1, <4>2, LaterPlace
    <3>6. CASE Crash(t)
      <4>1. /\ \A u \in Threads : pc'[u] = "dead"
            /\ UNCHANGED <<call, phase, attempt>>
            /\ pc[t] \in {"assign", "return"}
        BY <3>6 DEF Crash, connects, requests
      <4>2. ASSUME NEW u \in Threads PROVE PlaceRank(pc[u]) <= PlaceRank(pc'[u])
        <5>1. pc[u] \in PC
          BY <2>0 DEF TypeOK
        <5>2. PlaceRank(pc[u]) \in 0..6
          BY <5>1, RankTypes
        <5> QED BY <1>2, <4>1, <5>2
      <4>3. PlaceRank(pc[t]) < PlaceRank(pc'[t])
        BY <1>2, <4>1
      <4>4. \A d \in Calls : /\ PhaseRank(phase[d]) <= PhaseRank(phase'[d])
                             /\ AttemptRank(attempt[d]) <= AttemptRank(attempt'[d])
        BY <2>0, <4>1, Stays
      <4> QED BY <3>2, <4>1, <4>2, <4>3, <4>4 DEF NoneBack, OneFurther
    <3> QED BY <2>2, <3>3, <3>4, <3>5, <3>6 DEF ThreadStep
  <2>3. ASSUME NEW c \in Calls, CallStep(c)
        PROVE  NoneBack /\ OneFurther
    <3>1. CASE ConnectResult(c) \/ SetPromise(c)
      <4>1. \E a \in {"upjob", "failjob", "up", "failed"} :
              /\ attempt' = [attempt EXCEPT ![c] = a] /\ a \in Attempt
              /\ AttemptRank(attempt[c]) < AttemptRank(a)
        BY <1>1, <2>0, <3>1 DEF ConnectResult, SetPromise, Attempt, TypeOK
      <4>2. UNCHANGED <<phase, pc>>
        BY <3>1 DEF ConnectResult, SetPromise, requests, threads
      <4>3. \A t \in Threads : PlaceRank(pc[t]) <= PlaceRank(pc'[t])
        BY <2>0, <4>2, Stays
      <4> QED BY <2>0, <4>1, <4>2, <4>3, LaterAttempt
    <3>2. CASE RequestResult(c)
      <4>1. /\ Proceed(c, "replyjob") /\ "replyjob" \in Phase
            /\ PhaseRank(phase[c]) < PhaseRank("replyjob")
        BY <1>0, <3>2 DEF RequestResult, Phase
      <4>2. UNCHANGED <<attempt, pc>>
        BY <3>2 DEF RequestResult, connects, threads
      <4> QED BY <2>0, <4>1, <4>2, LaterPhase
    <3>3. ASSUME NEW w \in Workers, RunReply(w, c) PROVE NoneBack /\ OneFurther
      <4>1. /\ Proceed(c, "done") /\ "done" \in Phase
            /\ PhaseRank(phase[c]) < PhaseRank("done")
        BY <1>0, <3>3 DEF RunReply, Phase
      <4>2. \A t \in Threads : t # w => pc'[t] = pc[t]
        BY <2>0, <3>3 DEF RunReply, Goto, TypeOK
      <4>3. call[w] = None /\ UNCHANGED attempt
        BY <1>3, <3>3 DEF RunReply, Inv, ThreadInv, Threads, connects
      <4> QED BY <2>0, <4>1, <4>2, <4>3, LaterPhase
    <3>4. ASSUME NEW w \in Workers, ParseOverrun(w, c) PROVE NoneBack /\ OneFurther
      <4>1. /\ \A d \in Calls : phase'[d] = IF d = c THEN "parsing" ELSE phase[d]
            /\ PhaseRank(phase[c]) < PhaseRank("parsing")
            /\ UNCHANGED <<call, attempt>> /\ \A t \in Threads : pc'[t] = "dead"
        BY <1>0, <2>0, <3>4 DEF ParseOverrun, Proceed, TypeOK, connects
      <4>2. PhaseRank(phase[c]) <= PhaseRank("parsing")
        BY <1>0, <3>4 DEF ParseOverrun
      <4>3. \A d \in Calls : /\ PhaseRank(phase[d]) <= PhaseRank(phase'[d])
                             /\ AttemptRank(attempt[d]) <= AttemptRank(attempt'[d])
        BY <2>0, <4>1, <4>2, Stays
      <4>4. ASSUME NEW t \in Threads PROVE PlaceRank(pc[t]) <= PlaceRank(pc'[t])
        <5>1. pc[t] \in PC
          BY <2>0 DEF TypeOK
        <5>2. PlaceRank(pc[t]) \in 0..6
          BY <5>1, RankTypes
        <5> QED BY <1>2, <4>1, <5>2
      <4> QED BY <4>1, <4>3, <4>4 DEF NoneBack, OneFurther
    <3> QED BY <2>3, <3>1, <3>2, <3>3, <3>4 DEF CallStep
  <2>4. ASSUME NEW w \in Workers, CallbackReturn(w) PROVE NoneBack
    <3>1. UNCHANGED <<phase, attempt>>
      BY <2>4 DEF CallbackReturn, connects, requests
    <3>2. call[w] = None /\ \A t \in Threads : t # w => pc'[t] = pc[t]
      BY <1>3, <2>0, <2>4 DEF CallbackReturn, Goto, Inv, ThreadInv, TypeOK, Threads
    <3> QED BY <2>0, <3>1, <3>2, Stays DEF NoneBack
  <2>5. ASSUME UNCHANGED <<phase, attempt, pc>> PROVE NoneBack
    BY <2>0, <2>5, Stays DEF NoneBack
  <2>6. CASE Progress
    BY <2>2, <2>3, <2>4, <2>6 DEF Progress
  <2>7. CASE ~Progress
    <3>1. \/ \E t \in Threads, c \in Calls : FetchAll(t, c)
          \/ UNCHANGED <<phase, attempt, pc>>
      BY <1>3, <2>7 DEF Next, Progress, SeedNodes, CreateNodeFetcher, Break,
                       threads, connects, requests
    <3> QED BY <2>1, <2>5, <2>7, <3>1
  <2> QED BY <2>6, <2>7
<1> QED BY <1>3, InvHolds, PTL DEF Spec, OnlyForward
===============================================================================
