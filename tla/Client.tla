--------------------------------- MODULE Client --------------------------------
(***************************************************************************)
(* The client of tests/onionrequest.cpp: it fetches the node list, stores  *)
(* it in its path selector, makes one onion, sends it and waits for its    *)
(* exit promise.  The selector is PathSelection; the fetcher and the       *)
(* transport are what RequestContract says of them: a callback with a      *)
(* result or with nothing.                                                 *)
(*                                                                         *)
(* The client's own Transport_CURL posts the onion and calls the response  *)
(* handler before SendPayload returns.  The library's Transport_OMQ, which *)
(* can be used in its place, connects before it returns, and calls the     *)
(* handler from an OxenMQ worker, or by itself if there is no connection.  *)
(***************************************************************************)
EXTENDS Integers, Sequences

CONSTANTS
  Identity, Contact, DefaultHopLength, MaxEdges, MaxList,  \* of PathSelection
  NoKey,       \* contact data with the null key for onions
  MaxSignals,  \* bound: SIGINT and SIGTERM that arrive
  Unset,       \* a promise without a value
  None         \* nullopt, or not yet

ASSUME ConstantsAssumption ==
  /\ DefaultHopLength \in Nat \ {0} /\ MaxEdges \in Nat \ {0} /\ MaxList \in Nat
  /\ MaxSignals \in Nat
  /\ None \notin {"0", "1", "terminated", "undefined"}
  /\ Unset # None /\ Unset \notin [identity : Identity, contact : Contact]

VARIABLES
  snodelist, edges, path, crashed, used,  \* of PathSelection
  transport, \* the transport that is used
  main,      \* what the main thread does
  remote,    \* the promise _remote
  exit,      \* the promise _exit_promise
  fetch,     \* the fetch of the node list
  request,   \* the onion request
  payload,   \* the onion in sendOnion's frame exists
  signals,   \* history: signals that have arrived
  ended      \* how the process ended

Selector == INSTANCE PathSelection

selector == <<snodelist, edges, path, crashed, used>>

vars == <<selector, transport, main, remote, exit, fetch, request, payload, signals, ended>>

Async == transport = "omq"

Running == ended = None

Init ==
  /\ Selector!Init
  /\ transport \in {"curl", "omq"}
  /\ main = "start" /\ remote = Unset /\ exit = None
  /\ fetch = "none" /\ request = "none" /\ payload = FALSE
  /\ signals = 0 /\ ended = None

-------------------------------------------------------------------------------
(* An exception in the main thread, or in a signal handler, ends the       *)
(* process; OxenMQ catches those of its jobs.                              *)
Throw(inJob) == IF inJob THEN UNCHANGED <<exit, ended>>
                         ELSE ended' = "terminated" /\ UNCHANGED exit

(* Wrong variants, for mutation only: a second value is ignored, and a     *)
(* failure sets no value.                                                  *)
set_exit_once(code, inJob) ==
  /\ exit' = IF exit = None THEN code ELSE exit
  /\ UNCHANGED ended

set_exit_on_success(code, inJob) ==
  /\ exit' = IF exit = None /\ code = "0" THEN code ELSE exit
  /\ UNCHANGED ended

(* _exit_promise.set_value(code)                                           *)
set_exit(code, inJob) ==
  IF exit = None THEN exit' = code /\ UNCHANGED ended ELSE Throw(inJob)

_handle_signal ==
  /\ Running /\ signals < MaxSignals
  /\ signals' = signals + 1
  /\ set_exit("0", FALSE)
  /\ UNCHANGED <<selector, transport, main, remote, fetch, request, payload>>

(* refreshNodeList: FetchAll calls back at once when there is no           *)
(* connection.                                                             *)
RefreshNodeList ==
  /\ Running /\ main = "start"
  /\ main' = "waitlist"
  /\ \/ fetch' = "wire" /\ UNCHANGED remote
     \/ fetch' = "done" /\ remote' = None
  /\ UNCHANGED <<selector, transport, exit, request, payload, signals, ended>>

(* Wrong variant, for mutation only: the remote is set first.              *)
UseLater(list) ==
  remote' = list[1] /\ UNCHANGED selector

(* The list is stored first.                                               *)
Use(list) ==
  Selector!StoreNodeList(list) /\ UNCHANGED remote

(* The callback of FetchAll on a worker ...                                *)
GotNodeList ==
  /\ Running /\ fetch = "wire"
  /\ \E list \in Selector!NodeList :
       IF list = << >> THEN remote' = None /\ fetch' = "done" /\ UNCHANGED selector
                       ELSE Use(list) /\ fetch' = "stored"
  /\ UNCHANGED <<transport, main, exit, request, payload, signals, ended>>

(* ... which then sets the remote: pick_random_from has picked the first   *)
(* node of the list.                                                       *)
SetRemote ==
  /\ Running /\ fetch = "stored"
  /\ fetch' = "done" /\ remote' = snodelist[1]
  /\ UNCHANGED <<selector, transport, main, exit, request, payload, signals, ended>>

(* A list with an odd key ends the process as it is parsed, as NodeFetcher *)
(* has it.                                                                 *)
ListOverrun ==
  /\ Running /\ fetch = "wire"
  /\ ended' = "terminated"
  /\ UNCHANGED <<selector, transport, main, remote, exit, fetch, request, payload,
                 signals>>

(* There is no remote, or the key on the command line has another length.  *)
ReturnEarly ==
  /\ Running /\ main = "waitlist" /\ remote # Unset
  /\ ended' = "1"
  /\ UNCHANGED <<selector, transport, main, remote, exit, fetch, request, payload,
                 signals>>

(* sendOnion up to MakeOnion.  MaybeSelectHopsTo always returns a path, so *)
(* the branch without hops is never taken.                                 *)
SelectHops ==
  /\ Running /\ main = "waitlist" /\ remote \notin {Unset, None}
  /\ main' = "selected"
  /\ Selector!MaybeSelectHopsTo
  /\ UNCHANGED <<transport, remote, exit, fetch, request, payload, signals, ended>>

Keyless == \E i \in DOMAIN path : path[i].contact = NoKey

(* MakeOnion throws for a hop without a key.                               *)
MakeOnionThrows ==
  /\ Running /\ main = "selected" /\ Keyless
  /\ ended' = "terminated"
  /\ UNCHANGED <<selector, transport, main, remote, exit, fetch, request, payload,
                 signals>>

MakeAndSend ==
  /\ Running /\ main = "selected" /\ ~Keyless
  /\ main' = "sending" /\ payload' = TRUE
  /\ request' = IF Async THEN "connecting" ELSE "wire"
  /\ UNCHANGED <<selector, transport, remote, exit, fetch, signals, ended>>

(* ObtainConnectionTo of Transport_OMQ, in the main thread: a connection,  *)
(* none, or an address that is none.                                       *)
Connected ==
  /\ Running /\ request = "connecting"
  /\ request' = "wire"
  /\ UNCHANGED <<selector, transport, main, remote, exit, fetch, payload, signals, ended>>

NoConnection ==
  /\ Running /\ request = "connecting"
  /\ request' = "done"
  /\ set_exit("1", FALSE)
  /\ UNCHANGED <<selector, transport, main, remote, fetch, payload, signals>>

NoAddress ==
  /\ Running /\ request = "connecting"
  /\ ended' = "terminated"
  /\ UNCHANGED <<selector, transport, main, remote, exit, fetch, request, payload,
                 signals>>

(* Wrong variant, for mutation only: SendPayload returns at once.          *)
answered_or_not == TRUE

(* When SendPayload returns.                                               *)
answered == request = "done" \/ (Async /\ request = "wire")

(* sendOnion returns, and its locals are gone.                             *)
SendReturns ==
  /\ Running /\ main = "sending" /\ answered
  /\ main' = "wait" /\ payload' = FALSE
  /\ UNCHANGED <<selector, transport, remote, exit, fetch, request, signals, ended>>

NoResponse ==
  /\ Running /\ request = "wire"
  /\ request' = "done"
  /\ set_exit("1", Async)
  /\ UNCHANGED <<selector, transport, main, remote, fetch, payload, signals>>

(* A response goes to the decrypter, which refers to the payload, and on   *)
(* to the handler: it is printed, not decrypted, or no json.               *)
Response ==
  /\ Running /\ request = "wire"
  /\ request' = "done"
  /\ IF payload
       THEN set_exit("0", Async) \/ set_exit("1", Async) \/ Throw(Async)
       ELSE ended' = "undefined" /\ UNCHANGED exit
  /\ UNCHANGED <<selector, transport, main, remote, fetch, payload, signals>>

Exit ==
  /\ Running /\ main = "wait" /\ exit # None
  /\ ended' = exit
  /\ UNCHANGED <<selector, transport, main, remote, exit, fetch, request, payload,
                 signals>>

-------------------------------------------------------------------------------
AnswerArrives == NoResponse \/ Response

(* What comes by itself: all but the end of a post.                        *)
Progress ==
  \/ RefreshNodeList \/ GotNodeList \/ SetRemote \/ ListOverrun \/ ReturnEarly
  \/ SelectHops \/ MakeOnionThrows \/ MakeAndSend
  \/ Connected \/ NoConnection \/ NoAddress \/ SendReturns
  \/ Async /\ AnswerArrives
  \/ Exit

Next == Progress \/ (~Async /\ AnswerArrives) \/ _handle_signal

(* Threads are scheduled, and OxenMQ's requests come to an end.  The       *)
(* client's post has no timeout.                                           *)
Spec == Init /\ [][Next]_vars /\ WF_vars(Progress)

-------------------------------------------------------------------------------
(* _handle_signal promises exit code 0, but with the client's transport a  *)
(* signal never leads there: before the reply it makes the handler's       *)
(* set_value throw, after it the handler has set the promise, and the one  *)
(* of the signal throws.                                                   *)
ZeroMeansNoSignal == ~Async /\ ended = "0" => signals = 0

(* The client selects a path only from a list with nodes, which the        *)
(* selector does not check, and the remote is one of them.                 *)
SelectsFromNodes ==
  main = "waitlist" /\ remote \notin {Unset, None} =>
    \E i \in DOMAIN snodelist : snodelist[i] = remote

(* MakeDecrypter's closure refers to the payload in sendOnion's frame: a   *)
(* response is decrypted after sendOnion has returned, and by a payload    *)
(* that does not exist any more, only with the library's transport.        *)
PayloadInScope == ended = "undefined" => Async /\ main = "wait"

(* With its own transport the client ends, by its exit promise, early or   *)
(* by an exception, unless its post never does; signals may arrive at any  *)
(* time.                                                                   *)
Ends ==
  ~Async => <>(ended # None) \/ <>[](main = "sending" /\ request = "wire")
===============================================================================
