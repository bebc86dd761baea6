# A TLA+ development for libonionrequests

libonionrequests is a C++ library that lets a client send a request to a
service node, or to a server behind one, through several service nodes, none of
which learns both who asks and what is asked. This directory models the
library's own logic in TLA+, checks it with TLC on small instances and proves
the main results with TLAPS for all instances.

* `*.tla` without prefix: the models, one per component.
* `MC*.tla` and `*.cfg`: the instances TLC checks.
* `*Proofs.tla`: theorems and their proofs.
* `PROJECT.json`: components, runs, mutants, the map from definitions to source
  lines, findings, hazards and theorems, in machine-readable form.

## 1. Inventory

### Components, their state and operations

| Component | Source | State | Operations |
|---|---|---|---|
| Path selection | `onionreq/consensus.{hpp,cpp}` `PathSelection_Default` | `_snodelist`, `_edges`, one mutex | `StoreNodeList`, `MaybeSelectHopsTo`; `OnionPathFailed` and `OnionPathSuccess` do nothing |
| Random choice | `onionreq/random.hpp` | none | `pick_random`, `pick_random_from` |
| Transport | `onionreq/transport.{hpp,cpp}` `Transport_OMQ` | `_edges` (a connection per identity), one mutex | `SendPayload`, `ObtainConnectionTo`, three callbacks |
| Onion maker | `onionreq/onion_maker.{hpp,cpp}` | none of its own; locals of `MakeOnion`, and the key pair its closure keeps | `MakeOnion`, `maybeDecryptResponse` |
| Junk parser | `onionreq/junk.{hpp,cpp}` | the node's key pair | `ParseJunk`, `transformReply` |
| Channel encryption | `onionreq/channel_encryption.{hpp,cpp}` | a key pair and the side it is on | `encrypt`, `decrypt` in three schemes |
| Onion path and payload | `onionreq/onion.hpp` | hops, remote; ciphertext, path, decrypter | `Edge`, `MakeDecrypter` |
| Node list fetcher | `onionreq/consensus.cpp` `OxenMQ_NodeFetcher_JSON` | `_seeds`, `_conn` (no mutex) | `FetchAll`, `Fetch`, `ObtainConnection`, `ParseNodeList` |
| Consensus factory | `onionreq/consensus.cpp` `Consensus_Direct` | `_seeds` | `SeedNodes`, `CreateNodeFetcher`, `CreatePathSelector` |
| Key types | `onionreq/key_types.{hpp,cpp}` | none | loading from hex, base64, base32z and bytes; public keys of secret keys |
| Node and SOGS info | `onionreq/snode_info.*`, `sogs_info.*` | value types | loading from json, equality, addresses, control data |
| Signatures | `onionreq/signature.*` | none | `generate_signature`, `check_signature`, loading; `cn_fast_hash` aborts the process |
| XEd25519 | `onionreq/signal-xed25519.*`, `pybind/xed25519.cpp` | none | sign, verify, convert a key |
| Example client | `tests/onionrequest.cpp` | exit promise, node list promise | refresh the list, send one onion |
| Python binding | `pybind/` | the OxenMQ object of a consensus, wrapped library objects, the interpreter lock | `fetch_all`, `parse_junk`, `Direct`, destructors, conversions |
| Other bindings, build | `CMakeLists.txt` | none | none of the library's logic |

### How they interact

The application asks the fetcher for the node list and stores it in the path
selector. For a request it takes a path from the selector, gives payload and
path to the onion maker, and gives the resulting onion, with a response handler,
to the transport. The transport obtains a connection to the path's first hop
from OxenMQ and sends the onion; OxenMQ calls back on its worker threads, and the
response handler gives the reply to the onion's decrypter. On each hop a storage
server uses the junk parser to take one layer off, forwards what is inside
or, on the last hop, answers through `transformReply`.

### What is hard here

* *Concurrency.* `SendPayload` can run on any number of threads, holds the
  mutex only around the two accesses to the cache, and blocks in between until a
  callback on another thread sets a promise on its stack. A response handler
  that sends again does this on one of the workers that run the callbacks. The
  fetcher caches its connection with no mutex at all.
* *History.* The path selector's behaviour changes once it has used four
  first hops, and it never forgets them; it takes several lists and selections
  to see the effect.
* *Nesting.* `MakeOnion` works from the last hop to the first and reuses the
  same variables for every ephemeral key pair: which key is written where
  depends on the order of three statements.
* *Failure.* Connection attempts and requests fail, packets and replies
  arrive twice, late or at the wrong place, an exception leaves `MakeOnion` in
  the middle of its loop, a node list is empty.
* *Boundaries.* 32 bit size fields, lengths that become an int, ciphertexts shorter than their
  nonce, key strings of unusual length, private keys that are not clamped.
* *Lifetimes.* Callbacks refer to a promise on a stack, to the payload that made
  them, to the fetcher, and through it to the OxenMQ object of the consensus. The
  Python binding decides when the last two go, with the interpreter lock held.

The hazards, each at its line and with the properties that cover it, are in
`PROJECT.json`.

### What makes each component correct

* Path selection: few first hops over time, nodes not repeated on a path, hops
  from the current list, a defined answer when there are none.
* Transport: each handler called exactly once, unless the call throws; one connection per node is
  used; callbacks find their promise; threads do not wait for ever.
* Onion maker, junk parser, channel encryption: each layer is opened by its hop
  and no other node, which learns what it needs and no more; the client accepts
  the reply of its last hop and nothing else.
* Fetcher: one callback per call, no torn state between calls, a dead seed
  does not block the others.
* Framing and keys: an onion is routed as a whole or refused, nothing is read or
  written out of bounds, a key is loaded as a whole or not at all.
* Signatures: what is signed verifies.
* Client: it ends, unless its post never does, with an exit code that says what happened; it
  uses its list, its payload and its promises in order.
* Python binding: one callback per fetch; no object is used after it was
  destroyed; no thread waits for the interpreter lock for ever.

## 2. Models

### `Random`, `PathSelection`

A C++ container is the sequence of its elements in iteration order.
`sample` (std::sample) is the set of its results: on forward iterators it keeps
the order of the population, so `pick_random`, which samples the whole range and
takes the first element, has one result only. `insert` into an `unordered_set`
may change the iteration order in any way when it adds an element, and does
nothing when an equal one (same identity) is there.

State: `snodelist`, `edges`, the `path` returned last, `crashed`, and the history
`used` of the first hops. All accesses of an operation to the containers are
under one lock, so `StoreNodeList` and `MaybeSelectHopsTo` are one action each.
`SelectFromEmptyList` is `MaybeSelectHopsTo` with nothing to sample: it evaluates
`hops[0]` of an empty vector, which ends the process.
`OnionPathFailed` and `OnionPathSuccess` change nothing and are no actions.

### `Transport`, `RequestContract`

`RequestContract` is what a caller of `SendPayload` relies on: the handler of a
request that was sent is called once, with a body or with nullopt.
`Transport` implements it (`Contract`, with `sent` the requests that are not
"unsent").

A thread goes through `SendPayload` in steps that end where it releases the
mutex or blocks:

| Action | Code |
|---|---|
| `SendPayload` | call, first critical section of `ObtainConnectionTo` |
| `ConnectRemote` | `connect_remote`, then `ftr.get()` |
| `NoAddress` | the node's IP address, unchecked json, is none: `oxenmq::address` throws and the exception leaves `SendPayload` without a call of the handler |
| `Connected` | `ftr.get()` has a connection: `emplace`, use what is in the map |
| `ConnectFailed` | nullopt: the handler is called from `SendPayload` |
| `Request` | `_mq.request`, return |
| `SetPromise`, `RunReply` | the callbacks, on an idle worker |
| `ConnectResult`, `RequestResult`, `HandlerReturn` | OxenMQ, external |

A call makes at most one attempt, so the attempt, its promise and its
`ConnectionID` go by the name of the request. A handler called by
`ConnectFailed` has the rest of the thread's time: what it sends is a further
`SendPayload` of the same thread. Setting the promise is one step; so is waking
up from it. `Break` is a peer that goes away: a broken connection fails what is
sent over it, and stays cached.

### `NodeFetcher`

`SeedNodes` and `CreateNodeFetcher` are the consensus object; the fetcher keeps its
own constant copy of the seeds, in an iteration order that is chosen once.
`FetchAll` reads and writes `_conn` without a lock, so a step of the model ends at each access:

| Action | Code |
|---|---|
| `FetchAll` | call, the test of `_conn` |
| `ConnectRemote`, `NoAddress` | pick a seed and connect to it; there is none, or it is no address: an exception leaves `FetchAll` |
| `BeginAssign`, `EndAssign` | `_conn = ftr.get()`, which takes time |
| `ReturnConn` | `return _conn`, in either place |
| `FetchNothing`, `Request` | the two branches of `FetchAll` |
| `Crash` | a torn `ConnectionID` is copied or freed |
| `ParseOverrun` | a key of odd length is decoded |
| `SetPromise`, `RunReply` | the callbacks, on an idle worker |
| `ConnectResult`, `RequestResult`, `CallbackReturn` | OxenMQ, external |

A data race is a nondeterministic choice: an access that overlaps an assignment of another
thread sees the old value, the new one or a mixture (`Torn`), and so does what two overlapping
assignments leave (`Readable`, `Stored`); a mixture may crash the process or give a request that
fails. A failed attempt assigns nullopt and so drops what another thread has stored. As in
`Transport`, connections break while they are cached.

A reply is a document: no json, or a sequence of entries. A field is a proper value, text that
is too short or no hex (the key is indeterminate, so any key results; `Garbled`), one that makes
the constructor throw (`Bad`), or one with an odd number of characters (`Odd`). Of the last
`oxenc::from_hex` does not find the end, because it takes two characters at a time and nothing
asks `is_hex` first (`snode_info.cpp:13-16`): it reads and writes on until the process ends,
which is `ParseOverrun`. `ParseNodeList` is the set of lists that may result otherwise. `Fetch`
answers nullopt at once, changes no state and is no action. `FetchAll` implements the same
`RequestContract` as `SendPayload`, an empty list being its nullopt.

### `ChannelEncryption`, `OnionRequest`

Cryptography is ideal and symbolic. A key pair goes by one name; the x25519 secret
of two keys is the set of both; a ciphertext is the record of its scheme, its key and what
is inside; decryption succeeds with the same scheme and key and fails otherwise.
The order in which `xchacha20_shared_key` hashes the public keys is kept, because
both sides must agree on it. An operation that may throw yields the set of
its results, empty when it throws.

A framed blob alternates encryption and framing, so it is the sequence of its
layers from the outside. `MakeOnion` is `EncryptForLast`, `EncryptForHop` once per
turn of the loop, and `FinishOnion`; `ThrowForLast` and `ThrowForHop` are the
exception of `crypto_scalarmult` on the null key (nodes in `Keyless`). Splitting
it into steps lets several calls run at once. `Handle` is a hop
that calls `ParseJunk` on any packet ever sent and forwards or answers; packets
stay on the wire, so they are duplicated, delayed and delivered to any node.
`Respond` gives `maybeDecryptResponse` any reply made so far, as it is or in
base64, or something that is none.

### `OnionSizes`

`OnionRequest` has the contents of an onion and no lengths; `OnionSizes` has the lengths and no
contents. `layers` are the ciphertext sizes that `MakeOnion` produces (`InitOnion`,
`WrapForLast`, `WrapForHop`, `FinishOnion`), with the iv, tag and padding of each cipher.
`encode_size` keeps a size modulo `Limit`. The OpenSSL ciphers get the length of their input as
an `int` (`to_int`, `channel_encryption.cpp:139` and `:198`): from `IntLimit` on it is negative,
which OpenSSL refuses and the code turns into an exception, and from `Limit` on only the low
half of it is encrypted. The sodium cipher takes the length as it is. A hop parses (`Parse`),
splits the plaintext at its size field and forwards it (`Forward`) or handles the payload
(`Arrive`); `Reply` is a reply of any length in `maybeDecryptResponse`. Packets may be cut short
on the way, and `InitForeign` is a packet of any other sender: any length, any size field, json
at any place, any scheme. `decrypt` tells a read behind the end ("undefined") from an exception.

### `KeyForms`

A text is its length, the alphabets it belongs to and its padding; a loader
is the number of bytes it writes, an exception, or `Overrun`: `oxenc::from_hex` on an odd number
of characters, which only `LoadFromHex` lets through. All loaders of keys and
signatures are there: `parse_pubkey`, `load_from_hex`, `load_from_bytes`,
`LoadFromHex` of `SNodeInfo`, `signature::from_base64`, and the checks of the
Python binding.

### `Ed25519`, `Signatures`

`Ed25519` is libsodium's arithmetic over a cyclic group of `8 * L` elements with a prime `L`
between `2 U` and `4 U` (on the curve `U` is 2^251), which has what the code depends on: a
cofactor of 8, clamped scalars that are multiples of 8 with one high bit set, secret keys that
exceed the order, points that differ in their sign only. `sign`, `verify` and `pubkey` of
`signal-xed25519.cpp` are actions and operators of `Signatures`; the hash of `R`, `A` and the
message is a fresh random scalar for new arguments. A legacy operation yields the set of its
possible results: `cn_fast_hash` has none, because it aborts, so `generate_signature` has none,
and `check_signature` has one only where libsodium refuses an argument first.

### `Client`

`tests/onionrequest.cpp` from the first fetch to its exit code, with the path selector of
`PathSelection` inside (`Selector`), and with fetcher and transport as `RequestContract`
describes them. The main thread, the fetch callback on a worker, the response handler and the
signal handler are interleaved at the points where they touch the promises `_remote` and
`_exit_promise`. `transport` is the client's own `Transport_CURL`, whose `SendPayload` calls the
handler before it returns, or the library's `Transport_OMQ`, which connects in the main thread
(`Connected`, `NoConnection`, which calls the handler right there, `NoAddress`) and otherwise
calls the handler from a worker. An exception in the main thread or in a signal handler ends the
process; OxenMQ catches those of its jobs.

### `PyBinding`

Python threads share a `Direct` consensus, which owns the OxenMQ object, and a fetcher. `gil` is
the interpreter lock. `fetch_all` and `parse_junk` release it, the callback of a fetch takes it
on whatever thread it is called, and `DropConsensus` runs `~OxenMQ`, which joins its threads,
with it held. The Python function is held in pybind11's wrapper for `std::function`, which takes
the lock for a moment whenever it is copied or destroyed: `CopyCallback` for the capture in
`fetch_all` and for the one in `FetchAll`, `DestroyCallback` for the end of a worker's job,
after the function has returned (a Python exception that the job has caught is destroyed there
too). Which of OxenMQ's threads destroys the job does not matter: the destructor joins all of
them. A reply may have nodes, a body that does not parse (the fetcher is used for that too), a
key of odd length, or no body. The arguments of a call keep the fetcher alive (`InUse`) until
the call returns; nothing keeps the fetcher for a reply that is under way, nor the consensus for
the fetcher. The fetcher is the one of `NodeFetcher` with two simplifications: the seeds are
addresses, and `_conn` is accessed atomically (its races are the subject of `NodeFetcher`).
Callbacks run Python code and call none of the library's functions.

Wrong variants, marked "for mutation only", stand before the definition they vary.
No specification uses them; each shows that a property fails when the code
is changed that way.

## 3. Runs

| Run | Instance | Shows |
|---|---|---|
| `path_selection` | 3 nodes in 2 versions, lists of up to 3, paths of 2, 2 edges | `TypeOK`, `EdgeBudget`, `RepeatOnlyAtEdge`, `EdgePinned`, `OnlyStickyEdgeIsStale` hold |
| `path_selection_empty` | same | `NoHopsIsNotACrash` is violated (finding 1) |
| `transport` | 2 application threads, 1 worker, 2 requests to one node, a third from a handler to another | `TypeOK`, `SharedConnection`, `PromiseInScope`, `LeakBound`, `KeepsContract`, `UnreachableForGood`, `EndedUnlessExhausted` hold |
| `node_fetcher` | 2 application threads, 2 workers, 2 fetches, one of which a callback may make, two seeds or one that is no address, a document of each kind | `TypeOK`, `SerialUseIsSafe`, `OneSeedOnly`, `KeepsContract`, `StaleForGood`, `EmptyOrWhole`, `EveryFetchEnds` hold |
| `onion_request` | 4 nodes, one without a key; 2 concurrent requests; paths of 1, 2 and 4 hops, one with a repeated node, two with the node without a key; both schemes | `TypeOK`, `OnlyNextHopParses`, `HopsSeeTheirPart`, `ReplyAuthentic`, `GenuineReplyAccepted`, `ReachesLastHop` hold |
| `onion_sizes` | size fields modulo 40, ints up to 19, up to 3 hops, payloads up to 46 bytes, foreign packets and replies up to 30 | `FitsBuffer`, `AllOrNothing`, `InBounds` hold |
| `keys` | texts of up to 100 characters; a group of 40 points, all 64 private keys, 2 messages | `WithinTargetUnlessOddHex`, `VerifiesIfClampedKeyAgrees` hold |
| `keys_unclamped` | same | `EverySignatureVerifies` is violated (finding 2) |
| `keys_two_pads` | same | `NullUnlessKey` is violated (finding 3) |
| `keys_legacy` | same | `LegacyCallsReturn` is violated (finding 4) |
| `client` | 2 nodes with and without a key, lists of up to 2, 2 signals, both transports | `ZeroMeansNoSignal`, `PayloadInScope`, `SelectsFromNodes`, `Ends` hold |
| `py_binding` | 2 Python threads, 2 workers, 2 fetches | `UsedAfterDropOnly`, `StuckOnlyAfterDrop`, `KeepsContract`, `CalledUnlessDropped` hold |

*Why the bounds are enough to see the cases.* With three nodes, two edges and two versions of
each node, the edge set fills up, a full edge leaves the list, comes back or changes its data,
and a sticky edge is sampled again as a later hop. Two application threads race for one
connection, with the attempts failing and the connection breaking at any time, and one worker is
exhausted by one sending handler. `MaxParts` 2 covers no, one and more parts, which is what the
callback tells apart. Two threads and two fetches have two assignments to `_conn` overlap, and a
failed one empty what the other has stored; documents of two entries are enough for a repeated
identity, for an entry of each kind behind a good one, and for one that throws before one that
overruns. Two onions are enough to mix up keys, packets and replies; four hops are the library's
length, with a first, inner and last ones. `DefaultHopLength`, `MaxEdges` (4 and 4 in the
source), `MaxList` and `MaxParts` are parameters of the proofs, which hold for all their values.
With 3 hops and payloads up to 46 bytes the size fields of every layer, or of the outer ones
only, wrap around modulo 40, and a plaintext of any layer is negative as an int or, the
innermost, longer than `Limit`; foreign packets of 30 bytes are shorter and longer than prefix,
iv, tag and json together, and every size field below 40 meets every length. 100 characters are
more than the longest form of a key or a signature (88). `U = 2`, `L = 5` is the smallest group
with more than one clamped key; every hash value and every nonce is tried. In `client` a second
signal meets a promise that the first has set. In `py_binding` two workers let a callback wait
for the lock while another one holds it, and a second fetch uses the connection of the first or
is under way when an object is dropped.

*Deadlock* is not checked where the system may stop: the application need not
send, a process that evaluated `hops[0]` of an empty vector is gone, answered
requests stay answered, an exhausted worker pool is what
`EndedUnlessExhausted` excepts, and a destructor that waits for ever is what
`StuckOnlyAfterDrop` describes.

*Fairness.* `Transport!Fairness`: threads are scheduled; OxenMQ ends every connection attempt
and request, by a timeout if need be, and serves its jobs; handlers return. No fairness is
assumed of the application's decision to send, nor of connections breaking. When every worker is
inside a handler's `SendPayload`, nobody is left to run the connection callback:
`EndedUnlessExhausted` says that this is the only way for a request neither to be answered nor
to throw. `NodeFetcher!Fairness` is that of `Transport`; `EveryFetchEnds` has more workers than
fetches made from callbacks. `OnionRequest!FairSpec`: `MakeOnion` is straight-line code and goes
on; the network and the hops together process packets that they can process. Nothing is assumed
of replies. `Client!Spec`: some step of the process is taken as long as there is one other than
a signal and the end of the client's post. `cpr::Post` (`tests/onionrequest.cpp:54`) is called
without a timeout and libcurl has none of its own, so nothing is assumed of it, and `Ends`
excepts a post that never does; requests of the library's transport time out in OxenMQ.
`PyBinding!FairSpec`: threads are scheduled and OxenMQ's timeouts end its attempts and requests
(weak fairness); the interpreter hands its lock over on request, so that it comes round to every
thread that wants it, and Python callbacks return (strong fairness, because others take the lock
in between).

### Findings

1. `NoHopsIsNotACrash`: without nodes, `MaybeSelectHopsTo` evaluates `hops[0]` of an
   empty vector (`consensus.cpp:43`) where its type and the client's handling
   (`tests/onionrequest.cpp:194`) promise nullopt.
2. `EverySignatureVerifies`: `sign` takes the public point from the clamped private key and the
   secret scalar from the key as it is (`signal-xed25519.cpp:104`), so that a signature made
   with a key that is not clamped does not verify, where `signal-xed25519.hpp:9` promises a
   signature for "the curve25519 privkey".
3. `NullUnlessKey`: a base64 text of 44 characters that ends in `==` stands for 31
   bytes and is taken for a key (`key_types.cpp:86`), where `key_types.hpp:136` promises a null key
   for "wrong length or invalid encoding".
4. `LegacyCallsReturn`: `cn_fast_hash` aborts (`signature.cpp:33`), so no legacy signature is
   ever generated, and `check_signature` returns only where libsodium refuses an argument before
   the hash, where `signature.hpp:28` says "Generates a not-proper-Ed25519 Monero signature" and
   `signature.hpp:33` "Verifies".

### What the passing properties pin down

Several properties state exactly how far the code goes, where the interface
suggests more:

* `OnlyStickyEdgeIsStale`: once `_edges` is full the first hop comes from it
  (`consensus.cpp:41`), so a path can start at a node that has left the list, or with
  contact data and an onion key that are out of date; `consensus.hpp:53` calls the list "the
  nodes to choose from when doing path selection".
* `EdgePinned`: since `pick_random` is not random, once `MaxEdges` first hops have been used every
  later path starts at one and the same of them.
* `UnreachableForGood`, `StaleForGood`: a connection that broke stays cached; the node, or
  the seeds, cannot be reached any more by this transport or this fetcher.
* `SerialUseIsSafe`: as long as no two threads are inside `FetchAll`'s `ObtainConnection` at
  once, one connection is opened and used. Nothing in the interface says that a fetcher is
  not for concurrent use. `OneSeedOnly`: a fetcher with many seeds tries one only, dead or alive.
* `Fetch` answers nullopt for every identity (`consensus.cpp:159`), where `consensus.hpp:29`
  says "fetch just one service node inf by its public identity key"; the model has it so.
* `EndedUnlessExhausted`: a node whose `public_ip` is no address makes `SendPayload` throw; the
  handler of the request is then never called, and nothing of the call is left behind.
* `AllOrNothing`: with AES-GCM an onion of 4 GiB or more is neither refused nor delivered: the
  end of its innermost layer is not encrypted (`channel_encryption.cpp:139`), every hop passes
  it on, and the last one gets something else than the payload. With xchacha20 the first hop
  refuses it.
* `WithinTargetUnlessOddHex`, `EveryFetchEnds`: a key of odd length in a node list makes the
  decoder run through memory (`snode_info.cpp:16`). Short hex, and text that is no hex, leave a
  key indeterminate (`snode_info.cpp:13`); no doc promises otherwise, and no property speaks of
  it.
* `ZeroMeansNoSignal`: a signal makes one of two `set_value` calls throw, so that it never leads
  to the exit code 0 that `_handle_signal` sets.
* `Ends`: a first hop that accepts the client's post and stalls keeps the client for ever,
  whatever signals arrive.
* `PayloadInScope`: the closure of `MakeDecrypter` refers to its payload by `this`
  (`onion.hpp:54`); the client is safe with its own transport, and would not be with
  `Transport_OMQ`.
* `StuckOnlyAfterDrop`: dropping the consensus joins workers with the interpreter lock held, and
  a worker that is to call a Python function, or has called it and is to destroy it, waits for
  the lock: neither goes on. `UsedAfterDropOnly`: dropping fetcher or consensus with a fetch
  under way uses a destroyed object.

## 4. Proofs

All theorems hold for every value of the constants that satisfies the named assumptions of the
modules; they are safety properties proved from an inductive invariant (`InvHolds`; in
`KeyProofs` `LoadingInvHolds` and `SigningInvHolds`).

**`PathSelectionProofs`.** Assumptions: `DefaultHopLength` and `MaxEdges` are positive,
`MaxList` is a natural number. The invariant adds to the types that `edges` has at most
`MaxEdges` elements and that the identities ever used are exactly those in `edges`; without the
second part `EdgeBudget`, which speaks of the whole history, is not inductive. Lemmas: what
`sample` returns is in the order of the list (`SampleIsOrdered`), `pick_random` is the first
element (`PickIsFirst`), `insert` is a set insertion (`InsertIsSetInsert`). Proved:
`TypeCorrect`, `EdgeBudgetHolds`, `RepeatOnlyAtEdgeHolds`, `EdgePinnedHolds`,
`OnlyStickyEdgeIsStaleHolds`.

**`TransportProofs`.** Assumptions: threads and requests are different from `None`, application
threads are no workers, `Edge` maps requests to nodes. The invariant ties together what a
thread is doing and the phase of its request (`ThreadInv`, `RequestInv`), says that a
connection in use is the cached, established one to its node (`CacheInv`), and that the
requests that opened connections to one node have different callers (`OpenerInv`): a thread
connects only after it has missed the cache, and after it has connected once it never misses it
again. That is why the connections to a node have different callers (`LeakBoundHolds`) and, for
a finite set of threads, never exceed them (`ConnectionsBounded`). `WireInv` says that a
request that is sent goes over a connection and that replies are only there while they are
queued, which `UnreachableForGoodHolds` needs. Proved besides: `TypeCorrect`,
`SharedConnectionHolds`, `PromiseInScopeHolds` and the refinement `KeepsContractHolds`.

Of `EndedUnlessExhausted` the safety half is proved. `Stuck` names the states in which neither a
thread nor OxenMQ can take a step. `Ended` says of a request that its handler was called, or
that its call threw with nothing connected and nothing sent (`ThrewInv`). `CallInv` says that a
request that is not yet on the wire is the one its caller is in, that a call has no connection
until its attempt ends, and that workers make only the calls that handlers may make. From it: a
transport that is stuck with a request that has not ended has every worker waiting inside a
handler's `SendPayload` for a callback that is queued (`StuckOnlyExhaustedHolds`), which cannot
happen with more workers than requests that handlers may send (`PoolSuffices`).
`OnlyForwardHolds` is the other half of a termination argument: a request's `Rank`, at most 8,
never goes back, and each step of the transport takes one request further or returns from a
handler. What fairness adds, that a step that can be taken is taken, stays with TLC.

**`OnionRequestProofs`.** Assumptions: node names, key pair names, the null key and `None` are
different, paths are not empty, makers use one of the two authenticated schemes. The invariant
says that the layers wrapped so far are a `Chain`: each tells its hop the next hop and the key
for the next layer, the last is under the key pair saved for the reply; that a packet is a chain
that names its outermost key in the clear; that no two requests have the same saved key pair;
and that a reply is under the saved key pair of its request. The heart is `ChainGrows` (a turn
of the loop), `PeelPacket` (only the next hop parses, and gets a packet of the same kind) and
`DecryptBody` (a reply is accepted by its own request only), on top of `SameKeySameNode`,
`MeantNodeHasKey` and `SameKeySameClient` about the key derivations. Proved: `TypeCorrect`,
`OnlyNextHopParsesHolds`, `HopsSeeTheirPartHolds`, `ReplyAuthenticHolds`,
`GenuineReplyAcceptedHolds`, and `NoDeadEndHolds`, the safety half of `ReachesLastHop`: an onion
is given up only for a hop without a key, and one that was sent has arrived or is at a hop that
can open it and has not done so. It needs that only hops with a key are wrapped (`KeyInv`) and
that what a hop takes out goes back on the wire while it has layers (`RouteInv`); of the packets
of an onion the one with the fewest layers is the one to be opened next (`LeastNumber`, from
well-founded minima).

**`NodeFetcherProofs`.** Assumptions: application threads are no workers, calls and seeds are
different from `None`, `Docs` are sequences of entries or unparsable, and there are finitely
many seeds: with infinitely many `pick_random` would have no sample to take the first element
of. The invariant says which call a thread is in and that no two threads are in the same one
(`ThreadInv`), that a call connects once at most (`AttemptInv`), that exactly the finished calls
have been answered (`RequestInv`), and that a seed that was connected to is the first one of the
fetcher's copy (`SeedInv`). `SerialInv` is what `SerialUseIsSafe` rests on: as long as
`ObtainConnection` has not been entered twice at once, a thread that connects found `_conn`
empty and finds it so until it assigns; hence `_conn` is an established connection, and the only
other one there can be is the one about to be assigned. That `pick_random` always takes the
first seed is the lemma `IncreasingStartsAtOne` (an increasing map of `1..n` into itself is
onto). Of entries with the same identity a list keeps the last one; that there is a last one is
`LastIndex`, from the library's theorem that well-founded orders have minima. Proved:
`TypeCorrect`, `SerialUseIsSafeHolds`, `OneSeedOnlyHolds`, `StaleForGoodHolds`,
`EmptyOrWholeHolds`, and the refinement `KeepsContractHolds`, which holds with races on `_conn`
too. `CrashInvHolds` says that a process ends only over a race or over a key of odd length. The
safety half of `EveryFetchEnds` is argued as for the transport: short of a crash, calls hang
only where every worker waits in a callback's `FetchAll` for a job that only a worker can run
(`HangsOnlyExhaustedHolds`), and never with more workers than calls that callbacks may make
(`PoolSuffices`). Ranks for a call's phase, its attempt and the place of the thread in it show
that nothing is done over (`OnlyForwardHolds`), races on `_conn` included.

**`OnionSizesProofs`.** Assumptions (`LengthsAssumption`): the prefix, ivs and blocks have a
length, the authenticated schemes have a tag and no padding, CBC has no tag, and the json of a
packet has room for the text of its key, which is longer than CBC's iv; `Limit` is twice
`IntLimit`, and what AES-GCM adds to a layer is less than `IntLimit`. All the bounds are
arbitrary. The invariant says that sizes grow outwards, with AES-GCM from what the innermost
layer keeps of the payload, and that with AES-GCM no layer around it is cut, because a layer
shorter than `Limit` yields a plaintext that is either below `IntLimit` or negative as an int
(`LayersInv`), so that with xchacha20, if any size is too large for its field, the outermost is;
that a packet on its way is the frame of the layer for its hop or was cut short (`PacketInv`);
and that whatever has passed a hop fits (`FitInv`). `AllOrNothing` follows, because the first
hop reads a wrapped size as a smaller one and fails on the tag (`ParseOwn`). Proved:
`FitsBufferHolds`, `AllOrNothingHolds`, `InBoundsHolds`.

**`KeyProofs`**, about `KeyForms` and `Signatures`. For `KeyForms` there are lemmas for what
each kind of loader writes (`ParsePubkeyWrites`, `SignatureWrites`, `SizedLoadersWrite`); proved
for texts of any length: `WithinTargetUnlessOddHexHolds`, and `OnlyTwoPadsLoadNoKey`: finding 3
is the only form for which `parse_pubkey` yields neither a key nor the null key. For
`Signatures` the group is any one of the curve's shape (`OrderAssumption`): `L` is a prime
between `2 U` and `4 U`, and keys, clamping and the sign are relative to them; on the curve `U`
is 2^251. The invariant (`SigningInv`) says that a signature was made from some nonce and the
hash that is recorded for its `R`, `A` and message. Since `L` is odd it divides eight times a
number only if it divides the number (`NoEighth`): the clamped key is not a multiple of the
order (`Clamped`), so the public point is neither the identity nor its own negative, and
`verify` finds the point that `sign` used (`PublicPoint`). Secret scalar and public point agree
modulo `L` as far as key and clamped key do, with or without the negation (`KeysAgree`), and the
equation that `verify` checks comes down to that (`Verification`). Proved:
`VerifiesIfClampedKeyAgreesHolds` and its consequence `ClampedKeysVerify` (the header's promise
holds for clamped keys).

**`ClientProofs`.** Assumptions: `MaxSignals` and `MaxList` are natural numbers, `None` is none
of the exit codes, and the path selector's assumptions hold for what the client passes to it.
The invariant says when the remote is set and from which list (`ListInv`), that the payload
exists while `sendOnion` runs and with the client's transport until the answer (`RequestInv`),
and that until the answer only a signal sets the exit promise, while a client that survives the
answer had no signal (`SignalInv`). Proved for lists of any length and any number of signals:
`ZeroMeansNoSignalHolds`, `PayloadInScopeHolds`, `SelectsFromNodesHolds`, and `UsesSelector`:
the client refines `PathSelection!Spec`. The theorems of `PathSelectionProofs` are therefore
instantiated (`Selects`) and hold for a client's paths too, whatever its threads and signals do:
`ClientEdgeBudget` and `ClientEdgePinned`. The safety half of `Ends` is `HangsInTwoWaysHolds`: a
running client that cannot go on waits for the end of its post, or for an exit promise with the
library's transport, whose worker swallowed the exception of the handler that should have set
it.

**`PyBindingProofs`.** Assumptions: there are Python threads and workers, Python threads are no
workers, threads and fetches are different from `None`. The invariant ties what a thread does to
the state of its fetch (`PyInv`, `WorkerInv`), says that a function that is still to be called
has not been called (`AnswerInv`), that after the fetcher went no thread is in one of its calls
and what is under way was so when it went (`DropInv`), and that nothing happens after undefined
behaviour (`DeadInv`). Proved: `TypeCorrect`, `UsedAfterDropOnlyHolds`, and the refinement
`KeepsContractHolds`. `GilInv` says that the thread that holds the interpreter lock is in
Python, in a callback or in the destructor of the consensus, that only the holder is there, and
that a thread joins the workers exactly while they are told to quit. With it
`StuckOnlyAfterDropHolds` goes round the threads that may be waiting: a free lock can be taken,
its holder can go on unless it joins, and what a `fetch_all` waits for can be served while there
is a consensus. `KeptNeverStuck` is what that says of a consensus that is kept, the safety half
of `CalledUnlessDropped`.

Each invariant was model-checked on the run's instance before it was proved. The predicates that
say that nothing can go on (`Stuck`, or `~CanGoOn` in `ClientProofs`) are written without
ENABLED. In each module a lemma (`ProgressNotStuck`, `ProgressCanGoOn`) shows that they are
false wherever a step is taken; that they are true wherever none is possible TLC found on the
runs' instances.

**Only model-checked**, because the provers do not cover fairness: the liveness properties
`EndedUnlessExhausted`, `EveryFetchEnds`, `ReachesLastHop`, `Ends` and
`CalledUnlessDropped`. The safety half of each, that there is no state in which what is to happen
can no longer happen, is proved. All other properties of the passing runs are theorems.

## 5. What is not modelled

* Cryptographic primitives, hashing and random numbers are ideal. AES-CBC, which
  has no tag, is a scheme of `ChannelEncryption` and `OnionSizes`, but no maker uses it.
* `OnionRequest` has well-formed packets only; lengths and malformed packets are in
  `OnionSizes`, which in turn has no contents.
* A reply body is a genuine reply, raw or in base64, or something that decrypts
  under no key; a raw ciphertext that happens to be base64 text is not
  distinguished.
* That OpenSSL refuses a negative length is an assumption on its `EVP_EncryptUpdate` and
  `EVP_DecryptUpdate`; so is, of oxenc, that its hex decoder compares positions for equality
  with the end.
* What a storage server does between parsing and forwarding is external.
* In `Client` a signal handler that throws ends the process; that `set_value` is not
  safe in a signal handler at all is not modelled.
* Python callbacks that call the library again, `make_onion` and `set_node_list` from several
  Python threads (they run with the lock held, one after the other), and the
  conversion of values.
* `hash_data`, addresses, logging and display strings; the lokinet factory, which
  returns a null pointer; bindings for Node.js and Java, build and packaging.

## 6. State and further work

All components with logic of their own are modelled and checked, every safety property of a
passing run is proved, and so is the safety half of every liveness property. What could still be
added:

1. Ranks like those of transport and fetcher for the Python binding, up to threads passing the
   interpreter lock to each other.
2. Python callbacks that call the library again, and several fetchers of one consensus.
