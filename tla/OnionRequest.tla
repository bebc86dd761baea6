----------------------------- MODULE OnionRequest -----------------------------
(***************************************************************************)
(* An onion request from MakeOnion (onionreq/onion_maker.cpp) through the  *)
(* hops that take its layers off with ParseJunk (onionreq/junk.cpp) to the *)
(* last one, and the reply back to maybeDecryptResponse.  MakeOnion's loop *)
(* is a sequence of steps, so several onions are made and travel at once.  *)
(* The network duplicates, reorders and misdelivers; what a hop does with  *)
(* the junk it parsed (forward it, or answer) is the storage server's part *)
(* and external.                                                           *)
(*                                                                         *)
(* Every blob is an alternation of encryption and of size-prefixed framing *)
(* with a json object behind, so it is the sequence of its layers from the *)
(* outside: a layer is a ciphertext whose plaintext is the frame of the    *)
(* layers that follow (of the request's payload after the last one) and    *)
(* of the json object kept in the layer.                                   *)
(***************************************************************************)
EXTENDS Integers, ChannelEncryption

CONSTANTS
  Node,      \* service nodes; a node's keys go by its name
  Keyless,   \* nodes in whose SNodeInfo the onion key is the null key
  Requests,  \* calls of MakeOnion; a request's payload goes by its name
  Paths,     \* paths the requests take
  KeyTypes,  \* what the makers encrypt with
  None       \* an absent json entry, an absent reply

ASSUME NodeAssumption == Node \cap Nat = {} /\ NullKey \notin Node \cup Nat
ASSUME PathsAssumption == Paths \subseteq Seq(Node) \ {<< >>}
ASSUME KeyTypesAssumption == KeyTypes \subseteq {"aes_gcm", "xchacha20"}
ASSUME NoneAssumption ==
  /\ None \notin Requests \cup Node \cup {to_string(t) : t \in EncryptType}
  /\ None \notin [form : {"hex"}, key : Nat]

VARIABLES
  pc,        \* how far MakeOnion is: "idle", "loop", "sent" or "thrown"
  path,      \* path.hops
  keytype,   \* the maker's keytype
  it,        \* hops not wrapped yet: `it' counts from the front
  blob,      \* onion.ciphertext
  A,         \* the latest ephemeral key pair
  final,     \* final_pubkey and final_seckey
  nextKey,   \* key pairs handed out by crypto_box_keypair: 0 .. nextKey - 1
  wire,      \* packets that are or were on the way to a hop
  seen,      \* history: what each node took out of the packets it got
  replies,   \* replies that are or were on the way to the client
  result     \* what maybeDecryptResponse returned, << >> before it is called

vars == <<pc, path, keytype, it, blob, A, final, nextKey, wire, seen,
          replies, result>>

(* hex() and the parser of key strings, which goes by their length: what   *)
(* is none of the known forms is the null key.                             *)
hex(k) == [form |-> "hex", key |-> k]
parse_x25519_pubkey(text) ==
  IF text.form \in {"bytes", "hex", "base64", "base32z"}
    THEN text.key
    ELSE NullKey

(* The json objects: control data for the last hop, routing for the ones   *)
(* before, and what tells the first hop how to start.                      *)
control == [destination |-> None, ephemeral_key |-> None, enc_type |-> None]
routing(next, k, type) ==
  [destination |-> next, ephemeral_key |-> hex(k), enc_type |-> to_string(type)]
opening(k, type) == routing(None, k, type)

Last(s) == s[Len(s)]

Init ==
  /\ pc = [r \in Requests |-> "idle"]
  /\ path = [r \in Requests |-> << >>]
  /\ keytype = [r \in Requests |-> "xchacha20"]
  /\ it = [r \in Requests |-> 0]
  /\ blob = [r \in Requests |-> << >>]
  /\ A = [r \in Requests |-> 0]
  /\ final = [r \in Requests |-> 0]
  /\ nextKey = 0
  /\ wire = {}
  /\ seen = {}
  /\ replies = {}
  /\ result = [r \in Requests |-> << >>]

-------------------------------------------------------------------------------
(* MakeOnion                                                               *)

(* Wrong variant, for mutation only: the loop starts one hop too far.      *)
EncryptForLastSkipping(r, p, type) ==
  /\ pc[r] = "idle"
  /\ Last(p) \notin Keyless
  /\ pc' = [pc EXCEPT ![r] = "loop"]
  /\ path' = [path EXCEPT ![r] = p]
  /\ keytype' = [keytype EXCEPT ![r] = type]
  /\ it' = [it EXCEPT ![r] = Len(p) - 2]
  /\ blob' = [blob EXCEPT ![r] = <<encrypt(type, nextKey, FALSE, Last(p), control)>>]
  /\ A' = [A EXCEPT ![r] = nextKey]
  /\ final' = [final EXCEPT ![r] = nextKey]
  /\ nextKey' = nextKey + 1
  /\ UNCHANGED <<wire, seen, replies, result>>

(* Up to the loop: the payload and the control data for the last hop.      *)
EncryptForLast(r, p, type) ==
  /\ pc[r] = "idle"
  /\ Last(p) \notin Keyless
  /\ pc' = [pc EXCEPT ![r] = "loop"]
  /\ path' = [path EXCEPT ![r] = p]
  /\ keytype' = [keytype EXCEPT ![r] = type]
  /\ it' = [it EXCEPT ![r] = Len(p) - 1]
  /\ blob' = [blob EXCEPT ![r] = <<encrypt(type, nextKey, FALSE, Last(p), control)>>]
  /\ A' = [A EXCEPT ![r] = nextKey]
  /\ final' = [final EXCEPT ![r] = nextKey]
  /\ nextKey' = nextKey + 1
  /\ UNCHANGED <<wire, seen, replies, result>>

(* Wrong variants, for mutation only: the key pair is renewed before the   *)
(* routing data names it; the routing data names the hop it is for; the    *)
(* key pair for the reply is saved after the loop.                         *)
EncryptForHopEarlyKey(r) ==
  LET hop  == path[r][it[r]]
      data == routing(path[r][it[r] + 1], nextKey, keytype[r])
  IN  /\ pc[r] = "loop"
      /\ it[r] > 0
      /\ hop \notin Keyless
      /\ blob' = [blob EXCEPT ![r] =
                    <<encrypt(keytype[r], nextKey, FALSE, hop, data)>> \o @]
      /\ A' = [A EXCEPT ![r] = nextKey]
      /\ nextKey' = nextKey + 1
      /\ it' = [it EXCEPT ![r] = @ - 1]
      /\ UNCHANGED <<pc, path, keytype, final, wire, seen, replies, result>>
EncryptForHopSelf(r) ==
  LET hop  == path[r][it[r]]
      data == routing(hop, A[r], keytype[r])
  IN  /\ pc[r] = "loop"
      /\ it[r] > 0
      /\ hop \notin Keyless
      /\ blob' = [blob EXCEPT ![r] =
                    <<encrypt(keytype[r], nextKey, FALSE, hop, data)>> \o @]
      /\ A' = [A EXCEPT ![r] = nextKey]
      /\ nextKey' = nextKey + 1
      /\ it' = [it EXCEPT ![r] = @ - 1]
      /\ UNCHANGED <<pc, path, keytype, final, wire, seen, replies, result>>
EncryptForHopLateFinal(r) ==
  LET hop  == path[r][it[r]]
      data == routing(path[r][it[r] + 1], A[r], keytype[r])
  IN  /\ pc[r] = "loop"
      /\ it[r] > 0
      /\ hop \notin Keyless
      /\ blob' = [blob EXCEPT ![r] =
                    <<encrypt(keytype[r], nextKey, FALSE, hop, data)>> \o @]
      /\ A' = [A EXCEPT ![r] = nextKey]
      /\ nextKey' = nextKey + 1
      /\ it' = [it EXCEPT ![r] = @ - 1]
      /\ final' = [final EXCEPT ![r] = nextKey]
      /\ UNCHANGED <<pc, path, keytype, wire, seen, replies, result>>

(* One turn of the loop: routing data that names the hop behind and the    *)
(* key for it, then a layer for this hop under a key pair of its own.      *)
EncryptForHop(r) ==
  LET hop  == path[r][it[r]]
      next == path[r][it[r] + 1]
      data == routing(next, A[r], keytype[r])
  IN  /\ pc[r] = "loop"
      /\ it[r] > 0
      /\ hop \notin Keyless
      /\ blob' = [blob EXCEPT ![r] =
                    <<encrypt(keytype[r], nextKey, FALSE, hop, data)>> \o @]
      /\ A' = [A EXCEPT ![r] = nextKey]
      /\ nextKey' = nextKey + 1
      /\ it' = [it EXCEPT ![r] = @ - 1]
      /\ UNCHANGED <<pc, path, keytype, final, wire, seen, replies, result>>

(* The hop that is next has no key to encrypt to: crypto_scalarmult        *)
(* refuses the null key and the exception leaves MakeOnion, after the key  *)
(* pair for the layer was made.  What was wrapped is lost.                 *)
ThrowForLast(r, p) ==
  /\ pc[r] = "idle"
  /\ Last(p) \in Keyless
  /\ pc' = [pc EXCEPT ![r] = "thrown"]
  /\ path' = [path EXCEPT ![r] = p]
  /\ nextKey' = nextKey + 1
  /\ UNCHANGED <<keytype, it, blob, A, final, wire, seen, replies, result>>

ThrowForHop(r) ==
  /\ pc[r] = "loop"
  /\ it[r] > 0
  /\ path[r][it[r]] \in Keyless
  /\ pc' = [pc EXCEPT ![r] = "thrown"]
  /\ nextKey' = nextKey + 1
  /\ UNCHANGED <<path, keytype, it, blob, A, final, wire, seen, replies, result>>

(* After the loop: one more frame in the clear for the first hop.  The     *)
(* transport takes the packet to it.                                       *)
FinishOnion(r) ==
  /\ pc[r] = "loop"
  /\ it[r] = 0
  /\ pc' = [pc EXCEPT ![r] = "sent"]
  /\ wire' = wire \cup {[meta |-> opening(A[r], keytype[r]), layers |-> blob[r],
                         payload |-> r]}
  /\ UNCHANGED <<path, keytype, it, blob, A, final, nextKey, seen, replies, result>>

-------------------------------------------------------------------------------
(* ParseJunk and the hops                                                  *)

(* The scheme ParseJunk decrypts with: aes-gcm when none is named.         *)
junk_type(meta) ==
  IF meta.enc_type = None THEN {"aes_gcm"} ELSE parse_enc_type(meta.enc_type)

(* ParseJunk of node n: the packet inside, and the scheme and the key that *)
(* transformReply keeps; no result where it throws.                        *)
ParseJunk(n, packet) ==
  LET remote == parse_x25519_pubkey(packet.meta.ephemeral_key)
      layer  == packet.layers[1]
  IN  {[type    |-> type,
        remote  |-> remote,
        payload |-> [meta |-> layer.inside, layers |-> Tail(packet.layers),
                     payload |-> packet.payload]] :
         type \in {t \in junk_type(packet.meta) :
                    /\ packet.meta.ephemeral_key # None
                    /\ decrypt(t, n, TRUE, remote, layer) # {}}}

transformReply(n, junk, plaintext) ==
  encrypt(junk.type, n, TRUE, junk.remote, plaintext)

(* A hop gets a packet, perhaps not for the first time or not meant for    *)
(* it.  It forwards what it took out, or it answers when that is the       *)
(* payload: the answer to a request goes by the request's name.            *)
Handle(n, packet) ==
  /\ packet.layers # << >>
  /\ \E junk \in ParseJunk(n, packet) :
       /\ seen' = seen \cup {[node |-> n, packet |-> junk.payload]}
       /\ IF junk.payload.layers # << >>
            THEN /\ wire' = wire \cup {junk.payload}
                 /\ UNCHANGED replies
            ELSE /\ replies' =
                      replies \cup {transformReply(n, junk, packet.payload)}
                 /\ UNCHANGED wire
  /\ UNCHANGED <<pc, path, keytype, it, blob, A, final, nextKey, result>>

-------------------------------------------------------------------------------
(* The reply                                                               *)

(* What may come back for a request: a reply, to whatever request, as it   *)
(* is or in base64, or something that is no reply at all.                  *)
Bodies == [form : {"bytes", "base64"}, reply : replies]
            \cup {[form |-> "other", reply |-> None]}

decrypt_body(r, c) == decrypt(keytype[r], final[r], FALSE, Last(path[r]), c)

(* The body as it is, then decoded when it is base64, else nullopt.        *)
maybeDecryptResponse(r, body) ==
  LET plain   == IF body.form = "bytes" THEN decrypt_body(r, body.reply) ELSE {}
      decoded == IF body.form = "base64" THEN decrypt_body(r, body.reply) ELSE {}
  IN  IF plain # {} THEN plain ELSE IF decoded # {} THEN decoded ELSE {None}

Respond(r, body) ==
  /\ pc[r] = "sent"
  /\ result[r] = << >>
  /\ \E x \in maybeDecryptResponse(r, body) : result' = [result EXCEPT ![r] = <<x>>]
  /\ UNCHANGED <<pc, path, keytype, it, blob, A, final, nextKey, wire, seen, replies>>

-------------------------------------------------------------------------------
MakeOnion(r) ==
  \/ \E p \in Paths, type \in KeyTypes : EncryptForLast(r, p, type)
  \/ \E p \in Paths : ThrowForLast(r, p)
  \/ EncryptForHop(r)
  \/ ThrowForHop(r)
  \/ FinishOnion(r)

Next ==
  \/ \E r \in Requests : MakeOnion(r)
  \/ \E n \in Node, packet \in wire : Handle(n, packet)
  \/ \E r \in Requests, body \in Bodies : Respond(r, body)

Spec == Init /\ [][Next]_vars

(* MakeOnion is straight-line code; the hops process what the network      *)
(* brings them, and it brings a packet that was sent.                      *)
FairSpec ==
  /\ Spec
  /\ \A r \in Requests : WF_vars(MakeOnion(r))
  /\ WF_vars(\E n \in Node, packet \in wire : Handle(n, packet))

-------------------------------------------------------------------------------
Key == Node \cup Nat
KeyText == [form : {"hex"}, key : Key]
Meta == [destination   : Node \cup {None},
         ephemeral_key : KeyText \cup {None},
         enc_type      : {to_string(t) : t \in EncryptType} \cup {None}]
SharedKey == [kdf : {"none", "hmac", "blake2b"}, dh : SUBSET Key, order : Seq(Key)]
Layer == [type : EncryptType, key : SharedKey, inside : Meta]
Packet == [meta : Meta, layers : Seq(Layer), payload : Requests]

(* The types of the onions in the making, on the wire and taken apart.     *)
TypeOK ==
  /\ pc \in [Requests -> {"idle", "loop", "sent", "thrown"}]
  /\ path \in [Requests -> Paths \cup {<< >>}]
  /\ \A r \in Requests : pc[r] # "idle" => path[r] \in Paths
  /\ keytype \in [Requests -> {"aes_gcm", "xchacha20"}]
  /\ it \in [Requests -> Nat]
  /\ blob \in [Requests -> Seq(Layer)]
  /\ A \in [Requests -> Nat] /\ final \in [Requests -> Nat] /\ nextKey \in Nat
  /\ wire \subseteq Packet
  /\ seen \subseteq [node : Node, packet : Packet]
  /\ replies \subseteq [type : EncryptType, key : SharedKey, inside : Requests]
  /\ result \in [Requests -> Seq(Requests \cup {None})]

(* The hop of its path that is to take the outermost layer off a packet.   *)
NextHop(p) == path[p.payload][Len(path[p.payload]) - Len(p.layers) + 1]

(* Whatever other onions are in the making, every packet on the wire can   *)
(* be parsed by the hop it is for, with what it says in the clear, and by  *)
(* no other node.                                                          *)
OnlyNextHopParses ==
  \A p \in wire, n \in Node : ParseJunk(n, p) # {} <=> n = NextHop(p)

(* A node that took a layer off is the hop of the path that layer was for. *)
(* It learns the next hop and no payload; only the last hop gets the       *)
(* payload.                                                                *)
HopsSeeTheirPart ==
  \A x \in seen :
    LET hops == path[x.packet.payload]
        i    == Len(hops) - Len(x.packet.layers)
    IN  /\ i \in 1..Len(hops)
        /\ x.node = hops[i]
        /\ x.packet.meta.destination = IF i = Len(hops) THEN None ELSE hops[i + 1]

(* The response handler gets a plaintext only if it is the reply that the  *)
(* last hop made to this very request, whatever reply is delivered to it.  *)
ReplyAuthentic ==
  \A r \in Requests :
    result[r] \notin {<< >>, <<None>>} =>
      /\ result[r] = <<r>>
      /\ \E x \in seen : /\ x.packet.payload = r /\ x.packet.layers = << >>
                         /\ x.node = Last(path[r])

(* The reply to a request is accepted, as it is and in base64, however     *)
(* many key pairs the onion took.                                          *)
GenuineReplyAccepted ==
  [][\A r \in Requests, body \in Bodies :
       Respond(r, body) /\ body.form # "other" /\ body.reply.inside = r =>
         result'[r] = <<r>>]_vars

(* An onion reaches the last hop of its path, unless a hop has no key;     *)
(* then MakeOnion throws and no part of the onion is sent.                 *)
ReachesLastHop ==
  \A r \in Requests :
    pc[r] # "idle" ~>
      IF \E i \in 1..Len(path[r]) : path[r][i] \in Keyless
        THEN pc[r] = "thrown"
        ELSE \E x \in seen : x.packet.payload = r /\ x.packet.layers = << >>
===============================================================================
