-------------------------- MODULE OnionRequestProofs --------------------------
(***************************************************************************)
(* Proofs about OnionRequest for any number of nodes and requests and for  *)
(* paths of any length.                                                    *)
(***************************************************************************)
EXTENDS OnionRequest, WellFoundedInduction, TLAPS

-------------------------------------------------------------------------------
(* Sequences and keys                                                      *)

(* MakeOnion puts each new layer in front: what that does to a sequence.   *)
LEMMA PrependElements ==
  ASSUME NEW T, NEW s \in Seq(T), NEW x \in T
  PROVE  /\ <<x>> \o s \in Seq(T)
         /\ Len(<<x>> \o s) = Len(s) + 1
         /\ (<<x>> \o s)[1] = x
         /\ \A j \in 1..Len(s) : (<<x>> \o s)[j + 1] = s[j]
OBVIOUS

(* ParseJunk takes the first layer off: what that does to a sequence.      *)
LEMMA TailElements ==
  ASSUME NEW T, NEW s \in Seq(T), s # << >>
  PROVE  /\ Tail(s) \in Seq(T)
         /\ Len(s) \in Nat /\ Len(s) >= 1
         /\ Len(Tail(s)) = Len(s) - 1
         /\ \A j \in 1..(Len(s) - 1) : Tail(s)[j] = s[j + 1]
OBVIOUS

(* The name that MakeOnion writes for a scheme is parsed as that scheme.   *)
LEMMA EncTypeRoundTrip ==
  ASSUME NEW type \in EncryptType
  PROVE  parse_enc_type(to_string(type)) = {type}
<1>1. CASE type = "xchacha20"
  BY <1>1 DEF parse_enc_type, to_string
<1>2. CASE type = "aes_gcm"
  BY <1>2 DEF parse_enc_type, to_string
<1>3. CASE type = "aes_cbc"
  BY <1>3 DEF parse_enc_type, to_string
<1> QED BY <1>1, <1>2, <1>3 DEF EncryptType

(* The node that a client means gets the key the client has.               *)
LEMMA MeantNodeHasKey ==
  ASSUME NEW type \in {"aes_gcm", "xchacha20"}, NEW k \in Nat, NEW n \in Node
  PROVE  channel_key(type, n, TRUE, k) = channel_key(type, k, FALSE, n)
<1>1. {n, k} = {k, n}
  OBVIOUS
<1>2. CASE type = "aes_gcm"
  BY <1>1, <1>2 DEF channel_key, derive_symmetric_key, calculate_shared_secret
<1>3. CASE type = "xchacha20"
  BY <1>1, <1>3 DEF channel_key, xchacha20_shared_key, calculate_shared_secret
<1> QED BY <1>2, <1>3

(* A node with the key a client has is the node that the client meant.     *)
LEMMA SameKeySameNode ==
  ASSUME NEW type \in {"aes_gcm", "xchacha20"}, NEW k \in Nat,
         NEW n \in Node, NEW m \in Node,
         channel_key(type, n, TRUE, k) = channel_key(type, k, FALSE, m)
  PROVE  n = m
<1> USE NodeAssumption DEF calculate_shared_secret
<1>1. {n, k} = {k, m} => n = m
  OBVIOUS
<1>2. CASE type = "aes_gcm"
  BY <1>1, <1>2 DEF channel_key, derive_symmetric_key
<1>3. CASE type = "xchacha20"
  BY <1>1, <1>3 DEF channel_key, xchacha20_shared_key
<1> QED BY <1>2, <1>3

(* Key pairs of clients that agree on a key with a node are the same.      *)
LEMMA SameKeySameClient ==
  ASSUME NEW t \in {"aes_gcm", "xchacha20"}, NEW u \in {"aes_gcm", "xchacha20"},
         NEW k \in Nat, NEW l \in Nat, NEW n \in Node, NEW m \in Node,
         channel_key(t, k, FALSE, n) = channel_key(u, l, FALSE, m)
  PROVE  k = l
<1> USE NodeAssumption DEF calculate_shared_secret
<1>1. channel_key(t, k, FALSE, n).dh = {k, n}
  BY DEF channel_key, derive_symmetric_key, xchacha20_shared_key
<1>2. channel_key(u, l, FALSE, m).dh = {l, m}
  BY DEF channel_key, derive_symmetric_key, xchacha20_shared_key
<1>3. {k, n} = {l, m}
  BY <1>1, <1>2
<1> QED BY <1>3

-------------------------------------------------------------------------------
(* The inductive invariant                                                 *)

(* meta tells node n how to open the layer: the client's key of this       *)
(* layer and the scheme.                                                   *)
Names(meta, layer, type, n) ==
  \E k \in Nat :
    /\ meta.ephemeral_key = hex(k)
    /\ meta.enc_type = to_string(type)
    /\ layer.type = type
    /\ layer.key = channel_key(type, k, FALSE, n)

(* The layers for the last hops of a path: each tells its hop which hop is *)
(* next and how that one opens the next layer; the last is under the key   *)
(* pair saved for the reply and holds the control data.                    *)
Chain(layers, hops, type, saved) ==
  LET n == Len(layers)
      d == Len(hops) - n
  IN  /\ n \in 1..Len(hops)
      /\ \A j \in 1..(n - 1) :
           /\ Names(layers[j].inside, layers[j + 1], type, hops[d + j + 1])
           /\ layers[j].inside.destination = hops[d + j + 1]
      /\ layers[n].type = type
      /\ layers[n].key = channel_key(type, saved, FALSE, Last(hops))
      /\ layers[n].inside = control

(* MakeOnion's loop invariant.                                             *)
LoopInv ==
  \A r \in Requests :
    pc[r] = "loop" =>
      /\ Len(blob[r]) + it[r] = Len(path[r])
      /\ Chain(blob[r], path[r], keytype[r], final[r])
      /\ blob[r][1].type = keytype[r]
      /\ blob[r][1].key = channel_key(keytype[r], A[r], FALSE, path[r][it[r] + 1])

(* No two requests have the same key pair for the reply.                   *)
FinalInv ==
  /\ \A r \in Requests : pc[r] \in {"loop", "sent"} => final[r] < nextKey
  /\ \A r, s \in Requests :
       /\ pc[r] \in {"loop", "sent"} /\ pc[s] \in {"loop", "sent"}
       /\ final[r] = final[s]
       => r = s

(* A packet is a chain, and says in the clear how to open it.              *)
PacketOK(p, hops, type, saved) ==
  /\ Chain(p.layers, hops, type, saved)
  /\ Names(p.meta, p.layers[1], type, hops[Len(hops) - Len(p.layers) + 1])

WireInv ==
  \A p \in wire :
    LET r == p.payload
    IN  pc[r] = "sent" /\ PacketOK(p, path[r], keytype[r], final[r])

SeenInv == \A x \in seen : pc[x.packet.payload] = "sent"

(* A reply is from the last hop of its request, which got the payload.     *)
ReplyInv ==
  \A c \in replies :
    /\ pc[c.inside] = "sent"
    /\ c.type = keytype[c.inside]
    /\ c.key = channel_key(keytype[c.inside], final[c.inside], FALSE,
                           Last(path[c.inside]))
    /\ \E x \in seen : /\ x.packet.payload = c.inside /\ x.packet.layers = << >>
                       /\ x.node = Last(path[c.inside])

Inv ==
  /\ TypeOK /\ LoopInv /\ FinalInv /\ WireInv /\ SeenInv /\ ReplyInv
  /\ HopsSeeTheirPart /\ ReplyAuthentic

-------------------------------------------------------------------------------
(* Steps                                                                   *)

(* The key of a channel between two key pairs has the type of shared keys. *)
LEMMA KeyIsSharedKey ==
  ASSUME NEW type \in {"aes_gcm", "xchacha20"}, NEW own \in Key, NEW peer \in Key,
         NEW server \in BOOLEAN
  PROVE  channel_key(type, own, server, peer) \in SharedKey
<1>1. {own, peer} \in SUBSET Key /\ << >> \in Seq(Key)
      /\ <<own, peer>> \in Seq(Key) /\ <<peer, own>> \in Seq(Key)
  OBVIOUS
<1>2. CASE type = "aes_gcm"
  BY <1>1, <1>2 DEF channel_key, derive_symmetric_key, calculate_shared_secret,
                    SharedKey
<1>3. CASE type = "xchacha20"
  BY <1>1, <1>3 DEF channel_key, xchacha20_shared_key, calculate_shared_secret,
                    SharedKey
<1> QED BY <1>2, <1>3

(* The json objects that MakeOnion writes have the type of metadata.       *)
LEMMA MetaTypes ==
  /\ control \in Meta
  /\ \A next \in Node \cup {None}, k \in Nat, type \in EncryptType :
       routing(next, k, type) \in Meta
BY DEF control, routing, Meta, hex, KeyText, Key

(* What MakeOnion encrypts for a node is a layer.                          *)
LEMMA EncryptIsLayer ==
  ASSUME NEW type \in {"aes_gcm", "xchacha20"}, NEW k \in Nat, NEW n \in Node,
         NEW meta \in Meta
  PROVE  encrypt(type, k, FALSE, n, meta) \in Layer
<1>1. channel_key(type, k, FALSE, n) \in SharedKey
  BY KeyIsSharedKey DEF Key
<1> QED BY <1>1 DEF encrypt, Layer, EncryptType

(* A request that MakeOnion works on has a path with at least one hop.     *)
LEMMA PathOfRequest ==
  ASSUME TypeOK, NEW r \in Requests, pc[r] # "idle"
  PROVE  path[r] \in Seq(Node) /\ Len(path[r]) >= 1 /\ Last(path[r]) \in Node
<1>1. path[r] \in Seq(Node) /\ path[r] # << >>
  BY PathsAssumption DEF TypeOK
<1> QED BY <1>1 DEF Last

(* One more layer on a chain is a chain.                                   *)
LEMMA ChainGrows ==
  ASSUME NEW layers \in Seq(Layer), NEW hops \in Seq(Node), NEW saved \in Nat,
         NEW type \in {"aes_gcm", "xchacha20"}, NEW k \in Nat, NEW a \in Nat,
         Chain(layers, hops, type, saved), Len(layers) < Len(hops),
         layers[1].type = type,
         layers[1].key = channel_key(type, a, FALSE, hops[Len(hops) - Len(layers) + 1]),
         NEW new \in Layer,
         new.inside = routing(hops[Len(hops) - Len(layers) + 1], a, type)
  PROVE  Chain(<<new>> \o layers, hops, type, saved)
<1> DEFINE more == <<new>> \o layers
           n == Len(layers)
           d == Len(hops) - n
<1>1. /\ more \in Seq(Layer) /\ Len(more) = n + 1 /\ more[1] = new
      /\ \A j \in 1..n : more[j + 1] = layers[j]
  BY PrependElements
<1>2. n \in 1..Len(hops) /\ Len(hops) \in Nat
  BY DEF Chain
<1> HIDE DEF more
<1>3. Len(more) \in 1..Len(hops)
  BY <1>1, <1>2
<1>4. ASSUME NEW j \in 1..(Len(more) - 1)
      PROVE  /\ Names(more[j].inside, more[j + 1], type,
                      hops[(Len(hops) - Len(more)) + j + 1])
             /\ more[j].inside.destination = hops[(Len(hops) - Len(more)) + j + 1]
  <2>1. CASE j = 1
    <3>1. more[j + 1] = layers[1] /\ more[j] = new
      BY <1>1, <1>2, <2>1
    <3>2. (Len(hops) - Len(more)) + j + 1 = d + 1
      BY <1>1, <1>2, <2>1
    <3>3. Names(new.inside, layers[1], type, hops[d + 1])
      <4>1. new.inside.ephemeral_key = hex(a) /\ new.inside.enc_type = to_string(type)
        BY DEF routing
      <4> QED BY <4>1 DEF Names
    <3>4. new.inside.destination = hops[d + 1]
      BY DEF routing
    <3> QED BY <3>1, <3>2, <3>3, <3>4
  <2>2. CASE j > 1
    <3>1. j - 1 \in 1..(n - 1) /\ j = (j - 1) + 1
      BY <1>1, <1>2, <2>2
    <3>2. more[j] = layers[j - 1] /\ more[j + 1] = layers[(j - 1) + 1]
      BY <1>1, <1>2, <3>1
    <3>3. (Len(hops) - Len(more)) + j + 1 = d + (j - 1) + 1
      BY <1>1, <1>2
    <3>4. /\ Names(layers[j - 1].inside, layers[(j - 1) + 1], type, hops[d + (j - 1) + 1])
          /\ layers[j - 1].inside.destination = hops[d + (j - 1) + 1]
      BY <3>1 DEF Chain
    <3> QED BY <3>2, <3>3, <3>4
  <2> QED BY <1>1, <1>2, <2>1, <2>2
<1>5. more[Len(more)] = layers[n]
  BY <1>1, <1>2
<1>6. Chain(more, hops, type, saved)
  BY <1>3, <1>4, <1>5 DEF Chain
<1> QED BY <1>6 DEF more

(* Junk that node n took out of packet p as the next hop: the next hop and *)
(* a packet for it, or the control data and the payload.                   *)
Peeled(n, p, junk, hops, type, saved) ==
  LET i == Len(hops) - Len(p.layers) + 1
  IN  /\ i \in 1..Len(hops) /\ n = hops[i]
      /\ junk.type = type
      /\ junk.payload \in Packet /\ junk.payload.payload = p.payload
      /\ Len(junk.payload.layers) = Len(p.layers) - 1
      /\ Len(p.layers) > 1 =>
           /\ PacketOK(junk.payload, hops, type, saved)
           /\ junk.payload.meta.destination = hops[i + 1]
      /\ Len(p.layers) = 1 =>
           /\ junk.payload.meta.destination = None
           /\ junk.remote = saved /\ n = Last(hops)

(* Only the next hop can take the outermost layer off a packet.            *)
LEMMA PeelPacket ==
  ASSUME NEW p \in Packet, NEW hops \in Seq(Node), NEW saved \in Nat,
         NEW type \in {"aes_gcm", "xchacha20"}, PacketOK(p, hops, type, saved),
         NEW n \in Node, NEW junk \in ParseJunk(n, p)
  PROVE  Peeled(n, p, junk, hops, type, saved)
<1>0. PICK layers \in Seq(Layer) : layers = p.layers
  BY DEF Packet
<1> DEFINE i == Len(hops) - Len(layers) + 1
           q == [meta |-> layers[1].inside, layers |-> Tail(layers),
                 payload |-> p.payload]
<1>1. /\ p.payload \in Requests
      /\ Chain(layers, hops, type, saved)
      /\ Names(p.meta, layers[1], type, hops[i])
  BY <1>0 DEF Packet, PacketOK
<1>2. Len(layers) \in 1..Len(hops) /\ Len(hops) \in Nat
  BY <1>1 DEF Chain
<1>3. i \in 1..Len(hops) /\ hops[i] \in Node
  BY <1>2
<1>4. PICK k \in Nat :
        /\ p.meta.ephemeral_key = hex(k)
        /\ p.meta.enc_type = to_string(type)
        /\ layers[1].type = type
        /\ layers[1].key = channel_key(type, k, FALSE, hops[i])
  BY <1>1 DEF Names
<1>5. parse_x25519_pubkey(p.meta.ephemeral_key) = k
  BY <1>4 DEF parse_x25519_pubkey, hex
<1>6. PICK t \in junk_type(p.meta) :
        /\ decrypt(t, n, TRUE, k, layers[1]) # {}
        /\ junk = [type |-> t, remote |-> k, payload |-> q]
  BY <1>0, <1>5 DEF ParseJunk
<1>7. t = type
  <2>1. decrypt(t, n, TRUE, k, layers[1]) # {} => layers[1].type = t
    BY DEF decrypt
  <2> QED BY <1>4, <1>6, <2>1
<1>8. layers[1].key = channel_key(type, n, TRUE, k)
  BY <1>6, <1>7 DEF decrypt
<1>9. n = hops[i]
  <2>1. channel_key(type, n, TRUE, k) = channel_key(type, k, FALSE, hops[i])
    BY <1>4, <1>8
  <2>2. PICK hop \in Node : hop = hops[i]
    BY <1>3
  <2>3. channel_key(type, n, TRUE, k) = channel_key(type, k, FALSE, hop)
    BY <2>1, <2>2
  <2>4. n = hop
    BY <2>3, SameKeySameNode, Zenon
  <2> QED BY <2>2, <2>4
<1>10. /\ Tail(layers) \in Seq(Layer) /\ Len(Tail(layers)) = Len(layers) - 1
       /\ \A j \in 1..(Len(layers) - 1) : Tail(layers)[j] = layers[j + 1]
  BY <1>1, <1>2, TailElements
<1>11. layers[1].inside \in Meta
  <2>1. layers[1] \in Layer
    BY <1>2
  <2> QED BY <2>1 DEF Layer
<1>12. q \in Packet
  BY <1>1, <1>10, <1>11 DEF Packet
<1>13. ASSUME Len(layers) > 1
       PROVE  PacketOK(q, hops, type, saved) /\ q.meta.destination = hops[i + 1]
  <2> DEFINE rest == Tail(layers)
             m == Len(layers) - 1
             e == Len(hops) - m
  <2>1. m \in 1..Len(hops) /\ Len(rest) = m /\ e = i
    BY <1>2, <1>10, <1>13
  <2>2. \A j \in 1..m :
          /\ Names(layers[j].inside, layers[j + 1], type, hops[i - 1 + j + 1])
          /\ layers[j].inside.destination = hops[i - 1 + j + 1]
    <3>1. ASSUME NEW j \in 1..m
          PROVE  i - 1 + j + 1 = (Len(hops) - Len(layers)) + j + 1
      BY <1>2
    <3> QED BY <1>1, <3>1 DEF Chain
  <2>3. ASSUME NEW j \in 1..(m - 1)
        PROVE  /\ Names(rest[j].inside, rest[j + 1], type, hops[e + j + 1])
               /\ rest[j].inside.destination = hops[e + j + 1]
    <3>1. j + 1 \in 1..m /\ j \in 1..m /\ i - 1 + (j + 1) + 1 = e + j + 1
      BY <1>3, <2>1
    <3>2. rest[j] = layers[j + 1] /\ rest[j + 1] = layers[(j + 1) + 1]
      BY <1>10, <3>1
    <3> QED BY <2>2, <3>1, <3>2
  <2>4. rest[m] = layers[Len(layers)]
    BY <1>2, <1>10, <2>1
  <2>5. Chain(rest, hops, type, saved)
    BY <1>1, <2>1, <2>3, <2>4 DEF Chain
  <2>6. rest[1] = layers[1 + 1] /\ i - 1 + 1 + 1 = i + 1 /\ 1 \in 1..m
    BY <1>3, <1>10, <2>1
  <2>7. Names(layers[1].inside, rest[1], type, hops[i + 1])
        /\ layers[1].inside.destination = hops[i + 1]
    BY <2>2, <2>6
  <2>8. Len(hops) - Len(rest) + 1 = i + 1
    BY <1>3, <2>1
  <2> QED BY <2>5, <2>7, <2>8 DEF PacketOK
<1>14. ASSUME Len(layers) = 1
       PROVE  q.meta.destination = None /\ k = saved /\ n = Last(hops)
  <2>1. layers[1].key = channel_key(type, saved, FALSE, Last(hops))
        /\ layers[1].inside = control
    BY <1>1, <1>14 DEF Chain
  <2>2. Last(hops) = hops[i]
    BY <1>2, <1>14 DEF Last
  <2>3. channel_key(type, k, FALSE, hops[i]) = channel_key(type, saved, FALSE, hops[i])
    BY <1>4, <2>1, <2>2
  <2>4. k = saved
    <3> HIDE DEF i
    <3> QED BY <1>3, <2>3, SameKeySameClient, Zenon
  <2> QED BY <1>9, <2>1, <2>2, <2>4 DEF control
<1>15. Len(q.layers) = Len(layers) - 1
  BY <1>10
<1> HIDE DEF q
<1>16. junk.type = type /\ junk.remote = k /\ junk.payload = q
  BY <1>6, <1>7
<1>17. q.payload = p.payload
  BY DEF q
<1> QED BY <1>0, <1>3, <1>9, <1>12, <1>13, <1>14, <1>15, <1>16, <1>17 DEF Peeled

-------------------------------------------------------------------------------
(* The invariant holds, step by step                                       *)

(* The initial state satisfies the invariant.                              *)
LEMMA InitInv == Init => Inv
<1> SUFFICES ASSUME Init PROVE Inv
  OBVIOUS
<1>1. TypeOK
  BY DEF Init, TypeOK
<1>2. LoopInv /\ FinalInv /\ WireInv /\ SeenInv /\ ReplyInv
  BY DEF Init, LoopInv, FinalInv, WireInv, SeenInv, ReplyInv
<1>3. HopsSeeTheirPart /\ ReplyAuthentic
  BY DEF Init, HopsSeeTheirPart, ReplyAuthentic
<1> QED BY <1>1, <1>2, <1>3 DEF Inv

(* What is on the way belongs to onions that are finished, so making       *)
(* another one does not concern it.                                        *)
LEMMA MakingKeepsSent ==
  ASSUME Inv, NEW r \in Requests, pc[r] # "sent",
         UNCHANGED <<wire, seen, replies, result>>,
         \A s \in Requests : s # r =>
           /\ pc'[s] = pc[s] /\ path'[s] = path[s]
           /\ keytype'[s] = keytype[s] /\ final'[s] = final[s]
  PROVE  /\ WireInv' /\ SeenInv' /\ ReplyInv'
         /\ HopsSeeTheirPart' /\ ReplyAuthentic'
<1>1. WireInv'
  <2> SUFFICES ASSUME NEW p \in wire
               PROVE  /\ pc'[p.payload] = "sent"
                      /\ PacketOK(p, path'[p.payload], keytype'[p.payload],
                                  final'[p.payload])
    BY DEF WireInv
  <2>1. p.payload \in Requests /\ pc[p.payload] = "sent"
        /\ PacketOK(p, path[p.payload], keytype[p.payload], final[p.payload])
    BY DEF Inv, WireInv, TypeOK, Packet
  <2> QED BY <2>1
<1>2. ASSUME NEW x \in seen
      PROVE  x.packet.payload \in Requests /\ x.packet.payload # r
             /\ pc[x.packet.payload] = "sent"
  BY DEF Inv, SeenInv, TypeOK, Packet
<1>3. SeenInv'
  BY <1>2 DEF SeenInv
<1>4. ReplyInv'
  <2> SUFFICES ASSUME NEW c \in replies
               PROVE  /\ pc'[c.inside] = "sent"
                      /\ c.type = keytype'[c.inside]
                      /\ c.key = channel_key(keytype'[c.inside], final'[c.inside],
                                             FALSE, Last(path'[c.inside]))
                      /\ \E x \in seen : /\ x.packet.payload = c.inside
                                         /\ x.packet.layers = << >>
                                         /\ x.node = Last(path'[c.inside])
    BY DEF ReplyInv
  <2>1. c.inside \in Requests /\ pc[c.inside] = "sent"
    BY DEF Inv, ReplyInv, TypeOK
  <2>2. /\ pc'[c.inside] = "sent" /\ path'[c.inside] = path[c.inside]
        /\ keytype'[c.inside] = keytype[c.inside] /\ final'[c.inside] = final[c.inside]
    BY <2>1
  <2> QED BY <2>2 DEF Inv, ReplyInv
<1>5. HopsSeeTheirPart'
  <2>1. \A x \in seen : path'[x.packet.payload] = path[x.packet.payload]
    BY <1>2
  <2>2. HopsSeeTheirPart /\ seen' = seen
    BY DEF Inv
  <2> QED BY ONLY <2>1, <2>2 DEF HopsSeeTheirPart
<1>6. ReplyAuthentic'
  <2> SUFFICES ASSUME NEW s \in Requests, result[s] \notin {<< >>, <<None>>}
               PROVE  /\ result[s] = <<s>>
                      /\ \E x \in seen : /\ x.packet.payload = s
                                         /\ x.packet.layers = << >>
                                         /\ x.node = Last(path'[s])
    BY DEF ReplyAuthentic
  <2>1. result[s] = <<s>>
    BY DEF Inv, ReplyAuthentic
  <2>2. PICK x \in seen : /\ x.packet.payload = s /\ x.packet.layers = << >>
                          /\ x.node = Last(path[s])
    BY DEF Inv, ReplyAuthentic
  <2>3. path'[s] = path[s]
    BY <1>2, <2>2
  <2> QED BY <2>1, <2>2, <2>3
<1> QED BY <1>1, <1>3, <1>4, <1>5, <1>6

(* Starting an onion: a chain of one layer, under a key pair that is new.  *)
LEMMA EncryptForLastPreservesInv ==
  ASSUME Inv, NEW r \in Requests, NEW p \in Paths, NEW type \in KeyTypes,
         EncryptForLast(r, p, type)
  PROVE  Inv'
<1>1. /\ p \in Seq(Node) /\ Len(p) \in Nat /\ Len(p) >= 1 /\ Last(p) \in Node
      /\ Last(p) = p[Len(p)]
  <2>1. p \in Seq(Node) /\ p # << >>
    BY PathsAssumption
  <2> QED BY <2>1 DEF Last
<1>2. type \in {"aes_gcm", "xchacha20"} /\ nextKey \in Nat
  BY KeyTypesAssumption DEF Inv, TypeOK
<1> DEFINE L == encrypt(type, nextKey, FALSE, Last(p), control)
<1>3. L \in Layer /\ L.type = type /\ L.inside = control
      /\ L.key = channel_key(type, nextKey, FALSE, Last(p))
  <2>1. L \in Layer
    BY <1>1, <1>2, EncryptIsLayer, MetaTypes
  <2> QED BY <2>1 DEF encrypt
<1> HIDE DEF L
<1>4. /\ pc[r] = "idle"
      /\ pc' = [pc EXCEPT ![r] = "loop"]
      /\ path' = [path EXCEPT ![r] = p]
      /\ keytype' = [keytype EXCEPT ![r] = type]
      /\ it' = [it EXCEPT ![r] = Len(p) - 1]
      /\ blob' = [blob EXCEPT ![r] = <<L>>]
      /\ A' = [A EXCEPT ![r] = nextKey]
      /\ final' = [final EXCEPT ![r] = nextKey]
      /\ nextKey' = nextKey + 1
      /\ UNCHANGED <<wire, seen, replies, result>>
  BY DEF EncryptForLast, L
<1>5. TypeOK'
  <2>0. TypeOK
    BY DEF Inv
  <2>1. <<L>> \in Seq(Layer) /\ Len(p) - 1 \in Nat /\ nextKey + 1 \in Nat
    BY <1>1, <1>2, <1>3
  <2>2. pc' \in [Requests -> {"idle", "loop", "sent", "thrown"}]
        /\ keytype' \in [Requests -> {"aes_gcm", "xchacha20"}]
    BY <1>2, <1>4, <2>0 DEF TypeOK
  <2>3. path' \in [Requests -> Paths \cup {<< >>}]
        /\ \A s \in Requests : pc'[s] # "idle" => path'[s] \in Paths
    BY <1>4, <2>0 DEF TypeOK
  <2>4. it' \in [Requests -> Nat] /\ A' \in [Requests -> Nat]
        /\ final' \in [Requests -> Nat] /\ nextKey' \in Nat
    BY <1>2, <1>4, <2>0, <2>1 DEF TypeOK
  <2>5. blob' \in [Requests -> Seq(Layer)]
    BY <1>4, <2>0, <2>1 DEF TypeOK
  <2> QED BY <1>4, <2>0, <2>2, <2>3, <2>4, <2>5 DEF TypeOK
<1>6. LoopInv'
  <2> SUFFICES ASSUME NEW s \in Requests, pc'[s] = "loop"
               PROVE  /\ Len(blob'[s]) + it'[s] = Len(path'[s])
                      /\ Chain(blob'[s], path'[s], keytype'[s], final'[s])
                      /\ blob'[s][1].type = keytype'[s]
                      /\ blob'[s][1].key = channel_key(keytype'[s], A'[s], FALSE,
                                                       path'[s][it'[s] + 1])
    BY DEF LoopInv
  <2>1. CASE s # r
    <3>1. /\ pc'[s] = pc[s] /\ path'[s] = path[s] /\ keytype'[s] = keytype[s]
          /\ it'[s] = it[s] /\ blob'[s] = blob[s] /\ A'[s] = A[s]
          /\ final'[s] = final[s]
      BY <1>4, <2>1 DEF Inv, TypeOK
    <3> QED BY <3>1 DEF Inv, LoopInv
  <2>2. CASE s = r
    <3>1. /\ path'[s] = p /\ keytype'[s] = type /\ it'[s] = Len(p) - 1
          /\ blob'[s] = <<L>> /\ A'[s] = nextKey /\ final'[s] = nextKey
      BY <1>4, <2>2 DEF Inv, TypeOK
    <3>2. Len(<<L>>) = 1 /\ <<L>>[1] = L
      OBVIOUS
    <3>3. Chain(<<L>>, p, type, nextKey)
      <4> DEFINE one == <<L>>
      <4>1. Len(one) = 1 /\ one[1] = L /\ 1 \in 1..Len(p)
        BY <1>1
      <4> HIDE DEF one
      <4>2. 1..(Len(one) - 1) = {}
        BY <4>1
      <4>3. Chain(one, p, type, nextKey)
        BY <1>3, <4>1, <4>2 DEF Chain
      <4> QED BY <4>3 DEF one
    <3>4. Len(p) - 1 + 1 = Len(p) /\ 1 + (Len(p) - 1) = Len(p)
      BY <1>1
    <3> QED BY <1>1, <1>3, <3>1, <3>2, <3>3, <3>4
  <2> QED BY <2>1, <2>2
<1>7. FinalInv'
  <2>1. ASSUME NEW s \in Requests, pc'[s] \in {"loop", "sent"}
        PROVE  /\ final'[s] \in Nat /\ final'[s] < nextKey'
               /\ s # r => /\ pc[s] \in {"loop", "sent"}
                           /\ final'[s] = final[s] /\ final[s] < nextKey
               /\ s = r => final'[s] = nextKey
    <3>1. final' \in [Requests -> Nat]
      BY <1>5 DEF TypeOK
    <3>2. CASE s = r
      BY <1>2, <1>4, <3>1, <3>2 DEF Inv, TypeOK
    <3>3. CASE s # r
      <4>1. pc[s] \in {"loop", "sent"} /\ final'[s] = final[s]
        BY <1>4, <2>1, <3>3 DEF Inv, TypeOK
      <4>2. final[s] < nextKey
        BY <4>1 DEF Inv, FinalInv
      <4> QED BY <1>2, <1>4, <3>1, <3>3, <4>1, <4>2
    <3> QED BY <3>2, <3>3
  <2>2. ASSUME NEW s \in Requests, NEW u \in Requests,
               pc'[s] \in {"loop", "sent"}, pc'[u] \in {"loop", "sent"},
               final'[s] = final'[u]
        PROVE  s = u
    <3>1. s # r /\ u # r => s = u
      BY <2>1, <2>2 DEF Inv, FinalInv
    <3>2. s = r <=> u = r
      BY <1>2, <2>1, <2>2
    <3> QED BY <3>1, <3>2
  <2> QED BY <2>1, <2>2 DEF FinalInv
<1>8. /\ WireInv' /\ SeenInv' /\ ReplyInv'
      /\ HopsSeeTheirPart' /\ ReplyAuthentic'
  <2>1. \A s \in Requests : s # r =>
          /\ pc'[s] = pc[s] /\ path'[s] = path[s]
          /\ keytype'[s] = keytype[s] /\ final'[s] = final[s]
    BY <1>4 DEF Inv, TypeOK
  <2> QED BY <1>4, <2>1, MakingKeepsSent
<1> QED BY <1>5, <1>6, <1>7, <1>8 DEF Inv

(* A turn of the loop: the chain grows by a layer that names the one       *)
(* before.                                                                 *)
LEMMA EncryptForHopPreservesInv ==
  ASSUME Inv, NEW r \in Requests, EncryptForHop(r)
  PROVE  Inv'
<1>1. pc[r] = "loop" /\ it[r] \in Nat /\ it[r] > 0
      /\ keytype[r] \in {"aes_gcm", "xchacha20"}
      /\ A[r] \in Nat /\ final[r] \in Nat /\ nextKey \in Nat
  BY DEF EncryptForHop, Inv, TypeOK
<1>2. PICK layers \in Seq(Layer) : layers = blob[r]
  BY DEF Inv, TypeOK
<1>3. PICK hops \in Seq(Node) : hops = path[r]
  BY <1>1, PathOfRequest DEF Inv
<1>4. /\ Len(layers) + it[r] = Len(hops)
      /\ Chain(layers, hops, keytype[r], final[r])
      /\ layers[1].type = keytype[r]
      /\ layers[1].key = channel_key(keytype[r], A[r], FALSE, hops[it[r] + 1])
  BY <1>1, <1>2, <1>3 DEF Inv, LoopInv
<1>5. /\ Len(layers) \in Nat /\ Len(layers) \in 1..Len(hops)
      /\ Len(layers) < Len(hops)
      /\ Len(hops) - Len(layers) + 1 = it[r] + 1
      /\ it[r] \in 1..Len(hops) /\ it[r] + 1 \in 1..Len(hops)
      /\ it[r] - 1 \in Nat
  BY <1>1, <1>4 DEF Chain
<1> DEFINE data == routing(hops[it[r] + 1], A[r], keytype[r])
           L == encrypt(keytype[r], nextKey, FALSE, hops[it[r]], data)
<1>6. hops[it[r]] \in Node /\ hops[it[r] + 1] \in Node
  BY <1>5
<1>7. data \in Meta
  BY <1>1, <1>6, MetaTypes DEF EncryptType
<1> HIDE DEF data
<1>8. L \in Layer /\ L.type = keytype[r] /\ L.inside = data
      /\ L.key = channel_key(keytype[r], nextKey, FALSE, hops[it[r]])
  <2>1. L \in Layer
    BY <1>1, <1>6, <1>7, EncryptIsLayer
  <2> QED BY <2>1 DEF encrypt
<1> HIDE DEF L
<1> DEFINE more == <<L>> \o layers
<1>9. /\ blob' = [blob EXCEPT ![r] = more]
      /\ A' = [A EXCEPT ![r] = nextKey]
      /\ nextKey' = nextKey + 1
      /\ it' = [it EXCEPT ![r] = @ - 1]
      /\ UNCHANGED <<pc, path, keytype, final, wire, seen, replies, result>>
  BY <1>2, <1>3 DEF EncryptForHop, L, data
<1>10. more \in Seq(Layer) /\ Len(more) = Len(layers) + 1 /\ more[1] = L
  BY <1>8, PrependElements
<1>11. Chain(more, hops, keytype[r], final[r])
  <2>1. L.inside = routing(hops[Len(hops) - Len(layers) + 1], A[r], keytype[r])
    BY <1>5, <1>8 DEF data
  <2>2. layers[1].key = channel_key(keytype[r], A[r], FALSE,
                                    hops[Len(hops) - Len(layers) + 1])
    BY <1>4, <1>5
  <2> QED BY <1>1, <1>4, <1>5, <1>8, <2>1, <2>2, ChainGrows
<1> HIDE DEF more
<1>12. TypeOK'
  <2>0. TypeOK
    BY DEF Inv
  <2>1. it' \in [Requests -> Nat] /\ A' \in [Requests -> Nat] /\ nextKey' \in Nat
    BY <1>1, <1>5, <1>9, <2>0 DEF TypeOK
  <2>2. blob' \in [Requests -> Seq(Layer)]
    BY <1>9, <1>10, <2>0 DEF TypeOK
  <2> QED BY <1>9, <2>0, <2>1, <2>2 DEF TypeOK
<1>13. LoopInv'
  <2> SUFFICES ASSUME NEW s \in Requests, pc'[s] = "loop"
               PROVE  /\ Len(blob'[s]) + it'[s] = Len(path'[s])
                      /\ Chain(blob'[s], path'[s], keytype'[s], final'[s])
                      /\ blob'[s][1].type = keytype'[s]
                      /\ blob'[s][1].key = channel_key(keytype'[s], A'[s], FALSE,
                                                       path'[s][it'[s] + 1])
    BY DEF LoopInv
  <2>1. CASE s # r
    <3>1. /\ pc'[s] = pc[s] /\ path'[s] = path[s] /\ keytype'[s] = keytype[s]
          /\ it'[s] = it[s] /\ blob'[s] = blob[s] /\ A'[s] = A[s]
          /\ final'[s] = final[s]
      BY <1>9, <2>1 DEF Inv, TypeOK
    <3> QED BY <3>1 DEF Inv, LoopInv
  <2>2. CASE s = r
    <3>1. /\ path'[s] = hops /\ keytype'[s] = keytype[r] /\ it'[s] = it[r] - 1
          /\ blob'[s] = more /\ A'[s] = nextKey /\ final'[s] = final[r]
      BY <1>3, <1>9, <2>2 DEF Inv, TypeOK
    <3>2. it[r] - 1 + 1 = it[r] /\ Len(more) + (it[r] - 1) = Len(hops)
      BY <1>1, <1>4, <1>5, <1>10
    <3> QED BY <1>8, <1>10, <1>11, <3>1, <3>2
  <2> QED BY <2>1, <2>2
<1>14. FinalInv'
  <2>1. \A s \in Requests : pc[s] \in {"loop", "sent"} => final[s] < nextKey + 1
    <3> SUFFICES ASSUME NEW s \in Requests, pc[s] \in {"loop", "sent"}
                 PROVE  final[s] < nextKey + 1
      OBVIOUS
    <3>1. final[s] \in Nat /\ final[s] < nextKey
      BY DEF Inv, TypeOK, FinalInv
    <3> QED BY <1>1, <3>1
  <2> QED BY <1>9, <2>1 DEF Inv, FinalInv
<1>15. /\ WireInv' /\ SeenInv' /\ ReplyInv'
       /\ HopsSeeTheirPart' /\ ReplyAuthentic'
  <2>1. UNCHANGED <<wire, seen, replies, result>>
        /\ \A s \in Requests : s # r =>
             /\ pc'[s] = pc[s] /\ path'[s] = path[s]
             /\ keytype'[s] = keytype[s] /\ final'[s] = final[s]
    BY <1>9
  <2>2. pc[r] # "sent"
    BY <1>1
  <2> QED BY <2>1, <2>2, MakingKeepsSent
<1> QED BY <1>12, <1>13, <1>14, <1>15 DEF Inv

(* An exception in MakeOnion leaves the other onions alone.                *)
LEMMA ThrowPreservesInv ==
  ASSUME Inv, NEW r \in Requests,
         ThrowForHop(r) \/ \E p \in Paths : ThrowForLast(r, p)
  PROVE  Inv'
<1>1. /\ pc[r] # "sent" /\ pc' = [pc EXCEPT ![r] = "thrown"]
      /\ nextKey' = nextKey + 1
      /\ path' \in [Requests -> Paths \cup {<< >>}]
      /\ path'[r] \in Paths
      /\ \A s \in Requests : s # r => path'[s] = path[s]
      /\ UNCHANGED <<keytype, it, blob, A, final, wire, seen, replies, result>>
  <2>1. CASE ThrowForHop(r)
    BY <2>1 DEF ThrowForHop, Inv, TypeOK
  <2>2. ASSUME NEW p \in Paths, ThrowForLast(r, p)
        PROVE  /\ pc[r] # "sent" /\ pc' = [pc EXCEPT ![r] = "thrown"]
               /\ nextKey' = nextKey + 1
               /\ path' \in [Requests -> Paths \cup {<< >>}]
               /\ path'[r] \in Paths
               /\ \A s \in Requests : s # r => path'[s] = path[s]
               /\ UNCHANGED <<keytype, it, blob, A, final, wire, seen, replies, result>>
    BY <2>2 DEF ThrowForLast, Inv, TypeOK
  <2> QED BY <2>1, <2>2
<1>2. /\ pc' \in [Requests -> {"idle", "loop", "sent", "thrown"}]
      /\ pc'[r] = "thrown"
      /\ \A s \in Requests : s # r => pc'[s] = pc[s]
  BY <1>1 DEF Inv, TypeOK
<1>3. TypeOK'
  <2>0. TypeOK
    BY DEF Inv
  <2>1. \A s \in Requests : pc'[s] # "idle" => path'[s] \in Paths
    BY <1>1, <1>2, <2>0 DEF TypeOK
  <2>2. nextKey' \in Nat
    BY <1>1, <2>0 DEF TypeOK
  <2> QED BY <1>1, <1>2, <2>0, <2>1, <2>2 DEF TypeOK
<1>4. LoopInv'
  BY <1>1, <1>2 DEF Inv, LoopInv
<1>5. FinalInv'
  <2>1. ASSUME NEW s \in Requests, pc'[s] \in {"loop", "sent"}
        PROVE  pc[s] \in {"loop", "sent"} /\ final[s] < nextKey + 1
    <3>1. pc[s] \in {"loop", "sent"}
      BY <1>2, <2>1
    <3>2. final[s] \in Nat /\ nextKey \in Nat /\ final[s] < nextKey
      BY <3>1 DEF Inv, TypeOK, FinalInv
    <3> QED BY <3>1, <3>2
  <2> QED BY <1>1, <2>1 DEF Inv, FinalInv
<1>6. /\ WireInv' /\ SeenInv' /\ ReplyInv'
      /\ HopsSeeTheirPart' /\ ReplyAuthentic'
  BY <1>1, <1>2, MakingKeepsSent
<1> QED BY <1>3, <1>4, <1>5, <1>6 DEF Inv

(* The finished onion is a packet that its first hop can open.             *)
LEMMA FinishOnionPreservesInv ==
  ASSUME Inv, NEW r \in Requests, FinishOnion(r)
  PROVE  Inv'
<1>1. pc[r] = "loop" /\ it[r] = 0 /\ A[r] \in Nat
      /\ keytype[r] \in {"aes_gcm", "xchacha20"}
  BY DEF FinishOnion, Inv, TypeOK
<1>2. PICK layers \in Seq(Layer) : layers = blob[r]
  BY DEF Inv, TypeOK
<1>3. PICK hops \in Seq(Node) : hops = path[r]
  BY <1>1, PathOfRequest DEF Inv
<1>4. /\ Len(layers) + 0 = Len(hops)
      /\ Chain(layers, hops, keytype[r], final[r])
      /\ layers[1].type = keytype[r]
      /\ layers[1].key = channel_key(keytype[r], A[r], FALSE, hops[0 + 1])
  BY <1>1, <1>2, <1>3 DEF Inv, LoopInv
<1>5. Len(hops) - Len(layers) + 1 = 0 + 1
  BY <1>4 DEF Chain
<1> DEFINE meta == opening(A[r], keytype[r])
           w == [meta |-> meta, layers |-> layers, payload |-> r]
<1>6. meta \in Meta
  BY <1>1, MetaTypes DEF opening, EncryptType
<1>7. Names(meta, layers[1], keytype[r], hops[Len(hops) - Len(layers) + 1])
  <2>1. meta.ephemeral_key = hex(A[r]) /\ meta.enc_type = to_string(keytype[r])
    BY DEF opening, routing
  <2> QED BY <1>1, <1>4, <1>5, <2>1 DEF Names
<1>8. /\ pc' = [pc EXCEPT ![r] = "sent"]
      /\ wire' = wire \cup {w}
      /\ UNCHANGED <<path, keytype, it, blob, A, final, nextKey, seen, replies, result>>
  BY <1>2 DEF FinishOnion
<1> HIDE DEF meta
<1>9. w \in Packet /\ w.payload = r
      /\ PacketOK(w, hops, keytype[r], final[r])
  BY <1>4, <1>6, <1>7 DEF Packet, PacketOK
<1> HIDE DEF w
<1>10. pc' \in [Requests -> {"idle", "loop", "sent", "thrown"}] /\ pc'[r] = "sent"
       /\ \A s \in Requests : s # r => pc'[s] = pc[s]
  BY <1>8 DEF Inv, TypeOK
<1>11. TypeOK'
  <2>0. TypeOK
    BY DEF Inv
  <2>1. \A s \in Requests : pc'[s] # "idle" => path[s] \in Paths
    BY <1>1, <1>10, <2>0 DEF TypeOK
  <2>2. wire' \subseteq Packet
    BY <1>8, <1>9, <2>0 DEF TypeOK
  <2> QED BY <1>8, <1>10, <2>0, <2>1, <2>2 DEF TypeOK
<1>12. LoopInv'
  BY <1>8, <1>10 DEF Inv, LoopInv
<1>13. FinalInv'
  BY <1>1, <1>8, <1>10 DEF Inv, FinalInv
<1>14. WireInv'
  <2> SUFFICES ASSUME NEW p \in wire'
               PROVE  /\ pc'[p.payload] = "sent"
                      /\ PacketOK(p, path[p.payload], keytype[p.payload],
                                  final[p.payload])
    BY <1>8 DEF WireInv
  <2>1. CASE p = w
    BY <1>3, <1>9, <1>10, <2>1
  <2>2. CASE p \in wire
    <3>1. p.payload \in Requests /\ pc[p.payload] = "sent"
          /\ PacketOK(p, path[p.payload], keytype[p.payload], final[p.payload])
      BY <2>2 DEF Inv, WireInv, TypeOK, Packet
    <3> QED BY <1>10, <3>1
  <2> QED BY <1>8, <2>1, <2>2
<1>15. SeenInv'
  <2>1. \A x \in seen : x.packet.payload \in Requests /\ pc[x.packet.payload] = "sent"
    BY DEF Inv, SeenInv, TypeOK, Packet
  <2> QED BY <1>8, <1>10, <2>1 DEF SeenInv
<1>16. ReplyInv'
  <2>1. \A c \in replies : c.inside \in Requests /\ pc[c.inside] = "sent"
    BY DEF Inv, ReplyInv, TypeOK
  <2>2. \A c \in replies : pc'[c.inside] = "sent"
    BY <1>10, <2>1
  <2> QED BY <1>8, <2>2 DEF Inv, ReplyInv
<1>17. HopsSeeTheirPart' /\ ReplyAuthentic'
  BY <1>8 DEF Inv, HopsSeeTheirPart, ReplyAuthentic
<1> QED BY <1>11, <1>12, <1>13, <1>14, <1>15, <1>16, <1>17 DEF Inv

(* A hop takes a layer off: what it sees and sends on is what PeelPacket   *)
(* says, and an answer is under the key pair saved for the reply.          *)
LEMMA HandlePreservesInv ==
  ASSUME Inv, NEW n \in Node, NEW p \in wire, Handle(n, p)
  PROVE  Inv'
<1>0. TypeOK
  BY DEF Inv
<1>1. PICK r \in Requests : r = p.payload
  BY <1>0 DEF TypeOK, Packet
<1>2. p \in Packet /\ pc[r] = "sent" /\ PacketOK(p, path[r], keytype[r], final[r])
  BY <1>0, <1>1 DEF Inv, TypeOK, WireInv
<1>3. PICK hops \in Seq(Node) : hops = path[r]
  BY <1>0, <1>2, PathOfRequest
<1>4. keytype[r] \in {"aes_gcm", "xchacha20"} /\ final[r] \in Nat
  BY <1>0 DEF TypeOK
<1>5. PICK junk \in ParseJunk(n, p) :
        /\ seen' = seen \cup {[node |-> n, packet |-> junk.payload]}
        /\ IF junk.payload.layers # << >>
             THEN /\ wire' = wire \cup {junk.payload}
                  /\ UNCHANGED replies
             ELSE /\ replies' = replies \cup {transformReply(n, junk, p.payload)}
                  /\ UNCHANGED wire
  BY DEF Handle
<1>6. UNCHANGED <<pc, path, keytype, it, blob, A, final, nextKey, result>>
  BY DEF Handle
<1> DEFINE q == junk.payload
           x == [node |-> n, packet |-> q]
           i == Len(hops) - Len(p.layers) + 1
           c == transformReply(n, junk, p.payload)
<1>7. /\ i \in 1..Len(hops) /\ n = hops[i]
      /\ junk.type = keytype[r]
      /\ q \in Packet /\ q.payload = p.payload
      /\ Len(q.layers) = Len(p.layers) - 1
      /\ Len(p.layers) > 1 =>
           /\ PacketOK(q, hops, keytype[r], final[r])
           /\ q.meta.destination = hops[i + 1]
      /\ Len(p.layers) = 1 =>
           /\ q.meta.destination = None
           /\ junk.remote = final[r] /\ n = Last(hops)
  <2>1. Peeled(n, p, junk, hops, keytype[r], final[r])
    BY <1>2, <1>3, <1>4, PeelPacket
  <2> QED BY <2>1 DEF Peeled
<1>8. PICK rest \in Seq(Layer) : rest = q.layers
  BY <1>7 DEF Packet
<1>9. /\ Len(p.layers) \in Nat /\ Len(p.layers) >= 1 /\ Len(hops) \in Nat
      /\ rest # << >> => Len(p.layers) > 1
      /\ rest = << >> => Len(p.layers) = 1
  <2>1. Len(p.layers) \in 1..Len(hops) /\ Len(hops) \in Nat
    BY <1>2, <1>3 DEF PacketOK, Chain
  <2>2. PICK l \in Nat : l = Len(p.layers)
    BY <2>1
  <2>3. Len(rest) = l - 1
    BY <1>7, <1>8, <2>2
  <2>4. (rest # << >> => l > 1) /\ (rest = << >> => l = 1)
    <3>1. l >= 1
      BY <2>1, <2>2
    <3>2. rest = << >> <=> Len(rest) = 0
      OBVIOUS
    <3> QED BY <2>3, <3>1, <3>2
  <2> QED BY <2>1, <2>2, <2>4
<1> HIDE DEF q
<1>10. x \in [node : Node, packet : Packet] /\ x.node = n /\ x.packet = q
       /\ seen' = seen \cup {x}
  BY <1>5, <1>7 DEF q
<1> HIDE DEF x
<1>11. ASSUME rest # << >>
       PROVE  TypeOK' /\ WireInv' /\ ReplyInv'
  <2>1. wire' = wire \cup {q} /\ replies' = replies
    BY <1>5, <1>8, <1>11 DEF q
  <2>2. TypeOK'
    BY <1>0, <1>6, <1>7, <1>10, <2>1 DEF TypeOK
  <2>3. WireInv'
    <3>1. PacketOK(q, path[q.payload], keytype[q.payload], final[q.payload])
          /\ pc[q.payload] = "sent"
      BY <1>1, <1>2, <1>3, <1>7, <1>9, <1>11
    <3> QED BY <1>6, <2>1, <3>1 DEF Inv, WireInv
  <2>4. ReplyInv'
    BY <1>6, <1>10, <2>1 DEF Inv, ReplyInv
  <2> QED BY <2>2, <2>3, <2>4
<1>12. ASSUME rest = << >>
       PROVE  TypeOK' /\ WireInv' /\ ReplyInv'
  <2>1. replies' = replies \cup {c} /\ wire' = wire
    BY <1>5, <1>8, <1>12 DEF q
  <2>2. junk.remote = final[r] /\ n = Last(hops)
    BY <1>7, <1>9, <1>12
  <2>3. /\ c.type = keytype[r] /\ c.inside = r
        /\ c.key = channel_key(keytype[r], final[r], FALSE, n)
        /\ c = [type |-> c.type, key |-> c.key, inside |-> c.inside]
    <3>1. c = encrypt(keytype[r], n, TRUE, final[r], r)
      BY <1>1, <1>7, <2>2 DEF transformReply
    <3>2. channel_key(keytype[r], n, TRUE, final[r])
            = channel_key(keytype[r], final[r], FALSE, n)
      BY <1>4, MeantNodeHasKey
    <3> HIDE DEF c
    <3> QED BY <3>1, <3>2 DEF encrypt
  <2> HIDE DEF c
  <2>4. c.key \in SharedKey
    BY <1>4, <2>3, KeyIsSharedKey DEF Key
  <2>5. c \in [type : EncryptType, key : SharedKey, inside : Requests]
    BY <1>4, <2>3, <2>4 DEF EncryptType
  <2>6. TypeOK'
    BY <1>0, <1>6, <1>7, <1>10, <2>1, <2>5 DEF TypeOK
  <2>7. WireInv'
    BY <1>6, <2>1 DEF Inv, WireInv
  <2>8. ReplyInv'
    <3>1. /\ pc[c.inside] = "sent"
          /\ c.type = keytype[c.inside]
          /\ c.key = channel_key(keytype[c.inside], final[c.inside], FALSE,
                                 Last(path[c.inside]))
          /\ x \in seen' /\ x.packet.payload = c.inside
          /\ x.packet.layers = << >> /\ x.node = Last(path[c.inside])
      BY <1>1, <1>2, <1>3, <1>7, <1>8, <1>10, <1>12, <2>2, <2>3
    <3> QED BY <1>6, <1>10, <2>1, <3>1 DEF Inv, ReplyInv
  <2> QED BY <2>6, <2>7, <2>8
<1>13. LoopInv' /\ FinalInv'
  BY <1>6 DEF Inv, LoopInv, FinalInv
<1>14. SeenInv'
  BY <1>1, <1>2, <1>6, <1>7, <1>10 DEF Inv, SeenInv
<1>15. HopsSeeTheirPart'
  <2>1. x.packet.payload = r
    BY <1>1, <1>7, <1>10
  <2>0. PICK l \in Nat : l = Len(p.layers)
    BY <1>9
  <2>2. Len(hops) - Len(x.packet.layers) = i
    <3>1. Len(x.packet.layers) = l - 1 /\ i = Len(hops) - l + 1
      BY <1>7, <1>10, <2>0
    <3> HIDE DEF i
    <3> QED BY <1>9, <3>1
  <2>3. q.meta.destination = IF i = Len(hops) THEN None ELSE hops[i + 1]
    <3>1. i = Len(hops) - l + 1 /\ l >= 1 /\ Len(hops) \in Nat
      BY <1>9, <2>0
    <3> HIDE DEF i
    <3>2. i = Len(hops) <=> l = 1
      BY <3>1
    <3>3. l > 1 \/ l = 1
      BY <3>1
    <3>4. CASE l = 1
      BY <1>7, <2>0, <3>2, <3>4
    <3>5. CASE l > 1
      BY <1>7, <2>0, <3>2, <3>5
    <3> QED BY <3>3, <3>4, <3>5
  <2> HIDE DEF i
  <2>4. \A y \in seen' : y \in seen \/ y = x
    BY <1>10
  <2> QED BY <1>3, <1>6, <1>7, <1>10, <2>1, <2>2, <2>3, <2>4
          DEF Inv, HopsSeeTheirPart
<1>16. ReplyAuthentic'
  BY <1>6, <1>10 DEF Inv, ReplyAuthentic
<1> QED BY <1>8, <1>11, <1>12, <1>13, <1>14, <1>15, <1>16 DEF Inv

(* What a delivered reply decrypts to is the request it is a reply to.     *)
LEMMA DecryptBody ==
  ASSUME Inv, NEW r \in Requests, pc[r] = "sent", NEW c \in replies,
         NEW y \in decrypt_body(r, c)
  PROVE  c.inside = r /\ y = r
<1>1. y = c.inside /\ c.key = channel_key(keytype[r], final[r], FALSE, Last(path[r]))
  BY DEF decrypt_body, decrypt
<1>2. PICK s \in Requests : s = c.inside
  BY DEF Inv, TypeOK
<1>3. pc[s] = "sent"
      /\ c.key = channel_key(keytype[s], final[s], FALSE, Last(path[s]))
  BY <1>2 DEF Inv, ReplyInv
<1>4. Last(path[r]) \in Node /\ Last(path[s]) \in Node
  BY <1>3, PathOfRequest DEF Inv
<1>5. /\ keytype[r] \in {"aes_gcm", "xchacha20"} /\ final[r] \in Nat
      /\ keytype[s] \in {"aes_gcm", "xchacha20"} /\ final[s] \in Nat
  BY DEF Inv, TypeOK
<1>6. channel_key(keytype[r], final[r], FALSE, Last(path[r]))
        = channel_key(keytype[s], final[s], FALSE, Last(path[s]))
  BY <1>1, <1>3
<1>7. final[r] = final[s]
  BY <1>4, <1>5, <1>6, SameKeySameClient, Zenon
<1>8. r = s
  BY <1>3, <1>7 DEF Inv, FinalInv
<1> QED BY <1>1, <1>2, <1>8

(* A reply is accepted only by the request it is for.                      *)
LEMMA RespondPreservesInv ==
  ASSUME Inv, NEW r \in Requests, NEW body \in Bodies, Respond(r, body)
  PROVE  Inv'
<1>1. pc[r] = "sent"
      /\ UNCHANGED <<pc, path, keytype, it, blob, A, final, nextKey, wire, seen, replies>>
  BY DEF Respond
<1>2. PICK y \in maybeDecryptResponse(r, body) : result' = [result EXCEPT ![r] = <<y>>]
  BY DEF Respond
<1>3. y = None \/ (y \in decrypt_body(r, body.reply) /\ body.form # "other")
  <2> DEFINE D == decrypt_body(r, body.reply)
  <2>1. \/ /\ body.form # "other"
           /\ maybeDecryptResponse(r, body) \in {D, {None}}
        \/ maybeDecryptResponse(r, body) = {None}
    <3>1. CASE body.form = "bytes"
      BY <3>1 DEF maybeDecryptResponse
    <3>2. CASE body.form = "base64"
      BY <3>2 DEF maybeDecryptResponse
    <3>3. CASE body.form \notin {"bytes", "base64"}
      BY <3>3 DEF maybeDecryptResponse
    <3> QED BY <3>1, <3>2, <3>3
  <2> HIDE DEF D
  <2>2. y = None \/ (y \in D /\ body.form # "other")
    BY <2>1
  <2> QED BY <2>2 DEF D
<1>4. body.form # "other" => body.reply \in replies
  BY DEF Bodies
<1>5. y # None => /\ y = r
                  /\ \E x \in seen : /\ x.packet.payload = r /\ x.packet.layers = << >>
                                     /\ x.node = Last(path[r])
  <2> SUFFICES ASSUME y # None
               PROVE  /\ y = r
                      /\ \E x \in seen : /\ x.packet.payload = r
                                         /\ x.packet.layers = << >>
                                         /\ x.node = Last(path[r])
    OBVIOUS
  <2>1. PICK c \in replies : c = body.reply
    BY <1>3, <1>4
  <2>2. c.inside = r /\ y = r
    BY <1>1, <1>3, <2>1, DecryptBody
  <2> QED BY <2>2 DEF Inv, ReplyInv
<1>6. TypeOK'
  <2>1. <<y>> \in Seq(Requests \cup {None})
    BY <1>5
  <2>2. result' \in [Requests -> Seq(Requests \cup {None})]
    BY <1>2, <2>1 DEF Inv, TypeOK
  <2> QED BY <1>1, <2>2 DEF Inv, TypeOK
<1>7. LoopInv' /\ FinalInv' /\ WireInv' /\ SeenInv'
  BY <1>1 DEF Inv, LoopInv, FinalInv, WireInv, SeenInv
<1>8. ReplyInv' /\ HopsSeeTheirPart'
  BY <1>1 DEF Inv, ReplyInv, HopsSeeTheirPart
<1>9. ReplyAuthentic'
  <2>1. result'[r] = <<y>> /\ \A s \in Requests : s # r => result'[s] = result[s]
    BY <1>2 DEF Inv, TypeOK
  <2>2. result'[r] # <<None>> => y # None
    BY <2>1
  <2> QED BY <1>1, <1>5, <2>1, <2>2 DEF Inv, ReplyAuthentic
<1> QED BY <1>6, <1>7, <1>8, <1>9 DEF Inv

(* Every step of an onion, a hop or a response handler keeps the invariant. *)
LEMMA NextInv == Inv /\ [Next]_vars => Inv'
<1> SUFFICES ASSUME Inv, [Next]_vars
             PROVE  Inv'
  OBVIOUS
<1>1. ASSUME NEW r \in Requests, NEW p \in Paths, NEW type \in KeyTypes,
             EncryptForLast(r, p, type)
      PROVE  Inv'
  BY <1>1, EncryptForLastPreservesInv
<1>2. ASSUME NEW r \in Requests, EncryptForHop(r)
      PROVE  Inv'
  BY <1>2, EncryptForHopPreservesInv
<1>3. ASSUME NEW r \in Requests, FinishOnion(r)
      PROVE  Inv'
  BY <1>3, FinishOnionPreservesInv
<1>7. ASSUME NEW r \in Requests,
             ThrowForHop(r) \/ \E p \in Paths : ThrowForLast(r, p)
      PROVE  Inv'
  BY <1>7, ThrowPreservesInv
<1>4. ASSUME NEW n \in Node, NEW packet \in wire, Handle(n, packet)
      PROVE  Inv'
  BY <1>4, HandlePreservesInv
<1>5. ASSUME NEW r \in Requests, NEW body \in Bodies, Respond(r, body)
      PROVE  Inv'
  BY <1>5, RespondPreservesInv
<1>6. CASE UNCHANGED vars
  BY <1>6 DEF Inv, TypeOK, LoopInv, FinalInv, WireInv, SeenInv, ReplyInv,
              HopsSeeTheirPart, ReplyAuthentic, vars
<1> QED BY <1>1, <1>2, <1>3, <1>4, <1>5, <1>6, <1>7 DEF Next, MakeOnion

(* What MakeOnion has wrapped, what is on the wire and what was answered   *)
(* always fit together: the invariant that the theorems below rest on.     *)
THEOREM InvHolds == Spec => []Inv
BY InitInv, NextInv, PTL DEF Spec

(* Onions, packets and replies keep their types, for paths of any length.  *)
THEOREM TypeCorrect == Spec => []TypeOK
<1>1. Inv => TypeOK
  BY DEF Inv
<1> QED BY <1>1, InvHolds, PTL

(* ParseJunk of a node succeeds only on layers that MakeOnion meant for    *)
(* it, and gives it the next hop, or the payload to the last one only.     *)
THEOREM HopsSeeTheirPartHolds == Spec => []HopsSeeTheirPart
<1>1. Inv => HopsSeeTheirPart
  BY DEF Inv
<1> QED BY <1>1, InvHolds, PTL

(* maybeDecryptResponse returns nothing but the reply of the last hop to   *)
(* the request it belongs to, whatever reply is brought to it.             *)
THEOREM ReplyAuthenticHolds == Spec => []ReplyAuthentic
<1>1. Inv => ReplyAuthentic
  BY DEF Inv
<1> QED BY <1>1, InvHolds, PTL

(* A packet opens at the hop it is for, with what it says in the clear,    *)
(* and nowhere else.                                                       *)
LEMMA ParsesAtNextHop == Inv => OnlyNextHopParses
<1> SUFFICES ASSUME Inv, NEW p \in wire, NEW n \in Node
             PROVE  ParseJunk(n, p) # {} <=> n = NextHop(p)
  BY DEF OnlyNextHopParses
<1>1. PICK r \in Requests : r = p.payload
  BY DEF Inv, TypeOK, Packet
<1>2. p \in Packet /\ pc[r] = "sent" /\ PacketOK(p, path[r], keytype[r], final[r])
  BY <1>1 DEF Inv, TypeOK, WireInv
<1>3. PICK hops \in Seq(Node) : hops = path[r]
  BY <1>2, PathOfRequest DEF Inv
<1>4. PICK type \in {"aes_gcm", "xchacha20"} : type = keytype[r]
  BY DEF Inv, TypeOK
<1>5. PICK saved \in Nat : saved = final[r]
  BY DEF Inv, TypeOK
<1>6. PacketOK(p, hops, type, saved)
  BY <1>2, <1>3, <1>4, <1>5
<1>7. NextHop(p) = hops[Len(hops) - Len(p.layers) + 1]
  BY <1>1, <1>3 DEF NextHop
<1>8. ASSUME NEW junk \in ParseJunk(n, p)
      PROVE  n = NextHop(p)
  <2>1. Peeled(n, p, junk, hops, type, saved)
    BY <1>2, <1>6, PeelPacket
  <2> QED BY <1>7, <2>1 DEF Peeled
<1>9. ASSUME n = NextHop(p)
      PROVE  ParseJunk(n, p) # {}
  <2> DEFINE layer == p.layers[1]
  <2>1. PICK k \in Nat :
          /\ p.meta.ephemeral_key = hex(k)
          /\ p.meta.enc_type = to_string(type)
          /\ layer.type = type
          /\ layer.key = channel_key(type, k, FALSE, n)
    BY <1>6, <1>7, <1>9 DEF PacketOK, Names
  <2>2. parse_x25519_pubkey(p.meta.ephemeral_key) = k
    BY <2>1 DEF parse_x25519_pubkey, hex
  <2>3. p.meta.ephemeral_key # None
    BY <2>1, NoneAssumption DEF hex
  <2>4. type \in junk_type(p.meta)
    <3>1. type \in EncryptType
      BY DEF EncryptType
    <3>2. to_string(type) # None
      BY <3>1, NoneAssumption
    <3>3. parse_enc_type(to_string(type)) = {type}
      BY <3>1, EncTypeRoundTrip
    <3> QED BY <2>1, <3>2, <3>3 DEF junk_type
  <2>5. decrypt(type, n, TRUE, k, layer) # {}
    <3>1. channel_key(type, n, TRUE, k) = channel_key(type, k, FALSE, n)
      BY MeantNodeHasKey
    <3>2. k # NullKey
      BY NodeAssumption
    <3> QED BY <2>1, <3>1, <3>2 DEF decrypt
  <2> HIDE DEF layer
  <2> QED BY <2>2, <2>3, <2>4, <2>5 DEF ParseJunk, layer
<1> QED BY <1>8, <1>9

(* ParseJunk succeeds on a packet at the hop it is for and nowhere else,   *)
(* however many onions MakeOnion works on at once.                         *)
THEOREM OnlyNextHopParsesHolds == Spec => []OnlyNextHopParses
BY ParsesAtNextHop, InvHolds, PTL

(* maybeDecryptResponse never rejects the reply to its own request, raw or *)
(* in base64: the key pair it uses is the one the last hop answered to.    *)
THEOREM GenuineReplyAcceptedHolds == Spec => GenuineReplyAccepted
<1>1. ASSUME Inv, NEW r \in Requests, NEW body \in Bodies, Respond(r, body),
             body.form # "other", body.reply.inside = r
      PROVE  result'[r] = <<r>>
  <2>1. PICK c \in replies : c = body.reply
    BY <1>1 DEF Bodies
  <2>2. pc[r] = "sent"
    BY <1>1 DEF Respond
  <2>3. Last(path[r]) # NullKey
    BY <1>1, <2>2, PathOfRequest, NodeAssumption DEF Inv
  <2>4. decrypt_body(r, c) = {r}
    <3>1. c.type = keytype[r] /\ c.inside = r
          /\ c.key = channel_key(keytype[r], final[r], FALSE, Last(path[r]))
      BY <1>1, <2>1 DEF Inv, ReplyInv
    <3> QED BY <2>3, <3>1 DEF decrypt_body, decrypt
  <2>5. body.form \in {"bytes", "base64"}
    BY <1>1 DEF Bodies
  <2>6. maybeDecryptResponse(r, body) = {r}
    <3>1. CASE body.form = "bytes"
      BY <2>1, <2>4, <3>1 DEF maybeDecryptResponse
    <3>2. CASE body.form = "base64"
      BY <2>1, <2>4, <3>2 DEF maybeDecryptResponse
    <3> QED BY <2>5, <3>1, <3>2
  <2>7. result' = [result EXCEPT ![r] = <<r>>]
    BY <1>1, <2>6 DEF Respond
  <2> QED BY <1>1, <2>7 DEF Inv, TypeOK
<1>2. Inv /\ [Next]_vars =>
        [\A r \in Requests, body \in Bodies :
           Respond(r, body) /\ body.form # "other" /\ body.reply.inside = r =>
             result'[r] = <<r>>]_vars
  BY <1>1
<1> QED BY <1>2, InvHolds, PTL DEF Spec, GenuineReplyAccepted

-------------------------------------------------------------------------------
(* MakeOnion has wrapped only hops with a key, all of them when it has     *)
(* sent the onion, and throws only at one without.                         *)
KeyInv ==
  \A r \in Requests :
    /\ pc[r] \in {"loop", "sent"} =>
         \A i \in 1..Len(path[r]) : i > it[r] => path[r][i] \notin Keyless
    /\ pc[r] = "sent" => it[r] = 0
    /\ pc[r] = "thrown" => \E i \in 1..Len(path[r]) : path[r][i] \in Keyless

(* An onion that was sent is on the wire, and so is whatever a hop has     *)
(* taken out of it that still has layers.                                  *)
RouteInv ==
  /\ \A r \in Requests : pc[r] = "sent" => \E p \in wire : p.payload = r
  /\ \A x \in seen : x.packet.layers # << >> => x.packet \in wire

(* Every step of MakeOnion keeps to hops with a key.                       *)
LEMMA NextPreservesKeyInv ==
  ASSUME Inv, KeyInv, Next
  PROVE  KeyInv'
<1>0. TypeOK
  BY DEF Inv
<1>1. ASSUME NEW r \in Requests, NEW p \in Paths, NEW type \in KeyTypes,
             EncryptForLast(r, p, type)
      PROVE  KeyInv'
  <2>1. /\ pc'[r] = "loop" /\ path'[r] = p /\ it'[r] = Len(p) - 1
        /\ \A s \in Requests : s # r =>
             pc'[s] = pc[s] /\ path'[s] = path[s] /\ it'[s] = it[s]
        /\ p[Len(p)] \notin Keyless
    BY <1>0, <1>1 DEF EncryptForLast, TypeOK, Last
  <2>2. Len(p) \in Nat
    BY PathsAssumption
  <2>3. \A i \in 1..Len(p) : i > Len(p) - 1 => i = Len(p)
    BY <2>2
  <2>4. \A i \in 1..Len(path'[r]) : i > it'[r] => path'[r][i] \notin Keyless
    BY <2>1, <2>3
  <2> QED BY <2>1, <2>4 DEF KeyInv
<1>2. ASSUME NEW r \in Requests, EncryptForHop(r) PROVE KeyInv'
  <2>1. /\ pc[r] = "loop" /\ it'[r] = it[r] - 1 /\ path[r][it[r]] \notin Keyless
        /\ \A s \in Requests : s # r => it'[s] = it[s]
        /\ UNCHANGED <<pc, path>>
    BY <1>0, <1>2 DEF EncryptForHop, TypeOK
  <2>2. PICK k \in Nat : k = it[r]
    BY <1>0 DEF TypeOK
  <2>3. \A i \in 1..Len(path[r]) : i > it'[r] => i = k \/ i > k
    BY <2>1, <2>2
  <2>4. \A i \in 1..Len(path[r]) : i > it'[r] => path[r][i] \notin Keyless
    BY <2>1, <2>2, <2>3 DEF KeyInv
  <2> QED BY <2>1, <2>4 DEF KeyInv
<1>3. ASSUME NEW r \in Requests, NEW p \in Paths, ThrowForLast(r, p) PROVE KeyInv'
  <2>1. /\ pc'[r] = "thrown" /\ path'[r] = p /\ p[Len(p)] \in Keyless
        /\ \A s \in Requests : s # r => pc'[s] = pc[s] /\ path'[s] = path[s]
        /\ it' = it
    BY <1>0, <1>3 DEF ThrowForLast, TypeOK, Last
  <2>2. Len(p) \in 1..Len(p)
    BY PathsAssumption
  <2> QED BY <2>1, <2>2 DEF KeyInv
<1>4. ASSUME NEW r \in Requests, ThrowForHop(r) PROVE KeyInv'
  <2>1. /\ pc[r] = "loop" /\ pc'[r] = "thrown" /\ path[r][it[r]] \in Keyless
        /\ \A s \in Requests : s # r => pc'[s] = pc[s]
        /\ it[r] \in Nat /\ it[r] > 0 /\ UNCHANGED <<path, it>>
    BY <1>0, <1>4 DEF ThrowForHop, TypeOK
  <2>2. Len(blob[r]) + it[r] = Len(path[r])
    BY <2>1 DEF Inv, LoopInv
  <2>3. blob[r] \in Seq(Layer)
    BY <1>0 DEF TypeOK
  <2>4. PICK k \in Nat : k = Len(blob[r])
    BY <2>3
  <2>5. PICK j \in Nat : j = it[r]
    BY <2>1
  <2>6. Len(path[r]) = k + j /\ j > 0
    BY <2>1, <2>2, <2>4, <2>5
  <2>7. it[r] \in 1..Len(path[r])
    BY <2>5, <2>6
  <2> QED BY <2>1, <2>7 DEF KeyInv
<1>5. ASSUME NEW r \in Requests, FinishOnion(r) PROVE KeyInv'
  <2>1. /\ pc[r] = "loop" /\ pc'[r] = "sent" /\ it[r] = 0
        /\ \A s \in Requests : s # r => pc'[s] = pc[s]
        /\ UNCHANGED <<path, it>>
    BY <1>0, <1>5 DEF FinishOnion, TypeOK
  <2> QED BY <2>1 DEF KeyInv
<1>6. ASSUME UNCHANGED <<pc, path, it>> PROVE KeyInv'
  BY <1>6 DEF KeyInv
<1>7. ASSUME NEW n \in Node, NEW packet \in wire, Handle(n, packet) PROVE KeyInv'
  BY <1>6, <1>7 DEF Handle
<1>8. ASSUME NEW r \in Requests, NEW body \in Bodies, Respond(r, body) PROVE KeyInv'
  BY <1>6, <1>8 DEF Respond
<1> QED BY <1>1, <1>2, <1>3, <1>4, <1>5, <1>7, <1>8 DEF Next, MakeOnion

(* Every step keeps what is under way on the wire.                         *)
LEMMA NextPreservesRouteInv ==
  ASSUME Inv, RouteInv, Next
  PROVE  RouteInv'
<1>0. TypeOK
  BY DEF Inv
<1>1. ASSUME NEW r \in Requests, MakeOnion(r), ~FinishOnion(r) PROVE RouteInv'
  <2>1. UNCHANGED <<wire, seen>>
    BY <1>1 DEF MakeOnion, EncryptForLast, ThrowForLast, EncryptForHop, ThrowForHop
  <2>2. \A s \in Requests : pc'[s] = "sent" => pc[s] = "sent"
    BY <1>0, <1>1 DEF MakeOnion, EncryptForLast, ThrowForLast, EncryptForHop,
                      ThrowForHop, TypeOK
  <2> QED BY <2>1, <2>2 DEF RouteInv
<1>2. ASSUME NEW r \in Requests, FinishOnion(r) PROVE RouteInv'
  <2>1. PICK p : p.payload = r /\ wire' = wire \cup {p}
    <3> DEFINE q == [meta |-> opening(A[r], keytype[r]), layers |-> blob[r],
                     payload |-> r]
    <3>1. wire' = wire \cup {q} /\ q.payload = r
      BY <1>2 DEF FinishOnion
    <3> HIDE DEF q
    <3> QED BY <3>1
  <2>2. /\ \A s \in Requests : s # r => pc'[s] = pc[s]
        /\ UNCHANGED seen
    BY <1>0, <1>2 DEF FinishOnion, TypeOK
  <2> QED BY <2>1, <2>2 DEF RouteInv
<1>3. ASSUME NEW n \in Node, NEW packet \in wire, Handle(n, packet) PROVE RouteInv'
  <2>1. PICK junk \in ParseJunk(n, packet) :
          /\ seen' = seen \cup {[node |-> n, packet |-> junk.payload]}
          /\ IF junk.payload.layers # << >>
               THEN wire' = wire \cup {junk.payload}
               ELSE UNCHANGED wire
    BY <1>3 DEF Handle
  <2>2. wire \subseteq wire'
    BY <2>1
  <2>3. junk.payload.layers # << >> => junk.payload \in wire'
    BY <2>1
  <2>4. ASSUME NEW x \in seen', x.packet.layers # << >> PROVE x.packet \in wire'
    <3>1. CASE x \in seen
      BY <2>2, <2>4, <3>1 DEF RouteInv
    <3>2. CASE x = [node |-> n, packet |-> junk.payload]
      BY <2>3, <2>4, <3>2
    <3> QED BY <2>1, <3>1, <3>2
  <2>5. UNCHANGED pc
    BY <1>3 DEF Handle
  <2> QED BY <2>2, <2>4, <2>5 DEF RouteInv
<1>4. ASSUME NEW r \in Requests, NEW body \in Bodies, Respond(r, body)
      PROVE  RouteInv'
  BY <1>4 DEF Respond, RouteInv
<1> QED BY <1>1, <1>2, <1>3, <1>4 DEF Next

(* A non-empty set of natural numbers has a least one.                     *)
LEMMA LeastNumber ==
  ASSUME NEW S \in SUBSET Nat, S # {}
  PROVE  \E x \in S : \A y \in S : ~(y < x)
<1>1. PICK x \in S : \A y \in S : ~(<<y, x>> \in OpToRel(<, Nat))
  BY NatLessThanWellFounded, WFMin
<1> QED BY <1>1 DEF OpToRel

(* MakeOnion throws only for a path with a hop without a key and sends     *)
(* only an onion for a path without one; an onion that was sent and has    *)
(* not reached the last hop is, one layer or more further in, at a hop     *)
(* that opens it and has not done so yet.                                  *)
NoDeadEnd ==
  \A r \in Requests :
    /\ pc[r] = "thrown" => \E i \in 1..Len(path[r]) : path[r][i] \in Keyless
    /\ pc[r] = "sent" =>
         /\ \A i \in 1..Len(path[r]) : path[r][i] \notin Keyless
         /\ \/ \E x \in seen : x.packet.payload = r /\ x.packet.layers = << >>
            \/ \E n \in Node, p \in wire :
                 /\ p.payload = r /\ p.layers # << >>
                 /\ \E junk \in ParseJunk(n, p) :
                      [node |-> n, packet |-> junk.payload] \notin seen

(* No onion gets stuck on its path, for paths of any length and any number *)
(* of onions at once: the safety half of ReachesLastHop.                   *)
THEOREM NoDeadEndHolds == Spec => []NoDeadEnd
<1>1. Init => KeyInv /\ RouteInv
  BY DEF Init, KeyInv, RouteInv
<1>2. Inv /\ KeyInv /\ RouteInv /\ [Next]_vars => KeyInv' /\ RouteInv'
  <2>1. Inv /\ KeyInv /\ RouteInv /\ Next => KeyInv' /\ RouteInv'
    BY NextPreservesKeyInv, NextPreservesRouteInv
  <2>2. KeyInv /\ RouteInv /\ UNCHANGED vars => KeyInv' /\ RouteInv'
    BY DEF vars, KeyInv, RouteInv
  <2> QED BY <2>1, <2>2
<1>3. Inv /\ KeyInv /\ RouteInv => NoDeadEnd
  <2> SUFFICES ASSUME Inv, KeyInv, RouteInv PROVE NoDeadEnd
    OBVIOUS
  <2>1. ASSUME NEW r \in Requests, pc[r] = "sent"
        PROVE  \A i \in 1..Len(path[r]) : path[r][i] \notin Keyless
    <3>1. \A i \in 1..Len(path[r]) : i > it[r]
      BY <2>1 DEF KeyInv
    <3> QED BY <2>1, <3>1 DEF KeyInv
  <2>2. ASSUME NEW r \in Requests, pc[r] = "sent",
               \A x \in seen : ~(x.packet.payload = r /\ x.packet.layers = << >>)
        PROVE  \E n \in Node, p \in wire :
                 /\ p.payload = r /\ p.layers # << >>
                 /\ \E junk \in ParseJunk(n, p) :
                      [node |-> n, packet |-> junk.payload] \notin seen
    <3> DEFINE mine == {p \in wire : p.payload = r}
               S == {Len(p.layers) : p \in mine}
    <3>1. ASSUME NEW p \in mine
          PROVE  /\ p \in Packet /\ Len(p.layers) \in 1..Len(path[r])
                 /\ p.layers \in Seq(Layer) /\ p.layers # << >>
                 /\ NextHop(p) \in Node
      <4>1. p \in Packet /\ p.layers \in Seq(Layer)
        BY DEF Inv, TypeOK, Packet
      <4>2. Len(p.layers) \in 1..Len(path[r])
        BY DEF Inv, WireInv, PacketOK, Chain
      <4>3. path[r] \in Seq(Node)
        BY <2>2, PathOfRequest DEF Inv
      <4>4. NextHop(p) = path[r][Len(path[r]) - Len(p.layers) + 1]
        BY DEF NextHop
      <4>5. PICK hops \in Seq(Node) : hops = path[r]
        BY <4>3
      <4>6. NextHop(p) \in Node
        <5>1. PICK l \in Nat : l = Len(p.layers) /\ l \in 1..Len(hops)
          BY <4>2, <4>5
        <5>2. Len(hops) - l + 1 \in 1..Len(hops)
          BY <5>1
        <5>3. hops[Len(hops) - l + 1] \in Node
          BY <5>2
        <5> QED BY <4>4, <4>5, <5>1, <5>3
      <4>7. p.layers # << >>
        BY <4>2
      <4> QED BY <4>1, <4>2, <4>6, <4>7
    <3>2. S \in SUBSET Nat /\ S # {}
      <4>1. \A p \in mine : Len(p.layers) \in Nat
        <5>1. ASSUME NEW p \in mine PROVE Len(p.layers) \in Nat
          <6>1. p.layers \in Seq(Layer)
            BY <3>1
          <6> QED BY <6>1
        <5> QED BY <5>1
      <4>2. mine # {}
        BY <2>2 DEF RouteInv
      <4> HIDE DEF mine
      <4> QED BY <4>1, <4>2
    <3>3. PICK p \in mine : \A q \in mine : ~(Len(q.layers) < Len(p.layers))
      <4>1. PICK m \in S : \A y \in S : ~(y < m)
        <5> HIDE DEF S
        <5> QED BY <3>2, LeastNumber
      <4> QED BY <4>1
    <3>4. PICK n \in Node : n = NextHop(p)
      BY <3>1
    <3>5. PICK junk \in ParseJunk(n, p) : TRUE
      BY <3>4, ParsesAtNextHop DEF OnlyNextHopParses
    <3>6. junk.payload.payload = r /\ Len(junk.payload.layers) = Len(p.layers) - 1
      <4>1. /\ path[r] \in Seq(Node) /\ keytype[r] \in {"aes_gcm", "xchacha20"}
            /\ final[r] \in Nat
        BY <2>2, PathOfRequest DEF Inv, TypeOK
      <4>2. p \in Packet /\ PacketOK(p, path[r], keytype[r], final[r])
        BY <3>1 DEF Inv, WireInv
      <4>3. Peeled(n, p, junk, path[r], keytype[r], final[r])
        BY <4>1, <4>2, PeelPacket
      <4>4. p.payload = r
        OBVIOUS
      <4> QED BY <4>3, <4>4 DEF Peeled
    <3>7. Len(junk.payload.layers) < Len(p.layers)
      <4>1. p.layers \in Seq(Layer)
        BY <3>1
      <4>2. PICK l \in Nat : l = Len(p.layers)
        BY <4>1
      <4> QED BY <3>6, <4>2
    <3>8. [node |-> n, packet |-> junk.payload] \notin seen
      <4> SUFFICES ASSUME [node |-> n, packet |-> junk.payload] \in seen PROVE FALSE
        OBVIOUS
      <4>1. junk.payload.layers # << >>
        BY <2>2, <3>6
      <4>2. junk.payload \in mine
        BY <3>6, <4>1 DEF RouteInv
      <4> QED BY <3>3, <3>7, <4>2
    <3> QED BY <3>1, <3>8
  <2> QED BY <2>1, <2>2 DEF KeyInv, NoDeadEnd
<1> QED BY <1>1, <1>2, <1>3, InvHolds, PTL DEF Spec
===============================================================================
