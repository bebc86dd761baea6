------------------------------ MODULE OnionSizes -------------------------------
(***************************************************************************)
(* The lengths of an onion: the size fields that MakeOnion writes          *)
(* (onion_maker.cpp) and ParseJunk reads (junk.cpp), and the iv, tag and   *)
(* padding of the three ciphers (channel_encryption.cpp).  Contents are    *)
(* left out: metadata parses as json when it is looked for where it was    *)
(* written and is complete; bytes of a ciphertext are no json.             *)
(***************************************************************************)
EXTENDS Integers, Sequences

CONSTANTS
  Prefix,      \* sizeof(uint32_t), bytes of a size field
  Limit,       \* 2^32, one more than a size field can hold
  IntLimit,    \* 2^31, one more than an int can hold
  IvLength,    \* iv or nonce length of each cipher
  TagLength,   \* tag length of each cipher, 0 for none
  BlockSize,   \* EVP_CIPHER_block_size of each cipher
  KeyChars,    \* the shortest text of a key
  Control,     \* bytes of the control data behind a payload
  Routing,     \* bytes of the json behind a ciphertext inside a layer
  Opening,     \* bytes of the json behind the outermost ciphertext
  MaxHops,     \* bound: hops of a path
  MaxPayload,  \* bound: bytes of a payload
  MaxPacket,   \* bound: bytes of a packet that another party made
  None         \* no complete json, no ciphertext

EncryptType == {"aes_cbc", "aes_gcm", "xchacha20"}
MakerType   == {"aes_gcm", "xchacha20"}

ASSUME LengthsAssumption ==
  /\ Prefix \in Nat \ {0} /\ KeyChars \in Nat
  /\ IntLimit \in Nat \ {0} /\ Limit = 2 * IntLimit
  /\ IvLength \in [EncryptType -> Nat \ {0}]
  /\ TagLength \in [EncryptType -> Nat]
  /\ BlockSize \in [EncryptType -> Nat \ {0}]
  /\ TagLength["aes_cbc"] = 0 /\ TagLength["aes_gcm"] > 0
  /\ TagLength["xchacha20"] > 0
  /\ \A type \in MakerType : BlockSize[type] = 1
  /\ {Control, Routing, Opening} \subseteq Nat
  /\ IvLength["aes_cbc"] <= KeyChars /\ KeyChars <= Opening
  /\ Prefix + Routing + IvLength["aes_gcm"] + TagLength["aes_gcm"] <= IntLimit
ASSUME BoundsAssumption ==
  /\ MaxHops \in Nat \ {0} /\ MaxPayload \in Nat /\ MaxPacket \in Nat
  /\ None \notin Nat

VARIABLES
  type,     \* the scheme of all layers
  payload,  \* payload.size()
  layers,   \* ciphertext sizes, outermost first
  left,     \* hops that are still to be wrapped for
  hop,      \* the hop that the packet is at
  packet,   \* what that hop gets
  cut,      \* history: the packet was cut short on its way
  state

vars == <<type, payload, layers, left, hop, packet, cut, state>>

-------------------------------------------------------------------------------
(* Ciphers                                                                 *)

(* Wrong variant, for mutation only: no room for a padded block.           *)
buffer_unpadded(enc, n) == IvLength[enc] + n + TagLength[enc]

(* The buffer that is allocated for the ciphertext of n bytes.             *)
buffer(enc, n) ==
  IvLength[enc] + n + TagLength[enc]
    + (IF enc = "xchacha20" THEN 0 ELSE BlockSize[enc])

(* The length that an OpenSSL function gets for a size_t: its low half, as *)
(* an int.                                                                 *)
to_int(n) == LET low == n % Limit IN IF low < IntLimit THEN low ELSE low - Limit

(* Bytes of the ciphertext, None where EVP_EncryptUpdate refuses a         *)
(* negative length and the code throws.  Of 2^32 bytes and more only the   *)
(* low half of the length is encrypted.  CBC pads to the next multiple of  *)
(* a block.                                                                *)
encrypt_openssl(enc, n) ==
  LET len == to_int(n)
  IN  IF len < 0 THEN None
      ELSE IvLength[enc] + TagLength[enc]
             + (IF enc = "aes_cbc" THEN (len \div BlockSize[enc] + 1) * BlockSize[enc]
                                   ELSE len)

encrypt_xchacha20(n) == IvLength["xchacha20"] + n + TagLength["xchacha20"]

encrypt(enc, n) ==
  IF enc = "xchacha20" THEN encrypt_xchacha20(n) ELSE encrypt_openssl(enc, n)

(* What decrypting n bytes does that another `after' bytes follow in       *)
(* memory.  substr yields a shorter iv than the cipher reads when there    *)
(* are not enough bytes; only the tag's length is looked at.               *)
taken(enc, n) == IF n < IvLength[enc] THEN n ELSE IvLength[enc]

decrypt_openssl(enc, n, after) ==
  LET rest == n - taken(enc, n)
      len  == to_int(rest - TagLength[enc])
  IN  CASE rest < TagLength[enc]                         -> "throws"
        [] rest >= TagLength[enc] /\ IvLength[enc] > n + after -> "undefined"
        [] /\ rest >= TagLength[enc] /\ IvLength[enc] <= n + after
           /\ \/ len < 0
              \/ enc = "aes_cbc" /\ (len = 0 \/ len % BlockSize[enc] # 0)
                                                         -> "throws"
        [] OTHER                                         -> "plaintext"

decrypt_xchacha20(n, after) ==
  LET rest == n - taken("xchacha20", n)
  IN  CASE rest < TagLength["xchacha20"]                 -> "throws"
        [] /\ rest >= TagLength["xchacha20"]
           /\ IvLength["xchacha20"] > n + after          -> "undefined"
        [] OTHER                                         -> "plaintext"

decrypt(enc, n, after) ==
  IF enc = "xchacha20" THEN decrypt_xchacha20(n, after)
                       ELSE decrypt_openssl(enc, n, after)

-------------------------------------------------------------------------------
(* Frames                                                                  *)

(* Wrong variant, for mutation only: a wider size in front of the          *)
(* outermost ciphertext.                                                   *)
outer_size_wide(s) == s

(* encode_size takes a uint32_t.                                           *)
encode_size(s) == s % Limit

(* The size field of the packet for the first hop.                         *)
outer_size(s) == encode_size(s)

(* A packet of len bytes: its size field, where behind that complete json  *)
(* begins, whether this has a good ephemeral_key, and its enc_type.        *)
frame(size, field) ==
  [len |-> Prefix + size + Opening, field |-> field, json |-> size,
   key |-> TRUE, enc |-> type]

(* Wrong variant, for mutation only: the segment is not checked.           *)
enough_unchecked(data, sz) == TRUE

(* data.size() >= sz                                                       *)
enough(data, sz) == data >= sz

(* A prefix is removed and a substring taken; a null key has no shared     *)
(* secret, which is computed before decrypt_openssl is entered.            *)
ParseJunk(p) ==
  LET data == p.len - Prefix
  IN  CASE data < 0                                               -> "throws"
        [] data >= 0 /\ ~enough(data, p.field)                    -> "throws"
        [] data >= 0 /\ enough(data, p.field) /\ data < p.field   -> "undefined"
        [] data >= p.field /\ (p.json # p.field \/ ~p.key)        -> "throws"
        [] data >= p.field /\ p.json = p.field /\ p.key           ->
             decrypt(p.enc, p.field, data - p.field)

-------------------------------------------------------------------------------
NoPacket == [len |-> 0, field |-> 0, json |-> None, key |-> FALSE,
             enc |-> "aes_gcm"]

(* MakeOnion is called with a payload and a path.                          *)
InitOnion ==
  /\ payload \in 0..MaxPayload /\ left \in 1..MaxHops
  /\ type \in MakerType
  /\ packet = NoPacket /\ state = "wrapping"

(* A packet of any other sender, with whatever fields; a key and the rest  *)
(* of the json need some room.                                             *)
InitForeign ==
  /\ payload = 0 /\ left = 0 /\ type = "aes_gcm"
  /\ packet \in [len : 0..MaxPacket, field : 0..(Limit - 1),
                 json : 0..MaxPacket \cup {None}, key : BOOLEAN,
                 enc : EncryptType]
  /\ packet.json # None =>
       packet.len - Prefix - packet.json >= (IF packet.key THEN KeyChars ELSE 2)
  /\ packet.key => packet.json # None
  /\ state = "foreign"

Init ==
  /\ InitOnion \/ InitForeign
  /\ layers = << >>
  /\ hop = 0 /\ cut = FALSE

(* A layer around n bytes; encrypt's exception leaves MakeOnion.           *)
Wrap(n) ==
  \/ /\ encrypt(type, n) # None
     /\ layers' = <<encrypt(type, n)>> \o layers
     /\ left' = left - 1
     /\ UNCHANGED state
  \/ /\ encrypt(type, n) = None
     /\ state' = "thrown"
     /\ UNCHANGED <<layers, left>>

(* The innermost layer: size, payload and control data.                    *)
WrapForLast ==
  /\ state = "wrapping" /\ layers = << >>
  /\ Wrap(Prefix + payload + Control)
  /\ UNCHANGED <<type, payload, hop, packet, cut>>

WrapForHop ==
  /\ state = "wrapping" /\ layers # << >> /\ left > 0
  /\ Wrap(Prefix + Head(layers) + Routing)
  /\ UNCHANGED <<type, payload, hop, packet, cut>>

FinishOnion ==
  /\ state = "wrapping" /\ left = 0
  /\ packet' = frame(Head(layers), outer_size(Head(layers)))
  /\ hop' = 1 /\ state' = "sent"
  /\ UNCHANGED <<type, payload, layers, left, cut>>

(* The packet is delivered in part only; its size field may be complete.   *)
CutShort ==
  /\ state = "sent" /\ ~cut
  /\ \E n \in 0..(packet.len - 1) :
       packet' = [packet EXCEPT !.len = n, !.json = None]
  /\ cut' = TRUE
  /\ UNCHANGED <<type, payload, layers, left, hop, state>>

Parse ==
  /\ state \in {"sent", "foreign"}
  /\ state' = IF state = "sent" /\ ParseJunk(packet) = "throws"
                THEN "rejected"
              ELSE IF state = "sent" /\ ParseJunk(packet) = "plaintext"
                THEN "passed" ELSE ParseJunk(packet)
  /\ UNCHANGED <<type, payload, layers, left, hop, packet, cut>>

(* What the hop got out of its layer is the size field, `size' bytes and   *)
(* `rest' bytes behind them, and the size field says so.                   *)
Intact(size, rest) ==
  /\ encode_size(size) = size
  /\ layers[hop] - IvLength[type] - TagLength[type] = Prefix + size + rest

(* The storage server splits the plaintext at its size field and sends     *)
(* what it takes for the ciphertext on ...                                 *)
Forward ==
  /\ state = "passed" /\ hop < Len(layers)
  /\ state' = IF Intact(layers[hop + 1], Routing) THEN "sent" ELSE "garbled"
  /\ hop' = hop + 1
  /\ packet' = frame(layers[hop + 1], encode_size(layers[hop + 1]))
  /\ UNCHANGED <<type, payload, layers, left, cut>>

(* ... or handles what it takes for the payload.                           *)
Arrive ==
  /\ state = "passed" /\ hop = Len(layers)
  /\ state' = IF Intact(payload, Control) THEN "arrived" ELSE "garbled"
  /\ UNCHANGED <<type, payload, layers, left, hop, packet, cut>>

(* A reply of any length, nothing behind it, in maybeDecryptResponse.      *)
Reply ==
  /\ state = "arrived"
  /\ \E n \in 0..MaxPacket : state' = decrypt(type, n, 0)
  /\ UNCHANGED <<type, payload, layers, left, hop, packet, cut>>

Next ==
  \/ WrapForLast \/ WrapForHop
  \/ FinishOnion \/ CutShort \/ Parse \/ Forward \/ Arrive \/ Reply

Spec == Init /\ [][Next]_vars

-------------------------------------------------------------------------------
(* encrypt_openssl and encrypt_xchacha20 write no more than they have      *)
(* allocated, whatever the length and the cipher.                          *)
FitsBuffer ==
  \A enc \in EncryptType, n \in {payload} \cup {layers[i] : i \in DOMAIN layers} :
    encrypt(enc, n) # None => encrypt(enc, n) <= buffer(enc, n)

(* What becomes of an onion too large for a size field or an int.  Sizes   *)
(* grow outwards: with xchacha20 the outermost size field wraps around if  *)
(* any does, the first hop refuses the packet, and nothing is routed in    *)
(* part.  With AES-GCM MakeOnion throws for plaintexts of 2^31 bytes up to *)
(* 2^32; beyond, the innermost layer, and no other, is cut to the low half *)
(* of its length, all hops pass the onion on, and the last one gets        *)
(* something else than the payload.  Packets that arrive cut short are     *)
(* refused at whatever hop, and every other onion arrives whole.           *)
AllOrNothing ==
  /\ state = "thrown" =>
       /\ type = "aes_gcm"
       /\ Prefix + (IF layers = << >> THEN payload + Control
                                      ELSE Head(layers) + Routing) >= IntLimit
  /\ state = "garbled" => /\ type = "aes_gcm" /\ hop = Len(layers)
                          /\ Prefix + payload + Control >= Limit
  /\ state = "rejected" => cut \/ (type = "xchacha20" /\ hop = 1 /\ layers[1] >= Limit)
  /\ state \in {"passed", "arrived"} => layers[1] < Limit
  /\ state = "arrived" => Prefix + payload + Control < Limit
  /\ cut => state \in {"sent", "rejected"}

(* Nothing is read or removed beyond the end of a packet or a reply, for   *)
(* packets of any origin: a ciphertext shorter than the iv of CBC, which   *)
(* has no tag whose length is checked, is always followed by the text of a *)
(* key, and makers do not offer CBC.                                       *)
InBounds == state # "undefined"
===============================================================================
