--------------------------- MODULE OnionSizesProofs ----------------------------
(***************************************************************************)
(* Proofs about OnionSizes for every length of payloads, packets and       *)
(* paths, every limit of the size fields and every length of iv, tag and   *)
(* block.                                                                  *)
(***************************************************************************)
EXTENDS OnionSizes, TLAPS

(* What fits a size field is read as it was written; what does not, is     *)
(* read as something smaller.                                              *)
LEMMA EncodeSize ==
  ASSUME NEW n \in Nat
  PROVE  /\ encode_size(n) \in 0..(Limit - 1) /\ encode_size(n) <= n
         /\ n < Limit => encode_size(n) = n
<1>1. Limit \in Nat \ {0}
  BY LengthsAssumption
<1>2. n % Limit \in 0..(Limit - 1) /\ (n < Limit => n % Limit = n)
  BY <1>1
<1>3. n % Limit <= n
  BY <1>1, <1>2
<1> QED BY <1>2, <1>3 DEF encode_size

(* A length that fits an int reaches OpenSSL unchanged; another one is     *)
(* negative there, or smaller.                                             *)
LEMMA ToInt ==
  ASSUME NEW n \in Nat
  PROVE  /\ to_int(n) \in Int
         /\ to_int(n) >= 0 => /\ to_int(n) = n % Limit /\ to_int(n) < IntLimit
                              /\ to_int(n) <= n
         /\ n < IntLimit => to_int(n) = n
<1>1. IntLimit \in Nat \ {0} /\ Limit = 2 * IntLimit
  BY LengthsAssumption
<1>2. PICK low \in 0..(Limit - 1) : low = n % Limit /\ low <= n
                                    /\ (n < Limit => low = n)
  BY EncodeSize DEF encode_size
<1>3. to_int(n) = IF low < IntLimit THEN low ELSE low - Limit
  BY <1>2 DEF to_int
<1> QED BY ONLY <1>1, <1>2, <1>3, n \in Nat

(* A whole number of blocks is not longer than what is divided into them.  *)
LEMMA BlocksFit ==
  ASSUME NEW n \in Nat, NEW b \in Nat \ {0}
  PROVE  (n \div b) \in Nat /\ (n \div b) * b <= n
OBVIOUS

(* Overhead of a ciphertext: it is longer than what is encrypted by iv and *)
(* tag, and by a block at most.                                            *)
LEMMA OpensslGrows ==
  ASSUME NEW enc \in EncryptType, NEW n \in Nat, to_int(n) >= 0
  PROVE  /\ encrypt_openssl(enc, n) \in Nat
         /\ encrypt_openssl(enc, n) <=
              IvLength[enc] + n + TagLength[enc] + BlockSize[enc]
         /\ enc # "aes_cbc" =>
              encrypt_openssl(enc, n) = to_int(n) + IvLength[enc] + TagLength[enc]
<1>1. PICK len \in Nat : len = to_int(n) /\ len <= n
  BY ToInt
<1> DEFINE iv == IvLength[enc]
           tag == TagLength[enc]
           b == BlockSize[enc]
           k == len \div b
<1>2. iv \in Nat /\ tag \in Nat /\ b \in Nat \ {0}
  BY LengthsAssumption
<1>3. k \in Nat /\ k * b <= len /\ k * b \in Nat
  BY <1>2, BlocksFit
<1>4. (k + 1) * b = k * b + b
  BY <1>2, <1>3
<1>5. encrypt_openssl(enc, n) =
        iv + tag + (IF enc = "aes_cbc" THEN (k + 1) * b ELSE len)
  BY <1>1 DEF encrypt_openssl
<1> HIDE DEF iv, tag, b, k
<1>6. encrypt_openssl(enc, n) \in Nat /\ encrypt_openssl(enc, n) <= iv + n + tag + b
  BY <1>1, <1>2, <1>3, <1>4, <1>5
<1>7. enc # "aes_cbc" => encrypt_openssl(enc, n) = len + iv + tag
  BY <1>1, <1>2, <1>5
<1> QED BY <1>1, <1>6, <1>7 DEF iv, tag, b

(* The ciphertexts of a maker's layers, and of any cipher.                 *)
LEMMA EncryptGrows ==
  ASSUME NEW enc \in EncryptType, NEW n \in Nat
  PROVE  /\ encrypt(enc, n) # None =>
              encrypt(enc, n) \in Nat /\ encrypt(enc, n) <= buffer(enc, n)
         /\ enc = "xchacha20" =>
              /\ encrypt(enc, n) # None
              /\ encrypt(enc, n) = n + IvLength[enc] + TagLength[enc]
         /\ enc = "aes_gcm" =>
              /\ encrypt(enc, n) = None <=> to_int(n) < 0
              /\ to_int(n) >= 0 =>
                   encrypt(enc, n) = to_int(n) + IvLength[enc] + TagLength[enc]
<1>1. IvLength[enc] \in Nat /\ TagLength[enc] \in Nat /\ None \notin Nat
  BY LengthsAssumption, BoundsAssumption
<1>2. to_int(n) \in Int
  BY ToInt
<1>3. CASE enc = "xchacha20"
  BY <1>1, <1>3 DEF encrypt, encrypt_xchacha20, buffer
<1>4. CASE enc # "xchacha20"
  <2>1. encrypt(enc, n) = encrypt_openssl(enc, n)
    BY <1>4 DEF encrypt
  <2>2. to_int(n) < 0 => encrypt_openssl(enc, n) = None
    BY DEF encrypt_openssl
  <2>3. buffer(enc, n) = IvLength[enc] + n + TagLength[enc] + BlockSize[enc]
    BY <1>4 DEF buffer
  <2>4. CASE to_int(n) < 0
    BY <1>2, <1>4, <2>1, <2>2, <2>4
  <2>5. CASE to_int(n) >= 0
    <3>1. /\ encrypt(enc, n) \in Nat /\ encrypt(enc, n) <= buffer(enc, n)
          /\ enc # "aes_cbc" =>
               encrypt(enc, n) = to_int(n) + IvLength[enc] + TagLength[enc]
      BY <2>1, <2>3, <2>5, OpensslGrows
    <3>2. encrypt(enc, n) # None /\ ~(to_int(n) < 0)
      BY <1>1, <1>2, <2>5, <3>1
    <3> QED BY <1>4, <3>1, <3>2
  <2> QED BY <1>2, <2>4, <2>5
<1> QED BY <1>3, <1>4

(* Decrypting reads within its memory if the cipher has a tag, or enough   *)
(* follows the ciphertext.                                                 *)
LEMMA DecryptInBounds ==
  ASSUME NEW enc \in EncryptType, NEW n \in Nat, NEW after \in Nat,
         enc \in MakerType \/ IvLength[enc] <= after
  PROVE  decrypt(enc, n, after) \in {"throws", "plaintext"}
<1>1. PICK iv \in Nat, tag \in Nat :
        /\ iv = IvLength[enc] /\ tag = TagLength[enc]
        /\ enc \in MakerType => tag > 0
  BY LengthsAssumption DEF MakerType
<1>2. PICK rest \in Nat : rest = n - taken(enc, n) /\ (n < iv => rest = 0)
  BY <1>1 DEF taken
<1>3. rest >= tag => iv <= n + after
  BY <1>1, <1>2
<1>4. rest >= TagLength[enc] => ~(IvLength[enc] > n + after)
  BY <1>1, <1>3
<1>5. rest = n - taken(enc, n)
  BY <1>2
<1>6. CASE enc = "xchacha20"
  BY <1>4, <1>5, <1>6 DEF decrypt, decrypt_xchacha20
<1>7. CASE enc # "xchacha20"
  <2>1. decrypt(enc, n, after) = decrypt_openssl(enc, n, after)
    BY <1>7 DEF decrypt
  <2> QED BY ONLY <1>4, <1>5, <2>1 DEF decrypt_openssl
<1> QED BY <1>6, <1>7

(* What an onion's maker encrypted is long enough to be decrypted.         *)
LEMMA DecryptOwn ==
  ASSUME NEW enc \in MakerType, NEW n \in Nat, NEW after \in Nat,
         n >= IvLength[enc] + TagLength[enc],
         enc = "aes_gcm" => n < IvLength[enc] + TagLength[enc] + IntLimit
  PROVE  decrypt(enc, n, after) = "plaintext"
<1>1. PICK iv \in Nat, tag \in Nat : iv = IvLength[enc] /\ tag = TagLength[enc]
  BY LengthsAssumption DEF MakerType, EncryptType
<1>2. n - taken(enc, n) = n - iv /\ iv <= n + after
  BY <1>1 DEF taken
<1>3. PICK rest \in Nat : rest = n - iv /\ rest >= tag
  BY <1>1
<1>4. CASE enc = "xchacha20"
  BY <1>1, <1>2, <1>3, <1>4 DEF decrypt, decrypt_xchacha20
<1>5. CASE enc = "aes_gcm"
  <2>1. IntLimit \in Nat /\ rest - tag \in Nat /\ rest - tag < IntLimit
    BY <1>1, <1>3, <1>5, LengthsAssumption
  <2>2. to_int(rest - tag) = rest - tag /\ ~(to_int(rest - tag) < 0)
    BY <2>1, ToInt
  <2>3. decrypt(enc, n, after) = decrypt_openssl(enc, n, after) /\ enc # "aes_cbc"
    BY <1>5 DEF decrypt
  <2>4. /\ n - taken(enc, n) = rest /\ TagLength[enc] = tag
        /\ ~(rest < tag) /\ ~(IvLength[enc] > n + after)
    BY <1>1, <1>2, <1>3
  <2> QED BY ONLY <2>2, <2>3, <2>4 DEF decrypt_openssl
<1> QED BY <1>4, <1>5 DEF MakerType

(* A packet of any origin: json with a key has room for the key.           *)
PacketOK(p) ==
  /\ p \in [len : Nat, field : Nat, json : Nat \cup {None}, key : BOOLEAN,
            enc : EncryptType]
  /\ p.key /\ p.json # None => p.len - Prefix - p.json >= KeyChars

(* ParseJunk reads nothing beyond the end of a packet, whoever made it.    *)
LEMMA ParseInBounds ==
  ASSUME NEW p, PacketOK(p)
  PROVE  /\ ParseJunk(p) \in {"throws", "plaintext"}
         /\ p.json = None => ParseJunk(p) = "throws"
<1> DEFINE data == p.len - Prefix
<1>1. /\ p.len \in Nat /\ p.field \in Nat /\ p.enc \in EncryptType
      /\ p.json \in Nat \cup {None} /\ p.key \in BOOLEAN
      /\ Prefix \in Nat /\ data \in Int /\ None \notin Nat
  BY LengthsAssumption, BoundsAssumption DEF PacketOK
<1>2. CASE data < 0 \/ data < p.field
  BY <1>1, <1>2 DEF ParseJunk, enough
<1>3. CASE data >= p.field /\ (p.json # p.field \/ ~p.key)
  <2>1. data >= 0
    BY <1>1, <1>3
  <2> QED BY <1>1, <1>3, <2>1 DEF ParseJunk, enough
<1>4. CASE data >= p.field /\ p.json = p.field /\ p.key
  <2>1. data >= 0 /\ p.json # None /\ data - p.field \in Nat
    BY <1>1, <1>4
  <2>2. ParseJunk(p) = decrypt(p.enc, p.field, data - p.field)
    BY <1>1, <1>4, <2>1 DEF ParseJunk, enough
  <2>3. data - p.field >= KeyChars
    BY <1>1, <1>4, <2>1 DEF PacketOK
  <2>4. p.enc \in MakerType \/ IvLength[p.enc] <= data - p.field
    BY <1>1, <2>1, <2>3, LengthsAssumption DEF EncryptType, MakerType
  <2> QED BY <1>1, <2>1, <2>2, <2>4, DecryptInBounds
<1> QED BY <1>1, <1>2, <1>3, <1>4

(* A hop passes on a whole packet of an onion if its size fits the size    *)
(* field, and refuses it if not.                                           *)
LEMMA ParseOwn ==
  ASSUME type \in MakerType, NEW n \in Nat,
         n >= IvLength[type] + TagLength[type],
         type = "aes_gcm" => n < IvLength[type] + TagLength[type] + IntLimit
  PROVE  /\ PacketOK(frame(n, encode_size(n)))
         /\ ParseJunk(frame(n, encode_size(n))) =
              IF n < Limit THEN "plaintext" ELSE "throws"
<1> DEFINE p == frame(n, encode_size(n))
           f == encode_size(n)
<1>1. f \in Nat /\ f <= n /\ (n < Limit <=> f = n)
  BY EncodeSize, LengthsAssumption
<1>2. Prefix \in Nat /\ Opening \in Nat /\ KeyChars \in Nat /\ KeyChars <= Opening
  BY LengthsAssumption
<1>3. /\ p.len = Prefix + n + Opening /\ p.field = f /\ p.json = n
      /\ p.key = TRUE /\ p.enc = type
  BY DEF frame
<1> HIDE DEF f
<1>4. PacketOK(p)
  BY <1>1, <1>2, <1>3 DEF PacketOK, frame, MakerType, EncryptType, f
<1> HIDE DEF p
<1>5. p.len - Prefix = n + Opening /\ n + Opening >= f /\ n + Opening >= 0
  BY <1>1, <1>2, <1>3
<1>6. CASE n < Limit
  <2>1. p.json = p.field /\ p.len - Prefix >= p.field /\ p.len - Prefix >= 0
    BY <1>1, <1>3, <1>5, <1>6
  <2>2. ParseJunk(p) = decrypt(p.enc, p.field, (p.len - Prefix) - p.field)
    BY <1>3, <1>5, <2>1, <1>1, <1>2 DEF ParseJunk, enough
  <2>3. p.field = n /\ (p.len - Prefix) - p.field \in Nat
    BY <1>1, <1>2, <1>3, <1>5, <1>6
  <2> QED BY <1>3, <1>4, <1>6, <2>2, <2>3, DecryptOwn DEF p, f
<1>7. CASE ~(n < Limit)
  <2>1. p.json # p.field
    BY <1>1, <1>3, <1>7
  <2>2. ParseJunk(p) = "throws"
    BY <1>3, <1>5, <2>1 DEF ParseJunk, enough
  <2> QED BY <1>4, <1>7, <2>2 DEF p, f
<1> QED BY <1>6, <1>7

-------------------------------------------------------------------------------
Overhead == IvLength[type] + TagLength[type]
Innermost == Prefix + payload + Control

(* A layer is as long as what it wraps and what is added to that, except   *)
(* for the innermost one with AES-GCM, of which the low half of the length *)
(* is left.  With AES-GCM every plaintext fits an int.                     *)
LayersInv ==
  /\ type \in MakerType /\ payload \in Nat /\ layers \in Seq(Nat)
  /\ \A i \in 1..Len(layers) :
       /\ i < Len(layers) => layers[i] = Overhead + Prefix + layers[i + 1] + Routing
       /\ i = Len(layers) =>
            layers[i] = Overhead + (IF type = "aes_gcm" THEN Innermost % Limit
                                                        ELSE Innermost)
       /\ layers[i] >= Overhead /\ layers[i] <= layers[1]
       /\ type = "aes_gcm" => layers[i] < Overhead + IntLimit
       /\ type = "xchacha20" => layers[i] >= Overhead + Innermost

State == {"wrapping", "thrown", "foreign", "sent", "rejected", "passed", "arrived",
          "garbled", "throws", "plaintext"}

(* An onion is finished when it has a layer for every hop; MakeOnion       *)
(* throws for a plaintext that is too long for an int.                     *)
WrapInv ==
  /\ left \in Nat
  /\ state \in {"sent", "passed"} => layers # << >>
  /\ state = "wrapping" => layers # << >> \/ left > 0
  /\ state = "thrown" =>
       /\ type = "aes_gcm"
       /\ Prefix + (IF layers = << >> THEN payload + Control
                                      ELSE Head(layers) + Routing) >= IntLimit

(* The packet is of some sender's making; on its way it is the frame of    *)
(* the layer for its hop, or has lost its json.                            *)
PacketInv ==
  /\ PacketOK(packet) /\ state \in State /\ cut \in BOOLEAN
  /\ hop \in 0..Len(layers)
  /\ state \in {"sent", "passed"} => hop >= 1
  /\ state = "sent" /\ ~cut =>
       packet = frame(layers[hop], encode_size(layers[hop]))
  /\ state = "sent" /\ cut => packet.json = None

(* What has passed a hop fits the outermost size field, and what was too   *)
(* long for the innermost layer does not arrive.                           *)
FitInv ==
  /\ state = "sent" => hop = 1 \/ layers[1] < Limit
  /\ state = "rejected" => cut \/ (type = "xchacha20" /\ hop = 1 /\ layers[1] >= Limit)
  /\ state \in {"passed", "arrived"} => layers[1] < Limit
  /\ state = "arrived" => Innermost < Limit
  /\ state = "garbled" => /\ type = "aes_gcm" /\ hop = Len(layers)
                          /\ Innermost >= Limit
  /\ cut => state \in {"sent", "rejected"}

Inv == LayersInv /\ WrapInv /\ PacketInv /\ FitInv

(* Before MakeOnion's first layer the invariant holds, and so it does for  *)
(* a packet of another sender.                                             *)
LEMMA InitInv == Init => Inv
<1> SUFFICES ASSUME Init PROVE Inv
  OBVIOUS
<1>1. /\ payload \in Nat /\ type \in MakerType /\ layers = << >> /\ Len(layers) = 0
      /\ left \in Nat /\ (state = "wrapping" => left > 0)
      /\ state \in {"wrapping", "foreign"} /\ hop = 0 /\ cut = FALSE
  BY BoundsAssumption DEF Init, InitOnion, InitForeign, MakerType
<1>2. LayersInv
  BY <1>1 DEF LayersInv
<1>3. WrapInv
  BY <1>1 DEF WrapInv
<1>4. PacketOK(packet)
  <2>1. CASE InitOnion
    BY <2>1, BoundsAssumption, LengthsAssumption
       DEF InitOnion, NoPacket, PacketOK, EncryptType
  <2>2. CASE InitForeign
    <3>1. packet \in [len : 0..MaxPacket, field : 0..(Limit - 1),
                      json : 0..MaxPacket \cup {None}, key : BOOLEAN,
                      enc : EncryptType]
      BY <2>2 DEF InitForeign
    <3>2. packet.json # None /\ packet.key => packet.len - Prefix - packet.json >= KeyChars
      BY <2>2 DEF InitForeign
    <3> QED BY <3>1, <3>2, BoundsAssumption, LengthsAssumption DEF PacketOK
  <2> QED BY <2>1, <2>2 DEF Init
<1>5. PacketInv
  <2>1. state \in State /\ state # "sent" /\ state # "passed"
    BY <1>1 DEF State
  <2>2. hop \in 0..Len(layers)
    BY <1>1
  <2>3. cut \in BOOLEAN
    BY <1>1
  <2> QED BY <1>4, <2>1, <2>2, <2>3 DEF PacketInv
<1>6. FitInv
  BY <1>1 DEF FitInv
<1> QED BY <1>2, <1>3, <1>5, <1>6 DEF Inv

(* The lengths that are added are natural numbers, and small.              *)
LEMMA OverheadFits ==
  ASSUME type \in MakerType
  PROVE  /\ Overhead \in Nat /\ Overhead = IvLength[type] + TagLength[type]
         /\ Prefix \in Nat \ {0} /\ {Routing, Control} \subseteq Nat
         /\ IntLimit \in Nat \ {0} /\ Limit = 2 * IntLimit
         /\ type = "aes_gcm" => Prefix + Routing + Overhead <= IntLimit
<1>1. IvLength[type] \in Nat /\ TagLength[type] \in Nat
  BY LengthsAssumption DEF MakerType, EncryptType
<1>2. type = "aes_gcm" => Prefix + Routing + Overhead <= IntLimit
  <2> SUFFICES ASSUME type = "aes_gcm" PROVE Prefix + Routing + Overhead <= IntLimit
    OBVIOUS
  <2>1. /\ Prefix + Routing + IvLength["aes_gcm"] + TagLength["aes_gcm"] <= IntLimit
        /\ Prefix \in Nat /\ Routing \in Nat
    BY LengthsAssumption
  <2> QED BY <1>1, <2>1 DEF Overhead
<1> QED BY <1>1, <1>2, LengthsAssumption DEF Overhead

(* What a maker's layer around n bytes is as long as.                      *)
LEMMA LayerLength ==
  ASSUME type \in MakerType, NEW n \in Nat
  PROVE  /\ encrypt(type, n) = None => type = "aes_gcm" /\ n >= IntLimit
         /\ encrypt(type, n) # None =>
              /\ encrypt(type, n) \in Nat /\ encrypt(type, n) >= Overhead
              /\ encrypt(type, n) = Overhead + (IF type = "aes_gcm" THEN n % Limit
                                                                    ELSE n)
              /\ type = "aes_gcm" => encrypt(type, n) < Overhead + IntLimit
<1>1. /\ Overhead \in Nat /\ IntLimit \in Nat
      /\ IvLength[type] \in Nat /\ TagLength[type] \in Nat
      /\ Overhead = IvLength[type] + TagLength[type]
  BY OverheadFits, LengthsAssumption DEF MakerType, EncryptType
<1>2. CASE type = "xchacha20"
  <2>1. encrypt(type, n) # None /\ encrypt(type, n) = n + Overhead
    BY <1>1, <1>2, EncryptGrows DEF EncryptType
  <2> QED BY <1>1, <1>2, <2>1
<1>3. CASE type = "aes_gcm"
  <2>1. /\ encrypt(type, n) = None <=> to_int(n) < 0
        /\ to_int(n) >= 0 => encrypt(type, n) = to_int(n) + IvLength[type] + TagLength[type]
    BY <1>3, EncryptGrows DEF EncryptType
  <2>2. CASE to_int(n) < 0
    <3>1. n >= IntLimit
      BY <1>1, <2>2, ToInt
    <3> QED BY <1>3, <2>1, <2>2, <3>1
  <2>3. CASE to_int(n) >= 0
    <3>1. PICK len \in Nat : len = to_int(n) /\ len = n % Limit /\ len < IntLimit
      BY <2>3, ToInt
    <3>2. encrypt(type, n) = len + Overhead /\ encrypt(type, n) # None
      BY <1>1, <2>1, <2>3, <3>1
    <3>3. len + Overhead >= Overhead /\ len + Overhead < Overhead + IntLimit
          /\ len + Overhead \in Nat /\ len + Overhead = Overhead + len
      BY <1>1, <3>1
    <3> QED BY <1>3, <3>1, <3>2, <3>3
  <2> QED BY <2>2, <2>3, ToInt
<1> QED BY <1>2, <1>3 DEF MakerType

(* The innermost layer is as long as the invariant says.                   *)
LEMMA WrapForLastPreservesInv ==
  ASSUME Inv, WrapForLast
  PROVE  Inv'
<1> DEFINE n == Innermost
<1>1. /\ type \in MakerType /\ payload \in Nat /\ layers = << >> /\ left \in Nat
      /\ state = "wrapping" /\ left > 0 /\ hop = 0 /\ ~cut
      /\ UNCHANGED <<type, payload, hop, packet, cut>>
  BY DEF Inv, LayersInv, WrapInv, PacketInv, FitInv, WrapForLast
<1>2. n \in Nat /\ n = Prefix + payload + Control /\ n = Prefix + (payload + Control)
  BY <1>1, OverheadFits DEF Innermost
<1>3. Overhead' = Overhead /\ Innermost' = Innermost
  BY <1>1 DEF Overhead, Innermost
<1>4. Overhead \in Nat
  BY <1>1, OverheadFits
<1> HIDE DEF n
<1>5. CASE encrypt(type, n) = None
  <2>1. state' = "thrown" /\ layers' = layers /\ left' = left
    BY <1>2, <1>5 DEF WrapForLast, Wrap
  <2>2. type = "aes_gcm" /\ Prefix + (payload + Control) >= IntLimit
    BY <1>1, <1>2, <1>5, LayerLength
  <2>3. LayersInv'
    BY <1>1, <1>3, <2>1 DEF Inv, LayersInv
  <2>4. WrapInv'
    BY <1>1, <2>1, <2>2 DEF WrapInv
  <2>5. PacketInv' /\ FitInv'
    BY <1>1, <2>1 DEF Inv, PacketInv, FitInv, State, PacketOK
  <2> QED BY <2>3, <2>4, <2>5 DEF Inv
<1>6. CASE encrypt(type, n) # None
  <2>1. PICK e \in Nat :
          /\ e = encrypt(type, n) /\ e >= Overhead
          /\ e = Overhead + (IF type = "aes_gcm" THEN n % Limit ELSE n)
          /\ type = "aes_gcm" => e < Overhead + IntLimit
    BY <1>1, <1>2, <1>6, LayerLength
  <2>2. state' = state /\ layers' = <<e>> \o layers /\ left' = left - 1
    BY <1>2, <1>6, <2>1 DEF WrapForLast, Wrap
  <2>3. layers' \in Seq(Nat) /\ layers' # << >> /\ Len(layers') = 1 /\ layers'[1] = e
    BY <1>1, <2>2
  <2>4. type = "xchacha20" => e >= Overhead + Innermost
    BY <1>2, <1>4, <2>1 DEF n
  <2>5. LayersInv'
    <3> SUFFICES ASSUME NEW i \in 1..Len(layers')
                 PROVE  (/\ i < Len(layers) =>
                              layers[i] = Overhead + Prefix + layers[i + 1] + Routing
                         /\ i = Len(layers) =>
                              layers[i] = Overhead + (IF type = "aes_gcm"
                                                        THEN Innermost % Limit
                                                        ELSE Innermost)
                         /\ layers[i] >= Overhead /\ layers[i] <= layers[1]
                         /\ type = "aes_gcm" => layers[i] < Overhead + IntLimit
                         /\ type = "xchacha20" => layers[i] >= Overhead + Innermost)'
      BY <1>1, <2>3 DEF LayersInv
    <3>1. i = 1 /\ layers'[i] = e
      BY <2>3
    <3> QED BY <1>1, <1>3, <2>1, <2>3, <2>4, <3>1 DEF n
  <2>6. WrapInv'
    BY <1>1, <2>2, <2>3 DEF WrapInv
  <2>7. PacketInv' /\ FitInv'
    BY <1>1, <2>2, <2>3 DEF Inv, PacketInv, FitInv, State, PacketOK
  <2> QED BY <2>5, <2>6, <2>7 DEF Inv
<1> QED BY <1>5, <1>6

(* A turn of MakeOnion's loop puts a longer layer outside; with AES-GCM    *)
(* the one inside is short enough for nothing to be cut off.               *)
LEMMA WrapForHopPreservesInv ==
  ASSUME Inv, WrapForHop
  PROVE  Inv'
<1>1. /\ type \in MakerType /\ payload \in Nat /\ layers \in Seq(Nat) /\ layers # << >>
      /\ left \in Nat /\ left > 0 /\ state = "wrapping"
      /\ UNCHANGED <<type, payload, hop, packet, cut>>
  BY DEF Inv, LayersInv, WrapInv, WrapForHop
<1>2. PICK h \in Nat : h = layers[1] /\ h = Head(layers) /\ Len(layers) \in Nat \ {0}
  BY <1>1
<1>3. /\ Overhead \in Nat /\ Prefix \in Nat \ {0} /\ Routing \in Nat
      /\ IntLimit \in Nat \ {0} /\ Limit = 2 * IntLimit /\ Innermost \in Nat
      /\ type = "aes_gcm" => Prefix + Routing + Overhead <= IntLimit
  BY <1>1, OverheadFits DEF Innermost
<1>4. /\ type = "aes_gcm" => h < Overhead + IntLimit
      /\ type = "xchacha20" => h >= Overhead + Innermost
  BY <1>2 DEF Inv, LayersInv
<1>5. PICK n \in Nat : n = Prefix + h + Routing /\ n > h
  BY <1>2, <1>3
<1>6. type = "aes_gcm" => n < Limit
  BY <1>2, <1>3, <1>4, <1>5
<1>7. type = "aes_gcm" => n % Limit = n
  BY <1>3, <1>5, <1>6, EncodeSize DEF encode_size
<1>8. Overhead' = Overhead /\ Innermost' = Innermost
  BY <1>1 DEF Overhead, Innermost
<1>9. Wrap(n)
  BY <1>2, <1>5 DEF WrapForHop
<1>10. CASE encrypt(type, n) = None
  <2>1. state' = "thrown" /\ layers' = layers /\ left' = left
    BY <1>9, <1>10 DEF Wrap
  <2>2. type = "aes_gcm" /\ n >= IntLimit
    BY <1>1, <1>10, LayerLength
  <2>3. n = Prefix + (h + Routing)
    BY <1>2, <1>3, <1>5
  <2>4. LayersInv'
    BY <1>1, <1>8, <2>1 DEF Inv, LayersInv
  <2>5. WrapInv'
    BY <1>1, <1>2, <2>1, <2>2, <2>3 DEF WrapInv
  <2>6. PacketInv' /\ FitInv'
    BY <1>1, <2>1 DEF Inv, PacketInv, FitInv, State, PacketOK
  <2> QED BY <2>4, <2>5, <2>6 DEF Inv
<1>11. CASE encrypt(type, n) # None
  <2>1. PICK e \in Nat :
          /\ e = encrypt(type, n) /\ e >= Overhead
          /\ e = Overhead + (IF type = "aes_gcm" THEN n % Limit ELSE n)
          /\ type = "aes_gcm" => e < Overhead + IntLimit
    BY <1>1, <1>11, LayerLength
  <2>2. e = Overhead + n
    BY <1>7, <2>1
  <2>3. e = Overhead + Prefix + h + Routing /\ e > h
    BY <1>2, <1>3, <1>5, <2>2
  <2>4. type = "xchacha20" => e >= Overhead + Innermost
    BY <1>2, <1>3, <1>4, <2>3
  <2>5. state' = state /\ layers' = <<e>> \o layers /\ left' = left - 1
    BY <1>9, <1>11, <2>1 DEF Wrap
  <2>6. /\ layers' \in Seq(Nat) /\ layers' # << >> /\ Len(layers') = Len(layers) + 1
        /\ layers'[1] = e
        /\ \A i \in 2..Len(layers') : layers'[i] = layers[i - 1]
    BY <1>1, <2>5
  <2>7. LayersInv'
    <3> SUFFICES ASSUME NEW i \in 1..Len(layers')
                 PROVE  (/\ i < Len(layers) =>
                              layers[i] = Overhead + Prefix + layers[i + 1] + Routing
                         /\ i = Len(layers) =>
                              layers[i] = Overhead + (IF type = "aes_gcm"
                                                        THEN Innermost % Limit
                                                        ELSE Innermost)
                         /\ layers[i] >= Overhead /\ layers[i] <= layers[1]
                         /\ type = "aes_gcm" => layers[i] < Overhead + IntLimit
                         /\ type = "xchacha20" => layers[i] >= Overhead + Innermost)'
      BY <1>1, <2>6 DEF LayersInv
    <3>1. CASE i = 1
      <4>1. layers'[i] = e /\ layers'[i + 1] = h /\ i # Len(layers')
        BY <1>2, <2>6, <3>1
      <4> QED BY <1>1, <1>3, <1>8, <2>1, <2>3, <2>4, <2>6, <3>1, <4>1
    <3>2. CASE i # 1
      <4>1. PICK j \in 1..Len(layers) : j = i - 1
        BY <1>2, <2>6, <3>2
      <4>2. /\ layers'[i] = layers[j] /\ layers[j] \in Nat
            /\ i = Len(layers') <=> j = Len(layers)
            /\ i < Len(layers') <=> j < Len(layers)
            /\ i < Len(layers') => layers'[i + 1] = layers[j + 1]
        <5>1. PICK len \in Nat \ {0} : len = Len(layers) /\ Len(layers') = len + 1
          BY <1>2, <2>6
        <5>2. i \in 2..(len + 1) /\ i = j + 1 /\ j \in 1..len
          BY <2>6, <3>2, <4>1, <5>1
        <5>3. layers'[i] = layers[j] /\ layers[j] \in Nat
          <6>1. i \in 2..Len(layers') /\ i - 1 = j
            BY <5>1, <5>2
          <6>2. layers'[i] = layers[i - 1]
            BY <2>6, <6>1
          <6> QED BY <1>1, <4>1, <6>1, <6>2
        <5>4. i < len + 1 => layers'[i + 1] = layers[j + 1]
          <6> SUFFICES ASSUME i < len + 1 PROVE layers'[i + 1] = layers[j + 1]
            OBVIOUS
          <6>1. i + 1 \in 2..Len(layers') /\ (i + 1) - 1 = j + 1
            BY <5>1, <5>2
          <6>2. layers'[i + 1] = layers[(i + 1) - 1]
            BY <2>6, <6>1
          <6> QED BY <6>1, <6>2
        <5> QED BY <5>1, <5>2, <5>3, <5>4
      <4>3. /\ j < Len(layers) => layers[j] = Overhead + Prefix + layers[j + 1] + Routing
            /\ j = Len(layers) =>
                 layers[j] = Overhead + (IF type = "aes_gcm" THEN Innermost % Limit
                                                             ELSE Innermost)
            /\ layers[j] >= Overhead /\ layers[j] <= h
            /\ type = "aes_gcm" => layers[j] < Overhead + IntLimit
            /\ type = "xchacha20" => layers[j] >= Overhead + Innermost
        BY <1>2, <4>1 DEF Inv, LayersInv
      <4>4. layers[j] <= e
        BY <1>2, <2>3, <4>2, <4>3
      <4> QED BY ONLY <1>1, <1>8, <2>6, <4>2, <4>3, <4>4
    <3> QED BY <3>1, <3>2
  <2>8. WrapInv'
    BY <1>1, <2>5, <2>6 DEF WrapInv
  <2>9. PacketInv' /\ FitInv'
    BY <1>1, <1>2, <2>5, <2>6 DEF Inv, PacketInv, FitInv, State, PacketOK
  <2> QED BY <2>7, <2>8, <2>9 DEF Inv
<1> QED BY <1>10, <1>11

(* A layer is framed for its hop.                                          *)
LEMMA FrameOK ==
  ASSUME Inv, NEW i \in 1..Len(layers)
  PROVE  /\ layers[i] \in Nat
         /\ PacketOK(frame(layers[i], encode_size(layers[i])))
         /\ ParseJunk(frame(layers[i], encode_size(layers[i]))) =
              IF layers[i] < Limit THEN "plaintext" ELSE "throws"
         /\ layers[1] < Limit => layers[i] < Limit
         /\ type = "aes_gcm" => layers[i] < Limit
<1>1. /\ layers[i] \in Nat /\ layers[1] \in Nat /\ layers[i] <= layers[1]
      /\ layers[i] >= Overhead /\ type \in MakerType
      /\ type = "aes_gcm" => layers[i] < Overhead + IntLimit
  BY DEF Inv, LayersInv
<1>2. /\ Overhead \in Nat /\ Overhead = IvLength[type] + TagLength[type]
      /\ IntLimit \in Nat /\ Limit = 2 * IntLimit /\ Prefix \in Nat /\ Routing \in Nat
      /\ type = "aes_gcm" => Prefix + Routing + Overhead <= IntLimit
  BY <1>1, OverheadFits
<1>3. Limit \in Nat /\ (type = "aes_gcm" => layers[i] < Limit)
  BY <1>1, <1>2
<1>4. layers[1] < Limit => layers[i] < Limit
  BY <1>1, <1>3
<1>5. /\ PacketOK(frame(layers[i], encode_size(layers[i])))
      /\ ParseJunk(frame(layers[i], encode_size(layers[i]))) =
           IF layers[i] < Limit THEN "plaintext" ELSE "throws"
  BY <1>1, <1>2, ParseOwn
<1> QED BY <1>1, <1>3, <1>4, <1>5

(* A hop that is not the last finds the next layer whole.                  *)
LEMMA ForwardIntact ==
  ASSUME Inv, layers[1] < Limit, hop \in 1..Len(layers), hop < Len(layers)
  PROVE  Intact(layers[hop + 1], Routing)
<1>1. hop + 1 \in 1..Len(layers)
  BY DEF Inv, LayersInv
<1>2. /\ layers[hop] = Overhead + Prefix + layers[hop + 1] + Routing
      /\ type \in MakerType
  BY DEF Inv, LayersInv
<1>3. PICK m \in Nat : m = layers[hop + 1] /\ m < Limit
  BY <1>1, FrameOK
<1>4. encode_size(layers[hop + 1]) = layers[hop + 1]
  BY <1>3, EncodeSize
<1>5. PICK iv \in Nat, tag \in Nat :
        iv = IvLength[type] /\ tag = TagLength[type] /\ Overhead = iv + tag
  BY <1>2, LengthsAssumption DEF Overhead, MakerType, EncryptType
<1>6. Prefix \in Nat /\ Routing \in Nat
  BY LengthsAssumption
<1>7. layers[hop] - iv - tag = Prefix + m + Routing
  <2>1. PICK l \in Nat : l = layers[hop]
    BY DEF Inv, LayersInv
  <2>2. l = iv + tag + Prefix + m + Routing
    BY <1>2, <1>3, <1>5, <2>1
  <2>3. l - iv - tag = Prefix + m + Routing
    BY ONLY <1>3, <1>5, <1>6, <2>1, <2>2
  <2> QED BY <2>1, <2>3
<1> QED BY <1>3, <1>4, <1>5, <1>7 DEF Intact

(* The last hop finds the payload whole unless the length of the innermost *)
(* layer was cut to its low half.                                          *)
LEMMA ArriveIntact ==
  ASSUME Inv, layers[1] < Limit, hop \in 1..Len(layers), hop = Len(layers)
  PROVE  /\ Intact(payload, Control) <=> Innermost < Limit
         /\ Innermost < Limit \/ type = "aes_gcm"
<1>1. /\ layers[hop] = Overhead + (IF type = "aes_gcm" THEN Innermost % Limit
                                                       ELSE Innermost)
      /\ type \in MakerType /\ payload \in Nat
      /\ layers[hop] \in Nat /\ layers[1] \in Nat /\ layers[hop] <= layers[1]
  BY DEF Inv, LayersInv
<1>2. PICK iv \in Nat, tag \in Nat :
        iv = IvLength[type] /\ tag = TagLength[type] /\ Overhead = iv + tag
  BY <1>1, LengthsAssumption DEF Overhead, MakerType, EncryptType
<1>3. Prefix \in Nat /\ Control \in Nat /\ Limit \in Nat \ {0}
  BY LengthsAssumption
<1>4. PICK n \in Nat : n = Innermost /\ n = Prefix + payload + Control /\ payload <= n
  BY <1>1, <1>3 DEF Innermost
<1>5. PICK k \in Nat : k = (IF type = "aes_gcm" THEN n % Limit ELSE n)
  BY <1>3, <1>4
<1>6. layers[hop] - iv - tag = k /\ k < Limit
  <2>1. PICK l \in Nat, m \in Nat : l = layers[hop] /\ m = layers[1] /\ l <= m /\ m < Limit
    BY <1>1
  <2>2. l = iv + tag + k
    BY <1>1, <1>2, <1>4, <1>5, <2>1
  <2>3. l - iv - tag = k /\ k < Limit
    BY ONLY <1>2, <1>3, <1>5, <2>1, <2>2
  <2> QED BY <2>1, <2>3
<1>7. n < Limit <=> k = n
  BY <1>3, <1>4, <1>5, <1>6, EncodeSize DEF encode_size
<1>8. n < Limit => encode_size(payload) = payload
  BY <1>1, <1>3, <1>4, EncodeSize
<1>9. Intact(payload, Control) <=> encode_size(payload) = payload /\ k = n
  BY <1>2, <1>4, <1>6 DEF Intact
<1>10. n < Limit \/ type = "aes_gcm"
  BY <1>3, <1>5, <1>6
<1> QED BY <1>4, <1>7, <1>8, <1>9, <1>10

(* Every other step keeps the invariant.                                   *)
LEMMA StepPreservesInv ==
  ASSUME Inv, Next
  PROVE  Inv'
<1>1. CASE WrapForLast \/ WrapForHop
  BY <1>1, WrapForLastPreservesInv, WrapForHopPreservesInv
<1>0. type \in MakerType /\ layers \in Seq(Nat) /\ Len(layers) \in Nat
  BY DEF Inv, LayersInv
<1>8. UNCHANGED <<type, payload, layers>> =>
        LayersInv' /\ Innermost' = Innermost /\ Overhead' = Overhead
  BY DEF Inv, LayersInv, Innermost, Overhead
<1>2. CASE FinishOnion
  <2>1. /\ state = "wrapping" /\ left = 0 /\ hop' = 1 /\ state' = "sent"
        /\ UNCHANGED <<type, payload, layers, left, cut>> /\ layers # << >>
    BY <1>2 DEF FinishOnion, Inv, WrapInv
  <2>2. 1 \in 1..Len(layers) /\ Head(layers) = layers[1]
    BY <1>0, <2>1
  <2>3. packet' = frame(layers[1], encode_size(layers[1]))
    BY <1>2, <2>2 DEF FinishOnion, outer_size
  <2>4. ~cut
    BY <2>1 DEF Inv, FitInv
  <2>5. PacketOK(packet)'
    <3>1. PacketOK(frame(layers[1], encode_size(layers[1])))
      BY <2>2, FrameOK
    <3> QED BY <2>3, <3>1 DEF PacketOK
  <2>6. WrapInv'
    BY <2>1 DEF Inv, WrapInv
  <2>7. PacketInv' /\ FitInv'
    BY <1>0, <2>1, <2>2, <2>3, <2>4, <2>5 DEF Inv, PacketInv, FitInv, State, frame
  <2> QED BY <1>8, <2>1, <2>6, <2>7 DEF Inv
<1>3. CASE CutShort
  <2>1. PICK n \in 0..(packet.len - 1) :
          packet' = [packet EXCEPT !.len = n, !.json = None]
    BY <1>3 DEF CutShort
  <2>2. /\ state = "sent" /\ cut' = TRUE
        /\ UNCHANGED <<type, payload, layers, left, hop, state>>
    BY <1>3 DEF CutShort
  <2>3. packet'.json = None /\ PacketOK(packet')
    <3>1. PacketOK(packet)
      BY DEF Inv, PacketInv
    <3>2. packet.len \in Nat /\ n \in Nat
      BY <3>1 DEF PacketOK
    <3>3. packet'.json = None /\ packet'.len = n
      BY <2>1, <3>1 DEF PacketOK
    <3> QED BY <2>1, <3>1, <3>2, <3>3 DEF PacketOK
  <2>4. WrapInv'
    BY <2>2 DEF Inv, WrapInv
  <2>5. PacketInv' /\ FitInv'
    BY <2>2, <2>3 DEF Inv, PacketInv, FitInv, PacketOK
  <2> QED BY <1>8, <2>2, <2>4, <2>5 DEF Inv
<1>4. CASE Parse
  <2>1. UNCHANGED <<type, payload, layers, left, hop, packet, cut>>
    BY <1>4 DEF Parse
  <2>2. LayersInv' /\ PacketOK(packet)'
    BY <1>8, <2>1 DEF Inv, PacketInv, PacketOK
  <2>3. ParseJunk(packet) \in {"throws", "plaintext"}
    BY ParseInBounds DEF Inv, PacketInv
  <2>4. CASE state = "foreign"
    <3>1. state' \in {"throws", "plaintext"}
      BY <1>4, <2>3, <2>4 DEF Parse
    <3>2. WrapInv'
      BY <2>1, <3>1 DEF Inv, WrapInv
    <3> QED BY <2>1, <2>2, <2>4, <3>1, <3>2 DEF Inv, PacketInv, FitInv, State
  <2>5. CASE state = "sent" /\ cut
    <3>1. ParseJunk(packet) = "throws"
      BY <2>5, ParseInBounds DEF Inv, PacketInv
    <3>2. state' = "rejected"
      BY <1>4, <2>5, <3>1 DEF Parse
    <3>3. WrapInv'
      BY <2>1, <3>2 DEF Inv, WrapInv
    <3> QED BY <2>1, <2>2, <2>5, <3>2, <3>3 DEF Inv, PacketInv, FitInv, State
  <2>6. CASE state = "sent" /\ ~cut
    <3>1. /\ hop \in 1..Len(layers) /\ layers # << >>
          /\ packet = frame(layers[hop], encode_size(layers[hop]))
      BY <2>6 DEF Inv, PacketInv, WrapInv
    <3>2. PICK n \in Nat : n = layers[hop]
      BY <3>1, FrameOK
    <3>3. /\ ParseJunk(packet) = IF n < Limit THEN "plaintext" ELSE "throws"
          /\ layers[1] < Limit => n < Limit
          /\ type = "aes_gcm" => n < Limit
      BY <3>1, <3>2, FrameOK
    <3>4. state' = IF n < Limit THEN "passed" ELSE "rejected"
      BY <1>4, <2>6, <3>3 DEF Parse
    <3>5. hop = 1 \/ layers[1] < Limit
      BY <2>6 DEF Inv, FitInv
    <3>6. Limit \in Nat
      BY LengthsAssumption
    <3>7. WrapInv'
      BY <2>1, <3>1, <3>4 DEF Inv, WrapInv
    <3>8. PacketInv'
      BY <2>1, <2>2, <3>1, <3>4 DEF Inv, PacketInv, State
    <3>9. FitInv'
      <4>1. CASE n < Limit
        <5>1. state' = "passed" /\ layers[1] < Limit
          BY <3>2, <3>4, <3>5, <4>1
        <5> QED BY <2>1, <2>6, <5>1 DEF FitInv
      <4>2. CASE ~(n < Limit)
        <5>1. state' = "rejected" /\ hop = 1 /\ type # "aes_gcm"
          BY <3>3, <3>4, <3>5, <4>2
        <5>2. layers[1] >= Limit /\ type = "xchacha20"
          BY <1>0, <3>2, <3>6, <4>2, <5>1 DEF MakerType
        <5> QED BY <2>1, <2>6, <5>1, <5>2 DEF FitInv
      <4> QED BY <4>1, <4>2
    <3> QED BY <2>2, <3>7, <3>8, <3>9 DEF Inv
  <2> QED BY <1>4, <2>4, <2>5, <2>6 DEF Parse, Inv, PacketInv
<1>5. CASE Forward
  <2>1. /\ state = "passed" /\ hop < Len(layers) /\ hop' = hop + 1
        /\ packet' = frame(layers[hop + 1], encode_size(layers[hop + 1]))
        /\ UNCHANGED <<type, payload, layers, left, cut>>
    BY <1>5 DEF Forward
  <2>2. hop + 1 \in 1..Len(layers) /\ hop \in 1..Len(layers) /\ layers # << >>
    BY <1>0, <2>1 DEF Inv, PacketInv, WrapInv
  <2>3. layers[1] < Limit /\ ~cut
    BY <2>1 DEF Inv, FitInv
  <2>4. state' = "sent"
    BY <1>5, <2>1, <2>2, <2>3, ForwardIntact DEF Forward
  <2>5. PacketOK(packet)'
    <3>1. PacketOK(frame(layers[hop + 1], encode_size(layers[hop + 1])))
      BY <2>2, FrameOK
    <3> QED BY <2>1, <3>1 DEF PacketOK
  <2>6. WrapInv'
    BY <2>1, <2>2, <2>4 DEF Inv, WrapInv
  <2>7. PacketInv' /\ FitInv'
    BY <1>0, <2>1, <2>2, <2>3, <2>4, <2>5 DEF Inv, PacketInv, FitInv, State, frame
  <2> QED BY <1>8, <2>1, <2>6, <2>7 DEF Inv
<1>6. CASE Arrive
  <2>1. /\ state = "passed" /\ hop = Len(layers)
        /\ UNCHANGED <<type, payload, layers, left, hop, packet, cut>>
    BY <1>6 DEF Arrive
  <2>2. layers[1] < Limit /\ ~cut /\ hop \in 1..Len(layers)
    BY <1>0, <2>1 DEF Inv, FitInv, PacketInv
  <2>3. Innermost \in Nat /\ Limit \in Nat /\ Innermost' = Innermost
    BY <1>8, <2>1, LengthsAssumption DEF Innermost, Inv, LayersInv
  <2>4. \/ state' = "arrived" /\ Innermost < Limit
        \/ state' = "garbled" /\ Innermost >= Limit /\ type = "aes_gcm"
    BY <1>6, <2>1, <2>2, <2>3, ArriveIntact DEF Arrive
  <2>5. WrapInv' /\ PacketInv'
    BY <2>1, <2>4 DEF Inv, WrapInv, PacketInv, PacketOK, State
  <2>6. FitInv'
    BY <2>1, <2>2, <2>3, <2>4 DEF FitInv
  <2> QED BY <1>8, <2>1, <2>5, <2>6 DEF Inv
<1>7. CASE Reply
  <2>1. state = "arrived" /\ UNCHANGED <<type, payload, layers, left, hop, packet, cut>>
    BY <1>7 DEF Reply
  <2>2. PICK n \in 0..MaxPacket : state' = decrypt(type, n, 0)
    BY <1>7 DEF Reply
  <2>3. n \in Nat /\ type \in MakerType /\ type \in EncryptType
    BY BoundsAssumption DEF Inv, LayersInv, MakerType, EncryptType
  <2>4. state' \in {"throws", "plaintext"}
    BY <2>2, <2>3, DecryptInBounds
  <2>5. ~cut
    BY <2>1 DEF Inv, FitInv
  <2>6. WrapInv' /\ PacketInv' /\ FitInv'
    BY <2>1, <2>4, <2>5 DEF Inv, WrapInv, PacketInv, FitInv, PacketOK, State
  <2> QED BY <1>8, <2>1, <2>6 DEF Inv
<1> QED BY <1>1, <1>2, <1>3, <1>4, <1>5, <1>6, <1>7 DEF Next

(* The invariant holds in every reachable state.                           *)
THEOREM InvHolds == Spec => []Inv
<1>1. Inv /\ UNCHANGED vars => Inv'
  BY DEF vars, Inv, LayersInv, WrapInv, PacketInv, FitInv, PacketOK, frame, Overhead,
         Innermost
<1> QED BY <1>1, InitInv, StepPreservesInv, PTL DEF Spec

(* No cipher writes more than was allocated for it.                        *)
THEOREM FitsBufferHolds == Spec => []FitsBuffer
<1>1. Inv => FitsBuffer
  <2> SUFFICES ASSUME Inv, NEW enc \in EncryptType,
                      NEW n \in {payload} \cup {layers[i] : i \in DOMAIN layers}
               PROVE  encrypt(enc, n) # None => encrypt(enc, n) <= buffer(enc, n)
    BY DEF FitsBuffer
  <2>1. n \in Nat
    BY DEF Inv, LayersInv
  <2> QED BY <2>1, EncryptGrows
<1> QED BY <1>1, InvHolds, PTL

(* An onion arrives whole unless it is cut short on its way, or too large: *)
(* MakeOnion throws or the first hop refuses it, or, with AES-GCM and 2^32 *)
(* bytes or more, the last hop gets something else than the payload.  This *)
(* holds for any number of hops.                                           *)
THEOREM AllOrNothingHolds == Spec => []AllOrNothing
<1>1. Inv => AllOrNothing
  BY DEF Inv, WrapInv, PacketInv, FitInv, State, AllOrNothing, Innermost
<1> QED BY <1>1, InvHolds, PTL

(* Parsing packets of any origin and decrypting replies of any length      *)
(* reads nothing out of bounds.                                            *)
THEOREM InBoundsHolds == Spec => []InBounds
<1>1. Inv => InBounds
  BY DEF Inv, PacketInv, State, InBounds
<1> QED BY <1>1, InvHolds, PTL
===============================================================================
