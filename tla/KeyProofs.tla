------------------------------- MODULE KeyProofs -------------------------------
(***************************************************************************)
(* Proofs about keys: KeyForms for texts of every length, and Signatures   *)
(* for every group with the shape of the curve's.                          *)
(***************************************************************************)
EXTENDS KeyForms, Signatures, TLAPS

-------------------------------------------------------------------------------
(* KeyForms                                                                *)

(* A text has a length, and its padding is a part of it.                   *)
LEMMA TextType ==
  ASSUME NEW s \in Text
  PROVE  s.len \in Nat /\ s.pads \in 0..2 /\ s.pads <= s.len
BY BoundAssumption DEF Text

(* parse_pubkey yields a whole key or the null key from every text but one *)
(* form: 44 characters of base64 that end in two '='.                      *)
LEMMA ParsePubkeyWrites ==
  ASSUME NEW s \in Text
  PROVE  /\ parse_pubkey(s) \in 0..32
         /\ parse_pubkey(s) \in {0, 32} \/ (s.len = 44 /\ s.pads = 2)
<1>1. s.len \in Nat /\ s.pads \in 0..2
  BY TextType
<1>2. key_in_base64(s) => \/ s.len = 43 /\ s.pads = 0
                          \/ s.len = 44 /\ s.pads \in {1, 2}
  BY <1>1 DEF key_in_base64, is_base64
<1>3. key_in_base64(s) =>
        from_base64_size(s) = IF s.len = 44 /\ s.pads = 2 THEN 31 ELSE 32
  BY <1>1, <1>2 DEF from_base64_size
<1>4. CASE s.len = 32
  BY <1>4 DEF parse_pubkey, key_in_base64
<1>5. CASE s.len = 64 /\ s.hex
  BY <1>5 DEF parse_pubkey, key_in_base64, from_hex, from_hex_size
<1>6. CASE key_in_base64(s)
  BY <1>2, <1>3, <1>6 DEF parse_pubkey
<1>7. CASE s.len = 52 /\ s.b32z
  BY <1>7 DEF parse_pubkey, key_in_base64, from_base32z_size
<1>8. CASE /\ s.len # 32 /\ ~(s.len = 64 /\ s.hex)
           /\ ~key_in_base64(s) /\ ~(s.len = 52 /\ s.b32z)
  BY <1>8 DEF parse_pubkey
<1> QED BY <1>4, <1>5, <1>6, <1>7, <1>8

(* A signature is 64 bytes or none: 86 characters, or 88 with two '='.     *)
LEMMA SignatureWrites ==
  ASSUME NEW s \in Text
  PROVE  signature_from_base64(s) \in {Threw, 64}
<1>1. s.len \in Nat /\ s.pads \in 0..2
  BY TextType
<1>2. is_base64(s) /\ s.len = 86 => s.pads = 0
  BY <1>1 DEF is_base64
<1> QED BY <1>1, <1>2 DEF signature_from_base64, from_base64_size

(* The loaders that compare the length first write all bytes or throw; the *)
(* one of SNodeInfo writes as many as there are, up to the length, or runs *)
(* past the end of an odd number of characters.                            *)
LEMMA SizedLoadersWrite ==
  ASSUME NEW s \in Text, NEW n \in Nat \ {0}
  PROVE  /\ load_from_hex(s, n) \in {Threw, n}
         /\ load_from_bytes(s, n) \in {Threw, n}
         /\ set_key(s, n) \in {Threw, n}
         /\ uview(s, n) \in {Threw, n}
         /\ \/ LoadFromHex(s, n) \in {Threw} \cup 0..n
            \/ /\ LoadFromHex(s, n) = Overrun
               /\ s.len % 2 = 1 /\ s.len <= 2 * n + 1
<1>1. s.len \in Nat
  BY TextType
<1>2. load_from_hex(s, n) \in {Threw, n}
  BY <1>1 DEF load_from_hex, from_hex, from_hex_size
<1>3. \/ LoadFromHex(s, n) \in {Threw} \cup 0..n
      \/ LoadFromHex(s, n) = Overrun /\ s.len % 2 = 1 /\ s.len <= 2 * n + 1
  BY <1>1 DEF LoadFromHex, from_hex, from_hex_size
<1> QED BY <1>1, <1>2, <1>3 DEF load_from_bytes, set_key, uview

(* What a loader has written.                                              *)
LoadingInv ==
  /\ text \in Text
  /\ WithinTargetUnlessOddHex
  /\ (text.len = 44 /\ text.pads = 2) \/ NullUnlessKey

(* The invariant holds for every text and every loader.                    *)
THEOREM LoadingInvHolds == LoadSpec => []LoadingInv
<1>1. LoadInit => LoadingInv
  BY DEF LoadInit, LoadingInv, WithinTargetUnlessOddHex, NullUnlessKey
<1>2. LoadingInv /\ [LoadNext]_loadvars => LoadingInv'
  <2> SUFFICES ASSUME LoadingInv, [LoadNext]_loadvars PROVE LoadingInv'
    OBVIOUS
  <2>1. ASSUME NEW l \in Loaders, Load(l) PROVE LoadingInv'
    <3> DEFINE n == Target(l)
    <3>1. text \in Text /\ text' = text /\ loader' = l
      BY <2>1 DEF Load, LoadingInv
    <3>2. n = IF l \in {"signature", "signature_arg"} THEN 64 ELSE 32
      BY DEF Target
    <3>3. n \in Nat \ {0} /\ Target(loader') = n
      BY <3>1, <3>2
    <3> HIDE DEF n
    <3>4. CASE l = "parse_pubkey"
      <4>1. written' = parse_pubkey(text) /\ n = 32
        BY <2>1, <3>2, <3>4 DEF Load
      <4> QED BY <3>1, <3>3, <3>4, <4>1, ParsePubkeyWrites
              DEF LoadingInv, WithinTargetUnlessOddHex, NullUnlessKey
    <3>5. CASE l = "signature"
      <4>1. written' = signature_from_base64(text) /\ n = 64
        BY <2>1, <3>2, <3>5 DEF Load
      <4> QED BY <3>1, <3>3, <3>5, <4>1, SignatureWrites
              DEF LoadingInv, WithinTargetUnlessOddHex, NullUnlessKey
    <3>6. CASE l = "LoadFromHex"
      <4>1. written' = LoadFromHex(text, n)
        BY <2>1, <3>6 DEF Load, n
      <4> QED BY <3>1, <3>3, <3>6, <4>1, SizedLoadersWrite
              DEF LoadingInv, WithinTargetUnlessOddHex, NullUnlessKey
    <3>7. CASE l \notin {"parse_pubkey", "signature", "LoadFromHex"}
      <4>1. written' \in {load_from_hex(text, n), load_from_bytes(text, n),
                          set_key(text, n), uview(text, n)}
        BY <2>1, <3>7 DEF Load, Loaders, n
      <4>2. written' \in {Threw, n}
        BY <3>1, <3>3, <4>1, SizedLoadersWrite
      <4> QED BY <3>1, <3>3, <3>7, <4>2
              DEF LoadingInv, WithinTargetUnlessOddHex, NullUnlessKey
    <3> QED BY <3>4, <3>5, <3>6, <3>7
  <2>2. CASE UNCHANGED loadvars
    BY <2>2 DEF loadvars, LoadingInv, WithinTargetUnlessOddHex, NullUnlessKey
  <2> QED BY <2>1, <2>2 DEF LoadNext
<1> QED BY <1>1, <1>2, PTL DEF LoadSpec

(* However long the text is, only SNodeInfo's loader can write behind its  *)
(* target, and only for an odd number of characters.                       *)
THEOREM WithinTargetUnlessOddHexHolds == LoadSpec => []WithinTargetUnlessOddHex
<1>1. LoadingInv => WithinTargetUnlessOddHex
  BY DEF LoadingInv
<1> QED BY <1>1, LoadingInvHolds, PTL

(* parse_pubkey fails what its header says of it only for 44 characters    *)
(* that end in two '='.                                                    *)
THEOREM OnlyTwoPadsLoadNoKey ==
  LoadSpec => []((text.len = 44 /\ text.pads = 2) \/ NullUnlessKey)
<1>1. LoadingInv => ((text.len = 44 /\ text.pads = 2) \/ NullUnlessKey)
  BY DEF LoadingInv
<1> QED BY <1>1, LoadingInvHolds, PTL

-------------------------------------------------------------------------------
(* Signatures: arithmetic modulo the order                                 *)

(* Division with remainder ...                                             *)
LEMMA Division ==
  ASSUME NEW n \in Nat \ {0}, NEW x \in Int
  PROVE  \E k \in Int, m \in 0..(n - 1) : x = n * k + m /\ m = x % n
<1>1. x \div n \in Int
  OBVIOUS
<1>2. x % n \in 0..(n - 1)
  OBVIOUS
<1>3. x = n * (x \div n) + (x % n)
  OBVIOUS
<1> QED BY <1>1, <1>2, <1>3

(* ... is unique.                                                          *)
LEMMA Remainder ==
  ASSUME NEW n \in Nat \ {0}, NEW q \in Int, NEW m \in 0..(n - 1)
  PROVE  (n * q + m) % n = m
<1>1. PICK x \in Int : x = n * q + m
  OBVIOUS
<1>2. PICK k \in Int, s \in 0..(n - 1) : x = n * k + s /\ s = x % n
  BY Division
<1>3. PICK j \in Int : j = q - k
  OBVIOUS
<1>4. n * j = s - m
  BY <1>1, <1>2, <1>3
<1>5. j = 0
  <2>1. j >= 1 => n * j >= n
    OBVIOUS
  <2>2. j <= -1 => n * j <= -n
    OBVIOUS
  <2> QED BY <1>4, <2>1, <2>2
<1>6. s = m
  BY <1>4, <1>5
<1> QED BY <1>1, <1>2, <1>6

(* d is a divisor of x.                                                    *)
Divides(d, x) == \E k \in Int : x = d * k

(* Divisibility by remainders, and back.                                   *)
LEMMA DividesMod ==
  ASSUME NEW n \in Nat \ {0}, NEW x \in Int
  PROVE  x % n = 0 <=> Divides(n, x)
<1>1. PICK k \in Int, m \in 0..(n - 1) : x = n * k + m /\ m = x % n
  BY Division
<1>2. ASSUME x % n = 0 PROVE Divides(n, x)
  <2>1. x = n * k
    BY <1>1, <1>2
  <2> QED BY <2>1 DEF Divides
<1>3. ASSUME NEW j \in Int, x = n * j PROVE x % n = 0
  <2>1. n * j + 0 = x /\ 0 \in 0..(n - 1)
    BY <1>3
  <2>2. (n * j + 0) % n = 0
    BY <2>1, Remainder
  <2> QED BY <2>1, <2>2
<1> QED BY <1>2, <1>3 DEF Divides

(* Eight times a number, modulo eight times another one.                   *)
LEMMA ScaledMod ==
  ASSUME NEW n \in Nat \ {0}, NEW x \in Int
  PROVE  (8 * x) % (8 * n) = 8 * (x % n) /\ x % n \in 0..(n - 1)
<1>1. PICK k \in Int, m \in 0..(n - 1) : x = n * k + m /\ m = x % n
  BY Division
<1>2. 8 * x = (8 * n) * k + 8 * m
  BY <1>1
<1>3. 8 * m \in 0..(8 * n - 1) /\ 8 * n \in Nat \ {0}
  BY <1>1
<1>4. ((8 * n) * k + 8 * m) % (8 * n) = 8 * m
  BY <1>3, Remainder
<1>5. (8 * x) % (8 * n) = 8 * m
  BY <1>2, <1>4
<1> QED BY <1>1, <1>5

(* The base point's order is odd, so that it divides eight times a number  *)
(* only if it divides the number.                                          *)
LEMMA OrderOdd ==
  /\ L \in Nat \ {0} /\ U \in Nat \ {0} /\ 2 * U < L /\ L > 2
  /\ \E j \in Nat : L = 2 * j + 1
<1>1. L \in Nat \ {0} /\ U \in Nat \ {0} /\ 2 * U < L /\ L > 2
  BY OrderAssumption
<1>2. L % 2 # 0
  BY <1>1, OrderAssumption
<1>3. PICK k \in Int, m \in 0..1 : L = 2 * k + m /\ m = L % 2
  <2>1. PICK k \in Int, m \in 0..(2 - 1) : L = 2 * k + m /\ m = L % 2
    BY <1>1, Division
  <2> QED BY <2>1
<1> QED BY <1>1, <1>2, <1>3

LEMMA Halve ==
  ASSUME NEW x \in Int, Divides(L, 2 * x)
  PROVE  Divides(L, x)
<1>1. PICK j \in Nat : L = 2 * j + 1
  BY OrderOdd
<1>2. PICK k \in Int : 2 * x = L * k
  BY DEF Divides
<1>3. k = 2 * (x - j * k)
  BY <1>1, <1>2
<1>4. PICK i \in Int : i = x - j * k
  OBVIOUS
<1>5. 2 * x = L * (2 * i)
  BY <1>2, <1>3, <1>4
<1>6. L * (2 * i) = 2 * (L * i)
  BY OrderOdd
<1>7. x = L * i
  BY <1>5, <1>6, OrderOdd
<1> QED BY <1>7 DEF Divides

LEMMA NoEighth ==
  ASSUME NEW x \in 1..(L - 1)
  PROVE  (8 * x) % L # 0
<1>0. x \in Int /\ L \in Nat \ {0}
  BY OrderOdd
<1> SUFFICES ASSUME (8 * x) % L = 0 PROVE FALSE
  OBVIOUS
<1>1. Divides(L, 8 * x)
  BY <1>0, DividesMod
<1>2. Divides(L, 4 * x)
  <2>1. 8 * x = 2 * (4 * x) /\ 4 * x \in Int
    BY <1>0
  <2> QED BY <1>1, <2>1, Halve
<1>3. Divides(L, 2 * x)
  <2>1. 4 * x = 2 * (2 * x) /\ 2 * x \in Int
    BY <1>0
  <2> QED BY <1>2, <2>1, Halve
<1>4. PICK k \in Int : x = L * k
  BY <1>0, <1>3, Halve DEF Divides
<1>5. k >= 1 => L * k >= L
  BY <1>0
<1>6. k <= 0 => L * k <= 0
  BY <1>0
<1> QED BY <1>0, <1>4, <1>5, <1>6

(* Points: those that are made of scalars are eight times a number.        *)
LEMMA PointArithmetic ==
  ASSUME NEW x \in 0..(L - 1), NEW y \in 0..(L - 1), NEW n \in Int
  PROVE  /\ mul(n, G) = 8 * (n % L) /\ n % L \in 0..(L - 1)
         /\ mul(n, 8 * x) = 8 * ((n * x) % L) /\ (n * x) % L \in 0..(L - 1)
         /\ neg(8 * x) = 8 * ((L - x) % L) /\ (L - x) % L \in 0..(L - 1)
         /\ add(8 * x, 8 * y) = 8 * ((x + y) % L)
<1>0. L \in Nat \ {0} /\ x \in Int /\ y \in Int
  BY OrderOdd
<1>1. mul(n, G) = 8 * (n % L) /\ n % L \in 0..(L - 1)
  <2>1. n * 8 = 8 * n
    OBVIOUS
  <2> QED BY <1>0, <2>1, ScaledMod DEF mul, G
<1>2. mul(n, 8 * x) = 8 * ((n * x) % L) /\ (n * x) % L \in 0..(L - 1)
  <2>1. n * (8 * x) = 8 * (n * x) /\ n * x \in Int
    BY <1>0
  <2> QED BY <1>0, <2>1, ScaledMod DEF mul
<1>3. neg(8 * x) = 8 * ((L - x) % L) /\ (L - x) % L \in 0..(L - 1)
  <2>1. 8 * L - 8 * x = 8 * (L - x) /\ L - x \in Int
    BY <1>0
  <2> QED BY <1>0, <2>1, ScaledMod DEF neg
<1>4. add(8 * x, 8 * y) = 8 * ((x + y) % L)
  <2>1. 8 * x + 8 * y = 8 * (x + y) /\ x + y \in Int
    BY <1>0
  <2> QED BY <1>0, <2>1, ScaledMod DEF add
<1> QED BY <1>1, <1>2, <1>3, <1>4

(* Of the multiples of the base point only the identity has a small order. *)
LEMMA SmallOrder ==
  ASSUME NEW x \in 0..(L - 1)
  PROVE  small_order(8 * x) <=> x = 0
<1>0. L \in Nat \ {0} /\ 8 \in Int
  BY OrderOdd
<1>1. mul(8, 8 * x) = 8 * ((8 * x) % L) /\ (8 * x) % L \in 0..(L - 1)
  BY <1>0, PointArithmetic
<1>2. CASE x = 0
  <2>1. (8 * x) % L = 0
    BY <1>0, <1>2
  <2> QED BY <1>1, <1>2, <2>1 DEF small_order
<1>3. CASE x # 0
  <2>1. (8 * x) % L # 0
    BY <1>0, <1>3, NoEighth
  <2>2. 8 * ((8 * x) % L) # 0
    BY <1>1, <2>1
  <2> QED BY <1>1, <1>3, <2>2 DEF small_order
<1> QED BY <1>2, <1>3

(* The clamped key is not a multiple of the order.                         *)
LEMMA Clamped ==
  ASSUME NEW n \in SecretKey
  PROVE  /\ n \in Int /\ clamp(n) \in Int
         /\ clamp(n) % L \in 1..(L - 1)
<1>0. L \in Nat \ {0} /\ U \in Nat \ {0} /\ 2 * U < L /\ n \in Int
  BY OrderOdd DEF SecretKey
<1>1. PICK k \in Int, m \in 0..(8 * U - 1) : n = (8 * U) * k + m /\ m = n % (8 * U)
  <2>1. 8 * U \in Nat \ {0}
    BY <1>0
  <2> QED BY <1>0, <2>1, Division
<1>2. PICK t \in Int : t = m \div 8
  BY <1>0
<1>3. t \in 0..(U - 1)
  BY <1>0, <1>2
<1>4. clamp(n) = 8 * (U + t) /\ U + t \in 1..(L - 1)
  <2>1. clamp(n) = 8 * U + 8 * t
    BY <1>1, <1>2 DEF clamp
  <2>2. 8 * U + 8 * t = 8 * (U + t)
    BY <1>0, <1>3
  <2>3. U + t \in 1..(L - 1)
    BY <1>0, <1>3
  <2> QED BY <2>1, <2>2, <2>3
<1>5. (8 * (U + t)) % L # 0
  BY <1>4, NoEighth
<1>6. PICK c \in Int : c = clamp(n)
  BY <1>0, <1>3, <1>4
<1>7. c % L \in 0..(L - 1)
  BY <1>0, Division
<1>8. c % L # 0
  BY <1>4, <1>5, <1>6
<1> QED BY <1>0, <1>6, <1>7, <1>8

(* A remainder is congruent to the number.                                 *)
LEMMA Congruent ==
  ASSUME NEW x \in Int
  PROVE  \E k \in Int : x % L = x + L * k /\ x % L \in 0..(L - 1)
<1>0. L \in Nat \ {0}
  BY OrderOdd
<1>1. PICK k \in Int, m \in 0..(L - 1) : x = L * k + m /\ m = x % L
  BY <1>0, Division
<1>2. m = x + L * (-k) /\ -k \in Int
  BY <1>0, <1>1
<1> QED BY <1>1, <1>2

(* Numbers that differ by a multiple of the order, or are the negatives of *)
(* such numbers, are both multiples of it or neither is.                   *)
LEMMA SameDivisible ==
  ASSUME NEW x \in Int, NEW y \in Int, NEW j \in Int,
         x = y + L * j \/ x = L * j - y
  PROVE  Divides(L, x) <=> Divides(L, y)
<1>0. L \in Nat \ {0}
  BY OrderOdd
<1>1. ASSUME NEW k \in Int, y = L * k PROVE Divides(L, x)
  <2>1. x = L * (k + j) \/ x = L * (j - k)
    BY <1>0, <1>1
  <2>2. k + j \in Int /\ j - k \in Int
    OBVIOUS
  <2> QED BY <2>1, <2>2 DEF Divides
<1>2. ASSUME NEW k \in Int, x = L * k PROVE Divides(L, y)
  <2>1. y = L * (k - j) \/ y = L * (j - k)
    BY <1>0, <1>2
  <2>2. k - j \in Int /\ j - k \in Int
    OBVIOUS
  <2> QED BY <2>1, <2>2 DEF Divides
<1> QED BY <1>1, <1>2 DEF Divides

(* Of two remainders, they are equal or do not differ by a multiple.       *)
LEMMA EqualRemainders ==
  ASSUME NEW x \in 0..(L - 1), NEW y \in 0..(L - 1)
  PROVE  Divides(L, x - y) <=> x = y
<1>0. L \in Nat \ {0} /\ x \in Int /\ y \in Int
  BY OrderOdd
<1>1. ASSUME NEW k \in Int, x - y = L * k PROVE x = y
  <2>1. k >= 1 => L * k >= L
    BY <1>0
  <2>2. k <= -1 => L * k <= -L
    BY <1>0
  <2>3. k = 0 => L * k = 0
    BY <1>0
  <2> QED BY <1>0, <1>1, <2>1, <2>2, <2>3
<1>2. ASSUME x = y PROVE x - y = L * 0
  BY <1>0, <1>2
<1> QED BY <1>1, <1>2 DEF Divides

(* The public point: clamp(privkey) G or its negative, whichever has no    *)
(* sign bit.  verify finds the same point from the x25519 public key.      *)
LEMMA PublicPoint ==
  ASSUME privkey \in SecretKey
  PROVE  \E p \in 1..(L - 1), q \in 1..(L - 1) :
           /\ p = clamp(privkey) % L
           /\ q = IF negative THEN L - p ELSE p
           /\ A = 8 * q
           /\ pubkey(curve25519_pubkey) = A
<1>0. L \in Nat \ {0} /\ clamp(privkey) \in Int
  BY OrderOdd, Clamped
<1>1. PICK p \in 1..(L - 1) : p = clamp(privkey) % L
  BY Clamped
<1>2. p \in 0..(L - 1) /\ L - p \in 1..(L - 1) /\ L - p \in 0..(L - 1)
  BY <1>0
<1>3. point(privkey) = 8 * p
  BY <1>0, <1>1, <1>2, PointArithmetic DEF point
<1>4. neg(8 * p) = 8 * (L - p)
  <2>1. neg(8 * p) = 8 * ((L - p) % L)
    BY <1>0, <1>2, PointArithmetic
  <2>2. (L - p) % L = L - p
    BY <1>0, <1>2, Remainder
  <2> QED BY <2>1, <2>2
<1>5. sign_bit(8 * (L - p)) <=> ~sign_bit(8 * p)
  <2>1. PICK j \in Nat : L = 2 * j + 1
    BY OrderOdd
  <2> QED BY <1>0, <1>2, <2>1 DEF sign_bit
<1>6. negative <=> sign_bit(8 * p)
  BY <1>3 DEF negative
<1>7. curve25519_pubkey = {8 * p, 8 * (L - p)}
  BY <1>3, <1>4 DEF curve25519_pubkey
<1>8. CASE negative
  <2>1. A = 8 * (L - p)
    BY <1>3, <1>4, <1>8 DEF A, conditional_assign
  <2>2. pubkey(curve25519_pubkey) = 8 * (L - p)
    BY <1>5, <1>6, <1>7, <1>8 DEF pubkey
  <2> QED BY <1>1, <1>2, <1>8, <2>1, <2>2
<1>9. CASE ~negative
  <2>1. A = 8 * p
    BY <1>3, <1>9 DEF A, conditional_assign
  <2>2. pubkey(curve25519_pubkey) = 8 * p
    BY <1>5, <1>6, <1>7, <1>9 DEF pubkey
  <2> QED BY <1>1, <1>2, <1>9, <2>1, <2>2
<1> QED BY <1>8, <1>9

(* The secret scalar and the public point agree as far as the private key  *)
(* agrees with the clamped one.                                            *)
LEMMA KeysAgree ==
  ASSUME privkey \in SecretKey, NEW h \in Int, NEW p \in 1..(L - 1), NEW q \in Int,
         p = clamp(privkey) % L, q = IF negative THEN L - p ELSE p
  PROVE  /\ scalar(privkey) \in Int
         /\ Divides(L, h * scalar(privkey) - h * q)
              <=> Divides(L, h * (privkey - clamp(privkey)))
<1>0. L \in Nat \ {0} /\ privkey \in Int /\ p \in Int
  BY OrderOdd, Clamped
<1>1. PICK c \in Int : c = clamp(privkey)
  BY Clamped
<1>2. PICK i \in Int : p = c + L * i
  BY <1>1, Congruent
<1>3. CASE ~negative
  <2>1. scalar(privkey) = privkey /\ q = p
    BY <1>3 DEF scalar, conditional_assign
  <2>2. h * privkey - h * p = h * (privkey - c) + L * (-(h * i))
    BY <1>0, <1>2
  <2>3. /\ -(h * i) \in Int /\ h * (privkey - c) \in Int
        /\ h * privkey - h * p \in Int
    BY <1>0
  <2>4. Divides(L, h * privkey - h * p) <=> Divides(L, h * (privkey - c))
    BY <2>2, <2>3, SameDivisible
  <2> QED BY <1>0, <1>1, <2>1, <2>4
<1>4. CASE negative
  <2>1. PICK j \in Int : privkey % L = privkey + L * j /\ privkey % L \in 0..(L - 1)
    BY <1>0, Congruent
  <2>2. PICK m \in Int : m = privkey % L
    BY <2>1
  <2>3. PICK n \in Int : (L - m) % L = (L - m) + L * n /\ (L - m) % L \in 0..(L - 1)
    <3>1. L - m \in Int
      BY <1>0
    <3> QED BY <3>1, Congruent
  <2>4. scalar(privkey) = (L - m) % L
    BY <1>4, <2>2 DEF scalar, conditional_assign, scalar_negate
  <2>5. PICK s \in Int : s = scalar(privkey)
    BY <1>0, <2>3, <2>4
  <2>6. s = (L - (privkey + L * j)) + L * n /\ q = L - (c + L * i)
    BY <1>0, <1>2, <1>4, <2>1, <2>2, <2>3, <2>4, <2>5
  <2>7. s - q = L * ((n - j) + i) - (privkey - c)
    BY <1>0, <2>6
  <2>8. h * s - h * q = L * (h * ((n - j) + i)) - h * (privkey - c)
    <3>1. PICK e \in Int : e = (n - j) + i
      OBVIOUS
    <3>2. PICK d \in Int : d = privkey - c
      BY <1>0
    <3>3. s = q + (L * e - d)
      BY <1>0, <2>7, <3>1, <3>2
    <3>4. h * s = h * q + (L * (h * e) - h * d)
      BY <1>0, <3>3
    <3> QED BY <1>0, <3>1, <3>2, <3>4
  <2>9. /\ h * ((n - j) + i) \in Int /\ h * (privkey - c) \in Int
        /\ h * s - h * q \in Int
    BY <1>0
  <2>10. Divides(L, h * s - h * q) <=> Divides(L, h * (privkey - c))
    BY <2>8, <2>9, SameDivisible
  <2> QED BY <1>1, <2>5, <2>10
<1> QED BY <1>3, <1>4

(* What verify computes for a signature and the hash that it was made with. *)
LEMMA Verification ==
  ASSUME privkey \in SecretKey, NEW r \in Scalar, NEW h \in Scalar
  PROVE  verify_detached(mul(r, G), (h * scalar(privkey) + r) % L, A, h)
           <=> /\ mul(r, G) # 0
               /\ (h * (privkey - clamp(privkey))) % L = 0
<1>0. /\ L \in Nat \ {0} /\ privkey \in Int /\ clamp(privkey) \in Int
      /\ r \in 0..(L - 1) /\ r \in Int /\ h \in 0..(L - 1) /\ h \in Int
  BY OrderOdd, Clamped DEF Scalar
<1>1. PICK p \in 1..(L - 1), q \in 1..(L - 1) :
        /\ p = clamp(privkey) % L
        /\ q = IF negative THEN L - p ELSE p
        /\ A = 8 * q
  BY PublicPoint
<1>2. q \in 0..(L - 1) /\ q # 0 /\ q \in Int
  BY <1>0
<1>3. PICK s \in Int : s = scalar(privkey)
  BY <1>0, <1>1, <1>2, KeysAgree
<1>4. PICK j \in Int : /\ (h * s + r) % L = (h * s + r) + L * j
                       /\ (h * s + r) % L \in 0..(L - 1)
  <2>1. h * s + r \in Int
    BY <1>0
  <2> QED BY <2>1, Congruent
<1>5. PICK S \in 0..(L - 1) : S = (h * s + r) % L
  BY <1>4
<1>6. S \in Int
  BY <1>0
<1>7. mul(r, G) = 8 * r /\ mul(S, G) = 8 * S
  <2>1. r % L = r
    BY <1>0, Remainder
  <2>2. S % L = S
    BY <1>0, Remainder
  <2> QED BY <1>0, <1>6, <2>1, <2>2, PointArithmetic
<1>8. PICK m \in 0..(L - 1) : mul(h, A) = 8 * m /\ \E k \in Int : m = h * q + L * k
  <2>1. mul(h, 8 * q) = 8 * ((h * q) % L) /\ (h * q) % L \in 0..(L - 1)
    BY <1>0, <1>2, PointArithmetic
  <2>2. h * q \in Int
    BY <1>0, <1>2
  <2>3. \E k \in Int : (h * q) % L = h * q + L * k
    BY <2>2, Congruent
  <2> QED BY <1>1, <2>1, <2>3
<1>9. PICK w \in 0..(L - 1) : /\ neg(8 * m) = 8 * w
                              /\ \E k \in Int : w = (L - m) + L * k
  <2>1. neg(8 * m) = 8 * ((L - m) % L) /\ (L - m) % L \in 0..(L - 1)
    BY <1>0, PointArithmetic
  <2>2. L - m \in Int
    BY <1>0
  <2>3. \E k \in Int : (L - m) % L = (L - m) + L * k
    BY <2>2, Congruent
  <2> QED BY <2>1, <2>3
<1>10. PICK z \in 0..(L - 1) : /\ add(8 * S, 8 * w) = 8 * z
                               /\ \E k \in Int : z = (S + w) + L * k
  <2>1. add(8 * S, 8 * w) = 8 * ((S + w) % L)
    BY <1>0, PointArithmetic
  <2>2. S + w \in Int
    BY <1>0
  <2>3. \E k \in Int : (S + w) % L = (S + w) + L * k /\ (S + w) % L \in 0..(L - 1)
    BY <2>2, Congruent
  <2> QED BY <2>1, <2>3
<1>11. verify_detached(mul(r, G), S, A, h) <=> r # 0 /\ r = z
  <2>1. small_order(8 * r) <=> r = 0
    BY <1>0, SmallOrder
  <2>2. ~small_order(8 * q)
    BY <1>2, SmallOrder
  <2>3. 8 * r = 8 * z <=> r = z
    BY <1>0
  <2> QED BY <1>1, <1>7, <1>8, <1>9, <1>10, <2>1, <2>2, <2>3 DEF verify_detached
<1>12. r = z <=> Divides(L, h * s - h * q)
  <2>1. z = r <=> Divides(L, z - r)
    BY <1>0, EqualRemainders
  <2>2. PICK k1 \in Int, k2 \in Int, k3 \in Int :
          m = h * q + L * k1 /\ w = (L - m) + L * k2 /\ z = (S + w) + L * k3
    BY <1>8, <1>9, <1>10
  <2>3. S = (h * s + r) + L * j
    BY <1>4, <1>5
  <2>4. z - r = (h * s - h * q) + L * (((1 - k1) + (k2 + k3)) + j)
    <3>1. PICK x \in Int, y \in Int : x = h * s /\ y = h * q
      BY <1>0, <1>2
    <3>2. m = y + L * k1 /\ S = (x + r) + L * j
      BY <2>2, <2>3, <3>1
    <3>3. z - r = (x - y) + L * (((1 - k1) + (k2 + k3)) + j)
      BY <1>0, <2>2, <3>2
    <3> QED BY <3>1, <3>3
  <2>5. /\ z - r \in Int /\ h * s - h * q \in Int
        /\ ((1 - k1) + (k2 + k3)) + j \in Int
    BY <1>0, <1>2
  <2> QED BY <2>1, <2>4, <2>5, SameDivisible
<1>13. Divides(L, h * s - h * q) <=> Divides(L, h * (privkey - clamp(privkey)))
  BY <1>0, <1>1, <1>2, <1>3, KeysAgree
<1>14. Divides(L, h * (privkey - clamp(privkey)))
         <=> (h * (privkey - clamp(privkey))) % L = 0
  <2>1. h * (privkey - clamp(privkey)) \in Int
    BY <1>0
  <2> QED BY <1>0, <2>1, DividesMod
<1>15. mul(r, G) # 0 <=> r # 0
  BY <1>0, <1>7
<1> QED BY <1>3, <1>5, <1>11, <1>12, <1>13, <1>14, <1>15

-------------------------------------------------------------------------------
(* A signature is made of a random scalar and of a hash that is known.     *)
SignatureInv ==
  sig # None =>
    \E r \in Scalar, h \in Scalar :
      /\ sig.R = mul(r, G)
      /\ sig.S = (h * scalar(privkey) + r) % L
      /\ <<sig.R, A, sig.msg>> \in DOMAIN hram
      /\ hram[<<sig.R, A, sig.msg>>] = h

(* What is verified is a signature; besides, the property.                 *)
SigningInv ==
  /\ privkey \in SecretKey
  /\ \A x \in DOMAIN hram : hram[x] \in Scalar
  /\ SignatureInv
  /\ verdict # None => sig # None
  /\ VerifiesIfClampedKeyAgrees

(* sign: the hash it asks for is the one of the signature.                 *)
LEMMA SignStep ==
  ASSUME SigningInv, NEW msg, sign(msg)
  PROVE  SigningInv'
<1>1. privkey' = privkey /\ verdict' = verdict /\ verdict = None
  BY DEF SigningInv, sign
<1>0. PICK r \in Scalar : \E h \in Hash(mul(r, G), A, msg) :
        /\ Asked(mul(r, G), A, msg, h)
        /\ sig' = [R |-> mul(r, G), S |-> (h * scalar(privkey) + r) % L,
                     msg |-> msg]
  BY DEF sign, compute_r
<1>2. PICK h \in Hash(mul(r, G), A, msg) :
        /\ Asked(mul(r, G), A, msg, h)
        /\ sig' = [R |-> mul(r, G), S |-> (h * scalar(privkey) + r) % L,
                     msg |-> msg]
  BY <1>0
<1>3. A' = A /\ scalar(privkey)' = scalar(privkey)
  BY <1>1 DEF A, scalar, negative, point
<1>4. PICK R : R = mul(r, G)
  OBVIOUS
<1>5. h \in Scalar
  BY <1>2, <1>4 DEF Hash, SigningInv
<1>6. /\ <<R, A, msg>> \in DOMAIN hram' /\ hram'[<<R, A, msg>>] = h
      /\ \A x \in DOMAIN hram' : hram'[x] \in Scalar
  BY <1>2, <1>4, <1>5 DEF Asked, SigningInv
<1>7. SignatureInv'
  <2>1. sig'.R = R /\ sig'.S = (h * scalar(privkey) + r) % L /\ sig'.msg = msg
    BY <1>2, <1>4
  <2> QED BY <1>1, <1>3, <1>4, <1>5, <1>6, <2>1 DEF SignatureInv
<1>8. VerifiesIfClampedKeyAgrees'
  BY <1>1 DEF VerifiesIfClampedKeyAgrees, Genuine
<1> QED BY <1>1, <1>6, <1>7, <1>8 DEF SigningInv

(* verify: for the message that was signed the hash is the same.           *)
LEMMA VerifyStep ==
  ASSUME SigningInv, NEW msg, verify(msg)
  PROVE  SigningInv'
<1>1. privkey' = privkey /\ sig' = sig /\ sig # None
  BY DEF verify
<1>2. pubkey(curve25519_pubkey) = A
  BY PublicPoint DEF SigningInv
<1>3. PICK g \in Hash(sig.R, A, msg) :
        /\ Asked(sig.R, A, msg, g)
        /\ verdict' = [msg |-> msg, ok |-> verify_detached(sig.R, sig.S, A, g)]
  BY <1>2 DEF verify
<1>4. A' = A /\ scalar(privkey)' = scalar(privkey)
  BY <1>1 DEF A, scalar, negative, point
<1>5. PICK r \in Scalar, h \in Scalar :
        /\ sig.R = mul(r, G)
        /\ sig.S = (h * scalar(privkey) + r) % L
        /\ <<sig.R, A, sig.msg>> \in DOMAIN hram
        /\ hram[<<sig.R, A, sig.msg>>] = h
  BY <1>1 DEF SigningInv, SignatureInv
<1>6. g \in Scalar /\ (msg = sig.msg => g = h)
  BY <1>3, <1>5 DEF Hash, SigningInv
<1>7. /\ <<sig.R, A, sig.msg>> \in DOMAIN hram'
      /\ hram'[<<sig.R, A, sig.msg>>] = h
  BY <1>3, <1>5, <1>6 DEF Asked
<1>8. \A x \in DOMAIN hram' : hram'[x] \in Scalar
  BY <1>3, <1>6 DEF Asked, SigningInv
<1>9. SignatureInv'
  BY <1>1, <1>4, <1>5, <1>7 DEF SignatureInv
<1>10. VerifiesIfClampedKeyAgrees'
  <2> SUFFICES ASSUME Genuine'
               PROVE  verdict'.ok <=>
                        /\ sig.R # 0
                        /\ (h * (privkey - clamp(privkey))) % L = 0
    BY <1>1, <1>4, <1>7 DEF VerifiesIfClampedKeyAgrees, Challenge
  <2>1. msg = sig.msg
    BY <1>1, <1>3 DEF Genuine
  <2>2. verdict'.ok = verify_detached(sig.R, sig.S, A, h)
    BY <1>3, <1>6, <2>1
  <2>3. verify_detached(sig.R, sig.S, A, h)
          <=> /\ sig.R # 0
              /\ (h * (privkey - clamp(privkey))) % L = 0
    BY <1>5, Verification DEF SigningInv
  <2> QED BY <2>2, <2>3
<1> QED BY <1>1, <1>8, <1>9, <1>10 DEF SigningInv

(* A legacy operation leaves XEd25519 alone.                               *)
LEMMA LegacyStep ==
  ASSUME SigningInv, Generate \/ Check
  PROVE  SigningInv'
<1>1. /\ privkey' = privkey /\ hram' = hram /\ sig' = sig /\ verdict' = verdict
  BY DEF Generate, Check, Call, xed25519
<1>2. A' = A /\ scalar(privkey)' = scalar(privkey)
  BY <1>1 DEF A, scalar, negative, point
<1>3. SignatureInv'
  BY <1>1, <1>2 DEF SigningInv, SignatureInv
<1>4. VerifiesIfClampedKeyAgrees'
  BY <1>1, <1>2 DEF SigningInv, VerifiesIfClampedKeyAgrees, Genuine, Challenge
<1> QED BY <1>1, <1>3, <1>4 DEF SigningInv

(* The invariant of all steps, for every group of the curve's shape.       *)
THEOREM SigningInvHolds == Spec => []SigningInv
<1>1. Init => SigningInv
  BY DEF Init, SigningInv, SignatureInv, VerifiesIfClampedKeyAgrees, Genuine
<1>2. SigningInv /\ [Next]_vars => SigningInv'
  <2> SUFFICES ASSUME SigningInv, [Next]_vars PROVE SigningInv'
    OBVIOUS
  <2>1. CASE UNCHANGED vars
    <3>1. privkey' = privkey /\ hram' = hram /\ sig' = sig /\ verdict' = verdict
      BY <2>1 DEF vars, xed25519
    <3>2. A' = A /\ scalar(privkey)' = scalar(privkey)
      BY <3>1 DEF A, scalar, negative, point
    <3> QED BY <3>1, <3>2
            DEF SigningInv, SignatureInv, VerifiesIfClampedKeyAgrees, Genuine,
                Challenge
  <2> QED BY <2>1, SignStep, VerifyStep, LegacyStep DEF Next
<1> QED BY <1>1, <1>2, PTL DEF Spec

(* A signature verifies for the key pair's public key exactly if signing   *)
(* with the key as it is does not show modulo the order, and R is not the  *)
(* identity.                                                               *)
THEOREM VerifiesIfClampedKeyAgreesHolds == Spec => []VerifiesIfClampedKeyAgrees
<1>1. SigningInv => VerifiesIfClampedKeyAgrees
  BY DEF SigningInv
<1> QED BY <1>1, SigningInvHolds, PTL

(* For private keys that are clamped, sign does what its header says: each *)
(* of its signatures verifies, but for the identity as R.                  *)
THEOREM ClampedKeysVerify ==
  Spec => [](clamp(privkey) = privkey => EverySignatureVerifies)
<1>1. SigningInv => (clamp(privkey) = privkey => EverySignatureVerifies)
  <2> SUFFICES ASSUME SigningInv, clamp(privkey) = privkey, Genuine, sig.R # 0
               PROVE  verdict.ok
    BY DEF EverySignatureVerifies
  <2>1. PICK h \in Scalar : h = Challenge
    BY DEF SigningInv, SignatureInv, Genuine, Challenge
  <2>2. privkey - clamp(privkey) = 0 /\ h \in Int
    BY OrderOdd, Clamped DEF SigningInv, Scalar
  <2>3. h * 0 = 0
    BY <2>2
  <2>4. 0 % L = 0
    BY OrderOdd
  <2> QED BY <2>1, <2>2, <2>3, <2>4 DEF SigningInv, VerifiesIfClampedKeyAgrees
<1> QED BY <1>1, SigningInvHolds, PTL
===============================================================================
