------------------------------ MODULE Signatures -------------------------------
(***************************************************************************)
(* The two kinds of signatures: XEd25519 (signal-xed25519.cpp), made with  *)
(* an x25519 private key and verified with the x25519 public key, and      *)
(* those of legacy Monero keys (signature.cpp).                            *)
(*                                                                         *)
(* An x25519 public key is the point up to its sign.  XEd25519's hash of   *)
(* R, A and message is a fresh random scalar for arguments it was not      *)
(* asked for before.  A legacy operation has the set of its possible       *)
(* results as its value, which is empty where the process is aborted.      *)
(***************************************************************************)
EXTENDS Ed25519

CONSTANTS
  Messages,
  None  \* nothing yet

VARIABLES
  privkey,  \* a private key of 32 bytes
  hram,     \* what is known of H(R || A || M) mod L
  sig,      \* an XEd25519 signature <<R, S>>, and the message it was made for
  verdict,  \* what verify returned for <<sig, message>>
  called,   \* the legacy operation that was called, with its arguments
  returned, \* its result
  aborted

xed25519 == <<hram, sig, verdict>>
legacy   == <<called, returned, aborted>>
vars == <<privkey, xed25519, legacy>>

Init ==
  /\ privkey \in SecretKey
  /\ hram = [x \in {} |-> 0] /\ sig = None /\ verdict = None
  /\ called = None /\ returned = None /\ aborted = FALSE

-------------------------------------------------------------------------------
(* XEd25519                                                                *)

(* crypto_scalarmult_ed25519_base clamps ...                               *)
point(k) == mul(clamp(k), G)

(* ... and so does crypto_scalarmult_curve25519_base.                      *)
curve25519_pubkey == {point(privkey), neg(point(privkey))}

(* Of the two points that belong to an x25519 public key, the one without  *)
(* the sign bit.                                                           *)
pubkey(u) == CHOOSE P \in u : ~sign_bit(P)

conditional_assign(f, g, b) == IF b THEN g ELSE f

negative == sign_bit(point(privkey))

(* The public point of sign, its sign bit cleared.                         *)
A == conditional_assign(point(privkey), neg(point(privkey)), negative)

(* Wrong variant, for mutation only: the secret scalar is not negated.     *)
scalar_unsigned(k) == k

(* The private key as it is, negated if the public point was.              *)
scalar(k) == conditional_assign(k, scalar_negate(k), negative)

(* A hash of key, message and random bytes.                                *)
compute_r == Scalar

Hash(R, P, msg) ==
  IF <<R, P, msg>> \in DOMAIN hram THEN {hram[<<R, P, msg>>]} ELSE Scalar

Asked(R, P, msg, h) ==
  hram' = [x \in DOMAIN hram \cup {<<R, P, msg>>} |->
             IF x = <<R, P, msg>> THEN h ELSE hram[x]]

(* S = r + H(R || A || M) a, for a random r                                *)
sign(msg) ==
  /\ sig = None /\ called = None
  /\ \E r \in compute_r :
       LET R == mul(r, G)
       IN  \E h \in Hash(R, A, msg) :
             /\ Asked(R, A, msg, h)
             /\ sig' = [R |-> R, S |-> (h * scalar(privkey) + r) % L, msg |-> msg]
  /\ UNCHANGED <<privkey, verdict, legacy>>

(* crypto_sign_ed25519_verify_detached, external                           *)
verify_detached(R, S, P, h) ==
  /\ ~small_order(R) /\ ~small_order(P)
  /\ R = add(mul(S, G), neg(mul(h, P)))

verify(msg) ==
  /\ sig # None /\ verdict = None
  /\ LET P == pubkey(curve25519_pubkey)
     IN  \E h \in Hash(sig.R, P, msg) :
           /\ Asked(sig.R, P, msg, h)
           /\ verdict' = [msg |-> msg, ok |-> verify_detached(sig.R, sig.S, P, h)]
  /\ UNCHANGED <<privkey, sig, legacy>>

-------------------------------------------------------------------------------
(* Legacy signatures                                                       *)

LegacySignature == [c : Scalar, r : Scalar]

cn_fast_hash(input) == {}

monero_hash_to_scalar(input) == {h % L : h \in cn_fast_hash(input)}

(* Legacy secret keys are reduced scalars.                                 *)
legacy_seckey == privkey % L

legacy_pubkey(a) == mul(a, G)

(* x is a hash of the key and the message, reduced and clamped; c is the   *)
(* hash of the message, A and X, and r = x - ac.                           *)
generate_signature(a) ==
  UNION {{[c |-> c, r |-> (clamp(x) - a * c) % L] :
            c \in monero_hash_to_scalar(<<legacy_pubkey(a), mul(clamp(x), G)>>)} :
         x \in Scalar}

(* Where check_signature returns false before it hashes: libsodium refuses *)
(* scalars and points that yield the identity, and points that are not of  *)
(* the base point's order.                                                 *)
refused(s, P) ==
  \/ mul(s.r, G) = 0
  \/ ~is_valid_point(P) \/ mul(s.c, P) = 0
  \/ ~is_valid_point(add(mul(s.r, G), mul(s.c, P)))

check_signature(s, P) ==
  IF refused(s, P) THEN {FALSE}
  ELSE {s.c = c : c \in
          monero_hash_to_scalar(<<P, add(mul(s.r, G), mul(s.c, P))>>)}

Call(op, results) ==
  /\ sig = None /\ called = None
  /\ called' = op
  /\ \/ results = {} /\ aborted' = TRUE /\ UNCHANGED returned
     \/ returned' \in results /\ UNCHANGED aborted
  /\ UNCHANGED <<privkey, xed25519>>

Generate ==
  Call([name |-> "generate_signature"], generate_signature(legacy_seckey))

Check ==
  \E s \in LegacySignature, P \in Point :
    Call([name |-> "check_signature", sig |-> s, pub |-> P], check_signature(s, P))

-------------------------------------------------------------------------------
Next ==
  \/ \E msg \in Messages : sign(msg) \/ verify(msg)
  \/ Generate \/ Check

Spec == Init /\ [][Next]_vars

-------------------------------------------------------------------------------
Genuine == verdict # None /\ verdict.msg = sig.msg

(* The hash that the signature was made with.                              *)
Challenge == hram[<<sig.R, A, sig.msg>>]

(* sign derives the public point from the clamped key and signs with the   *)
(* key as it is: a signature verifies for the key pair's public key        *)
(* exactly if the difference does not show modulo L.  The identity as R,   *)
(* from r = 0, is never accepted.                                          *)
VerifiesIfClampedKeyAgrees ==
  Genuine =>
    (verdict.ok <=> /\ sig.R # 0
                    /\ (Challenge * (privkey - clamp(privkey))) % L = 0)

(* What signal-xed25519.hpp says of sign: "XEd25519 signs a message given  *)
(* the curve25519 privkey and message".  Not so for private keys that are  *)
(* not clamped, such as crypto_box_keypair makes them.                     *)
EverySignatureVerifies == Genuine /\ sig.R # 0 => verdict.ok

(* What signature.hpp says of the legacy operations: generate_signature    *)
(* "Generates a not-proper-Ed25519 Monero signature", check_signature      *)
(* "Verifies the not-proper-Ed25519 Monero signature".  Not so: the        *)
(* process ends in cn_fast_hash.                                           *)
LegacyCallsReturn == called # None => returned # None
===============================================================================
