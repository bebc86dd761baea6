-------------------------------- MODULE Ed25519 --------------------------------
(***************************************************************************)
(* What signal-xed25519.cpp and signature.cpp use of libsodium's Ed25519,  *)
(* over a cyclic group in place of the curve's: points are the numbers     *)
(* modulo 8 * L, the base point is 8.  As of the curve, the base point's   *)
(* order L is a prime between 2 U and 4 U, and clamping makes a scalar a   *)
(* multiple of 8 between 8 U and 16 U.  External.                          *)
(***************************************************************************)
EXTENDS Integers

CONSTANTS
  U,  \* 2^251
  L   \* the base point's order

ASSUME OrderAssumption ==
  /\ U \in Nat \ {0} /\ L \in Nat /\ 2 * U < L /\ L < 4 * U
  /\ \A d \in 2..(L - 1) : L % d # 0

Point     == 0..(8 * L - 1)
Scalar    == 0..(L - 1)            \* reduced scalars
SecretKey == 0..(32 * U - 1)       \* 32 bytes

G == 8

add(P, Q)  == (P + Q) % (8 * L)
neg(P)     == (8 * L - P) % (8 * L)
mul(n, P)  == (n * P) % (8 * L)
clamp(n)   == 8 * U + 8 * ((n % (8 * U)) \div 8)

sign_bit(P) == P > 4 * L  \* of P and neg(P) one has it

scalar_negate(n) == (L - (n % L)) % L

small_order(P) == mul(8, P) = 0
is_valid_point(P) == ~small_order(P) /\ mul(L, P) = 0
===============================================================================
