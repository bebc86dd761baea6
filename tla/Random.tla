-------------------------------- MODULE Random --------------------------------
(***************************************************************************)
(* onionreq/random.hpp and the std::sample it rests on.  A C++ container   *)
(* is the sequence of its elements in iteration order.  The pseudo random  *)
(* generator is nondeterminism: an operator that draws from it is the set  *)
(* of its possible results.                                                *)
(***************************************************************************)
EXTENDS Integers, Sequences, FiniteSets, Functions

Smaller(m, n) == IF m < n THEN m ELSE n

(* The positions a PRNG may pick, k of n, in increasing order.             *)
Increasing(k, n) ==
  {f \in [1..k -> 1..n] : \A i, j \in 1..k : i < j => f[i] < f[j]}

(* std::sample on forward iterators is selection sampling: it keeps        *)
(* min(k, size) elements and leaves them in the order of the population.   *)
sample(s, k) ==
  LET m == Smaller(k, Len(s))
  IN  {[i \in 1..m |-> s[f[i]]] : f \in Increasing(m, Len(s))}

(* Wrong variant, for mutation only: an element that is really drawn.      *)
pick_random_uniform(s) == Range(s)

(* pick_random samples the whole range and takes _vec[0]; the empty range, *)
(* on which it throws, has no result.                                      *)
pick_random(s) == {v[1] : v \in {w \in sample(s, Len(s)) : w # << >>}}
===============================================================================
