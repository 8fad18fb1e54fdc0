---------------------------- MODULE PowersOfTwo -----------------------------
(***************************************************************************)
(* The powers of two, which the containers round their capacities up to    *)
(* (std::size_t{1} << n), said without exponents.                          *)
(***************************************************************************)
EXTENDS Integers

(* Every divisor but 1 is even. *)
IsPowerOfTwo(c) ==
  c >= 1 /\ \A d \in 1 .. c : c % d = 0 => d = 1 \/ d % 2 = 0
=============================================================================
