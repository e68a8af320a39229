--------------------------------- MODULE Bits -----------------------------------
(***************************************************************************)
(* Powers of two and the bits of a number.                                 *)
(***************************************************************************)
EXTENDS Integers

Pow2[k \in Nat] == IF k = 0 THEN 1 ELSE 2 * Pow2[k - 1]

BitOf(x, k) == (x \div Pow2[k]) % 2
=============================================================================
