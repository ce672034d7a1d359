-------------------------------- MODULE Roots --------------------------------
(***************************************************************************)
(* Julia's sqrt on the integers the fixed-point formulas produce, rounded  *)
(* down: the number of positive integers whose square is at most n, counted *)
(* two hundred at a time and then one at a time.                           *)
(***************************************************************************)
EXTENDS Integers, FiniteSets

Isqrt(n) ==
    LET AtMost(r) == n \div r >= r
        coarse    == 200 * Cardinality({q \in 1 .. 231 : AtMost(200 * q)})
    IN  coarse + Cardinality({r \in coarse + 1 .. coarse + 199 : AtMost(r)})
=============================================================================
