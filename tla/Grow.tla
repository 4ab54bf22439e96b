--------------------------------- MODULE Grow ---------------------------------
(***************************************************************************)
(* How pigz enlarges a buffer: grow(), in the arithmetic of a size_t of    *)
(* Width bits.                                                             *)
(***************************************************************************)
EXTENDS Integers

CONSTANTS
  Width      \* the bits of a size_t, at least 16 in C

ASSUME GrowAssumption == Width \in Nat /\ Width >= 16

(* The powers of two.                                                      *)
Pow2[n \in Nat] == IF n = 0 THEN 1 ELSE 2 * Pow2[n - 1]

MaxSize == Pow2[Width] - 1

(* Shifting 1 by the width of its type is undefined: the processors of the *)
(* builds either shift by nothing or shift everything out.                 *)
ShiftLeft1(n) == IF n < Width THEN {Pow2[n]} ELSE {1, 0}

(* The bits of top below which grow() shifts: 0 for a size under 8.        *)
TopShift(size) == CHOOSE n \in 0..Width : /\ size \div Pow2[n] <= 7
                                          /\ n > 0 => size \div Pow2[n - 1] > 7

Grown(was, size) ==
  LET atLeast16 == IF size < 16 THEN 16 ELSE size
  IN  IF atLeast16 <= was THEN MaxSize ELSE atLeast16

(* grow(): a quarter more, a power of two if that is near, at least 16.    *)
Grow(was) ==
  LET more == (was + was \div 4) % Pow2[Width]
      shift == TopShift(more)
      near == more \div Pow2[shift] = 7
  IN  {Grown(was, s) : s \in IF near THEN ShiftLeft1(shift + 3) ELSE {more}}
=============================================================================
