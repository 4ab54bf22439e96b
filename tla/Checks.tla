-------------------------------- MODULE Checks --------------------------------
(***************************************************************************)
(* Check values and how write_thread() combines those of the pieces:       *)
(* adler32_comb() and crc32_comb(), with smaller numbers.  An Adler value  *)
(* is a pair of sums modulo Base, the largest prime below 2^Half (16 in    *)
(* the code), in unsigned long of 2 * Half bits, its smallest size.  A CRC *)
(* is a set of Order bits (32 in the code), and exclusive or is the        *)
(* symmetric difference.  A byte is a number; its bits are those of Octet. *)
(***************************************************************************)
EXTENDS Integers, Sequences, SequencesExt

CONSTANTS
  Base, Half,
  Poly, Order  \* the polynomial: powers below Order, bit 0 the highest

ASSUME ChecksAssumption ==
  /\ Half \in Nat \ {0} /\ Base \in 2..2^Half - 1
  /\ Order \in Nat \ {0} /\ Poly \subseteq 0..Order - 1

Word(n) == n % 2^(2 * Half)

-----------------------------------------------------------------------------
(* What the two check values are: zlib computes them, byte after byte.     *)

AdlerNone == [s1 |-> 1, s2 |-> 0]
Adler(check, bytes) ==
  FoldLeft(LAMBDA a, byte : LET s1 == (a.s1 + byte) % Base
                            IN  [s1 |-> s1, s2 |-> (a.s2 + s1) % Base],
           check, bytes)

Xor(a, b) == (a \ b) \union (b \ a)
Octet(byte) == {i \in 0..7 : (byte \div 2^i) % 2 = 1}
ShiftBit(reg, bit) ==
  LET low == {b - 1 : b \in reg \ {0}}
  IN  IF (0 \in reg) # bit THEN Xor(low, Poly) ELSE low

CrcNone == {}
Crc(check, bytes) ==
  LET ones == 0..Order - 1
      shiftByte(reg, byte) == FoldLeft(LAMBDA r, i : ShiftBit(r, i \in Octet(byte)), reg,
                                       <<0, 1, 2, 3, 4, 5, 6, 7>>)
  IN  Xor(ones, FoldLeft(shiftByte, Xor(ones, check), bytes))

-----------------------------------------------------------------------------

(* Not the code: a sum equal to Base is not reduced.                       *)
ReducedBelow(sum) == IF sum > Base THEN sum - Base ELSE sum

Reduced(sum) == IF sum >= Base THEN sum - Base ELSE sum

(* adler32_comb()                                                          *)
AdlerComb(a1, a2, len2) ==
  LET rem == len2 % Base
      sum1 == Word(a1.s1 + Word(a2.s1 + Base - 1))
      sum2 == Word((Word(rem * a1.s1) % Base) + Word(a1.s2 + a2.s2 + Base - rem))
  IN  [s1 |-> Reduced(Reduced(sum1)),
       s2 |-> Reduced(IF sum2 >= 2 * Base THEN sum2 - 2 * Base ELSE sum2)]

(* gf2_matrix_times() and gf2_matrix_square(): a matrix is the sequence of *)
(* its columns.                                                            *)
Times(mat, vec) ==
  FoldLeft(LAMBDA sum, n : IF n - 1 \in vec THEN Xor(sum, mat[n]) ELSE sum, {},
           [n \in 1..Order |-> n])
Square(mat) == FoldLeft(LAMBDA s, n : Append(s, Times(mat, mat[n])), <<>>, [n \in 1..Order |-> n])

(* Operators for zero bits: one, two, four, and for each bit of the length *)
(* the square of the one before.                                           *)
ZeroBit == [n \in 1..Order |-> IF n = 1 THEN Poly ELSE {n - 2}]
CrcComb(c1, c2, len2) ==
  LET zeros[op \in Seq(SUBSET (0..Order - 1)), crc \in SUBSET (0..Order - 1), len \in Nat] ==
        IF len = 0 THEN crc
        ELSE LET square == Square(op)
             IN  zeros[square, IF len % 2 = 1 THEN Times(square, crc) ELSE crc, len \div 2]
  IN  IF len2 = 0 THEN c1 ELSE Xor(zeros[Square(Square(ZeroBit)), c1, len2], c2)
=============================================================================
