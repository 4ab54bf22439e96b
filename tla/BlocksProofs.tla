----------------------------- MODULE BlocksProofs -----------------------------
(***************************************************************************)
(* Lemmas about the operators of Blocks, for any size of blocks and of the *)
(* window, that the proofs about those who use them rest on.               *)
(***************************************************************************)
EXTENDS Blocks, FiniteSetTheorems, SequenceTheorems, WellFoundedInduction, TLAPS

(* Every set of numbers has a least one.                                   *)
LEMMA LeastNat ==
  ASSUME NEW T, T \subseteq Nat, T # {}
  PROVE  \E x \in T : \A y \in T : x <= y
<1> DEFINE I == {0..i : i \in T}
<1>1. I \subseteq FiniteSubsetsOf(Nat) /\ I # {}
  <2>1. \A i \in Nat : 0..i \subseteq Nat /\ IsFiniteSet(0..i)
    BY FS_Interval
  <2> QED
    BY <2>1 DEF FiniteSubsetsOf
<1>2. PICK x \in I : \A y \in I : ~(<<y, x>> \in StrictSubsetOrdering(Nat))
  <2> HIDE DEF I
  <2> QED
    BY <1>1, FS_StrictSubsetOrderingWellFounded, WFMin
<1>3. PICK n \in T : x = 0..n
  OBVIOUS
<1>4. ASSUME NEW i \in T, i < n PROVE FALSE
  <2>1. i \in Nat /\ n \in Nat
    OBVIOUS
  <2>2. 0..i \subseteq 0..n /\ n \in 0..n /\ n \notin 0..i
    BY <1>4, <2>1
  <2>3. <<0..i, 0..n>> \in StrictSubsetOrdering(Nat)
    BY <2>1, <2>2 DEF StrictSubsetOrdering
  <2> QED
    BY <1>2, <1>3, <2>3
<1> QED
  BY <1>4

(* Induction, with a set for the property.                                 *)
LEMMA Up ==
  ASSUME NEW S, 0 \in S, \A n \in Nat : n \in S => n + 1 \in S
  PROVE  Nat \subseteq S
<1> SUFFICES ASSUME Nat \ S # {} PROVE FALSE
  OBVIOUS
<1>1. PICK x \in Nat \ S : \A y \in Nat \ S : x <= y
  BY LeastNat
<1>2. x # 0 /\ x - 1 \in Nat /\ x - 1 \notin Nat \ S
  BY <1>1
<1> QED
  BY <1>2

-----------------------------------------------------------------------------
(* Block lengths                                                           *)

(* A list of lengths whose sums are the values of g.                       *)
Differences(lens, g, n) ==
  /\ DOMAIN lens = 1..n /\ Len(lens) = n
  /\ \A i \in 1..n : lens[i] = g[i] - g[i - 1]

(* The positions that such a list stands for.                              *)
LEMMA EndsOf ==
  ASSUME NEW n \in Nat, NEW g \in [0..n -> Int],
         NEW lens, Differences(lens, g, n), NEW in, in.lo = g[0]
  PROVE  BlockEnds(in, lens) = {g[i] : i \in 1..n} \union {in.hi}
<1> DEFINE IsEnd(e) == e = [i \in 0..n |-> IF i = 0 THEN in.lo ELSE e[i - 1] + lens[i]]
           end == CHOOSE e : IsEnd(e)
<1> USE DEF Differences
<1>1. IsEnd(g)
  <2>1. \A i \in 0..n : g[i] = IF i = 0 THEN in.lo ELSE g[i - 1] + lens[i]
    OBVIOUS
  <2> QED
    BY <2>1
<1>2. IsEnd(end)
  BY <1>1
<1>3. \A i \in 0..n : end[i] = IF i = 0 THEN in.lo ELSE end[i - 1] + lens[i]
  BY <1>2
<1> DEFINE S == {i \in Nat : i > n \/ end[i] = g[i]}
<1>4. Nat \subseteq S
  <2>1. 0 \in S
    BY <1>3
  <2>2. ASSUME NEW i \in Nat, i \in S PROVE i + 1 \in S
    <3>1. CASE i + 1 > n
      BY <3>1
    <3>2. CASE i + 1 <= n
      <4>1. i \in 0..n /\ i + 1 \in 1..n /\ end[i] = g[i]
        BY <2>2, <3>2
      <4>2. end[i + 1] = end[i] + lens[i + 1]
        <5>1. i + 1 \in 0..n /\ i + 1 # 0 /\ (i + 1) - 1 = i
          BY <4>1
        <5> QED
          BY <1>3, <5>1
      <4>3. lens[i + 1] = g[i + 1] - g[i] /\ g[i] \in Int /\ g[i + 1] \in Int
        BY <4>1
      <4> QED
        BY <4>1, <4>2, <4>3
    <3> QED
      BY <3>1, <3>2
  <2> HIDE DEF S
  <2> QED
    BY <2>1, <2>2, Up
<1>5. ASSUME NEW i \in 1..n PROVE end[i] = g[i]
  <2>1. i \in Nat /\ ~(i > n)
    OBVIOUS
  <2> QED
    BY <1>4, <2>1
<1>6. BlockEnds(in, lens) = {end[i] : i \in DOMAIN lens} \union {in.hi}
  BY DEF BlockEnds
<1> HIDE DEF end
<1>7. {end[i] : i \in DOMAIN lens} = {g[i] : i \in 1..n}
  BY <1>5
<1> QED
  BY <1>6, <1>7

(* The element of a finite set of numbers that has i of them up to it.     *)
Nth(S, i) == CHOOSE h \in S : Cardinality({g \in S : g <= h}) = i

LEMMA Ranks ==
  ASSUME NEW S, IsFiniteSet(S), S \subseteq Int
  PROVE  /\ Cardinality(S) \in Nat
         /\ \A i \in 1..Cardinality(S) : Nth(S, i) \in S
         /\ \A h \in S : \E i \in 1..Cardinality(S) : h = Nth(S, i)
         /\ S # {} => Cardinality(S) > 0 /\ \A g \in S : g <= Nth(S, Cardinality(S))
<1> DEFINE n == Cardinality(S)
           Below(x) == {g \in S : g <= x}
           f == [x \in S |-> Cardinality(Below(x))]
<1>1. n \in Nat /\ (S # {} => n > 0)
  BY FS_CardinalityType, FS_EmptySet
<1>2. \A x \in S : /\ IsFiniteSet(Below(x)) /\ Cardinality(Below(x)) \in Nat
                   /\ Cardinality(Below(x)) <= n
                   /\ Cardinality(Below(x)) = n => Below(x) = S
  <2> TAKE x \in S
  <2>1. Below(x) \in SUBSET S
    OBVIOUS
  <2> HIDE DEF Below
  <2> QED
    BY <2>1, FS_Subset, FS_CardinalityType
<1>3. \A x \in S : Cardinality(Below(x)) # 0
  <2> TAKE x \in S
  <2>1. x \in Below(x)
    OBVIOUS
  <2> HIDE DEF Below
  <2> QED
    BY <1>2, <2>1, FS_EmptySet
<1>4. \A x, y \in S : x < y => Cardinality(Below(x)) # Cardinality(Below(y))
  <2> SUFFICES ASSUME NEW x \in S, NEW y \in S, x < y,
                      Cardinality(Below(x)) = Cardinality(Below(y))
               PROVE  FALSE
    OBVIOUS
  <2>1. x \in Int /\ y \in Int
    OBVIOUS
  <2>2. Below(x) \in SUBSET Below(y) /\ y \in Below(y) /\ y \notin Below(x)
    <3>1. /\ \A g \in S : g <= x => g <= y
          /\ y <= y /\ ~(y <= x)
      BY <2>1
    <3> QED
      BY ONLY Zenon, <3>1
  <2>3. IsFiniteSet(Below(y)) /\ Cardinality(Below(x)) = Cardinality(Below(y))
    BY <1>2
  <2> HIDE DEF Below
  <2>4. Below(x) = Below(y)
    BY <2>2, <2>3, FS_Subset
  <2> QED
    BY <2>2, <2>4
<1>5. f \in [S -> 1..n]
  <2> SUFFICES ASSUME NEW x \in S PROVE Cardinality(Below(x)) \in 1..n
    OBVIOUS
  <2> HIDE DEF Below, n
  <2> QED
    BY <1>1, <1>2, <1>3
<1>6. \A x, y \in S : f[x] = f[y] => x = y
  <2> SUFFICES ASSUME NEW x \in S, NEW y \in S, Cardinality(Below(x)) = Cardinality(Below(y))
               PROVE  x = y
    OBVIOUS
  <2>1. x \in Int /\ y \in Int
    OBVIOUS
  <2>2. ~(x < y) /\ ~(y < x)
    BY <1>4
  <2> QED
    BY <2>1, <2>2
<1>7. f \in Injection(S, 1..n)
  <2> HIDE DEF f, n
  <2> QED
    BY <1>5, <1>6 DEF Injection, IsInjective
<1>8. f \in Surjection(S, 1..n)
  <2>1. IsFiniteSet(1..n) /\ Cardinality(1..n) = n
    BY <1>1, FS_Interval
  <2> HIDE DEF f
  <2> QED
    BY <1>7, <2>1, FS_Injection
<1>9. ASSUME NEW i \in 1..n PROVE Nth(S, i) \in S /\ f[Nth(S, i)] = i
  <2>1. PICK h \in S : f[h] = i
    <3> HIDE DEF f, n
    <3> QED
      BY <1>8 DEF Surjection
  <2>2. Cardinality(Below(h)) = i
    BY <2>1
  <2>3. Nth(S, i) \in S /\ Cardinality(Below(Nth(S, i))) = i
    BY <2>2 DEF Nth
  <2> QED
    BY <2>3
<1>10. ASSUME NEW h \in S PROVE \E i \in 1..n : h = Nth(S, i)
  <2>1. f[h] \in 1..n
    BY <1>5
  <2>2. Nth(S, f[h]) \in S /\ f[Nth(S, f[h])] = f[h]
    BY <1>9, <2>1
  <2> HIDE DEF f, n
  <2> QED
    BY <1>6, <2>1, <2>2
<1>11. ASSUME S # {}, NEW g \in S PROVE g <= Nth(S, n)
  <2>1. Nth(S, n) \in S /\ f[Nth(S, n)] = n
    <3> HIDE DEF f
    <3> QED
      BY <1>1, <1>9, <1>11
  <2>2. Below(Nth(S, n)) = S
    BY <1>2, <2>1
  <2> QED
    BY <2>2
<1> HIDE DEF f
<1> QED
  BY <1>1, <1>9, <1>10, <1>11

LEMMA LastIsNth ==
  ASSUME NEW S, IsFiniteSet(S), S \subseteq Int, S # {}, NEW base
  PROVE  LastOf(S, base) = Nth(S, Cardinality(S))
<1>1. PICK l : l = Nth(S, Cardinality(S))
  OBVIOUS
<1>2. l \in S /\ \A g \in S : g <= l
  <2>1. Cardinality(S) \in Nat /\ Cardinality(S) > 0
    BY Ranks
  <2>2. Cardinality(S) \in 1..Cardinality(S)
    BY <2>1
  <2> QED
    BY <1>1, <2>2, Ranks
<1>3. \A h \in S : (\A g \in S : g <= h) => h = l
  <2> TAKE h \in S
  <2>1. h \in Int /\ l \in Int
    BY <1>2
  <2> QED
    BY <1>2, <2>1
<1>4. (CHOOSE h \in S : \A g \in S : g <= h) = l
  BY <1>2, <1>3
<1> QED
  BY <1>1, <1>4 DEF LastOf

(* A list of lengths from base to the elements of S.                       *)
Distances(lens, base, S) ==
  /\ lens \in Seq(Int) /\ Len(lens) = Cardinality(S)
  /\ \A i \in 1..Cardinality(S) :
       lens[i] = Nth(S, i) - (IF i = 1 THEN base ELSE Nth(S, i - 1))

LEMMA LengthsOf ==
  ASSUME NEW base \in Int, NEW S, IsFiniteSet(S), S \subseteq Int
  PROVE  Distances(Lengths(base, S), base, S)
<1>1. PICK n : n = Cardinality(S)
  OBVIOUS
<1>2. n \in Nat /\ \A i \in 1..n : Nth(S, i) \in Int
  BY <1>1, Ranks
<1>3. Lengths(base, S) = [i \in 1..n |-> Nth(S, i) - (IF i = 1 THEN base ELSE Nth(S, i - 1))]
  BY <1>1 DEF Lengths, Nth
<1>4. \A i \in 1..n : Nth(S, i) - (IF i = 1 THEN base ELSE Nth(S, i - 1)) \in Int
  <2> TAKE i \in 1..n
  <2>1. i # 1 => i - 1 \in 1..n
    BY <1>2
  <2> QED
    BY <1>2, <2>1
<1> QED
  BY <1>1, <1>2, <1>3, <1>4 DEF Distances

(* The list of lengths that parallel_compress() makes of the hits in a     *)
(* buffer and in the next stands for just these hits.                      *)
LEMMA EndsOfHits ==
  ASSUME NEW A, IsFiniteSet(A), A \subseteq Int, NEW C, IsFiniteSet(C), C \subseteq Int,
         NEW in, in.lo \in Int
  PROVE  /\ BlockEnds(in, Lengths(in.lo, A) \o Lengths(LastOf(A, in.lo), C))
              = A \union C \union {in.hi}
         /\ Lengths(in.lo, A) \o Lengths(LastOf(A, in.lo), C) = <<>> <=> A = {} /\ C = {}
<1>1. PICK n, m, p, q : /\ n = Cardinality(A) /\ m = Cardinality(C)
                        /\ p = Lengths(in.lo, A) /\ q = Lengths(LastOf(A, in.lo), C)
  OBVIOUS
<1>2. n \in Nat /\ m \in Nat /\ (n = 0 <=> A = {}) /\ (m = 0 <=> C = {})
  BY <1>1, FS_CardinalityType, FS_EmptySet
<1>3. /\ \A i \in 1..n : Nth(A, i) \in A
      /\ \A i \in 1..m : Nth(C, i) \in C
      /\ \A h \in A : \E i \in 1..n : h = Nth(A, i)
      /\ \A h \in C : \E i \in 1..m : h = Nth(C, i)
  BY <1>1, Ranks
<1>4. LastOf(A, in.lo) = IF n = 0 THEN in.lo ELSE Nth(A, n)
  <2>1. CASE n = 0
    BY <1>2, <2>1 DEF LastOf
  <2>2. CASE n # 0
    BY <1>1, <1>2, <2>2, LastIsNth
  <2> QED
    BY <2>1, <2>2
<1>5. LastOf(A, in.lo) \in Int
  <2>1. n # 0 => n \in 1..n
    BY <1>2
  <2> QED
    BY <1>3, <1>4, <2>1
<1>6. /\ p \in Seq(Int) /\ Len(p) = n
      /\ \A i \in 1..n : p[i] = Nth(A, i) - (IF i = 1 THEN in.lo ELSE Nth(A, i - 1))
  <2>1. Distances(p, in.lo, A)
    BY <1>1, LengthsOf
  <2> QED
    BY <1>1, <2>1 DEF Distances
<1>7. /\ q \in Seq(Int) /\ Len(q) = m
      /\ \A i \in 1..m : q[i] = Nth(C, i) - (IF i = 1 THEN LastOf(A, in.lo) ELSE Nth(C, i - 1))
  <2>1. Distances(q, LastOf(A, in.lo), C)
    BY <1>1, <1>5, LengthsOf
  <2> QED
    BY <1>1, <2>1 DEF Distances
<1>8. /\ p \o q \in Seq(Int) /\ Len(p \o q) = n + m /\ DOMAIN (p \o q) = 1..(n + m)
      /\ \A i \in 1..(n + m) : (p \o q)[i] = IF i <= n THEN p[i] ELSE q[i - n]
  <2>1. /\ p \o q \in Seq(Int) /\ Len(p \o q) = Len(p) + Len(q)
        /\ \A i \in 1..(Len(p) + Len(q)) : (p \o q)[i] = IF i <= Len(p) THEN p[i] ELSE q[i - Len(p)]
    BY <1>6, <1>7, ConcatProperties
  <2>2. Len(p) = n /\ Len(q) = m
    BY <1>6, <1>7
  <2>3. DOMAIN (p \o q) = 1..Len(p \o q)
    BY <2>1, LenProperties
  <2> QED
    BY <2>1, <2>2, <2>3
<1> DEFINE g == [i \in 0..(n + m) |-> IF i = 0 THEN in.lo
                                      ELSE IF i <= n THEN Nth(A, i) ELSE Nth(C, i - n)]
<1>9. g \in [0..(n + m) -> Int] /\ n + m \in Nat
  <2>1. ASSUME NEW i \in 0..(n + m) PROVE g[i] \in Int
    <3>1. CASE i = 0
      BY <3>1
    <3>2. CASE i # 0 /\ i <= n
      <4>1. i \in 1..n
        BY <1>2, <3>2
      <4> QED
        BY <1>3, <3>2, <4>1
    <3>3. CASE ~(i <= n)
      <4>1. i - n \in 1..m /\ i # 0
        BY <1>2, <3>3
      <4> QED
        BY <1>3, <3>3, <4>1
    <3> QED
      BY <3>1, <3>2, <3>3
  <2> QED
    BY <1>2, <2>1
<1>10. ASSUME NEW i \in 1..(n + m) PROVE (p \o q)[i] = g[i] - g[i - 1]
  <2>1. i \in 0..(n + m) /\ i - 1 \in 0..(n + m) /\ i # 0
    BY <1>2
  <2>2. CASE i <= n
    <3>1. i \in 1..n /\ (i # 1 => i - 1 <= n /\ i - 1 # 0)
      BY <1>2, <2>2
    <3> QED
      BY <1>6, <1>8, <2>1, <2>2, <3>1
  <2>3. CASE i = n + 1
    <3>1. i - n = 1 /\ 1 \in 1..m /\ ~(i <= n) /\ i - 1 = n /\ n <= n
      BY <1>2, <2>3
    <3>2. g[i] = Nth(C, 1) /\ g[i - 1] = LastOf(A, in.lo)
      BY <1>4, <2>1, <3>1
    <3>3. (p \o q)[i] = q[1] /\ q[1] = Nth(C, 1) - LastOf(A, in.lo)
      BY <1>7, <1>8, <3>1
    <3> QED
      BY <3>2, <3>3
  <2>4. CASE i > n + 1
    <3>1. i - n \in 1..m /\ i - n # 1 /\ ~(i <= n) /\ ~(i - 1 <= n) /\ i - 1 # 0 /\ (i - 1) - n = (i - n) - 1
      BY <1>2, <2>4
    <3>2. g[i] = Nth(C, i - n) /\ g[i - 1] = Nth(C, (i - n) - 1)
      BY <2>1, <3>1
    <3>3. (p \o q)[i] = q[i - n] /\ q[i - n] = Nth(C, i - n) - Nth(C, (i - n) - 1)
      BY <1>7, <1>8, <3>1
    <3> QED
      BY <3>2, <3>3
  <2>5. i <= n \/ i = n + 1 \/ i > n + 1
    BY <1>2
  <2> QED
    BY ONLY <2>2, <2>3, <2>4, <2>5
<1>11. g[0] = in.lo
  BY <1>9
<1>12. {g[i] : i \in 1..(n + m)} = A \union C
  <2>1. ASSUME NEW i \in 1..(n + m) PROVE g[i] \in A \union C
    <3>1. i \in 0..(n + m) /\ i # 0 /\ (i <= n => i \in 1..n) /\ (~(i <= n) => i - n \in 1..m)
      BY <1>2
    <3> QED
      BY <1>3, <3>1
  <2>2. ASSUME NEW h \in A PROVE \E i \in 1..(n + m) : h = g[i]
    <3>1. PICK i \in 1..n : h = Nth(A, i)
      BY <1>3
    <3>2. i \in 1..(n + m) /\ i # 0 /\ i <= n /\ i \in 0..(n + m)
      BY <1>2
    <3> QED
      BY <3>1, <3>2
  <2>3. ASSUME NEW h \in C PROVE \E i \in 1..(n + m) : h = g[i]
    <3>1. PICK i \in 1..m : h = Nth(C, i)
      BY <1>3
    <3>2. i + n \in 1..(n + m) /\ i + n # 0 /\ ~(i + n <= n) /\ i + n \in 0..(n + m) /\ (i + n) - n = i
      BY <1>2
    <3> QED
      BY <3>1, <3>2
  <2> HIDE DEF g
  <2> QED
    BY <2>1, <2>2, <2>3
<1>13. BlockEnds(in, p \o q) = {g[i] : i \in 1..(n + m)} \union {in.hi}
  <2> HIDE DEF g
  <2>1. Differences(p \o q, g, n + m)
    BY <1>8, <1>10 DEF Differences
  <2>2. \A N \in Nat : \A f \in [0..N -> Int] : \A lens :
          Differences(lens, f, N) /\ in.lo = f[0] =>
            BlockEnds(in, lens) = {f[i] : i \in 1..N} \union {in.hi}
    BY EndsOf
  <2> QED
    BY ONLY <1>9, <1>11, <2>1, <2>2
<1>14. p \o q = <<>> <=> A = {} /\ C = {}
  BY <1>2, <1>8
<1> HIDE DEF g
<1> QED
  BY <1>1, <1>12, <1>13, <1>14

-----------------------------------------------------------------------------
(* Cuts                                                                    *)

(* Doing G again and again, from t.                                        *)
LEMMA Iterate ==
  ASSUME NEW T, NEW t \in T, NEW G \in [T -> T]
  PROVE  \E f \in [Nat -> T] : f[0] = t /\ \A n \in Nat : f[n + 1] = G[f[n]]
<1> DEFINE Upto(n, h) == /\ h \in [0..n -> T] /\ h[0] = t
                         /\ \A i \in 0..n : i < n => h[i + 1] = G[h[i]]
           Has == {n \in Nat : \E h : Upto(n, h)}
<1>1. Nat \subseteq Has
  <2>1. 0 \in Has
    <3>1. Upto(0, [i \in 0..0 |-> t])
      OBVIOUS
    <3> QED
      BY <3>1
  <2>2. ASSUME NEW n \in Nat, n \in Has PROVE n + 1 \in Has
    <3>1. PICK h : Upto(n, h)
      BY <2>2
    <3> DEFINE k == [i \in 0..(n + 1) |-> IF i = n + 1 THEN G[h[n]] ELSE h[i]]
    <3>2. ASSUME NEW i \in 0..(n + 1) PROVE k[i] \in T
      <4>1. n \in 0..n /\ (i # n + 1 => i \in 0..n)
        OBVIOUS
      <4> QED
        BY <3>1, <4>1
    <3>3. k[0] = t
      BY <3>1
    <3>4. ASSUME NEW i \in 0..(n + 1), i < n + 1 PROVE k[i + 1] = G[k[i]]
      <4>1. i \in 0..n /\ i + 1 \in 0..(n + 1) /\ i # n + 1 /\ (i + 1 = n + 1 <=> i = n)
        BY <3>4
      <4>2. CASE i = n
        BY <4>1, <4>2
      <4>3. CASE i # n
        <5>1. i < n /\ i + 1 # n + 1
          BY <4>1, <4>3
        <5> QED
          BY <3>1, <4>1, <5>1
      <4> QED
        BY <4>2, <4>3
    <3>5. k \in [0..(n + 1) -> T]
      BY <3>2
    <3> HIDE DEF k
    <3> QED
      BY <3>3, <3>4, <3>5
  <2> HIDE DEF Has
  <2> QED
    BY <2>1, <2>2, Up
<1>2. ASSUME NEW n \in Nat, NEW h, Upto(n, h), NEW k, Upto(n + 1, k)
      PROVE  h[n] = k[n]
  <2> DEFINE Same == {i \in Nat : i > n \/ h[i] = k[i]}
  <2>1. 0 \in Same
    BY <1>2
  <2>2. ASSUME NEW i \in Nat, i \in Same PROVE i + 1 \in Same
    <3>1. CASE i + 1 > n
      BY <3>1
    <3>2. CASE i + 1 <= n
      <4>1. i \in 0..n /\ i < n /\ i \in 0..(n + 1) /\ i < n + 1 /\ h[i] = k[i]
        BY <2>2, <3>2
      <4> QED
        BY <1>2, <4>1
    <3> QED
      BY <3>1, <3>2
  <2>3. Nat \subseteq Same
    <3> HIDE DEF Same
    <3> QED
      BY <2>1, <2>2, Up
  <2> QED
    BY <2>3
<1> DEFINE H(n) == CHOOSE h : Upto(n, h)
           f == [n \in Nat |-> H(n)[n]]
<1>3. \A n \in Nat : Upto(n, H(n))
  BY <1>1
<1> HIDE DEF H
<1>4. \A n \in Nat : H(n)[n] \in T
  BY <1>3
<1>5. H(0)[0] = t
  BY <1>3
<1>6. ASSUME NEW n \in Nat PROVE H(n + 1)[n + 1] = G[H(n)[n]]
  <2>1. H(n)[n] = H(n + 1)[n]
    <3>1. n + 1 \in Nat
      OBVIOUS
    <3> QED
      BY <1>2, <1>3, <3>1
  <2>2. H(n + 1)[n + 1] = G[H(n + 1)[n]]
    BY <1>3
  <2> QED
    BY <2>1, <2>2
<1>7. f \in [Nat -> T] /\ f[0] = t
  BY <1>4, <1>5
<1>8. ASSUME NEW n \in Nat PROVE f[n + 1] = G[f[n]]
  BY <1>6
<1> HIDE DEF f
<1> QED
  BY <1>7, <1>8

(* What ParallelBlocks and its like say of an input.                       *)
Input(len, hits) == len \in Nat /\ hits \subseteq 1..len

LEMMA HitsAre ==
  ASSUME NEW len, NEW hits, Input(len, hits), NEW from \in Int, NEW to \in Int
  PROVE  /\ HitsIn(hits, from, to) \subseteq 1..len /\ HitsIn(hits, from, to) \subseteq Int
         /\ IsFiniteSet(HitsIn(hits, from, to))
         /\ \A h : h \in HitsIn(hits, from, to) <=> h \in hits /\ from < h /\ h <= to
<1>1. IsFiniteSet(1..len) /\ 1..len \subseteq Int
  BY FS_Interval DEF Input
<1>2. HitsIn(hits, from, to) \in SUBSET (1..len)
  BY DEF HitsIn, Input
<1>3. \A h : h \in HitsIn(hits, from, to) <=> h \in hits /\ from < h /\ h <= to
  BY DEF HitsIn
<1> QED
  BY <1>1, <1>2, <1>3, FS_Subset

LEMMA NoHits ==
  ASSUME NEW len, NEW hits, Input(len, hits), NEW c \in Int
  PROVE  HitsIn(hits, c, c) = {}
<1>1. \A h \in hits : h \in Int /\ ~(c < h /\ h <= c)
  BY DEF Input
<1> QED
  BY <1>1 DEF HitsIn

(* The last of a finite set of numbers.                                    *)
LEMMA LastIs ==
  ASSUME NEW S, IsFiniteSet(S), S \subseteq Int, NEW base
  PROVE  /\ S = {} => LastOf(S, base) = base
         /\ S # {} => LastOf(S, base) \in S /\ \A h \in S : h <= LastOf(S, base)
<1>1. ASSUME S # {} PROVE LastOf(S, base) \in S /\ \A h \in S : h <= LastOf(S, base)
  <2>1. Cardinality(S) \in Nat /\ Cardinality(S) > 0
    BY <1>1, Ranks
  <2>2. Cardinality(S) \in 1..Cardinality(S)
    BY <2>1
  <2>3. /\ \A i \in 1..Cardinality(S) : Nth(S, i) \in S
        /\ \A g \in S : g <= Nth(S, Cardinality(S))
    BY <1>1, Ranks
  <2>4. LastOf(S, base) = Nth(S, Cardinality(S))
    BY <1>1, LastIsNth
  <2> QED
    BY ONLY <2>2, <2>3, <2>4
<1> QED
  BY <1>1 DEF LastOf

(* Where the next cut is: at a hit with none before it, or at the end of a *)
(* full block or of the input.                                             *)
LEMMA NextCutIs ==
  ASSUME NEW len, NEW hits, Input(len, hits), NEW c \in 0..len
  PROVE  /\ NextCut(len, hits, c) \in 0..len
         /\ c < len => c < NextCut(len, hits, c)
         /\ \A h \in HitsIn(hits, c, c + Size) :
              (\A g \in HitsIn(hits, c, c + Size) : h <= g) => NextCut(len, hits, c) = h
         /\ HitsIn(hits, c, c + Size) = {} => NextCut(len, hits, c) = MinOf(len, c + Size)
<1> DEFINE S == HitsIn(hits, c, c + Size)
<1>1. Size \in Nat /\ Size > 0 /\ len \in Nat /\ c \in Int /\ c + Size \in Int
  BY BlocksAssumption DEF Input
<1>2. S \subseteq 1..len /\ \A h \in S : h \in Int /\ c < h /\ h <= len
  BY <1>1, HitsAre
<1>3. ASSUME S = {}
      PROVE  /\ NextCut(len, hits, c) = MinOf(len, c + Size)
             /\ NextCut(len, hits, c) \in 0..len /\ (c < len => c < NextCut(len, hits, c))
  BY <1>1, <1>3 DEF NextCut, MinOf
<1>4. ASSUME NEW h \in S, \A g \in S : h <= g PROVE NextCut(len, hits, c) = h
  <2>1. \A x \in S : (\A y \in S : x <= y) => x = h
    <3> TAKE x \in S
    <3>1. x \in Int /\ h \in Int
      BY <1>2
    <3> HIDE DEF S
    <3> QED
      BY <1>4, <3>1
  <2>2. (CHOOSE x \in S : \A y \in S : x <= y) = h
    <3> HIDE DEF S
    <3> QED
      BY <1>4, <2>1
  <2>3. NextCut(len, hits, c) = MinOf(len, h)
    BY <2>2 DEF NextCut
  <2> QED
    BY <1>1, <1>2, <2>3 DEF MinOf
<1>5. ASSUME S # {} PROVE \E h \in S : \A g \in S : h <= g
  <2>1. S \subseteq Nat
    BY <1>2
  <2> HIDE DEF S
  <2> QED
    BY <1>5, <2>1, LeastNat
<1>6. ASSUME S # {}
      PROVE  NextCut(len, hits, c) \in 0..len /\ c < NextCut(len, hits, c)
  <2>1. PICK h \in S : \A g \in S : h <= g
    BY <1>5, <1>6
  <2>2. NextCut(len, hits, c) = h
    BY <1>4, <2>1
  <2>3. h \in 1..len /\ c < h
    BY <1>2
  <2> QED
    BY <1>1, <2>2, <2>3
<1> HIDE DEF S
<1>7. NextCut(len, hits, c) \in 0..len /\ (c < len => c < NextCut(len, hits, c))
  BY <1>3, <1>6
<1> QED
  BY <1>3, <1>4, <1>7 DEF S

(* Cuts from 0 up to top, each where the one before says, and no other.    *)
Chain(S, top, len, hits) ==
  /\ top \in 0..len /\ S \subseteq 0..top /\ {0, top} \subseteq S
  /\ \A c \in S : c < top =>
       /\ NextCut(len, hits, c) \in S
       /\ \A d \in S : c < d => NextCut(len, hits, c) <= d

(* Such cuts of the whole input are the Cuts that the input asks for.      *)
LEMMA CutsAre ==
  ASSUME NEW len, NEW hits, Input(len, hits), NEW S, Chain(S, len, len, hits)
  PROVE  Cuts(len, hits) = S
<1> DEFINE T == SUBSET (0..len)
           G == [R \in T |-> R \union {NextCut(len, hits, LastOf(R, 0))}]
           IsUpto(u) == u = [n \in Nat |->
              IF n = 0 THEN {0} ELSE u[n - 1] \union {NextCut(len, hits, LastOf(u[n - 1], 0))}]
           upto == CHOOSE u : IsUpto(u)
<1>0. len \in Nat /\ IsFiniteSet(0..len) /\ 0..len \subseteq Int
  BY FS_Interval DEF Input
<1>1. \A R \in T : /\ IsFiniteSet(R) /\ R \subseteq Int
                   /\ LastOf(R, 0) \in 0..len
                   /\ NextCut(len, hits, LastOf(R, 0)) \in 0..len
  <2> TAKE R \in T
  <2>1. IsFiniteSet(R) /\ R \subseteq Int
    BY <1>0, FS_Subset
  <2>2. (R = {} => LastOf(R, 0) = 0) /\ (R # {} => LastOf(R, 0) \in R)
    BY <2>1, LastIs
  <2>3. LastOf(R, 0) \in 0..len
    <3>1. 0 \in 0..len
      BY <1>0
    <3>2. CASE R = {}
      BY <2>2, <3>1, <3>2
    <3>3. CASE R # {}
      <4>1. LastOf(R, 0) \in R
        BY <2>2, <3>3
      <4> QED
        BY <4>1
    <3> QED
      BY <3>2, <3>3
  <2> QED
    BY <2>1, <2>3, NextCutIs
<1>2. G \in [T -> T] /\ {0} \in T
  <2>1. ASSUME NEW R \in T PROVE R \union {NextCut(len, hits, LastOf(R, 0))} \in T
    BY <1>1
  <2>2. {0} \in T
    BY <1>0
  <2> HIDE DEF T
  <2> QED
    BY <2>1, <2>2
<1>3. \E u : IsUpto(u)
  <2>1. PICK f \in [Nat -> T] : f[0] = {0} /\ \A n \in Nat : f[n + 1] = G[f[n]]
    <3> HIDE DEF T, G
    <3> QED
      BY <1>2, Iterate
  <2>2. ASSUME NEW n \in Nat
        PROVE  f[n] = IF n = 0 THEN {0} ELSE f[n - 1] \union {NextCut(len, hits, LastOf(f[n - 1], 0))}
    <3>1. CASE n # 0
      <4>1. n - 1 \in Nat /\ (n - 1) + 1 = n
        BY <3>1
      <4>2. f[n] = G[f[n - 1]] /\ f[n - 1] \in T
        BY <2>1, <4>1
      <4> QED
        BY <3>1, <4>2
    <3> QED
      BY <2>1, <3>1
  <2>3. f = [n \in Nat |-> f[n]]
    BY <2>1
  <2>4. IsUpto(f)
    <3> HIDE DEF T, G
    <3> QED
      BY <2>2, <2>3
  <2> QED
    BY <2>4
<1>4. IsUpto(upto)
  BY <1>3
<1>5. /\ upto[0] = {0}
      /\ \A n \in Nat : upto[n + 1] = upto[n] \union {NextCut(len, hits, LastOf(upto[n], 0))}
  <2>1. \A n \in Nat : n + 1 \in Nat /\ n + 1 # 0 /\ (n + 1) - 1 = n
    OBVIOUS
  <2> HIDE DEF upto
  <2> QED
    BY <1>4, <2>1
<1> HIDE DEF upto
<1> DEFINE Prefix(n, m) == upto[n] = {s \in S : s <= m} /\ (n <= m \/ m = len)
           P == {n \in Nat : \E m \in S : Prefix(n, m)}
<1>6. (\A s \in S : s \in Int /\ 0 <= s /\ s <= len) /\ 0 \in S /\ len \in S /\ S \subseteq 0..len
  BY <1>0 DEF Chain
<1>7. 0 \in P
  <2>1. \A s \in S : s <= 0 <=> s = 0
    BY <1>6
  <2>2. {s \in S : s <= 0} = {0}
    BY <1>6, <2>1
  <2> QED
    BY <1>5, <1>6, <2>2
<1>8. ASSUME NEW n \in Nat, n \in P PROVE n + 1 \in P
  <2>1. PICK m \in S : Prefix(n, m)
    BY <1>8
  <2>2. m \in 0..len /\ m \in Int /\ m \in S
    BY <1>6
  <2>3. LastOf(upto[n], 0) = m
    <3>1. PICK R : R = upto[n]
      OBVIOUS
    <3>2. R = {s \in S : s <= m}
      BY <2>1, <3>1
    <3>3. R \in T /\ m \in R /\ \A s \in R : s <= m /\ s \in Int
      <4>1. R \subseteq S
        BY <3>2
      <4>2. \A s \in R : s <= m /\ s \in Int
        BY <1>6, <3>2
      <4>3. m <= m
        BY <2>2
      <4> QED
        BY <1>6, <2>2, <3>2, <4>1, <4>2, <4>3
    <3>4. IsFiniteSet(R) /\ R \subseteq Int /\ R # {}
      BY <1>1, <3>3
    <3>5. LastOf(R, 0) \in R /\ m <= LastOf(R, 0)
      BY <3>3, <3>4, LastIs
    <3> QED
      BY <2>2, <3>1, <3>3, <3>5
  <2>4. upto[n + 1] = upto[n] \union {NextCut(len, hits, m)}
    BY <1>5, <2>3
  <2>5. CASE m = len
    <3>1. NextCut(len, hits, m) \in upto[n]
      <4>1. NextCut(len, hits, m) = len
        <5>1. \A h \in hits : h \in Int /\ h <= len
          BY <1>0 DEF Input
        <5>2. HitsIn(hits, m, m + Size) = {}
          BY <1>0, <2>5, <5>1 DEF HitsIn
        <5>3. NextCut(len, hits, m) = MinOf(len, m + Size)
          BY <2>2, <5>2, NextCutIs
        <5> QED
          BY <1>0, <2>5, <5>3, BlocksAssumption DEF MinOf
      <4> QED
        BY <1>6, <2>1, <2>2, <2>5, <4>1
    <3>2. Prefix(n + 1, m)
      BY <2>1, <2>4, <2>5, <3>1
    <3> QED
      BY <3>2
  <2>6. CASE m # len
    <3>1. PICK k : k = NextCut(len, hits, m)
      OBVIOUS
    <3>2. m < len /\ k \in S /\ k \in Int /\ m < k /\ \A d \in S : m < d => k <= d
      BY <1>0, <2>2, <2>6, <3>1, NextCutIs DEF Chain
    <3>3. \A s \in S : s <= k <=> s <= m \/ s = k
      <4> TAKE s \in S
      <4>1. s \in Int
        BY <1>6
      <4>2. m < s => k <= s
        BY <3>2
      <4> QED
        BY <2>2, <3>2, <4>1, <4>2
    <3>4. upto[n + 1] = {s \in S : s <= k}
      BY <2>1, <2>4, <3>1, <3>2, <3>3
    <3>5. n + 1 <= k
      BY <2>1, <2>2, <2>6, <3>2
    <3> QED
      BY <3>2, <3>4, <3>5
  <2> QED
    BY <2>5, <2>6
<1>9. len \in P
  <2> HIDE DEF P
  <2> QED
    BY <1>0, <1>7, <1>8, Up
<1>10. upto[len] = S
  <2>1. PICK m \in S : Prefix(len, m)
    BY <1>9
  <2>2. m = len
    BY <1>0, <1>6, <2>1
  <2>3. upto[len] = {s \in S : s <= len}
    BY <2>1, <2>2
  <2>4. {s \in S : s <= len} = S
    BY <1>6
  <2> QED
    BY <2>3, <2>4
<1>11. Cuts(len, hits) = upto[len]
  BY DEF Cuts, upto
<1> QED
  BY <1>10, <1>11


-----------------------------------------------------------------------------
(* A turn of the loop                                                      *)

(* The cuts go on: there is a cut after each hit and at the end of what is *)
(* added, where a block is full or the input ends if not after a hit.      *)
Extends(B, lo, hi, len, hits) ==
  /\ B = HitsIn(hits, lo, hi) \union {hi}
  /\ hi \in Int /\ lo < hi /\ hi <= len /\ hi - lo <= Size
  /\ \A c \in Int : lo <= c /\ c < hi /\ HitsIn(hits, c, hi) = {} /\ (c = lo \/ c \in hits)
       => hi = MinOf(len, c + Size)

LEMMA ChainExtends ==
  ASSUME NEW len, NEW hits, Input(len, hits), NEW S, NEW lo, NEW hi, NEW B,
         Chain(S, lo, len, hits), Extends(B, lo, hi, len, hits)
  PROVE  Chain(S \union B, hi, len, hits)
<1>1. /\ len \in Nat /\ Size \in Nat /\ lo \in Int /\ hi \in Int
      /\ 0 <= lo /\ lo < hi /\ hi <= len /\ hi - lo <= Size
      /\ \A h \in hits : h \in Int /\ 1 <= h /\ h <= len
  BY BlocksAssumption DEF Chain, Extends, Input
<1>2. /\ \A c \in S : c \in Int /\ 0 <= c /\ c <= lo
      /\ 0 \in S /\ lo \in S
  BY <1>1 DEF Chain
<1>3. /\ \A h : h \in HitsIn(hits, lo, hi) <=> h \in hits /\ lo < h /\ h <= hi
      /\ \A b \in B : b \in Int /\ lo < b /\ b <= hi
      /\ hi \in B
  BY <1>1 DEF HitsIn, Extends
<1>4. hi \in 0..len /\ S \union B \subseteq 0..hi /\ {0, hi} \subseteq S \union B
  BY <1>1, <1>2, <1>3
<1>5. ASSUME NEW c \in S, c < lo
      PROVE  /\ NextCut(len, hits, c) \in S \union B
             /\ \A d \in S \union B : c < d => NextCut(len, hits, c) <= d
  <2>1. PICK k : k = NextCut(len, hits, c)
    OBVIOUS
  <2>2. k \in S /\ \A d \in S : c < d => k <= d
    BY <1>5, <2>1 DEF Chain
  <2>3. k \in Int /\ k <= lo
    BY <1>2, <2>2
  <2>4. \A d \in B : k <= d
    BY <1>1, <1>3, <2>3
  <2> QED
    BY <2>1, <2>2, <2>4
<1>6. ASSUME NEW c \in Int, lo <= c, c < hi, c = lo \/ c \in hits
      PROVE  /\ NextCut(len, hits, c) \in B
             /\ \A d \in S \union B : c < d => NextCut(len, hits, c) <= d
  <2>1. c \in 0..len /\ c + Size \in Int /\ hi <= c + Size
    BY <1>1, <1>6
  <2>2. \A d \in S \union B : c < d => d \in Int /\ (d = hi \/ d \in HitsIn(hits, c, hi))
    <3>1. \A d \in S : ~(c < d)
      BY <1>1, <1>2, <1>6
    <3>2. \A d \in B : d = hi \/ (d \in hits /\ lo < d /\ d <= hi)
      BY <1>3 DEF Extends
    <3> QED
      BY <1>3, <3>1, <3>2 DEF HitsIn
  <2>3. CASE HitsIn(hits, c, hi) = {}
    <3>1. hi = MinOf(len, c + Size)
      BY <1>6, <2>3 DEF Extends
    <3>2. HitsIn(hits, c, c + Size) = {}
      <4>1. \A h \in hits : ~(c < h /\ h <= c + Size)
        <5> TAKE h \in hits
        <5>1. ~(c < h /\ h <= hi)
          BY <2>3 DEF HitsIn
        <5>2. h \in Int /\ h <= len
          BY <1>1
        <5> QED
          BY <1>1, <2>1, <3>1, <5>1, <5>2 DEF MinOf
      <4> QED
        BY <4>1 DEF HitsIn
    <3>3. NextCut(len, hits, c) = hi
      BY <2>1, <3>1, <3>2, NextCutIs
    <3> QED
      BY <1>1, <1>3, <2>2, <2>3, <3>3
  <2>4. CASE HitsIn(hits, c, hi) # {}
    <3>1. PICK h \in HitsIn(hits, c, hi) : \A g \in HitsIn(hits, c, hi) : h <= g
      <4>1. HitsIn(hits, c, hi) \subseteq Nat
        BY <1>1 DEF HitsIn
      <4> QED
        BY <2>4, <4>1, LeastNat
    <3>2. h \in hits /\ c < h /\ h <= hi /\ h \in Int
      BY <1>1, <3>1 DEF HitsIn
    <3>3. h \in HitsIn(hits, c, c + Size)
      BY <1>1, <2>1, <3>2 DEF HitsIn
    <3>4. \A g \in HitsIn(hits, c, c + Size) : h <= g
      <4> TAKE g \in HitsIn(hits, c, c + Size)
      <4>1. g \in hits /\ c < g /\ g \in Int
        BY <1>1 DEF HitsIn
      <4>2. CASE g <= hi
        BY <3>1, <4>1, <4>2 DEF HitsIn
      <4>3. CASE ~(g <= hi)
        BY <1>1, <3>2, <4>1, <4>3
      <4> QED
        BY <4>2, <4>3
    <3>5. NextCut(len, hits, c) = h
      BY <2>1, <3>3, <3>4, NextCutIs
    <3>6. h \in B
      BY <1>1, <1>3, <1>6, <3>2 DEF Extends
    <3> QED
      BY <2>2, <3>1, <3>2, <3>5, <3>6
  <2> QED
    BY <2>3, <2>4
<1>7. ASSUME NEW c \in S \union B, c < hi
      PROVE  /\ NextCut(len, hits, c) \in S \union B
             /\ \A d \in S \union B : c < d => NextCut(len, hits, c) <= d
  <2>1. CASE c \in S /\ c < lo
    BY <1>5, <2>1
  <2>2. CASE ~(c \in S /\ c < lo)
    <3>1. c \in Int /\ lo <= c /\ (c = lo \/ c \in hits)
      BY <1>1, <1>2, <1>3, <1>7, <2>2 DEF Extends
    <3> QED
      BY <1>6, <1>7, <3>1
  <2> QED
    BY <2>1, <2>2
<1> QED
  BY <1>4, <1>7 DEF Chain

(* What curr = [lo, mid), next = [mid, top), left and scan are when a turn *)
(* of the loop gets to the hash.                                           *)
Ready(lo, mid, top, left, scan, len, hits) ==
  /\ {lo, mid, top, left, scan} \subseteq Int
  /\ 0 <= lo /\ lo < mid /\ mid <= top /\ top <= len
  /\ mid - lo <= Size /\ top - mid <= Size /\ (top - mid = Size \/ top = len)
  /\ IF left = 0 THEN lo <= scan /\ scan <= mid
     ELSE left = mid - lo /\ mid <= scan /\ scan <= top /\ scan <= lo + Size
  /\ HitsIn(hits, lo, scan) = {}

(* Where the hash stops.                                                   *)
Stopped(lo, top) == MinOf(lo + Size, top)

(* What the turn looks at: all the hits in curr and in what is scanned of  *)
(* next, whatever was hashed before.                                       *)
LEMMA TurnSees ==
  ASSUME NEW len, NEW hits, Input(len, hits), NEW lo, NEW mid, NEW top, NEW left, NEW scan,
         Ready(lo, mid, top, left, scan, len, hits)
  PROVE  LET inCurr == IF left = 0 THEN HitsIn(hits, scan, mid) ELSE {}
             start == IF left = 0 THEN mid ELSE scan
         IN  /\ mid + MinOf(Size - (mid - lo), top - mid) = Stopped(lo, top)
             /\ mid <= Stopped(lo, top) /\ Stopped(lo, top) <= len /\ Stopped(lo, top) \in Int
             /\ start <= Stopped(lo, top) /\ scan <= start
             /\ inCurr = HitsIn(hits, lo, mid)
             /\ HitsIn(hits, start, Stopped(lo, top)) = HitsIn(hits, mid, Stopped(lo, top))
             /\ mid - (IF left = 0 THEN mid - LastOf(inCurr, lo) ELSE left)
                  = LastOf(HitsIn(hits, lo, mid), lo)
<1> DEFINE inCurr == IF left = 0 THEN HitsIn(hits, scan, mid) ELSE {}
           start == IF left = 0 THEN mid ELSE scan
<1>1. /\ lo \in Int /\ mid \in Int /\ top \in Int /\ left \in Int /\ scan \in Int /\ Size \in Int
      /\ 0 <= lo /\ lo < mid /\ mid <= top /\ top <= len /\ len \in Int
      /\ mid - lo <= Size
      /\ \A h \in hits : h \in Int
  BY BlocksAssumption DEF Ready, Input
<1>2. /\ left = 0 => lo <= scan /\ scan <= mid
      /\ left # 0 => left = mid - lo /\ mid <= scan /\ scan <= top /\ scan <= lo + Size
      /\ \A h \in hits : ~(lo < h /\ h <= scan)
  BY DEF Ready, HitsIn
<1>3. /\ mid + MinOf(Size - (mid - lo), top - mid) = Stopped(lo, top)
      /\ mid <= Stopped(lo, top) /\ Stopped(lo, top) <= len /\ Stopped(lo, top) \in Int
      /\ start <= Stopped(lo, top) /\ scan <= start
  BY <1>1, <1>2 DEF Stopped, MinOf
<1>4. inCurr = HitsIn(hits, lo, mid)
  <2>1. CASE left = 0
    <3>1. \A h \in hits : scan < h /\ h <= mid <=> lo < h /\ h <= mid
      BY <1>1, <1>2, <2>1
    <3> QED
      BY <2>1, <3>1 DEF HitsIn
  <2>2. CASE left # 0
    <3>1. \A h \in hits : ~(lo < h /\ h <= mid)
      BY <1>1, <1>2, <2>2
    <3> QED
      BY <2>2, <3>1 DEF HitsIn
  <2> QED
    BY <2>1, <2>2
<1>5. HitsIn(hits, start, Stopped(lo, top)) = HitsIn(hits, mid, Stopped(lo, top))
  <2>1. \A h \in hits : start < h <=> mid < h
    BY <1>1, <1>2
  <2> QED
    BY <2>1 DEF HitsIn
<1>6. mid - (IF left = 0 THEN mid - LastOf(inCurr, lo) ELSE left) = LastOf(HitsIn(hits, lo, mid), lo)
  <2>1. CASE left = 0
    <3>1. /\ HitsIn(hits, lo, mid) \subseteq Int /\ IsFiniteSet(HitsIn(hits, lo, mid))
      BY <1>1, HitsAre
    <3>2. LastOf(HitsIn(hits, lo, mid), lo) \in Int
      BY <1>1, <3>1, LastIs
    <3> QED
      BY <1>1, <1>4, <2>1, <3>2
  <2>2. CASE left # 0
    <3>1. LastOf(HitsIn(hits, lo, mid), lo) = lo
      BY <1>4, <2>2 DEF LastOf
    <3> QED
      BY <1>1, <1>2, <2>2, <3>1
  <2> QED
    BY <2>1, <2>2
<1> QED
  BY <1>3, <1>4, <1>5, <1>6

(* What the turn makes of it.                                              *)
Made(lo, mid, top, left, scan, hits) ==
  LET stop == Stopped(lo, top)
      A == HitsIn(hits, lo, mid)
      C == HitsIn(hits, mid, stop)
      lens == Lengths(lo, A) \o Lengths(LastOf(A, lo), C)
      left2 == IF C = {} THEN mid - LastOf(A, lo) ELSE 0
      len == Moved(lens, stop, C, Piece(mid, top))
      tailed == Tailed(lens, len, left2, Piece(mid, top))
  IN  [lens |-> lens,
       scan |-> stop,
       fed |-> IF left = 0 THEN Cat(Piece(scan, mid), Piece(mid, stop)) ELSE Piece(scan, stop),
       left |-> LeftAfter(tailed, left2),
       curr |-> IF tailed THEN Piece(lo, mid - left2)
                ELSE Cat(Piece(lo, mid), Piece(mid, mid + len)),
       next |-> Piece(mid + len, top),
       tail |-> IF tailed THEN Suffix(Piece(lo, mid), left2) ELSE Empty(mid),
       tailed |-> tailed]

LEMMA TurnMakes ==
  ASSUME NEW len, NEW hits, Input(len, hits), NEW lo, NEW mid, NEW top, NEW left, NEW scan,
         Ready(lo, mid, top, left, scan, len, hits)
  PROVE  RsyncTurn(Piece(lo, mid), Piece(mid, top), left, scan, hits)
           = Made(lo, mid, top, left, scan, hits)
<1> DEFINE inCurr == IF left = 0 THEN HitsIn(hits, scan, mid) ELSE {}
           leftOver == IF left = 0 THEN mid - LastOf(inCurr, lo) ELSE left
           start == IF left = 0 THEN mid ELSE scan
           stop == mid + MinOf(Size - (mid - lo), top - mid)
           inNext == HitsIn(hits, start, stop)
           scan2 == IF start < stop THEN stop ELSE start
           A == HitsIn(hits, lo, mid)
           C == HitsIn(hits, mid, Stopped(lo, top))
<1>1. /\ stop = Stopped(lo, top)
      /\ inCurr = A
      /\ inNext = C
      /\ mid - leftOver = LastOf(A, lo)
  <2>1. /\ stop = Stopped(lo, top) /\ inCurr = A /\ mid - leftOver = LastOf(A, lo)
        /\ HitsIn(hits, start, Stopped(lo, top)) = C
    BY TurnSees
  <2> QED
    BY <2>1
<1>2. scan2 = Stopped(lo, top)
  <2>1. start <= Stopped(lo, top) /\ start \in Int /\ Stopped(lo, top) \in Int
    BY TurnSees DEF Ready
  <2> HIDE DEF start
  <2> QED
    BY <1>1, <2>1
<1>3. leftOver = mid - LastOf(A, lo)
  <2>1. mid \in Int /\ left \in Int
    BY DEF Ready
  <2>2. CASE left = 0
    BY <1>1, <2>2
  <2>3. CASE left # 0
    BY <1>1, <2>1, <2>3
  <2> QED
    BY <2>2, <2>3
<1>4. IF left = 0 THEN start = mid ELSE start = scan
  OBVIOUS
<1> DEFINE left2 == IF inNext = {} THEN leftOver ELSE 0
           lens == Lengths(lo, inCurr) \o Lengths(mid - leftOver, inNext)
           n == Moved(lens, scan2, inNext, Piece(mid, top))
           tailed == Tailed(lens, n, left2, Piece(mid, top))
<1>5. RsyncTurn(Piece(lo, mid), Piece(mid, top), left, scan, hits)
        = [lens |-> lens,
           scan |-> scan2,
           fed |-> IF left = 0 THEN Cat(Piece(scan, mid), Piece(start, scan2))
                   ELSE Piece(start, scan2),
           left |-> LeftAfter(tailed, left2),
           curr |-> IF tailed THEN Piece(lo, mid - left2)
                    ELSE Cat(Piece(lo, mid), Piece(mid, mid + n)),
           next |-> Piece(mid + n, top),
           tail |-> IF tailed THEN Suffix(Piece(lo, mid), left2) ELSE Empty(mid),
           tailed |-> tailed]
  <2>1. /\ Piece(lo, mid).lo = lo /\ Piece(lo, mid).hi = mid /\ Span(Piece(lo, mid)) = mid - lo
        /\ Piece(mid, top).lo = mid /\ Piece(mid, top).hi = top /\ Span(Piece(mid, top)) = top - mid
    BY DEF Piece, Span
  <2>2. ScanEnd(Piece(lo, mid), Piece(mid, top)) = stop
    BY <2>1 DEF ScanEnd
  <2> QED
    BY ONLY <2>1, <2>2 DEF RsyncTurn
<1>6. lens = Lengths(lo, A) \o Lengths(LastOf(A, lo), C)
  BY <1>1
<1>7. left2 = IF C = {} THEN mid - LastOf(A, lo) ELSE 0
  BY <1>1, <1>3
<1>8. n = Moved(Lengths(lo, A) \o Lengths(LastOf(A, lo), C), Stopped(lo, top), C, Piece(mid, top))
  BY <1>1, <1>2, <1>6
<1> HIDE DEF lens, left2, n, scan2, start, inNext, leftOver, inCurr, A, C, stop
<1> QED
  BY ONLY <1>1, <1>2, <1>4, <1>5, <1>6, <1>7, <1>8, Zenon DEF Made, A, C

LEMMA CatIs ==
  ASSUME NEW a \in Int, NEW b \in Int, NEW c \in Int, 0 <= a, a <= b, b <= c
  PROVE  Cat(Piece(a, b), Piece(b, c)) = Piece(a, c)
<1>1. Piece(a, b) # Broken
  <2>1. Piece(a, b).lo = a /\ Broken.lo = -1
    BY DEF Piece, Broken
  <2> QED
    BY <2>1
<1>2. Piece(a, b).lo = a /\ Piece(a, b).hi = b /\ Piece(b, c).lo = b /\ Piece(b, c).hi = c
  BY DEF Piece
<1> QED
  BY <1>1, <1>2 DEF Cat

(* The job that comes out of a turn is what comes next of the input, cut   *)
(* after the hits, with what is left of it in next or in a tail.           *)
TurnedOut(r, lo, mid, top, left, scan, len, hits) ==
  /\ r.scan = Stopped(lo, top)
  /\ r.fed = Piece(scan, r.scan)
  /\ r.curr = Piece(lo, r.curr.hi)
  /\ Extends(BlockEnds(r.curr, r.lens), lo, r.curr.hi, len, hits)
  /\ HitsIn(hits, r.curr.hi, r.scan) = {}
  /\ r.curr.hi <= r.scan
  /\ r.tailed \in BOOLEAN
  /\ IF r.tailed
       THEN /\ r.tail = Piece(r.curr.hi, mid) /\ r.curr.hi < mid /\ mid < top
            /\ r.next = Piece(mid, top) /\ r.left = mid - r.curr.hi
            /\ left = 0
       ELSE /\ r.left = 0 /\ mid <= r.curr.hi /\ r.next = Piece(r.curr.hi, top)
            /\ r.curr.hi = top => top = len

LEMMA TurnIs ==
  ASSUME NEW len, NEW hits, Input(len, hits), NEW lo, NEW mid, NEW top, NEW left, NEW scan,
         Ready(lo, mid, top, left, scan, len, hits), NEW r,
         r = RsyncTurn(Piece(lo, mid), Piece(mid, top), left, scan, hits)
  PROVE  TurnedOut(r, lo, mid, top, left, scan, len, hits)
<1>1. PICK stop, A, C, a : /\ stop = Stopped(lo, top)
                           /\ A = HitsIn(hits, lo, mid)
                           /\ C = HitsIn(hits, mid, stop)
                           /\ a = LastOf(A, lo)
  OBVIOUS
<1>2. /\ lo \in Int /\ mid \in Int /\ top \in Int /\ left \in Int /\ scan \in Int /\ Size \in Int
      /\ 0 <= lo /\ lo < mid /\ mid <= top /\ top <= len /\ len \in Int /\ 0 < Size
      /\ mid - lo <= Size /\ (top - mid = Size \/ top = len)
      /\ left # 0 => left = mid - lo /\ mid <= scan /\ scan <= top /\ scan <= lo + Size
      /\ left = 0 => lo <= scan /\ scan <= mid
      /\ HitsIn(hits, lo, scan) = {}
      /\ \A h \in hits : h \in Int /\ 1 <= h /\ h <= len
  BY BlocksAssumption DEF Ready, Input
<1>3. stop \in Int /\ mid <= stop /\ stop <= top /\ stop <= lo + Size /\ (stop = top \/ stop = lo + Size)
  BY <1>1, <1>2 DEF Stopped, MinOf
<1>4. /\ \A h : h \in A <=> h \in hits /\ lo < h /\ h <= mid
      /\ \A h : h \in C <=> h \in hits /\ mid < h /\ h <= stop
      /\ IsFiniteSet(A) /\ A \subseteq Int /\ IsFiniteSet(C) /\ C \subseteq Int
  BY <1>1, <1>2, <1>3, HitsAre
<1>5. /\ A = {} => a = lo
      /\ A # {} => a \in A /\ \A h \in A : h <= a
      /\ a \in Int /\ lo <= a /\ a <= mid
  <2>1. (A = {} => a = lo) /\ (A # {} => a \in A /\ \A h \in A : h <= a)
    BY <1>1, <1>4, LastIs
  <2> QED
    BY <1>2, <1>4, <2>1
<1>6. PICK lens : /\ lens = Lengths(lo, A) \o Lengths(a, C)
                  /\ lens = <<>> <=> A = {} /\ C = {}
                  /\ \A hi : BlockEnds(Piece(lo, hi), lens) = A \union C \union {hi}
  <2>1. ASSUME NEW in, in.lo = lo
        PROVE  /\ BlockEnds(in, Lengths(lo, A) \o Lengths(a, C)) = A \union C \union {in.hi}
               /\ Lengths(lo, A) \o Lengths(a, C) = <<>> <=> A = {} /\ C = {}
    <3>1. in.lo \in Int
      BY <1>2, <2>1
    <3>2. /\ BlockEnds(in, Lengths(in.lo, A) \o Lengths(LastOf(A, in.lo), C)) = A \union C \union {in.hi}
          /\ Lengths(in.lo, A) \o Lengths(LastOf(A, in.lo), C) = <<>> <=> A = {} /\ C = {}
      BY <1>4, <3>1, EndsOfHits
    <3> QED
      BY <1>1, <2>1, <3>2
  <2>2. \A hi : Piece(lo, hi).lo = lo /\ Piece(lo, hi).hi = hi
    BY DEF Piece
  <2>3. PICK lens : lens = Lengths(lo, A) \o Lengths(a, C)
    OBVIOUS
  <2>4. lens = <<>> <=> A = {} /\ C = {}
    BY <2>1, <2>2, <2>3
  <2>5. \A hi : BlockEnds(Piece(lo, hi), lens) = A \union C \union {hi}
    BY <2>1, <2>2, <2>3
  <2> QED
    BY <2>3, <2>4, <2>5
<1>7. r = Made(lo, mid, top, left, scan, hits)
  BY TurnMakes
<1>8. r.scan = stop /\ r.fed = Piece(scan, stop) /\ r.lens = lens
  <2>1. /\ r.scan = stop /\ r.lens = lens
        /\ r.fed = IF left = 0 THEN Cat(Piece(scan, mid), Piece(mid, stop)) ELSE Piece(scan, stop)
    BY <1>1, <1>6, <1>7 DEF Made
  <2> QED
    BY <1>2, <1>3, <2>1, CatIs
<1> DEFINE left2 == IF C = {} THEN mid - a ELSE 0
           n == Moved(lens, stop, C, Piece(mid, top))
           t == Tailed(lens, n, left2, Piece(mid, top))
<1>9. /\ r.left = LeftAfter(t, left2)
      /\ r.curr = IF t THEN Piece(lo, mid - left2) ELSE Cat(Piece(lo, mid), Piece(mid, mid + n))
      /\ r.next = Piece(mid + n, top)
      /\ r.tail = IF t THEN Suffix(Piece(lo, mid), left2) ELSE Empty(mid)
      /\ r.tailed = t
  <2> HIDE DEF n, t
  <2>1. n = Moved(Lengths(lo, A) \o Lengths(a, C), stop, C, Piece(mid, top))
    BY <1>6 DEF n
  <2>2. t = Tailed(Lengths(lo, A) \o Lengths(a, C), n, left2, Piece(mid, top))
    BY <1>6 DEF t
  <2> QED
    BY <1>1, <1>7, <2>1, <2>2 DEF Made
<1>10. t \in BOOLEAN /\ (t <=> n = 0 /\ lens # <<>> /\ left2 # 0 /\ mid # top)
  BY <1>2 DEF Tailed, Span, Piece
<1>11. n = (IF lens = <<>> THEN stop ELSE LastOf(C, mid)) - mid
  BY DEF Moved, Piece
<1> HIDE DEF n, t
<1>12. ASSUME NEW hi \in Int, lo < hi, hi <= stop, mid <= hi \/ C = {},
              HitsIn(hits, hi, stop) = {}, C # {} => hi \in C,
              a < hi /\ C = {} => (A = {} /\ hi = MinOf(len, lo + Size)) \/ hi = len
       PROVE  /\ Extends(BlockEnds(Piece(lo, hi), lens), lo, hi, len, hits)
  <2>1. HitsIn(hits, lo, hi) \union {hi} = A \union C \union {hi}
    <3>1. ASSUME NEW h \in A \union C PROVE h \in HitsIn(hits, lo, hi)
      <4>1. h \in hits /\ lo < h /\ h <= stop /\ h \in Int
        BY <1>2, <1>3, <1>4
      <4>2. ~(hi < h)
        BY <1>12, <4>1 DEF HitsIn
      <4> QED
        BY <1>12, <4>1, <4>2 DEF HitsIn
    <3>2. ASSUME NEW h \in HitsIn(hits, lo, hi) PROVE h \in A \union C
      <4>1. h \in hits /\ lo < h /\ h <= hi /\ h \in Int
        BY <1>2 DEF HitsIn
      <4> QED
        BY <1>2, <1>3, <1>4, <1>12, <4>1
    <3> QED
      BY <3>1, <3>2
  <2>2. ASSUME NEW c \in Int, lo <= c, c < hi, HitsIn(hits, c, hi) = {}, c = lo \/ c \in hits
        PROVE  hi = MinOf(len, c + Size)
    <3>1. C = {}
      <4> SUFFICES ASSUME hi \in C PROVE FALSE
        BY <1>12
      <4>1. hi \in hits /\ hi <= hi
        BY <1>4, <1>12
      <4> QED
        BY <2>2, <4>1 DEF HitsIn
    <3>2. c = a
      BY <1>2, <1>3, <1>4, <1>5, <1>12, <2>2, <3>1 DEF HitsIn
    <3> QED
      BY <1>2, <1>3, <1>5, <1>12, <2>2, <3>1, <3>2 DEF MinOf
  <2>3. hi <= len /\ hi - lo <= Size
    BY <1>2, <1>3, <1>12
  <2>4. BlockEnds(Piece(lo, hi), lens) = HitsIn(hits, lo, hi) \union {hi}
    BY <1>6, <2>1
  <2> QED
    BY <1>12, <2>2, <2>3, <2>4 DEF Extends
<1>13. CASE C # {}
  <2>1. PICK c : c = LastOf(C, mid)
    OBVIOUS
  <2>2. c \in C /\ \A h \in C : h <= c
    BY <1>4, <1>13, <2>1, LastIs
  <2>3. c \in Int /\ mid < c /\ c <= stop
    BY <1>2, <1>4, <2>2
  <2>4. n = c - mid /\ mid + n = c /\ ~t
    <3>1. lens # <<>>
      BY <1>6, <1>13
    <3>2. n = c - mid
      BY <1>11, <2>1, <3>1
    <3>3. mid \in Int /\ c \in Int /\ mid < c
      BY <1>2, <2>3
    <3>4. mid + n = c /\ n # 0
      BY ONLY <3>2, <3>3
    <3> QED
      BY <1>10, <3>2, <3>4
  <2>5. /\ r.curr = Piece(lo, c) /\ r.left = 0 /\ r.next = Piece(c, top) /\ r.tailed = FALSE
    BY <1>2, <1>9, <2>3, <2>4, CatIs DEF LeftAfter
  <2>6. HitsIn(hits, c, stop) = {}
    <3>1. \A h \in hits : ~(c < h /\ h <= stop)
      BY <1>2, <1>4, <2>2, <2>3
    <3> QED
      BY <3>1 DEF HitsIn
  <2>7. Extends(BlockEnds(Piece(lo, c), lens), lo, c, len, hits)
    BY <1>2, <1>12, <1>13, <2>2, <2>3, <2>6
  <2>8. r.curr.hi = c
    BY <2>5 DEF Piece
  <2>9. c = top => top = len
    BY <1>2, <1>3, <2>3
  <2>10. mid <= c /\ c <= stop
    BY <1>2, <2>3
  <2> QED
    BY ONLY <1>1, <1>8, <2>5, <2>6, <2>7, <2>8, <2>9, <2>10 DEF TurnedOut
<1>14. CASE C = {} /\ A = {}
  <2>1. n = stop - mid /\ mid + n = stop /\ ~t
    BY <1>2, <1>3, <1>6, <1>10, <1>11, <1>14
  <2>2. /\ r.curr = Piece(lo, stop) /\ r.left = 0 /\ r.next = Piece(stop, top) /\ r.tailed = FALSE
    BY <1>2, <1>3, <1>9, <2>1, CatIs DEF LeftAfter
  <2>3. HitsIn(hits, stop, stop) = {}
    BY <1>2, <1>3 DEF HitsIn
  <2>4. stop = MinOf(len, lo + Size)
    BY <1>2, <1>3 DEF MinOf
  <2>5. Extends(BlockEnds(Piece(lo, stop), lens), lo, stop, len, hits)
    <3>1. lo < stop /\ stop <= stop
      BY <1>2, <1>3
    <3> QED
      BY <1>3, <1>12, <1>14, <2>3, <2>4, <3>1
  <2>6. r.curr.hi = stop
    BY <2>2 DEF Piece
  <2>7. stop = top => top = len
    BY <1>2, <1>3
  <2>8. mid <= stop /\ stop <= stop
    BY <1>3
  <2> QED
    BY ONLY <1>1, <1>8, <2>2, <2>3, <2>5, <2>6, <2>7, <2>8 DEF TurnedOut
<1>15. CASE C = {} /\ A # {}
  <2>1. n = 0 /\ mid + n = mid /\ (t <=> mid - a # 0 /\ mid # top)
    BY <1>2, <1>6, <1>10, <1>11, <1>15 DEF LastOf
  <2>2. a \in hits /\ lo < a /\ a <= mid
    BY <1>4, <1>5, <1>15
  <2>3. HitsIn(hits, a, stop) = {}
    <3>1. \A h \in hits : ~(a < h /\ h <= stop)
      BY <1>2, <1>3, <1>4, <1>5, <1>15
    <3> QED
      BY <3>1 DEF HitsIn
  <2>4. CASE t
    <3>1. /\ r.curr = Piece(lo, a) /\ r.left = mid - a /\ r.next = Piece(mid, top) /\ r.tailed = TRUE
          /\ r.tail = Piece(a, mid)
      <4>1. mid - (mid - a) = a
        BY <1>2, <1>5
      <4>2. Suffix(Piece(lo, mid), mid - a) = Piece(a, mid)
        BY <4>1 DEF Suffix, Piece
      <4> QED
        BY <1>9, <1>15, <2>1, <2>4, <4>1, <4>2 DEF LeftAfter
    <3>2. Extends(BlockEnds(Piece(lo, a), lens), lo, a, len, hits)
      <4>1. a \in Int /\ a <= stop /\ ~(a < a)
        BY <1>2, <1>3, <1>5
      <4> QED
        BY <1>12, <1>15, <2>2, <2>3, <4>1
    <3>3. r.curr.hi = a
      BY <3>1 DEF Piece
    <3>4. a < mid /\ mid < top /\ a <= stop
      BY <1>2, <1>3, <1>5, <2>1, <2>4
    <3>5. left = 0
      <4> SUFFICES ASSUME left # 0 PROVE FALSE
        OBVIOUS
      <4>1. a \in HitsIn(hits, lo, scan)
        BY <1>2, <1>5, <2>2, <3>4 DEF HitsIn
      <4> QED
        BY <1>2, <4>1
    <3> QED
      BY ONLY <1>1, <1>8, <2>3, <3>1, <3>2, <3>3, <3>4, <3>5 DEF TurnedOut
  <2>5. CASE ~t
    <3>1. /\ r.curr = Piece(lo, mid) /\ r.left = 0 /\ r.next = Piece(mid, top) /\ r.tailed = FALSE
      BY <1>2, <1>9, <2>1, <2>5, CatIs DEF LeftAfter
    <3>2. HitsIn(hits, mid, stop) = {}
      BY <1>1, <1>15
    <3>3. a = mid \/ mid = len
      BY <1>2, <1>5, <2>1, <2>5
    <3>4. Extends(BlockEnds(Piece(lo, mid), lens), lo, mid, len, hits)
      <4>1. a < mid => mid = len
        BY <1>2, <3>3
      <4> QED
        BY <1>2, <1>3, <1>12, <1>15, <3>2, <4>1
    <3>5. r.curr.hi = mid
      BY <3>1 DEF Piece
    <3>6. mid = top => top = len
      BY <1>2
    <3>7. mid <= mid /\ mid <= stop
      BY <1>2, <1>3
    <3> QED
      BY ONLY <1>1, <1>8, <3>1, <3>2, <3>4, <3>5, <3>6, <3>7 DEF TurnedOut
  <2> QED
    BY <2>4, <2>5
<1> QED
  BY <1>13, <1>14, <1>15


-----------------------------------------------------------------------------
(* Dictionaries                                                            *)

IsPiece(x, top) == x = Piece(x.lo, x.hi) /\ {x.lo, x.hi} \subseteq Int
                   /\ 0 <= x.lo /\ x.lo <= x.hi /\ x.hi <= top

LEMMA PieceIs ==
  ASSUME NEW lo \in Int, NEW hi \in Int
  PROVE  /\ Piece(lo, hi).lo = lo /\ Piece(lo, hi).hi = hi /\ Span(Piece(lo, hi)) = hi - lo
         /\ \A top : IsPiece(Piece(lo, hi), top) <=> 0 <= lo /\ lo <= hi /\ hi <= top
BY DEF Piece, Span, IsPiece

(* As much of what comes before a position as there is, up to Dict.        *)
Window(x, at) ==
  /\ IsPiece(x, at) /\ x.hi = at /\ Span(x) <= Size
  /\ MinOf(Span(x), Dict) = MinOf(at, Dict)

LEMMA WindowIs ==
  ASSUME NEW at \in Int, NEW x, Window(x, at)
  PROVE  /\ UsedDict(x) = Piece(at - MinOf(at, Dict), at)
         /\ Span(x) \in 0..Size
<1>1. Size \in Int
  BY BlocksAssumption
<1>2. UsedDict(x) = Piece(at - MinOf(at, Dict), at)
  BY DEF UsedDict, Suffix, Window
<1> QED
  BY <1>1, <1>2 DEF Window, IsPiece, Span

(* The dictionary for the next job is the window there, if this job gets   *)
(* past the first Dict bytes or is the first; there is enough to copy.     *)
LEMMA NextDictIs ==
  ASSUME NEW lo \in Int, NEW hi \in Int, 0 <= lo, lo < hi, hi - lo <= Size,
         NEW x, Window(x, lo), lo = 0 \/ hi >= Dict
  PROVE  /\ Window(NextDict(Piece(lo, hi), x), hi)
         /\ Span(Piece(lo, hi)) < Dict /\ Span(x) # 0 => Copied(Piece(lo, hi)) <= Span(x)
<1>1. Size \in Int /\ Dict \in Int /\ 1 <= Dict /\ Dict <= Size
  BY BlocksAssumption
<1>2. PICK xlo \in Int : /\ x = Piece(xlo, lo) /\ 0 <= xlo /\ xlo <= lo /\ lo - xlo <= Size
                         /\ MinOf(lo - xlo, Dict) = MinOf(lo, Dict)
  BY DEF Window, IsPiece, Span
<1>3. Span(x) = lo - xlo /\ Span(Piece(lo, hi)) = hi - lo
  BY <1>2 DEF Span, Piece
<1>4. \A a \in Int : 0 <= a /\ a <= hi /\ hi - a <= Size /\ MinOf(hi - a, Dict) = MinOf(hi, Dict)
                     => Window(Piece(a, hi), hi)
  BY DEF Window, IsPiece, Span, Piece
<1>5. CASE hi - lo >= Dict \/ lo - xlo = 0
  <2>1. NextDict(Piece(lo, hi), x) = Piece(lo, hi)
    BY <1>3, <1>5 DEF NextDict
  <2>2. MinOf(hi - lo, Dict) = MinOf(hi, Dict)
    BY <1>1, <1>2, <1>5 DEF MinOf
  <2>3. Window(Piece(lo, hi), hi)
    BY <1>4, <2>2
  <2> QED
    BY <1>1, <1>3, <1>5, <2>1, <2>3
<1>6. CASE ~(hi - lo >= Dict \/ lo - xlo = 0)
  <2>1. hi >= Dict /\ hi - lo < Dict
    BY <1>1, <1>2, <1>6
  <2>2. Dict - (hi - lo) <= lo - xlo
    BY <1>1, <1>2, <2>1 DEF MinOf
  <2>3. Suffix(x, Copied(Piece(lo, hi))) = Piece(hi - Dict, lo)
    <3>1. lo - (Dict - (hi - lo)) = hi - Dict
      BY <1>1
    <3>2. x.hi = lo
      BY <1>2 DEF Piece
    <3> QED
      BY <1>3, <3>1, <3>2 DEF Suffix, Copied
  <2>4. NextDict(Piece(lo, hi), x) = Cat(Piece(hi - Dict, lo), Piece(lo, hi))
    BY <1>3, <1>6, <2>3 DEF NextDict
  <2>5. NextDict(Piece(lo, hi), x) = Piece(hi - Dict, hi)
    <3>1. hi - Dict \in Int /\ 0 <= hi - Dict /\ hi - Dict <= lo /\ lo <= hi
      BY <1>1, <2>1
    <3> QED
      BY <2>4, <3>1, CatIs
  <2>6. Window(Piece(hi - Dict, hi), hi)
    <3>1. /\ hi - Dict \in Int /\ 0 <= hi - Dict /\ hi - Dict <= hi
          /\ hi - (hi - Dict) = Dict /\ MinOf(Dict, Dict) = MinOf(hi, Dict)
      BY <1>1, <2>1 DEF MinOf
    <3> QED
      BY <1>1, <1>4, <3>1
  <2>7. Copied(Piece(lo, hi)) <= Span(x)
    BY <1>3, <2>2 DEF Copied
  <2> QED
    BY <2>5, <2>6, <2>7
<1> QED
  BY <1>5, <1>6
=============================================================================
