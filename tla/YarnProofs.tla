------------------------------ MODULE YarnProofs ------------------------------
(***************************************************************************)
(* Proofs about yarn.c, for any threads and values.  YarnThreads with      *)
(* destruct(): the list of threads and its count are right whenever they   *)
(* are looked at, and no call fails.  Yarn: mutual exclusion, the absence  *)
(* of lost wake-ups, and that it implements the lock that yarn.h promises  *)
(* (LockSpec).                                                             *)
(***************************************************************************)
EXTENDS Yarn, YarnThreads, FiniteSetTheorems, SequenceTheorems, NaturalsInduction, TLAPS

-----------------------------------------------------------------------------
(* The list of threads                                                     *)

Types ==
  /\ threads \in Seq(Workers)
  /\ marked \subseteq Workers
  /\ threadsLock \in Nat
  /\ by \in Workers \union {Main, Nobody}
  /\ state \in [Workers -> States]
  /\ mpc \in MainStates
  /\ ally \in Workers \union {Nobody}

(* The list holds what was launched and not joined, once.                  *)
Linked ==
  /\ IsInjective(threads)
  /\ \A t \in Workers :
       t \in Listed <=> state[t] \notin {"none", "joined"} /\ ~(mpc = "link" /\ ally = t)

(* A thread is marked at the end of reenter(), and the value of            *)
(* threads_lock is changed with the marks and the list.                    *)
Marks ==
  /\ \A t \in marked : state[t] \in {"exiting", "ended", "joined"}
  /\ threadsLock = Cardinality(Listed \intersect marked)

(* Who possesses threads_lock; a thread that destruct() has ended in       *)
(* reenter() keeps it.                                                     *)
Possession ==
  /\ by = Main <=> mpc \in {"create", "link", "unlink", "turn", "find"}
  /\ \A t \in Workers : state[t] = "entering" => by = t

(* Main's thread in each of its calls.                                     *)
AllyOK ==
  /\ mpc \in {"launch", "create", "link", "join", "joined", "unlink"} => ally \in Workers
  /\ mpc \in {"launch", "create"} => state[ally] = "none"
  /\ mpc = "link" => state[ally] \notin {"none", "joined", "entering"} /\ ally \notin marked
  /\ mpc = "join" => state[ally] \notin {"none", "joined"}
  /\ mpc \in {"joined", "unlink"} => state[ally] = "ended"
  /\ mpc = "find" => threadsLock # 0

IInv == Types /\ Linked /\ Marks /\ Possession /\ AllyOK

-----------------------------------------------------------------------------
(* Lists                                                                   *)

(* A set of numbers that is not empty has a least one.                     *)
LEMMA LeastIn ==
  ASSUME NEW I, I \subseteq Nat, I # {}
  PROVE  Min(I) \in I /\ \A k \in I : Min(I) <= k
<1> DEFINE T == {0..i : i \in I}
<1>1. T \subseteq FiniteSubsetsOf(Nat) /\ T # {}
  <2>1. \A i \in Nat : 0..i \subseteq Nat /\ IsFiniteSet(0..i)
    BY FS_Interval
  <2> QED
    BY <2>1 DEF FiniteSubsetsOf
<1>2. PICK x \in T : \A y \in T : ~(<<y, x>> \in StrictSubsetOrdering(Nat))
  <2> HIDE DEF T
  <2> QED
    BY <1>1, FS_StrictSubsetOrderingWellFounded, WFMin
<1>3. PICK n \in I : x = 0..n
  OBVIOUS
<1>4. \A i \in I : n <= i
  <2> SUFFICES ASSUME NEW i \in I, i < n PROVE FALSE
    OBVIOUS
  <2>1. i \in Nat /\ n \in Nat
    OBVIOUS
  <2>2. 0..i \subseteq 0..n
    BY <2>1
  <2>3. n \in 0..n /\ n \notin 0..i
    BY <2>1
  <2>4. <<0..i, 0..n>> \in StrictSubsetOrdering(Nat)
    BY <2>1, <2>2, <2>3 DEF StrictSubsetOrdering
  <2> QED
    BY <1>2, <1>3, <2>4
<1> QED
  BY <1>4 DEF Min

(* The first thread that is marked, if one in the list is.                 *)
LEMMA FirstOf ==
  ASSUME threads \in Seq(Workers), Listed \intersect marked # {}
  PROVE  FirstMarked \in 1..Len(threads) /\ threads[FirstMarked] \in marked
<1> DEFINE I == {i \in 1..Len(threads) : threads[i] \in marked}
<1>1. I \subseteq Nat /\ I # {}
  BY DEF Listed, ToSet
<1>2. Min(I) \in I
  <2> HIDE DEF I
  <2> QED
    BY <1>1, LeastIn
<1>3. FirstMarked = Min(I)
  BY <1>1 DEF FirstMarked, SelectInSeq
<1> QED
  BY <1>2, <1>3

(* What is in a list, and that it is in it once.                           *)
LEMMA InList ==
  ASSUME NEW S, NEW s \in Seq(S)
  PROVE  /\ \A x : x \in ToSet(s) <=> \E i \in 1..Len(s) : s[i] = x
         /\ IsInjective(s) <=> \A i, j \in 1..Len(s) : s[i] = s[j] => i = j
<1>1. DOMAIN s = 1..Len(s)
  OBVIOUS
<1> QED
  BY <1>1 DEF ToSet, IsInjective

LEMMA WithoutOne ==
  ASSUME NEW S, NEW s \in Seq(S), NEW k \in 1..Len(s)
  PROVE  /\ RemoveAt(s, k) \in Seq(S) /\ Len(RemoveAt(s, k)) = Len(s) - 1
         /\ \A i \in 1..(Len(s) - 1) : RemoveAt(s, k)[i] = IF i < k THEN s[i] ELSE s[i + 1]
<1> DEFINE n == Len(s)
<1>1. PICK a : a = SubSeq(s, 1, k - 1)
  OBVIOUS
<1>2. a \in Seq(S) /\ Len(a) = k - 1 /\ \A i \in 1..(k - 1) : a[i] = s[i]
  <2>1. \A i \in 1..(k - 1) : s[i] \in S
    OBVIOUS
  <2>2. k - 1 \in Int /\ 1 \in Int
    OBVIOUS
  <2> QED
    BY <1>1, <2>1, <2>2, SubSeqProperties
<1>3. PICK b : b = SubSeq(s, k + 1, n)
  OBVIOUS
<1>4. b \in Seq(S) /\ Len(b) = n - k /\ \A i \in 1..(n - k) : b[i] = s[k + i]
  <2>1. \A i \in (k + 1)..n : s[i] \in S
    OBVIOUS
  <2>2. k + 1 \in Int /\ n \in Int /\ k \in Int /\ k <= n
    OBVIOUS
  <2>3. /\ b \in Seq(S) /\ Len(b) = IF k + 1 <= n THEN n - (k + 1) + 1 ELSE 0
        /\ \A i \in 1..(n - (k + 1) + 1) : b[i] = s[k + 1 + i - 1]
    BY <1>3, <2>1, <2>2, SubSeqProperties
  <2> QED
    BY <2>2, <2>3
<1>5. PICK c : c = a \o b
  OBVIOUS
<1>6. /\ c \in Seq(S) /\ Len(c) = n - 1
      /\ \A i \in 1..(n - 1) : c[i] = IF i <= k - 1 THEN a[i] ELSE b[i - (k - 1)]
  <2>1. /\ c \in Seq(S) /\ Len(c) = Len(a) + Len(b)
        /\ \A i \in 1..(Len(a) + Len(b)) : c[i] = IF i <= Len(a) THEN a[i] ELSE b[i - Len(a)]
    BY <1>2, <1>4, <1>5, ConcatProperties
  <2>2. Len(a) + Len(b) = n - 1
    BY <1>2, <1>4
  <2> QED
    BY <1>2, <2>1, <2>2
<1>7. \A i \in 1..(n - 1) : c[i] = IF i < k THEN s[i] ELSE s[i + 1]
  BY <1>2, <1>4, <1>6
<1> QED
  BY <1>1, <1>3, <1>5, <1>6, <1>7 DEF RemoveAt

(* A thread taken off the list leaves the others in it, once.              *)
LEMMA Unlinked ==
  ASSUME NEW S, NEW s \in Seq(S), IsInjective(s), NEW e \in ToSet(s)
  PROVE  /\ RemoveFirst(s, e) \in Seq(S) /\ IsInjective(RemoveFirst(s, e))
         /\ ToSet(RemoveFirst(s, e)) = ToSet(s) \ {e}
<1> DEFINE I == {i \in 1..Len(s) : s[i] = e}
<1>1. I \subseteq Nat /\ I # {}
  BY InList
<1>2. Min(I) \in I
  <2> HIDE DEF I
  <2> QED
    BY <1>1, LeastIn
<1>3. PICK k \in 1..Len(s) : s[k] = e /\ RemoveFirst(s, e) = RemoveAt(s, k)
  <2>1. \E i \in 1..Len(s) : s[i] = e
    BY <1>2
  <2>2. SelectInSeq(s, LAMBDA v : v = e) = Min(I)
    BY <1>1 DEF SelectInSeq
  <2> QED
    BY <1>2, <2>1, <2>2 DEF RemoveFirst
<1>4. PICK q \in Seq(S) :
        /\ q = RemoveFirst(s, e) /\ Len(q) = Len(s) - 1
        /\ \A i \in 1..(Len(s) - 1) : q[i] = IF i < k THEN s[i] ELSE s[i + 1]
  BY <1>3, WithoutOne
<1>5. Len(s) \in Nat /\ \A i, j \in 1..Len(s) : s[i] = s[j] => i = j
  BY InList
<1>6. \A i, j \in 1..Len(q) : q[i] = q[j] => i = j
  BY <1>4, <1>5
<1>7. \A x : x \in ToSet(q) <=> x \in ToSet(s) /\ x # e
  <2>1. \A i \in 1..Len(q) : q[i] \in ToSet(s) /\ q[i] # e
    <3>1. \A i \in 1..Len(q) : \E j \in 1..Len(s) : j # k /\ q[i] = s[j]
      BY SMTT(30), <1>3, <1>4, <1>5
    <3> QED
      BY SMTT(30), <1>3, <1>5, <3>1, InList
  <2>2. ASSUME NEW x \in ToSet(s), x # e PROVE x \in ToSet(q)
    <3>1. PICK i \in 1..Len(s) : s[i] = x
      BY InList
    <3>2. CASE i < k
      BY SMTT(30), <1>3, <1>4, <1>5, <3>1, <3>2, InList
    <3>3. CASE i > k
      <4>1. i - 1 \in 1..Len(q) /\ q[i - 1] = x
        BY <1>3, <1>4, <1>5, <3>1, <3>3
      <4> QED
        BY <4>1, InList
    <3> QED
      BY <1>3, <1>5, <2>2, <3>1, <3>2, <3>3
  <2> QED
    BY <2>1, <2>2, InList
<1> QED
  BY <1>4, <1>6, <1>7, InList

(* A thread put at the head of a list it is not in.                        *)
LEMMA OneLinked ==
  ASSUME NEW S, NEW s \in Seq(S), IsInjective(s), NEW e \in S, e \notin ToSet(s)
  PROVE  /\ <<e>> \o s \in Seq(S) /\ IsInjective(<<e>> \o s)
         /\ ToSet(<<e>> \o s) = ToSet(s) \union {e}
<1>1. PICK r : r = <<e>> \o s
  OBVIOUS
<1>2. /\ r \in Seq(S) /\ Len(r) = Len(s) + 1
      /\ \A i \in 1..(Len(s) + 1) : r[i] = IF i = 1 THEN e ELSE s[i - 1]
  <2>1. <<e>> \in Seq(S) /\ Len(<<e>>) = 1 /\ <<e>>[1] = e
    OBVIOUS
  <2> QED
    BY <1>1, <2>1, ConcatProperties
<1>3. /\ Len(s) \in Nat /\ \A i, j \in 1..Len(s) : s[i] = s[j] => i = j
      /\ \A i \in 1..Len(s) : s[i] # e
  BY InList
<1>4. \A i, j \in 1..Len(r) : r[i] = r[j] => i = j
  <2> SUFFICES ASSUME NEW i \in 1..Len(r), NEW j \in 1..Len(r), r[i] = r[j] PROVE i = j
    OBVIOUS
  <2>1. CASE i = 1 /\ j # 1
    BY <1>2, <1>3, <2>1
  <2>2. CASE i # 1 /\ j = 1
    BY <1>2, <1>3, <2>2
  <2>3. CASE i # 1 /\ j # 1
    <3>1. i - 1 \in 1..Len(s) /\ j - 1 \in 1..Len(s) /\ s[i - 1] = s[j - 1]
      BY <1>2, <1>3, <2>3
    <3> QED
      BY <1>2, <1>3, <3>1
  <2> QED
    BY <2>1, <2>2, <2>3
<1>5. \A x : x \in ToSet(r) <=> x \in ToSet(s) \/ x = e
  <2>1. \A i \in 1..Len(s) : s[i] = r[i + 1] /\ i + 1 \in 1..Len(r)
    BY <1>2, <1>3
  <2>2. \A i \in 1..Len(r) : r[i] = e \/ \E j \in 1..Len(s) : r[i] = s[j]
    BY <1>2, <1>3
  <2>3. e = r[1] /\ 1 \in 1..Len(r)
    BY <1>2, <1>3
  <2>4. /\ \A x : x \in ToSet(s) <=> \E i \in 1..Len(s) : s[i] = x
        /\ \A x : x \in ToSet(r) <=> \E i \in 1..Len(r) : r[i] = x
    BY <1>2, InList
  <2> QED
    BY SMTT(30), <2>1, <2>2, <2>3, <2>4
<1> QED
  BY ZenonT(40), <1>1, <1>2, <1>4, <1>5, InList

-----------------------------------------------------------------------------
(* The invariant                                                           *)

(* What is done to the list keeps the threads in it.                       *)
LEMMA Unlinking ==
  ASSUME Types, IsInjective(threads), NEW t \in Listed
  PROVE  /\ Without(t) \in Seq(Workers) /\ IsInjective(Without(t))
         /\ ToSet(Without(t)) = Listed \ {t}
BY Unlinked DEF Types, Listed, Without

LEMMA ListedType == ASSUME Types PROVE Listed \subseteq Workers
BY InList DEF Types, Listed

(* The count of the marked ones follows the list.                          *)
LEMMA CountLess ==
  ASSUME Types, NEW L, L \subseteq Workers, NEW t \in L
  PROVE  /\ t \in marked => Cardinality((L \ {t}) \intersect marked) = Cardinality(L \intersect marked) - 1
         /\ t \notin marked => (L \ {t}) \intersect marked = L \intersect marked
         /\ t \notin marked => Cardinality(L \intersect (marked \union {t})) = Cardinality(L \intersect marked) + 1
         /\ Cardinality(L \intersect marked) \in Nat
<1>1. IsFiniteSet(L \intersect marked)
  BY ThreadsAssumption, FS_Subset
<1>2. t \in marked => (L \ {t}) \intersect marked = (L \intersect marked) \ {t}
  OBVIOUS
<1>3. L \intersect (marked \union {t}) = (L \intersect marked) \union {t}
  OBVIOUS
<1>4. Cardinality(L \intersect marked) \in Nat
  BY <1>1, FS_CardinalityType
<1>5. Cardinality((L \intersect marked) \ {t}) =
        IF t \in L \intersect marked THEN Cardinality(L \intersect marked) - 1
        ELSE Cardinality(L \intersect marked)
  BY <1>1, FS_RemoveElement
<1>6. Cardinality((L \intersect marked) \union {t}) =
        IF t \in L \intersect marked THEN Cardinality(L \intersect marked)
        ELSE Cardinality(L \intersect marked) + 1
  BY <1>1, FS_AddElement
<1> QED
  BY <1>2, <1>3, <1>4, <1>5, <1>6

LEMMA InitOK == ThreadsInit => IInv
<1> SUFFICES ASSUME ThreadsInit PROVE IInv
  OBVIOUS
<1>1. Listed = {} /\ IsInjective(threads)
  BY DEF ThreadsInit, Listed, ToSet, IsInjective
<1>2. Types
  BY DEF ThreadsInit, Types, States, MainStates
<1>3. Linked /\ Possession /\ AllyOK
  BY <1>1, ThreadsAssumption DEF ThreadsInit, Linked, Possession, AllyOK
<1>4. Marks
  BY <1>1, FS_EmptySet DEF ThreadsInit, Marks
<1> QED
  BY <1>2, <1>3, <1>4 DEF IInv

(* Steps that leave the list, the marks and the count as they are, and of  *)
(* which the states alone have to be looked at.                            *)
LEMMA MainStepOK ==
  ASSUME IInv, UNCHANGED lists,
         LaunchPossess \/ LaunchCreate \/ JoinWait \/ JoinPossess
           \/ AllPossess \/ AllTurn \/ AllResume \/ AllReturn \/ CallJoinAll
           \/ \E t \in Workers : CallLaunch(t) \/ CallJoin(t) \/ CallDestruct(t)
  PROVE  IInv'
<1>1. Listed' = Listed
  BY DEF lists, Listed
<1> USE ThreadsAssumption DEF IInv, Types, States, MainStates, Linked, Marks, Possession, AllyOK, lists, Go, Become
<1>2. CASE LaunchPossess \/ LaunchCreate
  BY <1>1, <1>2 DEF LaunchPossess, LaunchCreate
<1>3. CASE JoinWait \/ JoinPossess
  BY <1>1, <1>3 DEF JoinWait, JoinPossess
<1>4. CASE AllPossess \/ AllTurn \/ AllResume \/ AllReturn \/ CallJoinAll
  BY <1>1, <1>4 DEF AllPossess, AllTurn, AllResume, AllReturn, CallJoinAll
<1>5. CASE \E t \in Workers : CallLaunch(t) \/ CallJoin(t) \/ CallDestruct(t)
  BY <1>1, <1>5 DEF CallLaunch, CallJoin, CallDestruct
<1> QED
  BY <1>2, <1>3, <1>4, <1>5

LEMMA ThreadStepOK ==
  ASSUME IInv, NEW t \in Workers,
         Return(t) \/ ReenterPossess(t) \/ Terminate(t) \/ Signal(t)
  PROVE  IInv'
<1>1. UNCHANGED lists /\ Listed' = Listed
  BY DEF Return, ReenterPossess, Terminate, Signal, lists, Listed
<1> USE ThreadsAssumption DEF IInv, Types, States, MainStates, Linked, Marks, Possession, AllyOK, lists, Go, Become
<1>2. CASE Return(t)
  BY <1>1, <1>2 DEF Return
<1>3. CASE ReenterPossess(t)
  BY <1>1, <1>3 DEF ReenterPossess
<1>4. CASE Terminate(t)
  BY <1>1, <1>4 DEF Terminate
<1>5. CASE Signal(t)
  BY <1>1, <1>5 DEF Signal
<1> QED
  BY <1>2, <1>3, <1>4, <1>5

LEMMA LinkOK ==
  ASSUME IInv, LaunchLink
  PROVE  IInv'
<1> USE ThreadsAssumption DEF IInv
<1>1. ally \in Workers /\ ally \notin Listed /\ ally \notin marked
  BY DEF LaunchLink, AllyOK, Linked
<1>2. threads' \in Seq(Workers) /\ IsInjective(threads') /\ Listed' = Listed \union {ally}
  BY <1>1, OneLinked DEF LaunchLink, Types, Linked, Listed
<1>3. Types'
  BY <1>2 DEF LaunchLink, Types, Go, MainStates
<1>4. Linked'
  BY <1>1, <1>2 DEF LaunchLink, Linked, AllyOK, Go
<1>5. Marks'
  <2>1. (Listed \union {ally}) \intersect marked = Listed \intersect marked
    BY <1>1
  <2> QED
    BY <1>2, <2>1 DEF LaunchLink, Marks
<1>6. Possession' /\ AllyOK'
  BY DEF LaunchLink, Possession, AllyOK, Go, Types
<1> QED
  BY <1>3, <1>4, <1>5, <1>6

LEMMA ReenterOK ==
  ASSUME IInv, NEW t \in Workers, Reenter(t)
  PROVE  IInv'
<1> USE ThreadsAssumption DEF IInv
<1>1. t \in Listed /\ t \notin marked /\ state[t] = "entering" /\ by = t
  BY DEF Reenter, Marks, Possession
<1>2. Without(t) \in Seq(Workers) /\ IsInjective(Without(t)) /\ ToSet(Without(t)) = Listed \ {t}
  BY <1>1, Unlinking DEF Linked
<1>3. threads' \in Seq(Workers) /\ IsInjective(threads') /\ ToSet(threads') = Listed
  <2>1. PICK w : w = Without(t)
    OBVIOUS
  <2>2. threads' = <<t>> \o w
    BY <2>1 DEF Reenter
  <2>3. (Listed \ {t}) \union {t} = Listed
    BY <1>1
  <2>4. w \in Seq(Workers) /\ IsInjective(w) /\ t \notin ToSet(w) /\ ToSet(w) = Listed \ {t}
    BY <1>2, <2>1
  <2>5. /\ <<t>> \o w \in Seq(Workers) /\ IsInjective(<<t>> \o w)
        /\ ToSet(<<t>> \o w) = ToSet(w) \union {t}
    BY <2>4, OneLinked
  <2> QED
    BY <2>2, <2>3, <2>4, <2>5
<1>4. Listed' = Listed
  BY <1>3 DEF Listed
<1>5. Types'
  BY <1>3 DEF Reenter, Types, Become, States
<1>6. Linked'
  BY <1>1, <1>3, <1>4 DEF Reenter, Linked, Become, Types
<1>7. Marks'
  <2>1. Cardinality(Listed \intersect (marked \union {t})) = Cardinality(Listed \intersect marked) + 1
    BY <1>1, CountLess, ListedType
  <2> QED
    BY <1>4, <2>1 DEF Reenter, Marks, Become, Types
<1>8. Possession' /\ AllyOK'
  BY <1>1 DEF Reenter, Possession, AllyOK, Become, Types
<1> QED
  BY <1>5, <1>6, <1>7, <1>8

LEMMA JoinUnlinkOK ==
  ASSUME IInv, JoinUnlink
  PROVE  IInv'
<1> USE ThreadsAssumption DEF IInv
<1>1. ally \in Listed /\ ally \in Workers /\ state[ally] = "ended" /\ by = Main
  BY DEF JoinUnlink, AllyOK, Possession
<1>2. Without(ally) \in Seq(Workers) /\ IsInjective(Without(ally)) /\ ToSet(Without(ally)) = Listed \ {ally}
  BY <1>1, Unlinking DEF Linked
<1>3. Listed' = Listed \ {ally} /\ threads' = Without(ally)
  BY <1>2 DEF JoinUnlink, Listed
<1>4. threadsLock' = Cardinality((Listed \ {ally}) \intersect marked)
  BY <1>1, CountLess, ListedType DEF JoinUnlink, Marks
<1>5. Types'
  <2>1. threadsLock' \in Nat
    <3>1. IsFiniteSet((Listed \ {ally}) \intersect marked)
      BY ListedType, FS_Subset
    <3> QED
      BY <1>4, <3>1, FS_CardinalityType
  <2> QED
    BY <1>2, <1>3, <2>1 DEF JoinUnlink, Types, Become, States, Go, MainStates
<1>6. Linked'
  BY <1>1, <1>2, <1>3 DEF JoinUnlink, Linked, Become, Types, Go
<1>7. Marks'
  BY <1>1, <1>3, <1>4 DEF JoinUnlink, Marks, Become, Types
<1>8. Possession' /\ AllyOK'
  BY <1>1 DEF JoinUnlink, Possession, AllyOK, Become, Types, Go
<1> QED
  BY <1>5, <1>6, <1>7, <1>8

LEMMA AllJoinOK ==
  ASSUME IInv, AllJoin
  PROVE  IInv'
<1> USE ThreadsAssumption DEF IInv
<1>1. Listed \intersect marked # {}
  BY FS_EmptySet DEF AllJoin, AllyOK, Marks
<1>2. PICK t : t = threads[FirstMarked] /\ t \in Listed /\ t \in Workers /\ t \in marked /\ state[t] = "ended"
  BY <1>1, FirstOf, InList DEF AllJoin, Listed, Types
<1>3. Without(t) \in Seq(Workers) /\ IsInjective(Without(t)) /\ ToSet(Without(t)) = Listed \ {t}
  BY <1>2, Unlinking DEF Linked
<1>4. /\ mpc = "find" /\ mpc' = "turn" /\ ally' = Nobody
      /\ threads' = Without(t) /\ state' = [state EXCEPT ![t] = "joined"]
      /\ threadsLock' = threadsLock - 1 /\ UNCHANGED <<marked, by>>
  BY <1>2 DEF AllJoin, Become, Go
<1>5. Listed' = Listed \ {t}
  BY <1>3, <1>4 DEF Listed
<1>6. threadsLock' = Cardinality((Listed \ {t}) \intersect marked)
  BY <1>2, <1>4, CountLess, ListedType DEF Marks
<1>7. Types'
  BY <1>2, <1>3, <1>4 DEF Types, States, MainStates, AllyOK
<1>8. Linked'
  BY <1>2, <1>3, <1>4, <1>5 DEF Linked, Types
<1>9. Marks'
  BY <1>2, <1>4, <1>5, <1>6 DEF Marks, Types
<1>10. Possession' /\ AllyOK'
  BY <1>2, <1>4 DEF Possession, AllyOK, Types
<1> QED
  BY <1>7, <1>8, <1>9, <1>10

LEMMA NextOK ==
  ASSUME IInv, [ThreadsNext]_threadVars
  PROVE  IInv'
<1>1. CASE InCall \/ CallJoinAll
  <2>1. CASE LaunchLink
    BY <2>1, LinkOK
  <2>2. CASE JoinUnlink
    BY <2>2, JoinUnlinkOK
  <2>3. CASE AllJoin
    BY <2>3, AllJoinOK
  <2>4. CASE LaunchPossess \/ LaunchCreate \/ JoinWait \/ JoinPossess
               \/ AllPossess \/ AllTurn \/ AllResume \/ AllReturn \/ CallJoinAll
    <3>1. UNCHANGED lists
      BY <2>4 DEF LaunchPossess, LaunchCreate, JoinWait, JoinPossess, AllPossess, AllTurn,
                  AllResume, AllReturn, CallJoinAll, lists
    <3> QED
      BY <2>4, <3>1, MainStepOK
  <2> QED
    BY <1>1, <2>1, <2>2, <2>3, <2>4 DEF InCall
<1>2. CASE \E t \in Workers : CallLaunch(t) \/ CallJoin(t) \/ CallDestruct(t)
  <2>1. UNCHANGED lists
    BY <1>2 DEF CallLaunch, CallJoin, CallDestruct, lists
  <2> QED
    BY <1>2, <2>1, MainStepOK
<1>3. CASE \E t \in Workers : Thread(t)
  BY <1>3, ThreadStepOK, ReenterOK DEF Thread
<1>4. CASE UNCHANGED threadVars
  BY <1>4 DEF threadVars, IInv, Types, Linked, Marks, Possession, AllyOK, Listed
<1> QED
  BY <1>1, <1>2, <1>3, <1>4 DEF ThreadsNext

(* The list, its marks and its count are right at every point of launch(), *)
(* reenter(), join(), join_all() and destruct().                           *)
THEOREM Invariant == ThreadsSpec => []IInv
<1>1. IInv /\ [ThreadsNext]_threadVars => IInv'
  BY NextOK
<1> QED
  BY InitOK, <1>1, PTL DEF ThreadsSpec

(* Whenever nobody possesses threads_lock its value is the number of       *)
(* threads in the list that are done; a thread is in the list, once, from  *)
(* launch() to its join.                                                   *)
THEOREM ListRight == ThreadsSpec => []ListOK
<1>1. IInv => ListOK
  BY DEF IInv, Linked, Marks, ListOK
<1> QED
  BY Invariant, <1>1, PTL

(* No call of yarn fails: reenter() and join() find the thread they look   *)
(* for, and join_all() one that is done when the count says so.            *)
THEOREM NoFailure == ThreadsSpec => []NeverFails
<1>1. IInv => NeverFails
  <2> SUFFICES ASSUME IInv PROVE NeverFails
    OBVIOUS
  <2>1. \A t \in Workers : state[t] = "entering" => t \in Listed
    BY DEF IInv, Linked, AllyOK
  <2>2. mpc = "unlink" => ally \in Listed
    BY DEF IInv, Linked, AllyOK
  <2>3. ASSUME mpc = "find" PROVE FirstMarked # 0
    <3>1. Listed \intersect marked # {}
      BY <2>3, FS_EmptySet DEF IInv, AllyOK, Marks
    <3> QED
      BY <3>1, FirstOf DEF IInv, Types
  <2> QED
    BY <2>1, <2>2, <2>3 DEF NeverFails
<1> QED
  BY Invariant, <1>1, PTL

(* join_all() returns when every thread that was launched has been joined. *)
THEOREM AllAreJoined == ThreadsSpec => AllJoined
<1>1. ASSUME IInv, [ThreadsNext]_threadVars, mpc = "turn", mpc' = "idle"
      PROVE  threadsLock = 0 /\ \A t \in Workers : state[t] \in {"none", "joined"}
  <2>1. AllReturn
    BY <1>1 DEF ThreadsNext, threadVars, InCall, Thread, Go, LaunchPossess, LaunchCreate, LaunchLink, JoinWait,
         JoinPossess, JoinUnlink, AllPossess, AllTurn, AllResume, AllJoin, CallJoinAll, CallLaunch,
         CallJoin, CallDestruct, Return, ReenterPossess, Reenter, Terminate, Signal
  <2>2. Listed = {}
    BY <2>1 DEF AllReturn, Listed, ToSet
  <2>3. Listed \intersect marked = {}
    BY <2>2
  <2> QED
    BY <1>1, <2>2, <2>3, FS_EmptySet DEF IInv, Marks, Linked
<1>2. IInv /\ [ThreadsNext]_threadVars =>
        [mpc = "turn" /\ mpc' = "idle" =>
           threadsLock = 0 /\ \A t \in Workers : state[t] \in {"none", "joined"}]_threadVars
  BY <1>1
<1> QED
  BY Invariant, <1>2, PTL DEF ThreadsSpec, AllJoined
-----------------------------------------------------------------------------
(* The lock                                                                *)

(* The inductive invariant: the four parts need each other, since who owns *)
(* the mutex decides which tests and twists can happen.                    *)
LockInv == TypeOK /\ Exclusive /\ WantOK /\ NoLostWakeup

(* new_lock() leaves a lock that nobody is in.                             *)
LEMMA InitLock == Init => LockInv
BY YarnAssumption DEF Init, LockInv, TypeOK, Exclusive, WantOK, NoLostWakeup,
   PcStates, Waiting

(* Every operation of the lock keeps the invariant.                        *)
LEMMA StepLock == LockInv /\ [Next]_vars => LockInv'
<1> SUFFICES ASSUME LockInv, [Next]_vars PROVE LockInv'
  OBVIOUS
<1> USE YarnAssumption DEF LockInv, TypeOK, Exclusive, WantOK, NoLostWakeup,
        PcStates, Waiting
<1>1. ASSUME NEW t \in Threads, Possess(t) PROVE LockInv'
  BY <1>1 DEF Possess
<1>2. ASSUME NEW t \in Threads, Release(t) PROVE LockInv'
  BY <1>2 DEF Release
<1>3. ASSUME NEW t \in Threads, NEW d \in Changes, Twist(t, d) PROVE LockInv'
  BY <1>3 DEF Twist, Broadcast
<1>4. ASSUME NEW t \in Threads, NEW c \in Conditions, WaitFor(t, c) PROVE LockInv'
  BY <1>4 DEF WaitFor
<1>5. ASSUME NEW t \in Threads, Test(t) PROVE LockInv'
  BY <1>5 DEF Test
<1>6. ASSUME NEW t \in Threads, SpuriousWake(t) PROVE LockInv'
  BY <1>6 DEF SpuriousWake
<1>7. ASSUME NEW t \in Threads, Reacquire(t) PROVE LockInv'
  BY <1>7 DEF Reacquire
<1>8. CASE UNCHANGED vars
  BY <1>8 DEF vars
<1> QED
  BY <1>1, <1>2, <1>3, <1>4, <1>5, <1>6, <1>7, <1>8 DEF Next, Leave

(* The invariant holds in every reachable state.                           *)
THEOREM LockInvariant == Spec => []LockInv
BY InitLock, StepLock, PTL DEF Spec

(* The mutex, the value and the waiters stay of their type, whatever the   *)
(* threads do with the lock.                                               *)
THEOREM LockTypeCorrect == Spec => []TypeOK
BY LockInvariant, PTL DEF LockInv

(* possess() and wait_for() let at most one thread in.                     *)
THEOREM MutualExclusion == Spec => []Exclusive
BY LockInvariant, PTL DEF LockInv

(* No thread is left asleep in wait_for() when its condition is true.      *)
THEOREM WakeupsNotLost == Spec => []NoLostWakeup
BY LockInvariant, PTL DEF LockInv

-----------------------------------------------------------------------------

(* The refinement mapping of Abstract.                                     *)
Holder == IF \E t \in Threads : mutex = t /\ ~GivesUp(t) THEN mutex ELSE None
Waits == [t \in Threads |-> IF GivesUp(t) THEN want[t] ELSE None]

(* The new lock is the promised new lock.                                  *)
LEMMA InitImplements == Init => Abstract!Init
BY YarnAssumption DEF Init, Abstract!Init, GivesUp, Waiting

(* Every step of the mutex and the condition variable is a step of the     *)
(* promised lock, or one that no client can see.                           *)
LEMMA StepImplements ==
  LockInv /\ LockInv' /\ [Next]_vars => [Abstract!Next]_(Abstract!lockVars)
<1> SUFFICES ASSUME LockInv, LockInv', [Next]_vars
             PROVE  Abstract!Next \/ UNCHANGED <<Holder, value, Waits>>
  BY DEF Abstract!lockVars, Holder, Waits
<1> USE YarnAssumption DEF LockInv, TypeOK, Exclusive, WantOK, PcStates,
        Waiting, GivesUp, Holder, Waits
<1>1. ASSUME NEW t \in Threads, Possess(t) PROVE Abstract!Acquire(t)
  BY <1>1 DEF Possess, Abstract!Acquire
<1>2. ASSUME NEW t \in Threads, Release(t) PROVE Abstract!Release(t)
  BY <1>2 DEF Release, Abstract!Release
<1>3. ASSUME NEW t \in Threads, NEW d \in Changes, Twist(t, d)
      PROVE  Abstract!Twist(t, d)
  BY <1>3 DEF Twist, Broadcast, Abstract!Twist, Twisted, Abstract!Twisted
<1>4. ASSUME NEW t \in Threads, NEW c \in Conditions, WaitFor(t, c)
      PROVE  Abstract!Wait(t, c) \/ UNCHANGED <<Holder, value, Waits>>
  <2>1. CASE Satisfied(c, value)
    BY <1>4, <2>1 DEF WaitFor
  <2>2. CASE ~Satisfied(c, value)
    BY <1>4, <2>2 DEF WaitFor, Abstract!Wait, Satisfied, Abstract!Satisfied
  <2> QED
    BY <2>1, <2>2
<1>5. ASSUME NEW t \in Threads, Test(t)
      PROVE  UNCHANGED <<Holder, value, Waits>>
  BY <1>5 DEF Test
<1>6. ASSUME NEW t \in Threads, SpuriousWake(t)
      PROVE  UNCHANGED <<Holder, value, Waits>>
  BY <1>6 DEF SpuriousWake
<1>7. ASSUME NEW t \in Threads, Reacquire(t)
      PROVE  Abstract!Resume(t) \/ UNCHANGED <<Holder, value, Waits>>
  <2>1. CASE Satisfied(want[t], value)
    BY <1>7, <2>1
       DEF Reacquire, Abstract!Resume, Satisfied, Abstract!Satisfied
  <2>2. CASE ~Satisfied(want[t], value)
    BY <1>7, <2>2 DEF Reacquire
  <2> QED
    BY <2>1, <2>2
<1>8. CASE UNCHANGED vars
  BY <1>8 DEF vars
<1> QED
  BY <1>1, <1>2, <1>3, <1>4, <1>5, <1>6, <1>7, <1>8
     DEF Next, Leave, Abstract!Next, Conditions, Abstract!Conditions, WaitOps,
         Abstract!WaitOps, Changes, Abstract!Changes, TwistOps,
         Abstract!TwistOps

(* yarn.c implements the lock of yarn.h.                                   *)
THEOREM Refinement == Spec => Implements
BY InitImplements, StepImplements, LockInvariant, PTL
   DEF Spec, Implements, Abstract!Spec
=============================================================================
