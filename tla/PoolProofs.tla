------------------------------ MODULE PoolProofs ------------------------------
(***************************************************************************)
(* The pool of pigz.c for any threads, any buffers, any limit: its type,   *)
(* that a buffer in the free list is nobody's, that use counts count the   *)
(* references, the assertions of get_space() and drop_space(), and that it *)
(* implements the pool its users rely on (SpacePool).                      *)
(***************************************************************************)
EXTENDS Pool, FiniteSetTheorems, SequenceTheorems, TLAPS

(* t is spending a reference to s.                                         *)
SpendingStates == {"use", "drop", "last"}
Spends(t, s) == pc[t] \in SpendingStates /\ arg[t] = s

(* Who possesses which lock follows from where a thread is, and the value  *)
(* of have is the length of the list.                                      *)
LocksOK ==
  /\ have = Len(head)
  /\ \A t \in Threads : haveBy = t <=> pc[t] \in {"pull", "pulled"}
  /\ \A t \in Threads, s \in Spaces :
       useBy[s] = t <=> /\ pc[t] \in {"pulled", "popped", "last", "pushed"}
                        /\ arg[t] = s
  /\ \A t \in Threads : arg[t] = NoSpace <=> pc[t] \in {"idle", "get", "pull"}

(* A buffer in the list is in it once, and free.                           *)
Distinct(h) == \A i, j \in DOMAIN h : h[i] = h[j] => i = j
ListOK ==
  /\ Distinct(head)
  /\ \A s \in Spaces : Listed(s) =>
       s \in born /\ refs[s] = 0 /\ \A t \in Threads : ~Spends(t, s)

(* What a thread knows of the buffer it is at work on.                     *)
BornOK == /\ \A t \in Threads : arg[t] # NoSpace => arg[t] \in born
          /\ \A s \in Spaces \ born : refs[s] = 0
PulledOK == \A t \in Threads :
  pc[t] = "pulled" => head # <<>> /\ arg[t] = Head(head)
PoppedOK == \A t \in Threads, s \in Spaces : pc[t] = "popped" /\ arg[t] = s =>
  ~Listed(s) /\ refs[s] = 0 /\ \A u \in Threads : ~Spends(u, s)
LastOK == \A t \in Threads, s \in Spaces : pc[t] = "last" /\ arg[t] = s =>
  refs[s] = 0 /\ \A u \in Threads : Spends(u, s) => u = t
PushedOK == \A t \in Threads, s \in Spaces :
  pc[t] = "pushed" /\ arg[t] = s => Listed(s)
AtWorkOK == BornOK /\ PulledOK /\ PoppedOK /\ LastOK /\ PushedOK

(* The use count is the number of references, and one more while the last  *)
(* user has put the buffer in the list and not yet let go of it.           *)
Pushing(s) == \E t \in Threads : pc[t] = "pushed" /\ arg[t] = s
CountOK ==
  \A s \in Spaces :
    use[s] = refs[s] + Cardinality(Spending(s)) + (IF Pushing(s) THEN 1 ELSE 0)

(* A thread that possesses have and finds the list empty may make one.     *)
MayMake == \A t \in Threads : pc[t] = "pull" /\ head = <<>> => limit # 0

IInv == TypeOK /\ LocksOK /\ ListOK /\ AtWorkOK /\ CountOK /\ MayMake

-----------------------------------------------------------------------------
(* Lemmas on the list and on the number of threads that spend a reference. *)

(* The first buffer of the list is in the list.                            *)
LEMMA HeadListed ==
  ASSUME head \in Seq(Spaces), head # <<>>
  PROVE  Head(head) \in Spaces /\ Listed(Head(head))
<1>1. Len(head) \in Nat \ {0} /\ DOMAIN head = 1..Len(head)
  BY EmptySeq, LenProperties
<1>2. 1 \in DOMAIN head /\ Head(head) = head[1] /\ Head(head) \in Spaces
  BY <1>1, HeadTailProperties
<1> QED
  BY <1>2 DEF Listed

(* The list without its first buffer.                                      *)
LEMMA Popped ==
  ASSUME head \in Seq(Spaces), head # <<>>, Distinct(head), head' = Tail(head)
  PROVE  /\ head' \in Seq(Spaces)
         /\ Len(head') = Len(head) - 1
         /\ Distinct(head')
         /\ \A s \in Spaces : Listed(s)' <=> Listed(s) /\ s # Head(head)
<1>1. /\ head' \in Seq(Spaces) /\ Len(head') = Len(head) - 1
      /\ \A i \in 1..Len(head') : head'[i] = head[i + 1]
  BY HeadTailProperties
<1>2. /\ Len(head) \in Nat /\ DOMAIN head = 1..Len(head)
      /\ DOMAIN head' = 1..Len(head') /\ Len(head) # 0
  BY <1>1, LenProperties, EmptySeq
<1>3. Head(head) = head[1]
  OBVIOUS
<1>4. Distinct(head')
  BY <1>1, <1>2 DEF Distinct
<1>5. ASSUME NEW s \in Spaces PROVE Listed(s)' <=> Listed(s) /\ s # Head(head)
  <2>1. ASSUME NEW i \in DOMAIN head, head[i] = s, s # Head(head)
        PROVE  Listed(s)'
    <3>1. i - 1 \in DOMAIN head' /\ head'[i - 1] = s
      BY <1>1, <1>2, <1>3, <2>1
    <3> QED
      BY <3>1 DEF Listed
  <2>2. ASSUME NEW i \in DOMAIN head', head'[i] = s
        PROVE  Listed(s) /\ s # Head(head)
    <3>1. i + 1 \in DOMAIN head /\ head[i + 1] = s /\ 1 \in DOMAIN head
      BY <1>1, <1>2, <2>2
    <3> QED
      BY <1>2, <1>3, <3>1 DEF Listed, Distinct
  <2> QED
    BY <2>1, <2>2 DEF Listed
<1> QED
  BY <1>1, <1>4, <1>5

(* The list with one more buffer in front.                                 *)
LEMMA Pushed ==
  ASSUME NEW x \in Spaces, head \in Seq(Spaces), Distinct(head), ~Listed(x),
         head' = <<x>> \o head
  PROVE  /\ head' \in Seq(Spaces)
         /\ Len(head') = Len(head) + 1
         /\ Distinct(head') /\ head' # <<>>
         /\ \A s \in Spaces : Listed(s)' <=> Listed(s) \/ s = x
<1>1. <<x>> \in Seq(Spaces) /\ Len(<<x>>) = 1 /\ <<x>>[1] = x
  OBVIOUS
<1>2. /\ head' \in Seq(Spaces) /\ Len(head') = 1 + Len(head)
      /\ \A i \in 1..1 + Len(head) :
           head'[i] = IF i <= 1 THEN <<x>>[i] ELSE head[i - 1]
  BY <1>1, ConcatProperties
<1>3. /\ Len(head) \in Nat /\ DOMAIN head = 1..Len(head)
      /\ DOMAIN head' = 1..Len(head')
  BY <1>2, LenProperties
<1>4. /\ head'[1] = x
      /\ \A i \in DOMAIN head' : i # 1 => i - 1 \in DOMAIN head /\ head'[i] = head[i - 1]
  BY <1>1, <1>2, <1>3
<1>5. \A i \in DOMAIN head : head[i] # x
  BY DEF Listed
<1>6. Distinct(head')
  BY <1>3, <1>4, <1>5 DEF Distinct
<1>7. ASSUME NEW s \in Spaces PROVE Listed(s)' <=> Listed(s) \/ s = x
  <2>1. ASSUME NEW i \in DOMAIN head, head[i] = s PROVE Listed(s)'
    <3>1. i + 1 \in DOMAIN head' /\ head'[i + 1] = s
      BY <1>2, <1>3, <1>4, <2>1
    <3> QED
      BY <3>1 DEF Listed
  <2>2. s = x => Listed(s)'
    BY <1>2, <1>3, <1>4 DEF Listed
  <2>3. ASSUME NEW i \in DOMAIN head', head'[i] = s PROVE Listed(s) \/ s = x
    BY <1>4, <2>3 DEF Listed
  <2> QED
    BY <2>1, <2>2, <2>3 DEF Listed
<1>8. head' # <<>>
  BY <1>2, <1>3, EmptySeq
<1> QED
  BY <1>2, <1>3, <1>6, <1>7, <1>8

(* Finitely many threads spend references to a buffer.                     *)
LEMMA SpendingFinite ==
  ASSUME NEW s
  PROVE  IsFiniteSet(Spending(s)) /\ Cardinality(Spending(s)) \in Nat
<1>1. Spending(s) \subseteq Threads
  BY DEF Spending
<1> QED
  BY <1>1, PoolAssumption, FS_Subset, FS_CardinalityType

(* A thread that spends a reference to s makes their number positive.      *)
LEMMA SpendingSome ==
  ASSUME NEW s, NEW t \in Threads, Spends(t, s)
  PROVE  Cardinality(Spending(s)) > 0
<1>1. t \in Spending(s)
  BY DEF Spending, Spends, SpendingStates
<1> QED
  BY <1>1, SpendingFinite, FS_EmptySet

(* A thread past the first steps of its call is at work on a buffer.       *)
LEMMA BusyArg ==
  ASSUME TypeOK, LocksOK, NEW t \in Threads, pc[t] \notin {"idle", "get", "pull"}
  PROVE  arg[t] \in Spaces
<1>1. arg[t] \in Spaces \union {NoSpace}
  BY DEF TypeOK
<1>2. arg[t] # NoSpace
  BY DEF LocksOK
<1> QED
  BY <1>1, <1>2

(* Nobody spends a reference to s: their number is 0.                      *)
LEMMA SpendingNone ==
  ASSUME NEW s, \A u \in Threads : ~Spends(u, s)
  PROVE  Cardinality(Spending(s)) = 0
<1>1. Spending(s) = {}
  BY DEF Spending, Spends, SpendingStates
<1> QED
  BY <1>1, FS_EmptySet

(* If one thread spends a reference to s, it is the only one.              *)
LEMMA SpendingOne ==
  ASSUME NEW s, NEW t \in Threads, Spends(t, s), Cardinality(Spending(s)) = 1
  PROVE  \A u \in Threads : Spends(u, s) => u = t
<1>1. PICK x : Spending(s) = {x}
  BY SpendingFinite, FS_Singleton
<1>2. \A u \in Threads : Spends(u, s) => u = x
  BY <1>1 DEF Spending, Spends, SpendingStates
<1> QED
  BY <1>2

(* The number of threads that spend a reference to s when t goes on: one   *)
(* less if t did, one more if t does.                                      *)
LEMMA GoSpending ==
  ASSUME TypeOK, NEW t \in Threads, NEW p \in PcStates,
         NEW a \in Spaces \union {NoSpace}, Go(t, p, a), NEW s \in Spaces
  PROVE  Cardinality(Spending(s)') =
           Cardinality(Spending(s))
             - (IF Spends(t, s) THEN 1 ELSE 0)
             + (IF p \in SpendingStates /\ a = s THEN 1 ELSE 0)
<1> DEFINE rest == Spending(s) \ {t}
<1>1. IsFiniteSet(rest) /\ Cardinality(rest) \in Nat /\ t \notin rest
  <2>1. rest \subseteq Spending(s)
    OBVIOUS
  <2> QED
    BY <2>1, SpendingFinite, FS_Subset, FS_CardinalityType
<1>2. IsFiniteSet(rest \union {t}) /\ Cardinality(rest \union {t}) = Cardinality(rest) + 1
  BY <1>1, FS_AddElement
<1>3. Spending(s) = IF Spends(t, s) THEN rest \union {t} ELSE rest
  BY DEF Spending, Spends, SpendingStates
<1>4. Spending(s)' = IF p \in SpendingStates /\ a = s THEN rest \union {t} ELSE rest
  BY DEF Spending, SpendingStates, Go, TypeOK
<1> HIDE DEF rest
<1> QED
  BY <1>1, <1>2, <1>3, <1>4

-----------------------------------------------------------------------------

(* new_pool() makes an empty pool.                                         *)
LEMMA InitIInv == Init => IInv
<1> SUFFICES ASSUME Init PROVE IInv
  OBVIOUS
<1> USE PoolAssumption DEF Init
<1>1. TypeOK
  BY DEF TypeOK, PcStates
<1>2. LocksOK /\ ListOK /\ AtWorkOK /\ MayMake
  BY DEF LocksOK, ListOK, AtWorkOK, BornOK, PulledOK, PoppedOK, LastOK, PushedOK,
     MayMake, Distinct, Listed
<1>3. CountOK
  <2> SUFFICES ASSUME NEW s \in Spaces PROVE use[s] = refs[s] + Cardinality(Spending(s))
    BY DEF CountOK, Pushing
  <2>1. Spending(s) = {}
    BY DEF Spending
  <2> QED
    BY <2>1, FS_EmptySet
<1> QED
  BY <1>1, <1>2, <1>3 DEF IInv

(* A thread that begins get_space() holds nothing yet.                     *)
LEMMA CallGetIInv ==
  ASSUME IInv, NEW t \in Threads, CallGet(t)
  PROVE  IInv'
<1> USE PoolAssumption DEF CallGet, listVars
<1>0. TypeOK /\ LocksOK /\ ListOK /\ AtWorkOK /\ CountOK /\ MayMake
  BY DEF IInv
<1>1. TypeOK'
  BY <1>0 DEF TypeOK, PcStates, Go
<1>2. LocksOK'
  BY <1>0 DEF TypeOK, PcStates, Go, LocksOK
<1>3. ListOK'
  BY <1>0 DEF TypeOK, PcStates, Go, ListOK, LocksOK, Listed, Spends, SpendingStates
<1>4. AtWorkOK'
  <2>1. BornOK'
    BY <1>0 DEF AtWorkOK, TypeOK, Go, BornOK, ListOK, Listed
  <2>2. PulledOK'
    BY <1>0 DEF AtWorkOK, TypeOK, Go, PulledOK, LocksOK
  <2>3. PoppedOK'
    BY <1>0 DEF AtWorkOK, TypeOK, Go, PoppedOK, ListOK, LocksOK, Listed, Spends,
       SpendingStates
  <2>4. LastOK'
    BY <1>0 DEF AtWorkOK, TypeOK, Go, LastOK, LocksOK, Spends, SpendingStates
  <2>5. PushedOK'
    BY <1>0 DEF AtWorkOK, TypeOK, Go, PushedOK, LocksOK, Listed
  <2> QED
    BY <2>1, <2>2, <2>3, <2>4, <2>5 DEF AtWorkOK
<1>5. CountOK'
  <2> SUFFICES ASSUME NEW s \in Spaces
               PROVE  use'[s] = refs'[s] + Cardinality(Spending(s)')
                                + (IF Pushing(s)' THEN 1 ELSE 0)
    BY DEF CountOK
  <2>1. Cardinality(Spending(s)') =
           Cardinality(Spending(s))
             - (IF Spends(t, s) THEN 1 ELSE 0)
             + (IF "get" \in SpendingStates /\ NoSpace = s THEN 1 ELSE 0)
    <3>1. Go(t, "get", NoSpace) /\ "get" \in PcStates /\ NoSpace \in Spaces \union {NoSpace}
      BY <1>0 DEF PcStates, TypeOK
    <3> QED
      BY <1>0, <3>1, GoSpending
  <2>2. Cardinality(Spending(s)) \in Nat
    BY SpendingFinite
  <2>3. Pushing(s)' <=> Pushing(s)
    BY <1>0 DEF TypeOK, Go, Pushing, LocksOK
  <2> QED
    BY <1>0, <2>1, <2>2, <2>3 DEF TypeOK, CountOK, Spends, SpendingStates
<1>6. MayMake'
  BY <1>0 DEF TypeOK, Go, MayMake, LocksOK
<1> QED
  BY <1>1, <1>2, <1>3, <1>4, <1>5, <1>6 DEF IInv

(* possess(pool->have): with no buffer in the list, one may be made.       *)
LEMMA GetPossessIInv ==
  ASSUME IInv, NEW t \in Threads, GetPossess(t)
  PROVE  IInv'
<1> USE PoolAssumption DEF GetPossess, listVars
<1>0. TypeOK /\ LocksOK /\ ListOK /\ AtWorkOK /\ CountOK /\ MayMake
  BY DEF IInv
<1>1. TypeOK'
  BY <1>0 DEF TypeOK, PcStates, Go
<1>2. LocksOK'
  BY <1>0 DEF TypeOK, PcStates, Go, LocksOK
<1>3. ListOK'
  BY <1>0 DEF TypeOK, PcStates, Go, ListOK, LocksOK, Listed, Spends, SpendingStates
<1>4. AtWorkOK'
  <2>1. BornOK'
    BY <1>0 DEF AtWorkOK, TypeOK, Go, BornOK, ListOK, Listed
  <2>2. PulledOK'
    BY <1>0 DEF AtWorkOK, TypeOK, Go, PulledOK, LocksOK
  <2>3. PoppedOK'
    BY <1>0 DEF AtWorkOK, TypeOK, Go, PoppedOK, ListOK, LocksOK, Listed, Spends,
       SpendingStates
  <2>4. LastOK'
    BY <1>0 DEF AtWorkOK, TypeOK, Go, LastOK, LocksOK, Spends, SpendingStates
  <2>5. PushedOK'
    BY <1>0 DEF AtWorkOK, TypeOK, Go, PushedOK, LocksOK, Listed
  <2> QED
    BY <2>1, <2>2, <2>3, <2>4, <2>5 DEF AtWorkOK
<1>5. CountOK'
  <2> SUFFICES ASSUME NEW s \in Spaces
               PROVE  use'[s] = refs'[s] + Cardinality(Spending(s)')
                                + (IF Pushing(s)' THEN 1 ELSE 0)
    BY DEF CountOK
  <2>1. Cardinality(Spending(s)') =
           Cardinality(Spending(s))
             - (IF Spends(t, s) THEN 1 ELSE 0)
             + (IF "pull" \in SpendingStates /\ NoSpace = s THEN 1 ELSE 0)
    <3>1. Go(t, "pull", NoSpace) /\ "pull" \in PcStates /\ NoSpace \in Spaces \union {NoSpace}
      BY <1>0 DEF PcStates, TypeOK
    <3> QED
      BY <1>0, <3>1, GoSpending
  <2>2. Cardinality(Spending(s)) \in Nat
    BY SpendingFinite
  <2>3. Pushing(s)' <=> Pushing(s)
    BY <1>0 DEF TypeOK, Go, Pushing, LocksOK
  <2> QED
    BY <1>0, <2>1, <2>2, <2>3 DEF TypeOK, CountOK, Spends, SpendingStates
<1>6. MayMake'
  BY <1>0 DEF TypeOK, Go, MayMake, LocksOK
<1> QED
  BY <1>1, <1>2, <1>3, <1>4, <1>5, <1>6 DEF IInv

(* possess(space->use): the first buffer in the list is nobody's.          *)
LEMMA GetPullIInv ==
  ASSUME IInv, NEW t \in Threads, GetPull(t)
  PROVE  IInv'
<1> USE PoolAssumption DEF GetPull, listVars
<1>0. TypeOK /\ LocksOK /\ ListOK /\ AtWorkOK /\ CountOK /\ MayMake
  BY DEF IInv
<1>a. Head(head) \in Spaces /\ Listed(Head(head))
  BY <1>0, HeadListed DEF TypeOK
<1>1. TypeOK'
  BY <1>0 DEF TypeOK, PcStates, Go
<1>2. LocksOK'
  BY <1>0 DEF TypeOK, PcStates, Go, LocksOK
<1>3. ListOK'
  BY <1>0 DEF TypeOK, PcStates, Go, ListOK, LocksOK, Listed, Spends, SpendingStates
<1>4. AtWorkOK'
  <2>1. BornOK'
    BY <1>0, <1>a DEF AtWorkOK, TypeOK, Go, BornOK, ListOK
  <2>2. PulledOK'
    BY <1>0, <1>a DEF AtWorkOK, TypeOK, Go, PulledOK, LocksOK
  <2>3. PoppedOK'
    BY <1>0, <1>a DEF AtWorkOK, TypeOK, Go, PoppedOK, ListOK, LocksOK, Listed, Spends,
       SpendingStates
  <2>4. LastOK'
    BY <1>0, <1>a DEF AtWorkOK, TypeOK, Go, LastOK, LocksOK, Spends, SpendingStates
  <2>5. PushedOK'
    BY <1>0, <1>a DEF AtWorkOK, TypeOK, Go, PushedOK, LocksOK, Listed
  <2> QED
    BY <2>1, <2>2, <2>3, <2>4, <2>5 DEF AtWorkOK
<1>5. CountOK'
  <2> SUFFICES ASSUME NEW s \in Spaces
               PROVE  use'[s] = refs'[s] + Cardinality(Spending(s)')
                                + (IF Pushing(s)' THEN 1 ELSE 0)
    BY DEF CountOK
  <2>1. Cardinality(Spending(s)') =
           Cardinality(Spending(s))
             - (IF Spends(t, s) THEN 1 ELSE 0)
             + (IF "pulled" \in SpendingStates /\ Head(head) = s THEN 1 ELSE 0)
    <3>1. Go(t, "pulled", Head(head)) /\ "pulled" \in PcStates /\ Head(head) \in Spaces \union {NoSpace}
      BY <1>0, <1>a DEF PcStates, TypeOK
    <3> QED
      BY <1>0, <3>1, GoSpending
  <2>2. Cardinality(Spending(s)) \in Nat
    BY SpendingFinite
  <2>3. Pushing(s)' <=> Pushing(s)
    BY <1>0, <1>a DEF TypeOK, Go, Pushing, LocksOK
  <2> QED
    BY <1>0, <2>1, <2>2, <2>3 DEF TypeOK, CountOK, Spends, SpendingStates
<1>6. MayMake'
  BY <1>0 DEF TypeOK, Go, MayMake, LocksOK
<1> QED
  BY <1>1, <1>2, <1>3, <1>4, <1>5, <1>6 DEF IInv

(* The buffer is off the list, and known to this thread only.              *)
LEMMA GetPopIInv ==
  ASSUME IInv, NEW t \in Threads, GetPop(t)
  PROVE  IInv'
<1> USE PoolAssumption DEF GetPop, listVars
<1>0. TypeOK /\ LocksOK /\ ListOK /\ AtWorkOK /\ CountOK /\ MayMake
  BY DEF IInv
<1>a. arg[t] \in Spaces
  BY <1>0, BusyArg
<1>b. head # <<>> /\ arg[t] = Head(head)
  BY <1>0 DEF AtWorkOK, PulledOK
<1>c. /\ head' \in Seq(Spaces) /\ Len(head') = Len(head) - 1
      /\ Distinct(head')
      /\ \A s \in Spaces : Listed(s)' <=> Listed(s) /\ s # Head(head)
  BY <1>0, <1>b, Popped DEF TypeOK, ListOK
<1>d. Listed(arg[t])
  BY <1>0, <1>b, HeadListed DEF TypeOK
<1>1. TypeOK'
  BY SMTT(20), <1>0, <1>c DEF TypeOK, PcStates, Go, LocksOK
<1>2. LocksOK'
  BY SMTT(20), <1>0, <1>c DEF TypeOK, PcStates, Go, LocksOK
<1>3. ListOK'
  BY <1>0, <1>c DEF TypeOK, PcStates, Go, ListOK, Spends, SpendingStates
<1>4. AtWorkOK'
  <2>1. BornOK'
    BY <1>0, <1>a, <1>b, <1>c, <1>d DEF AtWorkOK, TypeOK, Go, BornOK, ListOK
  <2>2. PulledOK'
    BY <1>0, <1>a, <1>b, <1>c, <1>d DEF AtWorkOK, TypeOK, Go, PulledOK, LocksOK
  <2>3. PoppedOK'
    BY <1>0, <1>a, <1>b, <1>c, <1>d DEF AtWorkOK, TypeOK, Go, PoppedOK, ListOK, LocksOK, Spends,
       SpendingStates
  <2>4. LastOK'
    BY <1>0, <1>a, <1>b, <1>c, <1>d DEF AtWorkOK, TypeOK, Go, LastOK, LocksOK, Spends, SpendingStates
  <2>5. PushedOK'
    BY <1>0, <1>a, <1>b, <1>c, <1>d DEF AtWorkOK, TypeOK, Go, PushedOK, LocksOK
  <2> QED
    BY <2>1, <2>2, <2>3, <2>4, <2>5 DEF AtWorkOK
<1>5. CountOK'
  <2> SUFFICES ASSUME NEW s \in Spaces
               PROVE  use'[s] = refs'[s] + Cardinality(Spending(s)')
                                + (IF Pushing(s)' THEN 1 ELSE 0)
    BY DEF CountOK
  <2>1. Cardinality(Spending(s)') =
           Cardinality(Spending(s))
             - (IF Spends(t, s) THEN 1 ELSE 0)
             + (IF "popped" \in SpendingStates /\ arg[t] = s THEN 1 ELSE 0)
    <3>1. Go(t, "popped", arg[t]) /\ "popped" \in PcStates /\ arg[t] \in Spaces \union {NoSpace}
      BY <1>0, <1>a DEF PcStates, TypeOK
    <3> QED
      BY <1>0, <3>1, GoSpending
  <2>2. Cardinality(Spending(s)) \in Nat
    BY SpendingFinite
  <2>3. Pushing(s)' <=> Pushing(s)
    BY <1>0, <1>a DEF TypeOK, Go, Pushing, LocksOK
  <2> QED
    BY <1>0, <2>1, <2>2, <2>3 DEF TypeOK, CountOK, Spends, SpendingStates
<1>6. MayMake'
  BY <1>0 DEF TypeOK, Go, MayMake, LocksOK
<1> QED
  BY <1>1, <1>2, <1>3, <1>4, <1>5, <1>6 DEF IInv

(* The buffer has one reference.                                           *)
LEMMA GetTwistIInv ==
  ASSUME IInv, NEW t \in Threads, GetTwist(t)
  PROVE  IInv'
<1> USE PoolAssumption DEF GetTwist, listVars
<1>0. TypeOK /\ LocksOK /\ ListOK /\ AtWorkOK /\ CountOK /\ MayMake
  BY DEF IInv
<1>a. arg[t] \in Spaces
  BY <1>0, BusyArg
<1>b. ~Listed(arg[t]) /\ refs[arg[t]] = 0 /\ \A u \in Threads : ~Spends(u, arg[t])
  BY <1>0, <1>a DEF AtWorkOK, PoppedOK
<1>1. TypeOK'
  BY <1>0, <1>a DEF TypeOK, PcStates, Go
<1>2. LocksOK'
  BY <1>0 DEF TypeOK, PcStates, Go, LocksOK
<1>3. ListOK'
  BY <1>0, <1>a, <1>b DEF TypeOK, PcStates, Go, ListOK, Listed, Spends, SpendingStates
<1>4. AtWorkOK'
  <2>1. BornOK'
    BY <1>0, <1>a DEF AtWorkOK, TypeOK, Go, BornOK, ListOK, Listed
  <2>2. PulledOK'
    BY <1>0, <1>a DEF AtWorkOK, TypeOK, Go, PulledOK, LocksOK
  <2>3. PoppedOK'
    BY <1>0, <1>a DEF AtWorkOK, TypeOK, Go, PoppedOK, ListOK, LocksOK, Listed, Spends,
       SpendingStates
  <2>4. LastOK'
    BY <1>0, <1>a DEF AtWorkOK, TypeOK, Go, LastOK, LocksOK, Spends, SpendingStates
  <2>5. PushedOK'
    BY <1>0, <1>a DEF AtWorkOK, TypeOK, Go, PushedOK, LocksOK, Listed
  <2> QED
    BY <2>1, <2>2, <2>3, <2>4, <2>5 DEF AtWorkOK
<1>5. CountOK'
  <2> SUFFICES ASSUME NEW s \in Spaces
               PROVE  use'[s] = refs'[s] + Cardinality(Spending(s)')
                                + (IF Pushing(s)' THEN 1 ELSE 0)
    BY DEF CountOK
  <2>1. Cardinality(Spending(s)') =
           Cardinality(Spending(s))
             - (IF Spends(t, s) THEN 1 ELSE 0)
             + (IF "idle" \in SpendingStates /\ NoSpace = s THEN 1 ELSE 0)
    <3>1. Go(t, "idle", NoSpace) /\ "idle" \in PcStates /\ NoSpace \in Spaces \union {NoSpace}
      BY <1>0, <1>a DEF PcStates, TypeOK
    <3> QED
      BY <1>0, <3>1, GoSpending
  <2>2. Cardinality(Spending(s)) \in Nat
    BY SpendingFinite
  <2>3. s = arg[t] => ~Pushing(s)' /\ Cardinality(Spending(s)) = 0
    BY <1>0, <1>a, <1>b, SpendingNone DEF TypeOK, Go, Pushing, LocksOK, Spends
  <2>4. s # arg[t] => (Pushing(s)' <=> Pushing(s))
    BY <1>0, <1>a, <1>b DEF TypeOK, Go, Pushing, LocksOK
  <2> QED
    BY <1>0, <1>a, <1>b, <2>1, <2>2, <2>3, <2>4
       DEF TypeOK, CountOK, Spends, SpendingStates
<1>6. MayMake'
  BY <1>0 DEF TypeOK, Go, MayMake, LocksOK
<1> QED
  BY <1>1, <1>2, <1>3, <1>4, <1>5, <1>6 DEF IInv

(* A new buffer has one reference.                                         *)
LEMMA GetMakeIInv ==
  ASSUME IInv, NEW t \in Threads, GetMake(t)
  PROVE  IInv'
<1> USE PoolAssumption DEF GetMake, listVars
<1>0. TypeOK /\ LocksOK /\ ListOK /\ AtWorkOK /\ CountOK /\ MayMake
  BY DEF IInv
<1>a. PICK x \in Spaces \ born : /\ born' = born \union {x}
                                 /\ use' = [use EXCEPT ![x] = 1]
                                 /\ refs' = [refs EXCEPT ![x] = 1]
                                 /\ uses' = [uses EXCEPT ![x] = 0]
  OBVIOUS
<1>b. \A u \in Threads : arg[u] # x
  BY <1>0 DEF AtWorkOK, BornOK, TypeOK
<1>1. TypeOK'
  BY <1>0, <1>a, <1>b DEF TypeOK, PcStates, Go
<1>2. LocksOK'
  BY <1>0, <1>a, <1>b DEF TypeOK, PcStates, Go, LocksOK
<1>3. ListOK'
  BY <1>0, <1>a, <1>b DEF TypeOK, PcStates, Go, ListOK, LocksOK, Listed, Spends, SpendingStates
<1>4. AtWorkOK'
  <2>1. BornOK'
    BY <1>0, <1>a, <1>b DEF AtWorkOK, TypeOK, Go, BornOK, ListOK, Listed
  <2>2. PulledOK'
    BY <1>0, <1>a, <1>b DEF AtWorkOK, TypeOK, Go, PulledOK, LocksOK
  <2>3. PoppedOK'
    BY <1>0, <1>a, <1>b DEF AtWorkOK, TypeOK, Go, PoppedOK, ListOK, LocksOK, Listed, Spends,
       SpendingStates
  <2>4. LastOK'
    BY <1>0, <1>a, <1>b DEF AtWorkOK, TypeOK, Go, LastOK, LocksOK, Spends, SpendingStates
  <2>5. PushedOK'
    BY <1>0, <1>a, <1>b DEF AtWorkOK, TypeOK, Go, PushedOK, LocksOK, Listed
  <2> QED
    BY <2>1, <2>2, <2>3, <2>4, <2>5 DEF AtWorkOK
<1>5. CountOK'
  <2> SUFFICES ASSUME NEW s \in Spaces
               PROVE  use'[s] = refs'[s] + Cardinality(Spending(s)')
                                + (IF Pushing(s)' THEN 1 ELSE 0)
    BY DEF CountOK
  <2>1. Cardinality(Spending(s)') =
           Cardinality(Spending(s))
             - (IF Spends(t, s) THEN 1 ELSE 0)
             + (IF "idle" \in SpendingStates /\ NoSpace = s THEN 1 ELSE 0)
    <3>1. Go(t, "idle", NoSpace) /\ "idle" \in PcStates /\ NoSpace \in Spaces \union {NoSpace}
      BY <1>0 DEF PcStates, TypeOK
    <3> QED
      BY <1>0, <3>1, GoSpending
  <2>2. Cardinality(Spending(s)) \in Nat
    BY SpendingFinite
  <2>3. s = x => ~Pushing(s)' /\ Cardinality(Spending(s)) = 0
    BY <1>0, <1>a, <1>b, SpendingNone DEF TypeOK, Go, Pushing, LocksOK, Spends
  <2>4. s # x => (Pushing(s)' <=> Pushing(s))
    BY <1>0, <1>a, <1>b DEF TypeOK, Go, Pushing, LocksOK
  <2> QED
    BY <1>0, <1>a, <1>b, <2>1, <2>2, <2>3, <2>4
       DEF TypeOK, CountOK, Spends, SpendingStates
<1>6. MayMake'
  BY <1>0, <1>a DEF TypeOK, Go, MayMake, LocksOK
<1> QED
  BY <1>1, <1>2, <1>3, <1>4, <1>5, <1>6 DEF IInv

(* A reference is being spent.                                             *)
LEMMA CallUseIInv ==
  ASSUME IInv, NEW t \in Threads, NEW x \in Spaces, CallUse(t, x)
  PROVE  IInv'
<1> USE PoolAssumption DEF CallUse, listVars
<1>0. TypeOK /\ LocksOK /\ ListOK /\ AtWorkOK /\ CountOK /\ MayMake
  BY DEF IInv
<1>1. TypeOK'
  BY <1>0 DEF TypeOK, PcStates, Go
<1>2. LocksOK'
  BY <1>0 DEF TypeOK, PcStates, Go, LocksOK
<1>3. ListOK'
  BY SMTT(20), <1>0 DEF TypeOK, PcStates, Go, ListOK, LocksOK, Listed, Spends, SpendingStates
<1>4. AtWorkOK'
  <2>1. BornOK'
    BY <1>0 DEF AtWorkOK, TypeOK, Go, BornOK, ListOK, Listed
  <2>2. PulledOK'
    BY <1>0 DEF AtWorkOK, TypeOK, Go, PulledOK, LocksOK
  <2>3. PoppedOK'
    BY <1>0 DEF AtWorkOK, TypeOK, Go, PoppedOK, ListOK, LocksOK, Listed, Spends,
       SpendingStates
  <2>4. LastOK'
    BY <1>0 DEF AtWorkOK, TypeOK, Go, LastOK, LocksOK, Spends, SpendingStates
  <2>5. PushedOK'
    BY <1>0 DEF AtWorkOK, TypeOK, Go, PushedOK, LocksOK, Listed
  <2> QED
    BY <2>1, <2>2, <2>3, <2>4, <2>5 DEF AtWorkOK
<1>5. CountOK'
  <2> SUFFICES ASSUME NEW s \in Spaces
               PROVE  use'[s] = refs'[s] + Cardinality(Spending(s)')
                                + (IF Pushing(s)' THEN 1 ELSE 0)
    BY DEF CountOK
  <2>1. Cardinality(Spending(s)') =
           Cardinality(Spending(s))
             - (IF Spends(t, s) THEN 1 ELSE 0)
             + (IF "use" \in SpendingStates /\ x = s THEN 1 ELSE 0)
    <3>1. Go(t, "use", x) /\ "use" \in PcStates /\ x \in Spaces \union {NoSpace}
      BY <1>0 DEF PcStates, TypeOK
    <3> QED
      BY <1>0, <3>1, GoSpending
  <2>2. Cardinality(Spending(s)) \in Nat
    BY SpendingFinite
  <2>3. Pushing(s)' <=> Pushing(s)
    BY <1>0 DEF TypeOK, Go, Pushing, LocksOK
  <2> QED
    BY <1>0, <2>1, <2>2, <2>3 DEF TypeOK, CountOK, Spends, SpendingStates
<1>6. MayMake'
  BY <1>0 DEF TypeOK, Go, MayMake, LocksOK
<1> QED
  BY <1>1, <1>2, <1>3, <1>4, <1>5, <1>6 DEF IInv

(* The reference is back, and there is one more.                           *)
LEMMA UseTwistIInv ==
  ASSUME IInv, NEW t \in Threads, UseTwist(t)
  PROVE  IInv'
<1> USE PoolAssumption DEF UseTwist, listVars
<1>0. TypeOK /\ LocksOK /\ ListOK /\ AtWorkOK /\ CountOK /\ MayMake
  BY DEF IInv
<1>a. arg[t] \in Spaces
  BY <1>0, BusyArg
<1>1. TypeOK'
  BY <1>0, <1>a DEF TypeOK, PcStates, Go
<1>2. LocksOK'
  BY <1>0 DEF TypeOK, PcStates, Go, LocksOK
<1>3. ListOK'
  BY <1>0 DEF TypeOK, PcStates, Go, ListOK, LocksOK, Listed, Spends, SpendingStates
<1>4. AtWorkOK'
  <2>1. BornOK'
    BY <1>0 DEF AtWorkOK, TypeOK, Go, BornOK, ListOK, Listed
  <2>2. PulledOK'
    BY <1>0 DEF AtWorkOK, TypeOK, Go, PulledOK, LocksOK
  <2>3. PoppedOK'
    BY <1>0 DEF AtWorkOK, TypeOK, Go, PoppedOK, ListOK, LocksOK, Listed, Spends,
       SpendingStates
  <2>4. LastOK'
    BY <1>0 DEF AtWorkOK, TypeOK, Go, LastOK, LocksOK, Spends, SpendingStates
  <2>5. PushedOK'
    BY <1>0 DEF AtWorkOK, TypeOK, Go, PushedOK, LocksOK, Listed
  <2> QED
    BY <2>1, <2>2, <2>3, <2>4, <2>5 DEF AtWorkOK
<1>5. CountOK'
  <2> SUFFICES ASSUME NEW s \in Spaces
               PROVE  use'[s] = refs'[s] + Cardinality(Spending(s)')
                                + (IF Pushing(s)' THEN 1 ELSE 0)
    BY DEF CountOK
  <2>1. Cardinality(Spending(s)') =
           Cardinality(Spending(s))
             - (IF Spends(t, s) THEN 1 ELSE 0)
             + (IF "idle" \in SpendingStates /\ NoSpace = s THEN 1 ELSE 0)
    <3>1. Go(t, "idle", NoSpace) /\ "idle" \in PcStates /\ NoSpace \in Spaces \union {NoSpace}
      BY <1>0, <1>a DEF PcStates, TypeOK
    <3> QED
      BY <1>0, <3>1, GoSpending
  <2>2. Cardinality(Spending(s)) \in Nat
    BY SpendingFinite
  <2>3. Pushing(s)' <=> Pushing(s)
    BY <1>0, <1>a DEF TypeOK, Go, Pushing, LocksOK
  <2> QED
    BY <1>0, <2>1, <2>2, <2>3 DEF TypeOK, CountOK, Spends, SpendingStates
<1>6. MayMake'
  BY <1>0 DEF TypeOK, Go, MayMake, LocksOK
<1> QED
  BY <1>1, <1>2, <1>3, <1>4, <1>5, <1>6 DEF IInv

(* A reference is being spent.                                             *)
LEMMA CallDropIInv ==
  ASSUME IInv, NEW t \in Threads, NEW x \in Spaces, CallDrop(t, x)
  PROVE  IInv'
<1> USE PoolAssumption DEF CallDrop, listVars
<1>0. TypeOK /\ LocksOK /\ ListOK /\ AtWorkOK /\ CountOK /\ MayMake
  BY DEF IInv
<1>1. TypeOK'
  BY <1>0 DEF TypeOK, PcStates, Go
<1>2. LocksOK'
  BY <1>0 DEF TypeOK, PcStates, Go, LocksOK
<1>3. ListOK'
  BY SMTT(20), <1>0 DEF TypeOK, PcStates, Go, ListOK, LocksOK, Listed, Spends, SpendingStates
<1>4. AtWorkOK'
  <2>1. BornOK'
    BY <1>0 DEF AtWorkOK, TypeOK, Go, BornOK, ListOK, Listed
  <2>2. PulledOK'
    BY <1>0 DEF AtWorkOK, TypeOK, Go, PulledOK, LocksOK
  <2>3. PoppedOK'
    BY <1>0 DEF AtWorkOK, TypeOK, Go, PoppedOK, ListOK, LocksOK, Listed, Spends,
       SpendingStates
  <2>4. LastOK'
    BY <1>0 DEF AtWorkOK, TypeOK, Go, LastOK, LocksOK, Spends, SpendingStates
  <2>5. PushedOK'
    BY <1>0 DEF AtWorkOK, TypeOK, Go, PushedOK, LocksOK, Listed
  <2> QED
    BY <2>1, <2>2, <2>3, <2>4, <2>5 DEF AtWorkOK
<1>5. CountOK'
  <2> SUFFICES ASSUME NEW s \in Spaces
               PROVE  use'[s] = refs'[s] + Cardinality(Spending(s)')
                                + (IF Pushing(s)' THEN 1 ELSE 0)
    BY DEF CountOK
  <2>1. Cardinality(Spending(s)') =
           Cardinality(Spending(s))
             - (IF Spends(t, s) THEN 1 ELSE 0)
             + (IF "drop" \in SpendingStates /\ x = s THEN 1 ELSE 0)
    <3>1. Go(t, "drop", x) /\ "drop" \in PcStates /\ x \in Spaces \union {NoSpace}
      BY <1>0 DEF PcStates, TypeOK
    <3> QED
      BY <1>0, <3>1, GoSpending
  <2>2. Cardinality(Spending(s)) \in Nat
    BY SpendingFinite
  <2>3. Pushing(s)' <=> Pushing(s)
    BY <1>0 DEF TypeOK, Go, Pushing, LocksOK
  <2> QED
    BY <1>0, <2>1, <2>2, <2>3 DEF TypeOK, CountOK, Spends, SpendingStates
<1>6. MayMake'
  BY <1>0 DEF TypeOK, Go, MayMake, LocksOK
<1> QED
  BY <1>1, <1>2, <1>3, <1>4, <1>5, <1>6 DEF IInv

(* A reference is gone, and it was not the last.                           *)
LEMMA DropSharedIInv ==
  ASSUME IInv, NEW t \in Threads, DropShared(t)
  PROVE  IInv'
<1> USE PoolAssumption DEF DropShared, listVars
<1>0. TypeOK /\ LocksOK /\ ListOK /\ AtWorkOK /\ CountOK /\ MayMake
  BY DEF IInv
<1>a. arg[t] \in Spaces
  BY <1>0, BusyArg
<1>b. use[arg[t]] > 0
  <2>1. Cardinality(Spending(arg[t])) > 0
    BY <1>a, SpendingSome DEF Spends, SpendingStates
  <2>2. /\ use[arg[t]] = refs[arg[t]] + Cardinality(Spending(arg[t]))
                         + (IF Pushing(arg[t]) THEN 1 ELSE 0)
        /\ refs[arg[t]] \in Nat
    BY <1>0, <1>a DEF CountOK, TypeOK
  <2> QED
    BY <2>1, <2>2, SpendingFinite
<1>1. TypeOK'
  BY <1>0, <1>a, <1>b DEF TypeOK, PcStates, Go
<1>2. LocksOK'
  BY <1>0 DEF TypeOK, PcStates, Go, LocksOK
<1>3. ListOK'
  BY <1>0 DEF TypeOK, PcStates, Go, ListOK, LocksOK, Listed, Spends, SpendingStates
<1>4. AtWorkOK'
  <2>1. BornOK'
    BY <1>0 DEF AtWorkOK, TypeOK, Go, BornOK, ListOK, Listed
  <2>2. PulledOK'
    BY <1>0 DEF AtWorkOK, TypeOK, Go, PulledOK, LocksOK
  <2>3. PoppedOK'
    BY <1>0 DEF AtWorkOK, TypeOK, Go, PoppedOK, ListOK, LocksOK, Listed, Spends,
       SpendingStates
  <2>4. LastOK'
    BY <1>0 DEF AtWorkOK, TypeOK, Go, LastOK, LocksOK, Spends, SpendingStates
  <2>5. PushedOK'
    BY <1>0 DEF AtWorkOK, TypeOK, Go, PushedOK, LocksOK, Listed
  <2> QED
    BY <2>1, <2>2, <2>3, <2>4, <2>5 DEF AtWorkOK
<1>5. CountOK'
  <2> SUFFICES ASSUME NEW s \in Spaces
               PROVE  use'[s] = refs'[s] + Cardinality(Spending(s)')
                                + (IF Pushing(s)' THEN 1 ELSE 0)
    BY DEF CountOK
  <2>1. Cardinality(Spending(s)') =
           Cardinality(Spending(s))
             - (IF Spends(t, s) THEN 1 ELSE 0)
             + (IF "idle" \in SpendingStates /\ NoSpace = s THEN 1 ELSE 0)
    <3>1. Go(t, "idle", NoSpace) /\ "idle" \in PcStates /\ NoSpace \in Spaces \union {NoSpace}
      BY <1>0, <1>a DEF PcStates, TypeOK
    <3> QED
      BY <1>0, <3>1, GoSpending
  <2>2. Cardinality(Spending(s)) \in Nat
    BY SpendingFinite
  <2>3. Pushing(s)' <=> Pushing(s)
    BY <1>0, <1>a DEF TypeOK, Go, Pushing, LocksOK
  <2> QED
    BY <1>0, <2>1, <2>2, <2>3 DEF TypeOK, CountOK, Spends, SpendingStates
<1>6. MayMake'
  BY <1>0 DEF TypeOK, Go, MayMake, LocksOK
<1> QED
  BY <1>1, <1>2, <1>3, <1>4, <1>5, <1>6 DEF IInv

(* The last reference: the count says that no one else has any.            *)
LEMMA DropLastIInv ==
  ASSUME IInv, NEW t \in Threads, DropLast(t)
  PROVE  IInv'
<1> USE PoolAssumption DEF DropLast, listVars
<1>0. TypeOK /\ LocksOK /\ ListOK /\ AtWorkOK /\ CountOK /\ MayMake
  BY DEF IInv
<1>a. arg[t] \in Spaces
  BY <1>0, BusyArg
<1>b. refs[arg[t]] = 0 /\ Cardinality(Spending(arg[t])) = 1
  <2>1. Cardinality(Spending(arg[t])) > 0
    BY <1>a, SpendingSome DEF Spends, SpendingStates
  <2>2. /\ use[arg[t]] = refs[arg[t]] + Cardinality(Spending(arg[t]))
                         + (IF Pushing(arg[t]) THEN 1 ELSE 0)
        /\ refs[arg[t]] \in Nat
    BY <1>0, <1>a DEF CountOK, TypeOK
  <2> QED
    BY <2>1, <2>2, SpendingFinite
<1>c. \A u \in Threads : Spends(u, arg[t]) => u = t
  BY <1>b, SpendingOne DEF Spends, SpendingStates
<1>1. TypeOK'
  BY <1>0 DEF TypeOK, PcStates, Go
<1>2. LocksOK'
  BY <1>0 DEF TypeOK, PcStates, Go, LocksOK
<1>3. ListOK'
  BY SMTT(20), <1>0 DEF TypeOK, PcStates, Go, ListOK, LocksOK, Listed, Spends, SpendingStates
<1>4. AtWorkOK'
  <2>1. BornOK'
    BY <1>0, <1>a, <1>b, <1>c DEF AtWorkOK, TypeOK, Go, BornOK, ListOK, Listed
  <2>2. PulledOK'
    BY <1>0, <1>a, <1>b, <1>c DEF AtWorkOK, TypeOK, Go, PulledOK, LocksOK
  <2>3. PoppedOK'
    BY <1>0, <1>a, <1>b, <1>c DEF AtWorkOK, TypeOK, Go, PoppedOK, ListOK, LocksOK, Listed, Spends,
       SpendingStates
  <2>4. LastOK'
    BY <1>0, <1>a, <1>b, <1>c DEF AtWorkOK, TypeOK, Go, LastOK, LocksOK, Spends, SpendingStates
  <2>5. PushedOK'
    BY <1>0, <1>a, <1>b, <1>c DEF AtWorkOK, TypeOK, Go, PushedOK, LocksOK, Listed
  <2> QED
    BY <2>1, <2>2, <2>3, <2>4, <2>5 DEF AtWorkOK
<1>5. CountOK'
  <2> SUFFICES ASSUME NEW s \in Spaces
               PROVE  use'[s] = refs'[s] + Cardinality(Spending(s)')
                                + (IF Pushing(s)' THEN 1 ELSE 0)
    BY DEF CountOK
  <2>1. Cardinality(Spending(s)') =
           Cardinality(Spending(s))
             - (IF Spends(t, s) THEN 1 ELSE 0)
             + (IF "last" \in SpendingStates /\ arg[t] = s THEN 1 ELSE 0)
    <3>1. Go(t, "last", arg[t]) /\ "last" \in PcStates /\ arg[t] \in Spaces \union {NoSpace}
      BY <1>0, <1>a DEF PcStates, TypeOK
    <3> QED
      BY <1>0, <3>1, GoSpending
  <2>2. Cardinality(Spending(s)) \in Nat
    BY SpendingFinite
  <2>3. Pushing(s)' <=> Pushing(s)
    BY <1>0, <1>a DEF TypeOK, Go, Pushing, LocksOK
  <2> QED
    BY <1>0, <2>1, <2>2, <2>3 DEF TypeOK, CountOK, Spends, SpendingStates
<1>6. MayMake'
  BY <1>0 DEF TypeOK, Go, MayMake, LocksOK
<1> QED
  BY <1>1, <1>2, <1>3, <1>4, <1>5, <1>6 DEF IInv

(* The buffer is in the list, and the count still 1.                       *)
LEMMA DropPushIInv ==
  ASSUME IInv, NEW t \in Threads, DropPush(t)
  PROVE  IInv'
<1> USE PoolAssumption DEF DropPush, listVars
<1>0. TypeOK /\ LocksOK /\ ListOK /\ AtWorkOK /\ CountOK /\ MayMake
  BY DEF IInv
<1>a. arg[t] \in Spaces
  BY <1>0, BusyArg
<1>b. refs[arg[t]] = 0 /\ \A u \in Threads : Spends(u, arg[t]) => u = t
  BY <1>0, <1>a DEF AtWorkOK, LastOK
<1>c. ~Listed(arg[t])
  BY <1>0, <1>a DEF ListOK, Spends, SpendingStates
<1>d. /\ head' \in Seq(Spaces) /\ Len(head') = Len(head) + 1
      /\ Distinct(head') /\ head' # <<>>
      /\ \A s \in Spaces : Listed(s)' <=> Listed(s) \/ s = arg[t]
  BY <1>0, <1>a, <1>c, Pushed DEF TypeOK, ListOK
<1>1. TypeOK'
  BY <1>0, <1>d DEF TypeOK, PcStates, Go
<1>2. LocksOK'
  BY <1>0, <1>d DEF TypeOK, PcStates, Go, LocksOK
<1>3. ListOK'
  BY <1>0, <1>a, <1>b, <1>d DEF TypeOK, PcStates, Go, ListOK, AtWorkOK, BornOK, Spends,
     SpendingStates
<1>4. AtWorkOK'
  <2>1. BornOK'
    BY <1>0, <1>a, <1>b, <1>d DEF AtWorkOK, TypeOK, Go, BornOK, ListOK
  <2>2. PulledOK'
    BY <1>0, <1>a, <1>b, <1>d DEF AtWorkOK, TypeOK, Go, PulledOK, LocksOK
  <2>3. PoppedOK'
    BY <1>0, <1>a, <1>b, <1>d DEF AtWorkOK, TypeOK, Go, PoppedOK, ListOK, LocksOK, Spends,
       SpendingStates
  <2>4. LastOK'
    BY <1>0, <1>a, <1>b, <1>d DEF AtWorkOK, TypeOK, Go, LastOK, LocksOK, Spends, SpendingStates
  <2>5. PushedOK'
    BY <1>0, <1>a, <1>b, <1>d DEF AtWorkOK, TypeOK, Go, PushedOK, LocksOK
  <2> QED
    BY <2>1, <2>2, <2>3, <2>4, <2>5 DEF AtWorkOK
<1>5. CountOK'
  <2> SUFFICES ASSUME NEW s \in Spaces
               PROVE  use'[s] = refs'[s] + Cardinality(Spending(s)')
                                + (IF Pushing(s)' THEN 1 ELSE 0)
    BY DEF CountOK
  <2>1. Cardinality(Spending(s)') =
           Cardinality(Spending(s))
             - (IF Spends(t, s) THEN 1 ELSE 0)
             + (IF "pushed" \in SpendingStates /\ arg[t] = s THEN 1 ELSE 0)
    <3>1. Go(t, "pushed", arg[t]) /\ "pushed" \in PcStates /\ arg[t] \in Spaces \union {NoSpace}
      BY <1>0, <1>a DEF PcStates, TypeOK
    <3> QED
      BY <1>0, <3>1, GoSpending
  <2>2. Cardinality(Spending(s)) \in Nat
    BY SpendingFinite
  <2>3. s = arg[t] => Pushing(s)' /\ ~Pushing(s)
    BY <1>0, <1>a DEF TypeOK, Go, Pushing, LocksOK
  <2>4. s # arg[t] => (Pushing(s)' <=> Pushing(s))
    BY <1>0, <1>a DEF TypeOK, Go, Pushing
  <2> QED
    BY <1>0, <1>a, <2>1, <2>2, <2>3, <2>4
       DEF TypeOK, CountOK, Spends, SpendingStates
<1>6. MayMake'
  BY <1>0, <1>d DEF TypeOK, Go, MayMake, LocksOK
<1> QED
  BY <1>1, <1>2, <1>3, <1>4, <1>5, <1>6 DEF IInv

(* The count is 0.                                                         *)
LEMMA DropTwistIInv ==
  ASSUME IInv, NEW t \in Threads, DropTwist(t)
  PROVE  IInv'
<1> USE PoolAssumption DEF DropTwist, listVars
<1>0. TypeOK /\ LocksOK /\ ListOK /\ AtWorkOK /\ CountOK /\ MayMake
  BY DEF IInv
<1>a. arg[t] \in Spaces
  BY <1>0, BusyArg
<1>b. use[arg[t]] > 0
  <2>1. Pushing(arg[t])
    BY DEF Pushing
  <2>2. use[arg[t]] = refs[arg[t]] + Cardinality(Spending(arg[t])) + 1 /\ refs[arg[t]] \in Nat
    BY <1>0, <1>a, <2>1 DEF CountOK, TypeOK
  <2> QED
    BY <2>2, SpendingFinite
<1>1. TypeOK'
  BY <1>0, <1>a, <1>b DEF TypeOK, PcStates, Go
<1>2. LocksOK'
  BY <1>0 DEF TypeOK, PcStates, Go, LocksOK
<1>3. ListOK'
  BY <1>0 DEF TypeOK, PcStates, Go, ListOK, LocksOK, Listed, Spends, SpendingStates
<1>4. AtWorkOK'
  <2>1. BornOK'
    BY <1>0 DEF AtWorkOK, TypeOK, Go, BornOK, ListOK, Listed
  <2>2. PulledOK'
    BY <1>0 DEF AtWorkOK, TypeOK, Go, PulledOK, LocksOK
  <2>3. PoppedOK'
    BY <1>0 DEF AtWorkOK, TypeOK, Go, PoppedOK, ListOK, LocksOK, Listed, Spends,
       SpendingStates
  <2>4. LastOK'
    BY <1>0 DEF AtWorkOK, TypeOK, Go, LastOK, LocksOK, Spends, SpendingStates
  <2>5. PushedOK'
    BY <1>0 DEF AtWorkOK, TypeOK, Go, PushedOK, LocksOK, Listed
  <2> QED
    BY <2>1, <2>2, <2>3, <2>4, <2>5 DEF AtWorkOK
<1>5. CountOK'
  <2> SUFFICES ASSUME NEW s \in Spaces
               PROVE  use'[s] = refs'[s] + Cardinality(Spending(s)')
                                + (IF Pushing(s)' THEN 1 ELSE 0)
    BY DEF CountOK
  <2>1. Cardinality(Spending(s)') =
           Cardinality(Spending(s))
             - (IF Spends(t, s) THEN 1 ELSE 0)
             + (IF "idle" \in SpendingStates /\ NoSpace = s THEN 1 ELSE 0)
    <3>1. Go(t, "idle", NoSpace) /\ "idle" \in PcStates /\ NoSpace \in Spaces \union {NoSpace}
      BY <1>0, <1>a DEF PcStates, TypeOK
    <3> QED
      BY <1>0, <3>1, GoSpending
  <2>2. Cardinality(Spending(s)) \in Nat
    BY SpendingFinite
  <2>3. s = arg[t] => ~Pushing(s)' /\ Pushing(s)
    BY <1>0, <1>a DEF TypeOK, Go, Pushing, LocksOK
  <2>4. s # arg[t] => (Pushing(s)' <=> Pushing(s))
    BY <1>0, <1>a DEF TypeOK, Go, Pushing
  <2> QED
    BY <1>0, <1>a, <2>1, <2>2, <2>3, <2>4
       DEF TypeOK, CountOK, Spends, SpendingStates
<1>6. MayMake'
  BY <1>0 DEF TypeOK, Go, MayMake, LocksOK
<1> QED
  BY <1>1, <1>2, <1>3, <1>4, <1>5, <1>6 DEF IInv

(* free_pool() and new_pool(): nobody is in a call, and nothing is made.   *)
LEMMA FreePoolIInv ==
  ASSUME IInv, FreePool
  PROVE  IInv'
<1> USE PoolAssumption DEF FreePool, Quiet, Unreferenced
<1>0. TypeOK /\ LocksOK /\ ListOK /\ AtWorkOK /\ CountOK /\ MayMake
  BY DEF IInv
<1>1. TypeOK'
  BY <1>0 DEF TypeOK
<1>2. LocksOK'
  BY <1>0 DEF LocksOK
<1>3. ListOK'
  BY DEF ListOK, Distinct, Listed
<1>4. AtWorkOK'
  BY <1>0 DEF LocksOK, AtWorkOK, BornOK, PulledOK, PoppedOK, LastOK, PushedOK
<1>5. CountOK'
  BY <1>0 DEF CountOK, Spending, Pushing
<1>6. MayMake'
  BY DEF MayMake
<1> QED
  BY <1>1, <1>2, <1>3, <1>4, <1>5, <1>6 DEF IInv

(* Every step of a call, by any thread, keeps the invariant.               *)
LEMMA StepIInv == IInv /\ [Next]_vars => IInv'
<1> SUFFICES ASSUME IInv, [Next]_vars PROVE IInv'
  OBVIOUS
<1>1. ASSUME NEW t \in Threads, CallGet(t) \/ Get(t) PROVE IInv'
  BY <1>1, CallGetIInv, GetPossessIInv, GetPullIInv, GetPopIInv, GetTwistIInv,
     GetMakeIInv DEF Get
<1>2. ASSUME NEW t \in Threads, UseTwist(t) \/ Drop(t) PROVE IInv'
  BY <1>2, UseTwistIInv, DropSharedIInv, DropLastIInv, DropPushIInv,
     DropTwistIInv DEF Drop
<1>3. ASSUME NEW t \in Threads, NEW x \in Spaces, CallUse(t, x) \/ CallDrop(t, x)
      PROVE  IInv'
  BY <1>3, CallUseIInv, CallDropIInv
<1>4. CASE FreePool
  BY <1>4, FreePoolIInv
<1>5. CASE UNCHANGED vars
  <2> USE <1>5 DEF vars, IInv
  <2>1. TypeOK' /\ LocksOK' /\ MayMake'
    BY DEF TypeOK, LocksOK, MayMake
  <2>2. ListOK'
    BY DEF ListOK, Distinct, Listed, Spends
  <2>3. AtWorkOK'
    BY DEF AtWorkOK, BornOK, PulledOK, PoppedOK, LastOK, PushedOK, Listed, Spends
  <2>4. CountOK'
    BY DEF CountOK, Spending, Pushing
  <2> QED
    BY <2>1, <2>2, <2>3, <2>4
<1> QED
  BY <1>1, <1>2, <1>3, <1>4, <1>5 DEF Next

(* The invariant holds in every reachable state.                           *)
THEOREM Invariant == Spec => []IInv
BY InitIInv, StepIInv, PTL DEF Spec

(* The list, the counts and the locks stay of their type: in particular no *)
(* use count, and not the length of the list, goes below zero.             *)
THEOREM TypeCorrect == Spec => []TypeOK
BY Invariant, PTL DEF IInv

(* What NoSharing says follows from the invariant.                         *)
LEMMA InvariantNoSharing == IInv => NoSharing
BY DEF IInv, ListOK, Distinct, NoSharing, Spending, Spends, SpendingStates

(* get_space() never hands out a buffer that anybody still refers to, and  *)
(* no buffer is in the free list twice.                                    *)
THEOREM BuffersNotShared == Spec => []NoSharing
BY Invariant, InvariantNoSharing, PTL

(* A buffer that nobody locks is not being pushed.                         *)
LEMMA InvariantUseCounts == IInv => UseCounts
<1> SUFFICES ASSUME IInv, NEW s \in Spaces, useBy[s] = NoThread
             PROVE  use[s] = refs[s] + Cardinality(Spending(s))
  BY DEF UseCounts
<1>1. ~Pushing(s)
  BY PoolAssumption DEF IInv, LocksOK, Pushing
<1>2. use[s] = refs[s] + Cardinality(Spending(s)) + 0
  BY <1>1 DEF IInv, CountOK
<1>3. refs[s] \in Nat /\ Cardinality(Spending(s)) \in Nat
  BY SpendingFinite DEF IInv, TypeOK
<1> QED
  BY <1>2, <1>3

(* The value of space->use is the number of references to the buffer.      *)
THEOREM UseCountsRight == Spec => []UseCounts
BY Invariant, InvariantUseCounts, PTL

(* Who drops a reference has one, and it is counted.                       *)
LEMMA InvariantAsserts == IInv => Asserts
<1> SUFFICES ASSUME IInv, NEW t \in Threads
             PROVE  /\ pc[t] = "pull" /\ head = <<>> => limit # 0
                    /\ pc[t] = "drop" /\ useBy[arg[t]] = NoThread => use[arg[t]] # 0
  BY DEF Asserts
<1>1. pc[t] = "pull" /\ head = <<>> => limit # 0
  BY DEF IInv, MayMake
<1>2. ASSUME pc[t] = "drop", useBy[arg[t]] = NoThread PROVE use[arg[t]] # 0
  <2>1. arg[t] \in Spaces
    BY <1>2, BusyArg DEF IInv
  <2>2. Cardinality(Spending(arg[t])) > 0
    BY <1>2, SpendingSome DEF Spends, SpendingStates
  <2>3. use[arg[t]] = refs[arg[t]] + Cardinality(Spending(arg[t]))
    BY <1>2, <2>1, InvariantUseCounts DEF UseCounts
  <2>4. refs[arg[t]] \in Nat /\ Cardinality(Spending(arg[t])) \in Nat
    BY <2>1, SpendingFinite DEF IInv, TypeOK
  <2> QED
    BY <2>2, <2>3, <2>4
<1> QED
  BY <1>1, <1>2

(* The assertions in get_space() and drop_space() hold, for any limit.     *)
THEOREM AssertionsHold == Spec => []Asserts
BY Invariant, InvariantAsserts, PTL

-----------------------------------------------------------------------------
(* No buffer is lost: where a buffer is that was made.                     *)
Somewhere(s) ==
  \/ Listed(s) \/ refs[s] > 0
  \/ \E u \in Threads : Spends(u, s) \/ (pc[u] = "popped" /\ arg[u] = s)
AllSomewhere == \A s \in born : Somewhere(s)

(* The one step that spends a reference for good leaves another.           *)
LEMMA DropSharedLeaves ==
  ASSUME IInv, NEW t \in Threads, DropShared(t), NEW s \in Spaces, s = arg[t]
  PROVE  refs[s] > 0 \/ \E u \in Threads : u # t /\ Spends(u, s)
<1> USE DEF DropShared, IInv
<1>1. /\ use[s] = refs[s] + Cardinality(Spending(s))
      /\ refs[s] \in Nat /\ use[s] # 1
  BY InvariantUseCounts DEF UseCounts, TypeOK
<1>2. Spends(t, s)
  BY DEF Spends, SpendingStates
<1>3. Cardinality(Spending(s)) \in Nat /\ Cardinality(Spending(s)) > 0
  BY <1>2, SpendingSome, SpendingFinite
<1>4. ASSUME \A u \in Threads : Spends(u, s) => u = t
      PROVE  Cardinality(Spending(s)) = 1
  <2>1. Spending(s) = {t}
    BY <1>2, <1>4 DEF Spending, Spends, SpendingStates
  <2> QED
    BY <2>1, FS_Singleton
<1> QED
  BY <1>1, <1>3, <1>4

(* A step keeps track of every buffer: from the list to a getter, from a   *)
(* getter to a reference, between references, and back to the list.        *)
LEMMA StepSomewhere == IInv /\ AllSomewhere /\ [Next]_vars => AllSomewhere'
<1> SUFFICES ASSUME IInv, AllSomewhere, [Next]_vars, NEW s \in born'
             PROVE  Somewhere(s)'
  BY DEF AllSomewhere
<1>0. TypeOK /\ LocksOK /\ ListOK /\ AtWorkOK
  BY DEF IInv
<1> USE DEF Go, TypeOK, AllSomewhere, Somewhere, Listed, Spends, SpendingStates,
        listVars
<1>1. ASSUME NEW t \in Threads, CallGet(t) \/ GetPossess(t) \/ GetPull(t) \/ DropLast(t)
      PROVE  Somewhere(s)'
  <2>1. CASE CallGet(t)
    BY <1>0, <2>1 DEF CallGet
  <2>2. CASE GetPossess(t)
    BY <1>0, <2>2 DEF GetPossess
  <2>3. CASE GetPull(t)
    BY <1>0, <2>3 DEF GetPull
  <2>4. CASE DropLast(t)
    BY <1>0, <2>4 DEF DropLast
  <2> QED
    BY <1>1, <2>1, <2>2, <2>3, <2>4
<1>2. ASSUME NEW t \in Threads, GetPop(t) PROVE Somewhere(s)'
  <2>1. s \in born /\ s \in Spaces
    BY <1>0, <1>2 DEF GetPop
  <2>2. CASE s = arg[t]
    BY <1>0, <1>2, <2>2 DEF GetPop
  <2>3. CASE s # arg[t]
    <3>1. head # <<>> /\ arg[t] = Head(head)
      BY <1>0, <1>2 DEF GetPop, AtWorkOK, PulledOK
    <3>2. Listed(s)' <=> Listed(s)
      BY <1>0, <1>2, <2>1, <2>3, <3>1, Popped DEF GetPop, ListOK
    <3> QED
      BY <1>0, <1>2, <2>1, <3>2 DEF GetPop
  <2> QED
    BY <2>2, <2>3
<1>3. ASSUME NEW t \in Threads, GetTwist(t) \/ UseTwist(t) PROVE Somewhere(s)'
  <2>1. s \in born /\ s \in Spaces
    BY <1>0, <1>3 DEF GetTwist, UseTwist
  <2>2. CASE s = arg[t]
    <3>1. refs[s] \in Nat /\ refs'[s] \in {refs[s] + 1, refs[s] + 2}
      BY <1>0, <1>3, <2>1, <2>2 DEF GetTwist, UseTwist
    <3> QED
      BY <3>1
  <2>3. CASE s # arg[t]
    <3>1. CASE GetTwist(t)
      BY <1>0, <2>1, <2>3, <3>1 DEF GetTwist
    <3>2. CASE UseTwist(t)
      BY <1>0, <2>1, <2>3, <3>2 DEF UseTwist
    <3> QED
      BY <1>3, <3>1, <3>2
  <2> QED
    BY <2>2, <2>3
<1>4. ASSUME NEW t \in Threads, GetMake(t) PROVE Somewhere(s)'
  <2>1. PICK x \in Spaces \ born :
          born' = born \union {x} /\ refs' = [refs EXCEPT ![x] = 1]
    BY <1>4 DEF GetMake
  <2>2. CASE s = x
    BY <1>0, <2>1, <2>2
  <2>3. CASE s # x
    BY <1>0, <1>4, <2>1, <2>3 DEF GetMake
  <2> QED
    BY <2>2, <2>3
<1>5. ASSUME NEW t \in Threads, NEW x \in Spaces, CallUse(t, x) \/ CallDrop(t, x)
      PROVE  Somewhere(s)'
  <2>1. CASE s = x
    BY <1>0, <1>5, <2>1 DEF CallUse, CallDrop
  <2>2. CASE s # x
    <3>1. CASE CallUse(t, x)
      BY <1>0, <2>2, <3>1 DEF CallUse
    <3>2. CASE CallDrop(t, x)
      BY <1>0, <2>2, <3>2 DEF CallDrop
    <3> QED
      BY <1>5, <3>1, <3>2
  <2> QED
    BY <2>1, <2>2
<1>6. ASSUME NEW t \in Threads, DropShared(t) PROVE Somewhere(s)'
  <2>1. s \in born /\ s \in Spaces
    BY <1>0, <1>6 DEF DropShared
  <2>2. s = arg[t] => refs[s] > 0 \/ \E u \in Threads : u # t /\ Spends(u, s)
    BY <1>6, <2>1, DropSharedLeaves
  <2>3. /\ head' = head /\ refs' = refs /\ pc[t] = "drop"
        /\ \A u \in Threads : u # t => pc'[u] = pc[u] /\ arg'[u] = arg[u]
    BY <1>0, <1>6 DEF DropShared
  <2>4. CASE Listed(s) \/ refs[s] > 0
    BY <2>3, <2>4 DEF Somewhere, Listed
  <2>5. ASSUME NEW u \in Threads, u # t, Spends(u, s) \/ (pc[u] = "popped" /\ arg[u] = s)
        PROVE  Somewhere(s)'
    BY <2>3, <2>5 DEF Somewhere, Spends
  <2>6. CASE s = arg[t]
    BY <2>2, <2>4, <2>5, <2>6
  <2> QED
    BY <2>1, <2>3, <2>4, <2>5, <2>6 DEF AllSomewhere, Somewhere, Spends
<1>7. ASSUME NEW t \in Threads, DropPush(t) PROVE Somewhere(s)'
  <2>1. s \in born /\ s \in Spaces /\ arg[t] \in Spaces
    BY <1>0, <1>7, BusyArg DEF DropPush
  <2>2. ~Listed(arg[t])
    BY <1>0, <1>7, <2>1 DEF DropPush, ListOK
  <2>3. Listed(s)' <=> Listed(s) \/ s = arg[t]
    BY <1>0, <1>7, <2>1, <2>2, Pushed DEF DropPush, ListOK
  <2> QED
    BY <1>0, <1>7, <2>1, <2>3 DEF DropPush
<1>8. ASSUME NEW t \in Threads, DropTwist(t) PROVE Somewhere(s)'
  BY <1>0, <1>8 DEF DropTwist
<1>9. CASE FreePool
  BY <1>9 DEF FreePool
<1>10. CASE UNCHANGED vars
  BY <1>10 DEF vars
<1> QED
  BY <1>1, <1>2, <1>3, <1>4, <1>5, <1>6, <1>7, <1>8, <1>9, <1>10 DEF Next, Get, Drop

(* With nobody in a call and no reference left, the list has every buffer  *)
(* that was made, once.                                                    *)
LEMMA AllComeBack ==
  ASSUME IInv, AllSomewhere, Quiet, Unreferenced
  PROVE  Len(head) = Cardinality(born)
<1>1. head \in Seq(Spaces) /\ Len(head) \in Nat /\ DOMAIN head = 1..Len(head)
  BY LenProperties DEF IInv, TypeOK
<1>2. \A i \in 1..Len(head) : head[i] \in Spaces /\ Listed(head[i])
  BY <1>1, ElementOfSeq DEF Listed
<1>3. \A i \in 1..Len(head) : head[i] \in born
  BY <1>2 DEF IInv, ListOK
<1>4. \A i, j \in 1..Len(head) : head[i] = head[j] => i = j
  BY <1>1 DEF IInv, ListOK, Distinct
<1>5. \A s \in born : \E i \in 1..Len(head) : head[i] = s
  <2> SUFFICES ASSUME NEW s \in born PROVE Listed(s)
    BY <1>1 DEF Listed
  <2>1. s \in Spaces
    BY DEF IInv, TypeOK
  <2>2. refs[s] = 0 /\ \A u \in Threads : pc[u] = "idle"
    BY <2>1 DEF Quiet, Unreferenced
  <2> QED
    BY <2>1, <2>2 DEF AllSomewhere, Somewhere, Spends, SpendingStates
<1> DEFINE f == [i \in 1..Len(head) |-> head[i]]
<1>6. f \in Bijection(1..Len(head), born)
  BY <1>3, <1>4, <1>5 DEF Bijection, Injection, Surjection, IsInjective
<1> QED
  BY <1>1, <1>6, FS_CountingElements DEF ExistsBijection

(* No buffer is lost, whatever the calls do and in whatever order: each is *)
(* in the list, referenced, or in the hands of a getter, and free_pool()   *)
(* finds them all.                                                         *)
THEOREM NothingLost == Spec => []NoneLost
<1>1. Init => AllSomewhere
  BY DEF Init, AllSomewhere
<1>2. IInv /\ AllSomewhere => NoneLost
  BY AllComeBack
     DEF AllSomewhere, Somewhere, NoneLost, Spending, Spends, SpendingStates
<1> QED
  BY <1>1, <1>2, Invariant, StepSomewhere, PTL DEF Spec

-----------------------------------------------------------------------------
(* The pool of pigz.c implements the pool its users rely on (SpacePool).   *)

(* pool->limit is what is left of the limit given to new_pool().           *)
LimitOK ==
  IF Limit = -1 THEN limit = -1 ELSE limit \in Nat /\ limit = Limit - Cardinality(born)

RInv == IInv /\ AllSomewhere /\ LimitOK

(* The references to a buffer as its users count them: the count of the    *)
(* refinement mapping.                                                     *)
PoppedFor(s) == \E t \in Threads : pc[t] = "popped" /\ arg[t] = s
CountOf(s) ==
  IF Listed(s) \/ s \notin born THEN 0 ELSE IF PoppedFor(s) THEN 1 ELSE use[s]
Counts == [s \in Spaces |-> CountOf(s)]

-----------------------------------------------------------------------------
(* The limit                                                               *)

(* The limit of a pool, if it has one, is a number.                        *)
LEMMA LimitType == Limit \in {-1} \union Nat
<1>1. Cardinality(Spaces) \in Nat
  BY PoolAssumption, FS_CardinalityType
<1> QED
  BY <1>1, PoolAssumption

(* The buffers made are finitely many.                                     *)
LEMMA BornFinite ==
  ASSUME TypeOK
  PROVE  IsFiniteSet(born) /\ Cardinality(born) \in Nat
BY PoolAssumption, FS_Subset, FS_CardinalityType DEF TypeOK

(* Only a new buffer changes the limit.                                    *)
LEMMA StepLimitOK == IInv /\ LimitOK /\ [Next]_vars => LimitOK'
<1> SUFFICES ASSUME IInv, LimitOK, [Next]_vars PROVE LimitOK'
  OBVIOUS
<1>1. Limit \in {-1} \union Nat
  BY LimitType
<1>2. ASSUME NEW t \in Threads, GetMake(t) PROVE LimitOK'
  <2>1. PICK x \in Spaces \ born : born' = born \union {x}
    BY <1>2 DEF GetMake
  <2>2. Cardinality(born') = Cardinality(born) + 1 /\ Cardinality(born) \in Nat
    BY <2>1, BornFinite, FS_AddElement DEF IInv
  <2>3. limit # 0 /\ limit \in {-1} \union Nat
    BY <1>2 DEF GetMake, IInv, MayMake, TypeOK
  <2>4. limit' = IF limit > 0 THEN limit - 1 ELSE limit
    BY <1>2 DEF GetMake
  <2>5. CASE Limit = -1
    BY <2>4, <2>5 DEF LimitOK
  <2>6. CASE Limit # -1
    BY <1>1, <2>2, <2>3, <2>4, <2>6 DEF LimitOK
  <2> QED
    BY <2>5, <2>6
<1>3. CASE FreePool
  <2>1. Cardinality(born') = 0
    BY <1>3, FS_EmptySet DEF FreePool
  <2> QED
    BY <1>1, <1>3, <2>1 DEF FreePool, LimitOK
<1>4. ASSUME UNCHANGED <<limit, born>> PROVE LimitOK'
  BY <1>4 DEF LimitOK
<1> QED
  BY <1>2, <1>3, <1>4 DEF Next, vars, Get, Drop, CallGet, GetPossess, GetPull,
     GetPop, GetTwist, CallUse, UseTwist, CallDrop, DropShared, DropLast,
     DropPush, DropTwist, listVars

(* The three parts hold together in every reachable state.                 *)
THEOREM RInvariant == Spec => []RInv
<1>1. Init => LimitOK /\ AllSomewhere
  <2>1. Cardinality({}) = 0
    BY FS_EmptySet
  <2> QED
    BY <2>1, LimitType DEF Init, LimitOK, AllSomewhere
<1> QED
  BY <1>1, InitIInv, StepIInv, StepSomewhere, StepLimitOK, PTL DEF Spec, RInv

-----------------------------------------------------------------------------
(* The references                                                          *)

(* A buffer that is being spent counts what its lock says, at least one.   *)
LEMMA CountSpent ==
  ASSUME RInv, NEW t \in Threads, NEW s \in Spaces, Spends(t, s)
  PROVE  s \in born /\ ~Listed(s) /\ ~PoppedFor(s) /\ CountOf(s) = use[s] /\ use[s] > 0
<1> USE DEF RInv, IInv
<1>1. s \in born
  BY PoolAssumption DEF Spends, AtWorkOK, BornOK
<1>2. ~Listed(s)
  BY DEF ListOK
<1>3. ~PoppedFor(s)
  BY DEF PoppedFor, AtWorkOK, PoppedOK
<1>4. Cardinality(Spending(s)) > 0 /\ Cardinality(Spending(s)) \in Nat
  BY SpendingSome, SpendingFinite
<1>5. use[s] = refs[s] + Cardinality(Spending(s)) + (IF Pushing(s) THEN 1 ELSE 0)
  BY DEF CountOK
<1>6. refs[s] \in Nat
  BY DEF TypeOK
<1> QED
  BY <1>1, <1>2, <1>3, <1>4, <1>5, <1>6 DEF CountOf

(* Free are the buffers in the list, and no others.                        *)
LEMMA FreeListed ==
  ASSUME RInv, NEW s \in born
  PROVE  CountOf(s) = 0 <=> Listed(s)
<1> USE DEF RInv, IInv
<1>0. s \in Spaces
  BY DEF TypeOK
<1>1. CASE Listed(s)
  BY <1>1 DEF CountOf
<1>2. CASE PoppedFor(s) /\ ~Listed(s)
  BY <1>2 DEF CountOf
<1>3. CASE \E t \in Threads : Spends(t, s)
  BY <1>0, <1>3, CountSpent DEF TypeOK
<1>4. CASE ~Listed(s) /\ ~PoppedFor(s) /\ refs[s] > 0
  <2>1. use[s] = refs[s] + Cardinality(Spending(s)) + (IF Pushing(s) THEN 1 ELSE 0)
    BY <1>0 DEF CountOK
  <2>2. refs[s] \in Nat /\ Cardinality(Spending(s)) \in Nat
    BY <1>0, SpendingFinite DEF TypeOK
  <2> QED
    BY <1>4, <2>1, <2>2 DEF CountOf
<1> QED
  BY <1>1, <1>2, <1>3, <1>4 DEF AllSomewhere, Somewhere, PoppedFor

-----------------------------------------------------------------------------
(* The steps                                                               *)

(* A step that leaves the list, the popped and the counts alone.           *)
LEMMA CountsKept ==
  ASSUME UNCHANGED <<head, born, use>>, \A s \in Spaces : PoppedFor(s)' <=> PoppedFor(s)
  PROVE  UNCHANGED <<born, Counts>>
BY DEF Counts, CountOf, Listed

(* A step that changes the count of one buffer.                            *)
LEMMA CountChanged ==
  ASSUME NEW x \in Spaces, \A s \in Spaces : s # x => CountOf(s)' = CountOf(s)
  PROVE  Counts' = [Counts EXCEPT ![x] = CountOf(x)']
BY DEF Counts

(* get_space() takes effect when the buffer leaves the list.               *)
LEMMA GetPopGets ==
  ASSUME RInv, NEW t \in Threads, GetPop(t)
  PROVE  \E s \in Spaces : Abstract!GetFree(s)
<1> USE DEF RInv, IInv
<1>1. PICK x \in Spaces : x = arg[t] /\ x \in born
  BY BusyArg, PoolAssumption DEF GetPop, AtWorkOK, BornOK
<1>2. head # <<>> /\ x = Head(head) /\ Listed(x)
  BY <1>1, HeadListed DEF GetPop, AtWorkOK, PulledOK, TypeOK
<1>3. \A s \in Spaces : Listed(s)' <=> Listed(s) /\ s # x
  BY <1>2, Popped DEF GetPop, TypeOK, ListOK
<1>4. \A s \in Spaces : PoppedFor(s)' <=> PoppedFor(s) \/ s = x
  BY <1>1 DEF PoppedFor, GetPop, Go, TypeOK
<1>5. CountOf(x) = 0 /\ CountOf(x)' = 1 /\ UNCHANGED born
  BY <1>1, <1>2, <1>3, <1>4 DEF CountOf, GetPop
<1>6. \A s \in Spaces : s # x => CountOf(s)' = CountOf(s)
  BY <1>3, <1>4 DEF CountOf, GetPop
<1> QED
  BY <1>1, <1>5, <1>6, CountChanged DEF Abstract!GetFree, Abstract!Free,
     Counts, CountOf, PoppedFor

(* Making a buffer takes effect at once: there is none in the list, and so *)
(* none is free, and the limit allows for one more.                        *)
LEMMA GetMakeGets ==
  ASSUME RInv, NEW t \in Threads, GetMake(t)
  PROVE  \E s \in Spaces : Abstract!GetNew(s)
<1> USE DEF RInv, IInv
<1>1. PICK x \in Spaces \ born : /\ born' = born \union {x}
                                 /\ use' = [use EXCEPT ![x] = 1]
  BY DEF GetMake
<1>2. head = <<>> /\ UNCHANGED head /\ \A s \in Spaces : ~Listed(s) /\ ~Listed(s)'
  BY DEF GetMake, Listed
<1>3. \A s \in Spaces : PoppedFor(s)' <=> PoppedFor(s)
  BY DEF PoppedFor, GetMake, Go, TypeOK
<1>4. ~PoppedFor(x)
  BY PoolAssumption, <1>1 DEF PoppedFor, AtWorkOK, BornOK
<1>5. CountOf(x) = 0 /\ CountOf(x)' = 1
  BY <1>1, <1>2, <1>3, <1>4 DEF CountOf, TypeOK
<1>6. \A s \in Spaces : s # x => CountOf(s)' = CountOf(s)
  BY <1>1, <1>2, <1>3 DEF CountOf, TypeOK
<1>7. \A s \in born : CountOf(s) # 0
  BY <1>2, FreeListed DEF TypeOK
<1>8. Limit # -1 => Cardinality(born) < Limit
  <2>1. limit # 0 /\ Cardinality(born) \in Nat
    BY BornFinite DEF GetMake, MayMake
  <2>2. Limit \in {-1} \union Nat
    BY LimitType
  <2> QED
    BY <2>1, <2>2 DEF LimitOK
<1>9. Abstract!Free = {}
  BY <1>7 DEF Abstract!Free, CountOf, PoppedFor, TypeOK
<1>10. Counts' = [Counts EXCEPT ![x] = 1]
  BY <1>5, <1>6, CountChanged
<1>11. x \in Spaces \ born /\ born' = born \union {x}
  BY <1>1
<1>12. Abstract!Cardinality(born) = Cardinality(born)
  BY DEF Abstract!Cardinality, Cardinality
<1>13. Abstract!GetNew(x)
  BY <1>8, <1>9, <1>10, <1>11, <1>12 DEF Abstract!GetNew, Counts, CountOf, PoppedFor
<1> QED
  BY <1>13

(* use_space() adds a reference when it changes the count.                 *)
LEMMA UseTwistUses ==
  ASSUME RInv, NEW t \in Threads, UseTwist(t)
  PROVE  \E s \in Spaces : Abstract!Use(s)
<1> USE DEF RInv, IInv
<1>1. PICK x \in Spaces : x = arg[t]
  BY BusyArg DEF UseTwist
<1>2. Spends(t, x)
  BY <1>1 DEF Spends, SpendingStates, UseTwist
<1>3. \A s \in Spaces : PoppedFor(s)' <=> PoppedFor(s)
  BY DEF PoppedFor, UseTwist, Go, TypeOK
<1>4. /\ x \in born /\ ~Listed(x) /\ ~PoppedFor(x) /\ CountOf(x) = use[x] /\ use[x] > 0
      /\ UNCHANGED <<head, born>> /\ use' = [use EXCEPT ![x] = @ + 1]
  BY <1>1, <1>2, CountSpent DEF UseTwist, listVars
<1>5. CountOf(x)' = CountOf(x) + 1
  BY <1>3, <1>4 DEF CountOf, Listed, TypeOK
<1>6. \A s \in Spaces : s # x => CountOf(s)' = CountOf(s)
  BY <1>3, <1>4 DEF CountOf, Listed, TypeOK
<1>7. Counts[x] > 0 /\ Counts' = [Counts EXCEPT ![x] = Counts[x] + 1]
  <2>1. Counts[x] = CountOf(x)
    BY DEF Counts
  <2> QED
    BY <1>4, <1>5, <1>6, <2>1, CountChanged
<1> QED
  BY <1>4, <1>7 DEF Abstract!Use, Counts, CountOf, PoppedFor

(* drop_space() of one reference among others removes it when it changes   *)
(* the count.                                                              *)
LEMMA DropSharedDrops ==
  ASSUME RInv, NEW t \in Threads, DropShared(t)
  PROVE  \E s \in Spaces : Abstract!Drop(s)
<1> USE DEF RInv, IInv
<1>1. PICK x \in Spaces : x = arg[t]
  BY BusyArg DEF DropShared
<1>2. Spends(t, x)
  BY <1>1 DEF Spends, SpendingStates, DropShared
<1>3. \A s \in Spaces : PoppedFor(s)' <=> PoppedFor(s)
  BY DEF PoppedFor, DropShared, Go, TypeOK
<1>4. /\ x \in born /\ ~Listed(x) /\ ~PoppedFor(x) /\ CountOf(x) = use[x] /\ use[x] > 0
      /\ UNCHANGED <<head, born>> /\ use' = [use EXCEPT ![x] = @ - 1]
  BY <1>1, <1>2, CountSpent DEF DropShared, listVars
<1>5. CountOf(x)' = CountOf(x) - 1
  BY <1>3, <1>4 DEF CountOf, Listed, TypeOK
<1>6. \A s \in Spaces : s # x => CountOf(s)' = CountOf(s)
  BY <1>3, <1>4 DEF CountOf, Listed, TypeOK
<1>7. Counts[x] > 0 /\ Counts' = [Counts EXCEPT ![x] = Counts[x] - 1]
  <2>1. Counts[x] = CountOf(x)
    BY DEF Counts
  <2> QED
    BY <1>4, <1>5, <1>6, <2>1, CountChanged
<1> QED
  BY <1>4, <1>7 DEF Abstract!Drop, Counts, CountOf, PoppedFor

(* drop_space() of the last reference removes it when it puts the buffer   *)
(* in the list: only then can a getter have it.                            *)
LEMMA DropPushDrops ==
  ASSUME RInv, NEW t \in Threads, DropPush(t)
  PROVE  \E s \in Spaces : Abstract!Drop(s)
<1> USE DEF RInv, IInv
<1>1. PICK x \in Spaces : x = arg[t]
  BY BusyArg DEF DropPush
<1>2. Spends(t, x)
  BY <1>1 DEF Spends, SpendingStates, DropPush
<1>3. \A s \in Spaces : PoppedFor(s)' <=> PoppedFor(s)
  BY DEF PoppedFor, DropPush, Go, TypeOK
<1>4. /\ x \in born /\ ~Listed(x) /\ CountOf(x) = use[x]
      /\ UNCHANGED <<born, use>>
  BY <1>1, <1>2, CountSpent DEF DropPush
<1>5. use[x] = 1
  <2>1. refs[x] = 0 /\ \A u \in Threads : Spends(u, x) => u = t
    BY <1>1 DEF DropPush, AtWorkOK, LastOK
  <2>2. Spending(x) = {t}
    BY <1>2, <2>1 DEF Spending, Spends, SpendingStates
  <2>3. Cardinality(Spending(x)) = 1
    BY <2>2, FS_Singleton
  <2>4. ~Pushing(x)
    BY <1>1 DEF Pushing, LocksOK, DropPush
  <2> QED
    BY <2>1, <2>3, <2>4 DEF CountOK
<1>6. \A s \in Spaces : Listed(s)' <=> Listed(s) \/ s = x
  BY <1>1, <1>4, Pushed DEF DropPush, TypeOK, ListOK
<1>7. CountOf(x)' = 0
  BY <1>6 DEF CountOf
<1>8. \A s \in Spaces : s # x => CountOf(s)' = CountOf(s)
  BY <1>3, <1>4, <1>6 DEF CountOf
<1>9. Counts[x] > 0 /\ Counts' = [Counts EXCEPT ![x] = Counts[x] - 1]
  <2>1. Counts[x] = CountOf(x)
    BY DEF Counts
  <2> QED
    BY <1>4, <1>5, <1>7, <1>8, <2>1, CountChanged
<1> QED
  BY <1>4, <1>9 DEF Abstract!Drop, Counts, CountOf, PoppedFor

(* free_pool() finds every buffer in the list.                             *)
LEMMA FreePoolRenews ==
  ASSUME RInv, FreePool
  PROVE  Abstract!Renew
<1> USE DEF RInv, IInv, FreePool
<1>1. ASSUME NEW s \in born PROVE Listed(s)
  <2>1. s \in Spaces /\ refs[s] = 0
    BY DEF TypeOK, Unreferenced
  <2>2. \A u \in Threads : ~Spends(u, s) /\ pc[u] # "popped"
    BY DEF Spends, SpendingStates, Quiet
  <2> QED
    BY <2>1, <2>2 DEF AllSomewhere, Somewhere
<1>2. \A s \in Spaces : CountOf(s) = 0 /\ CountOf(s)' = 0
  BY <1>1 DEF CountOf
<1>3. Abstract!Free = born
  BY <1>1, <1>2 DEF Abstract!Free, CountOf, PoppedFor, TypeOK
<1> QED
  BY <1>2, <1>3 DEF Abstract!Renew, CountOf, PoppedFor

(* The other steps: users do not see them.                                 *)
LEMMA Unseen ==
  ASSUME RInv, NEW t \in Threads,
         \/ CallGet(t) \/ GetPossess(t) \/ GetPull(t) \/ GetTwist(t)
         \/ DropLast(t) \/ DropTwist(t)
         \/ \E s \in Spaces : CallUse(t, s) \/ CallDrop(t, s)
  PROVE  UNCHANGED <<born, Counts>>
<1> USE DEF RInv, IInv
<1>1. CASE GetTwist(t)
  <2>1. PICK x \in Spaces : x = arg[t]
    BY <1>1, BusyArg DEF GetTwist
  <2>2. /\ UNCHANGED <<head, born>> /\ x \in born /\ ~Listed(x)
        /\ use' = [use EXCEPT ![x] = 1]
    BY <1>1, <2>1, PoolAssumption DEF GetTwist, listVars, AtWorkOK, BornOK, PoppedOK
  <2>3. /\ PoppedFor(x) /\ ~PoppedFor(x)'
        /\ \A s \in Spaces : s # x => (PoppedFor(s)' <=> PoppedFor(s))
    BY <1>1, <2>1 DEF GetTwist, Go, PoppedFor, TypeOK, LocksOK
  <2>4. \A s \in Spaces : CountOf(s)' = CountOf(s)
    BY <2>2, <2>3 DEF CountOf, Listed, TypeOK
  <2> QED
    BY <2>2, <2>4 DEF Counts
<1>2. CASE DropTwist(t)
  <2>1. PICK x \in Spaces : x = arg[t]
    BY <1>2, BusyArg DEF DropTwist
  <2>2. UNCHANGED <<head, born>> /\ Listed(x) /\ use' = [use EXCEPT ![x] = @ - 1]
    BY <1>2, <2>1 DEF DropTwist, listVars, AtWorkOK, PushedOK
  <2>3. \A s \in Spaces : PoppedFor(s)' <=> PoppedFor(s)
    BY <1>2 DEF DropTwist, Go, PoppedFor, TypeOK
  <2>4. \A s \in Spaces : CountOf(s)' = CountOf(s)
    BY <2>2, <2>3 DEF CountOf, Listed, TypeOK
  <2> QED
    BY <2>2, <2>4 DEF Counts
<1>3. CASE CallGet(t) \/ GetPossess(t) \/ GetPull(t) \/ DropLast(t)
  <2>1. UNCHANGED <<head, born, use>>
    BY <1>3 DEF CallGet, GetPossess, GetPull, DropLast, listVars
  <2>2. \A s \in Spaces : PoppedFor(s)' <=> PoppedFor(s)
    BY <1>3 DEF CallGet, GetPossess, GetPull, DropLast, Go, PoppedFor, TypeOK
  <2> QED
    BY <2>1, <2>2, CountsKept
<1>4. ASSUME NEW s \in Spaces, CallUse(t, s) \/ CallDrop(t, s)
      PROVE  UNCHANGED <<born, Counts>>
  <2>1. UNCHANGED <<head, born, use>>
    BY <1>4 DEF CallUse, CallDrop, listVars
  <2>2. \A x \in Spaces : PoppedFor(x)' <=> PoppedFor(x)
    BY <1>4 DEF CallUse, CallDrop, Go, PoppedFor, TypeOK
  <2> QED
    BY <2>1, <2>2, CountsKept
<1> QED
  BY <1>1, <1>2, <1>3, <1>4

-----------------------------------------------------------------------------

(* The new pool is the promised new pool.                                  *)
LEMMA InitImplements == Init => Abstract!Init
BY DEF Init, Abstract!Init, Listed

(* Every step is a get, a use, a drop or a renewal, or is not seen.        *)
LEMMA StepImplements ==
  RInv /\ [Next]_vars => [Abstract!Next]_(Abstract!poolVars)
<1> SUFFICES ASSUME RInv, [Next]_vars
             PROVE  Abstract!Next \/ UNCHANGED <<born, Counts>>
  BY DEF Abstract!poolVars, Counts, CountOf, PoppedFor
<1>1. CASE UNCHANGED vars
  BY <1>1 DEF vars, Counts, CountOf, Listed, PoppedFor
<1> QED
  BY <1>1, GetPopGets, GetMakeGets, UseTwistUses, DropSharedDrops, DropPushDrops,
     FreePoolRenews, Unseen DEF Next, Get, Drop, Abstract!Next

(* The locked list of counted buffers in pigz.c is the pool its users rely *)
(* on: no buffer that is referenced is handed out again, and none is made  *)
(* while one is free.                                                      *)
THEOREM Refinement == Spec => Implements
BY InitImplements, StepImplements, RInvariant, PTL
   DEF Spec, Implements, Abstract!Spec
=============================================================================
