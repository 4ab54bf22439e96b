----------------------------- MODULE EncoderProofs -----------------------------
(***************************************************************************)
(* Proofs about EncoderMt, for any number of threads, block size and       *)
(* streams, when the encoder is initialized again with the same number of  *)
(* threads only at the end of a stream: the blocks come out in order, the  *)
(* threads are accounted for, and the ring of buffers is a queue.          *)
(***************************************************************************)
EXTENDS EncoderMt, FiniteSetTheorems, FunctionTheorems, SequenceTheorems, NaturalsInduction, TLAPS

Made == 1..initialized
Idling == {"idle", "idle_wait"}
AtWork == {"more", "more_wait", "whole", "whole_wait", "error", "settle", "return"}
WorkerStates == {"none", "exited"} \union Idling \union AtWork
States == {"IDLE", "RUN", "FINISH", "STOP", "EXIT"}
Ending == {"exit", "join"}
Stopping == {"stop", "settle", "settle_wait"}
MainStates == {"app", "read", "in", "reset", "block_error", "work", "work_wait", "index", "stop_error"} \union Ending \union Stopping
Results == {"none", "ok", "end", "error", "timed_out"}
BlockType == [stream : Nat, lo : Nat, hi : Nat]

CallTypes ==
  /\ plan \in Plans /\ stream \in 0..Len(plan) /\ given \in Nat /\ marks \in SUBSET Nat
  /\ action \in Actions /\ room \in Nat /\ result \in Results
CoderTypes ==
  /\ max \in 0..MaxThreads /\ initialized \in 0..MaxThreads
  /\ sequence \in {"block", "index"} /\ inPos \in Nat /\ thr \in 0..MaxThreads
  /\ free \in Seq(Threads) /\ threadError \in BOOLEAN /\ written \in Seq(BlockType)
QueueTypes ==
  /\ bufs \in [Ring -> [finished : {"unset", "no", "yes"}, block : BlockType]]
  /\ bufsAllocated \in Nat /\ bufsPos \in Nat /\ bufsUsed \in Nat /\ readPos \in Nat
ThreadTypes ==
  /\ state \in [Threads -> States] /\ lo \in [Threads -> Nat]
  /\ inSize \in [Threads -> 0..BlockSize] /\ outbuf \in [Threads -> Ring]
PlaceTypes ==
  /\ mpc \in MainStates /\ idx \in Nat
  /\ wpc \in [Threads -> WorkerStates] /\ wstate \in [Threads -> States]

Types == CallTypes /\ CoderTypes /\ QueueTypes /\ ThreadTypes /\ PlaceTypes

Slot(k) == (Oldest + k - 1) % bufsAllocated
Slots == {Slot(k) : k \in 1..bufsUsed}

RingOK ==
  /\ bufsAllocated <= 2 * MaxThreads /\ bufsUsed <= bufsAllocated /\ readPos < BlockUnits
  /\ bufsPos < bufsAllocated \/ bufsPos = 0
  /\ \A i \in Slots : \/ bufs[i].finished = "no"
                      \/ bufs[i].finished = "yes" /\ bufs[i].block \in AllBlocks

Owns(w) == wpc[w] \in AtWork \/ (wpc[w] \in Idling /\ state[w] \in {"RUN", "FINISH"})
OwnersOK ==
  /\ \A w \in Made : Owns(w) => outbuf[w] \in Slots /\ bufs[outbuf[w]].finished = "no"
  /\ \A v, w \in Made : v # w /\ Owns(v) /\ Owns(w) => outbuf[v] # outbuf[w]
WorkerOK(w) ==
  /\ wpc[w] \in AtWork \ {"return"} => state[w] # "IDLE"
  /\ wpc[w] = "return" => state[w] \notin {"RUN", "FINISH"}
  /\ wpc[w] \in {"settle", "return"} => wstate[w] \in {"FINISH", "STOP"}
  /\ Owns(w) => lo[w] + inSize[w] <= MostInput
  /\ Owns(w) /\ state[w] = "FINISH" => inSize[w] > 0
  /\ wpc[w] \in {"settle", "return"} /\ wstate[w] = "FINISH" => bufs[outbuf[w]].block \in AllBlocks
WorkersOK == \A w \in Made : WorkerOK(w)

AllFree ==
  /\ IsInjective(free) /\ Range(free) = Made
  /\ \A w \in Made : wpc[w] \in Idling
MainPhase ==
  /\ max > 0 \/ initialized > 0 => stream > 0
  /\ mpc \in Ending \union Stopping =>
       /\ thr = 0 /\ inPos = 0 /\ given = 0 /\ marks = {} /\ action = "RUN" /\ sequence = "block"
       /\ result \in {"ok", "none"} /\ (max > 0 => result = "ok")
  /\ mpc \in Stopping => max > 0
  /\ max = 0 => mpc \in Ending \union {"app"}
  /\ mpc = "app" /\ max = 0 => initialized = 0
  /\ mpc = "stop_error" => result = "error"
  /\ result = "error" => mpc \in {"stop_error", "app"}
  /\ mpc \in Stopping \union Ending \union {"stop_error"} => idx > 0
ThreadPhase ==
  /\ mpc \in Stopping => AllFree /\ \A w \in Made : state[w] \in {"IDLE", "STOP"}
  /\ mpc \in {"settle", "settle_wait"} => \A w \in Made : w < idx => state[w] = "IDLE"
  /\ \A w \in Threads : w > initialized => wpc[w] = "none"
  /\ mpc = "join" => \A w \in Made : w < idx => wpc[w] = "none"
PhaseOK == MainPhase /\ ThreadPhase

Live == Streaming /\ result # "error"
InputOK ==
  /\ inPos <= given /\ given <= plan[stream].input
  /\ marks \subseteq 0..given /\ (action # "RUN" => given \in marks)
  /\ \A m \in marks : m <= inPos \/ (m = given /\ action # "RUN")
Placed(w) ==
  /\ state[w] \in {"IDLE", "RUN", "FINISH"} /\ wpc[w] \in Idling \union AtWork
  /\ w \in Range(free) <=> ~Busy(w) /\ ~(mpc = "reset" /\ thr = w)
  /\ wpc[w] = "settle" => threadError \/ (wstate[w] = "FINISH" /\ state[w] = "FINISH")
  /\ wpc[w] = "return" => threadError \/ wstate[w] = "FINISH"
FreeOK == IsInjective(free) /\ Range(free) \subseteq Made /\ \A w \in Made : Placed(w)
ThrOK ==
  /\ thr <= initialized
  /\ mpc = "reset" =>
       thr # 0 /\ state[thr] = "IDLE" /\ wpc[thr] \in Idling /\ InputLeft /\ HasBuf
  /\ thr # 0 /\ mpc # "reset" =>
       \/ state[thr] = "IDLE" /\ threadError
       \/ /\ state[thr] = "RUN" /\ lo[thr] + inSize[thr] = inPos /\ inSize[thr] < BlockSize
          /\ inSize[thr] = 0 => mpc = "in" /\ InputLeft
  /\ mpc = "block_error" => threadError
IndexOK ==
  /\ mpc = "index" => sequence = "index"
  /\ sequence = "index" =>
       /\ bufsUsed = 0 /\ inPos = given /\ action = "FINISH" /\ thr = 0 /\ ~threadError
       /\ mpc \in {"index", "app"}
  /\ threadError /\ mpc \notin {"app", "read"} => bufsUsed > 0
  /\ mpc = "app" /\ result = "end" =>
       /\ inPos = given /\ thr = 0 /\ (action = "FINISH" => sequence = "index")
LiveOK == Live => InputOK /\ FreeOK /\ ThrOK /\ IndexOK

WrittenEnd(k) == IF k = 0 THEN 0 ELSE written[k].hi
Copied ==
  \A k \in DOMAIN written :
    /\ written[k] = BlockOf(stream, WrittenEnd(k - 1), CutAfter(WrittenEnd(k - 1)))
    /\ written[k].hi <= inPos
Completed ==
  sequence = "index" \/ (mpc = "app" /\ result = "end" /\ action # "FULL_BARRIER")
    => WrittenEnd(Len(written)) = given
WrittenOK == Streaming => Copied /\ (result # "error" => Completed)

Fills(w, i, from, to) ==
  /\ Owns(w) /\ outbuf[w] = i /\ lo[w] = from /\ lo[w] + inSize[w] = to
  /\ state[w] = "FINISH" \/ wpc[w] = "return"
Whole(i, from, to) ==
  /\ to = CutAfter(from) /\ to <= inPos
  /\ \/ bufs[i].finished = "yes" /\ bufs[i].block = BlockOf(stream, from, to)
     \/ \E w \in Made : Fills(w, i, from, to)
Begun(i, from) ==
  /\ thr # 0 /\ mpc # "reset" /\ outbuf[thr] = i /\ lo[thr] = from
  /\ \A m \in marks : m <= from \/ (m = given /\ action # "RUN")
Cut(e) ==
  /\ e[0] = WrittenEnd(Len(written)) /\ e[bufsUsed] = inPos
  /\ \A k \in 1..bufsUsed : \/ Whole(Slot(k), e[k - 1], e[k])
                            \/ k = bufsUsed /\ Begun(Slot(k), e[k - 1])
Chained == \E e \in [0..bufsUsed -> 0..inPos] : Cut(e)
EncodedOK ==
  /\ \A w \in Made : state[w] = "RUN" => thr = w
  /\ \A w \in Made : wpc[w] \in {"settle", "return"} =>
       wstate[w] = "FINISH" /\ bufs[outbuf[w]].block = BlockOf(stream, lo[w], lo[w] + inSize[w])
ChainOK == Live /\ ~threadError => Chained /\ EncodedOK

-----------------------------------------------------------------------------
(* Numbers                                                                 *)

LEMMA Numbers ==
  /\ MaxThreads \in Nat \ {0} /\ BlockSize \in Nat \ {0} /\ Rooms \subseteq Nat \ {0}
  /\ Threads = 1..MaxThreads
BY EncoderAssumption DEF Threads

LEMMA Smaller ==
  ASSUME NEW a \in Int, NEW b \in Int
  PROVE  Min({a, b}) = IF a <= b THEN a ELSE b
<1>1. PICK m : m = IF a <= b THEN a ELSE b
  OBVIOUS
<1>2. m \in {a, b} /\ \A y \in {a, b} : m <= y
  BY <1>1
<1>3. \A x \in {a, b} : (\A y \in {a, b} : x <= y) => x = m
  BY <1>1
<1> QED
  BY <1>1, <1>2, <1>3 DEF Min

(* A set of numbers that is not empty has a least one, and if it is finite *)
(* a greatest one.                                                         *)
LEMMA LeastIn ==
  ASSUME NEW S, S \subseteq Nat, S # {}
  PROVE  Min(S) \in S /\ \A y \in S : Min(S) <= y
<1> DEFINE T == {0..i : i \in S}
<1>1. T \subseteq FiniteSubsetsOf(Nat) /\ T # {}
  <2>1. \A i \in Nat : 0..i \subseteq Nat /\ IsFiniteSet(0..i)
    BY FS_Interval
  <2> QED
    BY <2>1 DEF FiniteSubsetsOf
<1>2. PICK x \in T : \A y \in T : ~(<<y, x>> \in StrictSubsetOrdering(Nat))
  <2> HIDE DEF T
  <2> QED
    BY <1>1, FS_StrictSubsetOrderingWellFounded, WFMin
<1>3. PICK n \in S : x = 0..n
  OBVIOUS
<1>4. ASSUME NEW i \in S, i < n
      PROVE  FALSE
  <2>1. i \in Nat /\ n \in Nat /\ i < n
    BY <1>4
  <2>2. 0..i \subseteq 0..n /\ n \in 0..n /\ n \notin 0..i /\ 0..n \subseteq Nat
    BY <2>1
  <2>3. <<0..i, 0..n>> \in StrictSubsetOrdering(Nat)
    BY <2>2 DEF StrictSubsetOrdering
  <2> QED
    BY <1>2, <1>3, <2>3
<1>5. \A i \in S : n <= i
  BY <1>4
<1> QED
  BY <1>5 DEF Min

LEMMA GreatestIn ==
  ASSUME NEW S, S \subseteq Nat, S # {}, IsFiniteSet(S)
  PROVE  Max(S) \in S /\ \A y \in S : y <= Max(S)
<1> DEFINE From(x) == {y \in S : x <= y}
           T == {From(x) : x \in S}
<1>1. T \subseteq FiniteSubsetsOf(S) /\ T # {}
  <2>1. \A x \in S : From(x) \subseteq S /\ IsFiniteSet(From(x))
    BY FS_Subset
  <2> QED
    BY <2>1 DEF FiniteSubsetsOf
<1>2. PICK x \in T : \A y \in T : ~(<<y, x>> \in StrictSubsetOrdering(S))
  <2> HIDE DEF T
  <2> QED
    BY <1>1, FS_StrictSubsetOrderingWellFounded, WFMin
<1>3. PICK n \in S : x = From(n)
  OBVIOUS
<1>4. ASSUME NEW i \in S, n < i
      PROVE  FALSE
  <2>1. i \in Nat /\ n \in Nat /\ n < i
    BY <1>4
  <2>2. n \in From(n) /\ n \notin From(i) /\ From(n) \subseteq S
    BY <2>1
  <2>0. ASSUME NEW y \in From(i)
        PROVE  y \in From(n)
    <3>1. y \in S /\ y \in Nat /\ i <= y
      OBVIOUS
    <3> QED
      BY <2>1, <3>1
  <2>4. From(i) \subseteq From(n)
    BY <2>0
  <2>3. <<From(i), From(n)>> \in StrictSubsetOrdering(S)
    <3> HIDE DEF From
    <3> QED
      BY <2>2, <2>4 DEF StrictSubsetOrdering
  <2> QED
    BY <1>2, <1>3, <2>3
<1>5. \A i \in S : i <= n
  BY <1>4
<1> QED
  BY <1>5 DEF Max

(* The streams of a plan are within the bounds.                            *)
LEMMA PlanBounds ==
  /\ MostInput \in Nat /\ MostStreams \in Nat
  /\ \A p \in Plans : p \in Seq([input : Nat, errors : Nat])
  /\ \A p \in Plans : Len(p) <= MostStreams
  /\ \A p \in Plans : \A s \in 1..Len(p) :
       p[s].input \in Nat /\ p[s].errors \in Nat /\ p[s].input <= MostInput
<1>1. Plans \subseteq Seq([input : Nat, errors : Nat]) /\ Plans # {} /\ IsFiniteSet(Plans)
  BY EncoderAssumption
<1>2. IsFiniteSet(Bounds)
  <2>1. ASSUME NEW p \in Plans
        PROVE  IsFiniteSet(Range(p))
    <3>1. p \in [1..Len(p) -> Range(p)] /\ Len(p) \in Nat
      BY <1>1 DEF Range
    <3>2. p \in Surjection(1..Len(p), Range(p))
      BY <3>1 DEF Surjection, Range
    <3>3. IsFiniteSet(1..Len(p))
      BY <3>1, FS_Interval
    <3> QED
      BY ONLY <3>2, <3>3, FS_Surjection
  <2>2. PICK R : R = {Range(p) : p \in Plans}
    OBVIOUS
  <2>3. [p \in Plans |-> Range(p)] \in Surjection(Plans, R)
    BY <2>2 DEF Surjection
  <2>4. IsFiniteSet(R)
    BY ONLY <2>3, <1>1, FS_Surjection
  <2>5. \A T \in R : IsFiniteSet(T)
    BY ONLY <2>1, <2>2
  <2>6. IsFiniteSet(UNION R)
    BY ONLY <2>4, <2>5, FS_UNION
  <2> QED
    BY <2>2, <2>6 DEF Bounds
<1>3. \A b \in Bounds : b.input \in Nat /\ b.errors \in Nat
  <2>1. ASSUME NEW b \in Bounds
        PROVE  b.input \in Nat /\ b.errors \in Nat
    <3>1. PICK p \in Plans : b \in Range(p)
      BY DEF Bounds
    <3>2. p \in Seq([input : Nat, errors : Nat])
      BY <1>1
    <3>3. PICK k \in DOMAIN p : b = p[k]
      BY <3>1 DEF Range
    <3>4. k \in 1..Len(p) /\ p \in [1..Len(p) -> [input : Nat, errors : Nat]]
      <4>1. /\ p \in [1..Len(p) -> [input : Nat, errors : Nat]]
            /\ DOMAIN p = 1..Len(p)
        BY ONLY <3>2, LenProperties
      <4> QED
        BY ONLY <4>1, k \in DOMAIN p
    <3>5. p[k] \in [input : Nat, errors : Nat]
      BY ONLY <3>4
    <3> QED
      BY <3>3, <3>5
  <2> QED
    BY <2>1
<1>4. PICK I : I = {b.input : b \in Bounds}
  OBVIOUS
<1>5. IsFiniteSet({0} \union I) /\ {0} \union I \subseteq Nat
  <2>1. [b \in Bounds |-> b.input] \in Surjection(Bounds, I)
    BY <1>4 DEF Surjection
  <2>2. IsFiniteSet(I)
    BY ONLY <1>2, <2>1, FS_Surjection
  <2>3. IsFiniteSet({0})
    BY FS_Singleton
  <2>4. IsFiniteSet({0} \union I)
    BY ONLY <2>2, <2>3, FS_Union
  <2> QED
    BY <1>3, <1>4, <2>4
<1>6. MostInput \in {0} \union I /\ \A y \in {0} \union I : y <= MostInput
  <2>1. PICK J : J = {0} \union I
    OBVIOUS
  <2>2. J \subseteq Nat /\ J # {} /\ IsFiniteSet(J)
    BY <1>5, <2>1
  <2>3. Max(J) \in J /\ \A y \in J : y <= Max(J)
    BY ONLY <2>2, GreatestIn
  <2> QED
    BY <1>4, <2>1, <2>3 DEF MostInput
<1>7. ASSUME NEW p \in Plans, NEW s \in 1..Len(p)
      PROVE  p[s].input \in Nat /\ p[s].errors \in Nat /\ p[s].input <= MostInput
  <2>1. p[s] \in Bounds
    BY <1>1 DEF Bounds, Range
  <2> QED
    BY <1>3, <1>4, <1>6, <2>1
<1>8. MostStreams \in Nat /\ \A p \in Plans : Len(p) <= MostStreams
  <2>1. PICK J : J = {Len(p) : p \in Plans}
    OBVIOUS
  <2>2. [p \in Plans |-> Len(p)] \in Surjection(Plans, J)
    BY <2>1 DEF Surjection
  <2>3. IsFiniteSet(J)
    BY ONLY <1>1, <2>2, FS_Surjection
  <2>4. J \subseteq Nat /\ J # {}
    BY <1>1, <2>1
  <2>5. Max(J) \in J /\ \A y \in J : y <= Max(J)
    BY ONLY <2>3, <2>4, GreatestIn
  <2> QED
    BY <2>1, <2>4, <2>5 DEF MostStreams
<1> QED
  BY <1>1, <1>5, <1>6, <1>7, <1>8

-----------------------------------------------------------------------------
(* The ring                                                                *)

LEMMA Wrapped ==
  ASSUME NEW n \in Nat \ {0}, NEW a \in 0..(2 * n - 1)
  PROVE  a % n = IF a < n THEN a ELSE a - n
OBVIOUS

(* Slot k of a ring of n buffers of which u are used, up to position p.    *)
SlotAt(p, u, n, k) == (p - u + (IF p < u THEN n ELSE 0) + k - 1) % n

LEMMA SlotIs ==
  ASSUME NEW n \in Nat, NEW p \in Nat, NEW u \in Nat, p < n, u <= n, NEW k \in 1..n
  PROVE  LET a == p - u + (IF p < u THEN n ELSE 0)
         IN  /\ a \in 0..(n - 1)
             /\ SlotAt(p, u, n, k) = IF a + k - 1 < n THEN a + k - 1 ELSE a + k - 1 - n
<1> DEFINE a == p - u + (IF p < u THEN n ELSE 0)
<1>1. a \in 0..(n - 1)
  OBVIOUS
<1>2. PICK b : b = a + k - 1
  OBVIOUS
<1>3. b \in 0..(2 * n - 1) /\ n \in Nat \ {0}
  BY <1>1, <1>2
<1>4. b % n = IF b < n THEN b ELSE b - n
  BY <1>3, Wrapped
<1> QED
  BY <1>1, <1>2, <1>4 DEF SlotAt

(* The slots in use are different buffers of the ring, and the one that is *)
(* taken next is another.                                                  *)
LEMMA SlotsDiffer ==
  ASSUME NEW n \in Nat, NEW p \in Nat, NEW u \in Nat, p < n, u <= n
  PROVE  /\ \A k \in 1..u : SlotAt(p, u, n, k) \in 0..(n - 1)
         /\ \A j, k \in 1..u : SlotAt(p, u, n, j) = SlotAt(p, u, n, k) => j = k
         /\ u < n => \A k \in 1..u : SlotAt(p, u, n, k) # p
<1> DEFINE a == p - u + (IF p < u THEN n ELSE 0)
<1>1. \A k \in 1..n : SlotAt(p, u, n, k) = IF a + k - 1 < n THEN a + k - 1 ELSE a + k - 1 - n
  BY SlotIs
<1>2. a \in 0..(n - 1)
  OBVIOUS
<1>3. \A k \in 1..u : k \in 1..n
  OBVIOUS
<1>4. ASSUME NEW k \in 1..u
      PROVE  SlotAt(p, u, n, k) \in 0..(n - 1) /\ (u < n => SlotAt(p, u, n, k) # p)
  <2>1. SlotAt(p, u, n, k) = IF a + k - 1 < n THEN a + k - 1 ELSE a + k - 1 - n
    BY <1>1, <1>3
  <2> QED
    BY <2>1, <1>2
<1>5. ASSUME NEW j \in 1..u, NEW k \in 1..u, SlotAt(p, u, n, j) = SlotAt(p, u, n, k)
      PROVE  j = k
  <2>1. /\ SlotAt(p, u, n, k) = IF a + k - 1 < n THEN a + k - 1 ELSE a + k - 1 - n
        /\ SlotAt(p, u, n, j) = IF a + j - 1 < n THEN a + j - 1 ELSE a + j - 1 - n
    BY <1>1, <1>3
  <2> QED
    BY <2>1, <1>2, <1>5
<1> QED
  BY <1>4, <1>5

(* With another buffer in use, or the oldest one no longer.                *)
LEMMA OneMore ==
  ASSUME NEW n \in Nat, NEW p \in Nat, NEW u \in Nat, p < n, u < n
  PROVE  LET q == IF p + 1 = n THEN 0 ELSE p + 1
         IN  /\ \A k \in 1..u : SlotAt(q, u + 1, n, k) = SlotAt(p, u, n, k)
             /\ SlotAt(q, u + 1, n, u + 1) = p
<1> DEFINE q == IF p + 1 = n THEN 0 ELSE p + 1
           a == p - u + (IF p < u THEN n ELSE 0)
           b == q - (u + 1) + (IF q < u + 1 THEN n ELSE 0)
<1>1. a = b /\ q \in Nat /\ q < n /\ u + 1 \in Nat /\ u + 1 <= n
  OBVIOUS
<1>2. \A k \in 1..u : SlotAt(q, u + 1, n, k) = SlotAt(p, u, n, k)
  BY <1>1 DEF SlotAt
<1>3. SlotAt(q, u + 1, n, u + 1) = IF b + u < n THEN b + u ELSE b + u - n
  <2>1. u + 1 \in 1..n
    OBVIOUS
  <2>2. PICK v : v = u + 1
    OBVIOUS
  <2>3. PICK r : r = q
    OBVIOUS
  <2>4. SlotAt(r, v, n, v) = IF r - v + (IF r < v THEN n ELSE 0) + v - 1 < n
                               THEN r - v + (IF r < v THEN n ELSE 0) + v - 1
                               ELSE r - v + (IF r < v THEN n ELSE 0) + v - 1 - n
    <3>1. r \in Nat /\ r < n /\ v \in Nat /\ v <= n /\ v \in 1..n
      BY <1>1, <2>1, <2>2, <2>3
    <3> QED
      BY ONLY <3>1, n \in Nat, SlotIs
  <2> QED
    BY <2>2, <2>3, <2>4
<1> QED
  BY <1>1, <1>2, <1>3

LEMMA OneLess ==
  ASSUME NEW n \in Nat, NEW p \in Nat, NEW u \in Nat, p < n, u <= n, u > 0
  PROVE  /\ \A k \in 1..(u - 1) : SlotAt(p, u - 1, n, k) = SlotAt(p, u, n, k + 1)
         /\ SlotAt(p, u, n, 1) = p - u + (IF p < u THEN n ELSE 0)
<1> DEFINE a == p - u + (IF p < u THEN n ELSE 0)
           b == p - (u - 1) + (IF p < u - 1 THEN n ELSE 0)
<1>1. a \in 0..(n - 1) /\ b \in 0..(n - 1) /\ b = IF a + 1 = n THEN 0 ELSE a + 1
  OBVIOUS
<1>2. SlotAt(p, u, n, 1) = a
  <2>1. 1 \in 1..n
    OBVIOUS
  <2> QED
    BY <1>1, <2>1, SlotIs
<1>3. ASSUME NEW k \in 1..(u - 1)
      PROVE  SlotAt(p, u - 1, n, k) = SlotAt(p, u, n, k + 1)
  <2>1. k \in 1..n /\ k + 1 \in 1..n
    OBVIOUS
  <2>2. SlotAt(p, u, n, k + 1) = IF a + k < n THEN a + k ELSE a + k - n
    <3>1. PICK j : j = k + 1
      OBVIOUS
    <3>2. SlotAt(p, u, n, j) = IF a + j - 1 < n THEN a + j - 1 ELSE a + j - 1 - n
      BY <2>1, <3>1, SlotIs
    <3> QED
      BY <3>1, <3>2
  <2>3. SlotAt(p, u - 1, n, k) = IF b + k - 1 < n THEN b + k - 1 ELSE b + k - 1 - n
    <3>1. PICK v : v = u - 1
      OBVIOUS
    <3>2. v \in Nat /\ v <= n
      BY <3>1
    <3>3. SlotAt(p, v, n, k) = IF p - v + (IF p < v THEN n ELSE 0) + k - 1 < n
                                 THEN p - v + (IF p < v THEN n ELSE 0) + k - 1
                                 ELSE p - v + (IF p < v THEN n ELSE 0) + k - 1 - n
      BY <2>1, <3>2, SlotIs
    <3> QED
      BY <3>1, <3>3
  <2> QED
    BY <1>1, <2>2, <2>3
<1> QED
  BY <1>2, <1>3

-----------------------------------------------------------------------------
(* Where blocks end                                                        *)

CutIn(S, p) == Min({p + BlockSize} \union {m \in S : m > p})

LEMMA CutIs ==
  ASSUME NEW S, S \subseteq Nat, NEW p \in Nat
  PROVE  /\ CutIn(S, p) \in Nat /\ p < CutIn(S, p) /\ CutIn(S, p) <= p + BlockSize
         /\ CutIn(S, p) = p + BlockSize \/ CutIn(S, p) \in S
         /\ \A m \in S : m > p => CutIn(S, p) <= m
         /\ \A c \in Nat : /\ c = p + BlockSize \/ (c \in S /\ c > p)
                           /\ c <= p + BlockSize
                           /\ \A m \in S : m > p => c <= m
                           => c = CutIn(S, p)
<1>1. PICK T : T = {p + BlockSize} \union {m \in S : m > p}
  OBVIOUS
<1>2. T \subseteq Nat /\ T # {} /\ p + BlockSize \in T
  <2>1. p + BlockSize \in Nat
    BY Numbers
  <2> QED
    BY <1>1, <2>1
<1>3. Min(T) \in T /\ \A y \in T : Min(T) <= y
  BY ONLY <1>2, LeastIn
<1>4. PICK n : n = Min(T)
  OBVIOUS
<1>5. CutIn(S, p) = n
  BY <1>1, <1>4 DEF CutIn
<1>6. n \in T /\ n \in Nat /\ \A y \in T : n <= y
  BY <1>2, <1>3, <1>4
<1>7. p < n /\ n <= p + BlockSize /\ (n = p + BlockSize \/ n \in S) /\ \A m \in S : m > p => n <= m
  <2>1. n = p + BlockSize \/ (n \in S /\ n > p)
    BY <1>1, <1>6
  <2>2. n <= p + BlockSize /\ \A m \in S : m > p => n <= m
    BY <1>1, <1>2, <1>6
  <2> QED
    BY <2>1, <2>2, <1>6, Numbers
<1>8. ASSUME NEW c \in Nat, c = p + BlockSize \/ (c \in S /\ c > p), c <= p + BlockSize,
             \A m \in S : m > p => c <= m
      PROVE  c = n
  <2>1. c \in T
    BY <1>1, <1>8
  <2>2. n <= c
    BY <1>6, <2>1
  <2>3. c <= n
    BY <1>7, <1>8
  <2> QED
    BY <1>6, <2>2, <2>3
<1> QED
  BY <1>5, <1>6, <1>7, <1>8

LEMMA CutKept ==
  ASSUME NEW S, S \subseteq Nat, NEW p \in Nat, NEW n \in Nat, CutIn(S, p) <= n
  PROVE  CutIn(S \union {n}, p) = CutIn(S, p)
<1>1. PICK c : c = CutIn(S, p)
  OBVIOUS
<1>2. /\ c \in Nat /\ p < c /\ c <= p + BlockSize /\ (c = p + BlockSize \/ c \in S) /\ c <= n
      /\ \A m \in S : m > p => c <= m
  BY <1>1, CutIs
<1>3. S \union {n} \subseteq Nat /\ \A m \in S \union {n} : m > p => c <= m
  BY <1>2
<1>4. PICK T : T = S \union {n}
  OBVIOUS
<1>5. \A x \in Nat : /\ x = p + BlockSize \/ (x \in T /\ x > p)
                     /\ x <= p + BlockSize
                     /\ \A m \in T : m > p => x <= m
                     => x = CutIn(T, p)
  BY <1>3, <1>4, CutIs
<1> QED
  BY <1>1, <1>2, <1>3, <1>4, <1>5

-----------------------------------------------------------------------------
(* Waking                                                                  *)

Encoding == {"more", "more_wait", "whole", "whole_wait"}

(* Being asleep or not makes no difference to what a worker has.           *)
SamePlace(a, b) ==
  /\ a \in Idling <=> b \in Idling
  /\ a \in Encoding <=> b \in Encoding
  /\ a \notin Idling \union Encoding => a = b

LEMMA Pairs ==
  /\ SamePlace("idle_wait", "idle") /\ SamePlace("more_wait", "more")
  /\ SamePlace("whole_wait", "whole")
BY DEF SamePlace, Idling, Encoding

LEMMA SamePlaces ==
  ASSUME NEW a \in WorkerStates, NEW b \in WorkerStates, SamePlace(a, b)
  PROVE  a \in AtWork <=> b \in AtWork
BY DEF SamePlace, AtWork, Encoding, Idling, WorkerStates

LEMMA Wakes ==
  ASSUME NEW pc \in [Threads -> WorkerStates], NEW w \in Threads
  PROVE  /\ Woken(pc, w) \in [Threads -> WorkerStates]
         /\ \A v \in Threads : SamePlace(pc[v], Woken(pc, w)[v])
         /\ \A v \in Threads : v # w => Woken(pc, w)[v] = pc[v]
<1>1. DOMAIN Asleep = {"idle", "more", "whole"} /\ Asleep["idle"] = "idle_wait"
      /\ Asleep["more"] = "more_wait" /\ Asleep["whole"] = "whole_wait"
  BY DEF Asleep
<1>2. CASE \E s \in DOMAIN Asleep : Asleep[s] = pc[w]
  <2>1. PICK s \in DOMAIN Asleep : s = CHOOSE t \in DOMAIN Asleep : Asleep[t] = pc[w]
    BY <1>2
  <2>2. s \in {"idle", "more", "whole"} /\ Asleep[s] = pc[w]
    BY <1>1, <1>2, <2>1
  <2>3. Woken(pc, w) = [pc EXCEPT ![w] = s]
    BY <1>2, <2>1 DEF Woken
  <2>4. SamePlace(pc[w], s) /\ s \in WorkerStates
    <3>1. \/ pc[w] = "idle_wait" /\ s = "idle"
          \/ pc[w] = "more_wait" /\ s = "more"
          \/ pc[w] = "whole_wait" /\ s = "whole"
      BY <1>1, <2>2
    <3>3. {"idle", "more", "whole"} \subseteq WorkerStates
      BY DEF Idling, WorkerStates, AtWork
    <3> QED
      BY ONLY <3>1, <3>3, Pairs
  <2> QED
    BY <2>3, <2>4 DEF SamePlace
<1>3. CASE ~\E s \in DOMAIN Asleep : Asleep[s] = pc[w]
  <2>1. Woken(pc, w) = pc
    BY <1>3 DEF Woken
  <2> QED
    BY <2>1 DEF SamePlace
<1> QED
  BY <1>2, <1>3

-----------------------------------------------------------------------------
(* Types                                                                   *)

LEMMA MainWakes ==
  ASSUME mpc \in MainStates
  PROVE  MainWoken \in MainStates /\ \A w : MainWokenBy(w) \in MainStates
BY DEF MainWoken, MainWokenBy, MainStates, Stopping

LEMMA Blocks ==
  /\ NoBlock \in BlockType
  /\ \A s, p, q \in Nat : BlockOf(s, p, q) \in BlockType
BY DEF NoBlock, BlockOf, BlockType

(* A call is in a stream, within the bounds.                               *)
LEMMA InCall ==
  ASSUME Types, PhaseOK, LiveOK, mpc \notin {"app", "stop_error"} \union Ending \union Stopping
  PROVE  /\ Live /\ max > 0 /\ stream \in 1..Len(plan) /\ given <= MostInput /\ inPos <= given
         /\ plan[stream].input \in Nat
<1>1. max > 0 /\ result # "error"
  BY DEF PhaseOK, MainPhase, ThreadPhase, Types, CallTypes, CoderTypes, PlaceTypes
<1>2. Live
  BY <1>1 DEF Live, Streaming, Ending, Stopping
<1>3. stream \in 1..Len(plan)
  <2>1. plan \in Plans
    BY DEF Types, CallTypes, CoderTypes
  <2>2. Len(plan) \in Nat
    BY ONLY <2>1, PlanBounds, LenProperties
  <2> QED
    BY <1>1, <2>2 DEF PhaseOK, MainPhase, ThreadPhase, Types, CallTypes, CoderTypes, PlaceTypes
<1>4. plan[stream].input \in Nat /\ plan[stream].input <= MostInput /\ MostInput \in Nat
  BY <1>3, PlanBounds DEF Types, CallTypes, CoderTypes
<1> QED
  BY <1>1, <1>2, <1>3, <1>4 DEF LiveOK, InputOK, Types, CallTypes, CoderTypes

LEMMA TypesKept ==
  ASSUME Types
  PROVE  /\ UNCHANGED <<plan, stream, given, marks, action, room, result>> => CallTypes'
         /\ UNCHANGED <<max, initialized, sequence, inPos, thr, free, threadError, written>>
              => CoderTypes'
         /\ UNCHANGED outq => QueueTypes'
         /\ UNCHANGED thrVars => ThreadTypes'
         /\ UNCHANGED <<mpc, idx, wpc, wstate>> => PlaceTypes'
BY DEF Types, CallTypes, CoderTypes, QueueTypes, ThreadTypes, PlaceTypes, outq, thrVars

LEMMA MainSteps ==
  /\ {"app", "index", "work", "read", "in", "reset", "work_wait", "block_error"} \subseteq MainStates
  /\ {"stop_error", "stop", "exit", "settle", "settle_wait", "join"} \subseteq MainStates
  /\ {"ok", "end", "error", "timed_out", "none"} \subseteq Results
  /\ {"RUN", "FULL_FLUSH", "FULL_BARRIER", "FINISH"} \subseteq Actions
  /\ {"idle", "idle_wait", "more", "more_wait", "whole", "whole_wait"} \subseteq WorkerStates
  /\ {"error", "settle", "return", "exited", "none"} \subseteq WorkerStates
  /\ {"IDLE", "RUN", "FINISH", "STOP", "EXIT"} \subseteq States
BY DEF MainStates, Results, Ending, Stopping, Actions, WorkerStates, Idling, AtWork, States

(* The threads there are.                                                  *)
LEMMA MadeThreads ==
  ASSUME Types
  PROVE  Made \subseteq Threads /\ initialized \in Nat /\ max \in Nat /\ MaxThreads \in Nat
BY Numbers DEF Types, CoderTypes, Made

LEMMA CallTypesOK ==
  ASSUME Types, NEW a \in Actions, NEW n \in 0..MostInput, NEW r \in Rooms, Call(a, n, r)
  PROVE  Types'
<1>1. r \in Nat /\ n \in Nat
  BY Numbers, PlanBounds
<1>2. given' = given + n /\ given' \in Nat /\ room' = r /\ action' = a
  BY <1>1 DEF Call, Types, CallTypes
<1>3. marks' \in {marks, marks \union {given'}} /\ mpc' \in {"read", "index"}
  BY DEF Call
<1>4. marks' \in SUBSET Nat
  BY <1>2, <1>3 DEF Types, CallTypes
<1>5. CallTypes'
  BY <1>1, <1>2, <1>4 DEF Types, CallTypes, Call
<1>6. PlaceTypes'
  BY <1>3, MainSteps DEF Types, PlaceTypes, Call, wVars
<1> QED
  BY <1>5, <1>6, TypesKept DEF Types, Call

LEMMA RestartTypes ==
  ASSUME Types, EndEncoder \/ \E m \in Threads : StartStream(m)
  PROVE  Types'
<1>1. /\ given' = 0 /\ marks' = {} /\ action' = "RUN" /\ room' = 0 /\ result' \in {"ok", "none"}
      /\ sequence' = "block" /\ threadError' = FALSE /\ thr' = 0 /\ inPos' = 0 /\ idx' = 1
      /\ mpc' \in {"stop", "exit"} /\ plan' = plan
      /\ UNCHANGED <<initialized, free, written, outq, thrVars, wVars>>
  BY DEF EndEncoder, StartStream
<1>2. stream' \in 0..Len(plan) /\ max' \in 0..MaxThreads
  <2>1. plan \in Plans /\ stream \in 0..Len(plan)
    BY DEF Types, CallTypes
  <2>2. Len(plan) \in Nat
    BY ONLY <2>1, PlanBounds, LenProperties
  <2> QED
    BY <2>1, <2>2, Numbers DEF StartStream, EndEncoder
<1>3. CallTypes'
  <2>1. given' \in Nat /\ room' \in Nat /\ marks' \in SUBSET Nat
    BY ONLY <1>1
  <2>2. action' \in Actions /\ result' \in Results
    BY <1>1, MainSteps
  <2> QED
    BY <1>1, <1>2, <2>1, <2>2 DEF Types, CallTypes
<1>4. CoderTypes'
  <2>1. sequence' \in {"block", "index"} /\ threadError' \in BOOLEAN
    BY ONLY <1>1
  <2>2. inPos' \in Nat /\ thr' \in 0..MaxThreads
    BY ONLY <1>1, Numbers
  <2> QED
    BY <1>1, <1>2, <2>1, <2>2 DEF Types, CoderTypes
<1>5. PlaceTypes'
  BY <1>1, MainSteps DEF Types, PlaceTypes, wVars
<1> QED
  BY <1>1, <1>3, <1>4, <1>5, TypesKept DEF Types

LEMMA AppTypes ==
  ASSUME Types, TimeOut \/ SpuriousWake \/ Stopped
  PROVE  Types'
<1>1. CASE TimeOut
  <2>1. CallTypes' /\ PlaceTypes'
    BY <1>1, MainSteps DEF Types, CallTypes, PlaceTypes, TimeOut, Result, wVars
  <2> QED
    BY <1>1, <2>1, TypesKept DEF Types, TimeOut
<1>2. CASE SpuriousWake
  <2>1. wpc' \in [Threads -> WorkerStates] /\ mpc' \in MainStates
    <3>1. CASE \E w \in 1..initialized : wpc' = Woken(wpc, w) /\ UNCHANGED mpc
      <4>1. PICK w \in Made : wpc' = Woken(wpc, w)
        BY <3>1 DEF Made
      <4> QED
        BY <4>1, <3>1, MadeThreads, Wakes DEF Types, PlaceTypes
    <3>2. CASE mpc' \in {MainWoken, MainWokenBy(idx)} /\ UNCHANGED wpc
      BY <3>2, MainWakes DEF Types, PlaceTypes
    <3> QED
      BY <1>2, <3>1, <3>2 DEF SpuriousWake
  <2>2. PlaceTypes'
    BY <1>2, <2>1 DEF Types, PlaceTypes, SpuriousWake
  <2> QED
    BY <1>2, <2>2, TypesKept DEF Types, SpuriousWake, appVars
<1>3. CASE Stopped
  BY <1>3, TypesKept DEF Types, Stopped, vars, appVars, wVars
<1> QED
  BY <1>1, <1>2, <1>3

LEMMA Deciding ==
  ASSUME Types, Decide
  PROVE  /\ mpc' \in {"app", "index", "work"} /\ sequence' \in {"block", "index"}
         /\ result' \in Results
<1>1. sequence \in {"block", "index"} /\ result \in Results
  BY DEF Types, CallTypes, CoderTypes
<1> QED
  BY <1>1, MainSteps DEF Decide, BeginIndex, Result, Results

LEMMA QuietTypes ==
  ASSUME Types, InDone \/ PopThread \/ BlockError \/ WaitForWork \/ EncodeIndex
  PROVE  Types'
<1>1. CASE InDone
  <2>1. UNCHANGED <<plan, stream, given, marks, action, room, max, initialized,
                    inPos, thr, free, threadError, written, outq, thrVars, idx, wVars>>
    BY <1>1 DEF InDone
  <2>2. CallTypes' /\ CoderTypes' /\ PlaceTypes'
    BY <1>1, <2>1, Deciding, MainSteps DEF Types, CallTypes, CoderTypes, PlaceTypes, InDone, wVars
  <2> QED
    BY <2>1, <2>2, TypesKept DEF Types
<1>2. CASE PopThread
  <2>1. free \in Seq(Threads) /\ free # <<>>
    BY <1>2 DEF Types, CoderTypes, PopThread
  <2>2. Head(free) \in Threads /\ Tail(free) \in Seq(Threads)
    BY ONLY <2>1, HeadTailProperties
  <2>3. thr' \in 0..MaxThreads /\ free' \in Seq(Threads) /\ mpc' \in MainStates
    BY <1>2, <2>2, Numbers, MainSteps DEF PopThread
  <2>4. CoderTypes' /\ PlaceTypes'
    BY <1>2, <2>3 DEF Types, CoderTypes, PlaceTypes, PopThread, wVars
  <2> QED
    BY <1>2, <2>4, TypesKept DEF Types, PopThread, appVars
<1>4. CASE BlockError
  <2>1. mpc' \in MainStates /\ result' \in Results /\ sequence' \in {"block", "index"} /\ idx' \in Nat
    <3>1. CASE threadError
      BY <1>4, <3>1, MainSteps DEF BlockError, Fails, Types, CoderTypes
    <3>2. CASE ~threadError
      BY <1>4, <3>2, MainSteps, Deciding DEF BlockError, Types, PlaceTypes
    <3> QED
      BY <3>1, <3>2
  <2>2. UNCHANGED <<plan, stream, given, marks, action, room, max, initialized,
                    inPos, thr, free, threadError, written, outq, thrVars, wVars>>
    BY <1>4 DEF BlockError
  <2>3. CallTypes' /\ CoderTypes' /\ PlaceTypes'
    BY <2>1, <2>2 DEF Types, CallTypes, CoderTypes, PlaceTypes, wVars
  <2> QED
    BY <2>2, <2>3, TypesKept DEF Types
<1>5. CASE WaitForWork
  <2>1. PlaceTypes'
    BY <1>5, MainSteps DEF WaitForWork, Types, PlaceTypes, wVars
  <2> QED
    BY <1>5, <2>1, TypesKept DEF Types, WaitForWork, appVars
<1>6. CASE EncodeIndex
  <2>1. CallTypes' /\ PlaceTypes'
    BY <1>6, MainSteps DEF EncodeIndex, Result, Types, CallTypes, PlaceTypes, wVars
  <2> QED
    BY <1>6, <2>1, TypesKept DEF Types, EncodeIndex
<1> QED
  BY <1>1, <1>2, <1>4, <1>5, <1>6

LEMMA NewThreadTypes ==
  ASSUME Types, NewThread
  PROVE  Types'
<1>1. UNCHANGED <<plan, stream, given, marks, action, room, max, sequence, inPos, free,
                  threadError, written, outq, lo, inSize, outbuf, wstate, wsize>>
  BY DEF NewThread
<1>2. CASE Fails /\ UNCHANGED <<initialized, thr, state, wpc>>
  <2>1. CallTypes' /\ PlaceTypes'
    BY <1>1, <1>2, MainSteps DEF Types, CallTypes, PlaceTypes, Fails
  <2> QED
    BY <1>1, <1>2, <2>1, TypesKept DEF Types, thrVars
<1>3. CASE ~(Fails /\ UNCHANGED <<initialized, thr, state, wpc>>)
  <2>1. /\ initialized' = initialized + 1 /\ thr' = initialized'
        /\ state' = [state EXCEPT ![thr'] = "IDLE"] /\ wpc' = [wpc EXCEPT ![thr'] = "idle"]
        /\ mpc' = "reset" /\ UNCHANGED <<faults, result, idx>> /\ initialized < max
    BY <1>3 DEF NewThread
  <2>2. initialized' \in 0..MaxThreads /\ thr' \in Threads /\ thr' \in 0..MaxThreads
    BY <2>1, Numbers DEF Types, CoderTypes
  <2>3. CallTypes'
    BY <1>1, <2>1, TypesKept
  <2>4. CoderTypes'
    BY <1>1, <2>2 DEF Types, CoderTypes
  <2>5. ThreadTypes'
    BY <1>1, <2>1, MainSteps DEF Types, ThreadTypes
  <2>6. PlaceTypes'
    BY <1>1, <2>1, MainSteps DEF Types, PlaceTypes
  <2> QED
    BY <1>1, <2>3, <2>4, <2>5, <2>6, TypesKept DEF Types
<1> QED
  BY <1>2, <1>3

(* Where there is a buffer to take, or one to read, is a place in the ring. *)
LEMMA InRing ==
  ASSUME Types, RingOK
  PROVE  /\ HasBuf => bufsPos \in Ring /\ bufsPos < bufsAllocated
         /\ bufsUsed > 0 => Oldest \in Ring /\ bufsPos < bufsAllocated
         /\ \A i \in 0..(bufsAllocated - 1) : i \in Ring
<1>1. bufsPos \in Nat /\ bufsUsed \in Nat /\ bufsAllocated \in Nat /\ MaxThreads \in Nat
  BY Numbers DEF Types, QueueTypes
<1>2. bufsUsed <= bufsAllocated /\ bufsAllocated <= 2 * MaxThreads
      /\ (bufsPos < bufsAllocated \/ bufsPos = 0)
  BY DEF RingOK
<1> QED
  BY <1>1, <1>2 DEF HasBuf, Oldest, Ring

LEMMA ResetThreadTypes ==
  ASSUME Types, RingOK, thr \in Threads, HasBuf, ResetThread
  PROVE  Types'
<1>1. UNCHANGED <<appVars, max, initialized, sequence, inPos, thr, free,
                  threadError, written, idx, wstate, wsize>>
  BY DEF ResetThread
<1>2. ThreadTypes'
  <2>1. bufsPos \in Ring /\ inPos \in Nat /\ 0 \in 0..BlockSize /\ "RUN" \in States
    BY MainSteps, InRing, Numbers DEF Types, CoderTypes
  <2>2. /\ state' = [state EXCEPT ![thr] = "RUN"] /\ lo' = [lo EXCEPT ![thr] = inPos]
        /\ inSize' = [inSize EXCEPT ![thr] = 0] /\ outbuf' = [outbuf EXCEPT ![thr] = bufsPos]
    BY DEF ResetThread, GetBuf
  <2>3. /\ state \in [Threads -> States] /\ lo \in [Threads -> Nat]
        /\ inSize \in [Threads -> 0..BlockSize] /\ outbuf \in [Threads -> Ring]
    BY DEF Types, ThreadTypes
  <2> QED
    BY ONLY <2>1, <2>2, <2>3 DEF ThreadTypes
<1>3. QueueTypes'
  <2>1. [finished |-> "no", block |-> NoBlock] \in [finished : {"unset", "no", "yes"}, block : BlockType]
    BY Blocks
  <2>2. bufsPos \in Ring /\ bufsPos < bufsAllocated
    BY InRing
  <2>3. bufsPos' \in Nat /\ bufsUsed' \in Nat
    BY <2>2 DEF Types, QueueTypes, ResetThread, GetBuf, NextPos
  <2> QED
    BY <2>1, <2>2, <2>3 DEF Types, QueueTypes, ResetThread, GetBuf
<1>4. PlaceTypes'
  <2>1. wpc' \in [Threads -> WorkerStates]
    BY Wakes DEF Types, PlaceTypes, ResetThread
  <2> QED
    BY <1>1, <2>1, MainSteps DEF Types, PlaceTypes, ResetThread
<1> QED
  BY <1>1, <1>2, <1>3, <1>4, TypesKept DEF Types, appVars

(* What there is to put into a block.                                      *)
LEMMA Fits ==
  ASSUME Types, inPos <= given, thr \in Threads
  PROVE  LET n == Min({given - inPos, BlockSize - inSize[thr]})
         IN  /\ n \in Nat /\ n <= given - inPos /\ n <= BlockSize - inSize[thr]
             /\ n = given - inPos \/ n = BlockSize - inSize[thr]
<1>1. given - inPos \in Nat /\ BlockSize - inSize[thr] \in Nat
  BY Numbers DEF Types, CallTypes, CoderTypes, ThreadTypes
<1>2. PICK a, b : a = given - inPos /\ b = BlockSize - inSize[thr]
  OBVIOUS
<1>3. a \in Nat /\ b \in Nat
  BY <1>1, <1>2
<1>4. Min({a, b}) = IF a <= b THEN a ELSE b
  BY <1>3, Smaller
<1> QED
  BY <1>2, <1>3, <1>4

LEMMA PutTypes ==
  ASSUME Types, inPos <= given, thr \in Threads, Put
  PROVE  Types'
<1> DEFINE n == Min({given - inPos, BlockSize - inSize[thr]})
           size == inSize[thr] + n
<1>1. n \in Nat /\ size \in 0..BlockSize /\ inPos + n \in Nat
  <2>1. n \in Nat /\ n <= given - inPos /\ n <= BlockSize - inSize[thr]
    BY Fits
  <2>2. inSize[thr] \in 0..BlockSize /\ inPos \in Nat /\ BlockSize \in Nat
    BY Numbers DEF Types, CoderTypes, ThreadTypes
  <2> HIDE DEF n
  <2> QED
    BY <2>1, <2>2
<1>2. UNCHANGED <<appVars, max, initialized, sequence, free, threadError, written,
                 outq, lo, outbuf, idx, wstate>>
  BY DEF Put
<1>3. inPos' = inPos + n
  BY DEF Put
<1>4. \/ mpc' = "block_error" /\ UNCHANGED <<state, inSize, thr, wpc>>
      \/ /\ inSize' = [inSize EXCEPT ![thr] = size] /\ state' \in {state, [state EXCEPT ![thr] = "FINISH"]}
         /\ wpc' = Woken(wpc, thr) /\ thr' \in {0, thr} /\ UNCHANGED mpc
  BY DEF Put
<1> HIDE DEF n
<1>5. CoderTypes'
  BY <1>1, <1>2, <1>3, <1>4, Numbers DEF Types, CoderTypes
<1>6. ThreadTypes'
  BY <1>1, <1>2, <1>4, MainSteps DEF Types, ThreadTypes
<1>7. PlaceTypes'
  BY <1>2, <1>4, MainSteps, Wakes DEF Types, PlaceTypes
<1> QED
  BY <1>2, <1>5, <1>6, <1>7, TypesKept DEF Types, appVars

(* What main does after reading: it reads on, goes on with the input, or   *)
(* fails.                                                                  *)
AfterRead ==
  \/ mpc' \in {"read", "in"} /\ UNCHANGED <<result, idx>>
  \/ Fails

LEMMA ReadCases ==
  ASSUME Read
  PROVE  /\ mpc = "read" /\ AfterRead
         /\ UNCHANGED <<plan, stream, given, marks, action, max, initialized, sequence,
                        inPos, thr, free, threadError, thrVars, wVars>>
         /\ \/ threadError /\ Fails /\ UNCHANGED <<room, outq, written>>
            \/ /\ ~threadError /\ NothingToRead /\ mpc' = "in"
               /\ UNCHANGED <<room, outq, written, result, idx>>
            \/ ~threadError /\ ~NothingToRead /\ OutqRead
<1>1. EndOfBlock => AfterRead
  BY DEF EndOfBlock, AfterRead
<1> QED
  BY <1>1 DEF Read, AfterRead

LEMMA ReadTypes ==
  ASSUME Types, RingOK, Read
  PROVE  Types'
<1>1. /\ UNCHANGED <<plan, stream, given, marks, action, max, initialized, sequence,
                     inPos, thr, free, threadError, thrVars, wVars>>
      /\ AfterRead
  BY ReadCases
<1>2. CASE Fails /\ UNCHANGED <<room, outq, written>>
  <2>1. CallTypes' /\ PlaceTypes'
    BY <1>1, <1>2, MainSteps DEF Types, CallTypes, PlaceTypes, Fails, wVars
  <2> QED
    BY <1>1, <1>2, <2>1, TypesKept DEF Types
<1>3. CASE mpc' = "in" /\ UNCHANGED <<result, idx, room, outq, written>>
  <2>1. CallTypes' /\ PlaceTypes'
    BY <1>1, <1>3, MainSteps DEF Types, CallTypes, PlaceTypes, wVars
  <2> QED
    BY <1>1, <1>3, <2>1, TypesKept DEF Types
<1>4. CASE OutqRead /\ ~NothingToRead
  <2> DEFINE n == Min({BlockUnits - readPos, room})
  <2>1. BlockUnits - readPos \in Nat /\ room \in Nat
    BY DEF Types, CallTypes, QueueTypes, RingOK, BlockUnits
  <2>2. n \in Nat /\ n <= room /\ n <= BlockUnits - readPos
    <3>1. PICK a, b : a = BlockUnits - readPos /\ b = room
      OBVIOUS
    <3>2. a \in Nat /\ b \in Nat
      BY <2>1, <3>1
    <3>3. Min({a, b}) = IF a <= b THEN a ELSE b
      BY <3>2, Smaller
    <3> QED
      BY <3>1, <3>2, <3>3
  <2>3. room' = room - n /\ UNCHANGED <<bufsAllocated, bufsPos>>
    BY <1>4 DEF OutqRead
  <2>4. \/ /\ bufsUsed' = bufsUsed - 1 /\ readPos' = 0
           /\ bufs' = [bufs EXCEPT ![Oldest].block = NoBlock]
           /\ written' = Append(written, bufs[Oldest].block)
        \/ readPos' = readPos + n /\ UNCHANGED <<bufs, bufsUsed, written>>
    BY <1>4 DEF OutqRead
  <2> HIDE DEF n
  <2>5. bufsUsed > 0 /\ Oldest \in Ring
    BY <1>4, InRing DEF NothingToRead, Types, QueueTypes
  <2>6. CallTypes' /\ PlaceTypes'
    <3>1. result' \in Results /\ mpc' \in MainStates /\ idx' \in Nat
      BY <1>1, MainSteps DEF AfterRead, Fails, Types, CallTypes, PlaceTypes, Results
    <3> QED
      BY <1>1, <2>1, <2>2, <2>3, <3>1 DEF Types, CallTypes, PlaceTypes, wVars
  <2>7. CoderTypes'
    <3>1. written \in Seq(BlockType) /\ bufs[Oldest].block \in BlockType
      BY <2>5 DEF Types, CoderTypes, QueueTypes
    <3>2. Append(written, bufs[Oldest].block) \in Seq(BlockType)
      BY <3>1, AppendProperties
    <3> QED
      BY <1>1, <2>4, <3>1, <3>2 DEF Types, CoderTypes
  <2>8. QueueTypes'
    BY <2>2, <2>3, <2>4, <2>5, Blocks DEF Types, QueueTypes
  <2> QED
    BY <1>1, <2>6, <2>7, <2>8, TypesKept DEF Types
<1> QED
  BY <1>2, <1>3, <1>4, ReadCases

LEMMA StopTypes ==
  ASSUME Types, PhaseOK, TellStop \/ TellExit \/ Settle \/ Join
  PROVE  Types'
<1>1. ASSUME NEW pc, NEW s \in States, NEW after \in {"app", "settle", "join"}, Tell(pc, s, after),
             idx > 0
      PROVE  Types'
  <2>1. UNCHANGED <<appVars, max, initialized, sequence, inPos, thr, free,
                    threadError, written, outq, lo, inSize, outbuf, wstate, wsize>>
    BY <1>1 DEF Tell
  <2>2. CASE idx <= initialized
    <3>1. idx \in Threads
      BY <1>1, <2>2, Numbers DEF Types, PlaceTypes, CoderTypes
    <3>2. /\ state' = [state EXCEPT ![idx] = s] /\ wpc' = Woken(wpc, idx) /\ idx' = idx + 1
          /\ UNCHANGED mpc
      BY <1>1, <2>2 DEF Tell
    <3>3. ThreadTypes' /\ PlaceTypes'
      BY <2>1, <3>1, <3>2, Wakes DEF Types, ThreadTypes, PlaceTypes
    <3> QED
      BY <2>1, <3>3, TypesKept DEF Types, appVars
  <2>3. CASE ~(idx <= initialized)
    <3>1. mpc' = after /\ idx' \in {0, 1} /\ UNCHANGED <<state, wpc>>
      BY <1>1, <2>3 DEF Tell
    <3>2. PlaceTypes'
      BY <2>1, <3>1, MainSteps DEF Types, PlaceTypes
    <3> QED
      BY <2>1, <3>1, <3>2, TypesKept DEF Types, appVars, thrVars
  <2> QED
    BY <2>2, <2>3
<1>2. CASE TellStop \/ TellExit
  <2>1. idx > 0
    BY <1>2 DEF PhaseOK, MainPhase, ThreadPhase, TellStop, TellExit, Tell, Stopping, Ending
  <2> QED
    BY <1>1, <1>2, <2>1, MainSteps DEF TellStop, TellExit
<1>3. CASE Settle
  <2>1. UNCHANGED <<appVars, max, initialized, sequence, inPos, thr, free,
                    threadError, thrVars, wVars>>
    BY <1>3 DEF Settle
  <2>2. CASE idx > initialized
    <3>1. mpc' = "app" /\ idx' = 0 /\ OutqInit(bufs)
      BY <1>3, <2>2 DEF Settle
    <3>2. PlaceTypes'
      BY <2>1, <3>1, MainSteps DEF Types, PlaceTypes, wVars
    <3>3. QueueTypes'
      BY <3>1, MadeThreads DEF Types, QueueTypes, OutqInit
    <3>4. CoderTypes'
      BY <2>1, <3>1, EmptySeq DEF Types, CoderTypes, OutqInit
    <3> QED
      BY <2>1, <3>2, <3>3, <3>4, TypesKept DEF Types, appVars
  <2>3. CASE ~(idx > initialized)
    <3>1. mpc' \in {"settle", "settle_wait"} /\ idx' \in {idx, idx + 1} /\ UNCHANGED <<outq, written>>
      BY <1>3, <2>3 DEF Settle
    <3>2. PlaceTypes'
      BY <2>1, <3>1, MainSteps DEF Types, PlaceTypes, wVars
    <3> QED
      BY <2>1, <3>1, <3>2, TypesKept DEF Types, appVars
  <2> QED
    BY <2>2, <2>3
<1>4. CASE Join
  <2>1. UNCHANGED <<appVars, max, sequence, inPos, thr, threadError, thrVars, wstate, wsize>>
    BY <1>4 DEF Join
  <2>2. CASE idx <= initialized
    <3>1. /\ wpc' = [wpc EXCEPT ![idx] = "none"] /\ idx' = idx + 1
          /\ UNCHANGED <<initialized, free, mpc, outq, written>>
      BY <1>4, <2>2 DEF Join
    <3>2. wpc' \in [Threads -> WorkerStates]
      <4>1. "none" \in WorkerStates
        BY MainSteps
      <4> QED
        BY <3>1, <4>1 DEF Types, PlaceTypes
    <3>3. PlaceTypes'
      BY <2>1, <3>1, <3>2 DEF Types, PlaceTypes
    <3> QED
      BY <2>1, <3>1, <3>3, TypesKept DEF Types, appVars
  <2>3. CASE ~(idx <= initialized)
    <3>1. /\ initialized' = 0 /\ free' = <<>> /\ OutqInit([i \in Ring |-> Unset])
          /\ mpc' = "app" /\ idx' = 0 /\ UNCHANGED wpc
      BY <1>4, <2>3 DEF Join
    <3>2. PlaceTypes'
      BY <2>1, <3>1, MainSteps DEF Types, PlaceTypes
    <3>3. QueueTypes'
      BY <3>1, MadeThreads, <2>1, Blocks DEF Types, QueueTypes, OutqInit, Unset
    <3>4. CoderTypes'
      <4>1. initialized' \in 0..MaxThreads
        BY <3>1, Numbers
      <4> QED
        BY <2>1, <3>1, <4>1, EmptySeq DEF Types, CoderTypes, OutqInit
    <3> QED
      BY <2>1, <3>2, <3>3, <3>4, TypesKept DEF Types, appVars
  <2> QED
    BY <2>2, <2>3
<1> QED
  BY <1>2, <1>3, <1>4

(* What a worker at its block does to itself and to its buffer.            *)
WorkKept == UNCHANGED <<plan, stream, given, marks, action, room, result, max, initialized,
                        sequence, inPos, thr, free, threadError, written, bufsAllocated,
                        bufsPos, bufsUsed, readPos, thrVars, mpc, idx>>

WorkOn(w) ==
  /\ UNCHANGED bufs
  /\ \/ \E s \in {"more_wait", "whole_wait"} : wpc' = [wpc EXCEPT ![w] = s] /\ UNCHANGED wstate
     \/ /\ wstate' = [wstate EXCEPT ![w] = state[w]]
        /\ \/ state[w] = "STOP" /\ wpc' = [wpc EXCEPT ![w] = "settle"]
           \/ state[w] = "EXIT" /\ wpc' = [wpc EXCEPT ![w] = "exited"]
           \/ state[w] \notin {"STOP", "EXIT"}
              /\ \E s \in {"more", "whole", "error"} : wpc' = [wpc EXCEPT ![w] = s]
WorkEnds(w) ==
  /\ wstate' = [wstate EXCEPT ![w] = state[w]] /\ state[w] \notin {"STOP", "EXIT", "RUN"}
  /\ wpc' = [wpc EXCEPT ![w] = "settle"] /\ Encoded(w)

LEMMA WorkCases ==
  ASSUME NEW w \in Threads, WorkerMore(w) \/ WorkerWhole(w)
  PROVE  WorkKept /\ wpc[w] \in {"more", "whole"} /\ (WorkOn(w) \/ WorkEnds(w))
<1>1. CASE WorkerMore(w)
  <2>1. CASE wsize[w] = inSize[w] /\ state[w] = "RUN"
    BY <1>1, <2>1 DEF WorkerMore, WorkKept, WorkOn
  <2>2. CASE ~(wsize[w] = inSize[w] /\ state[w] = "RUN")
    BY <1>1, <2>2 DEF WorkerMore, WorkKept, Leave, Encode, WorkOn, WorkEnds
  <2> QED
    BY <2>1, <2>2
<1>2. CASE WorkerWhole(w)
  BY <1>2 DEF WorkerWhole, WorkKept, Leave, WorkOn, WorkEnds
<1> QED
  BY <1>1, <1>2

LEMMA EncodedTypes ==
  ASSUME Types, NEW w \in Threads, Encoded(w)
  PROVE  bufs' \in [Ring -> [finished : {"unset", "no", "yes"}, block : BlockType]]
<1>1. stream \in Nat
  BY DEF Types, CallTypes
<1>2. lo[w] \in Nat /\ lo[w] + inSize[w] \in Nat
  BY Numbers DEF Types, ThreadTypes
<1> QED
  BY <1>1, <1>2, Blocks DEF Encoded, Types, QueueTypes

LEMMA WorkTypes ==
  ASSUME Types, NEW w \in Threads, WorkerMore(w) \/ WorkerWhole(w)
  PROVE  Types'
<1>1. WorkKept
  BY WorkCases
<1>2. PlaceTypes'
  <2>1. wstate' \in [Threads -> States]
    <3>1. wstate' \in {wstate, [wstate EXCEPT ![w] = state[w]]}
      BY WorkCases DEF WorkOn, WorkEnds
    <3> QED
      BY <3>1 DEF Types, ThreadTypes, PlaceTypes
  <2>2. wpc' \in [Threads -> WorkerStates]
    <3>1. \E s \in {"more_wait", "whole_wait", "settle", "exited", "more", "whole", "error"} :
             wpc' = [wpc EXCEPT ![w] = s]
      BY WorkCases DEF WorkOn, WorkEnds
    <3>2. {"more_wait", "whole_wait", "settle", "exited", "more", "whole", "error"} \subseteq WorkerStates
      BY MainSteps
    <3> QED
      BY <3>1, <3>2 DEF Types, PlaceTypes
  <2> QED
    BY <1>1, <2>1, <2>2 DEF Types, PlaceTypes, WorkKept
<1>3. QueueTypes'
  <2>1. UNCHANGED bufs \/ Encoded(w)
    BY WorkCases DEF WorkOn, WorkEnds
  <2> QED
    BY <1>1, <2>1, EncodedTypes DEF Types, QueueTypes, WorkKept
<1> QED
  BY <1>1, <1>2, <1>3, TypesKept DEF Types, WorkKept

LEMMA WorkerTypes ==
  ASSUME Types, NEW w \in Threads, Worker(w)
  PROVE  Types'
<1>1. CASE WorkerIdle(w)
  <2>1. UNCHANGED <<appVars, max, initialized, sequence, inPos, thr, free,
                    threadError, written, outq, lo, inSize, outbuf, idx>>
    BY <1>1 DEF WorkerIdle
  <2>2. \E s \in States : /\ state' = [state EXCEPT ![w] = s] /\ wstate' = [wstate EXCEPT ![w] = s]
                          /\ mpc' \in {mpc, MainWokenBy(w)}
                          /\ wpc' \in {[wpc EXCEPT ![w] = t] : t \in {"idle_wait", "exited", "more"}}
    <3>1. state[w] \in States /\ "IDLE" \in States
      BY MainSteps DEF Types, ThreadTypes
    <3>2. PICK s : s = IF state[w] = "STOP" THEN "IDLE" ELSE state[w]
      OBVIOUS
    <3>3. PICK t : t = CASE s = "IDLE" -> "idle_wait" [] s = "EXIT" -> "exited" [] OTHER -> "more"
      OBVIOUS
    <3>4. t \in {"idle_wait", "exited", "more"}
      BY <3>3
    <3>5. /\ state' = [state EXCEPT ![w] = s] /\ wstate' = [wstate EXCEPT ![w] = s]
          /\ mpc' \in {mpc, MainWokenBy(w)} /\ wpc' = [wpc EXCEPT ![w] = t]
      BY <1>1, <3>2, <3>3 DEF WorkerIdle
    <3> QED
      BY <3>1, <3>2, <3>4, <3>5
  <2>3. ThreadTypes'
    BY <2>1, <2>2 DEF Types, ThreadTypes
  <2>4. mpc' \in MainStates
    BY <2>2, MainWakes DEF Types, PlaceTypes
  <2>5. {"idle_wait", "exited", "more"} \subseteq WorkerStates
    BY MainSteps
  <2>6. PlaceTypes'
    BY <2>1, <2>2, <2>4, <2>5 DEF Types, PlaceTypes
  <2> QED
    BY <2>1, <2>3, <2>6, TypesKept DEF Types, appVars
<1>2. CASE WorkerMore(w) \/ WorkerWhole(w)
  BY <1>2, WorkTypes
<1>3. CASE WorkerError(w)
  <2>1. UNCHANGED <<appVars, max, initialized, sequence, inPos, thr, free, written,
                    outq, thrVars, idx, wsize>>
    BY <1>3 DEF WorkerError
  <2>2. CoderTypes'
    BY <1>3, <2>1 DEF WorkerError, Types, CoderTypes
  <2>3. mpc' \in MainStates
    BY <1>3, MainWakes DEF WorkerError, Types, PlaceTypes
  <2>4. PlaceTypes'
    BY <1>3, <2>1, <2>3, MainSteps DEF WorkerError, Types, PlaceTypes
  <2> QED
    BY <2>1, <2>2, <2>4, TypesKept DEF Types, appVars
<1>4. CASE WorkerSettle(w)
  <2>1. UNCHANGED <<appVars, max, initialized, sequence, inPos, thr, free,
                    threadError, written, outq, lo, inSize, outbuf, idx, wstate, wsize>>
    BY <1>4 DEF WorkerSettle
  <2>2. ThreadTypes'
    BY <1>4, <2>1, MainSteps DEF WorkerSettle, Types, ThreadTypes
  <2>3. mpc' \in MainStates
    BY <1>4, MainWakes DEF WorkerSettle, Types, PlaceTypes
  <2>4. PlaceTypes'
    BY <1>4, <2>1, <2>3, MainSteps DEF WorkerSettle, Types, PlaceTypes
  <2> QED
    BY <2>1, <2>2, <2>4, TypesKept DEF Types, appVars
<1>5. CASE WorkerReturn(w)
  <2>1. UNCHANGED <<appVars, max, initialized, sequence, inPos, thr, threadError, written,
                    bufsAllocated, bufsPos, bufsUsed, readPos, state, idx>>
    BY <1>5 DEF WorkerReturn
  <2>2. CoderTypes'
    <3>1. free \in Seq(Threads) /\ <<w>> \in Seq(Threads)
      BY DEF Types, CoderTypes
    <3>2. free' \in Seq(Threads)
      BY <1>5, <3>1, ConcatProperties DEF WorkerReturn
    <3> QED
      BY <2>1, <3>2 DEF Types, CoderTypes
  <2>3. QueueTypes'
    BY <1>5, <2>1 DEF WorkerReturn, Types, QueueTypes
  <2>4. ThreadTypes'
    <3>1. 0 \in Ring
      BY Numbers DEF Ring
    <3> QED
      BY <1>5, <2>1, <3>1, Numbers DEF WorkerReturn, Types, ThreadTypes
  <2>5. mpc' \in MainStates
    BY <1>5, MainWakes DEF WorkerReturn, Types, PlaceTypes
  <2>6. PlaceTypes'
    BY <1>5, <2>1, <2>5, MainSteps DEF WorkerReturn, Types, PlaceTypes
  <2> QED
    BY <2>1, <2>2, <2>3, <2>4, <2>6, TypesKept DEF Types, appVars
<1> QED
  BY <1>1, <1>2, <1>3, <1>4, <1>5 DEF Worker

-----------------------------------------------------------------------------
(* The buffers in use, and whose they are                                  *)

LEMMA SlotIsAt == \A k : Slot(k) = SlotAt(bufsPos, bufsUsed, bufsAllocated, k)
BY DEF Slot, SlotAt, Oldest

LEMMA SlotsSame ==
  ASSUME UNCHANGED <<bufsAllocated, bufsPos, bufsUsed>>
  PROVE  Slots' = Slots /\ Oldest' = Oldest /\ \A k : Slot(k)' = Slot(k)
BY DEF Slots, Slot, Oldest

LEMMA SlotsInRing ==
  ASSUME Types, RingOK
  PROVE  /\ Slots \subseteq Ring
         /\ \A j, k \in 1..bufsUsed : Slot(j) = Slot(k) => j = k
         /\ HasBuf => bufsPos \notin Slots
         /\ bufsUsed > 0 => Oldest \in Slots /\ Slot(1) = Oldest
<1>1. bufsPos \in Nat /\ bufsUsed \in Nat /\ bufsAllocated \in Nat /\ bufsUsed <= bufsAllocated
  BY DEF Types, QueueTypes, RingOK
<1>2. CASE bufsUsed > 0
  <2>1. bufsPos < bufsAllocated
    BY <1>2, InRing
  <2>2. /\ \A k \in 1..bufsUsed : Slot(k) \in 0..(bufsAllocated - 1)
        /\ \A j, k \in 1..bufsUsed : Slot(j) = Slot(k) => j = k
        /\ bufsUsed < bufsAllocated => \A k \in 1..bufsUsed : Slot(k) # bufsPos
    BY <1>1, <2>1, SlotsDiffer, SlotIsAt
  <2>3. Slot(1) = Oldest
    <3>1. SlotAt(bufsPos, bufsUsed, bufsAllocated, 1)
            = bufsPos - bufsUsed + (IF bufsPos < bufsUsed THEN bufsAllocated ELSE 0)
      BY <1>1, <1>2, <2>1, OneLess
    <3> QED
      BY <3>1, SlotIsAt DEF Oldest
  <2>4. 1 \in 1..bufsUsed
    BY <1>1, <1>2
  <2> QED
    BY <1>1, <2>2, <2>3, <2>4, InRing DEF Slots, HasBuf
<1>3. CASE ~(bufsUsed > 0)
  BY <1>1, <1>3 DEF Slots
<1> QED
  BY <1>2, <1>3

(* A buffer is taken.                                                      *)
LEMMA SlotTaken ==
  ASSUME Types, RingOK, HasBuf, NEW w, GetBuf(w)
  PROVE  /\ \A k \in 1..bufsUsed : Slot(k)' = Slot(k)
         /\ \A k : k = bufsUsed + 1 => Slot(k)' = bufsPos
         /\ bufsUsed' = bufsUsed + 1
         /\ Slots' = Slots \union {bufsPos}
<1>1. /\ bufsPos \in Nat /\ bufsUsed \in Nat /\ bufsAllocated \in Nat
      /\ bufsUsed < bufsAllocated /\ bufsPos < bufsAllocated
  BY InRing DEF Types, QueueTypes, HasBuf
<1>2. /\ bufsPos' = (IF bufsPos + 1 = bufsAllocated THEN 0 ELSE bufsPos + 1)
      /\ bufsUsed' = bufsUsed + 1 /\ bufsAllocated' = bufsAllocated
  BY DEF GetBuf, NextPos
<1>6. PICK u, q : u = bufsUsed + 1 /\ q = IF bufsPos + 1 = bufsAllocated THEN 0 ELSE bufsPos + 1
  OBVIOUS
<1>3. \A k : Slot(k)' = SlotAt(q, u, bufsAllocated, k)
  BY <1>2, <1>6 DEF Slot, SlotAt, Oldest
<1>4. /\ \A k \in 1..bufsUsed : SlotAt(q, u, bufsAllocated, k)
                                  = SlotAt(bufsPos, bufsUsed, bufsAllocated, k)
      /\ SlotAt(q, u, bufsAllocated, u) = bufsPos
  <2>1. PICK n, p, v : n = bufsAllocated /\ p = bufsPos /\ v = bufsUsed
    OBVIOUS
  <2>2. n \in Nat /\ p \in Nat /\ v \in Nat /\ p < n /\ v < n
    BY <1>1, <2>1
  <2>3. /\ \A k \in 1..v : SlotAt(IF p + 1 = n THEN 0 ELSE p + 1, v + 1, n, k) = SlotAt(p, v, n, k)
        /\ SlotAt(IF p + 1 = n THEN 0 ELSE p + 1, v + 1, n, v + 1) = p
    BY ONLY <2>2, OneMore
  <2> QED
    BY ONLY <1>6, <2>1, <2>3
<1>5. \A k \in 1..bufsUsed : Slot(k)' = Slot(k)
  BY ONLY <1>3, <1>4, SlotIsAt
<1>7. Slot(u)' = bufsPos
  BY ONLY <1>3, <1>4
<1>8. 1..u = 1..bufsUsed \union {u} /\ 1..bufsUsed' = 1..u
  BY <1>1, <1>2, <1>6
<1>9. Slots' = Slots \union {bufsPos}
  <2>1. Slots' = {Slot(k)' : k \in 1..u}
    BY <1>8 DEF Slots
  <2>2. ASSUME NEW i
        PROVE  i \in Slots' <=> i \in Slots \/ i = bufsPos
    <3>1. i \in Slots' <=> (\E k \in 1..bufsUsed : i = Slot(k)') \/ i = Slot(u)'
      BY ONLY <2>1, <1>8
    <3>2. i \in Slots <=> \E k \in 1..bufsUsed : i = Slot(k)
      BY DEF Slots
    <3> QED
      BY ONLY <1>5, <1>7, <3>1, <3>2
  <2> QED
    BY ONLY <2>2
<1> QED
  BY <1>2, <1>5, <1>6, <1>7, <1>9

(* The oldest one is read to its end.                                      *)
LEMMA SlotRead ==
  ASSUME Types, RingOK, bufsUsed > 0, bufsUsed' = bufsUsed - 1,
         UNCHANGED <<bufsAllocated, bufsPos>>
  PROVE  /\ \A k \in 1..(bufsUsed - 1) : Slot(k)' = Slot(k + 1)
         /\ Slots' = Slots \ {Oldest}
<1>1. /\ bufsPos \in Nat /\ bufsUsed \in Nat /\ bufsAllocated \in Nat
      /\ bufsUsed <= bufsAllocated /\ bufsPos < bufsAllocated
  BY InRing DEF Types, QueueTypes, RingOK
<1>2. \A k : Slot(k)' = SlotAt(bufsPos', bufsUsed', bufsAllocated', k)
  BY DEF Slot, SlotAt, Oldest
<1>3. \A k \in 1..(bufsUsed - 1) : Slot(k)' = Slot(k + 1)
  <2>1. \A k \in 1..(bufsUsed - 1) : SlotAt(bufsPos, bufsUsed - 1, bufsAllocated, k)
                                       = SlotAt(bufsPos, bufsUsed, bufsAllocated, k + 1)
    BY <1>1, OneLess
  <2> QED
    BY <2>1, <1>2, SlotIsAt
<1>4. /\ \A j, k \in 1..bufsUsed : Slot(j) = Slot(k) => j = k
      /\ Slot(1) = Oldest
  BY SlotsInRing
<1>5. Slots' \subseteq Slots \ {Oldest}
  <2>1. ASSUME NEW k \in 1..(bufsUsed - 1)
        PROVE  Slot(k + 1) \in Slots /\ Slot(k + 1) # Oldest
    <3>1. k + 1 \in 1..bufsUsed /\ k + 1 # 1 /\ 1 \in 1..bufsUsed
      BY <1>1
    <3> QED
      BY <3>1, <1>4 DEF Slots
  <2>2. Slots' = {Slot(k)' : k \in 1..(bufsUsed - 1)}
    BY DEF Slots
  <2> QED
    BY <2>1, <2>2, <1>3
<1>6. Slots \ {Oldest} \subseteq Slots'
  <2>1. ASSUME NEW k \in 1..bufsUsed, Slot(k) # Oldest
        PROVE  Slot(k) \in Slots'
    <3>1. PICK j : j = k - 1
      OBVIOUS
    <3>2. j \in 1..(bufsUsed - 1) /\ j + 1 = k
      BY <1>1, <1>4, <2>1, <3>1
    <3>3. Slot(j)' = Slot(k)
      BY <1>3, <3>2
    <3> QED
      BY <3>2, <3>3 DEF Slots
  <2>2. PICK S : S = Slots'
    OBVIOUS
  <2>3. \A k \in 1..bufsUsed : Slot(k) # Oldest => Slot(k) \in S
    BY <2>1, <2>2
  <2>4. Slots \ {Oldest} \subseteq S
    BY ONLY <2>3 DEF Slots
  <2> QED
    BY <2>2, <2>4
<1> QED
  BY <1>3, <1>5, <1>6

(* A worker that is somewhere is one of those made, and the buffer of one  *)
(* that has a block is in use, not finished, and nobody else's.            *)
LEMMA WorkerMade ==
  ASSUME Types, PhaseOK, NEW w \in Threads, wpc[w] # "none"
  PROVE  w \in Made
BY MadeThreads, Numbers DEF PhaseOK, MainPhase, ThreadPhase, Made

LEMMA OwnBuffer ==
  ASSUME Types, RingOK, OwnersOK, NEW w \in Made, Owns(w)
  PROVE  /\ outbuf[w] \in Slots /\ outbuf[w] \in Ring /\ bufs[outbuf[w]].finished = "no"
         /\ \A v \in Made : v # w /\ Owns(v) => outbuf[v] # outbuf[w]
BY SlotsInRing DEF OwnersOK

LEMMA Apart ==
  /\ \A a \in Idling : a \notin AtWork
  /\ {"settle", "return"} \subseteq AtWork /\ AtWork \ {"return"} \subseteq AtWork
  /\ "return" \notin Idling
BY DEF Idling, AtWork

(* A worker is as it was, but perhaps awake.                               *)
WorkerKept(w) ==
  /\ SamePlace(wpc[w], wpc'[w]) /\ UNCHANGED <<state[w], wstate[w], lo[w], inSize[w], outbuf[w]>>
  /\ Owns(w) => bufs'[outbuf[w]].block = bufs[outbuf[w]].block

LEMMA SameHolding ==
  ASSUME NEW a \in WorkerStates, NEW b \in WorkerStates, SamePlace(a, b)
  PROVE  /\ a \in AtWork <=> b \in AtWork
         /\ a \in AtWork \ {"return"} <=> b \in AtWork \ {"return"}
         /\ a \in Idling <=> b \in Idling
         /\ a = "return" <=> b = "return"
         /\ a \in {"settle", "return"} <=> b \in {"settle", "return"}
<1>1. "return" \notin Idling \union Encoding /\ "settle" \notin Idling \union Encoding
  BY DEF Idling, Encoding
<1>2. (a = "return" <=> b = "return") /\ (a = "settle" <=> b = "settle")
  BY <1>1 DEF SamePlace
<1> QED
  BY <1>2, SamePlaces DEF SamePlace

LEMMA KeptIsOK ==
  ASSUME Types, Types', NEW w \in Threads, WorkerKept(w)
  PROVE  (Owns(w)' <=> Owns(w)) /\ (WorkerOK(w) => WorkerOK(w)')
<1>1. wpc[w] \in WorkerStates /\ wpc'[w] \in WorkerStates
  BY DEF Types, PlaceTypes
<1>2. /\ wpc[w] \in AtWork <=> wpc'[w] \in AtWork
      /\ wpc[w] \in AtWork \ {"return"} <=> wpc'[w] \in AtWork \ {"return"}
      /\ wpc[w] \in Idling <=> wpc'[w] \in Idling
      /\ wpc[w] = "return" <=> wpc'[w] = "return"
      /\ wpc[w] \in {"settle", "return"} <=> wpc'[w] \in {"settle", "return"}
  BY <1>1, SameHolding DEF WorkerKept
<1>3. Owns(w)' <=> Owns(w)
  BY <1>2 DEF Owns, WorkerKept
<1>4. ASSUME WorkerOK(w) PROVE WorkerOK(w)'
  <2>1. /\ UNCHANGED <<state[w], wstate[w], lo[w], inSize[w], outbuf[w]>>
        /\ Owns(w) => bufs'[outbuf[w]].block = bufs[outbuf[w]].block
    BY DEF WorkerKept
  <2>2. AllBlocks' = AllBlocks
    BY DEF AllBlocks
  <2>3. wpc[w] \in {"settle", "return"} => Owns(w)
    <3>1. {"settle", "return"} \subseteq AtWork
      BY Apart
    <3> QED
      BY ONLY <3>1 DEF Owns
  <2> QED
    BY ONLY <1>2, <1>3, <1>4, <2>1, <2>2, <2>3 DEF WorkerOK
<1> QED
  BY <1>3, <1>4

LEMMA OwnersKept ==
  ASSUME OwnersOK, UNCHANGED <<bufs, bufsAllocated, bufsPos, bufsUsed>>,
         \A w \in Made' : w \in Made /\ (Owns(w)' => Owns(w)) /\ outbuf'[w] = outbuf[w]
  PROVE  OwnersOK'
<1>1. Slots' = Slots
  BY SlotsSame
<1> QED
  BY <1>1 DEF OwnersOK

LEMMA RingKept ==
  ASSUME RingOK, UNCHANGED outq
  PROVE  RingOK'
<1>1. Slots' = Slots /\ AllBlocks' = AllBlocks
  BY SlotsSame DEF outq, AllBlocks
<1> QED
  BY <1>1 DEF RingOK, outq

HoldersOK == RingOK /\ OwnersOK /\ WorkersOK

(* Steps that change neither the ring nor what a worker has.               *)
Quiet ==
  /\ UNCHANGED <<outq, thrVars, wstate, initialized>>
  /\ \A w \in Made : SamePlace(wpc[w], wpc'[w])

LEMMA QuietHolders ==
  ASSUME Types, Types', HoldersOK, Quiet
  PROVE  HoldersOK'
<1>1. Made' = Made /\ Made \subseteq Threads
  BY MadeThreads DEF Quiet, Made
<1>2. \A w \in Made : WorkerKept(w)
  BY DEF Quiet, WorkerKept, outq, thrVars
<1>3. \A w \in Made : (Owns(w)' <=> Owns(w)) /\ (WorkerOK(w) => WorkerOK(w)')
  BY <1>1, <1>2, KeptIsOK
<1>4. OwnersOK'
  BY <1>1, <1>3, OwnersKept DEF HoldersOK, Quiet, outq, thrVars
<1> QED
  BY <1>1, <1>3, <1>4, RingKept DEF HoldersOK, WorkersOK, Quiet

LEMMA QuietIs ==
  ASSUME Types,
         \/ \E a \in Actions, n \in 0..MostInput, r \in Rooms : Call(a, n, r)
         \/ \E m \in Threads : StartStream(m)
         \/ EndEncoder \/ TimeOut \/ SpuriousWake \/ Stopped
         \/ InDone \/ PopThread \/ BlockError \/ WaitForWork \/ EncodeIndex
  PROVE  Quiet
<1>1. CASE SpuriousWake
  <2>1. UNCHANGED <<outq, thrVars, wstate, initialized>>
    BY <1>1 DEF SpuriousWake
  <2>2. CASE \E w \in 1..initialized : wpc' = Woken(wpc, w)
    <3>1. PICK w \in Made : wpc' = Woken(wpc, w)
      BY <2>2 DEF Made
    <3> QED
      BY <2>1, <3>1, Wakes, MadeThreads DEF Quiet, Types, PlaceTypes
  <2>3. CASE UNCHANGED wpc
    BY <2>1, <2>3 DEF Quiet, SamePlace
  <2> QED
    BY <1>1, <2>2, <2>3 DEF SpuriousWake
<1>2. CASE ~SpuriousWake
  <2>1. UNCHANGED <<outq, thrVars, wVars, initialized>>
    BY <1>2 DEF Call, StartStream, EndEncoder, TimeOut, Stopped, InDone, PopThread, BlockError,
                WaitForWork, EncodeIndex, vars
  <2> QED
    BY <2>1 DEF Quiet, SamePlace, wVars
<1> QED
  BY <1>1, <1>2

(* Steps at one worker that take no buffer.                                *)
LEMMA OneWorker ==
  ASSUME Types, Types', HoldersOK, UNCHANGED <<outq, initialized>>, NEW w \in Made,
         outbuf'[w] = outbuf[w], \A v \in Made : v # w => WorkerKept(v),
         Owns(w)' => Owns(w), WorkerOK(w)'
  PROVE  HoldersOK'
<1>1. Made' = Made /\ Made \subseteq Threads
  BY MadeThreads DEF Made
<1>2. \A v \in Made : v # w => (Owns(v)' <=> Owns(v)) /\ (WorkerOK(v) => WorkerOK(v)')
  BY <1>1, KeptIsOK
<1>3. \A v \in Made : outbuf'[v] = outbuf[v]
  BY DEF WorkerKept
<1>4. OwnersOK'
  <2>1. \A v \in Made' : v \in Made /\ (Owns(v)' => Owns(v)) /\ outbuf'[v] = outbuf[v]
    BY <1>1, <1>2, <1>3
  <2> QED
    BY <2>1, OwnersKept DEF HoldersOK, outq
<1>5. WorkersOK'
  BY <1>1, <1>2 DEF HoldersOK, WorkersOK
<1> QED
  BY <1>4, <1>5, RingKept DEF HoldersOK

LEMMA SameIsSame == \A a : SamePlace(a, a)
BY DEF SamePlace

LEMMA TellHolders ==
  ASSUME Types, Types', PhaseOK, HoldersOK, TellStop \/ TellExit
  PROVE  HoldersOK'
<1>1. PICK pc, s, after : s \in {"STOP", "EXIT"} /\ Tell(pc, s, after)
  <2>1. \/ Tell("stop_error", "STOP", "app") \/ Tell("stop", "STOP", "settle")
        \/ Tell("exit", "EXIT", "join")
    BY DEF TellStop, TellExit
  <2>2. "STOP" \in {"STOP", "EXIT"} /\ "EXIT" \in {"STOP", "EXIT"}
    OBVIOUS
  <2> HIDE DEF Tell
  <2> QED
    BY ONLY <2>1, <2>2
<1>2. UNCHANGED <<appVars, max, initialized, sequence, inPos, thr, free,
                  threadError, written, outq, lo, inSize, outbuf, wstate, wsize>>
  BY <1>1 DEF Tell
<1>3. CASE idx <= initialized
  <2>1. idx > 0
    BY DEF PhaseOK, MainPhase, ThreadPhase, TellStop, TellExit, Tell, Stopping, Ending
  <2>2. PICK i \in Made : i = idx
    BY <1>3, <2>1, MadeThreads DEF Types, PlaceTypes, Made
  <2>3. state' = [state EXCEPT ![i] = s] /\ wpc' = Woken(wpc, i) /\ i \in Threads
    BY <1>1, <1>3, <2>2, MadeThreads DEF Tell
  <2>4. \A v \in Threads : SamePlace(wpc[v], wpc'[v])
    BY <2>3, Wakes DEF Types, PlaceTypes
  <2>5. \A v \in Made : v # i => WorkerKept(v)
    BY <1>2, <2>3, <2>4, MadeThreads DEF WorkerKept, Types, ThreadTypes, outq
  <2>6. state'[i] = s /\ state'[i] \notin {"IDLE", "RUN", "FINISH"}
    <3>1. s \notin {"IDLE", "RUN", "FINISH"}
      BY ONLY <1>1
    <3>2. state \in [Threads -> States] /\ i \in Threads
      BY <2>3 DEF Types, ThreadTypes
    <3>3. state'[i] = s
      BY ONLY <2>3, <3>2
    <3> QED
      BY ONLY <3>1, <3>3
  <2>7. wpc[i] \in WorkerStates /\ wpc'[i] \in WorkerStates
    BY <2>3 DEF Types, PlaceTypes
  <2>8. Owns(i)' => Owns(i)
    <3>1. Owns(i)' => wpc'[i] \in AtWork
      BY <2>6 DEF Owns
    <3> QED
      BY <3>1, <2>3, <2>4, <2>7, SamePlaces DEF Owns
  <2>9. WorkerOK(i)'
    <3>1. WorkerOK(i)
      BY <2>2 DEF HoldersOK, WorkersOK
    <3>2. wpc[i] \in {"settle", "return"} <=> wpc'[i] \in {"settle", "return"}
      BY <2>3, <2>4, <2>7, SameHolding
    <3>3. UNCHANGED <<wstate[i], lo[i], inSize[i], outbuf[i], bufs, AllBlocks>>
      BY <1>2 DEF outq, AllBlocks
    <3> QED
      BY ONLY <3>1, <3>2, <3>3, <2>6, <2>8 DEF WorkerOK
  <2> QED
    BY <1>2, <2>2, <2>5, <2>8, <2>9, OneWorker
<1>4. CASE ~(idx <= initialized)
  <2>1. UNCHANGED <<state, wpc>>
    BY <1>1, <1>4 DEF Tell
  <2> QED
    BY <1>2, <2>1, SameIsSame, QuietHolders DEF Quiet, thrVars
<1> QED
  BY <1>3, <1>4

LEMMA SettleHolders ==
  ASSUME Types, Types', PhaseOK, HoldersOK, Settle
  PROVE  HoldersOK'
<1>1. UNCHANGED <<initialized, thrVars, wVars>>
  BY DEF Settle
<1>2. CASE UNCHANGED outq
  BY <1>1, <1>2, SameIsSame, QuietHolders DEF Quiet, wVars
<1>3. CASE idx > initialized /\ OutqInit(bufs)
  <2>1. \A w \in Made : w < idx
    BY <1>3, MadeThreads DEF Made, Types, PlaceTypes
  <2>2. \A w \in Made : state[w] = "IDLE" /\ wpc[w] \in Idling
    BY <2>1 DEF PhaseOK, MainPhase, ThreadPhase, AllFree, Settle, Stopping
  <2>3. \A w \in Made : wpc[w] \notin AtWork
    BY <2>2 DEF Idling, AtWork
  <2>4. \A w \in Made : ~Owns(w)
    BY <2>2, <2>3 DEF Owns
  <2>5. Made' = Made /\ \A w \in Made : ~Owns(w)'
    BY <1>1, <2>4 DEF Made, Owns, thrVars, wVars
  <2>6. OwnersOK'
    BY <2>5 DEF OwnersOK
  <2>7. WorkersOK'
    <3>1. {"settle", "return"} \subseteq AtWork
      BY DEF AtWork
    <3> QED
      BY <1>1, <2>3, <2>5, <3>1 DEF WorkersOK, WorkerOK, wVars
  <2>8. RingOK'
    <3>1. /\ bufsAllocated' = 2 * max /\ bufsPos' = 0 /\ bufsUsed' = 0 /\ readPos' = 0
      BY <1>3 DEF OutqInit
    <3>2. max \in Nat /\ max <= MaxThreads /\ MaxThreads \in Nat
      BY Numbers DEF Types, CoderTypes
    <3>3. Slots' = {}
      BY <3>1 DEF Slots
    <3>4. bufsAllocated' <= 2 * MaxThreads /\ bufsUsed' <= bufsAllocated'
      BY ONLY <3>1, <3>2
    <3> QED
      BY <3>1, <3>3, <3>4 DEF RingOK, BlockUnits
  <2> QED
    BY <2>6, <2>7, <2>8 DEF HoldersOK
<1> QED
  BY <1>2, <1>3 DEF Settle

LEMMA JoinHolders ==
  ASSUME Types, Types', PhaseOK, HoldersOK, Join
  PROVE  HoldersOK'
<1>1. UNCHANGED <<thrVars, wstate, max>>
  BY DEF Join
<1>2. CASE idx <= initialized
  <2>1. idx > 0
    BY DEF PhaseOK, MainPhase, ThreadPhase, Join, Ending
  <2>2. PICK i \in Made : i = idx
    BY <1>2, <2>1, MadeThreads DEF Types, PlaceTypes, Made
  <2>3. wpc' = [wpc EXCEPT ![i] = "none"] /\ i \in Threads /\ UNCHANGED <<initialized, outq>>
    BY <1>2, <2>2, MadeThreads DEF Join
  <2>4. \A v \in Made : v # i => WorkerKept(v)
    BY <1>1, <2>3, MadeThreads, SameIsSame DEF WorkerKept, Types, PlaceTypes, thrVars, outq
  <2>5. wpc'[i] \notin AtWork \union Idling
    BY <2>3 DEF Types, PlaceTypes, AtWork, Idling
  <2>6. ~Owns(i)'
    BY <2>5 DEF Owns
  <2>7. WorkerOK(i)'
    <3>1. {"settle", "return"} \subseteq AtWork
      BY DEF AtWork
    <3> QED
      BY <2>5, <2>6, <3>1 DEF WorkerOK
  <2> QED
    BY <1>1, <2>3, <2>4, <2>6, <2>7, OneWorker DEF thrVars
<1>3. CASE ~(idx <= initialized)
  <2>1. initialized' = 0 /\ OutqInit([i \in Ring |-> Unset])
    BY <1>3 DEF Join
  <2>2. Made' = {}
    BY <2>1 DEF Made
  <2>3. OwnersOK' /\ WorkersOK'
    BY <2>2 DEF OwnersOK, WorkersOK
  <2>4. RingOK'
    <3>1. /\ bufsAllocated' = 2 * max /\ bufsPos' = 0 /\ bufsUsed' = 0 /\ readPos' = 0
      BY <2>1 DEF OutqInit
    <3>2. max \in Nat /\ max <= MaxThreads /\ MaxThreads \in Nat
      BY Numbers DEF Types, CoderTypes
    <3>3. Slots' = {}
      BY <3>1 DEF Slots
    <3>4. bufsAllocated' <= 2 * MaxThreads /\ bufsUsed' <= bufsAllocated'
      BY ONLY <3>1, <3>2
    <3> QED
      BY <3>1, <3>3, <3>4 DEF RingOK, BlockUnits
  <2> QED
    BY <2>3, <2>4 DEF HoldersOK
<1> QED
  BY <1>2, <1>3

LEMMA NewThreadHolders ==
  ASSUME Types, Types', PhaseOK, HoldersOK, NewThread
  PROVE  HoldersOK'
<1>1. UNCHANGED <<outq, lo, inSize, outbuf, wstate>>
  BY DEF NewThread
<1>2. CASE UNCHANGED <<initialized, state, wpc>>
  BY <1>1, <1>2, SameIsSame, QuietHolders DEF Quiet, thrVars
<1>3. CASE ~UNCHANGED <<initialized, state, wpc>>
  <2>1. PICK i : i = initialized'
    OBVIOUS
  <2>2. /\ i = initialized + 1 /\ i \in Threads /\ state' = [state EXCEPT ![i] = "IDLE"]
        /\ wpc' = [wpc EXCEPT ![i] = "idle"]
    BY <1>3, <2>1, Numbers DEF NewThread, Types, CoderTypes
  <2>3. Made' = Made \union {i} /\ i \notin Made /\ Made \subseteq Threads
    BY <2>1, <2>2, MadeThreads DEF Made
  <2>4. \A w \in Made : WorkerKept(w)
    BY <1>1, <2>2, <2>3, SameIsSame DEF WorkerKept, outq, Types, ThreadTypes, PlaceTypes
  <2>5. \A w \in Made : (Owns(w)' <=> Owns(w)) /\ (WorkerOK(w) => WorkerOK(w)')
    BY <2>3, <2>4, KeptIsOK
  <2>6. wpc'[i] = "idle" /\ state'[i] = "IDLE" /\ "idle" \notin AtWork
    BY <2>2 DEF Types, ThreadTypes, PlaceTypes, AtWork
  <2>7. ~Owns(i)'
    BY <2>6 DEF Owns
  <2>8. WorkerOK(i)'
    BY <2>6, <2>7 DEF WorkerOK
  <2>9. OwnersOK'
    <3>1. Slots' = Slots
      BY <1>1, SlotsSame DEF outq
    <3> QED
      BY <1>1, <2>3, <2>5, <2>7, <3>1 DEF OwnersOK, HoldersOK, outq
  <2> QED
    BY <1>1, <2>3, <2>5, <2>8, <2>9, RingKept DEF HoldersOK, WorkersOK
<1> QED
  BY <1>2, <1>3

(* What Put does, with the worker i that it gives n bytes to.              *)
PutAt(i, n) ==
  /\ i = thr /\ n <= given - inPos /\ n <= BlockSize - inSize[i]
  /\ n = given - inPos \/ n = BlockSize - inSize[i]
  /\ inPos' = inPos + n
PutIdle(i) ==
  state[i] = "IDLE" /\ mpc' = "block_error" /\ UNCHANGED <<state, inSize, thr, wpc>>
PutMore(i, n) ==
  /\ state[i] # "IDLE" /\ ~EndsBlock(inSize[i] + n, inPos + n = given) /\ UNCHANGED <<state, thr>>
PutLast(i, n) ==
  /\ state[i] # "IDLE" /\ EndsBlock(inSize[i] + n, inPos + n = given)
  /\ state' = [state EXCEPT ![i] = "FINISH"] /\ thr' = 0

LEMMA PutIs ==
  ASSUME Types, inPos <= given, thr \in Threads, Put
  PROVE  \E i \in Threads, n \in Nat :
           /\ PutAt(i, n)
           /\ \/ PutIdle(i)
              \/ /\ inSize' = [inSize EXCEPT ![i] = inSize[i] + n] /\ wpc' = Woken(wpc, i)
                 /\ mpc' = mpc /\ (PutMore(i, n) \/ PutLast(i, n))
<1> DEFINE n == Min({given - inPos, BlockSize - inSize[thr]})
           size == inSize[thr] + n
           finish == EndsBlock(size, inPos + n = given)
<1>1. /\ n \in Nat /\ n <= given - inPos /\ n <= BlockSize - inSize[thr]
      /\ n = given - inPos \/ n = BlockSize - inSize[thr]
  BY Fits
<1>2. /\ inPos' = inPos + n
      /\ IF state[thr] = "IDLE"
         THEN mpc' = "block_error" /\ UNCHANGED <<state, inSize, thr, wpc>>
         ELSE /\ inSize' = [inSize EXCEPT ![thr] = size]
              /\ state' = IF finish THEN [state EXCEPT ![thr] = "FINISH"] ELSE state
              /\ wpc' = Woken(wpc, thr)
              /\ thr' = IF finish THEN 0 ELSE thr
              /\ UNCHANGED mpc
  BY DEF Put
<1> HIDE DEF n
<1>3. PutAt(thr, n)
  BY <1>1, <1>2 DEF PutAt
<1>4. CASE state[thr] = "IDLE"
  BY <1>1, <1>2, <1>3, <1>4 DEF PutIdle
<1>5. CASE state[thr] # "IDLE"
  <2>1. PutMore(thr, n) \/ PutLast(thr, n)
    BY <1>2, <1>5 DEF PutMore, PutLast
  <2> QED
    BY <1>1, <1>2, <1>3, <1>5, <2>1
<1> QED
  BY <1>4, <1>5

LEMMA PutHolders ==
  ASSUME Types, Types', HoldersOK, thr \in Made, inPos <= given, given <= MostInput,
         \/ state[thr] = "IDLE"
         \/ /\ state[thr] = "RUN" /\ lo[thr] + inSize[thr] = inPos
            /\ inSize[thr] = 0 => InputLeft,
         Put
  PROVE  HoldersOK'
<1>1. UNCHANGED <<appVars, max, initialized, sequence, free, threadError, written,
                  outq, lo, outbuf, idx, wstate>>
  BY DEF Put
<1>2. thr \in Threads
  BY MadeThreads
<1>3. PICK i \in Threads, n \in Nat :
           /\ PutAt(i, n)
           /\ \/ PutIdle(i)
              \/ /\ inSize' = [inSize EXCEPT ![i] = inSize[i] + n] /\ wpc' = Woken(wpc, i)
                 /\ mpc' = mpc /\ (PutMore(i, n) \/ PutLast(i, n))
  BY <1>2, PutIs
<1>4. i = thr /\ i \in Made
  BY <1>3 DEF PutAt
<1>5. CASE PutIdle(i)
  BY <1>1, <1>5, SameIsSame, QuietHolders DEF Quiet, thrVars, PutIdle
<1>6. CASE ~PutIdle(i)
  <2>1. /\ inSize' = [inSize EXCEPT ![i] = inSize[i] + n] /\ wpc' = Woken(wpc, i)
        /\ PutMore(i, n) \/ PutLast(i, n)
    BY <1>3, <1>6
  <2>2. state[i] = "RUN" /\ lo[i] + inSize[i] = inPos /\ (inSize[i] = 0 => InputLeft)
    BY <1>4, <2>1 DEF PutMore, PutLast
  <2>3. \A v \in Threads : SamePlace(wpc[v], wpc'[v])
    BY <2>1, Wakes DEF Types, PlaceTypes
  <2>4. state' \in {state, [state EXCEPT ![i] = "FINISH"]}
    BY <2>1 DEF PutMore, PutLast
  <2>5. \A v \in Made : v # i => WorkerKept(v)
    BY <1>1, <2>1, <2>3, <2>4, MadeThreads DEF WorkerKept, Types, ThreadTypes, outq
  <2>6. state'[i] \in {"RUN", "FINISH"} /\ inSize'[i] = inSize[i] + n
    BY <2>1, <2>2, <2>4 DEF Types, ThreadTypes
  <2>7. wpc[i] \in WorkerStates /\ wpc'[i] \in WorkerStates
    BY DEF Types, PlaceTypes
  <2>8. Owns(i)' => Owns(i)
    BY <2>2, <2>3, <2>7, SameHolding DEF Owns
  <2>9. WorkerOK(i)'
    <3>1. WorkerOK(i) /\ wpc[i] # "return"
      BY <1>4, <2>2 DEF HoldersOK, WorkersOK, WorkerOK
    <3>2. /\ wpc[i] \in {"settle", "return"} <=> wpc'[i] \in {"settle", "return"}
          /\ wpc[i] = "return" <=> wpc'[i] = "return"
      BY <2>3, <2>7, SameHolding
    <3>3. UNCHANGED <<wstate[i], lo[i], outbuf[i], bufs, AllBlocks>>
      BY <1>1 DEF outq, AllBlocks
    <3>4. lo'[i] + inSize'[i] <= MostInput /\ inSize'[i] > 0
      <4>1. n \in Nat /\ n <= given - inPos /\ n <= BlockSize - inSize[i]
            /\ (n = given - inPos \/ n = BlockSize - inSize[i])
        BY <1>3 DEF PutAt
      <4>2. lo[i] \in Nat /\ inSize[i] \in 0..BlockSize /\ given \in Nat /\ inPos \in Nat /\ BlockSize \in Nat \ {0}
            /\ MostInput \in Nat
        BY Numbers, PlanBounds DEF Types, ThreadTypes, CallTypes, CoderTypes
      <4>3. inSize[i] = 0 => given > inPos
        BY <2>2 DEF InputLeft
      <4>4. lo'[i] = lo[i]
        BY <1>1
      <4> QED
        BY ONLY <2>2, <2>6, <4>1, <4>2, <4>3, <4>4, given <= MostInput
    <3>5. state'[i] # "IDLE"
      BY <2>6
    <3> QED
      BY ONLY <3>1, <3>2, <3>3, <3>4, <3>5 DEF WorkerOK
  <2> QED
    BY <1>1, <1>4, <2>5, <2>8, <2>9, OneWorker
<1> QED
  BY <1>5, <1>6

LEMMA ResetThreadHolders ==
  ASSUME Types, Types', HoldersOK, thr \in Made, wpc[thr] \in Idling, inPos <= MostInput, HasBuf,
         ResetThread
  PROVE  HoldersOK'
<1>1. PICK i \in Made : i = thr
  OBVIOUS
<1>2. /\ state' = [state EXCEPT ![i] = "RUN"]
      /\ lo' = [lo EXCEPT ![i] = inPos] /\ inSize' = [inSize EXCEPT ![i] = 0]
      /\ wpc' = Woken(wpc, i) /\ GetBuf(i) /\ UNCHANGED <<wstate, initialized>>
  BY <1>1 DEF ResetThread
<1>3. i \in Threads /\ Made \subseteq Threads /\ Made' = Made
  BY <1>2, MadeThreads DEF Made
<1>4. /\ outbuf' = [outbuf EXCEPT ![i] = bufsPos] /\ UNCHANGED <<bufsAllocated, readPos>>
      /\ bufs' = [bufs EXCEPT ![bufsPos] = [finished |-> "no", block |-> NoBlock]]
  BY <1>2 DEF GetBuf
<1>5. Slots' = Slots \union {bufsPos} /\ bufsUsed' = bufsUsed + 1
  BY <1>2, SlotTaken DEF HoldersOK
<1>6. Slots \subseteq Ring /\ bufsPos \notin Slots /\ bufsPos \in Ring
  BY SlotsInRing, InRing DEF HoldersOK
<1>7. bufs'[bufsPos].finished = "no" /\ \A b \in Slots : bufs'[b] = bufs[b]
  BY <1>4, <1>6 DEF Types, QueueTypes
<1>8. RingOK'
  <2>1. /\ bufsAllocated' <= 2 * MaxThreads /\ bufsUsed' <= bufsAllocated' /\ readPos' < BlockUnits
        /\ bufsPos' < bufsAllocated' \/ bufsPos' = 0
    <3>1. bufsPos \in Nat /\ bufsPos < bufsAllocated /\ bufsAllocated \in Nat /\ bufsUsed \in Nat
      BY InRing DEF Types, QueueTypes, HoldersOK
    <3>2. bufsPos' = IF bufsPos + 1 = bufsAllocated THEN 0 ELSE bufsPos + 1
      BY <1>2 DEF GetBuf, NextPos
    <3> QED
      BY <1>4, <1>5, <3>1, <3>2 DEF RingOK, HoldersOK, HasBuf
  <2>2. AllBlocks' = AllBlocks
    BY DEF AllBlocks
  <2> QED
    BY <1>5, <1>7, <2>1, <2>2 DEF RingOK, HoldersOK
<1>9. \A v \in Made : v # i /\ Owns(v) => outbuf[v] \in Slots
  BY DEF HoldersOK, OwnersOK
<1>10. ASSUME NEW v \in Made, v # i
       PROVE  /\ (Owns(v)' <=> Owns(v)) /\ outbuf'[v] = outbuf[v]
              /\ (Owns(v) => bufs'[outbuf[v]] = bufs[outbuf[v]])
              /\ WorkerOK(v)'
  <2>1. /\ SamePlace(wpc[v], wpc'[v])
        /\ UNCHANGED <<state[v], wstate[v], lo[v], inSize[v], outbuf[v]>>
    BY <1>2, <1>3, <1>4, <1>10, Wakes DEF Types, ThreadTypes, PlaceTypes
  <2>2. Owns(v) => bufs'[outbuf[v]] = bufs[outbuf[v]]
    BY <1>7, <1>9, <1>10
  <2>3. wpc[v] \in WorkerStates /\ wpc'[v] \in WorkerStates
    BY <1>3 DEF Types, PlaceTypes
  <2>4. Owns(v)' <=> Owns(v)
    BY <2>1, <2>3, SameHolding DEF Owns
  <2>5. WorkerOK(v)'
    <3>1. /\ wpc[v] \in AtWork \ {"return"} <=> wpc'[v] \in AtWork \ {"return"}
          /\ wpc[v] = "return" <=> wpc'[v] = "return"
          /\ wpc[v] \in {"settle", "return"} <=> wpc'[v] \in {"settle", "return"}
      BY <2>1, <2>3, SameHolding
    <3>2. wpc[v] \in {"settle", "return"} => Owns(v)
      BY Apart DEF Owns
    <3>3. WorkerOK(v) /\ AllBlocks' = AllBlocks
      BY DEF HoldersOK, WorkersOK, AllBlocks
    <3> QED
      BY ONLY <2>1, <2>2, <2>4, <3>1, <3>2, <3>3 DEF WorkerOK
  <2> QED
    BY <2>1, <2>2, <2>4, <2>5
<1>11. state'[i] = "RUN" /\ lo'[i] = inPos /\ inSize'[i] = 0 /\ outbuf'[i] = bufsPos
  BY <1>2, <1>3, <1>4 DEF Types, ThreadTypes
<1>12. wpc'[i] \in Idling
  BY <1>1, <1>2, <1>3, Wakes DEF SamePlace, Types, PlaceTypes
<1>13. WorkerOK(i)'
  <2>1. wpc'[i] \notin AtWork
    BY <1>12, Apart
  <2>2. lo'[i] + inSize'[i] <= MostInput
    BY <1>11 DEF Types, CoderTypes
  <2> QED
    BY <1>11, <2>1, <2>2, Apart DEF WorkerOK
<1>14. OwnersOK'
  <2>1. \A v \in Made : Owns(v)' => outbuf'[v] \in Slots' /\ bufs'[outbuf'[v]].finished = "no"
    BY <1>5, <1>7, <1>10, <1>11 DEF HoldersOK, OwnersOK
  <2>2. ASSUME NEW v \in Made, NEW w \in Made, v # w, Owns(v)', Owns(w)'
        PROVE  outbuf'[v] # outbuf'[w]
    <3>1. CASE v # i /\ w # i
      BY <1>10, <2>2, <3>1 DEF HoldersOK, OwnersOK
    <3>2. CASE v = i
      BY <1>6, <1>9, <1>10, <1>11, <2>2, <3>2
    <3>3. CASE w = i
      BY <1>6, <1>9, <1>10, <1>11, <2>2, <3>3
    <3> QED
      BY <3>1, <3>2, <3>3
  <2> QED
    BY <1>3, <2>1, <2>2 DEF OwnersOK
<1> QED
  BY <1>3, <1>8, <1>10, <1>13, <1>14 DEF HoldersOK, WorkersOK

(* Reading the oldest buffer: in part, or to its end.                      *)
ReadPart ==
  UNCHANGED <<bufs, bufsUsed, written>> /\ readPos' < BlockUnits
ReadWhole ==
  /\ bufsUsed' = bufsUsed - 1 /\ readPos' = 0
  /\ bufs' = [bufs EXCEPT ![Oldest].block = NoBlock]
  /\ written' = Append(written, bufs[Oldest].block)

LEMMA ReadIs ==
  ASSUME Types, RingOK, OutqRead, ~NothingToRead
  PROVE  /\ bufsUsed > 0 /\ bufs[Oldest].finished = "yes" /\ Oldest \in Slots /\ Oldest \in Ring
         /\ bufs[Oldest].block \in AllBlocks
         /\ UNCHANGED <<bufsAllocated, bufsPos>>
         /\ ReadPart \/ ReadWhole
<1>1. bufsUsed > 0 /\ bufs[Oldest].finished = "yes"
  BY DEF NothingToRead, Types, QueueTypes
<1>2. Oldest \in Slots /\ Oldest \in Ring
  BY <1>1, SlotsInRing
<1> DEFINE n == Min({BlockUnits - readPos, room})
<1>3. n \in Nat /\ n <= BlockUnits - readPos /\ BlockUnits - readPos \in Nat /\ readPos \in Nat
  <2>1. PICK a, b : a = BlockUnits - readPos /\ b = room
    OBVIOUS
  <2>2. a \in Nat /\ b \in Nat /\ readPos \in Nat
    BY <2>1 DEF Types, CallTypes, QueueTypes, RingOK, BlockUnits
  <2>3. Min({a, b}) = IF a <= b THEN a ELSE b
    BY <2>2, Smaller
  <2> QED
    BY <2>1, <2>2, <2>3
<1>4. /\ UNCHANGED <<bufsAllocated, bufsPos>>
      /\ \/ readPos + n = BlockUnits /\ ReadWhole
         \/ readPos + n # BlockUnits /\ readPos' = readPos + n /\ UNCHANGED <<bufs, bufsUsed, written>>
  BY DEF OutqRead, ReadWhole
<1> HIDE DEF n
<1>5. ReadPart \/ ReadWhole
  BY <1>3, <1>4 DEF ReadPart, BlockUnits
<1> QED
  BY <1>1, <1>2, <1>4, <1>5 DEF RingOK

LEMMA ReadHolders ==
  ASSUME Types, Types', HoldersOK, Read
  PROVE  HoldersOK'
<1>1. UNCHANGED <<initialized, thrVars, wVars>>
  BY ReadCases
<1>2. CASE UNCHANGED outq
  BY <1>1, <1>2, SameIsSame, QuietHolders DEF Quiet, wVars
<1>3. CASE OutqRead /\ ~NothingToRead
  <2>1. /\ bufsUsed > 0 /\ bufs[Oldest].finished = "yes" /\ Oldest \in Slots /\ Oldest \in Ring
        /\ UNCHANGED <<bufsAllocated, bufsPos>> /\ (ReadPart \/ ReadWhole)
    BY <1>3, ReadIs DEF HoldersOK
  <2>2. Made' = Made /\ Made \subseteq Threads
    BY <1>1, MadeThreads DEF Made
  <2>3. \A w \in Made : Owns(w)' <=> Owns(w)
    BY <1>1 DEF Owns, thrVars, wVars
  <2>4. CASE ReadPart
    <3>1. Slots' = Slots /\ AllBlocks' = AllBlocks
      BY <2>1, <2>4, SlotsSame DEF ReadPart, AllBlocks
    <3>2. RingOK'
      BY <2>1, <2>4, <3>1 DEF ReadPart, RingOK, HoldersOK
    <3>3. OwnersOK'
      BY <1>1, <2>2, <2>3, <2>4, <3>1 DEF ReadPart, OwnersOK, HoldersOK, thrVars
    <3>4. WorkersOK'
      BY <1>1, <2>2, <2>3, <2>4, <3>1 DEF ReadPart, WorkersOK, WorkerOK, HoldersOK, thrVars, wVars
    <3> QED
      BY <3>2, <3>3, <3>4 DEF HoldersOK
  <2>5. CASE ReadWhole
    <3>1. Slots' = Slots \ {Oldest} /\ AllBlocks' = AllBlocks /\ Slots \subseteq Ring
      BY <2>1, <2>5, SlotRead, SlotsInRing DEF ReadWhole, AllBlocks, HoldersOK
    <3>2. \A i \in Slots' : bufs'[i] = bufs[i]
      BY <2>1, <2>5, <3>1 DEF ReadWhole, Types, QueueTypes
    <3>3. RingOK'
      <4>1. bufsUsed' <= bufsAllocated /\ readPos' < BlockUnits
        BY <2>5 DEF ReadWhole, RingOK, HoldersOK, Types, QueueTypes, BlockUnits
      <4> QED
        BY <2>1, <3>1, <3>2, <4>1 DEF RingOK, HoldersOK
    <3>4. \A w \in Made : Owns(w) => outbuf[w] \in Slots'
      BY <2>1, <3>1 DEF OwnersOK, HoldersOK
    <3>5. OwnersOK'
      BY <1>1, <2>2, <2>3, <3>2, <3>4 DEF OwnersOK, HoldersOK, thrVars
    <3>6. WorkersOK'
      <4>1. ASSUME NEW w \in Made
            PROVE  WorkerOK(w)'
        <5>1. wpc[w] \in {"settle", "return"} => Owns(w)
          BY Apart DEF Owns
        <5>2. WorkerOK(w)
          BY DEF HoldersOK, WorkersOK
        <5>3. UNCHANGED <<thrVars, wVars>> /\ (Owns(w)' <=> Owns(w)) /\ AllBlocks' = AllBlocks
          BY <1>1, <2>3, <3>1
        <5>4. Owns(w) => bufs'[outbuf[w]] = bufs[outbuf[w]]
          BY <3>2, <3>4
        <5> QED
          BY ONLY <5>1, <5>2, <5>3, <5>4 DEF WorkerOK, thrVars, wVars
      <4> QED
        BY <2>2, <4>1 DEF WorkersOK
    <3> QED
      BY <3>3, <3>5, <3>6 DEF HoldersOK
  <2> QED
    BY <2>1, <2>4, <2>5
<1> QED
  BY <1>2, <1>3, ReadCases

(* A worker that has a block writes to its buffer, and may give it up.     *)
LEMMA OneBuffer ==
  ASSUME Types, Types', HoldersOK, NEW w \in Made, Owns(w), outbuf'[w] = outbuf[w] \/ ~Owns(w)',
         UNCHANGED <<bufsAllocated, bufsPos, bufsUsed, readPos, initialized>>,
         \A i \in Ring : i # outbuf[w] => bufs'[i] = bufs[i],
         \A v \in Made : v # w =>
           SamePlace(wpc[v], wpc'[v]) /\ UNCHANGED <<state[v], wstate[v], lo[v], inSize[v], outbuf[v]>>,
         \/ bufs'[outbuf[w]].finished = "no"
         \/ bufs'[outbuf[w]].finished = "yes" /\ bufs'[outbuf[w]].block \in AllBlocks /\ ~Owns(w)',
         WorkerOK(w)'
  PROVE  HoldersOK'
<1>1. Made' = Made /\ Made \subseteq Threads /\ AllBlocks' = AllBlocks
  BY MadeThreads DEF Made, AllBlocks
<1>2. Slots' = Slots /\ Slots \subseteq Ring
  BY SlotsSame, SlotsInRing DEF HoldersOK
<1>3. \A v \in Made : v # w /\ Owns(v) => bufs'[outbuf[v]] = bufs[outbuf[v]]
  BY <1>2 DEF HoldersOK, OwnersOK
<1>4. \A v \in Made : v # w => (Owns(v)' <=> Owns(v)) /\ (WorkerOK(v) => WorkerOK(v)')
  <2>1. \A v \in Made : v # w => WorkerKept(v)
    BY <1>3 DEF WorkerKept
  <2> QED
    BY <1>1, <2>1, KeptIsOK
<1>5. RingOK'
  <2>1. \A i \in Slots : \/ bufs'[i].finished = "no"
                         \/ bufs'[i].finished = "yes" /\ bufs'[i].block \in AllBlocks
    BY <1>2 DEF HoldersOK, RingOK
  <2> QED
    BY <1>1, <1>2, <2>1 DEF HoldersOK, RingOK
<1>6. OwnersOK'
  <2>1. \A v \in Made : v # w /\ Owns(v)' =>
          outbuf'[v] = outbuf[v] /\ outbuf[v] \in Slots /\ bufs'[outbuf[v]].finished = "no"
    BY <1>3, <1>4 DEF HoldersOK, OwnersOK
  <2>2. Owns(w)' => outbuf'[w] = outbuf[w] /\ outbuf[w] \in Slots /\ bufs'[outbuf[w]].finished = "no"
    BY DEF HoldersOK, OwnersOK
  <2>3. \A v, u \in Made : v # u /\ Owns(v)' /\ Owns(u)' => Owns(v) /\ Owns(u)
    BY <1>4
  <2> QED
    BY <1>1, <1>2, <2>1, <2>2, <2>3 DEF HoldersOK, OwnersOK
<1> QED
  BY <1>1, <1>4, <1>5, <1>6 DEF HoldersOK, WorkersOK

LEMMA WorkHolders ==
  ASSUME Types, Types', PhaseOK, HoldersOK, NEW w \in Threads, WorkerMore(w) \/ WorkerWhole(w)
  PROVE  HoldersOK'
<1>1. WorkKept /\ wpc[w] \in {"more", "whole"}
  BY WorkCases
<1>2. w \in Made /\ Owns(w) /\ state[w] # "IDLE" /\ WorkerOK(w)
  <2>1. wpc[w] \in AtWork \ {"return"} /\ wpc[w] # "none"
    BY <1>1 DEF AtWork
  <2>2. w \in Made
    BY <2>1, WorkerMade
  <2>3. WorkerOK(w)
    BY <2>2 DEF HoldersOK, WorkersOK
  <2> QED
    BY <2>1, <2>2, <2>3 DEF Owns, WorkerOK
<1>3. UNCHANGED <<bufsAllocated, bufsPos, bufsUsed, readPos, initialized, thrVars, AllBlocks>>
  BY <1>1 DEF WorkKept, AllBlocks
<1>4. \A v \in Made : v # w =>
        SamePlace(wpc[v], wpc'[v]) /\ UNCHANGED <<state[v], wstate[v], lo[v], inSize[v], outbuf[v]>>
  <2>1. \E s : wpc' = [wpc EXCEPT ![w] = s]
    BY WorkCases DEF WorkOn, WorkEnds
  <2>2. wstate' = wstate \/ wstate' = [wstate EXCEPT ![w] = state[w]]
    BY WorkCases DEF WorkOn, WorkEnds
  <2> QED
    BY <1>3, <2>1, <2>2, SameIsSame, MadeThreads DEF Types, PlaceTypes, thrVars
<1>5. CASE WorkOn(w)
  <2>1. \A v \in Made : v # w => WorkerKept(v)
    BY <1>4, <1>5 DEF WorkerKept, WorkOn
  <2>2. WorkerOK(w)'
    <3>1. \/ wpc'[w] \in {"more_wait", "whole_wait", "more", "whole", "error", "exited"}
          \/ wpc'[w] = "settle" /\ wstate'[w] = "STOP"
      <4>1. wpc[w] \in {"more", "whole"} /\ wpc \in [Threads -> WorkerStates]
            /\ wstate \in [Threads -> States]
        BY <1>1 DEF Types, PlaceTypes
      <4> QED
        BY <1>5, <4>1 DEF WorkOn
    <3>2. {"more_wait", "whole_wait", "more", "whole", "error", "settle"} \subseteq AtWork \ {"return"}
          /\ "exited" \notin AtWork \union Idling
      BY DEF AtWork, Idling
    <3>3. wpc'[w] \in AtWork => wpc'[w] \in AtWork \ {"return"}
      BY <3>1, <3>2
    <3>4. lo[w] + inSize[w] <= MostInput /\ (state[w] = "FINISH" => inSize[w] > 0)
      BY <1>2 DEF WorkerOK
    <3> QED
      BY <1>2, <1>3, <3>1, <3>3, <3>4 DEF WorkerOK, thrVars
  <2> QED
    BY <1>2, <1>3, <1>5, <2>1, <2>2, OneWorker DEF outq, thrVars, WorkOn
<1>6. CASE WorkEnds(w)
  <2>1. state[w] = "FINISH"
    BY <1>2, <1>6 DEF Types, ThreadTypes, States, WorkEnds
  <2>2. wpc'[w] = "settle" /\ wstate'[w] = "FINISH" /\ "settle" \in AtWork
    BY <1>6, <2>1 DEF Types, PlaceTypes, AtWork, WorkEnds
  <2>3. BlockOf(stream, lo[w], lo[w] + inSize[w]) \in AllBlocks
    <3>1. stream \in 1..MostStreams
      <4>1. stream > 0 /\ plan \in Plans /\ stream \in 0..Len(plan)
        BY <1>2, MadeThreads DEF PhaseOK, MainPhase, ThreadPhase, Made, Types, CallTypes
      <4>2. Len(plan) <= MostStreams /\ MostStreams \in Nat /\ Len(plan) \in Nat
        BY <4>1, PlanBounds, LenProperties
      <4> QED
        BY <4>1, <4>2
    <3>2. lo[w] + inSize[w] <= MostInput /\ inSize[w] > 0
      BY <1>2, <2>1 DEF WorkerOK
    <3>3. lo[w] \in Nat /\ inSize[w] \in Nat
      BY Numbers DEF Types, ThreadTypes
    <3>4. lo[w] \in 0..MostInput /\ lo[w] + inSize[w] \in 1..MostInput
      BY ONLY <3>2, <3>3, PlanBounds
    <3> QED
      BY <3>1, <3>4 DEF AllBlocks
  <2>4. /\ bufs'[outbuf[w]].block \in AllBlocks /\ bufs'[outbuf[w]].finished = "no"
        /\ \A i \in Ring : i # outbuf[w] => bufs'[i] = bufs[i]
    <3>1. outbuf[w] \in Ring /\ bufs[outbuf[w]].finished = "no"
      BY <1>2, OwnBuffer DEF HoldersOK
    <3> QED
      BY <1>6, <2>3, <3>1 DEF Encoded, Types, QueueTypes, WorkEnds
  <2>5. WorkerOK(w)'
    <3>1. lo[w] + inSize[w] <= MostInput /\ (state[w] = "FINISH" => inSize[w] > 0)
      BY <1>2 DEF WorkerOK
    <3> QED
      BY <1>2, <1>3, <2>1, <2>2, <2>4, <3>1 DEF WorkerOK, thrVars
  <2>6. outbuf'[w] = outbuf[w]
    BY <1>3 DEF thrVars
  <2> QED
    BY <1>2, <1>3, <1>4, <2>4, <2>5, <2>6, OneBuffer
<1> QED
  BY <1>5, <1>6, WorkCases

LEMMA IdleHolders ==
  ASSUME Types, Types', PhaseOK, HoldersOK, NEW w \in Threads, WorkerIdle(w)
  PROVE  HoldersOK'
<1>1. PICK s : s = IF state[w] = "STOP" THEN "IDLE" ELSE state[w]
  OBVIOUS
<1>2. PICK t : t = CASE s = "IDLE" -> "idle_wait" [] s = "EXIT" -> "exited" [] OTHER -> "more"
  OBVIOUS
<1>3. /\ wpc[w] = "idle" /\ state' = [state EXCEPT ![w] = s] /\ wstate' = [wstate EXCEPT ![w] = s]
      /\ wpc' = [wpc EXCEPT ![w] = t] /\ UNCHANGED <<outq, lo, inSize, outbuf, initialized>>
  BY <1>1, <1>2 DEF WorkerIdle
<1>4. w \in Made
  BY <1>3, WorkerMade
<1>5. state'[w] = s /\ wstate'[w] = s /\ wpc'[w] = t
  BY <1>3 DEF Types, ThreadTypes, PlaceTypes
<1>6. \/ s = "IDLE" /\ t = "idle_wait"
      \/ s = "EXIT" /\ t = "exited"
      \/ s = state[w] /\ s \in {"RUN", "FINISH"} /\ t = "more"
  <2>1. state[w] \in {"IDLE", "RUN", "FINISH", "STOP", "EXIT"}
    BY DEF Types, ThreadTypes, States
  <2> QED
    BY ONLY <1>1, <1>2, <2>1
<1>7. /\ "idle" \in Idling /\ "idle_wait" \in Idling /\ "idle_wait" \notin AtWork
      /\ "exited" \notin Idling \union AtWork /\ "more" \in AtWork \ {"return"}
  BY DEF Idling, AtWork
<1>8. \A v \in Made : v # w => WorkerKept(v)
  BY <1>3, SameIsSame, MadeThreads DEF WorkerKept, outq, Types, ThreadTypes, PlaceTypes
<1>9. Owns(w)' => Owns(w)
  BY <1>3, <1>5, <1>6, <1>7 DEF Owns
<1>10. WorkerOK(w)'
  <2>1. WorkerOK(w)
    BY <1>4 DEF HoldersOK, WorkersOK
  <2>2. Owns(w)' => s = state[w] /\ s \in {"RUN", "FINISH"}
    BY <1>5, <1>6, <1>7 DEF Owns
  <2>3. wpc'[w] \notin {"settle", "return"}
    BY <1>5, <1>6
  <2>4. wpc'[w] \in AtWork \ {"return"} => state'[w] # "IDLE"
    BY <1>5, <1>6, <1>7
  <2> QED
    BY <1>3, <1>5, <1>9, <2>1, <2>2, <2>3, <2>4 DEF WorkerOK
<1> QED
  BY <1>3, <1>4, <1>8, <1>9, <1>10, OneWorker

LEMMA ErrorHolders ==
  ASSUME Types, Types', PhaseOK, HoldersOK, NEW w \in Threads, WorkerError(w) \/ WorkerSettle(w)
  PROVE  HoldersOK'
<1>1. /\ wpc[w] \in {"error", "settle"} /\ UNCHANGED <<outq, lo, inSize, outbuf, initialized>>
      /\ \/ /\ wpc' = [wpc EXCEPT ![w] = "settle"] /\ wstate' = [wstate EXCEPT ![w] = "STOP"]
            /\ UNCHANGED state
         \/ /\ wpc[w] = "settle" /\ wpc' = [wpc EXCEPT ![w] = "return"] /\ UNCHANGED wstate
            /\ \/ state[w] = "EXIT" /\ UNCHANGED state
               \/ state' = [state EXCEPT ![w] = "IDLE"]
  BY DEF WorkerError, WorkerSettle, thrVars
<1>2. {"error", "settle", "return"} \subseteq AtWork
  BY DEF AtWork
<1>3. w \in Made /\ Owns(w) /\ state[w] # "IDLE" /\ WorkerOK(w)
  <2>1. wpc[w] \in AtWork \ {"return"} /\ wpc[w] # "none"
    BY <1>1, <1>2
  <2>2. w \in Made
    BY <2>1, WorkerMade
  <2>3. WorkerOK(w)
    BY <2>2 DEF HoldersOK, WorkersOK
  <2> QED
    BY <2>1, <2>2, <2>3 DEF Owns, WorkerOK
<1>4. \A v \in Made : v # w => WorkerKept(v)
  BY <1>1, SameIsSame, MadeThreads DEF WorkerKept, outq, Types, ThreadTypes, PlaceTypes
<1>5. /\ wpc'[w] = "settle" /\ wstate'[w] = "STOP" /\ state'[w] = state[w]
      \/ /\ wpc[w] = "settle" /\ wpc'[w] = "return" /\ wstate'[w] = wstate[w]
         /\ state'[w] \in {"EXIT", "IDLE"}
  BY <1>1 DEF Types, ThreadTypes, PlaceTypes
<1>6. WorkerOK(w)'
  <2>1. UNCHANGED <<lo[w], inSize[w], outbuf[w], bufs, AllBlocks>>
    BY <1>1 DEF outq, AllBlocks
  <2>2. /\ lo[w] + inSize[w] <= MostInput /\ (state[w] = "FINISH" => inSize[w] > 0)
        /\ wpc[w] = "settle" => wstate[w] \in {"FINISH", "STOP"}
        /\ wpc[w] = "settle" /\ wstate[w] = "FINISH" => bufs[outbuf[w]].block \in AllBlocks
    BY <1>3 DEF WorkerOK
  <2> QED
    BY <1>3, <1>5, <2>1, <2>2 DEF WorkerOK
<1> QED
  BY <1>1, <1>3, <1>4, <1>6, OneWorker

LEMMA ReturnHolders ==
  ASSUME Types, Types', PhaseOK, HoldersOK, NEW w \in Threads, WorkerReturn(w)
  PROVE  HoldersOK'
<1>1. /\ wpc[w] = "return"
      /\ bufs' = [bufs EXCEPT ![outbuf[w]].finished = IF wstate[w] = "FINISH" THEN "yes" ELSE "no"]
      /\ wpc' = [wpc EXCEPT ![w] = "idle"] /\ wstate' = [wstate EXCEPT ![w] = "IDLE"]
      /\ lo' = [lo EXCEPT ![w] = 0] /\ inSize' = [inSize EXCEPT ![w] = 0]
      /\ outbuf' = [outbuf EXCEPT ![w] = 0]
      /\ UNCHANGED <<bufsAllocated, bufsPos, bufsUsed, readPos, initialized, state>>
  BY DEF WorkerReturn
<1>2. "return" \in AtWork /\ "idle" \in Idling /\ "idle" \notin AtWork /\ "return" # "none"
  BY DEF AtWork, Idling
<1>3. w \in Made /\ Owns(w) /\ state[w] \notin {"RUN", "FINISH"} /\ WorkerOK(w)
  <2>1. w \in Made
    BY <1>1, <1>2, WorkerMade
  <2>2. WorkerOK(w)
    BY <2>1 DEF HoldersOK, WorkersOK
  <2> QED
    BY <1>1, <1>2, <2>1, <2>2 DEF Owns, WorkerOK
<1>4. wpc'[w] = "idle" /\ state'[w] = state[w]
  BY <1>1 DEF Types, PlaceTypes
<1>5. ~Owns(w)'
  BY <1>2, <1>3, <1>4 DEF Owns
<1>6. WorkerOK(w)'
  BY <1>2, <1>4, <1>5 DEF WorkerOK
<1>7. \A v \in Made : v # w =>
        SamePlace(wpc[v], wpc'[v]) /\ UNCHANGED <<state[v], wstate[v], lo[v], inSize[v], outbuf[v]>>
  BY <1>1, SameIsSame, MadeThreads DEF Types, PlaceTypes, ThreadTypes
<1>8. /\ \A i \in Ring : i # outbuf[w] => bufs'[i] = bufs[i]
      /\ \/ bufs'[outbuf[w]].finished = "no"
         \/ bufs'[outbuf[w]].finished = "yes" /\ bufs'[outbuf[w]].block \in AllBlocks
  <2>1. outbuf[w] \in Ring
    BY DEF Types, ThreadTypes
  <2>2. wstate[w] = "FINISH" => bufs[outbuf[w]].block \in AllBlocks
    BY <1>1, <1>3 DEF WorkerOK
  <2> QED
    BY <1>1, <2>1, <2>2 DEF Types, QueueTypes
<1> QED
  BY <1>1, <1>3, <1>5, <1>6, <1>7, <1>8, OneBuffer

-----------------------------------------------------------------------------
(* Where main is                                                           *)

Calling == {"read", "in", "reset", "block_error", "work", "work_wait", "index"}

LEMMA Places ==
  /\ \A m \in Calling : m \notin Ending \union Stopping \union {"app", "stop_error"}
  /\ "app" \notin Ending \union Stopping /\ "stop_error" \notin Ending \union Stopping
  /\ \A m \in Stopping : m \notin Ending
  /\ \A m \in MainStates : m \in Calling \union Ending \union Stopping \union {"app", "stop_error"}
BY DEF Calling, Ending, Stopping, MainStates

(* A step of a call: main goes on, or returns, or fails.                   *)
InCallStep ==
  Read \/ InDone \/ PopThread \/ NewThread \/ ResetThread \/ Put \/ BlockError
  \/ WaitForWork \/ EncodeIndex \/ TimeOut

MainGoesOn ==
  /\ mpc \in Calling /\ UNCHANGED <<plan, stream, given, marks, action, max>>
  /\ \/ mpc' \in Calling /\ UNCHANGED result
     \/ mpc' = "app" /\ result' \in {"ok", "end", "timed_out", "error"}
     \/ mpc' = "stop_error" /\ result' = "error" /\ idx' = 1

LEMMA Decided ==
  ASSUME Decide
  PROVE  \/ mpc' \in {"index", "work"} /\ UNCHANGED result
         \/ mpc' = "app" /\ result' \in {"ok", "end", "error"}
BY DEF Decide, BeginIndex, Result

LEMMA CallGoesOn ==
  ASSUME Types, RingOK, InCallStep
  PROVE  MainGoesOn
<1>1. {"index", "work", "work_wait", "in", "read", "reset", "block_error"} \subseteq Calling
  BY DEF Calling
<1>2. CASE Read
  BY <1>1, <1>2, ReadCases DEF AfterRead, Fails, MainGoesOn
<1>3. CASE InDone
  BY <1>1, <1>3, Decided DEF InDone, MainGoesOn
<1>4. CASE PopThread
  BY <1>1, <1>4 DEF PopThread, MainGoesOn, appVars
<1>5. CASE NewThread
  BY <1>1, <1>5 DEF NewThread, MainGoesOn, Fails
<1>6. CASE ResetThread
  BY <1>1, <1>6 DEF ResetThread, MainGoesOn, appVars
<1>7. CASE Put
  <2>1. mpc = "in" /\ mpc' \in {"in", "block_error"} /\ UNCHANGED <<appVars, max>>
    BY <1>7 DEF Put
  <2> QED
    BY <1>1, <2>1 DEF MainGoesOn, appVars
<1>8. CASE BlockError
  <2>1. CASE threadError
    BY <1>1, <1>8, <2>1 DEF BlockError, Fails, MainGoesOn
  <2>2. CASE ~threadError
    BY <1>1, <1>8, <2>2, Decided DEF BlockError, MainGoesOn
  <2> QED
    BY <2>1, <2>2
<1>9. CASE WaitForWork
  <2>1. mpc = "work" /\ mpc' \in {"read", "work_wait"} /\ UNCHANGED <<appVars, max>>
    BY <1>9 DEF WaitForWork
  <2> QED
    BY <1>1, <2>1 DEF MainGoesOn, appVars
<1>10. CASE EncodeIndex
  BY <1>1, <1>10 DEF EncodeIndex, MainGoesOn, Result
<1>11. CASE TimeOut
  BY <1>1, <1>11 DEF TimeOut, MainGoesOn, Result
<1> QED
  BY <1>2, <1>3, <1>4, <1>5, <1>6, <1>7, <1>8, <1>9, <1>10, <1>11 DEF InCallStep

LEMMA CallMainPhase ==
  ASSUME Types, MainPhase, MainGoesOn
  PROVE  MainPhase'
<1>1. mpc \in Calling /\ mpc \notin Ending \union Stopping \union {"app", "stop_error"}
  BY Places DEF MainGoesOn
<1>2. max > 0 /\ stream > 0 /\ result # "error" /\ UNCHANGED <<max, stream>> /\ max \in Nat
  BY <1>1 DEF MainPhase, MainGoesOn, Types, CoderTypes
<1>3. mpc' \notin Ending \union Stopping
  BY Places DEF MainGoesOn
<1>4. /\ mpc' = "stop_error" => result' = "error" /\ idx' = 1
      /\ result' = "error" => mpc' \in {"stop_error", "app"}
  BY <1>2, Places DEF MainGoesOn
<1> QED
  BY <1>2, <1>3, <1>4 DEF MainPhase

(* A worker may wake main; what main has is left alone.                    *)
SameMain ==
  /\ \/ mpc' = mpc
     \/ mpc = "work_wait" /\ mpc' = "work"
     \/ mpc = "settle_wait" /\ mpc' = "settle"
  /\ UNCHANGED <<plan, stream, given, marks, action, room, result, max, initialized, sequence,
                 inPos, thr, written, bufsAllocated, bufsPos, bufsUsed, readPos, idx>>

LEMMA WorkerLeavesMain ==
  ASSUME (\E w \in Threads : Worker(w)) \/ SpuriousWake
  PROVE  SameMain
<1>1. /\ MainWoken = mpc \/ (mpc = "work_wait" /\ MainWoken = "work")
      /\ \A w : MainWokenBy(w) = mpc \/ (mpc = "settle_wait" /\ MainWokenBy(w) = "settle")
  BY DEF MainWoken, MainWokenBy
<1>2. CASE SpuriousWake
  <2>1. mpc' \in {mpc, MainWoken, MainWokenBy(idx)}
    BY <1>2 DEF SpuriousWake
  <2> QED
    BY <1>1, <1>2, <2>1 DEF SpuriousWake, SameMain, appVars, outq
<1>3. ASSUME NEW w \in Threads, Worker(w)
      PROVE  SameMain
  <2>1. CASE WorkerIdle(w)
    <3>1. mpc' \in {mpc, MainWokenBy(w)}
      BY <2>1 DEF WorkerIdle
    <3> QED
      BY <1>1, <2>1, <3>1 DEF WorkerIdle, SameMain, appVars, outq
  <2>2. CASE WorkerMore(w) \/ WorkerWhole(w)
    BY <2>2, WorkCases DEF WorkKept, SameMain
  <2>3. CASE WorkerError(w)
    BY <1>1, <2>3 DEF WorkerError, SameMain, appVars, outq
  <2>4. CASE WorkerSettle(w)
    <3>1. mpc' \in {mpc, MainWokenBy(w)}
      BY <2>4 DEF WorkerSettle
    <3> QED
      BY <1>1, <2>4, <3>1 DEF WorkerSettle, SameMain, appVars, outq
  <2>5. CASE WorkerReturn(w)
    BY <1>1, <2>5 DEF WorkerReturn, SameMain, appVars
  <2> QED
    BY <1>3, <2>1, <2>2, <2>3, <2>4, <2>5 DEF Worker
<1> QED
  BY <1>2, <1>3

LEMMA WorkerMainPhase ==
  ASSUME MainPhase, SameMain
  PROVE  MainPhase'
<1>1. /\ mpc' \in Ending <=> mpc \in Ending
      /\ mpc' \in Stopping <=> mpc \in Stopping
      /\ mpc' \in {"app"} <=> mpc \in {"app"}
      /\ mpc' = "stop_error" <=> mpc = "stop_error"
  BY DEF SameMain, Ending, Stopping
<1>2. UNCHANGED <<stream, given, marks, action, result, max, initialized, sequence, inPos, thr, idx>>
  BY DEF SameMain
<1> QED
  BY <1>1, <1>2 DEF MainPhase

LEMMA AppMainPhase ==
  ASSUME Types, MainPhase,
         \/ \E a \in Actions, n \in 0..MostInput, r \in Rooms : Call(a, n, r)
         \/ \E m \in Threads : StartStream(m)
         \/ EndEncoder \/ Stopped
  PROVE  MainPhase'
<1>1. CASE \E a \in Actions, n \in 0..MostInput, r \in Rooms : Call(a, n, r)
  <2>1. PICK a \in Actions, n \in 0..MostInput, r \in Rooms : Call(a, n, r)
    BY <1>1
  <2>2. mpc' \in Calling /\ result # "error" /\ max > 0 /\ UNCHANGED <<stream, result, max>>
    BY <2>1 DEF Call, Calling
  <2>3. mpc' \notin Ending \union Stopping \union {"app", "stop_error"}
    BY <2>2, Places
  <2> QED
    BY <2>2, <2>3 DEF MainPhase, Types, CoderTypes
<1>2. CASE EndEncoder \/ \E m \in Threads : StartStream(m)
  <2>1. /\ given' = 0 /\ marks' = {} /\ action' = "RUN"
        /\ sequence' = "block" /\ thr' = 0 /\ inPos' = 0 /\ idx' = 1 /\ mpc' \in {"stop", "exit"}
    BY <1>2 DEF EndEncoder, StartStream
  <2>2. /\ mpc' = "stop" => max' > 0
        /\ result' \in {"ok", "none"} /\ (max' > 0 => result' = "ok")
        /\ max' > 0 \/ initialized' > 0 => stream' > 0
    <3>1. CASE EndEncoder
      BY <3>1, MadeThreads DEF EndEncoder, MainPhase
    <3>2. CASE \E m \in Threads : StartStream(m)
      BY <3>2, Numbers DEF StartStream, Types, CallTypes
    <3> QED
      BY <1>2, <3>1, <3>2
  <2>3. "stop" \notin Ending /\ "exit" \in Ending /\ "exit" \notin Stopping
    BY DEF Ending, Stopping
  <2> QED
    BY <2>1, <2>2, <2>3 DEF MainPhase
<1>3. CASE Stopped
  BY <1>3 DEF Stopped, vars, appVars, MainPhase
<1> QED
  BY <1>1, <1>2, <1>3

LEMMA StopMainPhase ==
  ASSUME Types, MainPhase, TellStop \/ TellExit \/ Settle \/ Join
  PROVE  MainPhase'
<1>1. idx > 0 /\ max \in Nat /\ idx \in Nat
  BY DEF MainPhase, TellStop, TellExit, Tell, Settle, Join, Stopping, Ending, Types, CoderTypes, PlaceTypes
<1>2. UNCHANGED <<stream, given, marks, action, result, max, sequence, inPos, thr>>
  BY DEF TellStop, TellExit, Tell, Settle, Join, appVars
<1>3. CASE TellStop \/ TellExit
  <2>1. \/ mpc' = mpc /\ idx' = idx + 1
        \/ mpc = "stop_error" /\ mpc' = "app"
        \/ mpc = "stop" /\ mpc' = "settle" /\ idx' = 1
        \/ mpc = "exit" /\ mpc' = "join" /\ idx' = 1
    BY <1>3 DEF TellStop, TellExit, Tell
  <2>2. initialized' = initialized /\ mpc \in {"stop_error", "stop", "exit"}
    BY <1>3 DEF TellStop, TellExit, Tell
  <2>3. /\ mpc' \in Ending => mpc \in Ending
        /\ mpc' \in Stopping => mpc \in Stopping
        /\ mpc' = "stop_error" => mpc = "stop_error"
        /\ mpc = "stop_error" => mpc \notin Ending \union {"app"}
        /\ mpc' \in {"app", "stop_error"} => mpc = "stop_error"
        /\ mpc \in Ending \union Stopping \/ mpc = "stop_error"
        /\ mpc \in Ending => mpc' \in Ending
        /\ mpc # "app" /\ mpc \in Ending \union Stopping => result # "error"
    BY <2>1, <2>2 DEF Ending, Stopping, MainPhase
  <2>4. idx' > 0 \/ mpc' = "app"
    BY <1>1, <2>1
  <2> QED
    BY <1>1, <1>2, <2>1, <2>2, <2>3, <2>4, Places DEF MainPhase
<1>4. CASE Settle
  <2>1. mpc \in Stopping /\ max > 0
    BY <1>4 DEF Settle, MainPhase, Stopping
  <2>2. \/ mpc' = "app"
        \/ mpc' \in {"settle", "settle_wait"} /\ idx' \in {idx, idx + 1}
    BY <1>4 DEF Settle
  <2>3. initialized' = initialized /\ mpc' \notin Ending /\ result # "error" /\ mpc' # "stop_error"
    BY <1>4, <2>1, <2>2 DEF Settle, Ending, MainPhase
  <2> QED
    BY <1>1, <1>2, <2>1, <2>2, <2>3, Places DEF MainPhase
<1>5. CASE Join
  <2>1. mpc \in Ending /\ result # "error"
    BY <1>5 DEF Join, MainPhase, Ending
  <2>2. \/ mpc' = "app" /\ initialized' = 0
        \/ mpc' = mpc /\ initialized' = initialized /\ idx' = idx + 1
    BY <1>5 DEF Join
  <2>3. mpc' # "stop_error" /\ mpc' \notin Stopping
    BY <2>1, <2>2, Places
  <2> QED
    BY <1>1, <1>2, <2>1, <2>2, <2>3, Places DEF MainPhase
<1> QED
  BY <1>3, <1>4, <1>5

LEMMA NonePlace == \A b : SamePlace("none", b) => b = "none"
BY DEF SamePlace, Idling, Encoding

LEMMA IdlingPlace == \A a, b : SamePlace(a, b) => (a \in Idling <=> b \in Idling)
BY DEF SamePlace

LEMMA CallThreadPhase ==
  ASSUME Types, RingOK, ThreadPhase, InCallStep, ResetThread => thr \in Threads
  PROVE  ThreadPhase'
<1>1. mpc' \notin Stopping \union {"settle", "settle_wait", "join"}
  BY CallGoesOn, Places DEF MainGoesOn, Stopping, Ending
<1>2. \A w \in Threads : w > initialized' => wpc'[w] = "none"
  <2>1. CASE UNCHANGED <<wpc, initialized>>
    BY <2>1 DEF ThreadPhase
  <2>2. CASE UNCHANGED initialized /\ wpc' = Woken(wpc, thr) /\ thr \in Threads
    BY <2>2, Wakes, NonePlace DEF ThreadPhase, Types, PlaceTypes
  <2>3. CASE NewThread /\ ~UNCHANGED initialized
    <3>1. initialized' = initialized + 1 /\ wpc' = [wpc EXCEPT ![initialized'] = "idle"]
      BY <2>3 DEF NewThread
    <3>2. PICK i : i = initialized'
      OBVIOUS
    <3>3. wpc' = [wpc EXCEPT ![i] = "idle"] /\ i = initialized + 1
      BY <3>1, <3>2
    <3>4. \A w \in Threads : w > i => w > initialized /\ w # i
      <4>1. initialized \in Nat /\ MaxThreads \in Nat
        BY MadeThreads
      <4> QED
        BY ONLY <3>3, <4>1, Numbers
    <3> QED
      BY <3>2, <3>3, <3>4 DEF ThreadPhase, Types, PlaceTypes
  <2>4. \/ UNCHANGED <<wpc, initialized>>
        \/ UNCHANGED initialized /\ wpc' = Woken(wpc, thr) /\ thr \in Threads
        \/ NewThread /\ ~UNCHANGED initialized
    <3>1. CASE NewThread
      BY <3>1, MadeThreads DEF NewThread
    <3>2. CASE ResetThread
      BY <3>2 DEF ResetThread
    <3>3. CASE Put
      <4>1. thr \in Threads
        BY <3>3, Numbers DEF Put, Types, CoderTypes
      <4> QED
        BY <3>3, <4>1 DEF Put
    <3>4. CASE Read \/ InDone \/ PopThread \/ BlockError \/ WaitForWork \/ EncodeIndex \/ TimeOut
      BY <3>4, ReadCases DEF InDone, PopThread, BlockError, WaitForWork, EncodeIndex, TimeOut, wVars
    <3> QED
      BY <3>1, <3>2, <3>3, <3>4 DEF InCallStep
  <2> QED
    BY <2>1, <2>2, <2>3, <2>4
<1> QED
  BY <1>1, <1>2 DEF ThreadPhase

LEMMA QuietThreadPhase ==
  ASSUME Types, Types', ThreadPhase, SpuriousWake
  PROVE  ThreadPhase'
<1>1. SameMain /\ Quiet /\ free' = free
  BY WorkerLeavesMain, QuietIs DEF SpuriousWake
<1>2. /\ mpc' \in Stopping <=> mpc \in Stopping
      /\ mpc' \in {"settle", "settle_wait"} <=> mpc \in {"settle", "settle_wait"}
      /\ mpc' = "join" <=> mpc = "join"
  BY <1>1 DEF SameMain, Stopping
<1>3. Made' = Made /\ Made \subseteq Threads /\ UNCHANGED <<initialized, idx, state>>
  BY <1>1, MadeThreads DEF Made, SameMain, Quiet, thrVars
<1>4. \A w \in Made : SamePlace(wpc[w], wpc'[w])
  BY <1>1 DEF Quiet
<1>5. \A w \in Threads : w > initialized => wpc'[w] = "none"
  <2>1. wpc' = wpc \/ \E w \in Made : wpc' = Woken(wpc, w)
    BY DEF SpuriousWake, Made
  <2>2. \A w \in Made, v \in Threads : SamePlace(wpc[v], Woken(wpc, w)[v])
    BY <1>3, Wakes DEF Types, PlaceTypes
  <2> QED
    BY <2>1, <2>2, NonePlace DEF ThreadPhase
<1>6. mpc' \in Stopping => AllFree' /\ \A w \in Made' : state'[w] \in {"IDLE", "STOP"}
  BY <1>1, <1>2, <1>3, <1>4, IdlingPlace DEF ThreadPhase, AllFree
<1>7. mpc' = "join" => \A w \in Made' : w < idx' => wpc'[w] = "none"
  BY <1>2, <1>3, <1>4, NonePlace DEF ThreadPhase
<1>8. mpc' \in {"settle", "settle_wait"} => \A w \in Made' : w < idx' => state'[w] = "IDLE"
  BY <1>2, <1>3 DEF ThreadPhase
<1> QED
  BY <1>3, <1>5, <1>6, <1>7, <1>8 DEF ThreadPhase

LEMMA WorkerThreadPhase ==
  ASSUME Types, Types', ThreadPhase, NEW w \in Threads, Worker(w)
  PROVE  ThreadPhase'
<1>1. SameMain
  BY WorkerLeavesMain
<1>2. /\ mpc' \in Stopping <=> mpc \in Stopping
      /\ mpc' \in {"settle", "settle_wait"} <=> mpc \in {"settle", "settle_wait"}
      /\ mpc' = "join" <=> mpc = "join"
  BY <1>1 DEF SameMain, Stopping
<1>3. Made' = Made /\ Made \subseteq Threads /\ UNCHANGED <<initialized, idx>>
  BY <1>1, MadeThreads DEF Made, SameMain
<1>4. wpc[w] \in {"idle"} \union AtWork
  BY DEF Worker, WorkerIdle, WorkerMore, WorkerWhole, WorkerError, WorkerSettle, WorkerReturn, AtWork
<1>5. w \in Made
  <2>1. "none" \notin {"idle"} \union AtWork
    BY DEF AtWork
  <2>2. ~(w > initialized)
    BY <1>4, <2>1 DEF ThreadPhase
  <2> QED
    BY <2>2, MadeThreads, Numbers DEF Made
<1>6. \E t : wpc' = [wpc EXCEPT ![w] = t]
  <2>1. CASE WorkerMore(w) \/ WorkerWhole(w)
    BY <2>1, WorkCases DEF WorkOn, WorkEnds
  <2>2. CASE WorkerIdle(w)
    BY <2>2 DEF WorkerIdle
  <2>3. CASE WorkerError(w) \/ WorkerSettle(w) \/ WorkerReturn(w)
    BY <2>3 DEF WorkerError, WorkerSettle, WorkerReturn
  <2> QED
    BY <2>1, <2>2, <2>3 DEF Worker
<1>7. \A v \in Threads : v # w => wpc'[v] = wpc[v]
  BY <1>6 DEF Types, PlaceTypes
<1>8. \A v \in Threads : v > initialized => wpc'[v] = "none"
  BY <1>5, <1>7, MadeThreads DEF ThreadPhase, Made
<1>9. mpc' = "join" => \A v \in Made : v < idx => wpc'[v] = "none"
  <2>1. "none" \notin {"idle"} \union AtWork
    BY DEF AtWork
  <2> QED
    BY <1>2, <1>3, <1>4, <1>5, <1>7, <2>1 DEF ThreadPhase
<1>10. CASE mpc \in Stopping
  <2>1. AllFree /\ \A v \in Made : state[v] \in {"IDLE", "STOP"}
    BY <1>10 DEF ThreadPhase
  <2>2. wpc[w] \notin AtWork
    BY <1>5, <2>1, Apart DEF AllFree
  <2>3. WorkerIdle(w)
    BY <2>2 DEF Worker, WorkerMore, WorkerWhole, WorkerError, WorkerSettle, WorkerReturn, AtWork
  <2>4. state' = [state EXCEPT ![w] = "IDLE"] /\ wpc' = [wpc EXCEPT ![w] = "idle_wait"] /\ free' = free
    <3>1. state[w] \in {"IDLE", "STOP"}
      BY <1>5, <2>1
    <3>2. (IF state[w] = "STOP" THEN "IDLE" ELSE state[w]) = "IDLE"
      BY <3>1
    <3> QED
      BY <2>3, <3>2 DEF WorkerIdle
  <2>5. AllFree'
    <3>1. "idle_wait" \in Idling
      BY DEF Idling
    <3> QED
      BY <1>3, <2>1, <2>4, <3>1 DEF AllFree, Types, PlaceTypes
  <2>6. /\ \A v \in Made : state'[v] \in {"IDLE", "STOP"}
        /\ \A v \in Made : state[v] = "IDLE" => state'[v] = "IDLE"
    BY <1>3, <2>1, <2>4 DEF Types, ThreadTypes
  <2> QED
    BY <1>2, <1>3, <1>8, <1>9, <2>5, <2>6 DEF ThreadPhase
<1>11. CASE mpc \notin Stopping
  <2>1. mpc' \notin Stopping \union {"settle", "settle_wait"}
    BY <1>2, <1>11 DEF Stopping
  <2> QED
    BY <1>3, <1>8, <1>9, <2>1 DEF ThreadPhase
<1> QED
  BY <1>10, <1>11

(* At the end of a stream the ring is empty, and so every thread is free.  *)
LEMMA NobodyOwns ==
  ASSUME Types, HoldersOK, bufsUsed = 0
  PROVE  \A w \in Made : ~Owns(w)
BY DEF HoldersOK, OwnersOK, Slots

LEMMA EndIsFree ==
  ASSUME Types, HoldersOK, LiveOK, mpc = "app", max > 0, result = "end", action = "FINISH"
  PROVE  AllFree /\ \A w \in Made : state[w] = "IDLE"
<1>1. Live
  BY DEF Live, Streaming
<1>2. FreeOK /\ bufsUsed = 0
  BY <1>1 DEF LiveOK, IndexOK
<1>3. ASSUME NEW w \in Made
      PROVE  state[w] = "IDLE" /\ wpc[w] \in Idling /\ w \in Range(free)
  <2>1. ~Owns(w)
    BY <1>2, NobodyOwns
  <2>2. state[w] \in {"IDLE", "RUN", "FINISH"} /\ wpc[w] \in Idling \union AtWork
    BY <1>2 DEF FreeOK, Placed
  <2>3. wpc[w] \in Idling /\ wpc[w] \notin AtWork /\ state[w] = "IDLE"
    BY <2>1, <2>2 DEF Owns
  <2>4. ~Busy(w)
    BY <2>3, Apart DEF Busy
  <2> QED
    BY <1>2, <2>3, <2>4 DEF FreeOK, Placed
<1> QED
  BY <1>2, <1>3 DEF AllFree, FreeOK

LEMMA AppThreadPhase ==
  ASSUME Types, HoldersOK, ThreadPhase, LiveOK, Reuses \subseteq {"end"},
         \/ \E a \in Actions, n \in 0..MostInput, r \in Rooms : Call(a, n, r)
         \/ \E m \in Threads : StartStream(m)
         \/ EndEncoder \/ Stopped
  PROVE  ThreadPhase'
<1>1. CASE \E a \in Actions, n \in 0..MostInput, r \in Rooms : Call(a, n, r)
  <2>1. mpc' \in Calling /\ UNCHANGED <<wpc, initialized>>
    BY <1>1 DEF Call, Calling, wVars
  <2>2. mpc' \notin Stopping \union {"settle", "settle_wait", "join"}
    BY <2>1, Places DEF Stopping, Ending
  <2> QED
    BY <2>1, <2>2 DEF ThreadPhase
<1>2. CASE Stopped
  BY <1>2 DEF Stopped, vars, outq, thrVars, wVars, ThreadPhase, AllFree, Made
<1>3. CASE EndEncoder
  <2>1. mpc' = "exit" /\ UNCHANGED <<wpc, initialized>>
    BY <1>3 DEF EndEncoder, wVars
  <2>2. "exit" \notin Stopping
    BY DEF Stopping
  <2> QED
    BY <2>1, <2>2 DEF ThreadPhase
<1>4. CASE \E m \in Threads : StartStream(m)
  <2>1. PICK m \in Threads : StartStream(m)
    BY <1>4
  <2>2. UNCHANGED <<wpc, initialized, free, state>> /\ mpc = "app"
    BY <2>1 DEF StartStream, thrVars, wVars
  <2>3. CASE m # max
    <3>1. mpc' = "exit" /\ "exit" \notin Stopping
      BY <2>1, <2>3 DEF StartStream, Stopping
    <3> QED
      BY <2>2, <3>1 DEF ThreadPhase
  <2>4. CASE m = max
    <3>0. Situation \in Reuses /\ mpc' = "stop"
      BY <2>1, <2>4 DEF StartStream
    <3>1. Situation = "end" /\ max > 0 /\ mpc' = "stop"
      <4>1. max > 0
        BY <2>4, Numbers
      <4> QED
        BY <3>0, <4>1
    <3>2. result = "end" /\ action = "FINISH"
      BY <3>1 DEF Situation
    <3>3. AllFree /\ \A w \in Made : state[w] = "IDLE"
      BY <2>2, <3>1, <3>2, EndIsFree
    <3>4. AllFree' /\ \A w \in Made' : state'[w] = "IDLE"
      BY <2>2, <3>3 DEF AllFree, Made
    <3> QED
      BY <2>2, <3>1, <3>4 DEF ThreadPhase
  <2> QED
    BY <2>3, <2>4
<1> QED
  BY <1>1, <1>2, <1>3, <1>4

LEMMA StopThreadPhase ==
  ASSUME Types, Types', MainPhase, ThreadPhase, TellStop \/ TellExit \/ Settle \/ Join
  PROVE  ThreadPhase'
<1>1. idx > 0 /\ max \in Nat /\ idx \in Nat
  BY DEF MainPhase, TellStop, TellExit, Tell, Settle, Join, Stopping, Ending, Types, CoderTypes, PlaceTypes
<1>2. CASE TellStop \/ TellExit
  <2>1. UNCHANGED <<initialized, free>> /\ Made' = Made /\ Made \subseteq Threads
    BY <1>2, MadeThreads DEF TellStop, TellExit, Tell, Made
  <2>2. PICK i : i = idx
    OBVIOUS
  <2>3. \/ /\ mpc' = mpc /\ idx' = i + 1 /\ i \in Made /\ wpc' = Woken(wpc, i)
           /\ mpc \in {"stop_error", "exit"} \/ (mpc = "stop" /\ state' = [state EXCEPT ![i] = "STOP"])
        \/ UNCHANGED <<state, wpc>> /\ mpc' = "app"
        \/ UNCHANGED <<state, wpc>> /\ mpc = "stop" /\ mpc' = "settle" /\ idx' = 1
        \/ UNCHANGED <<state, wpc>> /\ mpc' = "join" /\ idx' = 1
    BY <1>1, <1>2, <2>2, MadeThreads DEF TellStop, TellExit, Tell, Made
  <2>4. /\ {"stop", "settle", "settle_wait"} = Stopping
        /\ {"stop_error", "exit", "join", "app"} \cap Stopping = {}
    BY DEF Stopping
  <2>5. CASE mpc' = mpc /\ idx' = i + 1 /\ i \in Made /\ wpc' = Woken(wpc, i)
             /\ (mpc \in {"stop_error", "exit"} \/ (mpc = "stop" /\ state' = [state EXCEPT ![i] = "STOP"]))
    <3>1. \A v \in Threads : SamePlace(wpc[v], wpc'[v])
      BY <2>1, <2>5, Wakes DEF Types, PlaceTypes
    <3>2. \A v \in Threads : v > initialized' => wpc'[v] = "none"
      BY <2>1, <3>1, NonePlace DEF ThreadPhase
    <3>3. mpc' \notin {"settle", "settle_wait", "join"}
      BY <2>5
    <3>4. mpc' \in Stopping => AllFree' /\ \A w \in Made' : state'[w] \in {"IDLE", "STOP"}
      <4>1. CASE mpc = "stop"
        <5>1. AllFree /\ \A w \in Made : state[w] \in {"IDLE", "STOP"}
          BY <2>4, <4>1 DEF ThreadPhase
        <5>2. AllFree'
          BY <2>1, <3>1, <5>1, IdlingPlace DEF AllFree
        <5>3. state' = [state EXCEPT ![i] = "STOP"]
          BY <2>5, <4>1
        <5>4. \A w \in Made' : state'[w] \in {"IDLE", "STOP"}
          BY <2>1, <5>1, <5>3 DEF Types, ThreadTypes
        <5> QED
          BY <5>2, <5>4
      <4>2. CASE mpc # "stop"
        BY <2>4, <2>5, <4>2
      <4> QED
        BY <4>1, <4>2
    <3> QED
      BY <3>2, <3>3, <3>4 DEF ThreadPhase
  <2>6. CASE UNCHANGED <<state, wpc>> /\ mpc' = "app"
    BY <2>1, <2>4, <2>6 DEF ThreadPhase
  <2>7. CASE UNCHANGED <<state, wpc>> /\ mpc = "stop" /\ mpc' = "settle" /\ idx' = 1
    <3>1. \A w \in Made : ~(w < 1)
      BY MadeThreads DEF Made
    <3> QED
      BY <2>1, <2>4, <2>7, <3>1 DEF ThreadPhase, AllFree
  <2>8. CASE UNCHANGED <<state, wpc>> /\ mpc' = "join" /\ idx' = 1
    <3>1. \A w \in Made : ~(w < 1)
      BY MadeThreads DEF Made
    <3> QED
      BY <2>1, <2>4, <2>8, <3>1 DEF ThreadPhase
  <2> QED
    BY <2>3, <2>5, <2>6, <2>7, <2>8
<1>3. CASE Settle
  <2>1. /\ UNCHANGED <<initialized, free, state, wpc>> /\ Made' = Made /\ Made \subseteq Threads
        /\ mpc = "settle"
    BY <1>3, MadeThreads DEF Settle, Made, thrVars, wVars
  <2>2. PICK i : i = idx
    OBVIOUS
  <2>3. \/ mpc' = "app"
        \/ mpc' = "settle" /\ i \in Made /\ state[i] = "IDLE" /\ idx' = i + 1
        \/ mpc' = "settle_wait" /\ idx' = i
    BY <1>1, <1>3, <2>2, MadeThreads DEF Settle, Made
  <2>4. "settle" \in Stopping /\ "app" \notin Stopping
    BY DEF Stopping
  <2>5. /\ AllFree' /\ \A w \in Made' : state'[w] \in {"IDLE", "STOP"}
        /\ \A w \in Made : w < i => state[w] = "IDLE"
    BY <2>1, <2>2, <2>4 DEF ThreadPhase, AllFree
  <2>6. mpc' \in {"settle", "settle_wait"} => \A w \in Made' : w < idx' => state'[w] = "IDLE"
    <3>1. ASSUME NEW w \in Made, w < i + 1
          PROVE  w < i \/ w = i
      BY <1>1, <2>2, <3>1, MadeThreads DEF Made
    <3> QED
      BY <2>1, <2>3, <2>5, <3>1
  <2> QED
    BY <2>1, <2>3, <2>4, <2>5, <2>6 DEF ThreadPhase
<1>4. CASE Join
  <2>1. PICK i : i = idx
    OBVIOUS
  <2>2. CASE mpc' = "app" /\ initialized' = 0 /\ UNCHANGED wpc
    <3>0. mpc = "join" /\ ~(idx <= initialized)
      BY <1>4, <2>2 DEF Join
    <3>1. \A w \in Threads : wpc'[w] = "none"
      <4>1. \A w \in Made : wpc[w] = "none"
        BY <1>1, <3>0, MadeThreads DEF ThreadPhase, Made
      <4>2. \A w \in Threads : w \in Made \/ w > initialized
        BY MadeThreads, Numbers DEF Made
      <4> QED
        BY <2>2, <4>1, <4>2 DEF ThreadPhase
    <3>2. "app" \notin Stopping
      BY DEF Stopping
    <3> QED
      BY <2>2, <3>1, <3>2 DEF ThreadPhase
  <2>3. CASE mpc = "join" /\ mpc' = "join" /\ idx' = i + 1 /\ i \in Made /\ wpc' = [wpc EXCEPT ![i] = "none"]
             /\ UNCHANGED initialized
    <3>1. Made' = Made /\ Made \subseteq Threads
      BY <2>3, MadeThreads DEF Made
    <3>2. \A w \in Made : w < i + 1 => w < i \/ w = i
      BY <1>1, <2>1, MadeThreads DEF Made
    <3>3. \A w \in Made : w < i + 1 => wpc'[w] = "none"
      BY <2>1, <2>3, <3>1, <3>2 DEF ThreadPhase, Types, PlaceTypes
    <3>4. \A w \in Threads : w > initialized => wpc'[w] = "none"
      BY <2>3, <3>1 DEF ThreadPhase, Types, PlaceTypes
    <3>5. "join" \notin Stopping
      BY DEF Stopping
    <3> QED
      BY <2>3, <3>1, <3>3, <3>4, <3>5 DEF ThreadPhase
  <2> QED
    BY <1>1, <1>4, <2>1, <2>2, <2>3, MadeThreads DEF Join, Made
<1> QED
  BY <1>2, <1>3, <1>4

-----------------------------------------------------------------------------
(* While a stream is encoded without error                                 *)

LEMMA BusySame ==
  ASSUME Types, Types', NEW w \in Threads, SamePlace(wpc[w], wpc'[w]), state'[w] = state[w]
  PROVE  /\ Busy(w)' <=> Busy(w)
         /\ wpc'[w] \in Idling \union AtWork <=> wpc[w] \in Idling \union AtWork
         /\ wpc'[w] = "settle" <=> wpc[w] = "settle"
         /\ wpc'[w] = "return" <=> wpc[w] = "return"
<1>1. wpc[w] \in WorkerStates /\ wpc'[w] \in WorkerStates
  BY DEF Types, PlaceTypes
<1>2. /\ wpc[w] \in AtWork <=> wpc'[w] \in AtWork
      /\ wpc[w] \in Idling <=> wpc'[w] \in Idling
      /\ wpc[w] = "return" <=> wpc'[w] = "return"
      /\ wpc[w] \in {"settle", "return"} <=> wpc'[w] \in {"settle", "return"}
  BY <1>1, SameHolding
<1> QED
  BY <1>2 DEF Busy

(* A worker that main leaves where it is.                                  *)
LEMMA PlacedSame ==
  ASSUME Types, Types', NEW w \in Threads, SamePlace(wpc[w], wpc'[w]),
         UNCHANGED <<state[w], wstate[w], threadError>>, w \in Range(free') <=> w \in Range(free),
         (mpc' = "reset" /\ thr' = w) <=> (mpc = "reset" /\ thr = w), Placed(w)
  PROVE  Placed(w)'
BY BusySame DEF Placed

LEMMA FreeSame ==
  ASSUME Types, Types', FreeOK, UNCHANGED <<state, wstate, threadError, free, initialized>>,
         \A w \in Made : SamePlace(wpc[w], wpc'[w]),
         \A w \in Made : (mpc' = "reset" /\ thr' = w) <=> (mpc = "reset" /\ thr = w)
  PROVE  FreeOK'
<1>1. Made' = Made /\ Made \subseteq Threads
  BY MadeThreads DEF Made
<1>2. \A w \in Made : Placed(w)'
  BY <1>1, PlacedSame DEF FreeOK
<1> QED
  BY <1>1, <1>2 DEF FreeOK

(* A call of the application.                                              *)
LEMMA CallLive ==
  ASSUME Types, Types', LiveOK, NEW a \in Actions, NEW n \in 0..MostInput, NEW r \in Rooms,
         Call(a, n, r)
  PROVE  LiveOK'
<1>1. /\ mpc = "app" /\ max > 0 /\ given + n <= plan[stream].input /\ given' = given + n
      /\ \/ result \in {"ok", "timed_out"} /\ (action = "RUN" \/ (a = action /\ n = 0))
         \/ result = "end" /\ action # "FINISH"
      /\ action' = a /\ marks' = (IF a = "RUN" THEN marks ELSE marks \union {given'})
      /\ mpc' = (IF sequence = "block" THEN "read" ELSE "index")
      /\ UNCHANGED <<plan, stream, result, initialized, sequence, inPos, thr, free,
                     threadError, bufsUsed, wpc, state, wstate, lo, inSize>>
  BY DEF Call, outq, thrVars, wVars
<1>2. Live
  BY <1>1 DEF Live, Streaming
<1>3. InputOK /\ FreeOK /\ ThrOK /\ IndexOK
  BY <1>2 DEF LiveOK
<1>4. n \in Nat /\ given \in Nat /\ inPos \in Nat /\ action \in Actions /\ sequence \in {"block", "index"}
  BY PlanBounds DEF Types, CallTypes, CoderTypes
<1>5. InputOK'
  <2>1. inPos' <= given' /\ given' <= plan'[stream'].input
    BY <1>1, <1>3, <1>4 DEF InputOK
  <2>2. marks' \subseteq 0..given' /\ (action' # "RUN" => given' \in marks')
    <3>1. 0..given \subseteq 0..given' /\ given' \in 0..given'
      BY <1>1, <1>4
    <3> QED
      BY <1>1, <1>3, <3>1 DEF InputOK
  <2>3. ASSUME NEW m \in marks'
        PROVE  m <= inPos' \/ (m = given' /\ action' # "RUN")
    <3>1. CASE m \in marks
      <4>1. CASE m <= inPos
        BY <1>1, <4>1
      <4>2. CASE m = given /\ action # "RUN" /\ ~(m <= inPos)
        <5>1. result # "end"
          BY <1>1, <1>3, <1>4, <4>2 DEF IndexOK
        <5>2. a = action /\ n = 0
          BY <1>1, <4>2, <5>1
        <5> QED
          BY <1>1, <1>4, <4>2, <5>2
      <4> QED
        BY <1>3, <3>1, <4>1, <4>2 DEF InputOK
    <3>2. CASE m \notin marks
      BY <1>1, <3>2
    <3> QED
      BY <3>1, <3>2
  <2> QED
    BY <2>1, <2>2, <2>3 DEF InputOK
<1>6. FreeOK'
  <2>1. mpc' # "reset" /\ mpc # "reset"
    BY <1>1
  <2> QED
    BY <1>1, <1>3, <2>1, FreeSame, SameIsSame
<1>7. ThrOK'
  <2>1. mpc' \notin {"reset", "block_error"} /\ mpc \notin {"reset", "in"}
    BY <1>1
  <2> QED
    BY <1>1, <1>3, <2>1 DEF ThrOK
<1>8. IndexOK'
  <2>1. mpc' = "index" <=> sequence = "index"
    BY <1>1, <1>4
  <2>2. mpc' \in {"read", "index"}
    BY <1>1
  <2>3. sequence = "index" => given' = given /\ a = "FINISH" /\ ~threadError
    <3>1. CASE sequence = "index"
      <4>1. action = "FINISH" /\ ~threadError
        BY <1>3, <3>1 DEF IndexOK
      <4>2. a = action /\ n = 0
        BY <1>1, <4>1
      <4> QED
        BY <1>1, <1>4, <4>1, <4>2
    <3> QED
      BY <3>1
  <2> QED
    BY <1>1, <1>3, <2>1, <2>2, <2>3 DEF IndexOK
<1> QED
  BY <1>5, <1>6, <1>7, <1>8 DEF LiveOK

LEMMA NotLive ==
  ASSUME result' = "error" \/ mpc' \in Stopping \union Ending
  PROVE  LiveOK'
BY DEF LiveOK, Live, Streaming, Stopping, Ending

(* Steps of a call: it is live, and not at the index.                      *)
LEMMA CallIsLive ==
  ASSUME Types, PhaseOK, LiveOK, mpc \in Calling
  PROVE  /\ Live /\ max > 0 /\ InputOK /\ FreeOK /\ ThrOK /\ IndexOK
         /\ stream \in 1..Len(plan) /\ given <= MostInput /\ inPos <= given
         /\ mpc # "index" => sequence = "block"
<1>1. Live /\ max > 0 /\ stream \in 1..Len(plan) /\ given <= MostInput /\ inPos <= given
  BY Places, InCall
<1>2. InputOK /\ FreeOK /\ ThrOK /\ IndexOK
  BY <1>1 DEF LiveOK
<1>3. mpc # "app" /\ sequence \in {"block", "index"}
  BY DEF Calling, Types, CoderTypes
<1> QED
  BY <1>1, <1>2, <1>3 DEF IndexOK

(* Main goes from one place to another.                                    *)
MainMoves ==
  /\ UNCHANGED <<plan, stream, given, marks, action, initialized, inPos, thr, free, threadError,
                 state, lo, inSize, wpc, wstate>>
  /\ mpc # "reset" /\ mpc' # "reset" /\ mpc' # "block_error"

LEMMA MovesLive ==
  ASSUME Types, Types', InputOK, FreeOK, ThrOK, MainMoves,
         mpc = "in" /\ mpc' # "in" /\ thr # 0 => ~InputLeft
  PROVE  InputOK' /\ FreeOK' /\ ThrOK'
<1>1. InputOK'
  BY DEF InputOK, MainMoves
<1>2. FreeOK'
  BY FreeSame, SameIsSame DEF MainMoves
<1>3. ThrOK'
  <2>1. thr # 0 =>
          \/ state[thr] = "IDLE" /\ threadError
          \/ /\ state[thr] = "RUN" /\ lo[thr] + inSize[thr] = inPos /\ inSize[thr] < BlockSize
             /\ inSize[thr] = 0 => mpc' = "in" /\ InputLeft
    BY DEF ThrOK, MainMoves
  <2>2. InputLeft' <=> InputLeft
    BY DEF InputLeft, MainMoves
  <2> QED
    BY <2>1, <2>2 DEF ThrOK, MainMoves
<1> QED
  BY <1>1, <1>2, <1>3

LEMMA ReadLive ==
  ASSUME Types, Types', RingOK, PhaseOK, LiveOK, Read
  PROVE  LiveOK'
<1>1. mpc = "read" /\ mpc \in Calling
  BY ReadCases DEF Calling
<1>2. InputOK /\ FreeOK /\ ThrOK /\ IndexOK /\ sequence = "block"
  BY <1>1, CallIsLive
<1>3. CASE Fails
  BY <1>3, NotLive DEF Fails
<1>4. CASE ~threadError /\ ~Fails
  <2>1. mpc' \in {"in", "read"}
    BY <1>4, ReadCases DEF AfterRead
  <2>2. MainMoves /\ UNCHANGED sequence
    BY <1>1, <2>1, ReadCases DEF MainMoves, thrVars, wVars
  <2>3. InputOK' /\ FreeOK' /\ ThrOK'
    BY <1>1, <1>2, <2>2, MovesLive
  <2>4. IndexOK'
    BY <1>2, <1>4, <2>1, <2>2 DEF IndexOK, MainMoves
  <2> QED
    BY <2>3, <2>4 DEF LiveOK
<1> QED
  BY <1>3, <1>4, ReadCases

LEMMA InDoneLive ==
  ASSUME Types, Types', PhaseOK, LiveOK, InDone
  PROVE  LiveOK'
<1>1. mpc = "in" /\ mpc \in Calling
  BY DEF InDone, Calling
<1>2. InputOK /\ FreeOK /\ ThrOK /\ IndexOK /\ sequence = "block"
  BY <1>1, CallIsLive
<1>3. /\ UNCHANGED <<plan, stream, given, marks, action, initialized, inPos, thr, free, threadError,
                     state, lo, inSize, wpc, wstate, bufsUsed>>
      /\ ~(InputLeft \/ (thr # 0 /\ action # "RUN")) \/ thr = 0
      /\ Decide
  BY DEF InDone, outq, thrVars, wVars
<1>4. mpc' \in {"app", "index", "work"}
  BY <1>3, Deciding
<1>5. MainMoves
  BY <1>1, <1>3, <1>4 DEF MainMoves
<1>6. InputOK' /\ FreeOK' /\ ThrOK'
  BY <1>2, <1>3, <1>5, MovesLive
<1>7. ~InputLeft => inPos = given
  BY <1>2 DEF InputOK, InputLeft, Types, CallTypes, CoderTypes
<1>8. threadError => bufsUsed > 0
  BY <1>1, <1>2 DEF IndexOK
<1>9. bufsUsed \in Nat /\ action \in Actions
  BY DEF Types, CallTypes, QueueTypes
<1>10. \/ /\ mpc' = "app" /\ sequence' = "block"
          /\ result' = "end" => ~InputLeft /\ action \in {"FULL_BARRIER", "FULL_FLUSH"}
       \/ mpc' = "work" /\ sequence' = "block"
       \/ mpc' = "index" /\ sequence' = "index" /\ ~InputLeft /\ bufsUsed = 0 /\ action = "FINISH"
  <2>1. CASE ~InputLeft /\ action \in {"RUN", "FULL_BARRIER"}
    BY <1>2, <1>3, <2>1 DEF Decide, BeginIndex, Result
  <2>2. CASE ~InputLeft /\ bufsUsed = 0 /\ action \notin {"RUN", "FULL_BARRIER"}
    BY <1>2, <1>3, <1>9, <2>2 DEF Decide, BeginIndex, Result, Actions
  <2>3. CASE InputLeft \/ (bufsUsed # 0 /\ action \notin {"RUN", "FULL_BARRIER"})
    BY <1>2, <1>3, <2>3 DEF Decide, BeginIndex, Result
  <2> QED
    BY <2>1, <2>2, <2>3
<1>11. IndexOK'
  <2>1. CASE mpc' = "app" /\ sequence' = "block"
             /\ (result' = "end" => ~InputLeft /\ action \in {"FULL_BARRIER", "FULL_FLUSH"})
    BY <1>3, <1>7, <2>1 DEF IndexOK
  <2>2. CASE mpc' = "work" /\ sequence' = "block"
    BY <1>3, <1>8, <2>2 DEF IndexOK
  <2>3. CASE mpc' = "index" /\ sequence' = "index" /\ ~InputLeft /\ bufsUsed = 0 /\ action = "FINISH"
    BY <1>3, <1>7, <1>8, <2>3 DEF IndexOK
  <2> QED
    BY <1>10, <2>1, <2>2, <2>3
<1> QED
  BY <1>6, <1>11 DEF LiveOK

LEMMA WaitLive ==
  ASSUME Types, Types', PhaseOK, LiveOK, WaitForWork \/ TimeOut \/ EncodeIndex \/ BlockError
  PROVE  LiveOK'
<1>1. mpc \in {"work", "work_wait", "index", "block_error"} /\ mpc \in Calling
  BY DEF WaitForWork, TimeOut, EncodeIndex, BlockError, Calling
<1>2. InputOK /\ FreeOK /\ ThrOK /\ IndexOK /\ (mpc # "index" => sequence = "block")
  BY <1>1, CallIsLive
<1>3. CASE BlockError
  <2>1. threadError
    BY <1>2, <1>3 DEF BlockError, ThrOK
  <2> QED
    BY <1>3, <2>1, NotLive DEF BlockError, Fails
<1>4. CASE WaitForWork \/ TimeOut \/ EncodeIndex
  <2>1. \/ mpc = "work" /\ mpc' \in {"work_wait", "read"} /\ sequence = "block"
        \/ mpc = "work_wait" /\ mpc' = "app" /\ result' = "timed_out" /\ sequence = "block"
        \/ mpc = "index" /\ mpc' = "app"
    BY <1>2, <1>4 DEF WaitForWork, TimeOut, EncodeIndex, Result
  <2>2. MainMoves /\ UNCHANGED <<sequence, bufsUsed>>
    BY <1>4, <2>1 DEF WaitForWork, TimeOut, EncodeIndex, MainMoves, appVars, outq, thrVars, wVars
  <2>3. InputOK' /\ FreeOK' /\ ThrOK'
    BY <1>2, <2>1, <2>2, MovesLive
  <2>4. IndexOK'
    BY <1>2, <2>1, <2>2 DEF IndexOK, MainMoves
  <2> QED
    BY <2>3, <2>4 DEF LiveOK
<1> QED
  BY <1>3, <1>4

(* The stack of free threads, with the top first.                          *)
LEMMA Popped ==
  ASSUME NEW s \in Seq(Threads), s # <<>>, IsInjective(s)
  PROVE  /\ Head(s) \in Range(s) /\ IsInjective(Tail(s))
         /\ Range(Tail(s)) = Range(s) \ {Head(s)}
<1>1. PICK n \in Nat : n = Len(s)
  OBVIOUS
<1>2. DOMAIN s = 1..n /\ n > 0 /\ Head(s) = s[1]
  BY <1>1
<1>3. DOMAIN Tail(s) = 1..(n - 1) /\ \A k \in 1..(n - 1) : Tail(s)[k] = s[k + 1]
  BY <1>1, <1>2
<1>4. \A j, k \in 1..n : s[j] = s[k] => j = k
  BY <1>2 DEF IsInjective
<1>5. IsInjective(Tail(s))
  <2>1. ASSUME NEW j \in 1..(n - 1), NEW k \in 1..(n - 1), Tail(s)[j] = Tail(s)[k]
        PROVE  j = k
    <3>1. j + 1 \in 1..n /\ k + 1 \in 1..n /\ s[j + 1] = s[k + 1]
      BY <1>3, <2>1
    <3>2. j + 1 = k + 1
      BY ONLY <1>4, <3>1
    <3> QED
      BY <3>2
  <2> QED
    BY <1>3, <2>1 DEF IsInjective
<1>6. Range(Tail(s)) \subseteq Range(s) \ {Head(s)}
  <2>1. ASSUME NEW k \in 1..(n - 1)
        PROVE  Tail(s)[k] \in Range(s) /\ Tail(s)[k] # Head(s)
    <3>1. k + 1 \in 1..n /\ k + 1 # 1 /\ 1 \in 1..n /\ Tail(s)[k] = s[k + 1]
      BY <1>2, <1>3
    <3>2. s[k + 1] # s[1]
      BY ONLY <1>4, <3>1
    <3> QED
      BY <1>2, <3>1, <3>2 DEF Range
  <2> QED
    BY <1>3, <2>1 DEF Range
<1>7. Range(s) \ {Head(s)} \subseteq Range(Tail(s))
  <2>1. ASSUME NEW k \in 1..n, s[k] # Head(s)
        PROVE  s[k] \in Range(Tail(s))
    <3>1. PICK j : j = k - 1
      OBVIOUS
    <3>2. j \in 1..(n - 1) /\ j + 1 = k
      BY <1>2, <2>1, <3>1
    <3>3. Tail(s)[j] = s[k]
      BY <1>3, <3>2
    <3> QED
      BY <1>3, <3>2, <3>3 DEF Range
  <2> QED
    BY <1>2, <2>1 DEF Range
<1>8. Head(s) \in Range(s)
  BY <1>2 DEF Range
<1> QED
  BY <1>5, <1>6, <1>7, <1>8

LEMMA Pushed ==
  ASSUME NEW s \in Seq(Threads), NEW w \in Threads, w \notin Range(s), IsInjective(s)
  PROVE  IsInjective(<<w>> \o s) /\ Range(<<w>> \o s) = Range(s) \union {w}
<1>1. PICK n \in Nat : n = Len(s)
  OBVIOUS
<1>2. PICK t : t = <<w>> \o s
  OBVIOUS
<1>3. DOMAIN s = 1..n /\ DOMAIN t = 1..(n + 1) /\ t[1] = w /\ \A k \in 2..(n + 1) : t[k] = s[k - 1]
  BY <1>1, <1>2
<1>4. \A k \in 2..(n + 1) : k - 1 \in 1..n
  BY <1>1
<1>5. \A k \in 2..(n + 1) : t[k] \in Range(s)
  BY <1>3, <1>4 DEF Range
<1>6. IsInjective(t)
  <2>1. ASSUME NEW j \in 1..(n + 1), NEW k \in 1..(n + 1), t[j] = t[k]
        PROVE  j = k
    <3>1. CASE j = 1 /\ k = 1
      BY <3>1
    <3>2. CASE j = 1 /\ k # 1
      <4>1. k \in 2..(n + 1)
        BY <3>2
      <4> QED
        BY ONLY <1>3, <1>5, <2>1, <3>2, <4>1, w \notin Range(s)
    <3>3. CASE k = 1 /\ j # 1
      <4>1. j \in 2..(n + 1)
        BY <3>3
      <4> QED
        BY ONLY <1>3, <1>5, <2>1, <3>3, <4>1, w \notin Range(s)
    <3>4. CASE k # 1 /\ j # 1
      <4>1. k \in 2..(n + 1) /\ j \in 2..(n + 1)
        BY <3>4
      <4>2. PICK a \in 1..n, b \in 1..n : a = j - 1 /\ b = k - 1
        BY <4>1, <1>4
      <4>3. s[a] = s[b]
        BY <1>3, <2>1, <4>1, <4>2
      <4>4. a = b
        BY <1>3, <4>3 DEF IsInjective
      <4> QED
        BY <4>2, <4>4
    <3> QED
      BY <3>1, <3>2, <3>3, <3>4
  <2> QED
    BY <1>3, <2>1 DEF IsInjective
<1>7. Range(t) = Range(s) \union {w}
  <2>1. ASSUME NEW k \in 1..(n + 1)
        PROVE  t[k] \in Range(s) \union {w}
    <3>1. k = 1 \/ k \in 2..(n + 1)
      OBVIOUS
    <3> QED
      BY ONLY <1>3, <1>5, <3>1
  <2>2. ASSUME NEW k \in 1..n
        PROVE  s[k] \in Range(t)
    <3>1. PICK j : j = k + 1
      OBVIOUS
    <3>2. j \in 2..(n + 1) /\ j \in 1..(n + 1) /\ j - 1 = k
      BY <3>1
    <3>3. t[j] = s[k]
      BY <1>3, <3>2
    <3> QED
      BY ONLY <1>3, <3>2, <3>3 DEF Range
  <2>3. w \in Range(t)
    <3>1. 1 \in 1..(n + 1)
      BY <1>1
    <3> QED
      BY ONLY <1>3, <3>1 DEF Range
  <2>4. Range(t) \subseteq Range(s) \union {w}
    BY ONLY <1>3, <2>1 DEF Range
  <2>5. Range(s) \subseteq Range(t)
    <3>1. PICK R : R = Range(t)
      OBVIOUS
    <3> QED
      BY ONLY <1>3, <2>2, <3>1 DEF Range
  <2> QED
    BY <2>3, <2>4, <2>5
<1> QED
  BY <1>2, <1>6, <1>7

(* A thread on the stack is idle, and waits for work or is about to.       *)
LEMMA OnStackIsIdle ==
  ASSUME FreeOK, WorkersOK, NEW w \in Range(free)
  PROVE  w \in Made /\ ~Busy(w) /\ state[w] = "IDLE" /\ wpc[w] \in Idling
<1>1. w \in Made /\ Placed(w) /\ WorkerOK(w)
  BY DEF FreeOK, WorkersOK
<1>2. ~Busy(w) /\ state[w] = "IDLE" /\ wpc[w] \in Idling \union AtWork
  BY <1>1 DEF Placed, Busy
<1>3. wpc[w] \notin AtWork \ {"return"} /\ wpc[w] # "return"
  BY <1>1, <1>2 DEF WorkerOK, Busy
<1> QED
  BY <1>1, <1>2, <1>3

LEMMA PopThreadLive ==
  ASSUME Types, Types', HoldersOK, PhaseOK, LiveOK, PopThread
  PROVE  LiveOK'
<1>1. mpc = "in" /\ mpc \in Calling
  BY DEF PopThread, Calling
<1>2. InputOK /\ FreeOK /\ ThrOK /\ IndexOK /\ sequence = "block"
  BY <1>1, CallIsLive
<1>3. /\ InputLeft /\ thr = 0 /\ HasBuf /\ free # <<>> /\ mpc' = "reset"
      /\ thr' = Head(free) /\ free' = Tail(free)
      /\ UNCHANGED <<plan, stream, given, marks, action, result, max, initialized, sequence, inPos,
                     threadError, outq, state, lo, inSize, wpc, wstate>>
  BY DEF PopThread, appVars, thrVars, wVars
<1>4. /\ Head(free) \in Range(free) /\ IsInjective(free')
      /\ Range(free') = Range(free) \ {Head(free)}
  BY <1>2, <1>3, Popped DEF FreeOK, Types, CoderTypes
<1>5. PICK i : i = Head(free)
  OBVIOUS
<1>6. i \in Made /\ ~Busy(i) /\ state[i] = "IDLE" /\ wpc[i] \in Idling
  BY <1>2, <1>4, <1>5, OnStackIsIdle DEF HoldersOK
<1>7. Made' = Made /\ Made \subseteq Threads
  BY <1>3, MadeThreads DEF Made
<1>8. InputOK'
  BY <1>2, <1>3 DEF InputOK
<1>9. FreeOK'
  <2>1. ASSUME NEW w \in Made
        PROVE  Placed(w)'
    <3>1. Busy(w)' <=> Busy(w)
      BY <1>3 DEF Busy
    <3>2. w \in Range(free') <=> ~Busy(w)' /\ ~(mpc' = "reset" /\ thr' = w)
      <4>1. w \in Range(free) <=> ~Busy(w)
        BY <1>1, <1>2, <2>1 DEF FreeOK, Placed
      <4> QED
        BY <1>3, <1>4, <3>1, <4>1
    <3> QED
      BY <1>2, <1>3, <2>1, <3>2 DEF FreeOK, Placed
  <2> QED
    BY <1>2, <1>4, <1>7, <2>1 DEF FreeOK
<1>10. ThrOK'
  <2>1. thr' # 0 /\ thr' <= initialized'
    BY <1>3, <1>5, <1>6, MadeThreads DEF Made
  <2>2. state'[thr'] = "IDLE" /\ wpc'[thr'] \in Idling
    BY <1>3, <1>5, <1>6
  <2>3. InputLeft' /\ HasBuf'
    BY <1>3 DEF InputLeft, HasBuf, outq
  <2> QED
    BY <1>3, <2>1, <2>2, <2>3 DEF ThrOK
<1>11. IndexOK'
  BY <1>1, <1>2, <1>3 DEF IndexOK, outq
<1> QED
  BY <1>8, <1>9, <1>10, <1>11 DEF LiveOK

LEMMA NewThreadLive ==
  ASSUME Types, Types', HoldersOK, PhaseOK, LiveOK, NewThread
  PROVE  LiveOK'
<1>1. mpc = "in" /\ mpc \in Calling
  BY DEF NewThread, Calling
<1>2. InputOK /\ FreeOK /\ ThrOK /\ IndexOK /\ sequence = "block"
  BY <1>1, CallIsLive
<1>3. /\ InputLeft /\ thr = 0 /\ HasBuf /\ free = <<>> /\ initialized < max
      /\ UNCHANGED <<plan, stream, given, marks, action, max, sequence, inPos, free,
                     threadError, outq, lo, inSize, wstate>>
  BY DEF NewThread
<1>4. CASE Fails
  BY <1>4, NotLive DEF Fails
<1>5. CASE ~Fails
  <2>1. PICK i : i = initialized + 1
    OBVIOUS
  <2>2. /\ initialized' = i /\ thr' = i /\ mpc' = "reset" /\ UNCHANGED result
        /\ state' = [state EXCEPT ![i] = "IDLE"] /\ wpc' = [wpc EXCEPT ![i] = "idle"]
    BY <1>5, <2>1 DEF NewThread
  <2>3. i \in Threads /\ Made' = Made \union {i} /\ i \notin Made /\ Made \subseteq Threads /\ i # 0
    <3>1. initialized \in Nat /\ max \in 0..MaxThreads
      BY MadeThreads DEF Types, CoderTypes
    <3> QED
      BY <1>3, <2>1, <2>2, <3>1, Numbers DEF Made
  <2>4. InputOK'
    BY <1>2, <1>3, <2>2 DEF InputOK
  <2>5. Range(free) = {} /\ Range(free') = {}
    BY <1>3 DEF Range
  <2>6. "idle" \in Idling /\ "idle" \notin AtWork /\ "idle" \notin {"settle", "return"}
    BY Apart DEF Idling
  <2>7. FreeOK'
    <3>1. ASSUME NEW w \in Made
          PROVE  Placed(w)'
      <4>1. state'[w] = state[w] /\ wpc'[w] = wpc[w] /\ w # i
        BY <2>2, <2>3 DEF Types, ThreadTypes, PlaceTypes
      <4>2. Placed(w)
        BY <1>2 DEF FreeOK
      <4>3. (mpc' = "reset" /\ thr' = w) <=> (mpc = "reset" /\ thr = w)
        BY <1>1, <2>2, <4>1
      <4> QED
        BY <1>3, <2>3, <4>1, <4>2, <4>3, PlacedSame, SameIsSame
    <3>2. Placed(i)'
      <4>1. state'[i] = "IDLE" /\ wpc'[i] = "idle"
        BY <2>2, <2>3 DEF Types, ThreadTypes, PlaceTypes
      <4>2. i \in Range(free') <=> ~Busy(i)' /\ ~(mpc' = "reset" /\ thr' = i)
        BY <2>2, <2>5
      <4> QED
        BY <2>6, <4>1, <4>2 DEF Placed
    <3>3. IsInjective(free') /\ Range(free') \subseteq Made'
      BY <1>2, <1>3, <2>5 DEF FreeOK
    <3>4. \A w \in Made' : Placed(w)'
      BY <2>3, <3>1, <3>2
    <3> QED
      BY <3>3, <3>4 DEF FreeOK
  <2>8. ThrOK'
    <3>1. thr' # 0 /\ thr' <= initialized'
      BY <2>2, <2>3, MadeThreads DEF Made
    <3>2. state'[thr'] = "IDLE" /\ wpc'[thr'] \in Idling
      BY <2>2, <2>3, <2>6 DEF Types, ThreadTypes, PlaceTypes
    <3>3. InputLeft' /\ HasBuf'
      BY <1>3 DEF InputLeft, HasBuf, outq
    <3> QED
      BY <2>2, <3>1, <3>2, <3>3 DEF ThrOK
  <2>9. IndexOK'
    BY <1>1, <1>2, <1>3, <2>2 DEF IndexOK, outq
  <2> QED
    BY <2>4, <2>7, <2>8, <2>9 DEF LiveOK
<1> QED
  BY <1>4, <1>5

LEMMA ResetThreadLive ==
  ASSUME Types, Types', HoldersOK, PhaseOK, LiveOK, ResetThread
  PROVE  LiveOK'
<1>1. mpc = "reset" /\ mpc \in Calling
  BY DEF ResetThread, Calling
<1>2. InputOK /\ FreeOK /\ ThrOK /\ IndexOK /\ sequence = "block"
  BY <1>1, CallIsLive
<1>3. PICK i : i = thr
  OBVIOUS
<1>4. i \in Made /\ state[i] = "IDLE" /\ wpc[i] \in Idling /\ InputLeft /\ HasBuf
  BY <1>1, <1>2, <1>3, MadeThreads DEF ThrOK, Made, Types, CoderTypes
<1>5. /\ state' = [state EXCEPT ![i] = "RUN"] /\ mpc' = "in"
      /\ lo' = [lo EXCEPT ![i] = inPos] /\ inSize' = [inSize EXCEPT ![i] = 0]
      /\ wpc' = Woken(wpc, i) /\ bufsUsed' = bufsUsed + 1
      /\ UNCHANGED <<plan, stream, given, marks, action, result, max, initialized, sequence, inPos,
                     thr, free, threadError, wstate>>
  BY <1>3 DEF ResetThread, GetBuf, appVars
<1>6. Made' = Made /\ Made \subseteq Threads
  BY <1>5, MadeThreads DEF Made
<1>7. InputOK'
  BY <1>2, <1>5 DEF InputOK
<1>8. \A v \in Threads : SamePlace(wpc[v], wpc'[v])
  BY <1>4, <1>5, <1>6, Wakes DEF Types, PlaceTypes
<1>9. state'[i] = "RUN" /\ lo'[i] = inPos /\ inSize'[i] = 0 /\ wpc'[i] \in Idling
  BY <1>4, <1>5, <1>6, <1>8, IdlingPlace DEF Types, ThreadTypes
<1>10. FreeOK'
  <2>1. ASSUME NEW w \in Made, w # i
        PROVE  Placed(w)'
    <3>1. state'[w] = state[w] /\ SamePlace(wpc[w], wpc'[w])
      BY <1>5, <1>6, <1>8, <2>1 DEF Types, ThreadTypes
    <3>2. Placed(w) /\ ((mpc' = "reset" /\ thr' = w) <=> (mpc = "reset" /\ thr = w))
      BY <1>2, <1>3, <1>5, <2>1 DEF FreeOK
    <3> QED
      BY <1>5, <1>6, <3>1, <3>2, PlacedSame
  <2>2. Placed(i)'
    <3>1. i \notin Range(free) /\ Busy(i)'
      BY <1>1, <1>2, <1>3, <1>4, <1>9 DEF FreeOK, Placed, Busy
    <3>2. wpc'[i] # "settle" /\ wpc'[i] # "return"
      BY <1>9, Apart
    <3> QED
      BY <1>5, <1>9, <3>1, <3>2 DEF Placed
  <2>3. \A w \in Made : Placed(w)'
    BY <2>1, <2>2
  <2> QED
    BY <1>2, <1>5, <1>6, <2>3 DEF FreeOK
<1>11. ThrOK'
  <2>1. lo'[i] + inSize'[i] = inPos /\ inSize'[i] < BlockSize
    <3>1. inPos \in Nat /\ BlockSize \in Nat \ {0}
      BY Numbers DEF Types, CoderTypes
    <3> QED
      BY ONLY <1>9, <3>1
  <2>2. InputLeft'
    BY <1>4, <1>5 DEF InputLeft
  <2> QED
    BY <1>2, <1>3, <1>5, <1>9, <2>1, <2>2 DEF ThrOK
<1>12. IndexOK'
  <2>1. bufsUsed' > 0
    BY <1>5 DEF Types, QueueTypes
  <2> QED
    BY <1>2, <1>5, <2>1 DEF IndexOK
<1> QED
  BY <1>7, <1>10, <1>11, <1>12 DEF LiveOK

(* What main has of the input, and of the thread it is given to.           *)
LEMMA ThrHas ==
  ASSUME Types, PhaseOK, LiveOK, mpc = "in", thr # 0
  PROVE  /\ thr \in Made /\ thr \in Threads /\ inPos <= given /\ given <= MostInput
         /\ \/ state[thr] = "IDLE" /\ threadError
            \/ /\ state[thr] = "RUN" /\ lo[thr] + inSize[thr] = inPos /\ inSize[thr] < BlockSize
               /\ inSize[thr] = 0 => InputLeft
<1>1. mpc \in Calling
  BY DEF Calling
<1>2. ThrOK /\ inPos <= given /\ given <= MostInput
  BY <1>1, CallIsLive
<1>3. thr \in Made /\ thr \in Threads
  BY <1>2, MadeThreads DEF ThrOK, Made, Types, CoderTypes
<1> QED
  BY <1>2, <1>3 DEF ThrOK

LEMMA PutLive ==
  ASSUME Types, Types', HoldersOK, PhaseOK, LiveOK, Put
  PROVE  LiveOK'
<1>1. mpc = "in" /\ mpc \in Calling /\ thr # 0
  BY DEF Put, Calling
<1>2. InputOK /\ FreeOK /\ ThrOK /\ IndexOK /\ sequence = "block"
  BY <1>1, CallIsLive
<1>3. /\ thr \in Made /\ thr \in Threads /\ inPos <= given /\ given <= MostInput
      /\ \/ state[thr] = "IDLE" /\ threadError
         \/ /\ state[thr] = "RUN" /\ lo[thr] + inSize[thr] = inPos /\ inSize[thr] < BlockSize
            /\ inSize[thr] = 0 => InputLeft
  BY <1>1, ThrHas
<1>4. UNCHANGED <<plan, stream, given, marks, action, result, max, initialized, sequence, free,
                  threadError, bufsUsed, lo, wstate>>
  BY DEF Put, appVars, outq
<1>5. PICK i \in Threads, n \in Nat :
           /\ PutAt(i, n)
           /\ \/ PutIdle(i)
              \/ /\ inSize' = [inSize EXCEPT ![i] = inSize[i] + n] /\ wpc' = Woken(wpc, i)
                 /\ mpc' = mpc /\ (PutMore(i, n) \/ PutLast(i, n))
  BY <1>3, PutIs
<1>6. /\ i = thr /\ inPos' = inPos + n /\ n <= given - inPos /\ n <= BlockSize - inSize[i]
      /\ n = given - inPos \/ n = BlockSize - inSize[i]
  BY <1>5 DEF PutAt
<1>7. /\ lo[i] \in Nat /\ inSize[i] \in 0..BlockSize /\ given \in Nat /\ inPos \in Nat
      /\ BlockSize \in Nat \ {0} /\ action \in Actions
  BY Numbers DEF Types, ThreadTypes, CallTypes, CoderTypes
<1>8. inPos' <= given /\ inPos <= inPos'
  BY <1>6, <1>7
<1>9. InputOK'
  <2>1. \A m \in marks : m <= inPos => m <= inPos'
    BY <1>7, <1>8, <1>6 DEF Types, CallTypes
  <2> QED
    BY <1>2, <1>4, <1>8, <2>1 DEF InputOK
<1>10. IndexOK'
  <2>1. mpc' \in {"in", "block_error"}
    BY <1>1, <1>5 DEF PutIdle
  <2> QED
    BY <1>1, <1>2, <1>4, <2>1 DEF IndexOK
<1>11. CASE PutIdle(i)
  <2>1. state[i] = "IDLE" /\ mpc' = "block_error" /\ UNCHANGED <<state, inSize, thr, wpc>>
    BY <1>11 DEF PutIdle
  <2>2. threadError
    BY <1>3, <1>6, <2>1
  <2>3. FreeOK'
    BY <1>1, <1>2, <1>4, <2>1, FreeSame, SameIsSame
  <2>4. ThrOK'
    BY <1>2, <1>4, <1>6, <2>1, <2>2 DEF ThrOK
  <2> QED
    BY <1>9, <1>10, <2>3, <2>4 DEF LiveOK
<1>12. CASE ~PutIdle(i)
  <2>1. /\ inSize' = [inSize EXCEPT ![i] = inSize[i] + n] /\ wpc' = Woken(wpc, i)
        /\ mpc' = mpc /\ (PutMore(i, n) \/ PutLast(i, n))
    BY <1>5, <1>12
  <2>2. state[i] = "RUN" /\ lo[i] + inSize[i] = inPos /\ (inSize[i] = 0 => given > inPos)
    BY <1>3, <1>6, <2>1 DEF PutMore, PutLast, InputLeft
  <2>3. state' \in {state, [state EXCEPT ![i] = "FINISH"]}
    BY <2>1 DEF PutMore, PutLast
  <2>4. state'[i] \in {"RUN", "FINISH"} /\ inSize'[i] = inSize[i] + n
    BY <2>1, <2>2, <2>3 DEF Types, ThreadTypes
  <2>5. \A v \in Threads : SamePlace(wpc[v], wpc'[v])
    BY <2>1, Wakes DEF Types, PlaceTypes
  <2>6. FreeOK'
    <3>1. Made' = Made /\ Made \subseteq Threads
      BY <1>4, MadeThreads DEF Made
    <3>2. ASSUME NEW w \in Made, w # i
          PROVE  Placed(w)'
      <4>1. state'[w] = state[w] /\ SamePlace(wpc[w], wpc'[w]) /\ Placed(w)
        BY <1>2, <2>3, <2>5, <3>1, <3>2 DEF Types, ThreadTypes, FreeOK
      <4> QED
        BY <1>1, <1>4, <2>1, <3>1, <4>1, PlacedSame
    <3>3. Placed(i)'
      <4>1. Placed(i) /\ Busy(i) /\ Busy(i)'
        BY <1>2, <1>3, <1>6, <2>2, <2>4 DEF FreeOK, Busy
      <4>2. wpc[i] \in WorkerStates /\ wpc'[i] \in WorkerStates
        BY DEF Types, PlaceTypes
      <4>3. /\ wpc'[i] \in Idling \union AtWork <=> wpc[i] \in Idling \union AtWork
            /\ wpc'[i] = "settle" <=> wpc[i] = "settle"
            /\ wpc'[i] = "return" <=> wpc[i] = "return"
        <5>1. "settle" \notin Idling \union Encoding /\ "return" \notin Idling \union Encoding
          BY DEF Idling, Encoding
        <5>2. SamePlace(wpc[i], wpc'[i])
          BY <2>5
        <5> QED
          BY <4>2, <5>1, <5>2, SameHolding DEF SamePlace
      <4>4. i \notin Range(free)
        BY <4>1 DEF Placed
      <4>5. (wpc[i] = "settle" => threadError) /\ (wpc[i] = "return" => threadError \/ wstate[i] = "FINISH")
        BY <2>2, <4>1 DEF Placed
      <4>6. wpc[i] \in Idling \union AtWork
        BY <4>1 DEF Placed
      <4>7. i \in Range(free') <=> ~Busy(i)' /\ ~(mpc' = "reset" /\ thr' = i)
        BY <1>4, <4>1, <4>4
      <4> QED
        BY <1>4, <2>4, <4>3, <4>5, <4>6, <4>7 DEF Placed
    <3>4. \A w \in Made : Placed(w)'
      BY <3>2, <3>3
    <3> QED
      BY <1>2, <1>4, <3>1, <3>4 DEF FreeOK
  <2>7. CASE PutLast(i, n)
    <3>1. thr' = 0 /\ mpc' = "in" /\ initialized' \in Nat
      BY <1>1, <1>4, <2>1, <2>7, MadeThreads DEF PutLast
    <3>2. ThrOK'
      BY <3>1 DEF ThrOK
    <3> QED
      BY <1>9, <1>10, <2>6, <3>2 DEF LiveOK
  <2>8. CASE PutMore(i, n)
    <3>1. /\ thr' = i /\ mpc' = "in" /\ UNCHANGED state
          /\ inSize[i] + n # BlockSize /\ ~(inPos + n = given /\ action # "RUN")
      BY <1>1, <1>6, <2>1, <2>8 DEF PutMore, EndsBlock
    <3>2. lo'[i] + inSize'[i] = inPos' /\ inSize'[i] < BlockSize
      BY <1>4, <1>6, <1>7, <2>2, <2>4, <3>1
    <3>3. inSize'[i] # 0
      BY <1>6, <1>7, <2>2, <2>4
    <3>4. ThrOK'
      BY <1>2, <1>4, <1>6, <2>2, <3>1, <3>2, <3>3 DEF ThrOK
    <3> QED
      BY <1>9, <1>10, <2>6, <3>4 DEF LiveOK
  <2> QED
    BY <2>1, <2>7, <2>8
<1> QED
  BY <1>11, <1>12

LEMMA StopLive ==
  ASSUME Types, Types', PhaseOK, TellStop \/ TellExit \/ Settle \/ Join
  PROVE  LiveOK'
<1>1. CASE TellStop \/ TellExit
  <2>1. \/ mpc = "stop_error" /\ UNCHANGED result
        \/ mpc \in {"stop", "exit"} /\ mpc' \in {"stop", "settle", "exit", "join"}
    BY <1>1 DEF TellStop, TellExit, Tell, appVars
  <2>2. mpc = "stop_error" => result = "error"
    BY DEF PhaseOK, MainPhase
  <2>3. {"stop", "settle", "exit", "join"} \subseteq Stopping \union Ending
    BY DEF Stopping, Ending
  <2> QED
    BY <2>1, <2>2, <2>3, NotLive
<1>2. CASE Settle \/ Join
  <2>1. mpc \in Ending \union Stopping
    BY <1>2 DEF Settle, Join, Ending, Stopping
  <2>2. /\ thr = 0 /\ inPos = 0 /\ given = 0 /\ marks = {} /\ action = "RUN" /\ sequence = "block"
        /\ result \in {"ok", "none"} /\ plan \in Plans
    BY <2>1 DEF PhaseOK, MainPhase, Types, CallTypes
  <2>3. UNCHANGED <<plan, stream, given, marks, action, result, max, sequence, inPos, thr, wstate, threadError, state>>
    BY <1>2 DEF Settle, Join, appVars, thrVars, wVars
  <2>4. CASE mpc' # "app"
    <3>1. mpc' \in {"settle", "settle_wait", "join"}
      BY <1>2, <2>4 DEF Settle, Join
    <3> QED
      BY <3>1, NotLive DEF Stopping, Ending
  <2>5. CASE mpc' = "app" /\ ~Live'
    BY <2>5 DEF LiveOK
  <2>6. CASE mpc' = "app" /\ Live'
    <3>1. plan[stream].input \in Nat
      <4>1. max > 0
        BY <2>3, <2>6 DEF Live, Streaming
      <4>2. stream \in 1..Len(plan)
        <5>1. Len(plan) \in Nat
          BY ONLY <2>2, PlanBounds, LenProperties
        <5> QED
          BY <4>1, <5>1 DEF PhaseOK, MainPhase, Types, CallTypes, CoderTypes
      <4> QED
        BY <2>2, <4>2, PlanBounds
    <3>2. InputOK'
      BY <2>2, <2>3, <3>1 DEF InputOK
    <3>3. ThrOK'
      BY <2>2, <2>3, <2>6, MadeThreads DEF ThrOK, Types, CoderTypes
    <3>4. IndexOK'
      BY <2>2, <2>3, <2>6 DEF IndexOK
    <3>5. FreeOK'
      <4>1. CASE Join
        <5>1. mpc # mpc'
          BY <4>1, <2>6 DEF Join
        <5>2. initialized' = 0 /\ free' = <<>>
          BY <4>1, <5>1 DEF Join
        <5>3. Made' = {} /\ Range(free') = {}
          BY <5>2 DEF Made, Range
        <5> QED
          BY <5>2, <5>3 DEF FreeOK, IsInjective
      <4>2. CASE Settle
        <5>1. /\ UNCHANGED <<initialized, free, wpc, state>> /\ mpc = "settle" /\ idx > initialized
          BY <4>2, <2>6 DEF Settle, wVars, thrVars
        <5>2. AllFree /\ \A w \in Made : w < idx => state[w] = "IDLE"
          BY <5>1 DEF PhaseOK, ThreadPhase, Stopping
        <5>3. \A w \in Made : state[w] = "IDLE" /\ wpc[w] \in Idling /\ w \in Range(free)
          <6>1. idx \in Nat /\ initialized \in Nat
            BY MadeThreads DEF Types, PlaceTypes
          <6>2. \A w \in Made : w < idx
            BY <5>1, <6>1 DEF Made
          <6> QED
            BY <5>2, <6>2 DEF AllFree
        <5>4. Made' = Made
          BY <5>1 DEF Made
        <5>5. \A w \in Made : Placed(w)'
          BY <2>6, <5>1, <5>3, Apart DEF Placed, Busy
        <5> QED
          BY <5>1, <5>2, <5>4, <5>5 DEF FreeOK, AllFree
      <4> QED
        BY <1>2, <4>1, <4>2
    <3> QED
      BY <3>2, <3>3, <3>4, <3>5 DEF LiveOK
  <2> QED
    BY <2>4, <2>5, <2>6
<1> QED
  BY <1>1, <1>2

(* A step of a worker leaves what main has; but for what it does itself.   *)
LEMMA SameLive ==
  ASSUME SameMain
  PROVE  /\ Live' <=> Live
         /\ mpc' = "reset" <=> mpc = "reset"
         /\ mpc' = "in" <=> mpc = "in"
         /\ mpc' = "app" <=> mpc = "app"
         /\ mpc' = "index" <=> mpc = "index"
         /\ mpc' = "read" <=> mpc = "read"
         /\ mpc' = "block_error" <=> mpc = "block_error"
         /\ (InputLeft' <=> InputLeft) /\ (HasBuf' <=> HasBuf)
BY DEF SameMain, Live, Streaming, InputLeft, HasBuf

LEMMA WakeLive ==
  ASSUME Types, Types', LiveOK, SpuriousWake
  PROVE  LiveOK'
<1>1. SameMain /\ Quiet /\ UNCHANGED <<free, threadError>>
  BY WorkerLeavesMain, QuietIs DEF SpuriousWake
<1>2. CASE ~Live
  BY <1>1, <1>2, SameLive DEF LiveOK
<1>3. CASE Live
  <2>1. InputOK /\ FreeOK /\ ThrOK /\ IndexOK
    BY <1>3 DEF LiveOK
  <2>2. /\ UNCHANGED <<plan, stream, given, marks, action, result, initialized, sequence, inPos, thr,
                       bufsUsed, state, wstate, lo, inSize>>
        /\ \A w \in Made : SamePlace(wpc[w], wpc'[w])
    BY <1>1 DEF SameMain, Quiet, outq, thrVars
  <2>3. InputOK'
    BY <2>1, <2>2 DEF InputOK
  <2>4. FreeOK'
    BY <1>1, <2>1, <2>2, SameLive, FreeSame
  <2>5. ThrOK'
    <3>1. mpc = "reset" => thr \in Made
      BY <2>1, MadeThreads DEF ThrOK, Made, Types, CoderTypes
    <3> QED
      BY <1>1, <2>1, <2>2, <3>1, SameLive, IdlingPlace DEF ThrOK
  <2>6. IndexOK'
    BY <1>1, <2>1, <2>2, SameLive DEF IndexOK, SameMain
  <2> QED
    BY <2>3, <2>4, <2>5, <2>6 DEF LiveOK
<1> QED
  BY <1>2, <1>3

(* What is left to show for a worker that takes a step: where it is, and   *)
(* what main makes of it if it is the one that is given input.             *)
LEMMA OneLive ==
  ASSUME Types, Types', PhaseOK, LiveOK, HoldersOK, Live, SameMain, NEW w \in Made,
         \A v \in Made : v # w =>
           /\ UNCHANGED <<state[v], wpc[v], wstate[v], lo[v], inSize[v]>>
           /\ v \in Range(free') <=> v \in Range(free),
         \/ UNCHANGED threadError
         \/ threadError' = TRUE /\ bufsUsed > 0,
         IsInjective(free') /\ Range(free') \subseteq Made, Placed(w)',
         \/ UNCHANGED <<state[w], lo[w], inSize[w]>> /\ (wpc[w] \in Idling => wpc'[w] \in Idling \/ state[w] # "IDLE")
         \/ wpc[w] \notin Idling /\ (thr = w => threadError /\ state'[w] = "IDLE")
  PROVE  LiveOK'
<1>1. InputOK /\ FreeOK /\ ThrOK /\ IndexOK
  BY DEF LiveOK
<1>2. UNCHANGED <<plan, stream, given, marks, action, result, initialized, sequence, inPos, thr, bufsUsed>>
  BY DEF SameMain
<1>3. Made' = Made /\ Made \subseteq Threads
  BY <1>2, MadeThreads DEF Made
<1>4. InputOK'
  BY <1>1, <1>2 DEF InputOK
<1>5. threadError => threadError'
  OBVIOUS
<1>6. FreeOK'
  <2>1. ASSUME NEW v \in Made, v # w
        PROVE  Placed(v)'
    <3>1. Placed(v) /\ UNCHANGED <<state[v], wpc[v], wstate[v]>> /\ (v \in Range(free') <=> v \in Range(free))
      BY <1>1, <2>1 DEF FreeOK
    <3>2. (mpc' = "reset" /\ thr' = v) <=> (mpc = "reset" /\ thr = v)
      BY <1>2, SameLive
    <3>3. Busy(v)' <=> Busy(v)
      BY <3>1 DEF Busy
    <3> QED
      BY <1>5, <3>1, <3>2, <3>3 DEF Placed
  <2>2. \A v \in Made : Placed(v)'
    BY <2>1
  <2> QED
    BY <1>3, <2>2 DEF FreeOK
<1>7. thr # 0 => thr \in Made
  BY <1>1, MadeThreads DEF ThrOK, Made, Types, CoderTypes
<1>8. ThrOK'
  <2>1. thr' <= initialized'
    BY <1>1, <1>2 DEF ThrOK
  <2>2. mpc' = "reset" =>
          thr # 0 /\ state'[thr] = "IDLE" /\ wpc'[thr] \in Idling /\ InputLeft' /\ HasBuf'
    <3>1. mpc' = "reset" => thr # 0 /\ state[thr] = "IDLE" /\ wpc[thr] \in Idling /\ InputLeft' /\ HasBuf'
      BY <1>1, SameLive DEF ThrOK
    <3> QED
      BY <1>7, <3>1
  <2>3. thr # 0 /\ mpc' # "reset" =>
       \/ state'[thr] = "IDLE" /\ threadError'
       \/ /\ state'[thr] = "RUN" /\ lo'[thr] + inSize'[thr] = inPos /\ inSize'[thr] < BlockSize
          /\ inSize'[thr] = 0 => mpc' = "in" /\ InputLeft'
    <3>1. thr # 0 /\ mpc' # "reset" =>
       \/ state[thr] = "IDLE" /\ threadError
       \/ /\ state[thr] = "RUN" /\ lo[thr] + inSize[thr] = inPos /\ inSize[thr] < BlockSize
          /\ inSize[thr] = 0 => mpc' = "in" /\ InputLeft'
      BY <1>1, SameLive DEF ThrOK
    <3>2. thr # 0 => \/ state'[thr] = state[thr] /\ lo'[thr] = lo[thr] /\ inSize'[thr] = inSize[thr]
                     \/ state'[thr] = "IDLE" /\ threadError
      <4>1. thr \in Made /\ thr # w =>
              state'[thr] = state[thr] /\ lo'[thr] = lo[thr] /\ inSize'[thr] = inSize[thr]
        OBVIOUS
      <4> QED
        BY <1>7, <4>1
    <3> QED
      BY <1>5, <3>1, <3>2
  <2>4. mpc' = "block_error" => threadError'
    BY <1>1, <1>5, SameLive DEF ThrOK
  <2> QED
    BY <1>2, <2>1, <2>2, <2>3, <2>4 DEF ThrOK
<1>9. IndexOK'
  <2>1. sequence = "index" => ~threadError'
    BY <1>1 DEF IndexOK
  <2>2. threadError' /\ mpc' \notin {"app", "read"} => bufsUsed > 0
    BY <1>1, SameLive DEF IndexOK
  <2> QED
    BY <1>1, <1>2, <2>1, <2>2, SameLive DEF IndexOK
<1> QED
  BY <1>4, <1>6, <1>8, <1>9 DEF LiveOK

LEMMA WorkerLive ==
  ASSUME Types, Types', PhaseOK, LiveOK, HoldersOK, NEW w \in Threads, Worker(w)
  PROVE  LiveOK'
<1>1. SameMain
  BY WorkerLeavesMain
<1>2. CASE ~Live
  BY <1>1, <1>2, SameLive DEF LiveOK
<1>3. CASE Live
  <2>1. InputOK /\ FreeOK /\ ThrOK /\ IndexOK
    BY <1>3 DEF LiveOK
  <2>2. wpc[w] \in {"idle"} \union AtWork
    BY DEF Worker, WorkerIdle, WorkerMore, WorkerWhole, WorkerError, WorkerSettle, WorkerReturn, AtWork
  <2>3. w \in Made
    <3>1. "none" \notin {"idle"} \union AtWork
      BY DEF AtWork
    <3> QED
      BY <2>2, <3>1, WorkerMade
  <2>4. Placed(w) /\ WorkerOK(w) /\ Made \subseteq Threads
    BY <2>1, <2>3, MadeThreads DEF FreeOK, HoldersOK, WorkersOK
  <2>5. IsInjective(free) /\ Range(free) \subseteq Made
    BY <2>1 DEF FreeOK
  <2>6. thr = w /\ mpc = "reset" => state[w] = "IDLE" /\ wpc[w] \in Idling
    BY <2>1 DEF ThrOK
  <2>7. (mpc' = "reset" /\ thr' = w) <=> (mpc = "reset" /\ thr = w)
    BY <1>1, SameLive DEF SameMain
  <2>8. CASE WorkerIdle(w)
    <3>1. /\ state[w] # "STOP" /\ state[w] # "EXIT"
      BY <2>4 DEF Placed
    <3>2. PICK p \in {"idle_wait", "more"} :
            /\ wpc' = [wpc EXCEPT ![w] = p] /\ wstate' = [wstate EXCEPT ![w] = state[w]]
            /\ state' = [state EXCEPT ![w] = state[w]] /\ (p = "more" => state[w] # "IDLE")
            /\ wpc[w] = "idle" /\ UNCHANGED <<lo, inSize, free, threadError>>
      <4>1. (IF state[w] = "STOP" THEN "IDLE" ELSE state[w]) = state[w]
        BY <3>1
      <4>2. (CASE state[w] = "IDLE" -> "idle_wait"
               [] state[w] = "EXIT" -> "exited"
               [] OTHER -> "more") = IF state[w] = "IDLE" THEN "idle_wait" ELSE "more"
        BY <3>1
      <4>3. /\ wpc' = [wpc EXCEPT ![w] = IF state[w] = "IDLE" THEN "idle_wait" ELSE "more"]
            /\ wstate' = [wstate EXCEPT ![w] = state[w]] /\ state' = [state EXCEPT ![w] = state[w]]
            /\ wpc[w] = "idle" /\ UNCHANGED <<lo, inSize, free, threadError>>
        BY <2>8, <4>1, <4>2 DEF WorkerIdle
      <4> QED
        BY <4>3
    <3>3. state' = state /\ wpc'[w] = p
      BY <3>2 DEF Types, ThreadTypes, PlaceTypes
    <3>4. "idle_wait" \in Idling /\ "more" \in AtWork
      BY DEF Idling, AtWork
    <3>5. Busy(w)' <=> Busy(w)
      BY <3>2, <3>3 DEF Busy
    <3>6. Placed(w)'
      BY <2>4, <2>7, <3>2, <3>3, <3>4, <3>5 DEF Placed
    <3>7. \A v \in Made : v # w =>
           /\ UNCHANGED <<state[v], wpc[v], wstate[v], lo[v], inSize[v]>>
           /\ v \in Range(free') <=> v \in Range(free)
      BY <2>4, <3>2, <3>3 DEF Types, PlaceTypes
    <3>8. UNCHANGED <<state[w], lo[w], inSize[w]>> /\ (wpc[w] \in Idling => wpc'[w] \in Idling \/ state[w] # "IDLE")
      BY <3>2, <3>3, <3>4
    <3>9. UNCHANGED threadError /\ IsInjective(free') /\ Range(free') \subseteq Made
      BY <2>5, <3>2
    <3> QED
      BY <1>1, <1>3, <2>3, <3>6, <3>7, <3>8, <3>9, OneLive
  <2>9. CASE WorkerMore(w) \/ WorkerWhole(w)
    <3>1. /\ WorkKept /\ wpc[w] \in {"more", "whole"} /\ (WorkOn(w) \/ WorkEnds(w))
          /\ "more" \in AtWork \ {"return"} /\ "whole" \in AtWork \ {"return"}
          /\ "more" \notin Idling /\ "whole" \notin Idling
      BY <2>9, WorkCases DEF AtWork, Idling
    <3>2. /\ state[w] \in {"RUN", "FINISH"} /\ Busy(w) /\ w \notin Range(free)
          /\ ~(mpc = "reset" /\ thr = w)
      BY <2>4, <2>6, <3>1 DEF Placed, WorkerOK, Busy
    <3>3. UNCHANGED <<lo, inSize, free, threadError, state>>
      BY <3>1 DEF WorkKept, thrVars
    <3>4. PICK p \in {"more_wait", "whole_wait", "more", "whole", "error", "settle"} :
            /\ wpc' = [wpc EXCEPT ![w] = p] /\ wstate' \in {wstate, [wstate EXCEPT ![w] = state[w]]}
            /\ p = "settle" => wstate' = [wstate EXCEPT ![w] = state[w]] /\ state[w] = "FINISH"
      BY <3>1, <3>2 DEF WorkOn, WorkEnds
    <3>5. wpc'[w] = p /\ p \in AtWork /\ p # "return"
      BY <3>4 DEF AtWork, Types, PlaceTypes
    <3>6. p = "settle" => wstate'[w] = "FINISH"
      BY <3>4 DEF Types, PlaceTypes
    <3>7. Placed(w)'
      <4>1. Busy(w)'
        BY <3>2, <3>3 DEF Busy
      <4>2. w \notin Range(free')
        BY <3>2, <3>3
      <4>3. state'[w] \in {"RUN", "FINISH"} /\ (p = "settle" => state'[w] = "FINISH")
        BY <3>2, <3>3, <3>4
      <4> QED
        BY <3>5, <3>6, <4>1, <4>2, <4>3 DEF Placed
    <3>8. \A v \in Made : v # w =>
           /\ UNCHANGED <<state[v], wpc[v], wstate[v], lo[v], inSize[v]>>
           /\ v \in Range(free') <=> v \in Range(free)
      BY <2>4, <3>3, <3>4 DEF Types, PlaceTypes
    <3>9. UNCHANGED <<state[w], lo[w], inSize[w]>> /\ wpc[w] \notin Idling
          /\ UNCHANGED threadError /\ IsInjective(free') /\ Range(free') \subseteq Made
      BY <2>5, <3>1, <3>3
    <3> QED
      BY <1>1, <1>3, <2>3, <3>7, <3>8, <3>9, OneLive
  <2>10. CASE WorkerError(w)
    <3>1. /\ wpc[w] = "error" /\ threadError' = TRUE /\ wpc' = [wpc EXCEPT ![w] = "settle"]
          /\ wstate' = [wstate EXCEPT ![w] = "STOP"]
          /\ UNCHANGED <<lo, inSize, free, state>>
      BY <2>10 DEF WorkerError, thrVars
    <3>2. "error" \in AtWork \ {"return"} /\ "error" \notin Idling
      BY DEF AtWork, Idling
    <3>3. state[w] \in {"RUN", "FINISH"} /\ Owns(w) /\ w \notin Range(free)
      BY <2>4, <3>1, <3>2 DEF Placed, WorkerOK, Busy, Owns
    <3>4. bufsUsed > 0
      <4>1. outbuf[w] \in Slots
        BY <2>3, <3>3 DEF HoldersOK, OwnersOK
      <4>2. PICK k \in 1..bufsUsed : outbuf[w] = Slot(k)
        BY <4>1 DEF Slots
      <4> QED
        BY <4>2 DEF Types, QueueTypes
    <3>5. wpc'[w] = "settle" /\ state'[w] = state[w]
      BY <3>1 DEF Types, PlaceTypes
    <3>6. Placed(w)'
      <4>1. Busy(w)' /\ w \notin Range(free')
        BY <3>1, <3>3, <3>5 DEF Busy
      <4> QED
        BY <3>1, <3>3, <3>5, <4>1, Apart DEF Placed
    <3>7. \A v \in Made : v # w =>
           /\ UNCHANGED <<state[v], wpc[v], wstate[v], lo[v], inSize[v]>>
           /\ v \in Range(free') <=> v \in Range(free)
      BY <2>4, <3>1 DEF Types, PlaceTypes
    <3>8. UNCHANGED <<state[w], lo[w], inSize[w]>> /\ wpc[w] \notin Idling
          /\ IsInjective(free') /\ Range(free') \subseteq Made
      BY <2>5, <3>1, <3>2
    <3> QED
      BY <1>1, <1>3, <2>3, <3>1, <3>4, <3>6, <3>7, <3>8, OneLive
  <2>11. CASE WorkerSettle(w)
    <3>1. /\ wpc[w] = "settle" /\ wpc' = [wpc EXCEPT ![w] = "return"]
          /\ state' = [state EXCEPT ![w] = "IDLE"]
          /\ UNCHANGED <<lo, inSize, free, threadError, wstate>>
    <4>1. state[w] # "EXIT"
      BY <2>4 DEF Placed
    <4> QED
      BY <2>11, <4>1 DEF WorkerSettle
    <3>2. "settle" \notin Idling /\ "return" \in AtWork
      BY DEF AtWork, Idling
    <3>3. Busy(w) /\ w \notin Range(free) /\ (threadError \/ (wstate[w] = "FINISH" /\ state[w] = "FINISH"))
      BY <2>4, <3>1 DEF Placed, Busy
    <3>4. wpc'[w] = "return" /\ state'[w] = "IDLE"
      BY <3>1 DEF Types, PlaceTypes, ThreadTypes
    <3>5. Placed(w)'
      <4>1. Busy(w)' /\ w \notin Range(free')
        BY <3>1, <3>3, <3>4 DEF Busy
      <4> QED
        BY <3>1, <3>2, <3>3, <3>4, <4>1 DEF Placed
    <3>6. \A v \in Made : v # w =>
           /\ UNCHANGED <<state[v], wpc[v], wstate[v], lo[v], inSize[v]>>
           /\ v \in Range(free') <=> v \in Range(free)
      BY <2>4, <3>1 DEF Types, PlaceTypes, ThreadTypes
    <3>7. wpc[w] \notin Idling /\ (thr = w => threadError /\ state'[w] = "IDLE")
      <4>1. ASSUME thr = w PROVE threadError
        <5>1. mpc # "reset" /\ thr # 0
          BY <2>3, <2>6, <3>1, <3>2, <4>1, MadeThreads DEF Made
        <5>2. (state[w] = "IDLE" /\ threadError) \/ state[w] = "RUN"
          BY <2>1, <4>1, <5>1 DEF ThrOK
        <5> QED
          BY <3>3, <5>2
      <4> QED
        BY <3>1, <3>2, <3>4, <4>1
    <3>8. UNCHANGED threadError /\ IsInjective(free') /\ Range(free') \subseteq Made
      BY <2>5, <3>1
    <3> QED
      BY <1>1, <1>3, <2>3, <3>5, <3>6, <3>7, <3>8, OneLive
  <2>12. CASE WorkerReturn(w)
    <3>1. /\ wpc[w] = "return" /\ wpc' = [wpc EXCEPT ![w] = "idle"]
          /\ free' = <<w>> \o free /\ wstate' = [wstate EXCEPT ![w] = "IDLE"]
          /\ lo' = [lo EXCEPT ![w] = 0] /\ inSize' = [inSize EXCEPT ![w] = 0]
          /\ UNCHANGED <<threadError, state>>
      BY <2>12 DEF WorkerReturn
    <3>2. "return" \notin Idling /\ "return" \in AtWork /\ "idle" \in Idling
          /\ "idle" \notin {"settle", "return"}
      BY DEF AtWork, Idling
    <3>3. Busy(w) /\ w \notin Range(free) /\ state[w] = "IDLE" /\ ~(mpc = "reset" /\ thr = w)
      BY <2>4, <2>6, <3>1, <3>2 DEF Placed, Busy, WorkerOK
    <3>4. IsInjective(free') /\ Range(free') = Range(free) \union {w}
      BY <2>5, <3>1, <3>3, Pushed DEF Types, CoderTypes
    <3>5. wpc'[w] = "idle" /\ state'[w] = "IDLE"
      BY <3>1, <3>3 DEF Types, PlaceTypes
    <3>6. Placed(w)'
      <4>1. ~Busy(w)' /\ w \in Range(free') /\ ~(mpc' = "reset" /\ thr' = w)
        BY <2>7, <3>2, <3>3, <3>4, <3>5 DEF Busy
      <4> QED
        BY <3>2, <3>5, <4>1 DEF Placed
    <3>7. \A v \in Made : v # w =>
           /\ UNCHANGED <<state[v], wpc[v], wstate[v], lo[v], inSize[v]>>
           /\ v \in Range(free') <=> v \in Range(free)
      BY <2>4, <3>1, <3>4 DEF Types, PlaceTypes, ThreadTypes
    <3>8. wpc[w] \notin Idling /\ (thr = w => threadError /\ state'[w] = "IDLE")
      <4>1. ASSUME thr = w PROVE threadError
        <5>1. mpc # "reset" /\ thr # 0
          BY <2>3, <3>3, <4>1, MadeThreads DEF Made
        <5>2. (state[w] = "IDLE" /\ threadError) \/ state[w] = "RUN"
          BY <2>1, <4>1, <5>1 DEF ThrOK
        <5> QED
          BY <3>3, <5>2
      <4> QED
        BY <3>1, <3>2, <3>5, <4>1
    <3>9. UNCHANGED threadError /\ Range(free') \subseteq Made
      BY <2>3, <2>5, <3>1, <3>4
    <3> QED
      BY <1>1, <1>3, <2>3, <3>4, <3>6, <3>7, <3>8, <3>9, OneLive
  <2> QED
    BY <2>8, <2>9, <2>10, <2>11, <2>12 DEF Worker
<1> QED
  BY <1>2, <1>3

-----------------------------------------------------------------------------
(* Every step of main and of the workers keeps what is safe                *)

Safe == Types /\ HoldersOK /\ PhaseOK /\ LiveOK

AppStep ==
  \/ \E a \in Actions, n \in 0..MostInput, r \in Rooms : Call(a, n, r)
  \/ \E m \in Threads : StartStream(m)
  \/ EndEncoder \/ Stopped
StopStep == TellStop \/ TellExit \/ Settle \/ Join

LEMMA Steps ==
  ASSUME Next
  PROVE  AppStep \/ InCallStep \/ StopStep \/ SpuriousWake \/ \E w \in Threads : Worker(w)
BY DEF Next, CallStep, AppStep, InCallStep, StopStep

LEMMA InitSafe ==
  ASSUME Init
  PROVE  Safe
<1>1. /\ plan \in Plans /\ stream = 0 /\ given = 0 /\ marks = {} /\ action = "RUN" /\ room = 0
      /\ result = "end" /\ max = 0 /\ initialized = 0 /\ sequence = "block" /\ inPos = 0 /\ thr = 0
      /\ free = <<>> /\ threadError = FALSE /\ written = <<>>
      /\ bufs = [i \in Ring |-> Unset] /\ bufsAllocated = 0 /\ bufsPos = 0 /\ bufsUsed = 0 /\ readPos = 0
      /\ state = [w \in Threads |-> "IDLE"] /\ lo = [w \in Threads |-> 0]
      /\ inSize = [w \in Threads |-> 0] /\ outbuf = [w \in Threads |-> 0]
      /\ mpc = "app" /\ idx = 0 /\ wpc = [w \in Threads |-> "none"]
      /\ wstate = [w \in Threads |-> "IDLE"]
  BY DEF Init
<1>2. Made = {}
  BY <1>1 DEF Made
<1>3. Types
  <2>1. Len(plan) \in Nat
    BY ONLY <1>1, PlanBounds, LenProperties
  <2>2. CallTypes
    BY <1>1, <2>1, MainSteps DEF CallTypes
  <2>3. CoderTypes
    <3>1. free \in Seq(Threads) /\ written \in Seq(BlockType)
      BY <1>1, EmptySeq
    <3>2. max \in 0..MaxThreads /\ initialized \in 0..MaxThreads /\ inPos \in Nat /\ thr \in 0..MaxThreads
      BY <1>1, Numbers
    <3> QED
      BY <1>1, <3>1, <3>2 DEF CoderTypes
  <2>4. QueueTypes
    <3>1. Unset \in [finished : {"unset", "no", "yes"}, block : BlockType]
      BY Blocks DEF Unset
    <3> QED
      BY <1>1, <3>1 DEF QueueTypes
  <2>5. ThreadTypes
    <3>1. 0 \in Ring /\ 0 \in 0..BlockSize
      BY Numbers DEF Ring
    <3> QED
      BY <1>1, <3>1, MainSteps DEF ThreadTypes
  <2>6. PlaceTypes
    BY <1>1, MainSteps DEF PlaceTypes
  <2> QED
    BY <2>2, <2>3, <2>4, <2>5, <2>6 DEF Types
<1>4. HoldersOK
  <2>1. Slots = {}
    BY <1>1 DEF Slots
  <2>2. RingOK
    BY <1>1, <2>1, Numbers DEF RingOK, BlockUnits
  <2> QED
    BY <1>2, <2>2 DEF HoldersOK, OwnersOK, WorkersOK
<1>5. PhaseOK
  <2>1. MainPhase
    BY <1>1, Places DEF MainPhase
  <2>2. ThreadPhase
    BY <1>1, Places DEF ThreadPhase
  <2> QED
    BY <2>1, <2>2 DEF PhaseOK
<1>6. ~Live
  BY <1>1 DEF Live, Streaming
<1> QED
  BY <1>3, <1>4, <1>5, <1>6 DEF Safe, LiveOK

LEMMA CallSafe ==
  ASSUME Safe, InCallStep
  PROVE  Safe'
<1>1. Types /\ HoldersOK /\ RingOK /\ PhaseOK /\ MainPhase /\ ThreadPhase /\ LiveOK
  BY DEF Safe, HoldersOK, PhaseOK
<1>2. MainGoesOn /\ MainPhase'
  BY <1>1, CallGoesOn, CallMainPhase
<1>3. mpc \in Calling
  BY <1>2 DEF MainGoesOn
<1>4. InputOK /\ ThrOK /\ inPos <= given /\ given <= MostInput /\ inPos <= MostInput
  <2>1. InputOK /\ ThrOK /\ inPos <= given /\ given <= MostInput
    BY <1>1, <1>3, CallIsLive
  <2> QED
    BY <1>1, <2>1, PlanBounds DEF Types, CallTypes, CoderTypes
<1>5. CASE Read
  BY <1>1, <1>5, ReadTypes, ReadHolders, ReadLive, <1>2, CallThreadPhase, ReadCases DEF Safe, PhaseOK, ResetThread
<1>6. CASE InDone \/ PopThread \/ BlockError \/ WaitForWork \/ EncodeIndex \/ TimeOut
  <2>1. Types'
    BY <1>1, <1>6, QuietTypes, AppTypes
  <2>2. HoldersOK'
    BY <1>1, <1>6, <2>1, QuietIs, QuietHolders
  <2>3. ResetThread => thr \in Threads
    BY <1>6 DEF InDone, PopThread, BlockError, WaitForWork, EncodeIndex, TimeOut, ResetThread
  <2>4. ThreadPhase'
    BY <1>1, <2>3, CallThreadPhase
  <2>5. LiveOK'
    BY <1>1, <1>6, <2>1, InDoneLive, PopThreadLive, WaitLive
  <2> QED
    BY <1>2, <2>1, <2>2, <2>4, <2>5 DEF Safe, PhaseOK
<1>7. CASE NewThread
  <2>1. ResetThread => thr \in Threads
    BY <1>7 DEF NewThread, ResetThread
  <2>2. Types' /\ HoldersOK' /\ ThreadPhase'
    BY <1>1, <1>7, <2>1, NewThreadTypes, NewThreadHolders, CallThreadPhase
  <2> QED
    BY <1>1, <1>2, <1>7, <2>2, NewThreadLive DEF Safe, PhaseOK
<1>8. CASE ResetThread
  <2>1. thr \in Made /\ thr \in Threads /\ wpc[thr] \in Idling /\ HasBuf
    BY <1>1, <1>4, <1>8, MadeThreads DEF ThrOK, ResetThread, Made, Types, CoderTypes
  <2>2. Types'
    BY <1>1, <1>8, <2>1, ResetThreadTypes
  <2>3. HoldersOK' /\ ThreadPhase'
    BY <1>1, <1>4, <1>8, <2>1, <2>2, ResetThreadHolders, CallThreadPhase
  <2> QED
    BY <1>1, <1>2, <1>8, <2>2, <2>3, ResetThreadLive DEF Safe, PhaseOK
<1>9. CASE Put
  <2>1. mpc = "in" /\ thr # 0 /\ ~ResetThread
    BY <1>9 DEF Put, ResetThread
  <2>2. /\ thr \in Made /\ thr \in Threads
        /\ \/ state[thr] = "IDLE"
           \/ /\ state[thr] = "RUN" /\ lo[thr] + inSize[thr] = inPos
              /\ inSize[thr] = 0 => InputLeft
    BY <1>1, <2>1, ThrHas
  <2>3. Types'
    BY <1>1, <1>4, <1>9, <2>2, PutTypes
  <2>4. HoldersOK'
    BY <1>1, <1>4, <1>9, <2>2, <2>3, PutHolders
  <2>5. ThreadPhase'
    BY <1>1, <2>1, CallThreadPhase
  <2> QED
    BY <1>1, <1>2, <1>9, <2>3, <2>4, <2>5, PutLive DEF Safe, PhaseOK
<1> QED
  BY <1>5, <1>6, <1>7, <1>8, <1>9 DEF InCallStep

LEMMA AppSafe ==
  ASSUME Safe, AppStep, Reuses \subseteq {"end"}
  PROVE  Safe'
<1>1. Types /\ HoldersOK /\ PhaseOK /\ MainPhase /\ ThreadPhase /\ LiveOK
  BY DEF Safe, PhaseOK
<1>2. Types'
  BY <1>1, CallTypesOK, RestartTypes, AppTypes DEF AppStep
<1>3. HoldersOK'
  BY <1>1, <1>2, QuietIs, QuietHolders DEF AppStep
<1>4. MainPhase' /\ ThreadPhase'
  BY <1>1, AppMainPhase, AppThreadPhase DEF AppStep
<1>5. LiveOK'
  <2>1. CASE \E a \in Actions, n \in 0..MostInput, r \in Rooms : Call(a, n, r)
    BY <1>1, <1>2, <2>1, CallLive
  <2>2. CASE EndEncoder \/ \E m \in Threads : StartStream(m)
    <3>1. mpc' \in {"stop", "exit"}
      BY <2>2 DEF EndEncoder, StartStream
    <3> QED
      BY <3>1, NotLive DEF Stopping, Ending
  <2>3. CASE Stopped
    <3>1. max' = 0 /\ max = 0
      BY <2>3 DEF Stopped, vars
    <3> QED
      BY <3>1 DEF LiveOK, Live, Streaming
  <2> QED
    BY <2>1, <2>2, <2>3 DEF AppStep
<1> QED
  BY <1>2, <1>3, <1>4, <1>5 DEF Safe, PhaseOK

LEMMA OtherSafe ==
  ASSUME Safe, StopStep \/ SpuriousWake
  PROVE  Safe'
<1>1. Types /\ HoldersOK /\ PhaseOK /\ MainPhase /\ ThreadPhase /\ LiveOK
  BY DEF Safe, PhaseOK
<1>2. CASE StopStep
  <2>1. Types'
    BY <1>1, <1>2, StopTypes DEF StopStep
  <2>2. HoldersOK'
    BY <1>1, <1>2, <2>1, TellHolders, SettleHolders, JoinHolders DEF StopStep
  <2>3. MainPhase' /\ ThreadPhase' /\ LiveOK'
    BY <1>1, <1>2, <2>1, StopMainPhase, StopThreadPhase, StopLive DEF StopStep
  <2> QED
    BY <2>1, <2>2, <2>3 DEF Safe, PhaseOK
<1>3. CASE SpuriousWake
  <2>1. Types'
    BY <1>1, <1>3, AppTypes
  <2>2. HoldersOK' /\ MainPhase' /\ ThreadPhase'
    BY <1>1, <1>3, <2>1, QuietIs, QuietHolders, WorkerLeavesMain, WorkerMainPhase, QuietThreadPhase
  <2>3. LiveOK'
    BY <1>1, <1>3, <2>1, WakeLive
  <2> QED
    BY <2>1, <2>2, <2>3 DEF Safe, PhaseOK
<1> QED
  BY <1>2, <1>3

LEMMA WorkerSafe ==
  ASSUME Safe, NEW w \in Threads, Worker(w)
  PROVE  Safe'
<1>1. Types /\ HoldersOK /\ PhaseOK /\ MainPhase /\ ThreadPhase /\ LiveOK
  BY DEF Safe, PhaseOK
<1>2. Types'
  BY <1>1, WorkerTypes
<1>3. HoldersOK'
  BY <1>1, <1>2, WorkHolders, IdleHolders, ErrorHolders, ReturnHolders DEF Worker
<1>4. MainPhase' /\ ThreadPhase'
  BY <1>1, <1>2, WorkerLeavesMain, WorkerMainPhase, WorkerThreadPhase
<1>5. LiveOK'
  BY <1>1, <1>2, WorkerLive
<1> QED
  BY <1>2, <1>3, <1>4, <1>5 DEF Safe, PhaseOK

LEMMA StutterSafe ==
  ASSUME Safe, UNCHANGED vars
  PROVE  Safe'
<1>1. /\ UNCHANGED <<plan, stream, given, marks, action, room, result, faults, max, initialized,
                     sequence, inPos, thr, free, threadError, written, bufs, bufsAllocated, bufsPos,
                     bufsUsed, readPos>>
      /\ UNCHANGED <<state, lo, inSize, outbuf, mpc, idx, wpc, wstate, wsize>>
  BY DEF vars, appVars, outq, thrVars, wVars
<1>2. Types'
  BY <1>1, TypesKept DEF Safe, Types, outq, thrVars
<1>3. HoldersOK'
  BY <1>1, <1>2, SameIsSame, QuietHolders DEF Quiet, outq, thrVars, Safe
<1>4. PhaseOK'
  BY <1>1 DEF Safe, PhaseOK, MainPhase, ThreadPhase, AllFree, Made
<1>5. LiveOK'
  BY <1>1 DEF Safe, LiveOK, Live, Streaming, InputOK, FreeOK, Placed, Busy, Made, ThrOK, IndexOK,
              InputLeft, HasBuf
<1> QED
  BY <1>2, <1>3, <1>4, <1>5 DEF Safe

LEMMA StepSafe ==
  ASSUME Safe, [Next]_vars, Reuses \subseteq {"end"}
  PROVE  Safe'
BY Steps, AppSafe, CallSafe, OtherSafe, WorkerSafe, StutterSafe

(* In the stream that a program encodes, each worker, buffer and thread is *)
(* in the hands of one, wherever the others are.                           *)
THEOREM Invariant == Reuses \subseteq {"end"} => (Spec => []Safe)
<1> SUFFICES ASSUME Reuses \subseteq {"end"} PROVE Spec => []Safe
  OBVIOUS
<1>1. Safe /\ [Next]_vars => Safe'
  BY StepSafe
<1> QED
  BY InitSafe, <1>1, PTL DEF Spec

-----------------------------------------------------------------------------
(* The blocks in the ring follow each other in the input                   *)

LEMMA Cuts ==
  ASSUME Types
  PROVE  /\ marks \subseteq Nat
         /\ \A p \in Nat : CutAfter(p) = CutIn(marks, p) /\ CutAfter(p) \in Nat /\ p < CutAfter(p)
BY CutIs DEF CutAfter, CutIn, Types, CallTypes

(* Where a block ends does not change once the input is there.             *)
CutsKept ==
  \A p \in Nat : CutAfter(p) <= inPos => CutAfter(p)' = CutAfter(p)

LEMMA SameCuts ==
  ASSUME UNCHANGED marks
  PROVE  CutsKept
BY DEF CutsKept, CutAfter

LEMMA CallCuts ==
  ASSUME Types, Types', inPos <= given', marks' = marks \/ marks' = marks \union {given'}
  PROVE  CutsKept
<1>1. CASE marks' = marks
  BY <1>1, SameCuts
<1>2. CASE marks' = marks \union {given'}
  <2>1. ASSUME NEW p \in Nat, CutAfter(p) <= inPos
        PROVE  CutAfter(p)' = CutAfter(p)
    <3>1. PICK g : g = given'
      OBVIOUS
    <3>2. marks \subseteq Nat /\ CutIn(marks, p) = CutAfter(p) /\ CutAfter(p) \in Nat
      BY Cuts
    <3>3. g \in Nat /\ inPos \in Nat
      BY <3>1 DEF Types, CallTypes, CoderTypes
    <3>4. CutIn(marks, p) <= g
      BY <2>1, <3>1, <3>2, <3>3
    <3>5. CutIn(marks \union {g}, p) = CutIn(marks, p)
      BY ONLY <3>2, <3>3, <3>4, p \in Nat, CutKept
    <3>6. CutAfter(p)' = CutIn(marks \union {g}, p)
      BY <1>2, <3>1 DEF CutAfter, CutIn
    <3> QED
      BY <3>2, <3>5, <3>6
  <2> QED
    BY <2>1 DEF CutsKept
<1> QED
  BY <1>1, <1>2

(* A worker has what it had.                                               *)
HasSame(w) ==
  SamePlace(wpc[w], wpc'[w]) /\ UNCHANGED <<state[w], lo[w], inSize[w], outbuf[w]>>

LEMMA FillsSame ==
  ASSUME Types, Types', NEW w \in Threads, HasSame(w)
  PROVE  \A i, p, q : Fills(w, i, p, q) => Fills(w, i, p, q)'
<1>1. wpc[w] \in WorkerStates /\ wpc'[w] \in WorkerStates
  BY DEF Types, PlaceTypes
<1>2. /\ wpc[w] \in AtWork <=> wpc'[w] \in AtWork
      /\ wpc[w] \in Idling <=> wpc'[w] \in Idling
      /\ wpc[w] = "return" <=> wpc'[w] = "return"
  BY <1>1, SameHolding DEF HasSame
<1>3. Owns(w)' <=> Owns(w)
  BY <1>2 DEF Owns, HasSame
<1> QED
  BY <1>2, <1>3 DEF Fills, HasSame

(* A chain is kept if each of its blocks is.                               *)
LEMMA ChainKept ==
  ASSUME Types, Chained, UNCHANGED <<inPos, written, bufsAllocated, bufsPos, bufsUsed>>,
         \A i \in Slots : \A p, q \in Nat : Whole(i, p, q) => Whole(i, p, q)',
         \A i \in Slots : \A p \in Nat : Begun(i, p) => Begun(i, p)'
  PROVE  Chained'
<1>1. PICK e \in [0..bufsUsed -> 0..inPos] : Cut(e)
  BY DEF Chained
<1>2. bufsUsed \in Nat /\ inPos \in Nat
  BY DEF Types, QueueTypes, CoderTypes
<1>3. \A k : Slot(k)' = Slot(k)
  BY SlotsSame
<1>4. ASSUME NEW k \in 1..bufsUsed
      PROVE  \/ Whole(Slot(k), e[k - 1], e[k])'
             \/ k = bufsUsed /\ Begun(Slot(k), e[k - 1])'
  <2>1. PICK i, p, q : i = Slot(k) /\ p = e[k - 1] /\ q = e[k]
    OBVIOUS
  <2>2. i \in Slots /\ p \in Nat /\ q \in Nat
    <3>1. k - 1 \in 0..bufsUsed /\ k \in 0..bufsUsed
      BY <1>2
    <3> QED
      BY <1>2, <2>1, <3>1 DEF Slots
  <2>3. Whole(i, p, q) \/ (k = bufsUsed /\ Begun(i, p))
    BY <1>1, <2>1 DEF Cut
  <2>4. Whole(i, p, q)' \/ (k = bufsUsed /\ Begun(i, p)')
    BY <2>2, <2>3
  <2>5. Slot(k)' = i
    BY <1>3, <2>1
  <2> QED
    BY <2>1, <2>4, <2>5
<1>5. WrittenEnd(Len(written))' = WrittenEnd(Len(written))
  BY DEF WrittenEnd
<1>6. Cut(e)'
  BY <1>1, <1>4, <1>5 DEF Cut
<1> QED
  BY <1>1, <1>6 DEF Chained

LEMMA QuietChain ==
  ASSUME Types, Types', Chained, CutsKept,
         UNCHANGED <<stream, inPos, written, bufs, bufsAllocated, bufsPos, bufsUsed>>,
         \A w \in Made : w \in Made' /\ HasSame(w),
         \A i \in Slots : \A p \in Nat : Begun(i, p) => Begun(i, p)'
  PROVE  Chained'
<1>1. ASSUME NEW i \in Slots, NEW p \in Nat, NEW q \in Nat, Whole(i, p, q)
      PROVE  Whole(i, p, q)'
  <2>1. q = CutAfter(p)' /\ q <= inPos'
    BY <1>1 DEF CutsKept, Whole
  <2>2. CASE bufs[i].finished = "yes" /\ bufs[i].block = BlockOf(stream, p, q)
    BY <2>1, <2>2 DEF Whole
  <2>3. CASE \E w \in Made : Fills(w, i, p, q)
    <3>1. PICK w \in Made : Fills(w, i, p, q)
      BY <2>3
    <3>2. Fills(w, i, p, q)'
      BY <3>1, FillsSame, MadeThreads
    <3> QED
      BY <2>1, <3>1, <3>2 DEF Whole
  <2> QED
    BY <1>1, <2>2, <2>3 DEF Whole
<1> QED
  BY <1>1, ChainKept

LEMMA Ends ==
  ASSUME Types
  PROVE  /\ \A k \in 0..Len(written) : WrittenEnd(k) \in Nat
         /\ DOMAIN written = 1..Len(written) /\ Len(written) \in Nat
         /\ \A k \in DOMAIN written : written[k].hi \in Nat
<1>1. DOMAIN written = 1..Len(written) /\ Len(written) \in Nat /\ \A k \in 1..Len(written) : written[k] \in BlockType
  BY DEF Types, CoderTypes
<1>2. \A k \in 1..Len(written) : written[k].hi \in Nat
  BY <1>1 DEF BlockType
<1>3. \A k \in 0..Len(written) : k = 0 \/ k \in 1..Len(written)
  BY <1>1
<1> QED
  BY <1>1, <1>2, <1>3 DEF WrittenEnd

LEMMA CopiedKept ==
  ASSUME Types, Copied, CutsKept, UNCHANGED <<stream, written>>, inPos <= inPos', inPos' \in Nat
  PROVE  Copied'
<1>1. ASSUME NEW k \in DOMAIN written
      PROVE  /\ written'[k] = BlockOf(stream', WrittenEnd(k - 1)', CutAfter(WrittenEnd(k - 1))')
             /\ written'[k].hi <= inPos'
  <2>1. PICK p : p = WrittenEnd(k - 1)
    OBVIOUS
  <2>2. p \in Nat /\ written[k].hi \in Nat
    <3>1. k - 1 \in 0..Len(written)
      BY Ends
    <3> QED
      BY <2>1, <3>1, Ends
  <2>3. written[k] = BlockOf(stream, p, CutAfter(p)) /\ written[k].hi <= inPos
    BY <2>1 DEF Copied
  <2>4. CutAfter(p) <= inPos
    BY <2>3 DEF BlockOf
  <2>5. CutAfter(p)' = CutAfter(p)
    BY <2>2, <2>4 DEF CutsKept
  <2>6. WrittenEnd(k - 1)' = p
    BY <2>1 DEF WrittenEnd
  <2>7. CutAfter(WrittenEnd(k - 1))' = CutAfter(p)'
    BY <2>6 DEF CutAfter
  <2>8. inPos \in Nat
    BY DEF Types, CoderTypes
  <2>9. written'[k].hi <= inPos'
    <3>1. PICK h : h = written[k].hi
      OBVIOUS
    <3> QED
      BY <2>2, <2>3, <2>8, <3>1
  <2> QED
    BY <2>3, <2>5, <2>6, <2>7, <2>9
<1> QED
  BY <1>1 DEF Copied

LEMMA EncodedSame ==
  ASSUME Types, Types', EncodedOK, UNCHANGED <<stream, thr, bufs>>, Made' = Made,
         \A w \in Made : HasSame(w) /\ UNCHANGED wstate[w]
  PROVE  EncodedOK'
<1>1. Made \subseteq Threads
  BY MadeThreads
<1>2. ASSUME NEW w \in Made
      PROVE  /\ state'[w] = state[w] /\ lo'[w] = lo[w] /\ inSize'[w] = inSize[w] /\ outbuf'[w] = outbuf[w]
             /\ wstate'[w] = wstate[w]
             /\ wpc'[w] \in {"settle", "return"} <=> wpc[w] \in {"settle", "return"}
  <2>1. wpc[w] \in WorkerStates /\ wpc'[w] \in WorkerStates /\ SamePlace(wpc[w], wpc'[w])
    BY <1>1 DEF Types, PlaceTypes, HasSame
  <2> QED
    BY <2>1, SameHolding DEF HasSame
<1> QED
  BY <1>2 DEF EncodedOK

(* The part of the invariant that is about the order of the blocks.        *)
Ordered == WrittenOK /\ ChainOK

(* Steps of main that do not touch the ring nor the workers.               *)
LEMMA MovesOrdered ==
  ASSUME Types, Types', Ordered, Streaming, CutsKept,
         UNCHANGED <<stream, inPos, written, bufs, bufsAllocated, bufsPos, bufsUsed, thr, threadError,
                     state, lo, inSize, outbuf, initialized, wstate>>,
         \A w \in Made : SamePlace(wpc[w], wpc'[w]),
         Live' => Live /\ Completed',
         \A i \in Slots : \A p \in Nat : ~threadError /\ Live' /\ Begun(i, p) => Begun(i, p)'
  PROVE  Ordered'
<1>2. Copied'
  BY CopiedKept DEF Ordered, WrittenOK, Types, CoderTypes
<1>3. WrittenOK'
  BY <1>2 DEF WrittenOK, Live
<1>4. Made' = Made
  BY DEF Made
<1>5. ChainOK'
  <2>1. SUFFICES ASSUME Live', ~threadError
                 PROVE  Chained' /\ EncodedOK'
    BY DEF ChainOK
  <2>2. Chained /\ EncodedOK
    BY <2>1 DEF ChainOK, Ordered
  <2>3. \A w \in Made : HasSame(w)
    BY DEF HasSame
  <2>4. Chained'
    BY <1>4, <2>1, <2>2, <2>3, QuietChain
  <2>5. EncodedOK'
    BY <1>4, <2>2, <2>3, EncodedSame
  <2> QED
    BY <2>4, <2>5
<1> QED
  BY <1>3, <1>5 DEF Ordered

LEMMA CallOrdered ==
  ASSUME Safe, Types', Ordered, NEW a \in Actions, NEW n \in 0..MostInput, NEW r \in Rooms,
         Call(a, n, r)
  PROVE  Ordered'
<1>1. /\ mpc = "app" /\ max > 0 /\ given' = given + n
      /\ \/ result \in {"ok", "timed_out"} /\ (action = "RUN" \/ (a = action /\ n = 0))
         \/ result = "end" /\ action # "FINISH"
      /\ action' = a /\ marks' = (IF a = "RUN" THEN marks ELSE marks \union {given'})
      /\ mpc' = (IF sequence = "block" THEN "read" ELSE "index")
      /\ UNCHANGED <<stream, result, initialized, max, sequence, inPos, thr, written, outq,
                     threadError, wpc, state, wstate, lo, inSize, outbuf>>
  BY DEF Call, thrVars, wVars
<1>2. Live /\ Streaming
  BY <1>1 DEF Live, Streaming
<1>3. Types /\ LiveOK /\ InputOK /\ ThrOK /\ IndexOK
  BY <1>2 DEF Safe, LiveOK
<1>4. n \in Nat /\ given \in Nat /\ inPos \in Nat
  BY <1>3, PlanBounds DEF Types, CallTypes, CoderTypes
<1>5. inPos <= given'
  BY <1>1, <1>3, <1>4 DEF InputOK
<1>6. CutsKept
  BY <1>1, <1>3, <1>5, CallCuts
<1>7. mpc' \in {"read", "index"}
  BY <1>1
<1>8. Completed'
  <2>1. CASE sequence = "index"
    <3>1. action = "FINISH"
      BY <1>3, <2>1 DEF IndexOK
    <3>2. n = 0 /\ given' = given
      BY <1>1, <1>4, <3>1
    <3>3. WrittenEnd(Len(written)) = given
      BY <1>2, <2>1 DEF Ordered, WrittenOK, Completed, Live
    <3> QED
      BY <1>1, <3>2, <3>3 DEF Completed, WrittenEnd
  <2>2. CASE sequence # "index"
    BY <1>1, <1>7, <2>2 DEF Completed
  <2> QED
    BY <2>1, <2>2
<1>9. ASSUME NEW i \in Slots, NEW p \in Nat, Begun(i, p)
      PROVE  Begun(i, p)'
  <2>1. thr # 0 /\ outbuf[thr] = i /\ lo[thr] = p
        /\ \A m \in marks : m <= p \/ (m = given /\ action # "RUN")
    BY <1>9 DEF Begun
  <2>2. result # "end"
    BY <1>1, <1>3, <2>1 DEF IndexOK
  <2>3. action = "RUN" \/ (a = action /\ n = 0)
    BY <1>1, <2>2
  <2>4. ASSUME NEW m \in marks'
        PROVE  m <= p \/ (m = given' /\ action' # "RUN")
    <3>1. CASE m \in marks
      <4>1. action # "RUN" => given' = given /\ action' # "RUN"
        BY <1>1, <1>4, <2>3
      <4> QED
        BY <2>1, <3>1, <4>1
    <3>2. CASE m \notin marks
      BY <1>1, <2>4, <3>2
    <3> QED
      BY <3>1, <3>2
  <2> QED
    BY <1>1, <1>7, <2>1, <2>4 DEF Begun
<1>10. \A w \in Made : SamePlace(wpc[w], wpc'[w])
  BY <1>1, SameIsSame
<1>11. UNCHANGED <<bufs, bufsAllocated, bufsPos, bufsUsed>>
  BY <1>1 DEF outq
<1> QED
  BY <1>1, <1>2, <1>3, <1>6, <1>8, <1>9, <1>10, <1>11, MovesOrdered

(* Input is with the workers or in the output.                             *)
LEMMA AllWritten ==
  ASSUME Types, Chained, bufsUsed = 0
  PROVE  WrittenEnd(Len(written)) = inPos
BY DEF Chained, Cut

LEMMA QuietOrdered ==
  ASSUME Safe, Safe', Ordered, InDone \/ BlockError \/ WaitForWork \/ EncodeIndex \/ TimeOut
  PROVE  Ordered'
<1>1. mpc \in {"in", "block_error", "work", "index", "work_wait"} /\ mpc \in Calling
  BY DEF InDone, BlockError, WaitForWork, EncodeIndex, TimeOut, Calling
<1>2. Types /\ PhaseOK /\ LiveOK /\ Types'
  BY DEF Safe
<1>3. Live /\ Streaming /\ InputOK /\ ThrOK /\ IndexOK /\ (mpc # "index" => sequence = "block")
  BY <1>1, <1>2, CallIsLive DEF Live
<1>4. /\ UNCHANGED <<stream, given, marks, action, inPos, written, bufs, bufsAllocated, bufsPos, bufsUsed, thr,
                     threadError>>
      /\ UNCHANGED <<state, lo, inSize, outbuf, initialized, wpc, wstate>>
  BY DEF InDone, BlockError, WaitForWork, EncodeIndex, TimeOut, appVars, outq, thrVars, wVars
<1>5. mpc' \in {"app", "work", "index", "work_wait", "read", "stop_error"}
  <2>1. CASE InDone
    BY <1>2, <2>1, Deciding DEF InDone
  <2>2. CASE BlockError
    BY <1>2, <2>2, Deciding DEF BlockError, Fails
  <2>3. CASE WaitForWork \/ EncodeIndex \/ TimeOut
    BY <2>3 DEF WaitForWork, EncodeIndex, TimeOut, Result
  <2> QED
    BY <2>1, <2>2, <2>3
<1>6. \A i \in Slots : \A p \in Nat : Begun(i, p) => Begun(i, p)'
  <2>1. mpc' # "reset"
    BY <1>5
  <2> QED
    BY <1>4, <2>1 DEF Begun
<1>7. Live' => Completed'
  <2>1. SUFFICES ASSUME Live'
                 PROVE  Completed'
    OBVIOUS
  <2>2. IndexOK' /\ InputOK'
    BY <2>1 DEF Safe, LiveOK
  <2>3. CASE sequence = "index"
    <3>1. WrittenEnd(Len(written)) = given
      BY <1>3, <2>3 DEF Ordered, WrittenOK, Completed, Live
    <3> QED
      BY <1>4, <3>1 DEF Completed, WrittenEnd
  <2>4. CASE sequence # "index" /\ ~(sequence' = "index" \/ (mpc' = "app" /\ result' = "end" /\ action' # "FULL_BARRIER"))
    BY <2>4 DEF Completed
  <2>5. CASE sequence # "index" /\ (sequence' = "index" \/ (mpc' = "app" /\ result' = "end" /\ action' # "FULL_BARRIER"))
    <3>1. InDone
      <4>1. CASE BlockError
        <5>1. threadError
          BY <1>3, <4>1 DEF BlockError, ThrOK
        <5> QED
          BY <2>1, <4>1, <5>1 DEF BlockError, Fails, Live
      <4>2. CASE WaitForWork \/ TimeOut
        <5>1. sequence' = sequence /\ (mpc' = "app" => result' = "timed_out")
          BY <4>2 DEF WaitForWork, TimeOut, Result
        <5> QED
          BY <2>5, <5>1
      <4>3. CASE EncodeIndex
        BY <1>3, <2>5, <4>3 DEF EncodeIndex, IndexOK
      <4> QED
        BY <4>1, <4>2, <4>3
    <3>2. Decide /\ mpc = "in"
      BY <3>1 DEF InDone
    <3>3. ~InputLeft /\ bufsUsed = 0
      BY <1>4, <2>5, <3>2 DEF Decide, BeginIndex, Result
    <3>4. ~threadError
      BY <1>3, <3>2, <3>3 DEF IndexOK
    <3>5. Chained
      BY <1>3, <3>4 DEF Ordered, ChainOK
    <3>6. WrittenEnd(Len(written)) = inPos
      BY <1>2, <3>3, <3>5, AllWritten
    <3>7. inPos = given
      BY <1>2, <1>3, <3>3 DEF InputOK, InputLeft, Types, CallTypes, CoderTypes
    <3> QED
      BY <1>4, <3>6, <3>7 DEF Completed, WrittenEnd
  <2> QED
    BY <2>3, <2>4, <2>5
<1>8. \A w \in Made : SamePlace(wpc[w], wpc'[w])
  BY <1>4, SameIsSame
<1>9. CutsKept
  BY <1>4, SameCuts
<1> QED
  BY <1>2, <1>3, <1>4, <1>6, <1>7, <1>8, <1>9, MovesOrdered

LEMMA ThreadOrdered ==
  ASSUME Safe, Safe', Ordered, PopThread \/ NewThread
  PROVE  Ordered'
<1>1. mpc = "in" /\ mpc \in Calling /\ thr = 0 /\ InputLeft
  BY DEF PopThread, NewThread, Calling
<1>2. Types /\ PhaseOK /\ LiveOK /\ Types'
  BY DEF Safe
<1>3. Live /\ Streaming /\ ThrOK /\ IndexOK /\ sequence = "block"
  BY <1>1, <1>2, CallIsLive DEF Live
<1>4. /\ UNCHANGED <<stream, given, marks, action, sequence, inPos, written, bufs, bufsAllocated, bufsPos,
                     bufsUsed, threadError>>
      /\ UNCHANGED <<lo, inSize, outbuf, wstate>>
      /\ mpc' \in {"reset", "stop_error"}
  BY DEF PopThread, NewThread, appVars, outq, thrVars, wVars, Fails
<1>5. CutsKept
  BY <1>4, SameCuts
<1>6. Copied' /\ Completed'
  <2>1. Copied'
    BY <1>2, <1>3, <1>4, <1>5, CopiedKept DEF Ordered, WrittenOK, Types, CoderTypes
  <2>2. Completed'
    BY <1>3, <1>4 DEF Completed
  <2> QED
    BY <2>1, <2>2
<1>7. ChainOK'
  <2>1. SUFFICES ASSUME Live', ~threadError
                 PROVE  Chained' /\ EncodedOK'
    BY <1>4 DEF ChainOK
  <2>2. Chained /\ EncodedOK
    BY <1>3, <2>1 DEF ChainOK, Ordered
  <2>3. \A w \in Made : state[w] # "RUN" /\ w # 0
    BY <1>1, <1>2, <2>2, MadeThreads DEF EncodedOK, Made
  <2>4. /\ \A w \in Made : w \in Made' /\ state'[w] = state[w] /\ wpc'[w] = wpc[w]
        /\ \A w \in Made' : w \notin Made => state'[w] = "IDLE" /\ wpc'[w] = "idle"
    <3>1. CASE PopThread
      BY <3>1 DEF PopThread, thrVars, wVars, Made
    <3>2. CASE NewThread
      <4>1. PICK j : j = initialized + 1
        OBVIOUS
      <4>2. /\ initialized' = j /\ state' = [state EXCEPT ![j] = "IDLE"]
            /\ wpc' = [wpc EXCEPT ![j] = "idle"] /\ initialized < max
        BY <2>1, <3>2, <4>1 DEF NewThread, Live, Fails
      <4>3. j \in Threads /\ Made' = Made \union {j} /\ j \notin Made /\ Made \subseteq Threads
        <5>1. initialized \in Nat /\ max \in 0..MaxThreads
          BY <1>2, MadeThreads DEF Types, CoderTypes
        <5> QED
          BY <1>2, <4>1, <4>2, <5>1, Numbers, MadeThreads DEF Made
      <4> QED
        BY <1>2, <4>2, <4>3 DEF Types, ThreadTypes, PlaceTypes
    <3> QED
      BY <3>1, <3>2
  <2>5. \A w \in Made : w \in Made' /\ HasSame(w)
    BY <1>4, <2>4, SameIsSame DEF HasSame
  <2>6. Chained'
    <3>1. \A i \in Slots : \A p \in Nat : Begun(i, p) => Begun(i, p)'
      BY <1>1 DEF Begun
    <3> QED
      BY <1>2, <1>4, <1>5, <2>2, <2>5, <3>1, QuietChain
  <2>7. EncodedOK'
    <3>1. \A w \in Made' : state'[w] # "RUN"
      BY <2>3, <2>4
    <3>2. \A w \in Made' : wpc'[w] \in {"settle", "return"} => w \in Made
      BY <2>4
    <3> QED
      BY <1>4, <2>2, <2>4, <3>1, <3>2 DEF EncodedOK
  <2> QED
    BY <2>6, <2>7
<1> QED
  BY <1>6, <1>7 DEF Ordered, WrittenOK

(* The worker that is given input has the buffer of the newest block.      *)
LEMMA GivenOwns ==
  ASSUME Types, FreeOK, ThrOK, WorkersOK, ~threadError, thr # 0, mpc # "reset"
  PROVE  /\ thr \in Made /\ state[thr] = "RUN" /\ Owns(thr) /\ wpc[thr] \notin {"settle", "return"}
         /\ lo[thr] + inSize[thr] = inPos /\ inSize[thr] < BlockSize
<1>1. thr \in Made
  BY MadeThreads DEF ThrOK, Made, Types, CoderTypes
<1>2. state[thr] = "RUN" /\ lo[thr] + inSize[thr] = inPos /\ inSize[thr] < BlockSize
  BY DEF ThrOK
<1>3. Placed(thr) /\ WorkerOK(thr)
  BY <1>1 DEF FreeOK, WorkersOK
<1>4. wpc[thr] \in Idling \union AtWork
  BY <1>3 DEF Placed
<1>5. Owns(thr) /\ wpc[thr] \notin {"settle", "return"}
  BY <1>2, <1>3, <1>4 DEF Owns, Placed, WorkerOK
<1> QED
  BY <1>1, <1>2, <1>5

LEMMA ReadWholeOrdered ==
  ASSUME Safe, Safe', Ordered, Read, ~threadError, OutqRead, ReadWhole, ~NothingToRead
  PROVE  Ordered'
<1>1. mpc = "read" /\ mpc \in Calling
  BY ReadCases DEF Calling
<1>2. Types /\ PhaseOK /\ LiveOK /\ HoldersOK /\ RingOK /\ Types' /\ OwnersOK /\ WorkersOK
  BY DEF Safe, HoldersOK
<1>3. Live /\ Streaming /\ FreeOK /\ ThrOK /\ IndexOK /\ sequence = "block"
  BY <1>1, <1>2, CallIsLive DEF Live
<1>4. /\ UNCHANGED <<stream, given, marks, action, max, initialized, sequence, inPos, thr,
                     threadError, state, lo, inSize, outbuf, wpc, wstate, bufsAllocated, bufsPos>>
      /\ mpc' \in {"read", "in", "stop_error"} /\ bufsUsed' = bufsUsed - 1
      /\ bufs' = [bufs EXCEPT ![Oldest].block = NoBlock]
      /\ written' = Append(written, bufs[Oldest].block)
  <2>1. mpc' \in {"read", "in", "stop_error"}
    BY ReadCases DEF AfterRead, Fails
  <2> QED
    BY <2>1, ReadCases DEF OutqRead, ReadWhole, thrVars, wVars
<1>5. bufsUsed > 0 /\ bufs[Oldest].finished = "yes" /\ Oldest \in Ring
  BY <1>2, ReadIs
<1>6. /\ \A j, k \in 1..bufsUsed : Slot(j) = Slot(k) => j = k
      /\ Slot(1) = Oldest /\ Slots \subseteq Ring
  BY <1>2, <1>5, SlotsInRing
<1>7. \A k \in 1..(bufsUsed - 1) : Slot(k)' = Slot(k + 1)
  BY <1>2, <1>4, <1>5, SlotRead
<1>8. Chained /\ EncodedOK /\ Copied
  BY <1>3 DEF Ordered, ChainOK, WrittenOK
<1>9. PICK e \in [0..bufsUsed -> 0..inPos] : Cut(e)
  BY <1>8 DEF Chained
<1>10. bufsUsed \in Nat /\ inPos \in Nat
  BY <1>2 DEF Types, QueueTypes, CoderTypes
<1>11. CutsKept
  BY <1>4, SameCuts
<1>12. ASSUME NEW w \in Made, Owns(w)
       PROVE  outbuf[w] # Oldest
  BY <1>2, <1>5, <1>12 DEF OwnersOK
<1>13. /\ e[0] \in Nat /\ e[1] \in Nat /\ e[1] <= inPos /\ e[1] = CutAfter(e[0])
       /\ bufs[Oldest].block = BlockOf(stream, e[0], e[1])
  <2>1. Whole(Oldest, e[0], e[1])
    <3>1. 1 \in 1..bufsUsed /\ 1 - 1 = 0
      BY <1>5, <1>10
    <3>2. Whole(Slot(1), e[1 - 1], e[1]) \/ Begun(Slot(1), e[1 - 1])
      BY <1>9, <3>1 DEF Cut
    <3>3. ~Begun(Oldest, e[0])
      <4>1. SUFFICES ASSUME Begun(Oldest, e[0])
                     PROVE  FALSE
        OBVIOUS
      <4>2. thr # 0 /\ mpc # "reset" /\ outbuf[thr] = Oldest
        BY <4>1 DEF Begun
      <4>3. thr \in Made /\ Owns(thr)
        BY <1>2, <1>3, <4>2, GivenOwns
      <4> QED
        BY <1>12, <4>2, <4>3
    <3> QED
      BY <1>6, <3>1, <3>2, <3>3
  <2>2. ~\E w \in Made : Fills(w, Oldest, e[0], e[1])
    BY <1>12 DEF Fills
  <2>3. e[0] \in 0..inPos /\ e[1] \in 0..inPos
    BY <1>5, <1>10
  <2> QED
    BY <1>10, <2>1, <2>2, <2>3 DEF Whole
<1>14. Len(written') = Len(written) + 1 /\ Len(written) \in Nat /\ written \in Seq(BlockType)
       /\ bufs[Oldest].block \in BlockType
  BY <1>2, <1>4, <1>5 DEF Types, CoderTypes, QueueTypes
<1>15. /\ \A k \in 1..Len(written) : written'[k] = written[k]
       /\ written'[Len(written) + 1] = bufs[Oldest].block
       /\ DOMAIN written' = 1..(Len(written) + 1)
  BY <1>4, <1>14
<1>16. e[0] = WrittenEnd(Len(written))
  BY <1>9 DEF Cut
<1>17. WrittenEnd(Len(written))' = e[1]
  <2>1. WrittenEnd(Len(written))' = written'[Len(written) + 1].hi
    BY <1>14 DEF WrittenEnd
  <2> QED
    BY <1>13, <1>15, <2>1 DEF BlockOf
<1>18. Copied'
  <2>1. ASSUME NEW k \in 1..Len(written)
        PROVE  /\ WrittenEnd(k - 1)' = WrittenEnd(k - 1) /\ WrittenEnd(k - 1) \in Nat
               /\ CutAfter(WrittenEnd(k - 1))' = CutAfter(WrittenEnd(k - 1))
    <3>1. k - 1 = 0 \/ k - 1 \in 1..Len(written)
      BY <1>14
    <3>2. WrittenEnd(k - 1)' = WrittenEnd(k - 1)
      BY <1>15, <3>1 DEF WrittenEnd
    <3>3. k - 1 \in 0..Len(written)
      BY <1>14
    <3> QED
      BY <1>2, <1>4, <3>2, <3>3, Ends DEF CutAfter
  <2>2. ASSUME NEW k \in 1..Len(written)
        PROVE  /\ written'[k] = BlockOf(stream', WrittenEnd(k - 1)', CutAfter(WrittenEnd(k - 1))')
               /\ written'[k].hi <= inPos'
    <3>1. k \in DOMAIN written
      BY <1>2, Ends
    <3> QED
      BY <1>4, <1>8, <1>15, <2>1, <3>1 DEF Copied
  <2>3. ASSUME NEW k, k = Len(written) + 1
        PROVE  /\ written'[k] = BlockOf(stream', WrittenEnd(k - 1)', CutAfter(WrittenEnd(k - 1))')
               /\ written'[k].hi <= inPos'
    <3>1. k - 1 = Len(written)
      BY <1>14, <2>3
    <3>2. WrittenEnd(k - 1)' = e[0]
      <4>1. Len(written) = 0 \/ Len(written) \in 1..Len(written)
        BY <1>14
      <4>2. PICK n : n = Len(written)
        OBVIOUS
      <4>3. WrittenEnd(n)' = WrittenEnd(n)
        BY <1>15, <4>1, <4>2 DEF WrittenEnd
      <4>4. WrittenEnd(k - 1)' = WrittenEnd(n)'
        BY <3>1, <4>2 DEF WrittenEnd
      <4> QED
        BY <1>16, <4>2, <4>3, <4>4
    <3>3. CutAfter(WrittenEnd(k - 1))' = CutAfter(e[0])
      BY <1>4, <3>2 DEF CutAfter
    <3>4. bufs[Oldest].block.hi = e[1]
      BY <1>13 DEF BlockOf
    <3> QED
      BY <1>4, <1>13, <1>15, <2>3, <3>2, <3>3, <3>4
  <2>4. \A k \in DOMAIN written' : k \in 1..Len(written) \/ k = Len(written) + 1
    BY <1>14, <1>15
  <2> QED
    BY <2>2, <2>3, <2>4 DEF Copied
<1>19. Completed'
  BY <1>3, <1>4 DEF Completed
<1>20. Made' = Made /\ Made \subseteq Threads /\ \A w \in Made : HasSame(w)
  BY <1>2, <1>4, MadeThreads, SameIsSame DEF Made, HasSame
<1>21. \A i \in Ring : /\ bufs'[i].finished = bufs[i].finished
                       /\ i # Oldest => bufs'[i] = bufs[i]
  BY <1>2, <1>4, <1>5 DEF Types, QueueTypes
<1>22. Chained'
  <2>1. PICK f : f = [k \in 0..(bufsUsed - 1) |-> e[k + 1]]
    OBVIOUS
  <2>2. f \in [0..bufsUsed' -> 0..inPos']
    <3>1. \A k \in 0..(bufsUsed - 1) : k + 1 \in 0..bufsUsed
      BY <1>10
    <3> QED
      BY <1>4, <2>1, <3>1
  <2>3. f[0] = WrittenEnd(Len(written))' /\ f[bufsUsed'] = inPos'
    <3>1. f[0] = e[1] /\ f[bufsUsed - 1] = e[bufsUsed]
      <4>1. 0 \in 0..(bufsUsed - 1) /\ bufsUsed - 1 \in 0..(bufsUsed - 1) /\ bufsUsed - 1 + 1 = bufsUsed
            /\ 0 + 1 = 1
        BY <1>5, <1>10
      <4> QED
        BY <2>1, <4>1
    <3>2. e[bufsUsed] = inPos
      BY <1>9 DEF Cut
    <3> QED
      BY <1>4, <1>17, <3>1, <3>2
  <2>4. ASSUME NEW k \in 1..bufsUsed'
        PROVE  \/ Whole(Slot(k), f[k - 1], f[k])'
               \/ k = bufsUsed' /\ Begun(Slot(k), f[k - 1])'
    <3>1. PICK j : j = k + 1
      OBVIOUS
    <3>2. k \in 1..(bufsUsed - 1) /\ j \in 1..bufsUsed /\ j # 1 /\ j - 1 = k /\ k - 1 \in 0..(bufsUsed - 1)
          /\ k \in 0..(bufsUsed - 1) /\ (j = bufsUsed <=> k = bufsUsed') /\ 1 \in 1..bufsUsed
      <4>1. k \in 1..(bufsUsed - 1)
        BY <1>4
      <4>2. /\ j \in 1..bufsUsed /\ j # 1 /\ j - 1 = k /\ k - 1 \in 0..(bufsUsed - 1)
            /\ k \in 0..(bufsUsed - 1) /\ (j = bufsUsed <=> k = bufsUsed - 1) /\ 1 \in 1..bufsUsed
        BY ONLY <1>10, <3>1, <4>1
      <4> QED
        BY <1>4, <4>1, <4>2
    <3>3. PICK i, p, q : i = Slot(j) /\ p = e[j - 1] /\ q = e[j]
      OBVIOUS
    <3>4. Slot(k)' = i /\ f[k - 1] = p /\ f[k] = q
      <4>1. k - 1 + 1 = j - 1
        BY <3>2
      <4> QED
        BY <1>7, <2>1, <3>1, <3>2, <3>3, <4>1
    <3>5. i # Oldest /\ i \in Slots /\ i \in Ring /\ p \in Nat /\ q \in Nat
      <4>1. Slot(j) # Slot(1)
        BY <1>6, <3>2
      <4>2. e[j - 1] \in 0..inPos /\ e[j] \in 0..inPos
        <5>1. j - 1 \in 0..bufsUsed /\ j \in 0..bufsUsed
          BY <1>10, <3>2
        <5> QED
          BY <5>1
      <4> QED
        BY <1>6, <3>2, <3>3, <4>1, <4>2 DEF Slots
    <3>6. CASE Whole(i, p, q)
      <4>1. q = CutAfter(p)' /\ q <= inPos'
        BY <1>4, <1>11, <3>5, <3>6 DEF CutsKept, Whole
      <4>2. CASE bufs[i].finished = "yes" /\ bufs[i].block = BlockOf(stream, p, q)
        <5>1. Whole(i, p, q)'
          BY <1>4, <1>21, <3>5, <4>1, <4>2 DEF Whole
        <5> QED
          BY <3>4, <5>1
      <4>3. CASE \E w \in Made : Fills(w, i, p, q)
        <5>1. PICK w \in Made : Fills(w, i, p, q)
          BY <4>3
        <5>2. Fills(w, i, p, q)'
          BY <1>2, <1>20, <5>1, FillsSame
        <5>3. Whole(i, p, q)'
          BY <1>20, <4>1, <5>2 DEF Whole
        <5> QED
          BY <3>4, <5>3
      <4> QED
        BY <3>6, <4>2, <4>3 DEF Whole
    <3>7. CASE j = bufsUsed /\ Begun(i, p)
      <4>1. Begun(i, p)'
        BY <1>4, <3>7 DEF Begun
      <4> QED
        BY <3>2, <3>4, <3>7, <4>1
    <3>8. Whole(i, p, q) \/ (j = bufsUsed /\ Begun(i, p))
      BY <1>9, <3>2, <3>3 DEF Cut
    <3> QED
      BY <3>6, <3>7, <3>8
  <2>5. Cut(f)'
    BY <2>3, <2>4 DEF Cut
  <2> QED
    BY <2>2, <2>5 DEF Chained
<1>23. EncodedOK'
  <2>1. ASSUME NEW w \in Made, wpc[w] \in {"settle", "return"}
        PROVE  bufs'[outbuf[w]] = bufs[outbuf[w]]
    <3>1. Owns(w)
      BY <2>1, Apart DEF Owns
    <3>2. outbuf[w] \in Ring
      BY <1>20 DEF Types, ThreadTypes, Safe
    <3> QED
      BY <1>12, <1>21, <3>1, <3>2
  <2> QED
    BY <1>4, <1>8, <1>20, <2>1 DEF EncodedOK
<1> QED
  BY <1>18, <1>19, <1>22, <1>23 DEF Ordered, WrittenOK, ChainOK

LEMMA ReadOrdered ==
  ASSUME Safe, Safe', Ordered, Read
  PROVE  Ordered'
<1>1. mpc = "read" /\ mpc \in Calling
  BY ReadCases DEF Calling
<1>2. Types /\ PhaseOK /\ LiveOK /\ RingOK /\ Types'
  BY DEF Safe, HoldersOK
<1>3. Live /\ Streaming /\ sequence = "block"
  BY <1>1, <1>2, CallIsLive DEF Live
<1>4. CASE ~threadError /\ ~NothingToRead /\ ReadWhole
  BY <1>4, ReadWholeOrdered, ReadCases
<1>5. CASE threadError \/ NothingToRead \/ ReadPart
  <2>1. /\ UNCHANGED <<stream, given, marks, action, sequence, inPos, thr, threadError, initialized>>
        /\ UNCHANGED <<state, lo, inSize, outbuf, wpc, wstate>>
    BY ReadCases DEF thrVars, wVars
  <2>2. UNCHANGED <<written, bufs, bufsAllocated, bufsPos, bufsUsed>> /\ mpc' \in {"stop_error", "in", "read"}
    <3>1. mpc' \in {"stop_error", "in", "read"}
      BY ReadCases DEF AfterRead, Fails
    <3>2. CASE threadError \/ NothingToRead
      BY <3>1, <3>2, ReadCases DEF outq
    <3>3. CASE ~threadError /\ ~NothingToRead /\ ReadPart
      BY <3>1, <3>3, ReadCases DEF OutqRead, ReadPart
    <3> QED
      BY <1>5, <3>2, <3>3
  <2>3. \A w \in Made : SamePlace(wpc[w], wpc'[w])
    BY <2>1, SameIsSame
  <2>4. Completed'
    BY <1>3, <2>1, <2>2 DEF Completed
  <2>5. \A i \in Slots : \A p \in Nat : Begun(i, p) => Begun(i, p)'
    BY <2>1, <2>2 DEF Begun
  <2> QED
    BY <1>2, <1>3, <2>1, <2>2, <2>3, <2>4, <2>5, SameCuts, MovesOrdered
<1>6. ~threadError /\ ~NothingToRead => ReadPart \/ ReadWhole
  BY <1>2, ReadIs, ReadCases
<1> QED
  BY <1>4, <1>5, <1>6

LEMMA ResetThreadOrdered ==
  ASSUME Safe, Safe', Ordered, ResetThread
  PROVE  Ordered'
<1>1. mpc = "reset" /\ mpc \in Calling
  BY DEF ResetThread, Calling
<1>2. Types /\ PhaseOK /\ LiveOK /\ HoldersOK /\ RingOK /\ Types' /\ OwnersOK /\ WorkersOK
  BY DEF Safe, HoldersOK
<1>3. Live /\ Streaming /\ InputOK /\ FreeOK /\ ThrOK /\ sequence = "block"
  BY <1>1, <1>2, CallIsLive DEF Live
<1>4. PICK t : t = thr
  OBVIOUS
<1>5. t # 0 /\ t \in Made /\ state[t] = "IDLE" /\ wpc[t] \in Idling /\ HasBuf
  BY <1>1, <1>2, <1>3, <1>4, MadeThreads DEF ThrOK, Made, Types, CoderTypes
<1>6. /\ UNCHANGED <<stream, given, marks, action, result, max, initialized, sequence, inPos, thr,
                     threadError, written, wstate>>
      /\ mpc' = "in" /\ GetBuf(t) /\ state' = [state EXCEPT ![t] = "RUN"]
      /\ lo' = [lo EXCEPT ![t] = inPos] /\ inSize' = [inSize EXCEPT ![t] = 0]
      /\ wpc' = Woken(wpc, t)
  BY <1>4 DEF ResetThread, appVars
<1>7. /\ outbuf' = [outbuf EXCEPT ![t] = bufsPos] /\ bufsUsed' = bufsUsed + 1
      /\ bufs' = [bufs EXCEPT ![bufsPos] = [finished |-> "no", block |-> NoBlock]]
  BY <1>6 DEF GetBuf
<1>8. Made' = Made /\ Made \subseteq Threads
  BY <1>2, <1>6, MadeThreads DEF Made
<1>9. /\ \A k \in 1..bufsUsed : Slot(k)' = Slot(k)
      /\ \A k : k = bufsUsed + 1 => Slot(k)' = bufsPos
  BY <1>2, <1>5, <1>6, SlotTaken
<1>10. Slots \subseteq Ring /\ bufsPos \notin Slots
  BY <1>2, <1>5, SlotsInRing
<1>11. \A i \in Slots : bufs'[i] = bufs[i]
  BY <1>2, <1>7, <1>10 DEF Types, QueueTypes
<1>12. \A v \in Threads : SamePlace(wpc[v], wpc'[v])
  BY <1>2, <1>5, <1>6, <1>8, Wakes DEF Types, PlaceTypes
<1>13. \A v \in Made : v # t => HasSame(v)
  BY <1>2, <1>6, <1>7, <1>8, <1>12 DEF Types, ThreadTypes, HasSame
<1>14. state'[t] = "RUN" /\ lo'[t] = inPos /\ outbuf'[t] = bufsPos
  BY <1>2, <1>5, <1>6, <1>7, <1>8 DEF Types, ThreadTypes
<1>15. CutsKept
  BY <1>6, SameCuts
<1>16. bufsUsed \in Nat /\ inPos \in Nat
  BY <1>2 DEF Types, QueueTypes, CoderTypes
<1>17. Copied' /\ Completed'
  <2>1. Copied'
    BY <1>2, <1>3, <1>6, <1>15, <1>16, CopiedKept DEF Ordered, WrittenOK
  <2>2. Completed'
    BY <1>3, <1>6 DEF Completed
  <2> QED
    BY <2>1, <2>2
<1>18. CASE threadError
  BY <1>6, <1>17, <1>18 DEF Ordered, WrittenOK, ChainOK
<1>19. CASE ~threadError
  <2>1. Chained /\ EncodedOK
    BY <1>3, <1>19 DEF Ordered, ChainOK
  <2>2. PICK e \in [0..bufsUsed -> 0..inPos] : Cut(e)
    BY <2>1 DEF Chained
  <2>3. PICK f : f = [k \in 0..(bufsUsed + 1) |-> IF k <= bufsUsed THEN e[k] ELSE inPos]
    OBVIOUS
  <2>4. /\ f \in [0..(bufsUsed + 1) -> 0..inPos] /\ f[bufsUsed + 1] = inPos
        /\ \A k \in 0..bufsUsed : f[k] = e[k]
    <3>1. \A k \in 0..(bufsUsed + 1) : k <= bufsUsed => k \in 0..bufsUsed
      BY <1>16
    <3>2. /\ inPos \in 0..inPos /\ bufsUsed + 1 \in 0..(bufsUsed + 1) /\ ~(bufsUsed + 1 <= bufsUsed)
          /\ \A k \in 0..bufsUsed : k \in 0..(bufsUsed + 1) /\ k <= bufsUsed
      BY <1>16
    <3> QED
      BY <2>3, <3>1, <3>2
  <2>5. Chained'
    <3>1. f[0] = WrittenEnd(Len(written))'
      <4>1. 0 \in 0..bufsUsed
        BY <1>16
      <4> QED
        BY <1>6, <2>2, <2>4, <4>1 DEF Cut, WrittenEnd
    <3>2. ASSUME NEW k \in 1..bufsUsed
          PROVE  Whole(Slot(k), f[k - 1], f[k])'
      <4>1. PICK i, p, q : i = Slot(k) /\ p = e[k - 1] /\ q = e[k]
        OBVIOUS
      <4>2. i \in Slots /\ p \in Nat /\ q \in Nat /\ f[k - 1] = p /\ f[k] = q /\ Slot(k)' = i
        <5>1. k - 1 \in 0..bufsUsed /\ k \in 0..bufsUsed
          BY <1>16
        <5>2. e[k - 1] \in Nat /\ e[k] \in Nat
          BY <1>16, <5>1
        <5> QED
          BY <1>9, <2>4, <4>1, <5>1, <5>2 DEF Slots
      <4>3. Whole(i, p, q)
        <5>1. ~Begun(i, p)
          BY <1>1 DEF Begun
        <5> QED
          BY <2>2, <4>1, <5>1 DEF Cut
      <4>4. q = CutAfter(p)' /\ q <= inPos'
        BY <1>6, <1>15, <4>2, <4>3 DEF CutsKept, Whole
      <4>5. CASE bufs[i].finished = "yes" /\ bufs[i].block = BlockOf(stream, p, q)
        <5>1. Whole(i, p, q)'
          BY <1>6, <1>11, <4>2, <4>4, <4>5 DEF Whole
        <5> QED
          BY <4>2, <5>1
      <4>6. CASE \E w \in Made : Fills(w, i, p, q)
        <5>1. PICK w \in Made : Fills(w, i, p, q)
          BY <4>6
        <5>2. w # t
          <6>1. Owns(w)
            BY <5>1 DEF Fills
          <6> QED
            BY <1>5, <6>1, Apart DEF Owns
        <5>3. Fills(w, i, p, q)'
          BY <1>2, <1>8, <1>13, <5>1, <5>2, FillsSame
        <5>4. Whole(i, p, q)'
          BY <1>8, <4>4, <5>3 DEF Whole
        <5> QED
          BY <4>2, <5>4
      <4> QED
        BY <4>3, <4>5, <4>6 DEF Whole
    <3>3. ASSUME NEW k, k = bufsUsed + 1
          PROVE  Begun(Slot(k), f[k - 1])'
      <4>1. k - 1 = bufsUsed /\ bufsUsed \in 0..bufsUsed
        BY <1>16, <3>3
      <4>2. f[k - 1] = inPos
        BY <2>2, <2>4, <4>1 DEF Cut
      <4>3. Slot(k)' = bufsPos
        BY <1>9, <3>3
      <4>4. \A m \in marks : m <= inPos \/ (m = given /\ action # "RUN")
        BY <1>3 DEF InputOK
      <4>5. thr' = t
        BY <1>4, <1>6
      <4>6. thr' # 0 /\ mpc' # "reset" /\ outbuf'[thr'] = bufsPos /\ lo'[thr'] = inPos
        BY <1>5, <1>6, <1>14, <4>5
      <4> QED
        BY <1>6, <4>2, <4>3, <4>4, <4>6 DEF Begun
    <3>4. \A k \in 1..bufsUsed' : k \in 1..bufsUsed \/ (k = bufsUsed' /\ k = bufsUsed + 1)
      BY <1>7, <1>16
    <3>5. Cut(f)'
      BY <1>6, <1>7, <2>4, <3>1, <3>2, <3>3, <3>4 DEF Cut
    <3> QED
      BY <1>6, <1>7, <2>4, <3>5 DEF Chained
  <2>6. EncodedOK'
    <3>1. wpc'[t] \notin {"settle", "return"}
      <4>1. wpc'[t] \in Idling
        BY <1>5, <1>8, <1>12, IdlingPlace
      <4> QED
        BY <4>1, Apart
    <3>2. ASSUME NEW w \in Made, w # t
          PROVE  /\ state'[w] = "RUN" => thr' = w
                 /\ wpc'[w] \in {"settle", "return"} =>
                      /\ wstate'[w] = "FINISH"
                      /\ bufs'[outbuf'[w]].block = BlockOf(stream', lo'[w], lo'[w] + inSize'[w])
      <4>1. HasSame(w) /\ state'[w] = state[w] /\ lo'[w] = lo[w] /\ inSize'[w] = inSize[w] /\ outbuf'[w] = outbuf[w]
        BY <1>13, <3>2 DEF HasSame
      <4>2. wpc[w] \in WorkerStates /\ wpc'[w] \in WorkerStates /\ SamePlace(wpc[w], wpc'[w])
        BY <1>2, <1>8, <1>12 DEF Types, PlaceTypes
      <4>3. wpc'[w] \in {"settle", "return"} <=> wpc[w] \in {"settle", "return"}
        BY <4>2, SameHolding
      <4>4. wpc[w] \in {"settle", "return"} => outbuf[w] \in Slots
        BY <1>2, Apart DEF OwnersOK, Owns
      <4> QED
        BY <1>6, <1>11, <2>1, <4>1, <4>3, <4>4 DEF EncodedOK
    <3> QED
      BY <1>4, <1>6, <1>8, <3>1, <3>2 DEF EncodedOK
  <2> QED
    BY <1>17, <2>5, <2>6 DEF Ordered, WrittenOK, ChainOK
<1> QED
  BY <1>18, <1>19

(* Where the block that is given input ends.                               *)
LEMMA EndsWhere ==
  ASSUME NEW S, S \subseteq Nat, NEW from \in Nat, NEW to \in Nat, NEW last \in Nat, from < to, to <= last,
         to <= from + BlockSize, to = from + BlockSize \/ (to = last /\ last \in S),
         \A m \in S : m <= from \/ m = last
  PROVE  to = CutIn(S, from)
<1>1. \A m \in S : m > from => to <= m
  <2>1. ASSUME NEW m \in S, m > from
        PROVE  to <= m
    <3>1. m \in Nat
      OBVIOUS
    <3>2. m = last
      BY <2>1, <3>1
    <3> QED
      BY <3>2
  <2> QED
    BY <2>1
<1>2. to = from + BlockSize \/ (to \in S /\ to > from)
  OBVIOUS
<1> QED
  BY <1>1, <1>2, CutIs

LEMMA PutOrdered ==
  ASSUME Safe, Safe', Ordered, Put
  PROVE  Ordered'
<1>1. mpc = "in" /\ mpc \in Calling /\ thr # 0 /\ mpc # "reset"
  BY DEF Put, Calling
<1>2. Types /\ PhaseOK /\ LiveOK /\ HoldersOK /\ RingOK /\ Types' /\ OwnersOK /\ WorkersOK
  BY DEF Safe, HoldersOK
<1>3. Live /\ Streaming /\ InputOK /\ FreeOK /\ ThrOK /\ sequence = "block"
  BY <1>1, <1>2, CallIsLive DEF Live
<1>4. /\ UNCHANGED <<stream, given, marks, action, result, max, initialized, sequence, free,
                     threadError, written, bufs, bufsAllocated, bufsPos, bufsUsed, lo, outbuf, wstate>>
  BY DEF Put, appVars, outq
<1>5. /\ thr \in Made /\ thr \in Threads /\ inPos <= given
      /\ \/ state[thr] = "IDLE" /\ threadError
         \/ /\ state[thr] = "RUN" /\ lo[thr] + inSize[thr] = inPos /\ inSize[thr] < BlockSize
            /\ inSize[thr] = 0 => InputLeft
  BY <1>1, <1>2, ThrHas
<1>6. PICK i \in Threads, n \in Nat :
           /\ PutAt(i, n)
           /\ \/ PutIdle(i)
              \/ /\ inSize' = [inSize EXCEPT ![i] = inSize[i] + n] /\ wpc' = Woken(wpc, i)
                 /\ mpc' = mpc /\ (PutMore(i, n) \/ PutLast(i, n))
  BY <1>2, <1>5, PutIs
<1>7. /\ i = thr /\ inPos' = inPos + n /\ n <= given - inPos
      /\ n = given - inPos \/ n = BlockSize - inSize[i]
  BY <1>6 DEF PutAt
<1>8. /\ lo[i] \in Nat /\ inSize[i] \in Nat /\ given \in Nat /\ inPos \in Nat /\ bufsUsed \in Nat
      /\ BlockSize \in Nat \ {0} /\ marks \subseteq Nat
  <2>1. lo[i] \in Nat /\ inSize[i] \in 0..BlockSize
    BY <1>2 DEF Types, ThreadTypes
  <2>2. given \in Nat /\ inPos \in Nat /\ bufsUsed \in Nat /\ marks \subseteq Nat
    BY <1>2 DEF Types, CallTypes, CoderTypes, QueueTypes
  <2> QED
    BY <2>1, <2>2, Numbers
<1>9. inPos' <= given /\ inPos <= inPos' /\ inPos' \in Nat
  BY <1>7, <1>8
<1>10. CutsKept
  BY <1>4, SameCuts
<1>11. mpc' \in {"in", "block_error"}
  BY <1>1, <1>6 DEF PutIdle
<1>12. Copied' /\ Completed'
  <2>1. Copied'
    BY <1>2, <1>3, <1>4, <1>9, <1>10, CopiedKept DEF Ordered, WrittenOK
  <2>2. Completed'
    BY <1>3, <1>4, <1>11 DEF Completed
  <2> QED
    BY <2>1, <2>2
<1>13. CASE threadError
  BY <1>4, <1>12, <1>13 DEF Ordered, WrittenOK, ChainOK
<1>14. CASE ~threadError
  <2>1. Chained /\ EncodedOK
    BY <1>3, <1>14 DEF Ordered, ChainOK
  <2>2. PICK e \in [0..bufsUsed -> 0..inPos] : Cut(e)
    BY <2>1 DEF Chained
  <2>3. /\ state[i] = "RUN" /\ lo[i] + inSize[i] = inPos /\ inSize[i] < BlockSize
        /\ inSize[i] = 0 => given > inPos
    BY <1>5, <1>7, <1>14 DEF InputLeft
  <2>4. i \in Made /\ Owns(i) /\ wpc[i] \notin {"settle", "return"}
    BY <1>1, <1>2, <1>3, <1>7, <1>14, GivenOwns
  <2>5. /\ inSize' = [inSize EXCEPT ![i] = inSize[i] + n] /\ wpc' = Woken(wpc, i) /\ mpc' = "in"
        /\ PutMore(i, n) \/ PutLast(i, n)
    BY <1>1, <1>6, <2>3 DEF PutIdle
  <2>6. /\ \A v \in Threads : SamePlace(wpc[v], wpc'[v])
        /\ state' \in {state, [state EXCEPT ![i] = "FINISH"]}
    BY <1>2, <2>5, Wakes DEF Types, PlaceTypes, PutMore, PutLast
  <2>7. Made' = Made /\ Made \subseteq Threads
    BY <1>2, <1>4, MadeThreads DEF Made
  <2>8. \A w \in Made : w # i => HasSame(w)
    BY <1>2, <1>4, <2>5, <2>6, <2>7 DEF Types, ThreadTypes, HasSame
  <2>9. ASSUME NEW w \in Made, NEW p, NEW q, Fills(w, outbuf[i], p, q)
        PROVE  FALSE
    <3>1. Owns(w) /\ outbuf[w] = outbuf[i] /\ (state[w] = "FINISH" \/ wpc[w] = "return")
      BY <2>9 DEF Fills
    <3>2. w = i
      BY <1>2, <2>4, <3>1 DEF OwnersOK
    <3> QED
      BY <2>3, <2>4, <3>1, <3>2
  <2>10. ASSUME NEW p, NEW q, Whole(outbuf[i], p, q)
         PROVE  FALSE
    <3>1. bufs[outbuf[i]].finished = "no"
      BY <1>2, <2>4 DEF OwnersOK
    <3> QED
      BY <2>9, <2>10, <3>1 DEF Whole
  <2>11. /\ bufsUsed \in 1..bufsUsed /\ outbuf[i] = Slot(bufsUsed) /\ Begun(outbuf[i], e[bufsUsed - 1])
    <3>1. PICK k \in 1..bufsUsed : outbuf[i] = Slot(k)
      BY <1>2, <2>4 DEF OwnersOK, Slots
    <3>2. k = bufsUsed /\ Begun(Slot(k), e[k - 1])
      BY <2>2, <2>10, <3>1 DEF Cut
    <3> QED
      BY <3>1, <3>2
  <2>12. lo[i] = e[bufsUsed - 1] /\ \A m \in marks : m <= lo[i] \/ (m = given /\ action # "RUN")
    BY <1>7, <2>11 DEF Begun
  <2>13. \A k : Slot(k)' = Slot(k)
    BY <1>4, SlotsSame
  <2>14. inSize'[i] = inSize[i] + n /\ lo'[i] + inSize'[i] = inPos'
    <3>1. inSize'[i] = inSize[i] + n /\ lo'[i] = lo[i]
      BY <1>2, <1>4, <2>5 DEF Types, ThreadTypes
    <3>2. lo[i] + inSize[i] = inPos /\ inPos' = inPos + n
      BY <1>7, <2>3
    <3>3. lo[i] + (inSize[i] + n) = lo[i] + inSize[i] + n
      BY ONLY <1>8, n \in Nat
    <3> QED
      BY ONLY <3>1, <3>2, <3>3
  <2>15. PICK f : f = [e EXCEPT ![bufsUsed] = inPos']
    OBVIOUS
  <2>16. /\ f \in [0..bufsUsed -> 0..inPos'] /\ f[bufsUsed] = inPos'
         /\ \A k \in 0..bufsUsed : k # bufsUsed => f[k] = e[k]
    <3>1. inPos' \in 0..inPos' /\ bufsUsed \in 0..bufsUsed /\ 0..inPos \subseteq 0..inPos'
      BY <1>8, <1>9
    <3>2. PICK A, B, C, u, x : A = 0..bufsUsed /\ B = 0..inPos /\ C = 0..inPos' /\ u = bufsUsed /\ x = inPos'
      OBVIOUS
    <3>3. x \in C /\ u \in A /\ B \subseteq C /\ e \in [A -> B] /\ f = [e EXCEPT ![u] = x]
      BY <2>15, <3>1, <3>2
    <3>4. f \in [A -> C] /\ f[u] = x /\ \A k \in A : k # u => f[k] = e[k]
      BY ONLY <3>3
    <3> QED
      BY <3>2, <3>4
  <2>17. ASSUME NEW k \in 1..bufsUsed, k # bufsUsed
         PROVE  Whole(Slot(k), f[k - 1], f[k])'
    <3>1. PICK j, p, q : j = Slot(k) /\ p = e[k - 1] /\ q = e[k]
      OBVIOUS
    <3>2. p \in Nat /\ q \in Nat /\ f[k - 1] = p /\ f[k] = q /\ Slot(k)' = j
      <4>1. k - 1 \in 0..bufsUsed /\ k \in 0..bufsUsed /\ k - 1 # bufsUsed
        BY <1>8
      <4>2. e[k - 1] \in Nat /\ e[k] \in Nat
        BY <1>8, <4>1
      <4> QED
        BY <2>13, <2>16, <2>17, <3>1, <4>1, <4>2
    <3>3. Whole(j, p, q)
      BY <2>2, <2>17, <3>1 DEF Cut
    <3>4. q = CutAfter(p)' /\ q <= inPos'
      BY <1>8, <1>9, <1>10, <3>2, <3>3 DEF CutsKept, Whole
    <3>5. CASE bufs[j].finished = "yes" /\ bufs[j].block = BlockOf(stream, p, q)
      <4>1. Whole(j, p, q)'
        BY <1>4, <3>4, <3>5 DEF Whole
      <4> QED
        BY <3>2, <4>1
    <3>6. CASE \E w \in Made : Fills(w, j, p, q)
      <4>1. PICK w \in Made : Fills(w, j, p, q)
        BY <3>6
      <4>2. w # i
        BY <2>9, <4>1 DEF Fills
      <4>3. Fills(w, j, p, q)'
        BY <1>2, <2>7, <2>8, <4>1, <4>2, FillsSame
      <4>4. Whole(j, p, q)'
        BY <2>7, <3>4, <4>3 DEF Whole
      <4> QED
        BY <3>2, <4>4
    <3> QED
      BY <3>3, <3>5, <3>6 DEF Whole
  <2>18. f[bufsUsed - 1] = lo[i]
    <3>1. bufsUsed - 1 \in 0..bufsUsed /\ bufsUsed - 1 # bufsUsed
      BY <1>8, <2>11
    <3> QED
      BY <2>12, <2>16, <3>1
  <2>19. ASSUME PutMore(i, n)
         PROVE  Begun(Slot(bufsUsed), f[bufsUsed - 1])'
    <3>1. thr' = i
      BY <1>7, <2>19 DEF PutMore
    <3>2. PICK j, p : j = Slot(bufsUsed) /\ p = f[bufsUsed - 1]
      OBVIOUS
    <3>3. Slot(bufsUsed)' = j /\ f[bufsUsed - 1]' = p
      BY <1>4, <2>13, <3>2 DEF Slot, Oldest
    <3>4. outbuf'[thr'] = j /\ lo'[thr'] = p /\ thr' # 0 /\ mpc' # "reset"
      BY <1>1, <1>4, <1>7, <2>5, <2>11, <2>18, <3>1, <3>2
    <3>5. Begun(j, p)'
      BY <1>4, <2>12, <2>18, <3>2, <3>4 DEF Begun
    <3> QED
      BY <3>3, <3>5
  <2>20. ASSUME PutLast(i, n)
         PROVE  Whole(Slot(bufsUsed), f[bufsUsed - 1], f[bufsUsed])'
    <3>1. PICK j, p, q : j = Slot(bufsUsed) /\ p = lo[i] /\ q = inPos'
      OBVIOUS
    <3>2. Slot(bufsUsed)' = j /\ f[bufsUsed - 1]' = p /\ f[bufsUsed]' = q
      BY <1>4, <2>13, <2>16, <2>18, <3>1 DEF Slot, Oldest
    <3>3. /\ p \in Nat /\ q \in Nat /\ p < q /\ q <= given /\ q <= p + BlockSize
          /\ q = p + BlockSize \/ (q = given /\ action # "RUN")
      <4>1. inSize[i] + n = BlockSize \/ (inPos + n = given /\ action # "RUN")
        BY <2>20 DEF PutLast, EndsBlock
      <4>2. n <= BlockSize - inSize[i]
        BY <1>6 DEF PutAt
      <4>3. p \in Nat /\ q = inPos + n /\ p + inSize[i] = inPos
        BY <1>7, <1>8, <2>3, <3>1
      <4>4. q <= given
        BY <1>9, <3>1
      <4>5. inSize[i] = 0 => n > 0
        <5>1. inSize[i] = 0 => given > inPos
          BY <2>3
        <5>2. n = given - inPos \/ n = BlockSize - inSize[i]
          BY <1>7
        <5> QED
          BY <1>8, <5>1, <5>2
      <4>6. p < q
        BY <1>8, <4>3, <4>5
      <4>7. q <= p + BlockSize
        BY <1>8, <4>2, <4>3
      <4>8. CASE inSize[i] + n = BlockSize
        BY <1>8, <4>3, <4>4, <4>6, <4>7, <4>8
      <4>9. CASE inPos + n = given /\ action # "RUN"
        <5>1. q = given /\ q \in Nat
          BY <1>8, <4>3, <4>9
        <5> QED
          BY <4>3, <4>4, <4>6, <4>7, <4>9, <5>1
      <4> QED
        BY <4>1, <4>8, <4>9
    <3>4. action # "RUN" => given \in marks
      BY <1>3 DEF InputOK
    <3>5. q = CutIn(marks, p)
      <4>1. \A m \in marks : m <= p \/ m = given
        BY <2>12, <3>1
      <4>2. q = p + BlockSize \/ (q = given /\ given \in marks)
        BY <3>3, <3>4
      <4> QED
        BY <1>8, <3>3, <4>1, <4>2, EndsWhere
    <3>6. q = CutAfter(p)' /\ q <= inPos'
      <4>1. q = CutAfter(p)
        BY <3>5 DEF CutIn, CutAfter
      <4>2. CutAfter(p)' = CutAfter(p)
        BY <1>4 DEF CutAfter
      <4> QED
        BY <1>9, <3>1, <4>1, <4>2
    <3>7. state'[i] = "FINISH"
      BY <1>2, <2>20 DEF PutLast, Types, ThreadTypes
    <3>8. Owns(i)'
      <4>1. wpc[i] \in Idling \union AtWork
        BY <2>4 DEF Owns
      <4>2. wpc[i] \in WorkerStates /\ wpc'[i] \in WorkerStates
        BY <1>2 DEF Types, PlaceTypes
      <4>3. wpc'[i] \in Idling \union AtWork
        BY <2>6, <4>1, <4>2, SameHolding
      <4> QED
        BY <3>7, <4>3 DEF Owns
    <3>9. Fills(i, j, p, q)'
      BY <1>4, <2>11, <2>14, <3>1, <3>7, <3>8 DEF Fills
    <3>10. Whole(j, p, q)'
      BY <2>4, <2>7, <3>6, <3>9 DEF Whole
    <3> QED
      BY <3>2, <3>10
  <2>21. Chained'
    <3>1. f[0] = WrittenEnd(Len(written))'
      <4>1. 0 \in 0..bufsUsed /\ 0 # bufsUsed
        BY <1>8, <2>11
      <4> QED
        BY <1>4, <2>2, <2>16, <4>1 DEF Cut, WrittenEnd
    <3>2. ASSUME NEW k \in 1..bufsUsed'
          PROVE  \/ Whole(Slot(k), f[k - 1], f[k])'
                 \/ k = bufsUsed' /\ Begun(Slot(k), f[k - 1])'
      <4>1. CASE k # bufsUsed
        BY <1>4, <2>17, <4>1
      <4>2. CASE k = bufsUsed
        BY <1>4, <2>5, <2>19, <2>20, <4>2
      <4> QED
        BY <4>1, <4>2
    <3>3. Cut(f)'
      BY <1>4, <2>16, <3>1, <3>2 DEF Cut
    <3> QED
      BY <1>4, <2>16, <3>3 DEF Chained
  <2>22. EncodedOK'
    <3>1. wpc'[i] \notin {"settle", "return"}
      <4>1. wpc[i] \in WorkerStates /\ wpc'[i] \in WorkerStates
        BY <1>2 DEF Types, PlaceTypes
      <4> QED
        BY <2>4, <2>6, <4>1, SameHolding
    <3>2. state'[i] = "RUN" => thr' = i
      <4>1. CASE PutMore(i, n)
        BY <1>7, <4>1 DEF PutMore
      <4>2. CASE PutLast(i, n)
        <5>1. state'[i] = "FINISH"
          BY <1>2, <4>2 DEF PutLast, Types, ThreadTypes
        <5> QED
          BY <5>1
      <4> QED
        BY <2>5, <4>1, <4>2
    <3>3. ASSUME NEW w \in Made, w # i
          PROVE  /\ state'[w] # "RUN"
                 /\ wpc'[w] \in {"settle", "return"} =>
                      /\ wstate'[w] = "FINISH"
                      /\ bufs'[outbuf'[w]].block = BlockOf(stream', lo'[w], lo'[w] + inSize'[w])
      <4>1. HasSame(w) /\ state'[w] = state[w] /\ lo'[w] = lo[w] /\ inSize'[w] = inSize[w] /\ outbuf'[w] = outbuf[w]
        BY <2>8, <3>3 DEF HasSame
      <4>2. wpc[w] \in WorkerStates /\ wpc'[w] \in WorkerStates /\ SamePlace(wpc[w], wpc'[w])
        BY <1>2, <2>6, <2>7 DEF Types, PlaceTypes
      <4>3. wpc'[w] \in {"settle", "return"} <=> wpc[w] \in {"settle", "return"}
        BY <4>2, SameHolding
      <4>4. state[w] # "RUN"
        BY <1>7, <2>1, <3>3 DEF EncodedOK
      <4> QED
        BY <1>4, <2>1, <4>1, <4>3, <4>4 DEF EncodedOK
    <3> QED
      BY <2>7, <3>1, <3>2, <3>3 DEF EncodedOK
  <2> QED
    BY <1>12, <2>21, <2>22 DEF Ordered, WrittenOK, ChainOK
<1> QED
  BY <1>13, <1>14

(* No stream is being encoded.                                             *)
LEMMA NotStreaming ==
  ASSUME ~Streaming'
  PROVE  Ordered'
BY DEF Ordered, WrittenOK, ChainOK, Live

LEMMA RestartOrdered ==
  ASSUME EndEncoder \/ \E m \in Threads : StartStream(m)
  PROVE  Ordered'
<1>1. mpc' \in {"exit", "stop"}
  BY DEF EndEncoder, StartStream
<1> QED
  BY <1>1, NotStreaming DEF Streaming

(* A stream begins with nothing written, and nothing in the ring.          *)
LEMMA BeginsOrdered ==
  ASSUME Types', written' = <<>>, bufsUsed' = 0, inPos' = 0, sequence' = "block", result' # "end",
         \A w \in Made' : state'[w] # "RUN" /\ wpc'[w] \notin {"settle", "return"}
  PROVE  Ordered'
<1>1. Copied' /\ Completed'
  BY DEF Copied, Completed
<1>2. EncodedOK'
  BY DEF EncodedOK
<1>3. Chained'
  <2>1. PICK e : e = [k \in 0..0 |-> 0]
    OBVIOUS
  <2>2. e \in [0..bufsUsed' -> 0..inPos'] /\ e[0] = 0
    BY <2>1
  <2>3. WrittenEnd(Len(written))' = 0
    BY DEF WrittenEnd
  <2>4. Cut(e)'
    BY <2>2, <2>3 DEF Cut
  <2> QED
    BY <2>2, <2>4 DEF Chained
<1> QED
  BY <1>1, <1>2, <1>3 DEF Ordered, WrittenOK, ChainOK

LEMMA StopOrdered ==
  ASSUME Safe, Safe', Ordered, StopStep
  PROVE  Ordered'
<1>1. Types /\ PhaseOK /\ MainPhase /\ ThreadPhase /\ Types'
  BY DEF Safe, PhaseOK
<1>2. CASE TellStop \/ TellExit
  <2>1. PICK pc, s, after : /\ Tell(pc, s, after)
                            /\ \/ pc = "stop_error" /\ after = "app"
                               \/ pc \in {"stop", "exit"} /\ after \in {"settle", "join"}
    BY <1>2 DEF TellStop, TellExit
  <2>2. mpc = pc /\ mpc' \in {pc, after} /\ UNCHANGED <<stream, result, marks, inPos, written>>
    BY <2>1 DEF Tell, appVars
  <2>3. CASE pc = "stop_error"
    <3>1. result' = "error" /\ Streaming
      BY <1>1, <2>2, <2>3 DEF MainPhase, Streaming, Types, CoderTypes, Ending
    <3>2. Copied /\ inPos \in Nat
      BY <1>1, <3>1 DEF Ordered, WrittenOK, Types, CoderTypes
    <3>3. Copied'
      BY <1>1, <2>2, <3>2, SameCuts, CopiedKept
    <3> QED
      BY <3>1, <3>3 DEF Ordered, WrittenOK, ChainOK, Live
  <2>4. CASE pc # "stop_error"
    BY <2>1, <2>2, <2>4, NotStreaming DEF Streaming
  <2> QED
    BY <2>3, <2>4
<1>3. CASE Settle
  <2>1. mpc = "settle" /\ mpc \in Stopping /\ UNCHANGED <<sequence, result, inPos, initialized, state, wpc>>
    BY <1>3 DEF Settle, Stopping, appVars, thrVars, wVars
  <2>2. CASE idx <= initialized
    <3>1. mpc' \in {"settle", "settle_wait"}
      BY <1>1, <1>3, <2>1, <2>2, MadeThreads DEF Settle, Types, PlaceTypes
    <3> QED
      BY <3>1, NotStreaming DEF Streaming
  <2>3. CASE ~(idx <= initialized)
    <3>1. initialized \in Nat /\ idx \in Nat
      BY <1>1, MadeThreads DEF Types, PlaceTypes
    <3>2. written' = <<>> /\ bufsUsed' = 0
      BY <1>3, <2>3, <3>1 DEF Settle, OutqInit
    <3>3. /\ sequence = "block" /\ result # "end" /\ inPos = 0
          /\ \A w \in Made : wpc[w] \in Idling /\ state[w] = "IDLE"
      <4>1. \A w \in Made : w < idx
        BY <2>3, <3>1 DEF Made
      <4> QED
        BY <1>1, <2>1, <4>1 DEF MainPhase, ThreadPhase, AllFree
    <3>4. \A w \in Made' : state'[w] # "RUN" /\ wpc'[w] \notin {"settle", "return"}
      BY <2>1, <3>3, Apart DEF Made, Idling
    <3> QED
      BY <1>1, <2>1, <3>2, <3>3, <3>4, BeginsOrdered
  <2> QED
    BY <2>2, <2>3
<1>4. CASE Join
  <2>1. mpc = "join" /\ mpc \in Ending /\ UNCHANGED <<sequence, result, inPos>>
    BY <1>4 DEF Join, Ending, appVars
  <2>2. CASE idx <= initialized
    <3>1. mpc' = "join"
      BY <1>4, <2>1, <2>2 DEF Join
    <3> QED
      BY <3>1, NotStreaming DEF Streaming
  <2>3. CASE ~(idx <= initialized)
    <3>1. written' = <<>> /\ bufsUsed' = 0 /\ initialized' = 0
      BY <1>4, <2>3 DEF Join, OutqInit
    <3>2. sequence = "block" /\ result # "end" /\ inPos = 0 /\ Made' = {}
      BY <1>1, <2>1, <3>1 DEF MainPhase, Made
    <3> QED
      BY <1>1, <2>1, <3>1, <3>2, BeginsOrdered
  <2> QED
    BY <2>2, <2>3
<1> QED
  BY <1>2, <1>3, <1>4 DEF StopStep

LEMMA WakeOrdered ==
  ASSUME Safe, Safe', Ordered, SpuriousWake
  PROVE  Ordered'
<1>1. Types /\ Types' /\ SameMain /\ Quiet /\ UNCHANGED <<threadError, marks, action>>
  BY WorkerLeavesMain, QuietIs DEF Safe, SpuriousWake, appVars
<1>2. Streaming' <=> Streaming
  BY <1>1 DEF SameMain, Streaming
<1>3. /\ UNCHANGED <<stream, given, result, sequence, inPos, thr, written, bufs, bufsAllocated, bufsPos,
                     bufsUsed, state, lo, inSize, outbuf, initialized, wstate>>
      /\ \A w \in Made : SamePlace(wpc[w], wpc'[w])
  BY <1>1 DEF SameMain, Quiet, outq, thrVars
<1>4. CASE Streaming
  <2>1. Live' => Live /\ Completed'
    <3>1. Live => Completed
      BY <1>4 DEF Ordered, WrittenOK, Live
    <3>2. Completed => Completed'
      BY <1>1, <1>3, SameLive DEF Completed, WrittenEnd
    <3> QED
      BY <1>1, <3>1, <3>2, SameLive
  <2>2. \A i \in Slots : \A p \in Nat : Begun(i, p) => Begun(i, p)'
    BY <1>1, <1>3, SameLive DEF Begun
  <2> QED
    BY <1>1, <1>3, <1>4, <2>1, <2>2, SameCuts, MovesOrdered
<1> QED
  BY <1>2, <1>4, NotStreaming

LEMMA SameWritten ==
  ASSUME Types, SameMain, WrittenOK
  PROVE  WrittenOK'
<1>1. (Streaming' <=> Streaming) /\ inPos \in Nat
      /\ UNCHANGED <<stream, given, marks, action, result, sequence, inPos, written>>
  BY DEF SameMain, Streaming, Types, CoderTypes
<1>2. Streaming => Copied'
  BY <1>1, SameCuts, CopiedKept DEF WrittenOK
<1>3. Completed => Completed'
  BY <1>1, SameLive DEF Completed, WrittenEnd
<1> QED
  BY <1>1, <1>2, <1>3 DEF WrittenOK

(* What is left to show for a worker that takes a step: where its block    *)
(* is, and what main makes of it if it is the one that is given input.     *)
BlockStays(w) ==
  /\ \A i, p, q : Fills(w, i, p, q) =>
       \/ Fills(w, i, p, q)'
       \/ bufs'[i].finished = "yes" /\ bufs'[i].block = BlockOf(stream, p, q)
  /\ thr = w /\ mpc # "reset" => lo'[w] = lo[w] /\ outbuf'[w] = outbuf[w]
  /\ state'[w] = "RUN" => state[w] = "RUN"
  /\ wpc'[w] \in {"settle", "return"} =>
       wstate'[w] = "FINISH" /\ bufs'[outbuf'[w]].block = BlockOf(stream, lo'[w], lo'[w] + inSize'[w])

LEMMA OneOrdered ==
  ASSUME Safe, Safe', Ordered, SameMain, UNCHANGED threadError, NEW w \in Made,
         \A v \in Made : v # w =>
           UNCHANGED <<state[v], wpc[v], wstate[v], lo[v], inSize[v], outbuf[v]>>,
         UNCHANGED bufs \/ (Owns(w) /\ \A i \in Ring : i # outbuf[w] => bufs'[i] = bufs[i]),
         Live /\ ~threadError /\ EncodedOK => BlockStays(w)
  PROVE  Ordered'
<1>1. Types /\ HoldersOK /\ LiveOK /\ RingOK /\ OwnersOK /\ WorkersOK /\ Types'
  BY DEF Safe, HoldersOK
<1>2. WrittenOK'
  BY <1>1, SameWritten DEF Ordered
<1>3. SUFFICES ASSUME Live', ~threadError
               PROVE  Chained' /\ EncodedOK'
  BY <1>2 DEF Ordered, ChainOK
<1>4. Live /\ Chained /\ EncodedOK /\ BlockStays(w) /\ FreeOK /\ ThrOK
  BY <1>1, <1>3, SameLive DEF Ordered, ChainOK, LiveOK
<1>5. /\ UNCHANGED <<stream, given, marks, action, inPos, written, bufsAllocated, bufsPos, bufsUsed, thr>>
      /\ Made' = Made /\ Made \subseteq Threads /\ (mpc' = "reset" <=> mpc = "reset")
  BY <1>1, SameLive, MadeThreads DEF SameMain, Made
<1>6. ASSUME NEW v \in Made, v # w
      PROVE  HasSame(v)
  BY <1>6, SameIsSame DEF HasSame
<1>7. ASSUME NEW i \in Slots, NEW p \in Nat, NEW q \in Nat, Whole(i, p, q)
      PROVE  Whole(i, p, q)'
  <2>1. q = CutAfter(p)' /\ q <= inPos'
    BY <1>5, <1>7 DEF Whole, CutAfter
  <2>2. CASE bufs[i].finished = "yes" /\ bufs[i].block = BlockOf(stream, p, q)
    <3>1. Owns(w) => outbuf[w] # i
      BY <1>1, <2>2 DEF OwnersOK
    <3>2. i \in Ring
      BY <1>1, SlotsInRing
    <3>3. bufs'[i] = bufs[i]
      BY <3>1, <3>2
    <3> QED
      BY <1>5, <2>1, <2>2, <3>3 DEF Whole
  <2>3. CASE \E v \in Made : Fills(v, i, p, q)
    <3>1. PICK v \in Made : Fills(v, i, p, q)
      BY <2>3
    <3>2. CASE v # w
      <4>1. Fills(v, i, p, q)'
        BY <1>1, <1>5, <1>6, <3>1, <3>2, FillsSame
      <4> QED
        BY <1>5, <2>1, <4>1 DEF Whole
    <3>3. CASE v = w
      <4>1. Fills(w, i, p, q)' \/ (bufs'[i].finished = "yes" /\ bufs'[i].block = BlockOf(stream', p, q))
        BY <1>4, <1>5, <3>1, <3>3 DEF BlockStays
      <4> QED
        BY <1>5, <2>1, <4>1 DEF Whole
    <3> QED
      BY <3>2, <3>3
  <2> QED
    BY <1>7, <2>2, <2>3 DEF Whole
<1>8. ASSUME NEW i \in Slots, NEW p \in Nat, Begun(i, p)
      PROVE  Begun(i, p)'
  <2>1. PICK t : t = thr
    OBVIOUS
  <2>2. /\ t # 0 /\ mpc # "reset" /\ outbuf[t] = i /\ lo[t] = p
        /\ \A m \in marks : m <= p \/ (m = given /\ action # "RUN")
    BY <1>8, <2>1 DEF Begun
  <2>3. t \in Made
    BY <1>1, <1>4, <2>1, <2>2, MadeThreads DEF ThrOK, Made, Types, CoderTypes
  <2>4. lo'[t] = lo[t] /\ outbuf'[t] = outbuf[t]
    <3>1. CASE t = w
      BY <1>4, <2>1, <2>2, <3>1 DEF BlockStays
    <3>2. CASE t # w
      BY <2>3, <3>2
    <3> QED
      BY <3>1, <3>2
  <2>5. thr' = t
    BY <1>5, <2>1
  <2> QED
    BY <1>5, <2>2, <2>4, <2>5 DEF Begun
<1>9. Chained'
  BY <1>1, <1>4, <1>5, <1>7, <1>8, ChainKept
<1>10. EncodedOK'
  <2>1. ASSUME NEW v \in Made, v # w
        PROVE  /\ state'[v] = "RUN" => thr' = v
               /\ wpc'[v] \in {"settle", "return"} =>
                    /\ wstate'[v] = "FINISH"
                    /\ bufs'[outbuf'[v]].block = BlockOf(stream', lo'[v], lo'[v] + inSize'[v])
    <3>1. UNCHANGED state[v] /\ UNCHANGED wpc[v] /\ UNCHANGED wstate[v] /\ UNCHANGED lo[v]
          /\ UNCHANGED inSize[v] /\ UNCHANGED outbuf[v]
      BY <2>1
    <3>2. wpc[v] \in {"settle", "return"} => bufs'[outbuf[v]] = bufs[outbuf[v]]
      <4>1. SUFFICES ASSUME wpc[v] \in {"settle", "return"}
                     PROVE  bufs'[outbuf[v]] = bufs[outbuf[v]]
        OBVIOUS
      <4>2. Owns(v) /\ outbuf[v] \in Ring
        BY <1>1, <1>5, <4>1, Apart DEF Owns, Types, ThreadTypes
      <4>3. Owns(w) => outbuf[v] # outbuf[w]
        BY <1>1, <2>1, <4>2 DEF OwnersOK
      <4> QED
        BY <4>2, <4>3
    <3> QED
      BY <1>4, <1>5, <3>1, <3>2 DEF EncodedOK
  <2>2. /\ state'[w] = "RUN" => thr' = w
        /\ wpc'[w] \in {"settle", "return"} =>
             /\ wstate'[w] = "FINISH"
             /\ bufs'[outbuf'[w]].block = BlockOf(stream', lo'[w], lo'[w] + inSize'[w])
    BY <1>4, <1>5 DEF EncodedOK, BlockStays
  <2> QED
    BY <1>5, <2>1, <2>2 DEF EncodedOK
<1> QED
  BY <1>9, <1>10

LEMMA WorkerOrdered ==
  ASSUME Safe, Safe', Ordered, NEW w \in Threads, Worker(w)
  PROVE  Ordered'
<1>1. Types /\ HoldersOK /\ PhaseOK /\ LiveOK /\ RingOK /\ OwnersOK /\ WorkersOK /\ Types'
  BY DEF Safe, HoldersOK
<1>2. SameMain
  BY WorkerLeavesMain
<1>3. w \in Made
  <2>1. wpc[w] # "none"
    BY DEF Worker, WorkerIdle, WorkerMore, WorkerWhole, WorkerError, WorkerSettle, WorkerReturn
  <2> QED
    BY <1>1, <2>1, WorkerMade
<1>4. WorkerOK(w) /\ Made \subseteq Threads
  BY <1>1, <1>3, MadeThreads DEF WorkersOK
<1>5. Live => Placed(w)
  BY <1>1, <1>3 DEF LiveOK, FreeOK
<1>6. /\ wpc \in [Threads -> WorkerStates] /\ state \in [Threads -> States] /\ wstate \in [Threads -> States]
      /\ lo \in [Threads -> Nat] /\ inSize \in [Threads -> 0..BlockSize] /\ outbuf \in [Threads -> Ring]
      /\ bufs \in [Ring -> [finished : {"unset", "no", "yes"}, block : BlockType]]
  BY <1>1 DEF Types, PlaceTypes, ThreadTypes, QueueTypes
<1>7. CASE WorkerIdle(w)
  <2>1. PICK s : s = IF state[w] = "STOP" THEN "IDLE" ELSE state[w]
    OBVIOUS
  <2>2. /\ wpc[w] = "idle" /\ state' = [state EXCEPT ![w] = s] /\ wstate' = [wstate EXCEPT ![w] = s]
        /\ wpc' = [wpc EXCEPT ![w] = CASE s = "IDLE" -> "idle_wait"
                                       [] s = "EXIT" -> "exited"
                                       [] OTHER -> "more"]
        /\ UNCHANGED <<threadError, bufs, lo, inSize, outbuf>>
    BY <1>7, <2>1 DEF WorkerIdle, outq
  <2>3. ASSUME Live
        PROVE  BlockStays(w)
    <3>1. state[w] \in {"IDLE", "RUN", "FINISH"} /\ s = state[w]
      BY <1>5, <2>1, <2>3 DEF Placed
    <3>2. state'[w] = state[w] /\ wpc'[w] = (IF state[w] = "IDLE" THEN "idle_wait" ELSE "more")
      BY <1>4, <1>3, <1>6, <2>2, <3>1
    <3>3. ASSUME NEW i, NEW p, NEW q, Fills(w, i, p, q)
          PROVE  Fills(w, i, p, q)'
      <4>1. state[w] = "FINISH"
        BY <2>2, <3>3 DEF Fills
      <4>2. Owns(w)'
        BY <3>2, <4>1 DEF Owns, AtWork
      <4> QED
        BY <2>2, <3>2, <3>3, <4>1, <4>2 DEF Fills
    <3> QED
      BY <2>2, <3>2, <3>3 DEF BlockStays
  <2>4. \A v \in Made : v # w => UNCHANGED <<state[v], wpc[v], wstate[v], lo[v], inSize[v], outbuf[v]>>
    BY <1>4, <1>6, <2>2
  <2> QED
    BY <1>2, <1>3, <2>2, <2>3, <2>4, OneOrdered
<1>8. CASE WorkerMore(w) \/ WorkerWhole(w)
  <2>1. WorkKept /\ wpc[w] \in {"more", "whole"} /\ (WorkOn(w) \/ WorkEnds(w))
    BY <1>8, WorkCases
  <2>2. UNCHANGED <<threadError, state, lo, inSize, outbuf>> /\ Owns(w)
    BY <2>1 DEF WorkKept, thrVars, Owns, AtWork
  <2>3. \A v \in Made : v # w => UNCHANGED <<state[v], wpc[v], wstate[v], lo[v], inSize[v], outbuf[v]>>
    BY <1>4, <1>6, <2>1, <2>2 DEF WorkOn, WorkEnds
  <2>4. ASSUME wpc'[w] \in AtWork
        PROVE  \A i, p, q : Fills(w, i, p, q) => Fills(w, i, p, q)'
    <3>1. Owns(w)' /\ wpc[w] # "return"
      BY <2>1, <2>4 DEF Owns
    <3> QED
      BY <2>2, <3>1 DEF Fills
  <2>5. CASE WorkOn(w)
    <3>1. UNCHANGED bufs
      BY <2>5 DEF WorkOn
    <3>2. ASSUME Live
          PROVE  BlockStays(w)
      <4>1. state[w] \in {"IDLE", "RUN", "FINISH"}
        BY <1>5, <3>2 DEF Placed
      <4>2. wpc'[w] \in {"more_wait", "whole_wait", "more", "whole", "error"}
        BY <1>6, <2>5, <4>1 DEF WorkOn
      <4>3. wpc'[w] \in AtWork /\ wpc'[w] \notin {"settle", "return"}
        BY <4>2 DEF AtWork
      <4> QED
        BY <2>2, <2>4, <4>3 DEF BlockStays
    <3> QED
      BY <1>2, <1>3, <2>2, <2>3, <3>1, <3>2, OneOrdered
  <2>6. CASE WorkEnds(w)
    <3>1. /\ wstate' = [wstate EXCEPT ![w] = state[w]] /\ state[w] \notin {"STOP", "EXIT", "RUN"}
          /\ wpc' = [wpc EXCEPT ![w] = "settle"]
          /\ bufs' = [bufs EXCEPT ![outbuf[w]].block = BlockOf(stream, lo[w], lo[w] + inSize[w])]
      BY <2>6 DEF WorkEnds, Encoded
    <3>2. \A i \in Ring : i # outbuf[w] => bufs'[i] = bufs[i]
      BY <1>6, <3>1
    <3>3. ASSUME Live
          PROVE  BlockStays(w)
      <4>1. state[w] # "IDLE"
        BY <1>4, <2>1 DEF WorkerOK, AtWork
      <4>2. wstate'[w] = "FINISH" /\ wpc'[w] = "settle"
        BY <1>6, <3>1, <4>1 DEF States
      <4>3. bufs'[outbuf'[w]].block = BlockOf(stream, lo'[w], lo'[w] + inSize'[w])
        <5>1. outbuf[w] \in Ring
          BY <1>6
        <5>2. bufs'[outbuf[w]].block = BlockOf(stream, lo[w], lo[w] + inSize[w])
          BY <1>6, <3>1, <5>1
        <5> QED
          BY <2>2, <5>2
      <4> QED
        BY <2>2, <2>4, <4>2, <4>3 DEF BlockStays, AtWork
    <3> QED
      BY <1>2, <1>3, <2>2, <2>3, <3>2, <3>3, OneOrdered
  <2> QED
    BY <2>1, <2>5, <2>6
<1>9. CASE WorkerError(w)
  <2>1. threadError' = TRUE
    BY <1>9 DEF WorkerError
  <2>2. WrittenOK'
    BY <1>1, <1>2, SameWritten DEF Ordered
  <2> QED
    BY <2>1, <2>2 DEF Ordered, ChainOK
<1>10. CASE WorkerSettle(w)
  <2>1. /\ wpc[w] = "settle" /\ wpc' = [wpc EXCEPT ![w] = "return"]
        /\ state' \in {state, [state EXCEPT ![w] = "IDLE"]}
        /\ UNCHANGED <<threadError, bufs, lo, inSize, outbuf, wstate>>
    BY <1>10 DEF WorkerSettle, outq
  <2>2. \A v \in Made : v # w => UNCHANGED <<state[v], wpc[v], wstate[v], lo[v], inSize[v], outbuf[v]>>
    BY <1>4, <1>6, <2>1
  <2>3. ASSUME EncodedOK
        PROVE  BlockStays(w)
    <3>1. wpc'[w] = "return" /\ state'[w] \in {state[w], "IDLE"}
      BY <1>6, <2>1
    <3>2. wstate[w] = "FINISH" /\ bufs[outbuf[w]].block = BlockOf(stream, lo[w], lo[w] + inSize[w])
      BY <1>3, <2>1, <2>3 DEF EncodedOK
    <3>3. \A i, p, q : Fills(w, i, p, q) => Fills(w, i, p, q)'
      BY <2>1, <3>1 DEF Fills, Owns, AtWork
    <3> QED
      BY <2>1, <3>1, <3>2, <3>3 DEF BlockStays
  <2> QED
    BY <1>2, <1>3, <2>1, <2>2, <2>3, OneOrdered
<1>11. CASE WorkerReturn(w)
  <2>1. /\ wpc[w] = "return" /\ wpc' = [wpc EXCEPT ![w] = "idle"]
        /\ bufs' = [bufs EXCEPT ![outbuf[w]].finished = IF wstate[w] = "FINISH" THEN "yes" ELSE "no"]
        /\ UNCHANGED <<threadError, state>>
    BY <1>11 DEF WorkerReturn
  <2>2. /\ wstate' = [wstate EXCEPT ![w] = "IDLE"] /\ lo' = [lo EXCEPT ![w] = 0]
        /\ inSize' = [inSize EXCEPT ![w] = 0] /\ outbuf' = [outbuf EXCEPT ![w] = 0]
    BY <1>11 DEF WorkerReturn
  <2>3. \A v \in Made : v # w => UNCHANGED <<state[v], wpc[v], wstate[v], lo[v], inSize[v], outbuf[v]>>
    BY <1>4, <1>6, <2>1, <2>2
  <2>4. Owns(w) /\ \A i \in Ring : i # outbuf[w] => bufs'[i] = bufs[i]
    BY <1>6, <2>1 DEF Owns, AtWork
  <2>5. ASSUME Live, ~threadError, EncodedOK
        PROVE  BlockStays(w)
    <3>1. wstate[w] = "FINISH" /\ bufs[outbuf[w]].block = BlockOf(stream, lo[w], lo[w] + inSize[w])
      BY <1>3, <2>1, <2>5 DEF EncodedOK
    <3>2. PICK b : b = outbuf[w] /\ b \in Ring
      BY <1>6
    <3>3. bufs'[b].finished = "yes" /\ bufs'[b].block = bufs[b].block
      BY <1>6, <2>1, <3>1, <3>2
    <3>4. ASSUME NEW i, NEW p, NEW q, Fills(w, i, p, q)
          PROVE  bufs'[i].finished = "yes" /\ bufs'[i].block = BlockOf(stream, p, q)
      BY <3>1, <3>2, <3>3, <3>4 DEF Fills
    <3>5. ~(thr = w /\ mpc # "reset")
      <4>1. FreeOK /\ ThrOK
        BY <1>1, <2>5 DEF LiveOK
      <4>2. thr = w /\ mpc # "reset" => wpc[thr] \notin {"settle", "return"}
        BY <1>1, <1>3, <2>5, <4>1, GivenOwns, MadeThreads, Numbers DEF Made
      <4> QED
        BY <2>1, <4>2
    <3>6. wpc'[w] = "idle" /\ state[w] # "RUN"
      BY <1>4, <1>6, <2>1 DEF WorkerOK
    <3> QED
      BY <2>1, <3>4, <3>5, <3>6 DEF BlockStays
  <2> QED
    BY <1>2, <1>3, <2>1, <2>3, <2>4, <2>5, OneOrdered
<1> QED
  BY <1>7, <1>8, <1>9, <1>10, <1>11 DEF Worker

LEMMA StutterOrdered ==
  ASSUME Safe, Safe', Ordered, UNCHANGED vars
  PROVE  Ordered'
<1>1. /\ UNCHANGED <<stream, given, marks, action, result, max, sequence, inPos, thr, threadError, written,
                     bufs, bufsAllocated, bufsPos, bufsUsed, state, lo, inSize, outbuf, initialized,
                     mpc, wpc, wstate>>
  BY DEF vars, appVars, outq, thrVars, wVars
<1>2. CASE ~Streaming
  BY <1>1, <1>2, NotStreaming DEF Streaming
<1>3. CASE Streaming
  <2>1. Live' => Live /\ Completed'
    BY <1>1, <1>3 DEF Ordered, WrittenOK, Live, Completed, WrittenEnd, Streaming
  <2>2. \A i \in Slots : \A p \in Nat : Begun(i, p) => Begun(i, p)'
    BY <1>1 DEF Begun
  <2> QED
    BY <1>1, <1>3, <2>1, <2>2, SameIsSame, SameCuts, MovesOrdered DEF Safe
<1> QED
  BY <1>2, <1>3

LEMMA StepOrdered ==
  ASSUME Safe, Safe', Ordered, [Next]_vars
  PROVE  Ordered'
<1>1. Types' /\ HoldersOK
  BY DEF Safe
<1>2. CASE AppStep
  <2>1. CASE Stopped
    BY <2>1, StutterOrdered DEF Stopped
  <2> QED
    BY <1>1, <1>2, <2>1, CallOrdered, RestartOrdered DEF AppStep
<1>3. CASE InCallStep
  BY <1>3, ReadOrdered, QuietOrdered, ThreadOrdered, ResetThreadOrdered, PutOrdered DEF InCallStep
<1>4. CASE StopStep \/ SpuriousWake \/ \E w \in Threads : Worker(w)
  BY <1>4, StopOrdered, WakeOrdered, WorkerOrdered
<1>5. CASE UNCHANGED vars
  BY <1>5, StutterOrdered
<1> QED
  BY <1>2, <1>3, <1>4, <1>5, Steps

LEMMA InitOrdered ==
  ASSUME Init
  PROVE  Ordered
<1>1. max = 0
  BY DEF Init
<1>2. ~Streaming
  BY <1>1 DEF Streaming
<1> QED
  BY <1>2 DEF Ordered, WrittenOK, ChainOK, Live

(* The blocks that are written, those in the ring that are finished or     *)
(* that a worker has to finish, and the one that is given input follow     *)
(* each other in the input, and each ends where it has to.                 *)
THEOREM OrderInvariant == Reuses \subseteq {"end"} => (Spec => [](Safe /\ Ordered))
<1> SUFFICES ASSUME Reuses \subseteq {"end"} PROVE Spec => [](Safe /\ Ordered)
  OBVIOUS
<1>1. Safe /\ Ordered /\ [Next]_vars => (Safe /\ Ordered)'
  BY StepSafe, StepOrdered
<1>2. Init => Safe /\ Ordered
  BY InitSafe, InitOrdered
<1> QED
  BY <1>1, <1>2, PTL DEF Spec

-----------------------------------------------------------------------------
(* What is written                                                         *)

(* The index has the blocks in the output as long as nothing in the stream *)
(* has failed.                                                             *)
IndexKept == faults \in Nat /\ (Streaming /\ faults = 0 => index = written)

(* Steps that leave output and index alone, and begin no stream.           *)
IndexLeft ==
  /\ UNCHANGED <<written, index>> /\ (faults' = faults \/ faults' = faults + 1)
  /\ Streaming' => Streaming

LEMMA LeftIsKept ==
  ASSUME IndexKept, IndexLeft
  PROVE  IndexKept'
<1>1. faults \in Nat
  BY DEF IndexKept
<1>2. faults' \in Nat /\ (faults' = 0 => faults = 0)
  BY <1>1 DEF IndexLeft
<1> QED
  BY <1>2 DEF IndexKept, IndexLeft

LEMMA ReadIndex ==
  ASSUME Safe, IndexKept, Read
  PROVE  IndexKept'
<1>1. mpc = "read" /\ UNCHANGED max /\ mpc' \in {"read", "in", "stop_error"}
  BY ReadCases DEF AfterRead, Fails
<1>2. Streaming' <=> Streaming
  BY <1>1 DEF Streaming
<1>3. faults \in Nat /\ bufsUsed \in Nat
  BY DEF IndexKept, Safe, Types, QueueTypes
<1>4. CASE OutqRead /\ bufsUsed' # bufsUsed /\ EndOfBlock
  <2>1. written' = Append(written, bufs[Oldest].block)
    BY <1>4 DEF OutqRead
  <2>2. \/ index' = Append(index, bufs[Oldest].block) /\ faults' = faults
        \/ faults' = faults + 1
    BY <1>4 DEF EndOfBlock
  <2>3. CASE index' = Append(index, bufs[Oldest].block) /\ faults' = faults
    BY <1>2, <2>1, <2>3 DEF IndexKept
  <2>4. CASE faults' = faults + 1
    <3>1. faults' \in Nat /\ faults' # 0
      BY <1>3, <2>4
    <3> QED
      BY <3>1 DEF IndexKept
  <2> QED
    BY <2>2, <2>3, <2>4
<1>5. CASE OutqRead /\ bufsUsed' = bufsUsed /\ UNCHANGED <<index, faults>>
  <2>1. bufsUsed' # bufsUsed - 1
    BY <1>3, <1>5
  <2>2. UNCHANGED written
    BY <1>5, <2>1 DEF OutqRead
  <2> QED
    BY <1>2, <1>5, <2>2, LeftIsKept DEF IndexLeft
<1>6. CASE UNCHANGED <<written, index, faults>>
  BY <1>2, <1>6, LeftIsKept DEF IndexLeft
<1> QED
  BY <1>4, <1>5, <1>6 DEF Read

LEMMA CallIndex ==
  ASSUME Safe, IndexKept, InCallStep
  PROVE  IndexKept'
<1>1. MainGoesOn
  BY CallGoesOn DEF Safe, HoldersOK
<1>2. Streaming' => Streaming
  <2>1. mpc \notin {"stop", "settle", "settle_wait", "exit", "join"} /\ UNCHANGED max
    BY <1>1, Places DEF MainGoesOn, Stopping, Ending
  <2> QED
    BY <2>1 DEF Streaming
<1>3. CASE Read
  BY <1>3, ReadIndex
<1>4. CASE InDone \/ BlockError
  <2>1. UNCHANGED <<written, index>>
    BY <1>4 DEF InDone, BlockError
  <2>2. Decide \/ UNCHANGED faults
    BY <1>4 DEF InDone, BlockError
  <2>3. faults' = faults \/ faults' = faults + 1
    BY <2>2 DEF Decide, BeginIndex
  <2> QED
    BY <1>2, <2>1, <2>3, LeftIsKept DEF IndexLeft
<1>5. CASE PopThread \/ NewThread \/ ResetThread \/ Put
  <2>1. UNCHANGED <<written, index>> /\ (faults' = faults \/ faults' = faults + 1)
    BY <1>5 DEF PopThread, NewThread, ResetThread, Put, appVars
  <2> QED
    BY <1>2, <2>1, LeftIsKept DEF IndexLeft
<1>6. CASE WaitForWork \/ EncodeIndex \/ TimeOut
  <2>1. UNCHANGED <<written, index, faults>>
    BY <1>6 DEF WaitForWork, EncodeIndex, TimeOut, appVars
  <2> QED
    BY <1>2, <2>1, LeftIsKept DEF IndexLeft
<1> QED
  BY <1>3, <1>4, <1>5, <1>6 DEF InCallStep

LEMMA AppIndex ==
  ASSUME IndexKept, AppStep
  PROVE  IndexKept'
<1>1. CASE \E a \in Actions, n \in 0..MostInput, r \in Rooms : Call(a, n, r)
  <2>1. UNCHANGED <<written, index, faults, max>> /\ mpc = "app"
    BY <1>1 DEF Call
  <2>2. Streaming' => Streaming
    BY <2>1 DEF Streaming
  <2> QED
    BY <2>1, <2>2, LeftIsKept DEF IndexLeft
<1>2. CASE \E m \in Threads : StartStream(m)
  <2>1. faults' = 0 /\ mpc' \in {"stop", "exit"}
    BY <1>2 DEF StartStream
  <2> QED
    BY <2>1 DEF IndexKept, Streaming
<1>3. CASE EndEncoder
  <2>1. faults' = faults /\ mpc' = "exit"
    BY <1>3 DEF EndEncoder
  <2> QED
    BY <2>1 DEF IndexKept, Streaming
<1>4. CASE Stopped
  <2>1. UNCHANGED <<written, index, faults, max, mpc>>
    BY <1>4 DEF Stopped, vars, appVars
  <2> QED
    BY <2>1 DEF IndexKept, Streaming
<1> QED
  BY <1>1, <1>2, <1>3, <1>4 DEF AppStep

LEMMA StopIndex ==
  ASSUME IndexKept, StopStep
  PROVE  IndexKept'
<1>1. CASE Tell("stop_error", "STOP", "app")
  <2>1. UNCHANGED <<written, index, faults, max>> /\ mpc = "stop_error"
    BY <1>1 DEF Tell, appVars
  <2>2. Streaming' => Streaming
    BY <2>1 DEF Streaming
  <2> QED
    BY <2>1, <2>2, LeftIsKept DEF IndexLeft
<1>2. CASE Tell("stop", "STOP", "settle") \/ TellExit
  <2>1. faults' = faults /\ mpc' \in {"stop", "settle", "exit", "join"}
    BY <1>2 DEF Tell, TellExit, appVars
  <2> QED
    BY <2>1 DEF IndexKept, Streaming
<1>3. CASE Settle \/ Join
  <2>1. /\ faults' = faults
        /\ mpc' \in {"settle", "settle_wait", "join"} \/ (written' = <<>> /\ index' = <<>>)
    BY <1>3 DEF Settle, Join, OutqInit, appVars
  <2> QED
    BY <2>1 DEF IndexKept, Streaming
<1> QED
  BY <1>1, <1>2, <1>3 DEF StopStep, TellStop

LEMMA WorkerIndex ==
  ASSUME IndexKept, NEW w \in Threads, Worker(w)
  PROVE  IndexKept'
<1>1. UNCHANGED <<written, index, max>>
  BY DEF Worker, WorkerIdle, WorkerMore, WorkerWhole, WorkerError, WorkerSettle, WorkerReturn
<1>2. faults' = faults \/ faults' = faults + 1
  <2>1. CASE WorkerMore(w)
    BY <2>1 DEF WorkerMore, Leave, Encode
  <2>2. CASE WorkerWhole(w)
    BY <2>2 DEF WorkerWhole, Leave
  <2>3. CASE WorkerIdle(w) \/ WorkerError(w) \/ WorkerSettle(w) \/ WorkerReturn(w)
    BY <2>3 DEF WorkerIdle, WorkerError, WorkerSettle, WorkerReturn, appVars
  <2> QED
    BY <2>1, <2>2, <2>3 DEF Worker
<1>3. mpc' = mpc \/ (mpc = "work_wait" /\ mpc' = "work") \/ (mpc = "settle_wait" /\ mpc' = "settle")
  BY DEF Worker, WorkerIdle, WorkerMore, WorkerWhole, WorkerError, WorkerSettle, WorkerReturn,
         MainWoken, MainWokenBy
<1>4. Streaming' => Streaming
  BY <1>1, <1>3 DEF Streaming
<1> QED
  BY <1>1, <1>2, <1>4, LeftIsKept DEF IndexLeft

LEMMA WakeIndex ==
  ASSUME IndexKept, SpuriousWake
  PROVE  IndexKept'
<1>1. /\ UNCHANGED <<written, index, faults, max>>
      /\ mpc' = mpc \/ (mpc = "work_wait" /\ mpc' = "work") \/ (mpc = "settle_wait" /\ mpc' = "settle")
  BY DEF SpuriousWake, MainWoken, MainWokenBy, appVars
<1>2. Streaming' => Streaming
  BY <1>1 DEF Streaming
<1> QED
  BY <1>1, <1>2, LeftIsKept DEF IndexLeft

LEMMA StepIndex ==
  ASSUME Safe, IndexKept, [Next]_vars
  PROVE  IndexKept'
<1>1. CASE Next
  BY <1>1, Steps, CallIndex, AppIndex, StopIndex, WorkerIndex, WakeIndex
<1>2. CASE UNCHANGED vars
  <2>1. UNCHANGED <<written, index, faults, max, mpc>>
    BY <1>2 DEF vars, appVars
  <2> QED
    BY <2>1 DEF IndexKept, Streaming
<1> QED
  BY <1>1, <1>2

LEMMA WrittenInOrder ==
  ASSUME Safe, Ordered, IndexKept
  PROVE  OutputIsInput
<1> DEFINE end(k) == IF k = 0 THEN 0 ELSE written[k].hi
<1>1. \A k : end(k) = WrittenEnd(k)
  BY DEF WrittenEnd
<1> HIDE DEF end
<1>2. SUFFICES ASSUME Streaming
               PROVE  /\ \A k \in DOMAIN written :
                           written[k] = BlockOf(stream, end(k - 1), CutAfter(end(k - 1)))
                      /\ mpc = "app" /\ result = "end" =>
                           /\ inPos = given
                           /\ action # "FULL_BARRIER" => end(Len(written)) = given
                      /\ faults = 0 => index = written
  BY DEF OutputIsInput, end
<1>3. \A k \in DOMAIN written : written[k] = BlockOf(stream, end(k - 1), CutAfter(end(k - 1)))
  BY <1>1, <1>2 DEF Ordered, WrittenOK, Copied
<1>4. ASSUME mpc = "app", result = "end"
      PROVE  inPos = given /\ (action # "FULL_BARRIER" => end(Len(written)) = given)
  <2>1. Live /\ IndexOK
    BY <1>2, <1>4 DEF Live, Safe, LiveOK
  <2>2. Completed
    BY <1>2, <2>1 DEF Ordered, WrittenOK, Live
  <2> QED
    BY <1>1, <1>4, <2>1, <2>2 DEF Completed, IndexOK
<1>5. faults = 0 => index = written
  BY <1>2 DEF IndexKept
<1> QED
  BY <1>3, <1>4, <1>5

(* However the workers are scheduled and whatever of them, of new threads  *)
(* and of lzma_index_append() fails, the blocks in the output are the      *)
(* input, in order, cut where lzma_code() was asked to.  The index has the *)
(* same blocks as long as nothing has failed: after that it may lack some. *)
THEOREM BlocksInOrder == Reuses \subseteq {"end"} => (Spec => []OutputIsInput)
<1> SUFFICES ASSUME Reuses \subseteq {"end"} PROVE Spec => []OutputIsInput
  OBVIOUS
<1>1. Safe /\ Ordered /\ IndexKept => OutputIsInput
  BY WrittenInOrder
<1>2. Init => IndexKept
  BY DEF Init, IndexKept
<1>3. Safe /\ IndexKept /\ [Next]_vars => IndexKept'
  BY StepIndex
<1> QED
  BY <1>1, <1>2, <1>3, OrderInvariant, PTL DEF Spec

-----------------------------------------------------------------------------
(* Who has what                                                            *)

LEMMA StackedOnce ==
  ASSUME IsInjective(free), NEW w
  PROVE  Cardinality(OnStack(w)) = IF w \in Range(free) THEN 1 ELSE 0
<1>1. CASE w \in Range(free)
  <2>1. PICK k \in DOMAIN free : free[k] = w
    BY <1>1 DEF Range
  <2>2. OnStack(w) = {k}
    BY <2>1 DEF OnStack, IsInjective
  <2> QED
    BY <1>1, <2>2, FS_Singleton
<1>2. CASE w \notin Range(free)
  <2>1. OnStack(w) = {}
    BY <1>2 DEF OnStack, Range
  <2> QED
    BY <1>2, <2>1, FS_EmptySet
<1> QED
  BY <1>1, <1>2

LEMMA Accounted ==
  ASSUME Safe, Ordered
  PROVE  ThreadsAccounted
<1> DEFINE B == {w \in 1..initialized : Busy(w)}
<1>1. SUFFICES ASSUME Streaming, result # "error"
               PROVE  /\ \A w \in 1..initialized :
                           Cardinality(OnStack(w)) =
                             IF Busy(w) \/ (mpc = "reset" /\ thr = w) THEN 0 ELSE 1
                      /\ ~threadError =>
                           {outbuf[w] : w \in B} = Unfinished /\ Cardinality(Unfinished) = Cardinality(B)
  BY DEF ThreadsAccounted
<1>2. Live /\ Types /\ HoldersOK /\ RingOK /\ OwnersOK /\ WorkersOK /\ FreeOK /\ ThrOK
  BY <1>1 DEF Live, Safe, HoldersOK, LiveOK
<1>3. ASSUME NEW w \in 1..initialized
      PROVE  Cardinality(OnStack(w)) = IF Busy(w) \/ (mpc = "reset" /\ thr = w) THEN 0 ELSE 1
  <2>1. w \in Range(free) <=> ~Busy(w) /\ ~(mpc = "reset" /\ thr = w)
    BY <1>2 DEF FreeOK, Placed, Made
  <2> QED
    BY <1>2, <2>1, StackedOnce DEF FreeOK
<1>4. ASSUME ~threadError
      PROVE  {outbuf[w] : w \in B} = Unfinished /\ Cardinality(Unfinished) = Cardinality(B)
  <2>1. Chained
    BY <1>2, <1>4 DEF Ordered, ChainOK
  <2>2. PICK e \in [0..bufsUsed -> 0..inPos] : Cut(e)
    BY <2>1 DEF Chained
  <2>3. ASSUME NEW w \in B
        PROVE  w \in Made /\ Owns(w)
    <3>1. w \in Made /\ Busy(w)
      BY DEF Made
    <3>2. wpc[w] \in Idling \union AtWork
      BY <1>2, <3>1 DEF FreeOK, Placed
    <3> QED
      BY <3>1, <3>2, Apart DEF Busy, Owns
  <2>4. ASSUME NEW w \in B
        PROVE  outbuf[w] \in Unfinished
    <3>1. outbuf[w] \in Slots /\ bufs[outbuf[w]].finished = "no" /\ outbuf[w] \in Ring
      BY <1>2, <2>3, SlotsInRing DEF OwnersOK
    <3> QED
      BY <3>1 DEF Unfinished, Slots, Slot
  <2>5. ASSUME NEW i \in Unfinished
        PROVE  \E w \in B : outbuf[w] = i
    <3>1. PICK k \in 1..bufsUsed : i = Slot(k) /\ bufs[i].finished # "yes"
      BY DEF Unfinished, Slot
    <3>2. CASE Whole(i, e[k - 1], e[k])
      <4>1. PICK w \in Made : Fills(w, i, e[k - 1], e[k])
        BY <3>1, <3>2 DEF Whole
      <4>2. outbuf[w] = i /\ (state[w] = "FINISH" \/ wpc[w] = "return")
        BY <4>1 DEF Fills
      <4> QED
        BY <4>2 DEF Busy, Made
    <3>3. CASE Begun(i, e[k - 1])
      <4>1. thr # 0 /\ mpc # "reset" /\ outbuf[thr] = i
        BY <3>3 DEF Begun
      <4>2. thr \in Made /\ state[thr] = "RUN"
        BY <1>2, <1>4, <4>1, GivenOwns
      <4> QED
        BY <4>1, <4>2 DEF Busy, Made
    <3> QED
      BY <2>2, <3>1, <3>2, <3>3 DEF Cut
  <2>6. {outbuf[w] : w \in B} = Unfinished
    BY <2>4, <2>5
  <2>7. PICK f : f = [w \in B |-> outbuf[w]]
    OBVIOUS
  <2>8. f \in [B -> Unfinished] /\ \A i \in Unfinished : \E w \in B : f[w] = i
    BY <2>4, <2>5, <2>7
  <2>9. \A v, w \in B : f[v] = f[w] => v = w
    <3>1. ASSUME NEW v \in B, NEW w \in B, v # w
          PROVE  f[v] # f[w]
      BY <1>2, <2>3, <2>7, <3>1 DEF OwnersOK
    <3> QED
      BY <3>1
  <2>10. IsFiniteSet(B)
    <3>1. initialized \in Nat
      BY <1>2, MadeThreads
    <3>2. IsFiniteSet(1..initialized)
      BY <3>1, FS_Interval
    <3> QED
      BY <3>2, FS_Subset
  <2>11. ExistsBijection(B, Unfinished)
    <3> HIDE DEF B
    <3>1. f \in Bijection(B, Unfinished)
      BY ONLY <2>8, <2>9, Fun_IsBij
    <3> QED
      BY <3>1 DEF ExistsBijection
  <2>12. Cardinality(Unfinished) = Cardinality(B)
    <3> HIDE DEF B
    <3> QED
      BY ONLY <2>10, <2>11, FS_Bijection
  <2> QED
    BY <2>6, <2>12
<1> QED
  BY <1>3, <1>4

(* However the workers are scheduled, no worker is lost or on the stack of *)
(* free threads twice, and no two workers have the same buffer: what       *)
(* get_thread() and the workers' last lines rely on.                       *)
THEOREM EveryThreadAccounted == Reuses \subseteq {"end"} => (Spec => []ThreadsAccounted)
<1> SUFFICES ASSUME Reuses \subseteq {"end"} PROVE Spec => []ThreadsAccounted
  OBVIOUS
<1>1. Safe /\ Ordered => ThreadsAccounted
  BY Accounted
<1> QED
  BY <1>1, OrderInvariant, PTL

-----------------------------------------------------------------------------
(* The ring as a queue                                                     *)

Held(i) == IF bufs[i].finished = "yes" THEN bufs[i].block ELSE NoBlock
Queue == [k \in 1..bufsUsed |-> Held(Slot(k))]

LEMMA QueueTyped ==
  ASSUME Types, RingOK
  PROVE  /\ Queue \in Seq(BlockType) /\ Len(Queue) = bufsUsed /\ bufsUsed \in Nat
         /\ \A k \in 1..bufsUsed : Queue[k] = Held(Slot(k))
         /\ \A i \in Ring : Held(i) \in BlockType
<1>1. bufsUsed \in Nat
  BY DEF Types, QueueTypes
<1>2. ASSUME NEW i \in Ring
      PROVE  Held(i) \in BlockType
  BY Blocks DEF Types, QueueTypes, Held
<1>3. \A k \in 1..bufsUsed : Slot(k) \in Ring
  BY SlotsInRing DEF Slots
<1>4. Queue \in [1..bufsUsed -> BlockType]
  BY <1>2, <1>3 DEF Queue
<1> QED
  BY <1>1, <1>2, <1>4 DEF Queue

LEMMA QueueSame ==
  ASSUME UNCHANGED <<bufsAllocated, bufsPos, bufsUsed>>, \A i \in Slots : Held(i)' = Held(i)
  PROVE  Queue' = Queue
<1>1. ASSUME NEW k \in 1..bufsUsed
      PROVE  Held(Slot(k))' = Held(Slot(k))
  <2>1. PICK i : i = Slot(k)
    OBVIOUS
  <2>2. i \in Slots /\ Slot(k)' = i
    BY <2>1, SlotsSame DEF Slots
  <2>3. Held(Slot(k))' = Held(i)'
    BY <2>2 DEF Held
  <2> QED
    BY <2>1, <2>2, <2>3
<1> QED
  BY <1>1 DEF Queue

LEMMA QueueUnchanged ==
  ASSUME UNCHANGED <<bufs, bufsAllocated, bufsPos, bufsUsed>>
  PROVE  Queue' = Queue
<1>1. \A i : Held(i)' = Held(i)
  BY DEF Held
<1> QED
  BY <1>1, QueueSame

(* BlockQueue's operations in terms of the queue.                          *)
LEMMA AbstractIs ==
  /\ Abstract!Init <=> Queue = <<>> /\ written = <<>>
  /\ Abstract!GetBuf <=>
       Len(Queue) < 2 * MaxThreads /\ Queue' = Append(Queue, NoBlock) /\ written' = written
  /\ Abstract!Finish <=>
       /\ Queue' # Queue
       /\ \E k \in DOMAIN Queue, b \in AllBlocks : Queue[k] = NoBlock /\ Queue' = [Queue EXCEPT ![k] = b]
       /\ written' = written
  /\ Abstract!Read <=>
       /\ Queue # <<>> /\ Head(Queue) # NoBlock
       /\ written' = Append(written, Head(Queue)) /\ Queue' = Tail(Queue)
  /\ Abstract!Reset <=> Queue' = <<>> /\ written' = <<>>
  /\ UNCHANGED Abstract!vars <=> Queue' = Queue /\ written' = written
<1>1. Abstract!Init <=> Queue = <<>> /\ written = <<>>
  BY Zenon DEF Queue, Held, Slot, Abstract!Init
<1>2. Abstract!GetBuf <=>
        Len(Queue) < 2 * MaxThreads /\ Queue' = Append(Queue, NoBlock) /\ written' = written
  BY Zenon DEF Queue, Held, Slot, Abstract!GetBuf
<1>3. Abstract!Finish <=>
        /\ Queue' # Queue
        /\ \E k \in DOMAIN Queue, b \in AllBlocks : Queue[k] = NoBlock /\ Queue' = [Queue EXCEPT ![k] = b]
        /\ written' = written
  BY Zenon DEF Queue, Held, Slot, Abstract!Finish
<1>4. Abstract!Read <=>
        /\ Queue # <<>> /\ Head(Queue) # NoBlock
        /\ written' = Append(written, Head(Queue)) /\ Queue' = Tail(Queue)
  BY Zenon DEF Queue, Held, Slot, Abstract!Read
<1>5. Abstract!Reset <=> Queue' = <<>> /\ written' = <<>>
  BY Zenon DEF Queue, Held, Slot, Abstract!Reset
<1>6. UNCHANGED Abstract!vars <=> Queue' = Queue /\ written' = written
  BY SMT DEF Queue, Held, Slot, Abstract!vars
<1> QED
  BY ONLY <1>1, <1>2, <1>3, <1>4, <1>5, <1>6

(* The ring is changed where a buffer is taken, finished or read to its    *)
(* end, and by lzma_outq_init().                                           *)
LEMMA GetBufGets ==
  ASSUME Safe, ResetThread
  PROVE  Abstract!GetBuf
<1>1. mpc = "reset" /\ mpc \in Calling /\ Types /\ RingOK /\ PhaseOK /\ LiveOK
  BY DEF ResetThread, Calling, Safe, HoldersOK
<1>2. HasBuf
  BY <1>1, CallIsLive DEF ThrOK
<1>3. GetBuf(thr) /\ UNCHANGED written
  BY DEF ResetThread
<1>4. /\ \A k \in 1..bufsUsed : Slot(k)' = Slot(k)
      /\ \A k : k = bufsUsed + 1 => Slot(k)' = bufsPos
      /\ bufsUsed' = bufsUsed + 1
  BY <1>1, <1>2, <1>3, SlotTaken
<1>5. bufsPos \in Ring /\ bufsPos \notin Slots
  BY <1>1, <1>2, InRing, SlotsInRing
<1>6. /\ \A i \in Slots : Held(i)' = Held(i)
      /\ \A i : i = bufsPos => Held(i)' = NoBlock
  <2>1. bufs' = [bufs EXCEPT ![bufsPos] = [finished |-> "no", block |-> NoBlock]]
    BY <1>3 DEF GetBuf
  <2>2. bufs \in [Ring -> [finished : {"unset", "no", "yes"}, block : BlockType]] /\ Slots \subseteq Ring
    BY <1>1, SlotsInRing DEF Types, QueueTypes
  <2> QED
    BY <1>5, <2>1, <2>2 DEF Held
<1>7. Queue \in Seq(BlockType) /\ Len(Queue) = bufsUsed /\ bufsUsed \in Nat /\ NoBlock \in BlockType
      /\ \A k \in 1..bufsUsed : Queue[k] = Held(Slot(k))
  BY <1>1, QueueTyped, Blocks
<1>8. PICK r : r = Append(Queue, NoBlock)
  OBVIOUS
<1>9. r \in Seq(BlockType) /\ Len(r) = bufsUsed + 1 /\ r[bufsUsed + 1] = NoBlock
      /\ \A k \in 1..bufsUsed : r[k] = Queue[k]
  BY <1>7, <1>8, AppendProperties
<1>10. ASSUME NEW k \in 1..(bufsUsed + 1)
       PROVE  Held(Slot(k))' = r[k]
  <2>1. PICK i : i = Slot(k)'
    OBVIOUS
  <2>2. Held(Slot(k))' = Held(i)'
    BY <2>1 DEF Held
  <2>3. CASE k \in 1..bufsUsed
    <3>1. i = Slot(k) /\ i \in Slots
      BY <1>4, <2>1, <2>3 DEF Slots
    <3> QED
      BY <1>6, <1>7, <1>9, <2>2, <2>3, <3>1
  <2>4. CASE k = bufsUsed + 1
    BY <1>4, <1>6, <1>9, <2>1, <2>2, <2>4
  <2> QED
    BY <1>7, <2>3, <2>4
<1>11. Queue' = r
  <2>1. Queue' = [k \in 1..(bufsUsed + 1) |-> Held(Slot(k))']
    BY <1>4 DEF Queue
  <2>2. r = [k \in 1..(bufsUsed + 1) |-> r[k]]
    BY <1>9, LenProperties
  <2> QED
    BY <1>10, <2>1, <2>2
<1>12. Len(Queue) < 2 * MaxThreads
  BY <1>1, <1>2, <1>7, Numbers DEF HasBuf, RingOK, Types, QueueTypes
<1> QED
  BY <1>3, <1>8, <1>11, <1>12, AbstractIs

LEMMA ReadReads ==
  ASSUME Safe, Read
  PROVE  Abstract!Read \/ UNCHANGED Abstract!vars
<1>1. Types /\ RingOK
  BY DEF Safe, HoldersOK
<1>2. CASE threadError \/ NothingToRead
  <2>1. UNCHANGED outq /\ UNCHANGED written
    BY <1>2, ReadCases
  <2> QED
    BY <2>1, QueueUnchanged, AbstractIs DEF outq
<1>3. CASE ~threadError /\ ~NothingToRead
  <2>1. OutqRead
    BY <1>3, ReadCases
  <2>2. /\ bufsUsed > 0 /\ bufs[Oldest].finished = "yes" /\ Oldest \in Slots /\ Oldest \in Ring
        /\ bufs[Oldest].block \in AllBlocks
        /\ UNCHANGED <<bufsAllocated, bufsPos>>
        /\ ReadPart \/ ReadWhole
    BY <1>1, <1>3, <2>1, ReadIs
  <2>3. CASE ReadPart
    BY <2>2, <2>3, QueueUnchanged, AbstractIs DEF ReadPart
  <2>4. CASE ReadWhole
    <3>1. /\ bufsUsed' = bufsUsed - 1 /\ bufs' = [bufs EXCEPT ![Oldest].block = NoBlock]
          /\ written' = Append(written, bufs[Oldest].block)
      BY <2>4 DEF ReadWhole
    <3>2. /\ \A k \in 1..(bufsUsed - 1) : Slot(k)' = Slot(k + 1)
          /\ Slot(1) = Oldest /\ \A j, k \in 1..bufsUsed : Slot(j) = Slot(k) => j = k
      BY <1>1, <2>2, <3>1, SlotRead, SlotsInRing
    <3>3. Queue \in Seq(BlockType) /\ Len(Queue) = bufsUsed /\ bufsUsed \in Nat
          /\ \A k \in 1..bufsUsed : Queue[k] = Held(Slot(k))
      BY <1>1, QueueTyped
    <3>4. Queue # <<>> /\ Head(Queue) = Queue[1] /\ Queue[1] = bufs[Oldest].block
      <4>1. 1 \in 1..bufsUsed
        BY <2>2, <3>3
      <4>2. Queue[1] = Held(Oldest)
        BY <3>2, <3>3, <4>1
      <4> QED
        BY <2>2, <3>3, <4>2 DEF Held
    <3>5. bufs[Oldest].block # NoBlock
      <4>1. bufs[Oldest].block.hi # 0
        BY <2>2 DEF AllBlocks, BlockOf
      <4> QED
        BY <4>1 DEF NoBlock, BlockOf
    <3>6. PICK r : r = Tail(Queue)
      OBVIOUS
    <3>7. r \in Seq(BlockType) /\ Len(r) = bufsUsed - 1 /\ \A k \in 1..(bufsUsed - 1) : r[k] = Queue[k + 1]
      BY <3>3, <3>4, <3>6, HeadTailProperties
    <3>8. \A i \in Ring : i # Oldest => Held(i)' = Held(i)
      <4>1. bufs \in [Ring -> [finished : {"unset", "no", "yes"}, block : BlockType]]
        BY <1>1 DEF Types, QueueTypes
      <4> QED
        BY <3>1, <4>1 DEF Held
    <3>9. ASSUME NEW k \in 1..(bufsUsed - 1)
          PROVE  Held(Slot(k))' = r[k]
      <4>1. PICK i : i = Slot(k + 1)
        OBVIOUS
      <4>2. k + 1 \in 1..bufsUsed /\ 1 \in 1..bufsUsed /\ k + 1 # 1
        BY <3>3
      <4>3. i # Oldest /\ i \in Ring /\ Slot(k)' = i
        BY <1>1, <3>2, <4>1, <4>2, SlotsInRing DEF Slots
      <4>4. Held(Slot(k))' = Held(i)'
        BY <4>3 DEF Held
      <4> QED
        BY <3>3, <3>7, <3>8, <4>1, <4>2, <4>3, <4>4
    <3>10. Queue' = r
      <4>1. Queue' = [k \in 1..(bufsUsed - 1) |-> Held(Slot(k))']
        BY <3>1 DEF Queue
      <4>2. r = [k \in 1..(bufsUsed - 1) |-> r[k]]
        BY <3>7, LenProperties
      <4> QED
        BY <3>9, <4>1, <4>2
    <3> QED
      BY <3>1, <3>4, <3>5, <3>6, <3>10, AbstractIs
  <2> QED
    BY <2>2, <2>3, <2>4
<1> QED
  BY <1>2, <1>3

LEMMA WorkerReturnFinishes ==
  ASSUME Safe, NEW w \in Threads, WorkerReturn(w)
  PROVE  Abstract!Finish \/ UNCHANGED Abstract!vars
<1>1. Types /\ RingOK /\ PhaseOK /\ OwnersOK /\ WorkersOK
  BY DEF Safe, HoldersOK
<1>2. /\ wpc[w] = "return" /\ UNCHANGED <<bufsAllocated, bufsPos, bufsUsed, written>>
      /\ bufs' = [bufs EXCEPT ![outbuf[w]].finished = IF wstate[w] = "FINISH" THEN "yes" ELSE "no"]
  BY DEF WorkerReturn
<1>3. w \in Made /\ Owns(w)
  BY <1>1, <1>2, WorkerMade DEF Owns, AtWork
<1>4. PICK b : b = outbuf[w]
  OBVIOUS
<1>5. b \in Slots /\ b \in Ring /\ bufs[b].finished = "no"
  BY <1>1, <1>3, <1>4, OwnBuffer
<1>6. bufs \in [Ring -> [finished : {"unset", "no", "yes"}, block : BlockType]]
  BY <1>1 DEF Types, QueueTypes
<1>7. /\ \A i \in Ring : i # b => Held(i)' = Held(i)
      /\ Held(b) = NoBlock
      /\ Held(b)' = IF wstate[w] = "FINISH" THEN bufs[b].block ELSE NoBlock
  BY <1>2, <1>4, <1>5, <1>6 DEF Held
<1>8. CASE wstate[w] # "FINISH"
  <2>1. \A i \in Slots : Held(i)' = Held(i)
    BY <1>1, <1>7, <1>8, SlotsInRing
  <2> QED
    BY <1>2, <2>1, QueueSame, AbstractIs
<1>9. CASE wstate[w] = "FINISH"
  <2>1. bufs[b].block \in AllBlocks
    BY <1>1, <1>2, <1>3, <1>4, <1>9 DEF WorkersOK, WorkerOK
  <2>2. PICK k \in 1..bufsUsed : b = Slot(k)
    BY <1>5 DEF Slots
  <2>3. Queue \in Seq(BlockType) /\ Len(Queue) = bufsUsed /\ bufsUsed \in Nat
        /\ \A j \in 1..bufsUsed : Queue[j] = Held(Slot(j))
    BY <1>1, QueueTyped
  <2>4. k \in DOMAIN Queue /\ Queue[k] = NoBlock
    BY <1>7, <2>2, <2>3
  <2>5. ASSUME NEW j \in 1..bufsUsed
        PROVE  Held(Slot(j))' = IF j = k THEN bufs[b].block ELSE Queue[j]
    <3>1. PICK i : i = Slot(j)
      OBVIOUS
    <3>2. i \in Ring /\ Slot(j)' = i /\ (i = b <=> j = k)
      BY <1>1, <1>2, <2>2, <3>1, SlotsInRing, SlotsSame DEF Slots
    <3>3. Held(Slot(j))' = Held(i)'
      BY <3>2 DEF Held
    <3> QED
      BY <1>7, <1>9, <2>3, <3>1, <3>2, <3>3
  <2>6. Queue' = [Queue EXCEPT ![k] = bufs[b].block]
    <3>1. Queue' = [j \in 1..bufsUsed |-> Held(Slot(j))']
      BY <1>2 DEF Queue
    <3>2. [Queue EXCEPT ![k] = bufs[b].block] = [j \in 1..bufsUsed |-> IF j = k THEN bufs[b].block ELSE Queue[j]]
      <4>1. Queue = [j \in 1..bufsUsed |-> Queue[j]]
        BY <2>3, LenProperties
      <4> QED
        BY <4>1
    <3> QED
      BY <2>5, <3>1, <3>2
  <2>7. \E j \in DOMAIN Queue, c \in AllBlocks : Queue[j] = NoBlock /\ Queue' = [Queue EXCEPT ![j] = c]
    BY <2>1, <2>4, <2>6
  <2>8. CASE Queue' = Queue
    BY <1>2, <2>8, AbstractIs
  <2>9. CASE Queue' # Queue
    BY <1>2, <2>7, <2>9, AbstractIs
  <2> QED
    BY <2>8, <2>9
<1> QED
  BY <1>8, <1>9

(* The other steps of a worker are not seen: nobody sees a block in a      *)
(* buffer that is not finished.                                            *)
LEMMA WorkerUnseen ==
  ASSUME Safe, NEW w \in Threads, Worker(w), ~WorkerReturn(w)
  PROVE  UNCHANGED Abstract!vars
<1>1. Types /\ RingOK /\ PhaseOK /\ OwnersOK
  BY DEF Safe, HoldersOK
<1>2. CASE WorkerIdle(w) \/ WorkerError(w) \/ WorkerSettle(w)
  <2>1. UNCHANGED <<bufs, bufsAllocated, bufsPos, bufsUsed, written>>
    BY <1>2 DEF WorkerIdle, WorkerError, WorkerSettle, outq
  <2> QED
    BY <2>1, QueueUnchanged, AbstractIs
<1>3. CASE WorkerMore(w) \/ WorkerWhole(w)
  <2>1. /\ wpc[w] \in {"more", "whole"} /\ UNCHANGED <<bufsAllocated, bufsPos, bufsUsed, written>>
        /\ WorkOn(w) \/ WorkEnds(w)
    BY <1>3, WorkCases DEF WorkKept
  <2>2. CASE WorkOn(w)
    BY <2>1, <2>2, QueueUnchanged, AbstractIs DEF WorkOn
  <2>3. CASE WorkEnds(w)
    <3>1. bufs' = [bufs EXCEPT ![outbuf[w]].block = BlockOf(stream, lo[w], lo[w] + inSize[w])]
      BY <2>3 DEF WorkEnds, Encoded
    <3>2. w \in Made /\ Owns(w)
      BY <1>1, <2>1, WorkerMade DEF Owns, AtWork
    <3>3. PICK b : b = outbuf[w]
      OBVIOUS
    <3>4. b \in Ring /\ bufs[b].finished = "no"
      BY <1>1, <3>2, <3>3, OwnBuffer
    <3>5. bufs \in [Ring -> [finished : {"unset", "no", "yes"}, block : BlockType]] /\ Slots \subseteq Ring
      BY <1>1, SlotsInRing DEF Types, QueueTypes
    <3>6. \A i \in Slots : Held(i)' = Held(i)
      BY <3>1, <3>3, <3>4, <3>5 DEF Held
    <3> QED
      BY <2>1, <3>6, QueueSame, AbstractIs
  <2> QED
    BY <2>1, <2>2, <2>3
<1> QED
  BY <1>2, <1>3 DEF Worker

LEMMA Emptied ==
  ASSUME bufsUsed' = 0
  PROVE  Queue' = <<>>
<1>1. Queue' = [k \in 1..0 |-> Held(Slot(k))']
  BY DEF Queue
<1> QED
  BY <1>1

LEMMA StopResets ==
  ASSUME StopStep
  PROVE  Abstract!Reset \/ UNCHANGED Abstract!vars
<1>1. CASE UNCHANGED outq /\ UNCHANGED written
  BY <1>1, QueueUnchanged, AbstractIs DEF outq
<1>2. CASE bufsUsed' = 0 /\ written' = <<>>
  BY <1>2, Emptied, AbstractIs
<1>3. CASE TellStop \/ TellExit
  BY <1>1, <1>3 DEF TellStop, TellExit, Tell
<1>4. CASE Settle
  BY <1>1, <1>2, <1>4 DEF Settle, OutqInit
<1>5. CASE Join
  BY <1>1, <1>2, <1>5 DEF Join, OutqInit
<1> QED
  BY <1>3, <1>4, <1>5 DEF StopStep

LEMMA CallUnseen ==
  ASSUME \/ AppStep \/ SpuriousWake
         \/ InDone \/ PopThread \/ NewThread \/ Put \/ BlockError \/ WaitForWork \/ EncodeIndex \/ TimeOut
  PROVE  UNCHANGED Abstract!vars
<1>1. UNCHANGED outq /\ UNCHANGED written
  <2>1. CASE AppStep \/ SpuriousWake
    BY <2>1 DEF AppStep, Call, StartStream, EndEncoder, Stopped, vars, SpuriousWake
  <2>2. CASE InDone \/ PopThread \/ NewThread \/ Put
    BY <2>2 DEF InDone, PopThread, NewThread, Put
  <2>3. CASE BlockError \/ WaitForWork \/ EncodeIndex \/ TimeOut
    BY <2>3 DEF BlockError, WaitForWork, EncodeIndex, TimeOut
  <2> QED
    BY <2>1, <2>2, <2>3
<1> QED
  BY <1>1, QueueUnchanged, AbstractIs DEF outq

LEMMA InitImplements ==
  ASSUME Init
  PROVE  Abstract!Init
<1>1. bufsUsed = 0 /\ written = <<>>
  BY DEF Init
<1>2. Queue = <<>>
  BY <1>1 DEF Queue
<1> QED
  BY <1>1, <1>2, AbstractIs

LEMMA StepImplements ==
  ASSUME Safe, [Next]_vars
  PROVE  [Abstract!Next]_(Abstract!vars)
<1>1. CASE UNCHANGED vars
  BY <1>1, QueueUnchanged, AbstractIs DEF vars, outq
<1>2. CASE AppStep \/ SpuriousWake \/ StopStep
  BY <1>2, CallUnseen, StopResets DEF Abstract!Next
<1>3. CASE InCallStep
  BY <1>3, CallUnseen, GetBufGets, ReadReads DEF Abstract!Next, InCallStep
<1>4. CASE \E w \in Threads : Worker(w)
  BY <1>4, WorkerUnseen, WorkerReturnFinishes DEF Abstract!Next
<1> QED
  BY <1>1, <1>2, <1>3, <1>4, Steps

(* The ring of outqueue.c, with its positions and flags set by main and by *)
(* the workers in any order, is the queue of blocks that outqueue.h        *)
(* promises.                                                               *)
THEOREM RingIsQueue == Reuses \subseteq {"end"} => (Spec => Implements)
<1> SUFFICES ASSUME Reuses \subseteq {"end"} PROVE Spec => Implements
  OBVIOUS
<1> QED
  BY InitImplements, StepImplements, Invariant, PTL DEF Spec, Implements, Abstract!Spec
=============================================================================
