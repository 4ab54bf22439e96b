---------------------------- MODULE CompressProofs ----------------------------
(***************************************************************************)
(* Proofs about Compress, for any number of compress threads, buffers and  *)
(* streams.  The first part is about control: which jobs exist, in which   *)
(* list each of them is and which thread has it.  The second counts the    *)
(* references to the buffers.  The third is about what the buffers hold,   *)
(* up to the output.                                                       *)
(***************************************************************************)
EXTENDS Compress, BlocksProofs, FiniteSetTheorems, SequenceTheorems, NaturalsInduction, TLAPS

Pieces == [lo : Int, hi : Int]
Jobs == [in : InPool \union {Null}, out : (Spaces \ LensPool) \union {Null},
         lens : LensPool \union {Null}, more : BOOLEAN, check : Pieces,
         calc : BOOLEAN, live : BOOLEAN]

MainStates == {"idle", "first", "job", "rsync", "tail", "dict", "append", "end",
               "join", "joinall"}
Working == {"window", "compress", "insert"}
Having == Working \union {"check", "calc"}
ThreadStates == {"none", "get", "exited"} \union Having
Busy == {"length", "write", "combine"}
WriterStates == {"none", "header", "get", "trailer", "ended"} \union Busy

DataOK(d) == DOMAIN d = Spaces /\ \A s \in Spaces : d[s].piece \in Pieces

PoolTypes == refs \in [Spaces -> Int] /\ DataOK(data)
JobTypes == jobs \in [Seqs -> Jobs]
ListTypes ==
  /\ compressList \in Seq(Seqs \union {-1}) /\ writeList \in Seq(Seqs)
  /\ writeFirst \in Seqs \union {-1}
MainTypes ==
  /\ mpc \in MainStates /\ input \in Inputs /\ todo \in Seq(Inputs)
  /\ pos \in Int /\ seq \in Nat /\ left \in Int /\ scan \in Int
  /\ {curr, next, hold} \subseteq InPool \union {Null}
  /\ dict \in InPool \union DictPool \union {Null}
  /\ cthreads \in 0..Procs /\ setup \in BOOLEAN
ThreadTypes ==
  /\ cpc \in [Compressors -> ThreadStates]
  /\ cjob \in [Compressors -> Seqs \union {-1}]
  /\ DOMAIN cwindow = Compressors
WriterTypes == wpc \in WriterStates /\ wseq \in Nat /\ wmore \in BOOLEAN

Types ==
  PoolTypes /\ JobTypes /\ ListTypes /\ MainTypes /\ ThreadTypes /\ WriterTypes

(* The job that the write thread is at, and how many jobs of the stream    *)
(* compress threads have taken.                                            *)
AtWrite == IF wpc = "header" THEN 0 ELSE wseq
InStream == setup /\ mpc # "joinall"
Taken == IF InStream THEN seq - Len(compressList) ELSE seq

(* Main is at a job that is not in the compress list yet.                  *)
Making == mpc \in {"rsync", "tail", "dict", "append"}

(* The last job of the stream has been made.                               *)
AllMade == mpc \in {"end", "join"}

(* The buffers that main has where, and that it is at a stream.            *)
BuffersOK ==
  /\ mpc \in {"rsync", "tail", "dict"} => curr # Null
  /\ mpc \in {"job", "rsync", "dict", "append", "end"} => next # Null
  /\ mpc \notin {"idle", "joinall"} => todo # <<>>

(* Which threads run at all.                                               *)
ThreadsOK ==
  /\ \A c \in Compressors : c > cthreads \/ ~setup => cpc[c] = "none"
  /\ \A c \in Compressors : cjob[c] = -1 <=> cpc[c] \notin Having
  /\ \A c \in Compressors : cpc[c] = "exited" => mpc = "joinall"
  /\ ~setup => mpc = "idle"
  /\ wpc = "none" <=> mpc \in {"idle", "joinall"}

(* The jobs in the compress list are the last ones made.                   *)
CompressListOK ==
  /\ compressHave = Len(compressList)
  /\ mpc = "joinall" => compressList = <<-1>>
  /\ InStream => \A i \in 1..Len(compressList) :
                   compressList[i] = seq - Len(compressList) + (i - 1)

(* How far the write thread is: not further than the compress threads, and *)
(* at the end when all jobs are written.                                   *)
WriterOK ==
  /\ 0 <= Taken /\ AtWrite <= Taken
  /\ wseq <= MaxJobs + 1 /\ (wpc \in Busy => wseq < Taken)
  /\ wpc \in {"write", "combine"} => wmore = jobs[wseq].more
  /\ wpc \in {"none", "trailer", "ended"} => wseq = seq
  /\ wpc \in {"trailer", "ended"} => AllMade

(* The jobs from the one the write thread is at on are there.              *)
JobsOK ==
  /\ seq <= MaxJobs + 1
  /\ \A n \in Seqs : AtWrite <= n /\ n < seq =>
       /\ jobs[n].live /\ jobs[n].in # Null
       /\ jobs[n].more <=> ~(AllMade /\ n = seq - 1)
  /\ \A n \in Seqs : Taken <= n /\ n < seq => ~jobs[n].calc
  /\ Making => seq \in Seqs /\ jobs[seq].live /\ ~jobs[seq].calc
  /\ mpc = "append" => jobs[seq].in # Null

(* A compress thread has a job of its own, which no one else has yet.      *)
WorkOK ==
  /\ \A c \in Compressors : cpc[c] \in Having =>
       /\ AtWrite <= cjob[c] /\ cjob[c] < Taken
       /\ ~jobs[cjob[c]].calc
  /\ \A c, d \in Compressors :
       c # d /\ cpc[c] \in Having /\ cpc[d] \in Having => cjob[c] # cjob[d]
  /\ \A c \in Compressors : cpc[c] \in Working =>
       /\ wpc \in Busy => cjob[c] # wseq
       /\ \A i \in 1..Len(writeList) : writeList[i] # cjob[c]

(* The write list is in order, of jobs after the one at work.              *)
WriteListOK ==
  /\ \A i, k \in 1..Len(writeList) : i < k => writeList[i] < writeList[k]
  /\ \A i \in 1..Len(writeList) :
       /\ AtWrite <= writeList[i] /\ writeList[i] < Taken
       /\ wpc \in Busy => wseq < writeList[i]
  /\ writeFirst = IF writeList = <<>> THEN -1 ELSE writeList[1]

Control ==
  /\ Types /\ BuffersOK /\ ThreadsOK /\ CompressListOK
  /\ WriterOK /\ JobsOK /\ WorkOK /\ WriteListOK

-----------------------------------------------------------------------------
(* References                                                              *)

Tokens == ({"curr", "next", "hold", "dict"} \X {0})
            \union ({"in", "out", "lens"} \X Seqs) \union ({"check"} \X Compressors)

(* The buffers that a job at hand has: its input until its length is       *)
(* taken, its dictionary until it is set and then its output.              *)
Present(n) == AtWrite <= n /\ (n < seq \/ (Making /\ n = seq))
HeldIn(n) == IF Present(n) /\ ~(n = wseq /\ wpc \in {"write", "combine"})
               THEN jobs[n].in ELSE Null
HeldOut(n) == IF /\ Present(n) /\ ~(n = wseq /\ wpc = "combine")
                 /\ \A c \in Compressors : cpc[c] = "compress" => cjob[c] # n
                THEN jobs[n].out ELSE Null
HeldLens(n) == IF Present(n) THEN jobs[n].lens ELSE Null
HeldCheck(c) == IF cpc[c] \in {"insert", "check"} THEN jobs[cjob[c]].in ELSE Null

HeldCurr == IF mpc \in {"rsync", "tail", "dict"} THEN curr ELSE Null
HeldNext == IF mpc \in {"job", "rsync", "dict", "append", "end"} THEN next ELSE Null
HeldDict == IF mpc \in {"job", "rsync", "tail", "dict"} \/ (mpc = "append" /\ jobs[seq].more)
              THEN dict ELSE Null

(* The buffer that each reference in the program is to.                    *)
held == [h \in Tokens |->
  CASE h[1] = "curr" -> HeldCurr
    [] h[1] = "next" -> HeldNext
    [] h[1] = "hold" -> hold
    [] h[1] = "dict" -> HeldDict
    [] h[1] = "in" -> HeldIn(h[2])
    [] h[1] = "out" -> HeldOut(h[2])
    [] h[1] = "lens" -> HeldLens(h[2])
    [] h[1] = "check" -> HeldCheck(h[2])]

(* The use counts are the numbers of references.                           *)
Counts(r, f) == \A s \in Spaces : r[s] = Cardinality({h \in Tokens : f[h] = s})
CountsOK == Counts(refs, held)

(* Nobody else has a reference to what main moves input between.           *)
Alone(f, k) == f[k] # Null => \A h \in Tokens \ {k} : f[h] # f[k]
MainAlone ==
  Alone(held, <<"curr", 0>>) /\ Alone(held, <<"next", 0>>) /\ Alone(held, <<"hold", 0>>)

(* What main has where.                                                    *)
MainOK ==
  /\ hold # Null => mpc \in {"tail", "dict", "append", "job"}
  /\ mpc = "tail" => left # 0 /\ hold # Null
  /\ mpc = "dict" /\ hold # Null => Span(data[next].piece) # 0
  /\ mpc = "append" /\ hold # Null => jobs[seq].more
  /\ mpc = "first" => dict = Null
  /\ Making /\ mpc # "append" => jobs[seq].in = Null /\ jobs[seq].out = Null
  /\ mpc = "rsync" => jobs[seq].lens = Null

(* The list of lengths of a job is gone when the job is compressed, and    *)
(* its output is there.                                                    *)
SlotsOK ==
  \A n \in Seqs : AtWrite <= n /\ n < Taken =>
    \/ \E c \in Compressors : cjob[c] = n /\ cpc[c] \in {"window", "compress"}
    \/ jobs[n].lens = Null /\ jobs[n].out \in OutPool

References == CountsOK /\ MainAlone /\ MainOK /\ SlotsOK

(* A buffer that is about to be read is one that is not in its pool: no    *)
(* use after the reference is dropped.                                     *)
ReadsHeld ==
  LET InUse(s) == refs[s] # 0
  IN  /\ mpc \in {"rsync", "tail", "dict"} => InUse(curr)
      /\ mpc \in {"rsync", "dict"} => InUse(next)
      /\ mpc = "dict" /\ dict # Null => InUse(dict)
      /\ \A c \in Compressors :
           /\ cpc[c] = "window" /\ jobs[cjob[c]].out # Null => InUse(jobs[cjob[c]].out)
           /\ cpc[c] \in {"compress", "check"} => InUse(jobs[cjob[c]].in)
           /\ cpc[c] = "compress" /\ jobs[cjob[c]].lens # Null => InUse(jobs[cjob[c]].lens)
      /\ wpc = "length" => InUse(jobs[wseq].in)
      /\ wpc = "write" => InUse(jobs[wseq].out)
-----------------------------------------------------------------------------
(* Numbers and lists                                                       *)

(* A set of numbers that is not empty has a least one.                     *)
LEMMA LeastIn ==
  ASSUME NEW I, I \subseteq Nat, I # {}
  PROVE  Min(I) \in I /\ \A k \in I : Min(I) <= k
<1> DEFINE T == {0..i : i \in I}
<1>1. T \subseteq FiniteSubsetsOf(Nat) /\ T # {}
  <2>1. \A i \in Nat : 0..i \subseteq Nat /\ IsFiniteSet(0..i)
    BY FS_Interval
  <2> QED
    BY <2>1 DEF FiniteSubsetsOf
<1>2. PICK x \in T : \A y \in T : ~(<<y, x>> \in StrictSubsetOrdering(Nat))
  <2> HIDE DEF T
  <2> QED
    BY <1>1, FS_StrictSubsetOrderingWellFounded, WFMin
<1>3. PICK n \in I : x = 0..n
  OBVIOUS
<1>4. \A i \in I : n <= i
  <2> SUFFICES ASSUME NEW i \in I, i < n PROVE FALSE
    OBVIOUS
  <2>1. i \in Nat /\ n \in Nat
    OBVIOUS
  <2>2. 0..i \subseteq 0..n
    BY <2>1
  <2>3. n \in 0..n /\ n \notin 0..i
    BY <2>1
  <2>4. <<0..i, 0..n>> \in StrictSubsetOrdering(Nat)
    BY <2>1, <2>2, <2>3 DEF StrictSubsetOrdering
  <2> QED
    BY <1>2, <1>3, <2>4
<1> QED
  BY <1>4 DEF Min

(* A set of numbers that is not empty and has a bound has a greatest one.  *)
LEMMA GreatestIn ==
  ASSUME NEW S, S \subseteq Int, S # {}, NEW b \in Int, \A x \in S : x <= b
  PROVE  \E h \in S : \A g \in S : g <= h
<1> DEFINE I == {b - x : x \in S}
<1>1. I \subseteq Nat /\ I # {}
  <2>1. \A x \in S : b - x \in Nat
    OBVIOUS
  <2> QED
    BY <2>1
<1>2. PICK m \in I : \A k \in I : m <= k
  <2> HIDE DEF I
  <2> QED
    BY <1>1, LeastIn
<1>3. PICK h \in S : m = b - h
  BY <1>2
<1>4. \A g \in S : b - h <= b - g
  BY <1>2, <1>3
<1> QED
  BY <1>3, <1>4

(* The last hit is one of them.                                            *)
LEMMA LastHit ==
  ASSUME NEW hits \in SUBSET Nat, NEW from \in Int, NEW to \in Int, NEW default \in Int
  PROVE  /\ LastOf(HitsIn(hits, from, to), default) \in Int
         /\ HitsIn(hits, from, to) # {} =>
              LastOf(HitsIn(hits, from, to), default) \in HitsIn(hits, from, to)
<1> DEFINE S == HitsIn(hits, from, to)
<1>1. S \subseteq Int /\ \A x \in S : x <= to
  <2>1. \A x \in hits : x \in Int
    OBVIOUS
  <2> QED
    BY <2>1 DEF HitsIn
<1>2. ASSUME S # {} PROVE LastOf(S, default) \in S
  <2> HIDE DEF S
  <2>1. \E h \in S : \A g \in S : g <= h
    BY <1>1, <1>2, GreatestIn
  <2> QED
    BY <1>2, <2>1 DEF LastOf
<1> QED
  BY <1>1, <1>2 DEF LastOf

(* get_space() takes a buffer that nobody has a reference to.              *)
LEMMA FirstIsFresh ==
  ASSUME NEW kind, NEW n \in Nat, Fresh({kind} \X (1..n)) # {}
  PROVE  /\ First({kind} \X (1..n)) \in {kind} \X (1..n)
         /\ refs[First({kind} \X (1..n))] = 0
<1> DEFINE pool == {kind} \X (1..n)
           I == {s[2] : s \in Fresh(pool)}
<1>1. I \subseteq Nat /\ I # {} /\ Fresh(pool) \subseteq pool
  BY DEF Fresh
<1>2. PICK m \in I : \A k \in I : m <= k
  <2> HIDE DEF I
  <2> QED
    BY <1>1, LeastIn
<1>3. \E s \in Fresh(pool) : \A u \in Fresh(pool) : s[2] <= u[2]
  BY <1>2
<1>4. First(pool) \in Fresh(pool)
  BY <1>3 DEF First
<1> QED
  BY <1>4 DEF Fresh

(* A number put in its place in an increasing sequence of numbers.         *)
LEMMA PutInPlace ==
  ASSUME NEW l \in Nat, NEW k \in 1..(l + 1), NEW n \in Nat, NEW f, NEW g,
         \A i \in 1..l : f[i] \in Nat /\ (i < k => f[i] < n) /\ (i >= k => f[i] > n),
         \A i, j \in 1..l : i < j => f[i] < f[j],
         \A i \in 1..(l + 1) : g[i] = IF i < k THEN f[i] ELSE IF i = k THEN n ELSE f[i - 1]
  PROVE  /\ \A i, j \in 1..(l + 1) : i < j => g[i] < g[j]
         /\ \A i \in 1..(l + 1) : g[i] = n \/ \E j \in 1..l : g[i] = f[j]
<1>1. ASSUME NEW i \in 1..(l + 1), i < k PROVE i \in 1..l /\ g[i] = f[i] /\ f[i] < n
  <2>1. i \in 1..l
    BY <1>1
  <2> QED
    BY <1>1, <2>1
<1>2. ASSUME NEW i \in 1..(l + 1), i > k PROVE i - 1 \in 1..l /\ g[i] = f[i - 1] /\ n < f[i - 1]
  <2>1. i - 1 \in 1..l /\ i - 1 >= k /\ ~(i < k) /\ i # k
    BY <1>2
  <2>2. f[i - 1] > n
    BY <2>1
  <2>3. g[i] = f[i - 1]
    BY <2>1
  <2> QED
    BY <2>1, <2>2, <2>3
<1>3. g[k] = n
  OBVIOUS
<1>4. ASSUME NEW i \in 1..(l + 1), NEW j \in 1..(l + 1), i < j PROVE g[i] < g[j]
  <2>1. CASE j < k
    <3>1. i < k
      BY <1>4, <2>1
    <3> QED
      BY <1>1, <1>4, <2>1, <3>1
  <2>2. CASE j = k
    BY <1>1, <1>3, <1>4, <2>2
  <2>3. CASE j > k
    <3>1. j - 1 \in 1..l /\ g[j] = f[j - 1] /\ n < f[j - 1]
      BY <1>2, <2>3
    <3>2. CASE i < k
      <4>1. i \in 1..l /\ g[i] = f[i] /\ f[i] < n
        BY <1>1, <3>2
      <4>2. f[i] \in Nat /\ f[j - 1] \in Nat
        BY <3>1, <4>1
      <4> QED
        BY <3>1, <4>1, <4>2
    <3>3. CASE i = k
      BY <1>3, <3>1, <3>3
    <3>4. CASE i > k
      <4>1. i - 1 \in 1..l /\ g[i] = f[i - 1]
        BY <1>2, <3>4
      <4>2. i - 1 < j - 1
        BY <1>4
      <4>3. f[i - 1] < f[j - 1]
        BY <3>1, <4>1, <4>2
      <4> QED
        BY <3>1, <4>1, <4>3
    <3> QED
      BY <3>2, <3>3, <3>4
  <2> QED
    BY <2>1, <2>2, <2>3
<1>5. ASSUME NEW i \in 1..(l + 1) PROVE g[i] = n \/ \E j \in 1..l : g[i] = f[j]
  <2>1. CASE i < k
    BY <1>1, <2>1
  <2>2. CASE i > k
    BY <1>2, <2>2
  <2> QED
    BY <1>3, <2>1, <2>2
<1> QED
  BY <1>4, <1>5

(* A job put in its place in a list that is in order.                      *)
LEMMA InsertedInOrder ==
  ASSUME NEW list \in Seq(Nat), NEW n \in Nat,
         \A i, k \in 1..Len(list) : i < k => list[i] < list[k],
         \A i \in 1..Len(list) : list[i] # n
  PROVE  /\ Inserted(list, n) \in Seq(Nat) /\ Len(Inserted(list, n)) = Len(list) + 1
         /\ \A i, k \in 1..(Len(list) + 1) : i < k => Inserted(list, n)[i] < Inserted(list, n)[k]
         /\ \A i \in 1..(Len(list) + 1) :
              Inserted(list, n)[i] = n \/ \E j \in 1..Len(list) : Inserted(list, n)[i] = list[j]
<1>0. PICK l \in Nat : l = Len(list)
  OBVIOUS
<1>1. /\ \A i \in 1..l : list[i] \in Nat /\ list[i] # n
      /\ \A i, k \in 1..l : i < k => list[i] < list[k]
  BY <1>0
<1> DEFINE I == {i \in 1..l : list[i] > n}
<1>2. PICK q : q = Inserted(list, n)
  OBVIOUS
<1> SUFFICES \E k \in 1..(l + 1) :
       /\ q \in Seq(Nat) /\ Len(q) = l + 1
       /\ \A i \in 1..l : (i < k => list[i] < n) /\ (i >= k => list[i] > n)
       /\ \A i \in 1..(l + 1) : q[i] = IF i < k THEN list[i] ELSE IF i = k THEN n ELSE list[i - 1]
  <2> SUFFICES ASSUME
        NEW k \in 1..(l + 1), q \in Seq(Nat), Len(q) = l + 1,
        \A i \in 1..l : (i < k => list[i] < n) /\ (i >= k => list[i] > n),
        \A i \in 1..(l + 1) : q[i] = IF i < k THEN list[i] ELSE IF i = k THEN n ELSE list[i - 1]
      PROVE  /\ \A i, j \in 1..(l + 1) : i < j => q[i] < q[j]
             /\ \A i \in 1..(l + 1) : q[i] = n \/ \E j \in 1..l : q[i] = list[j]
    BY <1>0, <1>2
  <2>1. \A i \in 1..l : list[i] \in Nat /\ (i < k => list[i] < n) /\ (i >= k => list[i] > n)
    BY <1>1
  <2>2. \A i, j \in 1..l : i < j => list[i] < list[j]
    BY <1>1
  <2>3. \A i \in 1..(l + 1) : q[i] = IF i < k THEN list[i] ELSE IF i = k THEN n ELSE list[i - 1]
    OBVIOUS
  <2> QED
    BY ONLY <2>1, <2>2, <2>3, l \in Nat, k \in 1..(l + 1), n \in Nat, PutInPlace
<1>3. CASE I = {}
  <2>1. SelectInSeq(list, LAMBDA m : m > n) = 0
    BY <1>0, <1>3 DEF SelectInSeq
  <2>2. q = Append(list, n)
    BY <1>2, <2>1 DEF Inserted
  <2>3. q \in Seq(Nat) /\ Len(q) = l + 1 /\ \A i \in 1..(l + 1) : q[i] = IF i <= l THEN list[i] ELSE n
    BY <1>0, <2>2
  <2>4. \A i \in 1..l : list[i] < n
    BY <1>1, <1>3
  <2> WITNESS l + 1 \in 1..(l + 1)
  <2> QED
    BY <2>3, <2>4
<1>4. CASE I # {}
  <2>1. PICK k \in 1..l : list[k] > n /\ (\A i \in 1..l : list[i] > n => k <= i)
                      /\ SelectInSeq(list, LAMBDA m : m > n) = k
    <3>1. I \subseteq Nat
      OBVIOUS
    <3>2. Min(I) \in I /\ \A i \in I : Min(I) <= i
      <4> HIDE DEF I
      <4> QED
        BY <1>4, <3>1, LeastIn
    <3>3. SelectInSeq(list, LAMBDA m : m > n) = Min(I)
      BY <1>0, <1>4 DEF SelectInSeq
    <3> QED
      BY <3>2, <3>3
  <2>2. PICK a : a = SubSeq(list, 1, k - 1)
    OBVIOUS
  <2>3. a \in Seq(Nat) /\ Len(a) = k - 1 /\ \A i \in 1..(k - 1) : a[i] = list[i]
    <3>1. k - 1 \in Int /\ 1 \in Int /\ \A i \in 1..(k - 1) : list[i] \in Nat
      BY <1>1
    <3> QED
      BY <2>2, <3>1, SubSeqProperties
  <2>4. PICK b : b = SubSeq(list, k, l)
    OBVIOUS
  <2>5. b \in Seq(Nat) /\ Len(b) = l - k + 1 /\ \A i \in 1..(l - k + 1) : b[i] = list[k + i - 1]
    <3>1. k \in Int /\ l \in Int /\ k <= l /\ \A i \in k..l : list[i] \in Nat
      BY <1>1
    <3> QED
      BY <2>4, <3>1, SubSeqProperties
  <2>6. PICK o : o = <<n>>
    OBVIOUS
  <2>7. o \in Seq(Nat) /\ Len(o) = 1 /\ o[1] = n
    BY <2>6
  <2>8. PICK c : c = a \o o
    OBVIOUS
  <2>9. /\ c \in Seq(Nat) /\ Len(c) = Len(a) + Len(o)
        /\ \A i \in 1..(Len(a) + Len(o)) : c[i] = IF i <= Len(a) THEN a[i] ELSE o[i - Len(a)]
    BY <2>3, <2>7, <2>8, ConcatProperties
  <2>10. Len(c) = k /\ \A i \in 1..k : c[i] = IF i <= k - 1 THEN a[i] ELSE o[i - (k - 1)]
    <3>1. Len(a) + Len(o) = k
      BY <2>3, <2>7
    <3> QED
      BY <2>3, <2>9, <3>1
  <2>11. c[k] = n /\ \A i \in 1..(k - 1) : c[i] = list[i]
    <3>1. k \in 1..k /\ ~(k <= k - 1) /\ k - (k - 1) = 1
      OBVIOUS
    <3>2. c[k] = o[1]
      BY <2>10, <3>1
    <3>3. ASSUME NEW i \in 1..(k - 1) PROVE c[i] = list[i]
      <4>1. i \in 1..k /\ i <= k - 1
        OBVIOUS
      <4>2. c[i] = a[i]
        BY <2>10, <4>1
      <4> QED
        BY <2>3, <4>2
    <3> QED
      BY <2>7, <3>2, <3>3
  <2>12. q = c \o b
    <3>1. q = InsertAt(list, k, n)
      BY <1>2, <2>1 DEF Inserted
    <3>2. InsertAt(list, k, n) = (a \o o) \o b
      BY <1>0, <2>2, <2>4, <2>6 DEF InsertAt
    <3> QED
      BY <2>8, <3>1, <3>2
  <2>13. /\ q \in Seq(Nat) /\ Len(q) = Len(c) + Len(b)
         /\ \A i \in 1..(Len(c) + Len(b)) : q[i] = IF i <= Len(c) THEN c[i] ELSE b[i - Len(c)]
    <3>1. c \in Seq(Nat) /\ b \in Seq(Nat)
      BY <2>5, <2>9
    <3> QED
      BY <2>12, <3>1, ConcatProperties
  <2>14. Len(q) = l + 1 /\ \A i \in 1..(l + 1) : q[i] = IF i <= k THEN c[i] ELSE b[i - k]
    <3>1. Len(c) + Len(b) = l + 1
      BY <2>5, <2>10
    <3> QED
      BY <2>10, <2>13, <3>1
  <2>15. ASSUME NEW i \in 1..(l + 1) PROVE q[i] = IF i < k THEN list[i] ELSE IF i = k THEN n ELSE list[i - 1]
    <3>1. CASE i < k
      <4>1. i \in 1..(k - 1) /\ i <= k
        BY <3>1
      <4> QED
        BY <2>11, <2>14, <3>1, <4>1
    <3>2. CASE i = k
      BY <2>11, <2>14, <3>2
    <3>3. CASE i > k
      <4>1. i - k \in 1..(l - k + 1) /\ k + (i - k) - 1 = i - 1 /\ ~(i <= k)
        BY <3>3
      <4>2. q[i] = b[i - k]
        BY <2>14, <4>1
      <4> QED
        BY <2>5, <3>3, <4>1, <4>2
    <3> QED
      BY <3>1, <3>2, <3>3
  <2>16. ASSUME NEW i \in 1..l PROVE (i < k => list[i] < n) /\ (i >= k => list[i] > n)
    <3>1. i < k => list[i] < n
      <4>1. i < k => ~(list[i] > n)
        BY <2>1
      <4>2. list[i] \in Nat /\ list[i] # n
        BY <1>1
      <4> QED
        BY <4>1, <4>2
    <3>2. i > k => list[k] < list[i]
      BY <1>1
    <3>3. list[i] \in Nat /\ list[k] \in Nat
      BY <1>1
    <3> QED
      BY <2>1, <3>1, <3>2, <3>3
  <2> WITNESS k \in 1..(l + 1)
  <2> QED
    BY <2>13, <2>14, <2>15, <2>16
<1> QED
  BY <1>3, <1>4

(* What a turn of the rsync part of the loop leaves in its two buffers.    *)
LEMMA TurnTypes ==
  ASSUME NEW p \in Pieces, NEW q \in Pieces, NEW l \in Int, NEW s \in Int, NEW hits \in SUBSET Nat
  PROVE  LET t == RsyncTurn(p, q, l, s, hits)
         IN  /\ t.curr \in Pieces /\ t.next \in Pieces
             /\ t.left \in Int /\ t.scan \in Int /\ t.tailed \in BOOLEAN
             /\ t.tailed => t.left # 0
<1> USE BlocksAssumption
<1> DEFINE inCurr == IF l = 0 THEN HitsIn(hits, s, p.hi) ELSE {}
           leftOver == IF l = 0 THEN p.hi - LastOf(inCurr, p.lo) ELSE l
           start == IF l = 0 THEN q.lo ELSE s
           stop == ScanEnd(p, q)
           inNext == HitsIn(hits, start, stop)
           left2 == IF inNext = {} THEN leftOver ELSE 0
           scan2 == IF start < stop THEN stop ELSE start
           lens == Lengths(p.lo, inCurr) \o Lengths(q.lo - leftOver, inNext)
           len == Moved(lens, scan2, inNext, q)
           tailed == Tailed(lens, len, left2, q)
<1>1. p.lo \in Int /\ p.hi \in Int /\ q.lo \in Int /\ q.hi \in Int
  BY DEF Pieces
<1>2. LastOf(inCurr, p.lo) \in Int
  BY <1>1, LastHit DEF LastOf
<1>3. leftOver \in Int /\ start \in Int
  BY <1>1, <1>2
<1>4. stop \in Int
  BY <1>1 DEF ScanEnd, MinOf, Span
<1>5. LastOf(inNext, q.lo) \in Int
  BY <1>1, <1>3, <1>4, LastHit
<1>6. left2 \in Int /\ scan2 \in Int
  BY <1>3, <1>4
<1>7. len \in Int
  BY <1>1, <1>5, <1>6 DEF Moved
<1>8. tailed \in BOOLEAN /\ (tailed => left2 # 0)
  BY DEF Tailed
<1> HIDE DEF inCurr, leftOver, start, stop, inNext, left2, scan2, lens, len, tailed
<1>9. Piece(p.lo, p.hi - left2) \in Pieces /\ Piece(q.lo + len, q.hi) \in Pieces
  BY <1>1, <1>6, <1>7 DEF Piece, Pieces
<1>10. Cat(p, Piece(q.lo, q.lo + len)) \in Pieces
  BY <1>1, <1>7 DEF Cat, Piece, Pieces, Broken
<1>11. LeftAfter(tailed, left2) \in Int /\ (tailed => LeftAfter(tailed, left2) # 0)
  BY <1>6, <1>8 DEF LeftAfter
<1>12. PICK t : t = RsyncTurn(p, q, l, s, hits)
  OBVIOUS
<1>13. /\ t.curr = IF tailed THEN Piece(p.lo, p.hi - left2)
                   ELSE Cat(p, Piece(q.lo, q.lo + len))
       /\ t.next = Piece(q.lo + len, q.hi) /\ t.left = LeftAfter(tailed, left2)
       /\ t.scan = scan2 /\ t.tailed = tailed
  BY <1>12 DEF RsyncTurn, inCurr, leftOver, start, stop, inNext, left2, scan2, lens, len, tailed
<1> QED
  BY <1>6, <1>8, <1>9, <1>10, <1>11, <1>12, <1>13

-----------------------------------------------------------------------------
(* Types                                                                   *)

LEMMA UseTypes ==
  ASSUME NEW r \in [Spaces -> Int]
  PROVE  /\ \A s \in Spaces : Used(r, s) \in [Spaces -> Int]
         /\ \A s \in Spaces \union {Null} : Dropped(r, s) \in [Spaces -> Int]
BY DEF Used, Dropped

LEMMA DataTypes ==
  /\ Garbage.piece \in Pieces
  /\ \A p \in Pieces : Holding(p).piece = p
  /\ \A d, r : DataOK(d) => DataOK(Kept(r, d))
  /\ \A d, s, h : DataOK(d) /\ h.piece \in Pieces => DataOK([d EXCEPT ![s] = h])
BY DEF Garbage, Holding, Broken, Piece, Pieces, DataOK, Kept

(* The pools are apart.                                                    *)
LEMMA PoolsApart ==
  /\ InPool \subseteq Spaces /\ OutPool \subseteq Spaces /\ DictPool \subseteq Spaces
  /\ LensPool \subseteq Spaces /\ Null \notin Spaces
  /\ \A s \in InPool : s \notin OutPool /\ s \notin DictPool /\ s \notin LensPool
  /\ \A s \in OutPool : s \notin DictPool /\ s \notin LensPool
  /\ \A s \in DictPool : s \notin LensPool
BY CompressAssumption DEF Spaces, InPool, OutPool, DictPool, LensPool

LEMMA FreshBuffers ==
  /\ Fresh(InPool) # {} => First(InPool) \in InPool /\ refs[First(InPool)] = 0
  /\ Fresh(OutPool) # {} => First(OutPool) \in OutPool /\ refs[First(OutPool)] = 0
  /\ Fresh(DictPool) # {} => First(DictPool) \in DictPool /\ refs[First(DictPool)] = 0
  /\ Fresh(LensPool) # {} => First(LensPool) \in LensPool /\ refs[First(LensPool)] = 0
<1>1. InLimit \in Nat /\ OutBound \in Nat
  BY CompressAssumption
<1>2. Fresh(InPool) # {} => First(InPool) \in InPool /\ refs[First(InPool)] = 0
  BY <1>1, FirstIsFresh DEF InPool
<1>3. Fresh(OutPool) # {} => First(OutPool) \in OutPool /\ refs[First(OutPool)] = 0
  BY <1>1, FirstIsFresh DEF OutPool
<1>4. Fresh(DictPool) # {} => First(DictPool) \in DictPool /\ refs[First(DictPool)] = 0
  BY <1>1, FirstIsFresh DEF DictPool
<1>5. Fresh(LensPool) # {} => First(LensPool) \in LensPool /\ refs[First(LensPool)] = 0
  BY <1>1, FirstIsFresh DEF LensPool
<1> QED
  BY <1>2, <1>3, <1>4, <1>5

LEMMA NoJobType == NoJob \in Jobs /\ [NoJob EXCEPT !.live = TRUE] \in Jobs
<1>1. Broken \in Pieces
  BY DEF Broken, Piece, Pieces
<1>2. NoJob \in Jobs
  BY <1>1 DEF NoJob, Jobs
<1> QED
  BY <1>2 DEF Jobs

LEMMA ReadTypes ==
  ASSUME MainTypes
  PROVE  ReadAt(pos) \in Pieces /\ ReadAt(pos).hi \in Int
BY BlocksAssumption DEF MainTypes, ReadAt, Piece, Pieces, MinOf, Inputs

(* A buffer for input, and what is read into it.                           *)
LEMMA ReadInto ==
  ASSUME PoolTypes, MainTypes, NEW s \in InPool, GetAndRead(s), refs' = Used(refs, s),
         data' = [data EXCEPT ![s] = Holding(ReadAt(pos))]
  PROVE  PoolTypes' /\ pos' \in Int
<1>1. ReadAt(pos) \in Pieces /\ ReadAt(pos).hi \in Int
  BY ReadTypes
<1>2. Holding(ReadAt(pos)).piece \in Pieces
  BY <1>1, DataTypes
<1>3. DataOK(data')
  BY <1>2, DataTypes DEF PoolTypes
<1>4. refs' \in [Spaces -> Int]
  BY UseTypes, PoolsApart DEF PoolTypes
<1> QED
  BY <1>1, <1>3, <1>4 DEF PoolTypes, GetAndRead

LEMMA StartTypes ==
  ASSUME Types, Start
  PROVE  Types'
<1> USE DEF Types, Start
<1>1. PoolTypes' /\ JobTypes'
  BY DEF pools, PoolTypes, JobTypes
<1>2. ListTypes'
  <2>1. CASE setup
    BY <2>1 DEF ListTypes, cLists, wLists
  <2>2. CASE ~setup
    BY <2>2 DEF ListTypes
  <2> QED
    BY <2>1, <2>2 DEF MainTypes
<1>3. MainTypes'
  <2>1. Head(todo) \in Inputs
    BY DEF MainTypes
  <2> QED
    BY <2>1 DEF MainTypes, MainStates
<1>4. ThreadTypes' /\ WriterTypes'
  BY DEF cVars, ThreadTypes, WriterTypes, WriterStates
<1> QED
  BY <1>1, <1>2, <1>3, <1>4

LEMMA ReadFirstTypes ==
  ASSUME Types, ReadFirst
  PROVE  Types'
<1> USE DEF Types, ReadFirst
<1>1. PICK s \in InPool : GetAndRead(s) /\ next' = s /\ refs' = Used(refs, s)
                     /\ data' = [data EXCEPT ![s] = Holding(ReadAt(pos))]
  OBVIOUS
<1>2. PoolTypes' /\ pos' \in Int
  BY <1>1, ReadInto
<1>3. MainTypes'
  BY <1>1, <1>2 DEF MainTypes, MainStates
<1>4. JobTypes' /\ ListTypes' /\ ThreadTypes' /\ WriterTypes'
  BY DEF JobTypes, ListTypes, ThreadTypes, WriterTypes, cLists, wLists, cVars, wVars
<1> QED
  BY <1>2, <1>3, <1>4

LEMMA NewJobTypes ==
  ASSUME Types, NewJob
  PROVE  Types'
<1> USE DEF Types, NewJob
<1>1. PoolTypes' /\ pos' \in Int /\ next' \in InPool \union {Null}
  <2>1. CASE hold # Null
    BY <2>1 DEF PoolTypes, pools, MainTypes
  <2>2. CASE hold = Null
    <3>1. PICK s \in InPool : GetAndRead(s) /\ next' = s /\ refs' = Used(refs, s)
                         /\ data' = [data EXCEPT ![s] = Holding(ReadAt(pos))]
      BY <2>2
    <3> QED
      BY <3>1, ReadInto
  <2> QED
    BY <2>1, <2>2
<1>2. JobTypes'
  BY NoJobType DEF JobTypes
<1>3. MainTypes'
  BY <1>1 DEF MainTypes, MainStates
<1>4. ListTypes' /\ ThreadTypes' /\ WriterTypes'
  BY DEF ListTypes, ThreadTypes, WriterTypes, cLists, wLists, cVars, wVars
<1> QED
  BY <1>1, <1>2, <1>3, <1>4

LEMMA RsyncTypes ==
  ASSUME Types, BuffersOK, Rsync
  PROVE  Types'
<1> USE DEF Types, Rsync
<1>1. CASE ~(input.rsync /\ Span(data[curr].piece) # 0)
  BY <1>1 DEF PoolTypes, JobTypes, ListTypes, MainTypes, ThreadTypes, WriterTypes, pools, cLists,
              wLists, cVars, wVars, MainStates
<1>2. CASE input.rsync /\ Span(data[curr].piece) # 0
  <2>1. PICK t : t = RsyncTurn(data[curr].piece, data[next].piece, left, scan, input.hits)
    OBVIOUS
  <2>2. PICK l : l = First(LensPool)
    OBVIOUS
  <2>3. /\ l \in LensPool /\ refs' = Used(refs, l)
        /\ data' = [data EXCEPT ![l] = [Garbage EXCEPT !.lens = t.lens],
                       ![curr] = IF t.tailed THEN data[curr] ELSE Holding(t.curr), ![next] = Holding(t.next)]
        /\ jobs' = [jobs EXCEPT ![seq].lens = l]
        /\ left' = t.left /\ scan' = t.scan
        /\ mpc' = IF t.tailed THEN "tail" ELSE "dict"
        /\ hold' = IF t.tailed THEN next ELSE hold
    BY <1>2, <2>1, <2>2, FreshBuffers
  <2>4. curr \in InPool /\ next \in InPool /\ input.hits \in SUBSET Nat
    BY DEF BuffersOK, MainTypes, Inputs
  <2>5. data[curr].piece \in Pieces /\ data[next].piece \in Pieces
    BY <2>4, PoolsApart DEF PoolTypes, DataOK
  <2>6. t.curr \in Pieces /\ t.next \in Pieces /\ t.left \in Int /\ t.scan \in Int
    BY <2>1, <2>4, <2>5, TurnTypes DEF MainTypes
  <2>7. DataOK(data')
    <3>1. PICK g : g = [Garbage EXCEPT !.lens = t.lens]
      OBVIOUS
    <3>2. g.piece \in Pieces
      BY <3>1, DataTypes DEF Garbage, Holding
    <3>3. PICK h : h = IF t.tailed THEN data[curr] ELSE Holding(t.curr)
      OBVIOUS
    <3>4. h.piece \in Pieces /\ Holding(t.next).piece \in Pieces
      BY <2>5, <2>6, <3>3, DataTypes
    <3>5. data' = [data EXCEPT ![l] = g, ![curr] = h, ![next] = Holding(t.next)]
      BY <2>3, <3>1, <3>3
    <3> QED
      BY <3>2, <3>4, <3>5 DEF DataOK, PoolTypes
  <2>8. PoolTypes'
    BY <2>3, <2>7, UseTypes, PoolsApart DEF PoolTypes
  <2>9. JobTypes'
    BY ONLY Types, <2>3 DEF Types, JobTypes, Jobs
  <2>10. MainTypes'
    <3>1. UNCHANGED <<input, todo, pos, seq, curr, next, dict, cthreads, setup>>
      BY <1>2
    <3>2. left' \in Int /\ scan' \in Int /\ mpc' \in {"tail", "dict"} /\ hold' \in {next, hold}
      BY ONLY <2>3, <2>6
    <3> QED
      BY ONLY Types, <3>1, <3>2 DEF Types, MainTypes, MainStates
  <2>11. ListTypes' /\ ThreadTypes' /\ WriterTypes'
    BY DEF ListTypes, ThreadTypes, WriterTypes, cLists, wLists, cVars, wVars
  <2> QED
    BY <2>8, <2>9, <2>10, <2>11
<1> QED
  BY <1>1, <1>2

LEMMA CutTailTypes ==
  ASSUME Types, BuffersOK, CutTail
  PROVE  Types'
<1> USE DEF Types, CutTail
<1>1. PICK s, p : s = First(InPool) /\ p = data[curr].piece
  OBVIOUS
<1>2. /\ s \in InPool /\ curr \in InPool /\ p \in Pieces /\ p.lo \in Int /\ p.hi \in Int
  BY <1>1, FreshBuffers, PoolsApart DEF MainTypes, BuffersOK, PoolTypes, DataOK, Pieces
<1>3. DataOK(data')
  <2>1. Suffix(p, left) \in Pieces /\ Piece(p.lo, p.hi - left) \in Pieces
    BY <1>2 DEF Suffix, Piece, Pieces, MainTypes
  <2>2. PICK g, h : g = Holding(Suffix(p, left)) /\ h = Holding(Piece(p.lo, p.hi - left))
    OBVIOUS
  <2>3. data' = [data EXCEPT ![s] = g, ![curr] = h]
    BY <1>1, <2>2
  <2>4. g.piece \in Pieces /\ h.piece \in Pieces
    BY <2>1, <2>2, DataTypes
  <2> QED
    BY <2>3, <2>4 DEF DataOK, PoolTypes
<1>4. PoolTypes'
  BY <1>1, <1>2, <1>3, UseTypes, PoolsApart DEF PoolTypes
<1>5. MainTypes'
  BY <1>1, <1>2 DEF MainTypes, MainStates
<1>6. JobTypes' /\ ListTypes' /\ ThreadTypes' /\ WriterTypes'
  BY DEF JobTypes, ListTypes, ThreadTypes, WriterTypes, cLists, wLists, cVars, wVars
<1> QED
  BY <1>4, <1>5, <1>6

LEMMA PrepareTypes ==
  ASSUME Types, BuffersOK, Prepare
  PROVE  Types'
<1> USE DEF Types, Prepare
<1>1. PICK more \in BOOLEAN : /\ more <=> Span(data[next].piece) # 0
                          /\ jobs' = [jobs EXCEPT ![seq].in = curr, ![seq].out = dict, ![seq].more = more]
                          /\ HoldDict(more)
  OBVIOUS
<1>2. curr \in InPool
  BY DEF BuffersOK, MainTypes
<1>3. PoolTypes' /\ dict' \in InPool \union DictPool \union {Null}
  <2>1. CASE ~more
    BY <1>1, <2>1 DEF HoldDict, PoolTypes, MainTypes, pools
  <2>2. CASE more /\ (Span(data[curr].piece) >= Dict \/ dict = Null)
    BY <1>1, <1>2, <2>2, UseTypes, PoolsApart DEF HoldDict, PoolTypes
  <2>3. CASE more /\ ~(Span(data[curr].piece) >= Dict \/ dict = Null)
    <3>1. PICK d, p : d = First(DictPool) /\ p = NextDict(data[curr].piece, data[dict].piece)
      OBVIOUS
    <3>2. d \in DictPool /\ dict' = d /\ refs' = Used(refs, d) /\ data' = [data EXCEPT ![d] = Holding(p)]
      BY <1>1, <2>3, <3>1, FreshBuffers DEF HoldDict
    <3>3. data[curr].piece \in Pieces /\ data[dict].piece \in Pieces
      BY <1>2, <2>3, PoolsApart DEF PoolTypes, DataOK, MainTypes
    <3>4. p \in Pieces
      BY <3>1, <3>3, BlocksAssumption DEF NextDict, Cat, Suffix, Copied, Piece, Pieces, Broken, Span
    <3> QED
      BY <3>2, <3>4, UseTypes, DataTypes, PoolsApart DEF PoolTypes
  <2> QED
    BY <2>1, <2>2, <2>3
<1>4. JobTypes'
  <2>1. curr \in InPool \union {Null} /\ dict \in Spaces \union {Null}
    BY <1>2, PoolsApart DEF MainTypes
  <2>2. /\ jobs' = [jobs EXCEPT ![seq] = jobs'[seq]] /\ jobs \in [Seqs -> Jobs]
        /\ seq \in Seqs => jobs'[seq] = [[[jobs[seq] EXCEPT !.in = curr] EXCEPT !.out = dict] EXCEPT !.more = more]
    BY <1>1 DEF JobTypes
  <2>3. seq \in Seqs => jobs'[seq] \in Jobs
    BY <2>1, <2>2 DEF Jobs
  <2> QED
    BY <2>2, <2>3 DEF JobTypes
<1>5. MainTypes'
  BY <1>3 DEF MainTypes, MainStates
<1>6. ListTypes' /\ ThreadTypes' /\ WriterTypes'
  BY DEF ListTypes, ThreadTypes, WriterTypes, cLists, wLists, cVars, wVars
<1> QED
  BY <1>3, <1>4, <1>5, <1>6

LEMMA OtherMainTypes ==
  ASSUME Types, BuffersOK, JobsOK, AppendJob \/ EndInput \/ JoinWriter \/ Finish \/ JoinAll
  PROVE  Types'
<1> USE DEF Types
<1>1. CASE AppendJob
  <2> USE <1>1 DEF AppendJob
  <2>1. MainTypes' /\ ThreadTypes'
    <3>1. CASE cthreads < seq + 1 /\ cthreads < Procs
      BY <3>1, CompressAssumption DEF MainTypes, MainStates, ThreadTypes, ThreadStates
    <3>2. CASE ~(cthreads < seq + 1 /\ cthreads < Procs)
      BY <3>2 DEF MainTypes, MainStates, ThreadTypes
    <3> QED
      BY <3>1, <3>2
  <2>2. ListTypes'
    <3>1. seq \in Seqs
      BY DEF JobsOK, Making
    <3> QED
      BY <3>1 DEF ListTypes, wLists
  <2>3. PoolTypes' /\ JobTypes' /\ WriterTypes'
    BY DEF PoolTypes, JobTypes, WriterTypes, pools, wVars
  <2> QED
    BY <2>1, <2>2, <2>3
<1>2. CASE EndInput
  <2> USE <1>2 DEF EndInput
  <2>1. PoolTypes'
    <3>1. next \in Spaces \union {Null}
      BY PoolsApart DEF MainTypes
    <3> QED
      BY <3>1, UseTypes, DataTypes DEF PoolTypes
  <2>2. JobTypes' /\ ListTypes' /\ MainTypes' /\ ThreadTypes' /\ WriterTypes'
    BY DEF JobTypes, ListTypes, MainTypes, ThreadTypes, WriterTypes, cLists, wLists, cVars, wVars,
           MainStates
  <2> QED
    BY <2>1, <2>2
<1>3. CASE JoinWriter
  <2>1. Tail(todo) \in Seq(Inputs)
    BY <1>3 DEF JoinWriter, BuffersOK, MainTypes
  <2> QED
    BY <1>3, <2>1 DEF JoinWriter, PoolTypes, JobTypes, ListTypes, MainTypes, ThreadTypes, WriterTypes,
       pools, cLists, wLists, cVars, MainStates, WriterStates
<1>4. CASE Finish
  <2>1. ListTypes'
    BY <1>4 DEF Finish, ListTypes, wLists
  <2> QED
    BY <1>4, <2>1 DEF Finish, PoolTypes, JobTypes, MainTypes, ThreadTypes, WriterTypes,
       pools, cVars, wVars, MainStates
<1>5. CASE JoinAll
  <2> USE <1>5 DEF JoinAll
  <2>1. MainTypes'
    <3>1. 0 \in 0..Procs
      BY CompressAssumption
    <3> QED
      BY <3>1 DEF MainTypes, MainStates
  <2>2. ThreadTypes'
    BY DEF ThreadTypes, ThreadStates
  <2>3. PoolTypes' /\ JobTypes' /\ ListTypes' /\ WriterTypes'
    BY DEF PoolTypes, JobTypes, ListTypes, WriterTypes, pools, cLists, wLists, wVars
  <2> QED
    BY <2>1, <2>2, <2>3
<1> QED
  BY <1>1, <1>2, <1>3, <1>4, <1>5

LEMMA TakenBound ==
  ASSUME Types
  PROVE  Taken \in Int /\ Taken <= seq
BY DEF Types, ListTypes, MainTypes, Taken

(* What a compress thread has, and what the write thread has, is a job.    *)
LEMMA ThreadHasJob ==
  ASSUME Types, ThreadsOK, WorkOK, JobsOK, NEW c \in Compressors, cpc[c] \in Having
  PROVE  cjob[c] \in Seqs /\ jobs[cjob[c]] \in Jobs /\ jobs[cjob[c]].in \in InPool
<1>1. cjob[c] \in Seqs
  BY DEF Types, ThreadTypes, ThreadsOK
<1>2. AtWrite <= cjob[c] /\ cjob[c] < seq
  BY <1>1, TakenBound DEF WorkOK, Types, MainTypes, Seqs
<1>3. jobs[cjob[c]].in # Null
  BY <1>1, <1>2 DEF JobsOK
<1> QED
  BY <1>1, <1>3 DEF Types, JobTypes, Jobs

LEMMA WriterHasJob ==
  ASSUME Types, WriterOK, JobsOK, wpc \in Busy
  PROVE  wseq \in Seqs /\ jobs[wseq] \in Jobs /\ jobs[wseq].in \in InPool
<1>1. AtWrite = wseq /\ wseq \in Nat /\ wseq < seq
  BY TakenBound DEF AtWrite, Busy, WriterOK, Types, WriterTypes, MainTypes
<1>2. wseq \in Seqs
  BY <1>1, CompressAssumption DEF JobsOK, Seqs, Types, MainTypes
<1>3. jobs[wseq].in # Null
  BY <1>1, <1>2 DEF JobsOK
<1> QED
  BY <1>2, <1>3 DEF Types, JobTypes, Jobs

(* The write list after a job was put in it.                               *)
LEMMA InsertTypes ==
  ASSUME Types, ThreadsOK, WorkOK, WriteListOK, NEW c \in Compressors, Insert(c)
  PROVE  /\ writeList' \in Seq(Seqs) /\ Len(writeList') = Len(writeList) + 1
         /\ \A i, k \in 1..Len(writeList') : i < k => writeList'[i] < writeList'[k]
         /\ \A i \in 1..Len(writeList') :
              writeList'[i] = cjob[c] \/ \E j \in 1..Len(writeList) : writeList'[i] = writeList[j]
         /\ writeFirst' = writeList'[1] /\ writeFirst' \in Seqs
<1>1. PICK n, l : n = cjob[c] /\ l = writeList
  OBVIOUS
<1>2. n \in Seqs /\ n \in Nat
  BY <1>1 DEF Types, ThreadTypes, ThreadsOK, Insert, Having, Working, Seqs
<1>3. l \in Seq(Seqs) /\ l \in Seq(Nat)
  <2>1. l \in Seq(Seqs)
    BY <1>1 DEF Types, ListTypes
  <2>2. \A i \in 1..Len(l) : l[i] \in Seqs
    BY <2>1
  <2>3. \A m \in Seqs : m \in Nat
    BY DEF Seqs
  <2>4. \A i \in 1..Len(l) : l[i] \in Nat
    BY <2>2, <2>3
  <2> QED
    BY <2>1, <2>4
<1>4. \A i, k \in 1..Len(l) : i < k => l[i] < l[k]
  BY <1>1 DEF WriteListOK
<1>5. \A i \in 1..Len(l) : l[i] # n
  BY <1>1 DEF WorkOK, Insert, Working
<1>6. PICK q : q = Inserted(l, n)
  OBVIOUS
<1>7. /\ q \in Seq(Nat) /\ Len(q) = Len(l) + 1
      /\ \A i, k \in 1..(Len(l) + 1) : i < k => q[i] < q[k]
      /\ \A i \in 1..(Len(l) + 1) : q[i] = n \/ \E j \in 1..Len(l) : q[i] = l[j]
  BY <1>2, <1>3, <1>4, <1>5, <1>6, InsertedInOrder
<1>8. \A i \in 1..Len(q) : q[i] \in Seqs
  <2>1. \A j \in 1..Len(l) : l[j] \in Seqs
    BY <1>3
  <2> QED
    BY <1>2, <1>7, <2>1
<1>9. q \in Seq(Seqs)
  BY <1>7, <1>8
<1>10. Head(q) = q[1] /\ q[1] \in Seqs
  <2>1. Len(q) >= 1
    BY <1>3, <1>7
  <2> QED
    BY <1>8, <1>9, <2>1
<1>11. writeList' = q /\ writeFirst' = Head(q)
  BY <1>1, <1>6 DEF Insert
<1> QED
  BY <1>1, <1>7, <1>9, <1>10, <1>11

LEMMA ThreadStepTypes ==
  ASSUME Types, ThreadsOK, CompressListOK, JobsOK, WorkOK, WriterOK, WriteListOK,
         NEW c \in Compressors, Compressor(c)
  PROVE  Types'
<1> USE DEF Types
<1>1. CASE GetJob(c)
  <2> USE <1>1 DEF GetJob
  <2>1. CASE Head(compressList) = -1
    BY <2>1 DEF PoolTypes, JobTypes, ListTypes, MainTypes, ThreadTypes, WriterTypes,
       pools, cLists, wLists, mainVars, wVars, ThreadStates
  <2>2. CASE Head(compressList) # -1
    <3>1. compressList # <<>>
      BY DEF CompressListOK
    <3>2. Head(compressList) \in Seqs /\ Tail(compressList) \in Seq(Seqs \union {-1})
      BY <2>2, <3>1 DEF ListTypes
    <3> QED
      BY <2>2, <3>2 DEF PoolTypes, JobTypes, ListTypes, MainTypes, ThreadTypes, WriterTypes,
       pools, wLists, mainVars, wVars, ThreadStates, Having, Working
  <2> QED
    BY <2>1, <2>2
<1>2. cpc[c] \in Having => cjob[c] \in Seqs /\ jobs[cjob[c]] \in Jobs /\ jobs[cjob[c]].in \in InPool
  BY ThreadHasJob
<1>3. CASE SetDictionary(c)
  <2> USE <1>3 DEF SetDictionary
  <2>1. jobs[cjob[c]].out \in Spaces \union {Null}
    BY <1>2 DEF Having, Working, Jobs
  <2>2. PoolTypes'
    BY <2>1, UseTypes, DataTypes DEF PoolTypes
  <2>3. ThreadTypes'
    BY DEF ThreadTypes, ThreadStates, Having, Working
  <2> QED
    BY <2>2, <2>3 DEF JobTypes, ListTypes, MainTypes, WriterTypes, cLists, wLists, mainVars, wVars
<1>4. CASE CompressData(c)
  <2> USE <1>4 DEF CompressData
  <2>1. PICK n, j, o : n = cjob[c] /\ j = jobs[n] /\ o = First(OutPool)
    OBVIOUS
  <2>2. /\ n \in Seqs /\ j \in Jobs /\ j.in \in InPool /\ j.lens \in LensPool \union {Null} /\ o \in OutPool
    BY <1>2, <2>1, FreshBuffers DEF Having, Working, Jobs
  <2>3. refs' = Reserve(Dropped(Used(refs, o), j.lens), j.in)
    BY <2>1
  <2>4. refs' \in [Spaces -> Int]
    <3>1. o \in Spaces /\ j.in \in Spaces /\ j.lens \in Spaces \union {Null}
      BY <2>2, PoolsApart
    <3>2. PICK r \in [Spaces -> Int] : r = Used(refs, o)
      BY <3>1, UseTypes DEF PoolTypes
    <3>3. PICK q \in [Spaces -> Int] : q = Dropped(r, j.lens)
      BY <3>1, UseTypes
    <3>4. Used(q, j.in) \in [Spaces -> Int]
      BY <3>1, UseTypes
    <3> QED
      BY <2>3, <3>2, <3>3, <3>4 DEF Reserve
  <2>5. PICK h : /\ h.piece = data[j.in].piece
                 /\ data' = Kept(refs', [data EXCEPT ![o] = h])
    <3>1. PICK w, e : data' = Kept(refs', [data EXCEPT ![o] = [piece |-> data[j.in].piece,
                                             window |-> w, ends |-> e, lens |-> <<>>]])
      BY <2>1
    <3> QED
      BY <3>1
  <2>6. h.piece \in Pieces
    BY <2>2, <2>5, PoolsApart DEF PoolTypes, DataOK
  <2>7. DataOK(data')
    <3>1. DataOK([data EXCEPT ![o] = h])
      BY <2>6, DataTypes DEF PoolTypes
    <3>2. PICK d : d = [data EXCEPT ![o] = h]
      OBVIOUS
    <3>3. DataOK(d) /\ data' = Kept(refs', d)
      BY <2>5, <3>1, <3>2
    <3> QED
      BY <3>3, DataTypes
  <2>8. JobTypes'
    <3>1. jobs' = [jobs EXCEPT ![n] = [[j EXCEPT !.out = o] EXCEPT !.lens = Null]]
      BY <2>1, <2>2 DEF JobTypes
    <3>2. [[j EXCEPT !.out = o] EXCEPT !.lens = Null] \in Jobs
      BY <2>2, PoolsApart DEF Jobs
    <3> QED
      BY <3>1, <3>2 DEF JobTypes
  <2>9. ThreadTypes'
    BY DEF ThreadTypes, ThreadStates, Having, Working
  <2> QED
    BY <2>4, <2>7, <2>8, <2>9 DEF PoolTypes, ListTypes, MainTypes, WriterTypes, cLists, wLists, mainVars, wVars
<1>5. CASE Insert(c)
  <2> USE <1>5 DEF Insert
  <2>1. writeList' \in Seq(Seqs) /\ writeFirst' \in Seqs
    BY InsertTypes
  <2>2. ThreadTypes'
    BY DEF ThreadTypes, ThreadStates, Having, Working
  <2> QED
    BY <2>1, <2>2 DEF PoolTypes, JobTypes, ListTypes, MainTypes, WriterTypes, pools, cLists, mainVars, wVars
<1>6. CASE Check(c)
  <2> USE <1>6 DEF Check
  <2>1. PICK n, j : n = cjob[c] /\ j = jobs[n]
    OBVIOUS
  <2>2. n \in Seqs /\ j \in Jobs /\ j.in \in InPool
    BY <1>2, <2>1 DEF Having, Working
  <2>3. PoolTypes'
    <3>1. refs' = Dropped(refs, j.in) /\ data' = Kept(refs', data)
      BY <2>1
    <3> QED
      BY <2>2, <3>1, UseTypes, DataTypes, PoolsApart DEF PoolTypes
  <2>4. JobTypes'
    <3>1. jobs' = [jobs EXCEPT ![n] = [j EXCEPT !.check = data[j.in].piece]]
      BY <2>1
    <3>2. data[j.in].piece \in Pieces
      BY <2>2, PoolsApart DEF PoolTypes, DataOK
    <3>3. [j EXCEPT !.check = data[j.in].piece] \in Jobs
      BY <2>2, <3>2 DEF Jobs
    <3> QED
      BY <3>1, <3>3 DEF JobTypes
  <2>5. ThreadTypes'
    BY DEF ThreadTypes, ThreadStates, Having, Working
  <2> QED
    BY <2>3, <2>4, <2>5 DEF ListTypes, MainTypes, WriterTypes, cLists, wLists, mainVars, wVars
<1>7. CASE Calculated(c)
  <2> USE <1>7 DEF Calculated
  <2>1. JobTypes'
    BY <1>2 DEF Having, JobTypes, Jobs
  <2>2. ThreadTypes'
    BY DEF ThreadTypes, ThreadStates, Having, Working
  <2> QED
    BY <2>1, <2>2 DEF PoolTypes, ListTypes, MainTypes, WriterTypes, pools, cLists, wLists, mainVars, wVars
<1> QED
  BY <1>1, <1>3, <1>4, <1>5, <1>6, <1>7 DEF Compressor

LEMMA WriterTypesOK ==
  ASSUME Types, WriterOK, JobsOK, WriteListOK, Writer
  PROVE  Types'
<1> USE DEF Types
<1>1. CASE WriteHeader
  <2> USE <1>1 DEF WriteHeader
  <2>1. WriterTypes'
    BY DEF WriterTypes, WriterStates
  <2> QED
    BY <2>1 DEF PoolTypes, JobTypes, ListTypes, MainTypes, ThreadTypes, pools, cLists, wLists, mainVars,
       cVars
<1>2. wpc \in Busy => wseq \in Seqs /\ jobs[wseq] \in Jobs /\ jobs[wseq].in \in InPool
  BY WriterHasJob
<1>3. CASE TakeJob
  <2> USE <1>3 DEF TakeJob
  <2>1. writeList # <<>>
    BY DEF WriteListOK, WriterTypes
  <2>2. Tail(writeList) \in Seq(Seqs) /\ writeFirst' \in Seqs \union {-1}
    BY <2>1 DEF ListTypes
  <2> QED
    BY <2>2 DEF PoolTypes, JobTypes, ListTypes, MainTypes, ThreadTypes, WriterTypes,
     pools, cLists, mainVars, cVars, WriterStates, Busy
<1>4. CASE TakeLength
  <2> USE <1>4 DEF TakeLength
  <2>1. PICK j : j = jobs[wseq] /\ j \in Jobs /\ j.in \in InPool
    BY <1>2 DEF Busy
  <2>2. PoolTypes'
    <3>1. refs' = Dropped(refs, j.in) /\ data' = Kept(refs', data)
      BY <2>1
    <3> QED
      BY <2>1, <3>1, UseTypes, DataTypes, PoolsApart DEF PoolTypes
  <2>3. WriterTypes'
    BY <2>1 DEF WriterTypes, WriterStates, Busy, Jobs
  <2> QED
    BY <2>2, <2>3 DEF JobTypes, ListTypes, MainTypes, ThreadTypes, cLists, wLists, mainVars, cVars
<1>5. CASE WriteData
  <2> USE <1>5 DEF WriteData
  <2>1. PICK j : j = jobs[wseq] /\ j \in Jobs
    BY <1>2 DEF Busy
  <2>2. PoolTypes'
    <3>1. refs' = Dropped(refs, j.out) /\ data' = Kept(refs', data)
      BY <2>1
    <3>2. j.out \in Spaces \union {Null}
      BY <2>1 DEF Jobs
    <3> QED
      BY <3>1, <3>2, UseTypes, DataTypes DEF PoolTypes
  <2> QED
    BY <2>2 DEF JobTypes, ListTypes, MainTypes, ThreadTypes, WriterTypes, cLists, wLists, mainVars, cVars,
       WriterStates, Busy
<1>6. CASE Combine
  <2> USE <1>6 DEF Combine
  <2>1. JobTypes'
    BY NoJobType DEF JobTypes
  <2>2. WriterTypes'
    BY DEF WriterTypes, WriterStates
  <2> QED
    BY <2>1, <2>2 DEF PoolTypes, ListTypes, MainTypes, ThreadTypes, pools, cLists, wLists, mainVars, cVars
<1>7. CASE WriteTrailer
  BY <1>7 DEF WriteTrailer, PoolTypes, JobTypes, ListTypes, MainTypes, ThreadTypes, WriterTypes,
     pools, cLists, mainVars, cVars, WriterStates
<1> QED
  BY <1>1, <1>3, <1>4, <1>5, <1>6, <1>7 DEF Writer

-----------------------------------------------------------------------------
(* Control                                                                 *)

(* Steps of main that make no job and have nothing to do with the lists.   *)
LEMMA QuietMainOK ==
  ASSUME Control, Types', ReadFirst \/ Rsync \/ CutTail \/ EndInput
  PROVE  Control'
<1> USE DEF Control
<1>1. /\ UNCHANGED <<seq, setup, compressList, compressHave, writeList, writeFirst, cthreads, todo, cpc,
                     cjob, wpc, wseq, wmore>>
      /\ mpc \notin {"idle", "joinall", "append", "join"} /\ mpc' \notin {"idle", "joinall", "append"}
      /\ AllMade' <=> AllMade
  BY DEF ReadFirst, Rsync, CutTail, EndInput, cLists, wLists, cVars, wVars, AllMade
<1>2. Taken' = Taken /\ AtWrite' = AtWrite /\ (InStream' <=> InStream)
  BY <1>1 DEF Taken, InStream, AtWrite
<1>3. Making' => Making
  BY DEF ReadFirst, Rsync, CutTail, EndInput, Making
<1>4. \A n \in Seqs : /\ jobs'[n].live = jobs[n].live /\ jobs'[n].in = jobs[n].in
                      /\ jobs'[n].more = jobs[n].more /\ jobs'[n].calc = jobs[n].calc
  <2>1. CASE jobs' = jobs
    BY <2>1
  <2>2. CASE \E l : jobs' = [jobs EXCEPT ![seq].lens = l]
    BY <2>2 DEF Types, JobTypes, Jobs
  <2> QED
    BY <2>1, <2>2 DEF ReadFirst, Rsync, CutTail, EndInput
<1>5. BuffersOK'
  <2>1. \A s \in InPool : s # Null
    BY PoolsApart
  <2>2. CASE ReadFirst
    BY <1>1, <2>1, <2>2 DEF BuffersOK, ReadFirst
  <2>3. CASE Rsync
    BY <1>1, <2>3 DEF BuffersOK, Rsync
  <2>4. CASE CutTail
    BY <1>1, <2>1, <2>4, FreshBuffers DEF BuffersOK, CutTail
  <2>5. CASE EndInput
    BY <1>1, <2>5 DEF BuffersOK, EndInput
  <2> QED
    BY <2>2, <2>3, <2>4, <2>5
<1>6. ThreadsOK' /\ CompressListOK'
  BY <1>1, <1>2 DEF ThreadsOK, CompressListOK
<1>7. WriterOK'
  BY <1>1, <1>2, <1>4, WriterHasJob DEF WriterOK, Busy
<1>8. JobsOK'
  BY <1>1, <1>2, <1>3, <1>4 DEF JobsOK
<1>9. WorkOK'
  BY <1>1, <1>2, <1>4, ThreadHasJob DEF WorkOK
<1>10. WriteListOK'
  BY <1>1, <1>2 DEF WriteListOK
<1> QED
  BY <1>5, <1>6, <1>7, <1>8, <1>9, <1>10

LEMMA StartOK ==
  ASSUME Control, Types', Start
  PROVE  Control'
<1> USE DEF Control, Start
<1>1. wpc = "none" /\ wseq = seq /\ AtWrite = seq /\ Taken = seq
  BY TakenBound DEF ThreadsOK, WriterOK, AtWrite, Types, MainTypes
<1>2. \A c \in Compressors : cpc[c] \notin Having
  BY <1>1, ThreadHasJob DEF WorkOK, Types, MainTypes, ThreadTypes, Seqs
<1>3. compressList' = <<>> /\ compressHave' = 0 /\ writeList' = <<>> /\ writeFirst' = -1
  <2>1. CASE setup
    <3>1. compressList = <<>>
      BY <1>1, <2>1 DEF Taken, InStream, Types, ListTypes, MainTypes
    <3>2. writeList = <<>>
      BY <1>1 DEF WriteListOK, Types, ListTypes, MainTypes, Seqs
    <3> QED
      BY <2>1, <3>1, <3>2 DEF cLists, wLists, CompressListOK, WriteListOK
  <2> QED
    BY <2>1
<1>4. Taken' = 0 /\ AtWrite' = 0 /\ seq' = 0 /\ wpc' = "header" /\ mpc' = "first"
  <2>1. Len(<<>>) = 0
    OBVIOUS
  <2>2. Len(compressList') = 0 /\ seq' = 0
    BY ONLY <1>3, <2>1, Start DEF Start
  <2> QED
    BY <2>2 DEF Taken, AtWrite
<1>5. BuffersOK' /\ ThreadsOK' /\ CompressListOK'
  BY <1>2, <1>3, <1>4 DEF BuffersOK, ThreadsOK, CompressListOK, cVars
<1>6. WriterOK'
  BY <1>4 DEF WriterOK, Busy
<1>7. JobsOK'
  BY <1>4, CompressAssumption DEF JobsOK, Making, Seqs
<1>8. WorkOK' /\ WriteListOK'
  BY <1>2, <1>3, <1>4 DEF WorkOK, WriteListOK, Having, cVars, Busy
<1> QED
  BY <1>5, <1>6, <1>7, <1>8

LEMMA NewJobOK ==
  ASSUME Control, Types', NewJob
  PROVE  Control'
<1> USE DEF Control
<1>1. /\ UNCHANGED <<seq, setup, compressList, compressHave, writeList, writeFirst, cthreads, todo, cpc,
                     cjob, wpc, wseq, wmore>>
      /\ mpc = "job" /\ mpc' = "rsync" /\ seq \in Seqs
  BY DEF NewJob, cLists, wLists, cVars, wVars
<1>2. Taken' = Taken /\ AtWrite' = AtWrite /\ ~AllMade /\ ~AllMade'
  BY <1>1 DEF Taken, InStream, AtWrite, AllMade
<1>3. /\ jobs'[seq].live /\ ~jobs'[seq].calc
      /\ \A n \in Seqs : n # seq => jobs'[n] = jobs[n]
  BY <1>1 DEF NewJob, NoJob, Types, JobTypes
<1>4. BuffersOK'
  BY <1>1, PoolsApart DEF NewJob, BuffersOK
<1>5. ThreadsOK' /\ CompressListOK'
  BY <1>1, <1>2 DEF ThreadsOK, CompressListOK, InStream
<1>6. wpc \in Busy => jobs'[wseq] = jobs[wseq]
  BY <1>3, WriterHasJob, TakenBound DEF WriterOK, Types, MainTypes, WriterTypes
<1>7. WriterOK'
  BY <1>1, <1>2, <1>6 DEF WriterOK, Busy
<1>8. JobsOK'
  BY <1>1, <1>2, <1>3 DEF JobsOK, Making, Types, MainTypes, Seqs
<1>9. \A c \in Compressors : cpc[c] \in Having => jobs'[cjob[c]] = jobs[cjob[c]]
  BY <1>3, ThreadHasJob, TakenBound DEF WorkOK, Types, MainTypes, Seqs
<1>10. WorkOK' /\ WriteListOK'
  BY <1>1, <1>2, <1>9 DEF WorkOK, WriteListOK
<1> QED
  BY <1>4, <1>5, <1>7, <1>8, <1>10

LEMMA PrepareOK ==
  ASSUME Control, Types', Prepare
  PROVE  Control'
<1> USE DEF Control
<1>1. /\ UNCHANGED <<seq, setup, compressList, compressHave, writeList, writeFirst, cthreads, todo, cpc,
                     cjob, wpc, wseq, wmore, curr, next>>
      /\ mpc = "dict" /\ mpc' = "append" /\ seq \in Seqs
  BY DEF Prepare, cLists, wLists, cVars, wVars, JobsOK, Making
<1>2. Taken' = Taken /\ AtWrite' = AtWrite /\ ~AllMade /\ ~AllMade'
  BY <1>1 DEF Taken, InStream, AtWrite, AllMade
<1>3. /\ jobs'[seq].live /\ ~jobs'[seq].calc /\ jobs'[seq].in # Null
      /\ \A n \in Seqs : n # seq => jobs'[n] = jobs[n]
  <2>1. PICK more : jobs' = [jobs EXCEPT ![seq].in = curr, ![seq].out = dict, ![seq].more = more]
    BY DEF Prepare
  <2>2. jobs[seq].live /\ ~jobs[seq].calc /\ curr # Null
    BY <1>1 DEF JobsOK, Making, BuffersOK
  <2>3. jobs'[seq].live = jobs[seq].live /\ jobs'[seq].calc = jobs[seq].calc /\ jobs'[seq].in = curr
    BY <1>1, <2>1 DEF Types, JobTypes, Jobs
  <2> QED
    BY <1>1, <2>1, <2>2, <2>3 DEF Types, JobTypes
<1>4. BuffersOK'
  BY <1>1 DEF BuffersOK
<1>5. ThreadsOK' /\ CompressListOK'
  BY <1>1, <1>2 DEF ThreadsOK, CompressListOK, InStream
<1>6. wpc \in Busy => jobs'[wseq] = jobs[wseq]
  BY <1>3, WriterHasJob, TakenBound DEF WriterOK, Types, MainTypes, WriterTypes
<1>7. WriterOK'
  BY <1>1, <1>2, <1>6 DEF WriterOK, Busy
<1>8. JobsOK'
  BY <1>1, <1>2, <1>3 DEF JobsOK, Making, Types, MainTypes, Seqs
<1>9. \A c \in Compressors : cpc[c] \in Having => jobs'[cjob[c]] = jobs[cjob[c]]
  BY <1>3, ThreadHasJob, TakenBound DEF WorkOK, Types, MainTypes, Seqs
<1>10. WorkOK' /\ WriteListOK'
  BY <1>1, <1>2, <1>9 DEF WorkOK, WriteListOK
<1> QED
  BY <1>4, <1>5, <1>7, <1>8, <1>10

LEMMA AppendJobOK ==
  ASSUME Control, Types', AppendJob
  PROVE  Control'
<1> USE DEF Control
<1>1. /\ UNCHANGED <<setup, jobs, writeList, writeFirst, todo, cjob, wpc, wseq, wmore, curr, next>>
      /\ mpc = "append" /\ mpc' \in {"job", "end"} /\ (mpc' = "end" <=> ~jobs[seq].more)
      /\ seq' = seq + 1 /\ compressList' = Append(compressList, seq) /\ compressHave' = compressHave + 1
      /\ setup /\ wpc # "none"
  BY DEF AppendJob, wLists, wVars, ThreadsOK, Types, JobTypes, Jobs
<1>2. /\ seq \in Seqs /\ jobs[seq].live /\ ~jobs[seq].calc /\ jobs[seq].in # Null
  BY <1>1 DEF JobsOK, Making
<1>3. Len(compressList') = Len(compressList) + 1 /\ Len(compressList) \in Nat /\ seq \in Nat
  BY <1>1 DEF Types, ListTypes, MainTypes
<1>4. /\ Taken = seq - Len(compressList) /\ Taken' = seq + 1 - (Len(compressList) + 1) /\ AtWrite' = AtWrite
      /\ ~AllMade /\ (AllMade' <=> ~jobs[seq].more)
  BY <1>1, <1>3 DEF Taken, InStream, AtWrite, AllMade
<1>5. Taken' = Taken
  BY <1>3, <1>4
<1>6. BuffersOK'
  BY <1>1 DEF BuffersOK
<1>7. \A c \in Compressors : \/ cpc'[c] = cpc[c]
                             \/ cpc[c] = "none" /\ cpc'[c] = "get" /\ c = cthreads + 1 /\ cthreads' = c
  BY <1>1 DEF AppendJob, ThreadsOK, Types, ThreadTypes, MainTypes
<1>8. cthreads' \in Int /\ cthreads \in Int /\ cthreads <= cthreads'
  BY DEF AppendJob, Types, MainTypes
<1>9. ThreadsOK'
  BY <1>1, <1>7, <1>8 DEF ThreadsOK, Having, Working, Compressors
<1>10. CompressListOK'
  <2>1. PICK l : l = compressList
    OBVIOUS
  <2>2. l \in Seq(Seqs \union {-1}) /\ compressHave = Len(l)
    BY <2>1 DEF Types, ListTypes, CompressListOK
  <2>3. \A i \in 1..Len(l) : l[i] = seq - Len(l) + (i - 1)
    BY <1>1, <2>1 DEF CompressListOK, InStream
  <2>4. PICK m : m = Append(l, seq)
    OBVIOUS
  <2>5. Len(m) = Len(l) + 1 /\ \A i \in 1..(Len(l) + 1) : m[i] = IF i <= Len(l) THEN l[i] ELSE seq
    BY <1>2, <2>2, <2>4
  <2>6. \A i \in 1..(Len(l) + 1) : m[i] = seq + 1 - (Len(l) + 1) + (i - 1)
    BY <1>3, <2>1, <2>3, <2>5
  <2>7. compressList' = m
    BY <1>1, <2>1, <2>4
  <2>8. compressHave' = Len(compressList')
    BY <1>1, <2>1, <2>2, <2>5, <2>7
  <2>9. \A i \in 1..Len(compressList') : compressList'[i] = seq' - Len(compressList') + (i - 1)
    <3>1. Len(compressList') = Len(l) + 1
      BY <2>5, <2>7
    <3>2. seq' - Len(compressList') = seq + 1 - (Len(l) + 1)
      <4>1. Len(l) \in Nat /\ seq \in Nat /\ seq' = seq + 1
        BY <1>1, <1>3, <2>1
      <4> QED
        BY ONLY <3>1, <4>1
    <3> QED
      BY <2>6, <2>7, <3>1, <3>2
  <2>10. mpc' # "joinall"
    BY <1>1
  <2> QED
    BY <2>8, <2>9, <2>10 DEF CompressListOK
<1>11. WriterOK'
  BY <1>1, <1>3, <1>4, <1>5 DEF WriterOK, Busy, AllMade
<1>12. JobsOK'
  <2>1. seq' <= MaxJobs + 1
    BY <1>1, <1>2, CompressAssumption DEF Seqs
  <2>2. \A n \in Seqs : AtWrite <= n /\ n < seq =>
          jobs[n].live /\ jobs[n].in # Null /\ jobs[n].more
    BY <1>4 DEF JobsOK
  <2>3. \A n \in Seqs : AtWrite <= n /\ n < seq + 1 =>
          /\ jobs[n].live /\ jobs[n].in # Null
          /\ jobs[n].more <=> ~(AllMade' /\ n = seq)
    BY <1>2, <1>3, <1>4, <2>2 DEF Seqs
  <2>4. \A n \in Seqs : Taken <= n /\ n < seq + 1 => ~jobs[n].calc
    BY <1>2, <1>3 DEF JobsOK, Seqs
  <2> QED
    BY <1>1, <1>3, <1>4, <1>5, <2>1, <2>3, <2>4 DEF JobsOK, Making
<1>13. \A c \in Compressors : cpc'[c] \in Having => cpc[c] = cpc'[c]
  BY <1>7 DEF Having, Working
<1>14. WorkOK' /\ WriteListOK'
  BY <1>1, <1>4, <1>5, <1>13 DEF WorkOK, WriteListOK, Having
<1> QED
  BY <1>6, <1>9, <1>10, <1>11, <1>12, <1>14

(* Between streams nobody has a job.                                       *)
LEMMA NobodyWorks ==
  ASSUME Control, wpc = "none"
  PROVE  /\ Taken = seq /\ wseq = seq /\ \A c \in Compressors : cpc[c] \notin Having
         /\ writeList = <<>>
<1> USE DEF Control
<1>1. wseq = seq /\ AtWrite = seq /\ Taken = seq
  BY TakenBound DEF WriterOK, AtWrite, Types, MainTypes
<1>2. \A c \in Compressors : cpc[c] \notin Having
  BY <1>1, ThreadHasJob DEF WorkOK, Types, MainTypes, ThreadTypes, Seqs
<1>3. writeList = <<>>
  BY <1>1 DEF WriteListOK, Types, ListTypes, MainTypes, Seqs
<1> QED
  BY <1>1, <1>2, <1>3

LEMMA StreamEndOK ==
  ASSUME Control, Types', JoinWriter \/ Finish \/ JoinAll
  PROVE  Control'
<1> USE DEF Control
<1>1. CASE JoinWriter
  <2> USE <1>1 DEF JoinWriter
  <2>1. wseq = seq /\ AtWrite = seq /\ Taken = seq /\ Taken' = Taken /\ AtWrite' = AtWrite
        /\ (InStream' <=> InStream) /\ AllMade /\ setup
    BY TakenBound DEF WriterOK, AtWrite, Types, MainTypes, Taken, InStream, AllMade, cLists, ThreadsOK
  <2>2. BuffersOK' /\ ThreadsOK' /\ CompressListOK'
    BY <2>1 DEF BuffersOK, ThreadsOK, CompressListOK, cLists, cVars
  <2>3. WriterOK' /\ JobsOK'
    BY <2>1 DEF WriterOK, JobsOK, Making, Busy, Types, MainTypes, Seqs
  <2>4. WorkOK' /\ WriteListOK'
    BY <2>1 DEF WorkOK, WriteListOK, cVars, wLists, Busy
  <2> QED
    BY <2>2, <2>3, <2>4
<1>2. CASE Finish
  <2> USE <1>2 DEF Finish
  <2>1. wpc = "none" /\ InStream
    BY DEF ThreadsOK, InStream
  <2>2. Taken = seq /\ wseq = seq /\ \A c \in Compressors : cpc[c] \notin Having
    BY <2>1, NobodyWorks
  <2>3. compressHave = 0
    BY <2>1, <2>2 DEF Taken, CompressListOK, Types, ListTypes, MainTypes
  <2>4. Taken' = seq /\ AtWrite' = AtWrite /\ ~InStream' /\ AtWrite = seq
    BY <2>1, <2>2 DEF Taken, InStream, AtWrite, wVars
  <2>5. BuffersOK' /\ ThreadsOK'
    BY <2>1 DEF BuffersOK, ThreadsOK, cVars, wVars
  <2>6. CompressListOK'
    <3>1. Len(<<-1>>) = 1
      OBVIOUS
    <3> QED
      BY <2>3, <2>4, <3>1 DEF CompressListOK
  <2>7. WriterOK' /\ JobsOK'
    BY <2>1, <2>2, <2>4 DEF WriterOK, JobsOK, Making, Busy, Types, MainTypes, Seqs, wVars
  <2>8. WorkOK' /\ WriteListOK'
    BY <2>1, <2>2, <2>4 DEF WorkOK, WriteListOK, cVars, wLists, wVars, Busy, Having
  <2> QED
    BY <2>5, <2>6, <2>7, <2>8
<1>3. CASE JoinAll
  <2> USE <1>3 DEF JoinAll
  <2>1. wpc = "none" /\ ~InStream /\ ~InStream'
    BY DEF ThreadsOK, InStream
  <2>2. Taken = seq /\ wseq = seq /\ \A c \in Compressors : cpc'[c] = "none" /\ cpc[c] \notin Having
    BY <2>1, NobodyWorks
  <2>3. Taken' = seq /\ AtWrite' = AtWrite /\ AtWrite = seq
    BY <2>1, <2>2 DEF Taken, AtWrite, wVars
  <2>4. BuffersOK' /\ ThreadsOK' /\ CompressListOK'
    BY <2>1, <2>2 DEF BuffersOK, ThreadsOK, CompressListOK, cLists, wVars, Having, Working
  <2>5. WriterOK' /\ JobsOK'
    BY <2>1, <2>2, <2>3 DEF WriterOK, JobsOK, Making, Busy, Types, MainTypes, Seqs, wVars
  <2>6. WorkOK' /\ WriteListOK'
    BY <2>1, <2>2, <2>3 DEF WorkOK, WriteListOK, wLists, wVars, Busy, Having, Working
  <2> QED
    BY <2>4, <2>5, <2>6
<1> QED
  BY <1>1, <1>2, <1>3

(* What a compress thread finds at the head of the list.                   *)
LEMMA HeadOfList ==
  ASSUME Control, NEW c \in Compressors, GetJob(c)
  PROVE  /\ Len(compressList) \in Nat \ {0} /\ compressHave = Len(compressList)
         /\ IF mpc = "joinall" THEN Head(compressList) = -1
            ELSE /\ InStream /\ Head(compressList) = Taken
                 /\ Taken = seq - Len(compressList) /\ Taken \in Seqs /\ Taken < seq
<1> USE DEF Control
<1>1. PICK l : l = compressList
  OBVIOUS
<1>2. l \in Seq(Seqs \union {-1}) /\ Len(l) \in Nat \ {0} /\ compressHave = Len(l)
  BY <1>1 DEF Types, ListTypes, CompressListOK, GetJob
<1>3. Head(l) = l[1]
  BY <1>2
<1>4. CASE mpc = "joinall"
  <2>1. l = <<-1>>
    BY <1>1, <1>4 DEF CompressListOK
  <2> QED
    BY <1>1, <1>2, <1>4, <2>1
<1>5. CASE mpc # "joinall"
  <2>1. InStream
    BY <1>5 DEF InStream, ThreadsOK, GetJob, Types, MainTypes
  <2>2. l[1] = seq - Len(l) + (1 - 1)
    BY <1>1, <1>2, <2>1 DEF CompressListOK
  <2>3. Taken = seq - Len(l)
    BY <1>1, <2>1 DEF Taken
  <2>4. 0 <= Taken /\ seq \in Nat /\ seq <= MaxJobs + 1
    BY DEF WriterOK, Types, MainTypes, JobsOK
  <2>5. Taken \in Seqs /\ Taken < seq
    BY <1>2, <2>3, <2>4, CompressAssumption DEF Seqs
  <2>6. Head(l) = Taken
    BY <1>2, <1>3, <2>2, <2>3, <2>4
  <2> QED
    BY <1>1, <1>2, <1>5, <2>1, <2>3, <2>5, <2>6
<1> QED
  BY <1>4, <1>5

LEMMA GetJobOK ==
  ASSUME Control, Types', NEW c \in Compressors, GetJob(c)
  PROVE  Control'
<1> USE DEF Control, GetJob
<1>1. CASE Head(compressList) = -1
  <2>1. mpc = "joinall"
    BY <1>1, HeadOfList DEF Seqs
  <2>2. Taken' = Taken /\ AtWrite' = AtWrite /\ (InStream' <=> InStream) /\ (Making' <=> Making)
        /\ (AllMade' <=> AllMade)
    BY <1>1 DEF Taken, AtWrite, InStream, Making, AllMade, mainVars, cLists, wVars
  <2>3. \A d \in Compressors : cpc'[d] = IF d = c THEN "exited" ELSE cpc[d]
    BY <1>1 DEF Types, ThreadTypes
  <2> QED
    BY <1>1, <2>1, <2>2, <2>3 DEF BuffersOK, ThreadsOK, CompressListOK, WriterOK, JobsOK, WorkOK,
       WriteListOK, mainVars, cLists, wLists, wVars, Having, Working
<1>2. CASE Head(compressList) # -1
  <2>1. PICK n, l : n = Head(compressList) /\ l = compressList
    OBVIOUS
  <2>2. l \in Seq(Seqs \union {-1}) /\ Len(l) \in Nat \ {0} /\ compressHave = Len(l)
    BY <2>1, HeadOfList DEF Types, ListTypes
  <2>3. InStream /\ n = seq - Len(l) /\ n = Taken /\ n < seq /\ n \in Seqs /\ mpc # "joinall"
    BY <1>2, <2>1, HeadOfList
  <2>4. /\ \A d \in Compressors : cpc'[d] = IF d = c THEN "window" ELSE cpc[d]
        /\ \A d \in Compressors : cjob'[d] = IF d = c THEN n ELSE cjob[d]
    BY <1>2, <2>1 DEF Types, ThreadTypes
  <2>5. /\ UNCHANGED <<jobs, writeList, writeFirst, mpc, seq, setup, todo, curr, next, cthreads, wpc, wseq, wmore>>
    BY DEF wLists, mainVars, wVars
  <2>6. PICK m : m = Tail(l)
    OBVIOUS
  <2>7. Len(m) = Len(l) - 1 /\ \A i \in 1..(Len(l) - 1) : m[i] = l[i + 1]
    BY <2>2, <2>6
  <2>8. compressList' = m /\ compressHave' = compressHave - 1
    BY <1>2, <2>1, <2>6
  <2>9. Taken' = Taken + 1 /\ AtWrite' = AtWrite /\ (InStream' <=> InStream) /\ (Making' <=> Making)
        /\ (AllMade' <=> AllMade) /\ Taken \in Int
    <3>1. AtWrite' = AtWrite /\ (InStream' <=> InStream) /\ (Making' <=> Making) /\ (AllMade' <=> AllMade)
      BY <2>5 DEF AtWrite, InStream, Making, AllMade
    <3>2. Len(compressList') = Len(l) - 1 /\ seq' = seq /\ seq \in Nat
      BY <2>5, <2>7, <2>8 DEF Types, MainTypes
    <3>3. Taken' = seq - (Len(l) - 1)
      BY <2>3, <3>1, <3>2 DEF Taken
    <3> QED
      BY <2>2, <2>3, <3>1, <3>2, <3>3
  <2>10. BuffersOK' /\ ThreadsOK'
    BY <2>3, <2>4, <2>5 DEF BuffersOK, ThreadsOK, Having, Working, Seqs
  <2>11. CompressListOK'
    <3>1. \A i \in 1..Len(l) : l[i] = seq - Len(l) + (i - 1)
      BY <2>1, <2>3 DEF CompressListOK
    <3>2. ASSUME NEW i \in 1..Len(m) PROVE m[i] = seq - Len(m) + (i - 1)
      <4>1. i + 1 \in 1..Len(l) /\ i \in 1..(Len(l) - 1)
        BY <2>2, <2>7
      <4>2. m[i] = seq - Len(l) + ((i + 1) - 1)
        BY <2>7, <3>1, <4>1
      <4> QED
        BY <2>2, <2>7, <4>2 DEF Types, MainTypes
    <3>3. compressHave' = Len(m)
      BY <2>2, <2>7, <2>8
    <3> QED
      BY <2>3, <2>5, <2>8, <3>2, <3>3 DEF CompressListOK
  <2>12. WriterOK'
    BY <2>3, <2>5, <2>9, TakenBound DEF WriterOK, Busy, AtWrite, Types, WriterTypes
  <2>13. JobsOK'
    BY <2>3, <2>5, <2>9, TakenBound DEF JobsOK, Seqs
  <2>14. \A d \in Compressors : cpc[d] \in Having => cjob[d] < n /\ cjob[d] \in Int
    BY <2>3, ThreadHasJob DEF WorkOK, Seqs
  <2>15. WorkOK'
    <3>1. ~jobs[n].calc /\ AtWrite <= n
      BY <2>3 DEF JobsOK, WriterOK, Seqs
    <3>2. wpc \in Busy => wseq # n
      BY <2>3 DEF WriterOK, Seqs, Types, WriterTypes
    <3>3. \A i \in 1..Len(writeList) : writeList[i] # n
      BY <2>3 DEF WriteListOK, Seqs, Types, ListTypes
    <3>4. ASSUME NEW d \in Compressors, cpc'[d] \in Having
          PROVE  AtWrite' <= cjob'[d] /\ cjob'[d] < Taken' /\ ~jobs'[cjob'[d]].calc
      <4>1. CASE d = c
        BY <2>3, <2>4, <2>5, <2>9, <3>1, <4>1 DEF Seqs
      <4>2. CASE d # c
        BY <2>3, <2>4, <2>5, <2>9, <2>14, <3>4, <4>2 DEF WorkOK, Seqs
      <4> QED
        BY <4>1, <4>2
    <3>5. ASSUME NEW d \in Compressors, NEW e \in Compressors, d # e, cpc'[d] \in Having, cpc'[e] \in Having
          PROVE  cjob'[d] # cjob'[e]
      BY <2>3, <2>4, <2>14, <3>5 DEF WorkOK, Seqs
    <3>6. ASSUME NEW d \in Compressors, cpc'[d] \in Working
          PROVE  /\ wpc' \in Busy => cjob'[d] # wseq'
                 /\ \A i \in 1..Len(writeList') : writeList'[i] # cjob'[d]
      BY <2>4, <2>5, <3>2, <3>3, <3>6 DEF WorkOK
    <3> QED
      BY <3>4, <3>5, <3>6 DEF WorkOK
  <2>16. WriteListOK'
    <3>1. \A i \in 1..Len(writeList) : writeList[i] \in Nat
      <4>1. \A i \in 1..Len(writeList) : writeList[i] \in Seqs
        BY DEF Types, ListTypes
      <4> QED
        BY <4>1 DEF Seqs
    <3>2. \A i \in 1..Len(writeList) : writeList[i] < Taken => writeList[i] < Taken + 1
      BY <2>9, <3>1
    <3> QED
      BY <2>5, <2>9, <3>2 DEF WriteListOK
  <2> QED
    BY <2>10, <2>11, <2>12, <2>13, <2>15, <2>16
<1> QED
  BY <1>1, <1>2

(* Steps of a compress thread between the lists: it keeps its job.         *)
LEMMA QuietThreadOK ==
  ASSUME Control, Types', NEW c \in Compressors, SetDictionary(c) \/ CompressData(c) \/ Check(c)
  PROVE  Control'
<1> USE DEF Control
<1>1. /\ UNCHANGED <<compressList, compressHave, writeList, writeFirst, mpc, seq, setup, todo, curr, next,
                     cthreads, cjob, wpc, wseq, wmore>>
      /\ cpc[c] \in Having /\ cpc'[c] \in Having /\ (cpc'[c] \in Working => cpc[c] \in Working)
      /\ \A d \in Compressors : d # c => cpc'[d] = cpc[d]
  BY DEF SetDictionary, CompressData, Check, cLists, wLists, mainVars, wVars, Having, Working, Types,
         ThreadTypes
<1>2. Taken' = Taken /\ AtWrite' = AtWrite /\ (InStream' <=> InStream) /\ (Making' <=> Making)
        /\ (AllMade' <=> AllMade)
  BY <1>1 DEF Taken, AtWrite, InStream, Making, AllMade
<1>3. \A n \in Seqs : /\ jobs'[n].live = jobs[n].live /\ jobs'[n].in = jobs[n].in
                      /\ jobs'[n].more = jobs[n].more /\ jobs'[n].calc = jobs[n].calc
  BY DEF SetDictionary, CompressData, Check, Types, JobTypes, Jobs
<1>4. BuffersOK' /\ CompressListOK' /\ WriteListOK'
  BY <1>1, <1>2 DEF BuffersOK, CompressListOK, WriteListOK
<1>5. ThreadsOK'
  BY <1>1 DEF ThreadsOK, Having, Working
<1>6. WriterOK'
  BY <1>1, <1>2, <1>3, WriterHasJob DEF WriterOK, Busy
<1>7. JobsOK'
  <2>1. mpc = "append" => seq \in Seqs
    BY DEF JobsOK, Making
  <2> QED
    BY <1>1, <1>2, <1>3, <2>1 DEF JobsOK
<1>8. \A d \in Compressors : /\ cpc'[d] \in Having => cpc[d] \in Having
                             /\ cpc'[d] \in Working => cpc[d] \in Working
  BY <1>1
<1>9. WorkOK'
  BY <1>1, <1>2, <1>3, <1>8, ThreadHasJob DEF WorkOK
<1> QED
  BY <1>4, <1>5, <1>6, <1>7, <1>9

LEMMA InsertOK ==
  ASSUME Control, Types', NEW c \in Compressors, Insert(c)
  PROVE  Control'
<1> USE DEF Control
<1>1. /\ UNCHANGED <<jobs, compressList, compressHave, mpc, seq, setup, todo, curr, next,
                     cthreads, cjob, wpc, wseq, wmore>>
      /\ cpc[c] = "insert" /\ cpc'[c] = "check" /\ \A d \in Compressors : d # c => cpc'[d] = cpc[d]
  BY DEF Insert, cLists, mainVars, wVars, Types, ThreadTypes
<1>2. Taken' = Taken /\ AtWrite' = AtWrite /\ (InStream' <=> InStream) /\ (Making' <=> Making)
        /\ (AllMade' <=> AllMade)
  BY <1>1 DEF Taken, AtWrite, InStream, Making, AllMade
<1>3. PICK n, l, m : n = cjob[c] /\ l = writeList /\ m = writeList'
  OBVIOUS
<1>4. /\ m \in Seq(Seqs) /\ Len(m) = Len(l) + 1
      /\ \A i, k \in 1..Len(m) : i < k => m[i] < m[k]
      /\ \A i \in 1..Len(m) : m[i] = n \/ \E j \in 1..Len(l) : m[i] = l[j]
      /\ writeFirst' = m[1]
  BY <1>3, InsertTypes
<1>5. n \in Seqs /\ AtWrite <= n /\ n < Taken /\ (wpc \in Busy => wseq < n)
  <2>1. n \in Seqs /\ AtWrite <= n /\ n < Taken /\ (wpc \in Busy => wseq # n)
    BY <1>1, <1>3, ThreadHasJob DEF WorkOK, Having, Working
  <2>2. wpc \in Busy => AtWrite = wseq
    BY DEF AtWrite, Busy
  <2> QED
    BY <2>1, <2>2 DEF Seqs, Types, WriterTypes
<1>6. BuffersOK' /\ CompressListOK' /\ WriterOK' /\ JobsOK'
  BY <1>1, <1>2 DEF BuffersOK, CompressListOK, WriterOK, JobsOK
<1>7. ThreadsOK'
  BY <1>1 DEF ThreadsOK, Having, Working
<1>8. WorkOK'
  <2>1. \A d \in Compressors : /\ cpc'[d] \in Having => cpc[d] \in Having
                               /\ cpc'[d] \in Working => d # c /\ cpc[d] \in Working
    BY <1>1 DEF Having, Working
  <2>2. ASSUME NEW d \in Compressors, cpc'[d] \in Working, NEW i \in 1..Len(m) PROVE m[i] # cjob[d]
    <3>1. cjob[d] # n
      BY <1>1, <1>3, <2>1, <2>2 DEF WorkOK, Having, Working
    <3>2. \A j \in 1..Len(l) : l[j] # cjob[d]
      BY <1>3, <2>1, <2>2 DEF WorkOK
    <3> QED
      BY <1>4, <3>1, <3>2
  <2> QED
    BY <1>1, <1>2, <1>3, <2>1, <2>2 DEF WorkOK
<1>9. WriteListOK'
  <2>1. \A j \in 1..Len(l) : AtWrite <= l[j] /\ l[j] < Taken /\ (wpc \in Busy => wseq < l[j])
    BY <1>3 DEF WriteListOK
  <2>2. ASSUME NEW i \in 1..Len(m) PROVE AtWrite <= m[i] /\ m[i] < Taken /\ (wpc \in Busy => wseq < m[i])
    BY <1>4, <1>5, <2>1
  <2>3. m # <<>>
    <3>1. Len(l) \in Nat
      BY <1>3 DEF Types, ListTypes
    <3> QED
      BY <1>4, <3>1
  <2> QED
    BY <1>1, <1>2, <1>3, <1>4, <2>2, <2>3 DEF WriteListOK
<1> QED
  BY <1>6, <1>7, <1>8, <1>9

LEMMA CalculatedOK ==
  ASSUME Control, Types', NEW c \in Compressors, Calculated(c)
  PROVE  Control'
<1> USE DEF Control
<1>1. /\ UNCHANGED <<compressList, compressHave, writeList, writeFirst, mpc, seq, setup, todo, curr, next,
                     cthreads, wpc, wseq, wmore>>
      /\ cpc[c] = "calc" /\ cpc'[c] = "get" /\ cjob'[c] = -1
      /\ \A d \in Compressors : d # c => cpc'[d] = cpc[d] /\ cjob'[d] = cjob[d]
  BY DEF Calculated, cLists, wLists, mainVars, wVars, Types, ThreadTypes
<1>2. Taken' = Taken /\ AtWrite' = AtWrite /\ (InStream' <=> InStream) /\ (Making' <=> Making)
        /\ (AllMade' <=> AllMade)
  BY <1>1 DEF Taken, AtWrite, InStream, Making, AllMade
<1>3. PICK k : k = cjob[c] /\ k \in Seqs /\ AtWrite <= k /\ k < Taken
  BY <1>1, ThreadHasJob DEF WorkOK, Having
<1>4. \A n \in Seqs : /\ jobs'[n].live = jobs[n].live /\ jobs'[n].in = jobs[n].in
                      /\ jobs'[n].more = jobs[n].more /\ (n # k => jobs'[n].calc = jobs[n].calc)
  BY <1>3 DEF Calculated, Types, JobTypes, Jobs
<1>5. BuffersOK' /\ CompressListOK' /\ WriteListOK'
  BY <1>1, <1>2 DEF BuffersOK, CompressListOK, WriteListOK
<1>6. ThreadsOK'
  BY <1>1 DEF ThreadsOK, Having, Working
<1>7. WriterOK'
  BY <1>1, <1>2, <1>4, WriterHasJob DEF WriterOK, Busy
<1>8. JobsOK'
  <2>1. k < seq /\ k \in Nat /\ seq \in Nat /\ seq' = seq /\ mpc' = mpc
    <3>1. Taken \in Int /\ Taken <= seq
      BY TakenBound
    <3>2. k \in Int /\ k \in Nat
      BY <1>3, CompressAssumption DEF Seqs
    <3> QED
      BY <1>1, <1>3, <3>1, <3>2 DEF Types, MainTypes
  <2>2. \A n \in Seqs : AtWrite' <= n /\ n < seq' =>
                          /\ jobs'[n].live /\ jobs'[n].in # Null
                          /\ jobs'[n].more <=> ~(AllMade' /\ n = seq' - 1)
    BY <1>2, <1>4, <2>1 DEF JobsOK
  <2>3. \A n \in Seqs : Taken' <= n /\ n < seq' => ~jobs'[n].calc
    <3>1. ASSUME NEW n \in Seqs, Taken <= n
          PROVE  n # k
      BY ONLY <1>3, <2>1, <3>1, TakenBound, Control, CompressAssumption DEF Control, Seqs
    <3> QED
      BY <1>2, <1>4, <2>1, <3>1 DEF JobsOK
  <2>4. Making' => seq' \in Seqs /\ jobs'[seq'].live /\ ~jobs'[seq'].calc
    BY <1>2, <1>4, <2>1 DEF JobsOK
  <2>5. mpc' = "append" => jobs'[seq'].in # Null
    BY <1>2, <1>4, <2>1, <2>4 DEF JobsOK, Making
  <2> QED
    BY <2>1, <2>2, <2>3, <2>4, <2>5 DEF JobsOK
<1>9. WorkOK'
  <2>1. \A d \in Compressors : /\ cpc'[d] \in Having => d # c /\ cpc[d] \in Having /\ cjob[d] # k
                               /\ cpc'[d] \in Working => d # c /\ cpc[d] \in Working
    BY <1>1, <1>3 DEF WorkOK, Having, Working
  <2> QED
    BY <1>1, <1>2, <1>4, <2>1, ThreadHasJob DEF WorkOK
<1> QED
  BY <1>5, <1>6, <1>7, <1>8, <1>9

LEMMA WriterStepOK ==
  ASSUME Control, Types', Writer
  PROVE  Control'
<1> USE DEF Control
<1>1. /\ UNCHANGED <<compressList, compressHave, mpc, seq, setup, todo, curr, next, cthreads, cpc, cjob>>
      /\ wpc # "none" /\ wpc' # "none"
  BY DEF Writer, WriteHeader, TakeJob, TakeLength, WriteData, Combine, WriteTrailer, cLists, mainVars, cVars
<1>2. Taken' = Taken /\ (InStream' <=> InStream) /\ (Making' <=> Making) /\ (AllMade' <=> AllMade)
  BY <1>1 DEF Taken, InStream, Making, AllMade
<1>3. BuffersOK' /\ ThreadsOK' /\ CompressListOK'
  BY <1>1, <1>2 DEF BuffersOK, ThreadsOK, CompressListOK
<1>4. CASE WriteHeader
  <2> USE <1>4 DEF WriteHeader
  <2>1. AtWrite = 0 /\ AtWrite' = 0
    BY DEF AtWrite
  <2>2. WriterOK' /\ JobsOK'
    <3>1. wseq' <= MaxJobs + 1
      BY CompressAssumption
    <3> QED
      BY <1>1, <1>2, <2>1, <3>1 DEF WriterOK, JobsOK, Busy
  <2>3. WorkOK' /\ WriteListOK'
    BY <1>1, <1>2, <2>1 DEF WorkOK, WriteListOK, Busy, wLists
  <2> QED
    BY <1>3, <2>2, <2>3
<1>5. CASE TakeJob
  <2> USE <1>5 DEF TakeJob
  <2>1. AtWrite = wseq /\ AtWrite' = wseq /\ wseq' = wseq /\ jobs' = jobs
    BY DEF AtWrite
  <2>2. PICK l, m : l = writeList /\ m = Tail(l) /\ writeList' = m
    OBVIOUS
  <2>3. l \in Seq(Seqs) /\ l # <<>> /\ l[1] = wseq /\ Len(l) \in Nat \ {0}
    BY <2>2 DEF WriteListOK, Types, ListTypes, WriterTypes
  <2>4. Len(m) = Len(l) - 1 /\ \A i \in 1..(Len(l) - 1) : m[i] = l[i + 1]
    BY <2>2, <2>3
  <2>5. \A i \in 1..Len(m) : i + 1 \in 1..Len(l) /\ m[i] = l[i + 1]
    BY <2>3, <2>4
  <2>6. wseq < Taken
    BY <2>2, <2>3 DEF WriteListOK
  <2>7. WriterOK' /\ JobsOK'
    BY <1>1, <1>2, <2>1, <2>6 DEF WriterOK, JobsOK, Busy
  <2>8. WorkOK'
    <3>1. \A c \in Compressors : cpc[c] \in Working => cjob[c] # wseq
      BY <2>2, <2>3 DEF WorkOK
    <3>2. \A c \in Compressors : cpc[c] \in Working => \A i \in 1..Len(m) : m[i] # cjob[c]
      BY <2>2, <2>5 DEF WorkOK
    <3> QED
      BY <1>1, <1>2, <2>1, <2>2, <3>1, <3>2 DEF WorkOK
  <2>9. WriteListOK'
    <3>1. \A i, k \in 1..Len(m) : i < k => m[i] < m[k]
      <4>1. \A i, k \in 1..Len(l) : i < k => l[i] < l[k]
        BY <2>2 DEF WriteListOK
      <4> QED
        BY <2>5, <4>1
    <3>2. \A i \in 1..Len(m) : wseq < m[i]
      <4>1. \A i \in 1..Len(m) : l[1] < l[i + 1]
        <5>1. \A i \in 1..Len(m) : 1 \in 1..Len(l) /\ i + 1 \in 1..Len(l) /\ 1 < i + 1
          BY <2>3, <2>5
        <5> QED
          BY <2>2, <5>1 DEF WriteListOK
      <4> QED
        BY <2>3, <2>5, <4>1
    <3>3. \A i \in 1..Len(m) : AtWrite <= m[i] /\ m[i] < Taken
      BY <2>2, <2>5 DEF WriteListOK
    <3>4. m # <<>> => Head(m) = m[1]
      BY <2>2, <2>3
    <3> QED
      BY <1>2, <2>1, <2>2, <3>1, <3>2, <3>3, <3>4 DEF WriteListOK
  <2> QED
    BY <1>3, <2>7, <2>8, <2>9
<1>6. CASE TakeLength \/ WriteData
  <2>1. /\ UNCHANGED <<jobs, writeList, writeFirst, wseq>> /\ AtWrite' = AtWrite
        /\ wpc \in Busy /\ wpc' \in {"write", "combine"} /\ wpc' \in Busy
        /\ wmore' = IF TakeLength THEN jobs[wseq].more ELSE wmore
        /\ TakeLength \/ wpc = "write"
    BY <1>6 DEF TakeLength, WriteData, wLists, Busy, AtWrite
  <2>2. WriterOK' /\ JobsOK'
    BY <1>1, <1>2, <2>1 DEF WriterOK, JobsOK
  <2>3. WorkOK' /\ WriteListOK'
    BY <1>1, <1>2, <2>1 DEF WorkOK, WriteListOK
  <2> QED
    BY <1>3, <2>2, <2>3
<1>7. CASE Combine
  <2> USE <1>7 DEF Combine
  <2>1. /\ UNCHANGED <<writeList, writeFirst, wmore>> /\ wpc' \in {"get", "trailer"} /\ wpc' \notin Busy
        /\ wpc = "combine" /\ wpc \in Busy /\ AtWrite = wseq /\ wseq' = wseq + 1 /\ AtWrite' = wseq + 1
        /\ wseq \in Nat /\ jobs[wseq].calc
    BY DEF wLists, Busy, AtWrite, Types, WriterTypes, CalcReady
  <2>2. wseq \in Seqs /\ wseq < Taken /\ wseq < seq /\ Taken \in Int /\ seq \in Nat
    BY <2>1, WriterHasJob, TakenBound DEF WriterOK, Types, MainTypes
  <2>3. \A n \in Seqs : n # wseq => jobs'[n] = jobs[n]
    BY DEF Types, JobTypes
  <2>4. wpc' = "trailer" => AllMade /\ wseq + 1 = seq
    <3>1. wmore = jobs[wseq].more
      BY <2>1 DEF WriterOK
    <3>2. jobs[wseq].more <=> ~(AllMade /\ wseq = seq - 1)
      BY <2>1, <2>2 DEF JobsOK
    <3> QED
      BY <2>2, <3>1, <3>2
  <2>5. WriterOK'
    <3>1. wseq + 1 <= MaxJobs + 1
      BY <2>2, CompressAssumption DEF Seqs
    <3> QED
      BY <1>2, <1>1, <2>1, <2>2, <2>4, <3>1 DEF WriterOK, Busy
  <2>6. JobsOK'
    BY <1>1, <1>2, <2>1, <2>2, <2>3 DEF JobsOK, Making, Seqs
  <2>7. \A c \in Compressors : cpc[c] \in Having =>
          cjob[c] \in Seqs /\ cjob[c] # wseq /\ AtWrite' <= cjob[c]
    BY <2>1, <2>2, ThreadHasJob DEF WorkOK, Seqs
  <2>8. WorkOK'
    BY <1>1, <1>2, <2>1, <2>3, <2>7 DEF WorkOK
  <2>9. WriteListOK'
    <3>1. \A i \in 1..Len(writeList) : writeList[i] \in Nat /\ wseq < writeList[i]
      <4>1. \A i \in 1..Len(writeList) : writeList[i] \in Seqs
        BY DEF Types, ListTypes
      <4> QED
        BY <2>1, <4>1 DEF WriteListOK, Seqs
    <3>2. \A i \in 1..Len(writeList) : AtWrite' <= writeList[i]
      BY <2>1, <3>1
    <3> QED
      BY <1>2, <2>1, <3>2 DEF WriteListOK
  <2> QED
    BY <1>3, <2>5, <2>6, <2>8, <2>9
<1>8. CASE WriteTrailer
  <2> USE <1>8 DEF WriteTrailer
  <2>1. /\ UNCHANGED <<writeList, wseq, jobs, wmore>> /\ wpc' = "ended" /\ AtWrite' = AtWrite /\ AtWrite = seq
    BY DEF AtWrite, WriterOK
  <2>2. WriterOK' /\ JobsOK'
    BY <1>1, <1>2, <2>1 DEF WriterOK, JobsOK, Busy
  <2>3. WorkOK'
    BY <1>1, <1>2, <2>1 DEF WorkOK, Busy
  <2>4. writeList = <<>>
    <3>1. AtWrite = seq /\ Taken \in Int /\ Taken <= seq /\ seq \in Nat
      BY <2>1, TakenBound DEF Types, MainTypes
    <3>2. writeList \in Seq(Seqs)
      BY DEF Types, ListTypes
    <3>3. ASSUME 1 \in 1..Len(writeList)
          PROVE  FALSE
      <4>1. AtWrite <= writeList[1] /\ writeList[1] < Taken
        BY <3>3 DEF WriteListOK
      <4>2. writeList[1] \in Seqs
        BY <3>2, <3>3
      <4>3. writeList[1] \in Int
        BY <4>2, CompressAssumption DEF Seqs
      <4> QED
        BY ONLY <3>1, <4>1, <4>3
    <3> QED
      BY ONLY <3>2, <3>3
  <2>5. WriteListOK'
    BY <2>1, <2>4 DEF WriteListOK
  <2> QED
    BY <1>3, <2>2, <2>3, <2>5
<1> QED
  BY <1>4, <1>5, <1>6, <1>7, <1>8 DEF Writer

LEMMA ControlInit ==
  ASSUME Init
  PROVE  Control
<1> USE DEF Init
<1>1. Types
  <2>1. PoolTypes
    BY DataTypes DEF PoolTypes, DataOK
  <2>2. JobTypes
    BY NoJobType DEF JobTypes
  <2>3. ListTypes
    BY DEF ListTypes
  <2>4. MainTypes
    <3>1. NoInput \in Inputs
      BY DEF NoInput, Inputs
    <3>2. todo \in Seq(Inputs) /\ input \in Inputs
      <4>1. Programs \subseteq Seq(Inputs)
        BY ONLY CompressAssumption DEF CompressAssumption
      <4>2. todo \in Programs /\ input = NoInput
        OBVIOUS
      <4> QED
        BY ONLY <3>1, <4>1, <4>2
    <3>3. cthreads \in 0..Procs /\ setup \in BOOLEAN
      <4>1. Procs \in Nat \ {0}
        BY ONLY CompressAssumption
      <4>2. 0 \in 0..Procs
        BY ONLY <4>1
      <4> QED
        BY <4>2
    <3>4. {curr, next, hold} \subseteq InPool \union {Null} /\ dict \in InPool \union DictPool \union {Null}
      OBVIOUS
    <3>5. pos \in Int /\ seq \in Nat /\ left \in Int /\ scan \in Int
      OBVIOUS
    <3>6. mpc \in MainStates
      BY DEF MainStates
    <3> QED
      BY ONLY <3>2, <3>3, <3>4, <3>5, <3>6 DEF MainTypes
  <2>5. ThreadTypes /\ WriterTypes
    BY DEF ThreadTypes, ThreadStates, WriterTypes, WriterStates
  <2> QED
    BY <2>1, <2>2, <2>3, <2>4, <2>5 DEF Types
<1>2. Taken = 0 /\ AtWrite = 0
  BY DEF Taken, InStream, AtWrite
<1>3. BuffersOK /\ ThreadsOK
  BY DEF BuffersOK, ThreadsOK, Having, Working
<1>4. CompressListOK
  <2>1. Len(<<>>) = 0
    OBVIOUS
  <2> QED
    BY <2>1 DEF CompressListOK, InStream
<1>5. WriterOK
  BY <1>2, CompressAssumption DEF WriterOK, Busy
<1>6. JobsOK
  BY <1>2, CompressAssumption DEF JobsOK, Making, Seqs
<1>7. WorkOK
  BY DEF WorkOK, Having, Working
<1>8. WriteListOK
  BY DEF WriteListOK
<1> QED
  BY <1>1, <1>3, <1>4, <1>5, <1>6, <1>7, <1>8 DEF Control

LEMMA ControlStep ==
  ASSUME Control, [Next]_vars
  PROVE  Control'
<1>1. CASE Main
  <2>1. Types'
    <3>1. CASE Start \/ ReadFirst \/ NewJob \/ Rsync \/ CutTail \/ Prepare
      BY <3>1, StartTypes, ReadFirstTypes, NewJobTypes, RsyncTypes, CutTailTypes, PrepareTypes DEF Control
    <3>2. CASE AppendJob \/ EndInput \/ JoinWriter \/ Finish \/ JoinAll
      BY <3>2, OtherMainTypes DEF Control
    <3> QED
      BY <1>1, <3>1, <3>2 DEF Main
  <2> QED
    BY <1>1, <2>1, StartOK, QuietMainOK, NewJobOK, PrepareOK, AppendJobOK, StreamEndOK DEF Main
<1>2. CASE \E c \in Compressors : Compressor(c)
  <2>1. PICK c \in Compressors : Compressor(c)
    BY <1>2
  <2>2. Types'
    BY <2>1, ThreadStepTypes DEF Control
  <2> QED
    BY <2>1, <2>2, GetJobOK, QuietThreadOK, InsertOK, CalculatedOK DEF Compressor
<1>3. CASE Writer
  <2>1. Types'
    BY <1>3, WriterTypesOK DEF Control
  <2> QED
    BY <1>3, <2>1, WriterStepOK
<1>4. CASE UNCHANGED vars
  <2> USE <1>4 DEF vars, pools, cLists, wLists, mainVars, cVars, wVars
  <2>1. Taken' = Taken /\ AtWrite' = AtWrite /\ (InStream' <=> InStream) /\ (Making' <=> Making)
        /\ (AllMade' <=> AllMade)
    BY DEF Taken, AtWrite, InStream, Making, AllMade
  <2>2. Types'
    BY DEF Control, Types, PoolTypes, JobTypes, ListTypes, MainTypes, ThreadTypes, WriterTypes
  <2>3. BuffersOK' /\ ThreadsOK' /\ CompressListOK' /\ WriterOK'
    BY <2>1 DEF Control, BuffersOK, ThreadsOK, CompressListOK, WriterOK
  <2>4. JobsOK' /\ WorkOK' /\ WriteListOK'
    BY <2>1 DEF Control, JobsOK, WorkOK, WriteListOK
  <2> QED
    BY <2>2, <2>3, <2>4 DEF Control
<1> QED
  BY <1>1, <1>2, <1>3, <1>4 DEF Next, Terminated

(* Which jobs there are, in which list each is and who has it, in any      *)
(* stream of any run.                                                      *)
THEOREM ControlInvariant == Spec => []Control
BY ControlInit, ControlStep, PTL DEF Spec

(* A job is there as long as a thread has to do with it, no two compress   *)
(* threads have the same, and the write list is in order and holds only    *)
(* jobs that are compressed and not written.                               *)
THEOREM JobsAreSafe == Spec => []JobsSafe
<1>1. Control => JobsSafe
  <2> SUFFICES ASSUME Control PROVE JobsSafe
    OBVIOUS
  <2> USE DEF Control
  <2>1. ASSUME NEW c \in Compressors, cpc[c] \in Having PROVE jobs[cjob[c]].live
    BY <2>1, ThreadHasJob, TakenBound DEF WorkOK, JobsOK, Types, MainTypes, Seqs
  <2>2. \A c, d \in Compressors :
          c # d /\ cpc[c] \in Having /\ cpc[d] \in Having => cjob[c] # cjob[d]
    BY DEF WorkOK
  <2>3. writeList \in Seq(Seqs) /\ DOMAIN writeList = 1..Len(writeList)
    BY DEF Types, ListTypes
  <2>4. \A c \in Compressors, i \in DOMAIN writeList : cpc[c] \in Working => writeList[i] # cjob[c]
    BY <2>3 DEF WorkOK
  <2>5. \A i, k \in DOMAIN writeList : i < k => writeList[i] < writeList[k]
    BY <2>3 DEF WriteListOK
  <2>6. \A i \in DOMAIN writeList : wpc \in {"get", "trailer"} => wseq <= writeList[i]
    BY <2>3 DEF WriteListOK, AtWrite
  <2> QED
    BY <2>1, <2>2, <2>4, <2>5, <2>6 DEF JobsSafe, Having, Working
<1> QED
  BY ControlInvariant, <1>1, PTL

-----------------------------------------------------------------------------
(* Counting references                                                     *)

With(f, k, x) == [h \in Tokens |-> IF h = k THEN x ELSE f[h]]
Passed(f, k, m) == With(With(f, m, f[k]), k, Null)
Holders(f, s) == {h \in Tokens : f[h] = s}

LEMMA TokensFinite == IsFiniteSet(Tokens)
<1>1. IsFiniteSet(Seqs) /\ IsFiniteSet(Compressors)
  BY CompressAssumption, FS_Interval DEF Seqs, Compressors
<1>2. \A x : IsFiniteSet({x})
  BY FS_Singleton
<1>3. IsFiniteSet({"curr", "next", "hold", "dict"})
  <2>1. IsFiniteSet({"curr"} \union {"next"})
    BY <1>2, FS_AddElement
  <2>2. IsFiniteSet(({"curr"} \union {"next"}) \union {"hold"})
    BY <2>1, FS_AddElement
  <2>3. IsFiniteSet((({"curr"} \union {"next"}) \union {"hold"}) \union {"dict"})
    BY <2>2, FS_AddElement
  <2>4. {"curr", "next", "hold", "dict"} = (({"curr"} \union {"next"}) \union {"hold"}) \union {"dict"}
    OBVIOUS
  <2> QED
    BY <2>3, <2>4
<1>4. IsFiniteSet({"in", "out", "lens"})
  <2>1. IsFiniteSet({"in"} \union {"out"})
    BY <1>2, FS_AddElement
  <2>2. IsFiniteSet(({"in"} \union {"out"}) \union {"lens"})
    BY <2>1, FS_AddElement
  <2>3. {"in", "out", "lens"} = ({"in"} \union {"out"}) \union {"lens"}
    OBVIOUS
  <2> QED
    BY <2>2, <2>3
<1>5. IsFiniteSet({"curr", "next", "hold", "dict"} \X {0})
  BY <1>2, <1>3, FS_Product
<1>6. IsFiniteSet({"in", "out", "lens"} \X Seqs)
  BY <1>1, <1>4, FS_Product
<1>7. IsFiniteSet({"check"} \X Compressors)
  BY <1>1, <1>2, FS_Product
<1> QED
  BY <1>5, <1>6, <1>7, FS_Union DEF Tokens

LEMMA HoldersFinite ==
  ASSUME NEW f, NEW s
  PROVE  IsFiniteSet(Holders(f, s)) /\ Cardinality(Holders(f, s)) \in Nat
<1>1. Holders(f, s) \in SUBSET Tokens
  BY DEF Holders
<1>2. IsFiniteSet(Holders(f, s))
  BY <1>1, TokensFinite, FS_Subset
<1> QED
  BY <1>2, FS_CardinalityType

(* A buffer that is not in use has no reference to it, and one that has a  *)
(* reference to it is in use.                                              *)
LEMMA NotInUse ==
  ASSUME NEW r, NEW f, Counts(r, f), NEW s \in Spaces
  PROVE  /\ r[s] \in Nat
         /\ r[s] = 0 <=> \A h \in Tokens : f[h] # s
<1>1. r[s] = Cardinality(Holders(f, s))
  BY DEF Counts, Holders
<1>2. IsFiniteSet(Holders(f, s)) /\ Cardinality(Holders(f, s)) \in Nat
  BY HoldersFinite
<1>3. Cardinality(Holders(f, s)) = 0 <=> Holders(f, s) = {}
  BY <1>2, FS_EmptySet
<1>4. Holders(f, s) = {} <=> \A h \in Tokens : f[h] # s
  BY DEF Holders
<1> QED
  BY <1>1, <1>2, <1>3, <1>4

(* A buffer that one reference alone is to has a use count of one.         *)
LEMMA OneUse ==
  ASSUME NEW r, NEW f, Counts(r, f), NEW k \in Tokens, f[k] \in Spaces, Alone(f, k)
  PROVE  r[f[k]] = 1
<1>1. Holders(f, f[k]) = {k}
  BY CompressAssumption DEF Alone, Holders
<1>2. Cardinality({k}) = 1
  BY FS_Singleton
<1> QED
  BY <1>1, <1>2 DEF Counts, Holders

LEMMA SameCounts ==
  ASSUME NEW r, NEW f, NEW g, Counts(r, f), \A h \in Tokens : g[h] = f[h]
  PROVE  /\ Counts(r, g)
         /\ \A k \in Tokens : Alone(f, k) => Alone(g, k)
<1>1. \A s \in Spaces : {h \in Tokens : g[h] = s} = {h \in Tokens : f[h] = s}
  OBVIOUS
<1> QED
  BY <1>1 DEF Counts, Alone

(* A new reference, with use_space() or get_space().                       *)
LEMMA Put ==
  ASSUME NEW r \in [Spaces -> Int], NEW f, Counts(r, f), NEW k \in Tokens, f[k] = Null,
         NEW x \in Spaces
  PROVE  /\ Counts(Used(r, x), With(f, k, x))
         /\ \A j \in Tokens : j # k /\ Alone(f, j) /\ f[j] # x => Alone(With(f, k, x), j)
         /\ r[x] = 0 => Alone(With(f, k, x), k)
<1>1. ASSUME NEW s \in Spaces PROVE Used(r, x)[s] = Cardinality(Holders(With(f, k, x), s))
  <2>1. IsFiniteSet(Holders(f, s)) /\ Cardinality(Holders(f, s)) \in Nat
    BY HoldersFinite
  <2>2. r[s] = Cardinality(Holders(f, s))
    BY DEF Counts, Holders
  <2>3. Null # s /\ Null # x
    BY CompressAssumption
  <2>4. CASE s = x
    <3>1. Holders(With(f, k, x), s) = Holders(f, s) \union {k}
      BY <2>4 DEF Holders, With
    <3>2. k \notin Holders(f, s)
      BY <2>3 DEF Holders
    <3>3. Cardinality(Holders(f, s) \union {k}) = Cardinality(Holders(f, s)) + 1
      BY <2>1, <3>2, FS_AddElement
    <3>4. Used(r, x)[s] = r[s] + 1
      BY <2>4 DEF Used
    <3> QED
      BY <2>2, <3>1, <3>3, <3>4
  <2>5. CASE s # x
    <3>1. Holders(With(f, k, x), s) = Holders(f, s)
      BY <2>3, <2>5 DEF Holders, With
    <3>2. Used(r, x)[s] = r[s]
      BY <2>5 DEF Used
    <3> QED
      BY <2>2, <3>1, <3>2
  <2> QED
    BY <2>4, <2>5
<1>2. Counts(Used(r, x), With(f, k, x))
  BY <1>1 DEF Counts, Holders
<1>3. \A j \in Tokens : j # k /\ Alone(f, j) /\ f[j] # x => Alone(With(f, k, x), j)
  BY DEF Alone, With
<1>4. r[x] = 0 => \A h \in Tokens : f[h] # x
  BY NotInUse
<1>5. r[x] = 0 => Alone(With(f, k, x), k)
  BY <1>4 DEF Alone, With
<1> QED
  BY <1>2, <1>3, <1>5

(* A reference given up, with drop_space().                                *)
LEMMA TakeAway ==
  ASSUME NEW r \in [Spaces -> Int], NEW f, Counts(r, f), NEW k \in Tokens,
         f[k] \in Spaces \union {Null}
  PROVE  /\ Counts(Dropped(r, f[k]), With(f, k, Null))
         /\ \A j \in Tokens : Alone(f, j) => Alone(With(f, k, Null), j)
<1>0. Null \notin Spaces
  BY CompressAssumption
<1>1. ASSUME NEW s \in Spaces PROVE Dropped(r, f[k])[s] = Cardinality(Holders(With(f, k, Null), s))
  <2>1. IsFiniteSet(Holders(f, s)) /\ Cardinality(Holders(f, s)) \in Nat
    BY HoldersFinite
  <2>2. r[s] = Cardinality(Holders(f, s))
    BY DEF Counts, Holders
  <2>4. CASE s = f[k]
    <3>1. Holders(With(f, k, Null), s) = Holders(f, s) \ {k}
      BY <1>0, <2>4 DEF Holders, With
    <3>2. k \in Holders(f, s)
      BY <2>4 DEF Holders
    <3>3. Cardinality(Holders(f, s) \ {k}) = Cardinality(Holders(f, s)) - 1
      BY <2>1, <3>2, FS_RemoveElement
    <3>4. Dropped(r, f[k])[s] = r[s] - 1
      BY <1>0, <2>4 DEF Dropped
    <3> QED
      BY <2>2, <3>1, <3>3, <3>4
  <2>5. CASE s # f[k]
    <3>1. Holders(With(f, k, Null), s) = Holders(f, s)
      BY <1>0, <2>5 DEF Holders, With
    <3>2. Dropped(r, f[k])[s] = r[s]
      BY <1>0, <2>5 DEF Dropped
    <3> QED
      BY <2>2, <3>1, <3>2
  <2> QED
    BY <2>4, <2>5
<1>2. Counts(Dropped(r, f[k]), With(f, k, Null))
  BY <1>1 DEF Counts, Holders
<1>3. \A j \in Tokens : Alone(f, j) => Alone(With(f, k, Null), j)
  <2> SUFFICES ASSUME NEW j \in Tokens, Alone(f, j) PROVE Alone(With(f, k, Null), j)
    OBVIOUS
  <2>1. j = k => With(f, k, Null)[j] = Null
    BY DEF With
  <2>2. j # k => With(f, k, Null)[j] = f[j]
    BY DEF With
  <2>3. \A h \in Tokens : With(f, k, Null)[h] \in {f[h], Null}
    BY DEF With
  <2> QED
    BY <2>1, <2>2, <2>3 DEF Alone
<1> QED
  BY <1>2, <1>3

(* A reference that one takes over from another.                           *)
LEMMA Pass ==
  ASSUME NEW r \in [Spaces -> Int], NEW f, Counts(r, f), NEW k \in Tokens, NEW m \in Tokens,
         k # m, f[m] = Null, f[k] \in Spaces \union {Null}
  PROVE  /\ Counts(r, Passed(f, k, m))
         /\ Alone(f, k) => Alone(Passed(f, k, m), m)
         /\ \A j \in Tokens : j # m /\ Alone(f, j) => Alone(Passed(f, k, m), j)
<1>0. Null \notin Spaces
  BY CompressAssumption
<1>1. \A h \in Tokens : Passed(f, k, m)[h] = IF h = k THEN Null ELSE IF h = m THEN f[k] ELSE f[h]
  BY DEF Passed, With
<1>2. ASSUME NEW s \in Spaces PROVE Cardinality(Holders(Passed(f, k, m), s)) = Cardinality(Holders(f, s))
  <2>1. IsFiniteSet(Holders(f, s)) /\ Cardinality(Holders(f, s)) \in Nat
    BY HoldersFinite
  <2>2. CASE s = f[k]
    <3>1. Holders(Passed(f, k, m), s) = (Holders(f, s) \ {k}) \union {m}
      BY <1>0, <1>1, <2>2 DEF Holders
    <3>2. k \in Holders(f, s) /\ m \notin Holders(f, s) \ {k}
      BY <1>0, <2>2 DEF Holders
    <3>3. IsFiniteSet(Holders(f, s) \ {k}) /\ Cardinality(Holders(f, s) \ {k}) = Cardinality(Holders(f, s)) - 1
      BY <2>1, <3>2, FS_RemoveElement
    <3>4. Cardinality((Holders(f, s) \ {k}) \union {m}) = Cardinality(Holders(f, s) \ {k}) + 1
      BY <3>2, <3>3, FS_AddElement
    <3> QED
      BY <2>1, <3>1, <3>3, <3>4
  <2>3. CASE s # f[k]
    <3>1. Holders(Passed(f, k, m), s) = Holders(f, s)
      BY <1>0, <1>1, <2>3 DEF Holders
    <3> QED
      BY <3>1
  <2> QED
    BY <2>2, <2>3
<1>3. Counts(r, Passed(f, k, m))
  BY <1>2 DEF Counts, Holders
<1>4. Alone(f, k) => Alone(Passed(f, k, m), m)
  BY <1>1 DEF Alone
<1>5. \A j \in Tokens : j # m /\ Alone(f, j) => Alone(Passed(f, k, m), j)
  BY <1>1 DEF Alone
<1> QED
  BY <1>3, <1>4, <1>5

(* What each reference is to.                                              *)
LEMMA TokenKinds ==
  /\ {<<"curr", 0>>, <<"next", 0>>, <<"hold", 0>>, <<"dict", 0>>} \subseteq Tokens
  /\ \A n \in Seqs : {<<"in", n>>, <<"out", n>>, <<"lens", n>>} \subseteq Tokens
  /\ \A c \in Compressors : <<"check", c>> \in Tokens
  /\ \A h \in Tokens :
       \/ h \in {<<"curr", 0>>, <<"next", 0>>, <<"hold", 0>>, <<"dict", 0>>}
       \/ \E n \in Seqs : h \in {<<"in", n>>, <<"out", n>>, <<"lens", n>>}
       \/ \E c \in Compressors : h = <<"check", c>>
BY DEF Tokens

LEMMA HeldValues ==
  /\ held[<<"curr", 0>>] = HeldCurr /\ held[<<"next", 0>>] = HeldNext
  /\ held[<<"hold", 0>>] = hold /\ held[<<"dict", 0>>] = HeldDict
  /\ \A n \in Seqs : /\ held[<<"in", n>>] = HeldIn(n) /\ held[<<"out", n>>] = HeldOut(n)
                     /\ held[<<"lens", n>>] = HeldLens(n)
  /\ \A c \in Compressors : held[<<"check", c>>] = HeldCheck(c)
<1>1. \A h \in Tokens : held[h] =
        CASE h[1] = "curr" -> HeldCurr
          [] h[1] = "next" -> HeldNext
          [] h[1] = "hold" -> hold
          [] h[1] = "dict" -> HeldDict
          [] h[1] = "in" -> HeldIn(h[2])
          [] h[1] = "out" -> HeldOut(h[2])
          [] h[1] = "lens" -> HeldLens(h[2])
          [] h[1] = "check" -> HeldCheck(h[2])
  BY DEF held
<1> QED
  BY <1>1, TokenKinds

(* If the references after a step are those of g, the parts of the         *)
(* invariant that count them hold after it.                                *)
LEMMA ReferencesAre ==
  ASSUME NEW g, Counts(refs', g),
         Alone(g, <<"curr", 0>>), Alone(g, <<"next", 0>>), Alone(g, <<"hold", 0>>),
         g[<<"curr", 0>>] = HeldCurr', g[<<"next", 0>>] = HeldNext',
         g[<<"hold", 0>>] = hold', g[<<"dict", 0>>] = HeldDict',
         \A n \in Seqs : g[<<"in", n>>] = HeldIn(n)',
         \A n \in Seqs : g[<<"out", n>>] = HeldOut(n)',
         \A n \in Seqs : g[<<"lens", n>>] = HeldLens(n)',
         \A c \in Compressors : g[<<"check", c>>] = HeldCheck(c)'
  PROVE  CountsOK' /\ MainAlone'
<1>1. \A h \in Tokens : held'[h] =
        CASE h[1] = "curr" -> HeldCurr'
          [] h[1] = "next" -> HeldNext'
          [] h[1] = "hold" -> hold'
          [] h[1] = "dict" -> HeldDict'
          [] h[1] = "in" -> HeldIn(h[2])'
          [] h[1] = "out" -> HeldOut(h[2])'
          [] h[1] = "lens" -> HeldLens(h[2])'
          [] h[1] = "check" -> HeldCheck(h[2])'
  BY DEF held
<1>2. \A h \in Tokens : held'[h] = g[h]
  BY <1>1, TokenKinds
<1>3. Counts(refs', held') /\ \A k \in Tokens : Alone(g, k) => Alone(held', k)
  BY <1>2, SameCounts
<1> QED
  BY <1>3, TokenKinds DEF CountsOK, MainAlone

(* A step that neither takes nor drops a reference.                        *)
LEMMA SameReferences ==
  ASSUME CountsOK, MainAlone, refs' = refs, HeldCurr' = HeldCurr, HeldNext' = HeldNext,
         hold' = hold, HeldDict' = HeldDict,
         \A n \in Seqs : HeldIn(n)' = HeldIn(n),
         \A n \in Seqs : HeldOut(n)' = HeldOut(n),
         \A n \in Seqs : HeldLens(n)' = HeldLens(n),
         \A c \in Compressors : HeldCheck(c)' = HeldCheck(c)
  PROVE  CountsOK' /\ MainAlone'
<1>1. Counts(refs', held) /\ Alone(held, <<"curr", 0>>) /\ Alone(held, <<"next", 0>>)
      /\ Alone(held, <<"hold", 0>>)
  BY DEF CountsOK, MainAlone
<1> QED
  BY <1>1, HeldValues, ReferencesAre

(* Where the jobs that threads are at are among the jobs.                  *)
LEMMA Numbers ==
  ASSUME Control
  PROVE  /\ seq \in Nat /\ AtWrite \in Nat /\ Taken \in Int /\ AtWrite <= Taken /\ Taken <= seq
         /\ Making => seq \in Seqs
         /\ wpc \in Busy => AtWrite = wseq /\ wseq \in Seqs /\ wseq < Taken
         /\ \A c \in Compressors : cpc[c] \in Having =>
              cjob[c] \in Seqs /\ AtWrite <= cjob[c] /\ cjob[c] < Taken
         /\ \A c \in Compressors : cpc[c] \in Working /\ wpc \in Busy => cjob[c] # wseq
         /\ \A n \in Seqs : n \in Nat
<1> USE DEF Control
<1>1. seq \in Nat /\ AtWrite \in Nat /\ Taken \in Int /\ AtWrite <= Taken /\ Taken <= seq
  BY TakenBound DEF WriterOK, Types, MainTypes, WriterTypes, AtWrite
<1>2. wpc \in Busy => AtWrite = wseq /\ wseq \in Seqs /\ wseq < Taken
  BY WriterHasJob DEF WriterOK, AtWrite, Busy
<1>3. \A c \in Compressors : cpc[c] \in Having =>
        cjob[c] \in Seqs /\ AtWrite <= cjob[c] /\ cjob[c] < Taken
  BY ThreadHasJob DEF WorkOK
<1>4. \A c \in Compressors : cpc[c] \in Working /\ wpc \in Busy => cjob[c] # wseq
  BY DEF WorkOK
<1>5. (Making => seq \in Seqs) /\ \A n \in Seqs : n \in Nat
  BY DEF JobsOK, Seqs
<1> QED
  BY <1>1, <1>2, <1>3, <1>4, <1>5

(* Between streams there are no references.                                *)
LEMMA NothingHeld ==
  ASSUME Control, MainOK, wpc = "none"
  PROVE  /\ HeldCurr = Null /\ HeldNext = Null /\ hold = Null /\ HeldDict = Null
         /\ \A n \in Seqs : ~Present(n) /\ HeldIn(n) = Null /\ HeldOut(n) = Null /\ HeldLens(n) = Null
         /\ \A c \in Compressors : cpc[c] \notin Having /\ HeldCheck(c) = Null
<1>1. mpc \in {"idle", "joinall"}
  BY DEF Control, ThreadsOK
<1>2. HeldCurr = Null /\ HeldNext = Null /\ hold = Null /\ HeldDict = Null
  BY <1>1 DEF HeldCurr, HeldNext, HeldDict, MainOK
<1>3. \A c \in Compressors : cpc[c] \notin Having /\ HeldCheck(c) = Null
  BY NobodyWorks DEF HeldCheck, Having, Working
<1>4. wseq = seq /\ AtWrite = seq
  BY NobodyWorks DEF AtWrite
<1>5. \A n \in Seqs : ~Present(n)
  BY <1>1, <1>4, Numbers DEF Present, Making
<1> QED
  BY <1>2, <1>3, <1>5 DEF HeldIn, HeldOut, HeldLens

LEMMA StartRefs ==
  ASSUME Control, Control', References, Start
  PROVE  References'
<1> USE DEF References, Start
<1>1. wpc = "none"
  BY DEF Control, ThreadsOK
<1>2. AtWrite' = 0 /\ seq' = 0 /\ mpc' = "first" /\ UNCHANGED <<cpc, cjob, refs, jobs>> /\ Taken' <= 0 /\ Taken' \in Int
  <2>1. AtWrite' = 0 /\ seq' = 0 /\ mpc' = "first" /\ UNCHANGED <<cpc, cjob, refs, jobs>>
    BY DEF AtWrite, cVars, pools
  <2>2. Types'
    BY DEF Control
  <2>3. Taken' \in Int /\ Taken' <= seq'
    BY <2>2 DEF Types, ListTypes, MainTypes, Taken
  <2> QED
    BY <2>1, <2>3
<1>3. /\ HeldCurr' = Null /\ HeldNext' = Null /\ hold' = Null /\ HeldDict' = Null
  BY <1>2 DEF HeldCurr, HeldNext, HeldDict
<1>4. \A n \in Seqs : ~Present(n)'
  BY <1>2, Numbers DEF Present, Making
<1>5. \A n \in Seqs : HeldIn(n)' = Null /\ HeldOut(n)' = Null /\ HeldLens(n)' = Null
  BY <1>4 DEF HeldIn, HeldOut, HeldLens
<1>6. \A c \in Compressors : HeldCheck(c)' = HeldCheck(c)
  BY <1>2 DEF HeldCheck
<1>7. CountsOK' /\ MainAlone'
  BY <1>1, <1>2, <1>3, <1>5, <1>6, NothingHeld, SameReferences
<1>8. MainOK'
  BY <1>2, <1>3 DEF MainOK, Making
<1>9. SlotsOK'
  BY <1>2, Numbers DEF SlotsOK
<1> QED
  BY <1>7, <1>8, <1>9

LEMMA StreamEndRefs ==
  ASSUME Control, Control', References, JoinWriter \/ Finish \/ JoinAll
  PROVE  References'
<1> USE DEF References
<1>1. /\ mpc \in {"join", "idle", "joinall"} /\ mpc' \in {"idle", "joinall"}
      /\ UNCHANGED <<pools, jobs, seq, hold, dict, cjob, wseq>>
      /\ wpc \in {"none", "ended"} /\ wpc' = "none"
  BY DEF JoinWriter, Finish, JoinAll, cVars, wVars, Control, ThreadsOK
<1>2. AtWrite' = AtWrite /\ AtWrite = seq /\ Taken' <= seq /\ Taken' \in Int
  <2>1. Types'
    BY DEF Control
  <2>2. Taken' \in Int /\ Taken' <= seq'
    BY <2>1 DEF Types, ListTypes, MainTypes, Taken
  <2>3. AtWrite' = AtWrite /\ AtWrite = seq
    BY <1>1 DEF AtWrite, Control, WriterOK
  <2> QED
    BY <1>1, <2>2, <2>3
<1>3. \A c \in Compressors : cpc[c] \notin Having /\ cpc'[c] \notin Having
  <2>1. \A c \in Compressors : cpc[c] \notin Having
    BY <1>2, Numbers
  <2>2. cpc' = cpc \/ cpc' = [c \in Compressors |-> "none"]
    BY DEF JoinWriter, Finish, JoinAll, cVars
  <2> QED
    BY <2>1, <2>2 DEF Having, Working
<1>4. hold = Null /\ HeldCurr = Null /\ HeldNext = Null /\ HeldDict = Null
      /\ HeldCurr' = Null /\ HeldNext' = Null /\ hold' = Null /\ HeldDict' = Null
  BY <1>1 DEF HeldCurr, HeldNext, HeldDict, MainOK
<1>5. \A n \in Seqs : ~Present(n) /\ ~Present(n)'
  BY <1>1, <1>2, Numbers DEF Present, Making
<1>6. \A n \in Seqs : /\ HeldIn(n)' = HeldIn(n) /\ HeldOut(n)' = HeldOut(n) /\ HeldLens(n)' = HeldLens(n)
  BY <1>5 DEF HeldIn, HeldOut, HeldLens
<1>7. \A c \in Compressors : HeldCheck(c)' = HeldCheck(c)
  BY <1>3 DEF HeldCheck, Having, Working
<1>8. CountsOK' /\ MainAlone'
  BY <1>1, <1>4, <1>6, <1>7, SameReferences DEF pools
<1>9. MainOK'
  BY <1>1, <1>4 DEF MainOK, Making
<1>10. SlotsOK'
  BY <1>1, <1>2, Numbers DEF SlotsOK
<1> QED
  BY <1>8, <1>9, <1>10

LEMMA AppendJobRefs ==
  ASSUME Control, Control', References, AppendJob
  PROVE  References'
<1> USE DEF References, AppendJob
<1>1. /\ mpc = "append" /\ seq' = seq + 1 /\ mpc' = IF jobs[seq].more THEN "job" ELSE "end"
      /\ UNCHANGED <<refs, data, jobs, next, hold, dict, cjob, wpc, wseq, setup>>
  BY DEF pools, wVars
<1>2. \A c \in Compressors : cpc'[c] = cpc[c] \/ (cpc[c] \notin Having /\ cpc'[c] = "get")
  <2>1. CASE cpc' = cpc
    BY <2>1
  <2>2. CASE cpc' = [cpc EXCEPT ![cthreads + 1] = "get"]
    <3>1. cpc \in [Compressors -> ThreadStates] /\ cthreads \in Int
      BY DEF Control, Types, ThreadTypes, MainTypes
    <3>2. \A c \in Compressors : c = cthreads + 1 => cpc[c] = "none"
      BY <3>1 DEF Control, ThreadsOK, Compressors
    <3> QED
      BY <2>2, <3>1, <3>2 DEF Having, Working
  <2> QED
    BY <2>1, <2>2
<1>3. AtWrite' = AtWrite /\ Taken' = Taken
  <2>1. compressList \in Seq(Seqs \union {-1}) /\ setup \in BOOLEAN /\ seq \in Nat
    BY DEF Control, Types, ListTypes, MainTypes
  <2>2. seq \in Seqs
    BY <1>1, Numbers DEF Making
  <2>3. Len(compressList') = Len(compressList) + 1 /\ Len(compressList) \in Nat
    BY <2>1, <2>2
  <2>4. setup
    BY <1>1 DEF Control, ThreadsOK
  <2>5. InStream /\ InStream'
    BY <1>1, <2>4 DEF InStream
  <2> QED
    BY <1>1, <2>1, <2>3, <2>5 DEF AtWrite, Taken
<1>4. \A n \in Seqs : Present(n)' <=> Present(n)
  BY <1>1, <1>3, Numbers DEF Present, Making
<1>5. /\ HeldCurr' = HeldCurr /\ HeldNext' = HeldNext /\ HeldDict' = HeldDict
  BY <1>1 DEF HeldCurr, HeldNext, HeldDict
<1>6. \A n \in Seqs : /\ HeldIn(n)' = HeldIn(n) /\ HeldLens(n)' = HeldLens(n)
  BY <1>1, <1>4 DEF HeldIn, HeldLens
<1>7. \A n \in Seqs : HeldOut(n)' = HeldOut(n)
  BY <1>1, <1>2, <1>4 DEF HeldOut, Having, Working
<1>8. \A c \in Compressors : HeldCheck(c)' = HeldCheck(c)
  BY <1>1, <1>2 DEF HeldCheck, Having, Working
<1>9. CountsOK' /\ MainAlone'
  BY <1>1, <1>5, <1>6, <1>7, <1>8, SameReferences
<1>10. MainOK'
  BY <1>1 DEF MainOK, Making
<1>11. SlotsOK'
  BY <1>1, <1>2, <1>3 DEF SlotsOK, Having, Working
<1> QED
  BY <1>9, <1>10, <1>11

LEMMA GetJobRefs ==
  ASSUME Control, Control', References, NEW c \in Compressors, GetJob(c)
  PROVE  References'
<1> USE DEF References, GetJob
<1>1. /\ UNCHANGED <<refs, data, jobs, mpc, seq, curr, next, hold, left, dict, setup, wpc, wseq>>
      /\ cpc \in [Compressors -> ThreadStates] /\ cjob \in [Compressors -> Seqs \union {-1}]
      /\ cpc[c] = "get"
  BY DEF pools, mainVars, wVars, Control, Types, ThreadTypes
<1>2. \A d \in Compressors : /\ d # c => cpc'[d] = cpc[d] /\ cjob'[d] = cjob[d]
                             /\ cpc'[c] \in {"exited", "window"}
  BY <1>1
<1>3. AtWrite' = AtWrite
  BY <1>1 DEF AtWrite
<1>4. \A n \in Seqs : Present(n)' <=> Present(n)
  BY <1>1, <1>3 DEF Present, Making
<1>5. /\ HeldCurr' = HeldCurr /\ HeldNext' = HeldNext /\ HeldDict' = HeldDict /\ hold' = hold /\ refs' = refs
  BY <1>1 DEF HeldCurr, HeldNext, HeldDict
<1>6. \A n \in Seqs : /\ HeldIn(n)' = HeldIn(n) /\ HeldLens(n)' = HeldLens(n)
  BY <1>1, <1>4 DEF HeldIn, HeldLens
<1>7. \A n \in Seqs : HeldOut(n)' = HeldOut(n)
  <2>1. \A d \in Compressors, n \in Seqs : (cpc'[d] = "compress" => cjob'[d] # n) <=> (cpc[d] = "compress" => cjob[d] # n)
    BY <1>1, <1>2
  <2> QED
    BY <1>1, <1>4, <2>1 DEF HeldOut
<1>8. \A d \in Compressors : HeldCheck(d)' = HeldCheck(d)
  BY <1>1, <1>2 DEF HeldCheck
<1>9. CountsOK' /\ MainAlone'
  BY <1>5, <1>6, <1>7, <1>8, SameReferences
<1>10. MainOK'
  BY <1>1 DEF MainOK, Making
<1>11. SlotsOK'
  <2>1. CASE Head(compressList) = -1
    <3>1. mpc = "joinall"
      <4>1. Taken \in Nat
        BY Numbers
      <4> QED
        BY <2>1, <4>1, HeadOfList
    <3>2. compressList' = compressList
      BY <2>1 DEF cLists
    <3>3. Taken' = Taken
      BY <1>1, <3>1, <3>2 DEF Taken, InStream
    <3> QED
      BY <1>1, <1>2, <1>3, <3>3 DEF SlotsOK
  <2>2. CASE Head(compressList) # -1
    <3>1. InStream /\ Head(compressList) = Taken /\ compressList \in Seq(Seqs \union {-1})
      BY <2>2, HeadOfList DEF Control, Types, ListTypes
    <3>2. cjob'[c] = Taken /\ cpc'[c] = "window" /\ compressList' = Tail(compressList)
      BY <1>1, <2>2, <3>1
    <3>3. Len(compressList) \in Nat \ {0}
      BY HeadOfList
    <3>4. Len(compressList') = Len(compressList) - 1
      BY <3>1, <3>2, <3>3
    <3>5. Taken' = Taken + 1
      BY <1>1, <3>1, <3>3, <3>4, Numbers DEF Taken, InStream
    <3> SUFFICES ASSUME NEW n \in Seqs, AtWrite' <= n, n < Taken'
                 PROVE  \/ \E d \in Compressors : cjob'[d] = n /\ cpc'[d] \in {"window", "compress"}
                        \/ jobs'[n].lens = Null /\ jobs'[n].out \in OutPool
      BY DEF SlotsOK
    <3>6. CASE n = Taken
      BY <3>2, <3>6
    <3>7. CASE n < Taken
      BY <1>1, <1>2, <1>3, <3>7 DEF SlotsOK
    <3> QED
      BY <3>5, <3>6, <3>7, Numbers
  <2> QED
    BY <2>1, <2>2
<1> QED
  BY <1>9, <1>10, <1>11

LEMMA InsertRefs ==
  ASSUME Control, Control', References, NEW c \in Compressors, Insert(c) \/ Calculated(c)
  PROVE  References'
<1> USE DEF References
<1>1. /\ UNCHANGED <<refs, data, mpc, seq, curr, next, hold, left, dict, setup, compressList, wpc, wseq>>
      /\ cpc \in [Compressors -> ThreadStates] /\ cjob \in [Compressors -> Seqs \union {-1}]
      /\ jobs \in [Seqs -> Jobs]
      /\ cpc[c] \in {"insert", "calc"}
  BY DEF Insert, Calculated, pools, mainVars, wVars, cLists, Control, Types, ThreadTypes, JobTypes
<1>2. \A d \in Compressors : d # c => cpc'[d] = cpc[d] /\ cjob'[d] = cjob[d]
  BY <1>1 DEF Insert, Calculated
<1>3. AtWrite' = AtWrite /\ Taken' = Taken
  BY <1>1 DEF AtWrite, Taken, InStream
<1>4. \A n \in Seqs : Present(n)' <=> Present(n)
  BY <1>1, <1>3 DEF Present, Making
<1>5. \A n \in Seqs : /\ jobs'[n].in = jobs[n].in /\ jobs'[n].out = jobs[n].out
                      /\ jobs'[n].lens = jobs[n].lens /\ jobs'[n].more = jobs[n].more
  <2>1. CASE jobs' = jobs
    BY <2>1
  <2>2. CASE jobs' = [jobs EXCEPT ![cjob[c]].calc = TRUE]
    BY <1>1, <2>2 DEF Jobs
  <2> QED
    BY <2>1, <2>2 DEF Insert, Calculated
<1>6. /\ HeldCurr' = HeldCurr /\ HeldNext' = HeldNext /\ hold' = hold /\ refs' = refs
  BY <1>1 DEF HeldCurr, HeldNext
<1>7. HeldDict' = HeldDict
  BY <1>1, <1>5, Numbers DEF HeldDict, Making
<1>8. \A n \in Seqs : /\ HeldIn(n)' = HeldIn(n) /\ HeldLens(n)' = HeldLens(n)
  BY <1>1, <1>4, <1>5 DEF HeldIn, HeldLens
<1>9. \A d \in Compressors : cpc[d] \in {"window", "compress"} => cjob'[d] = cjob[d]
  BY <1>1, <1>2
<1>10. \A n \in Seqs : HeldOut(n)' = HeldOut(n)
  <2>1. \A d \in Compressors : cpc'[d] = "compress" <=> cpc[d] = "compress"
    BY <1>1, <1>2 DEF Insert, Calculated
  <2>2. \A d \in Compressors, n \in Seqs : (cpc'[d] = "compress" => cjob'[d] # n) <=> (cpc[d] = "compress" => cjob[d] # n)
    BY <1>9, <2>1
  <2> QED
    BY <1>1, <1>4, <1>5, <2>2 DEF HeldOut
<1>11. \A d \in Compressors : HeldCheck(d)' = HeldCheck(d)
  <2> SUFFICES ASSUME NEW d \in Compressors PROVE HeldCheck(d)' = HeldCheck(d)
    OBVIOUS
  <2>1. d # c => cpc'[d] = cpc[d] /\ cjob'[d] = cjob[d]
    BY <1>2
  <2>2. cpc[d] \in {"insert", "check"} => cjob[d] \in Seqs
    BY Numbers DEF Having, Working
  <2>3. CASE d # c
    BY <1>5, <2>1, <2>2, <2>3 DEF HeldCheck
  <2>4. CASE d = c /\ Insert(c)
    BY <1>1, <1>5, <2>2, <2>4 DEF HeldCheck, Insert
  <2>5. CASE d = c /\ Calculated(c)
    BY <1>1, <2>5 DEF HeldCheck, Calculated
  <2> QED
    BY <2>3, <2>4, <2>5
<1>12. CountsOK' /\ MainAlone'
  BY <1>6, <1>7, <1>8, <1>10, <1>11, SameReferences
<1>13. MainOK'
  BY <1>1, <1>5, Numbers DEF MainOK, Making
<1>14. SlotsOK'
  <2> SUFFICES ASSUME NEW n \in Seqs, AtWrite' <= n, n < Taken'
               PROVE  \/ \E d \in Compressors : cjob'[d] = n /\ cpc'[d] \in {"window", "compress"}
                      \/ jobs'[n].lens = Null /\ jobs'[n].out \in OutPool
    BY DEF SlotsOK
  <2>1. CASE jobs[n].lens = Null /\ jobs[n].out \in OutPool
    BY <1>5, <2>1
  <2>2. CASE \E d \in Compressors : cjob[d] = n /\ cpc[d] \in {"window", "compress"}
    <3>1. PICK d \in Compressors : cjob[d] = n /\ cpc[d] \in {"window", "compress"}
      BY <2>2
    <3>2. cpc'[d] = cpc[d] /\ cjob'[d] = cjob[d]
      BY <1>1, <1>2, <3>1
    <3> QED
      BY <3>1, <3>2
  <2> QED
    BY <1>3, <2>1, <2>2 DEF SlotsOK
<1> QED
  BY <1>12, <1>13, <1>14

(* What a step of the write thread leaves alone.                           *)
LEMMA WriterFrame ==
  ASSUME Control, Control', References, Writer
  PROVE  /\ UNCHANGED <<mpc, seq, curr, next, hold, left, dict, setup, compressList, cpc, cjob>>
         /\ Taken' = Taken
         /\ HeldCurr' = HeldCurr /\ HeldNext' = HeldNext /\ hold' = hold
<1>1. UNCHANGED <<mpc, seq, curr, next, hold, left, dict, setup, compressList, cpc, cjob>>
  BY DEF Writer, WriteHeader, TakeJob, TakeLength, WriteData, Combine, WriteTrailer, mainVars, cVars,
         cLists
<1> QED
  BY <1>1 DEF Taken, InStream, HeldCurr, HeldNext

LEMMA QuietWriterRefs ==
  ASSUME Control, Control', References, WriteHeader \/ TakeJob \/ WriteTrailer
  PROVE  References'
<1> USE DEF References
<1>1. /\ UNCHANGED <<mpc, seq, curr, next, hold, left, dict, setup, compressList, cpc, cjob>>
      /\ Taken' = Taken
      /\ HeldCurr' = HeldCurr /\ HeldNext' = HeldNext /\ hold' = hold
  BY WriterFrame DEF Writer
<1>2. UNCHANGED <<refs, data, jobs>> /\ AtWrite' = AtWrite
      /\ wpc \notin {"write", "combine"} /\ wpc' \notin {"write", "combine"}
  BY DEF WriteHeader, TakeJob, WriteTrailer, pools, AtWrite
<1>3. \A n \in Seqs : Present(n)' <=> Present(n)
  BY <1>1, <1>2 DEF Present, Making
<1>4. HeldDict' = HeldDict
  BY <1>1, <1>2 DEF HeldDict
<1>5. \A n \in Seqs : HeldIn(n)' = HeldIn(n) /\ HeldOut(n)' = HeldOut(n) /\ HeldLens(n)' = HeldLens(n)
  BY <1>1, <1>2, <1>3 DEF HeldIn, HeldOut, HeldLens
<1>6. \A c \in Compressors : HeldCheck(c)' = HeldCheck(c)
  BY <1>1, <1>2 DEF HeldCheck
<1>7. CountsOK' /\ MainAlone'
  BY <1>1, <1>2, <1>4, <1>5, <1>6, SameReferences
<1>8. MainOK' /\ SlotsOK'
  BY <1>1, <1>2 DEF MainOK, SlotsOK, Making
<1> QED
  BY <1>7, <1>8

(* A compressed job has neither a dictionary nor a list of lengths.        *)
LEMMA WrittenIsCompressed ==
  ASSUME Control, References, wpc \in Busy
  PROVE  /\ wseq \in Seqs /\ jobs[wseq].lens = Null /\ jobs[wseq].out \in OutPool
         /\ jobs[wseq].in \in InPool
         /\ Present(wseq) /\ wseq # seq /\ \A c \in Compressors : cpc[c] \in Working => cjob[c] # wseq
<1>1. AtWrite = wseq /\ wseq \in Seqs /\ wseq < Taken /\ wseq \in Nat /\ wseq < seq
  BY Numbers
<1>2. \A c \in Compressors : cpc[c] \in Working => cjob[c] # wseq
  BY Numbers
<1>3. jobs[wseq].lens = Null /\ jobs[wseq].out \in OutPool
  <2>1. AtWrite <= wseq
    BY <1>1
  <2> QED
    BY <1>1, <1>2, <2>1 DEF References, SlotsOK, Working
<1>4. Present(wseq) /\ wseq # seq
  BY <1>1, Numbers DEF Present
<1>5. jobs[wseq].in \in InPool
  BY WriterHasJob DEF Control
<1> QED
  BY <1>1, <1>2, <1>3, <1>4, <1>5

LEMMA CombineRefs ==
  ASSUME Control, Control', References, Combine
  PROVE  References'
<1> USE DEF References
<1>1. /\ UNCHANGED <<mpc, seq, curr, next, hold, left, dict, setup, compressList, cpc, cjob>>
      /\ Taken' = Taken
      /\ HeldCurr' = HeldCurr /\ HeldNext' = HeldNext /\ hold' = hold
  BY WriterFrame DEF Writer
<1>2. /\ wpc = "combine" /\ UNCHANGED <<refs, data>> /\ jobs' = [jobs EXCEPT ![wseq] = NoJob]
      /\ wseq' = wseq + 1 /\ wpc' \in {"get", "trailer"} /\ jobs[wseq].calc /\ jobs \in [Seqs -> Jobs]
  BY DEF Combine, pools, CalcReady, Control, Types, JobTypes
<1>3. /\ wseq \in Seqs /\ jobs[wseq].lens = Null /\ Present(wseq) /\ wseq # seq
      /\ \A c \in Compressors : cpc[c] \in Working => cjob[c] # wseq
  BY <1>2, WrittenIsCompressed DEF Busy
<1>4. AtWrite = wseq /\ AtWrite' = wseq + 1 /\ wseq \in Nat
  BY <1>2, <1>3, Numbers DEF AtWrite
<1>5. \A n \in Seqs : n # wseq => jobs'[n] = jobs[n]
  BY <1>2
<1>6. \A n \in Seqs : Present(n)' <=> Present(n) /\ n # wseq
  BY <1>1, <1>4, Numbers DEF Present, Making
<1>7. HeldDict' = HeldDict
  BY <1>1, <1>3, <1>5, Numbers DEF HeldDict, Making
<1>8. ASSUME NEW n \in Seqs
      PROVE  HeldIn(n)' = HeldIn(n) /\ HeldOut(n)' = HeldOut(n) /\ HeldLens(n)' = HeldLens(n)
  <2>1. CASE n = wseq
    <3>1. ~Present(n)'
      BY <1>6, <2>1
    <3> QED
      BY <1>2, <1>3, <2>1, <3>1 DEF HeldIn, HeldOut, HeldLens
  <2>2. CASE n # wseq
    BY <1>1, <1>2, <1>5, <1>6, <2>2 DEF HeldIn, HeldOut, HeldLens
  <2> QED
    BY <2>1, <2>2
<1>9. ASSUME NEW c \in Compressors PROVE HeldCheck(c)' = HeldCheck(c)
  <2>1. CASE cpc[c] \in {"insert", "check"}
    <3>1. cjob[c] \in Seqs /\ ~jobs[cjob[c]].calc
      BY <2>1, Numbers DEF Control, WorkOK, Having, Working
    <3>2. cjob[c] # wseq
      BY <1>2, <3>1
    <3> QED
      BY <1>1, <1>5, <3>1, <3>2 DEF HeldCheck
  <2>2. CASE cpc[c] \notin {"insert", "check"}
    BY <1>1, <2>2 DEF HeldCheck
  <2> QED
    BY <2>1, <2>2
<1>10. CountsOK' /\ MainAlone'
  BY <1>1, <1>2, <1>7, <1>8, <1>9, SameReferences
<1>11. MainOK'
  BY <1>1, <1>2, <1>3, <1>5, Numbers DEF MainOK, Making
<1>12. SlotsOK'
  <2>1. \A n \in Seqs : AtWrite' <= n => AtWrite <= n /\ n # wseq
    BY <1>4, Numbers
  <2> QED
    BY <1>1, <1>5, <2>1 DEF SlotsOK
<1> QED
  BY <1>10, <1>11, <1>12

(* What main has is still there when others have dropped references.       *)
LEMMA NextKept ==
  ASSUME Control, MainOK, CountsOK', UNCHANGED <<mpc, next, hold>>, mpc = "dict",
         NEW d, data' = Kept(refs', d), d[next] = data[next]
  PROVE  data'[next] = data[next]
<1>1. next \in InPool /\ next # Null
  BY DEF Control, BuffersOK, Types, MainTypes
<1>2. next \in Spaces
  BY <1>1, PoolsApart
<1>3. held'[<<"next", 0>>] = next
  <2>1. HeldNext' = next
    BY DEF HeldNext
  <2>2. (held[<<"next", 0>>] = HeldNext)'
    <3>1. <<"next", 0>> \in Tokens
      BY TokenKinds
    <3> QED
      BY <3>1 DEF held
  <2> QED
    BY <2>1, <2>2
<1>4. refs'[next] # 0
  <2>1. Counts(refs', held') /\ <<"next", 0>> \in Tokens
    BY TokenKinds DEF CountsOK
  <2> QED
    BY <1>2, <1>3, <2>1, NotInUse
<1> QED
  BY <1>2, <1>4 DEF Kept

LEMMA DropWriterRefs ==
  ASSUME Control, Control', References, TakeLength \/ WriteData
  PROVE  References'
<1> USE DEF References
<1>1. /\ UNCHANGED <<mpc, seq, curr, next, hold, left, dict, setup, compressList, cpc, cjob>>
      /\ Taken' = Taken
      /\ HeldCurr' = HeldCurr /\ HeldNext' = HeldNext /\ hold' = hold
  BY WriterFrame DEF Writer
<1>2. /\ UNCHANGED <<jobs, wseq>> /\ data' = Kept(refs', data) /\ AtWrite' = AtWrite
      /\ wpc \in {"length", "write"} /\ wpc \in Busy
      /\ refs \in [Spaces -> Int]
  BY DEF TakeLength, WriteData, AtWrite, Busy, Control, Types, PoolTypes
<1>3. /\ wseq \in Seqs /\ jobs[wseq].out \in Spaces /\ jobs[wseq].in \in Spaces /\ Present(wseq)
      /\ \A c \in Compressors : cpc[c] = "compress" => cjob[c] # wseq
  BY <1>2, WrittenIsCompressed, PoolsApart DEF Working
<1>4. \A n \in Seqs : Present(n)' <=> Present(n)
  BY <1>1, <1>2 DEF Present, Making
<1>5. HeldDict' = HeldDict /\ \A c \in Compressors : HeldCheck(c)' = HeldCheck(c)
  BY <1>1, <1>2 DEF HeldDict, HeldCheck
<1>6. \A n \in Seqs : HeldLens(n)' = HeldLens(n)
  BY <1>2, <1>4 DEF HeldLens
<1>7. CountsOK' /\ MainAlone'
  <2> DEFINE k == IF wpc = "length" THEN <<"in", wseq>> ELSE <<"out", wseq>>
             g == With(held, k, Null)
  <2>1. k \in Tokens
    BY <1>3, TokenKinds
  <2>2. held[k] = (IF wpc = "length" THEN jobs[wseq].in ELSE jobs[wseq].out)
    <3>1. wpc = "length" => HeldIn(wseq) = jobs[wseq].in
      BY <1>3 DEF HeldIn
    <3>2. wpc = "write" => HeldOut(wseq) = jobs[wseq].out
      BY <1>3 DEF HeldOut
    <3> QED
      BY <1>2, <1>3, <3>1, <3>2, HeldValues
  <2>3. refs' = Dropped(refs, held[k]) /\ held[k] \in Spaces
    BY <1>2, <1>3, <2>2 DEF TakeLength, WriteData
  <2>4. \A h \in Tokens : g[h] = IF h = k THEN Null ELSE held[h]
    BY DEF With
  <2>5. Counts(refs', g) /\ \A j \in Tokens : Alone(held, j) => Alone(g, j)
    <3> HIDE DEF k
    <3> QED
      BY <1>2, <2>1, <2>3, TakeAway DEF CountsOK
  <2>6. ASSUME NEW n \in Seqs PROVE g[<<"in", n>>] = HeldIn(n)' /\ g[<<"out", n>>] = HeldOut(n)'
    <3>1. CASE TakeLength
      <4>1. wpc = "length" /\ wpc' = "write"
        BY <3>1 DEF TakeLength
      <4>2. HeldIn(n)' = IF n = wseq THEN Null ELSE HeldIn(n)
        BY <1>1, <1>2, <1>4, <4>1 DEF HeldIn
      <4>3. HeldOut(n)' = HeldOut(n)
        BY <1>1, <1>2, <1>4, <4>1 DEF HeldOut
      <4> QED
        BY <2>4, <4>1, <4>2, <4>3, TokenKinds, HeldValues
    <3>2. CASE WriteData
      <4>1. wpc = "write" /\ wpc' = "combine"
        BY <3>2 DEF WriteData
      <4>2. HeldIn(n)' = HeldIn(n)
        BY <1>1, <1>2, <1>4, <4>1 DEF HeldIn
      <4>3. HeldOut(n)' = IF n = wseq THEN Null ELSE HeldOut(n)
        BY <1>1, <1>2, <1>4, <4>1 DEF HeldOut
      <4> QED
        BY <2>4, <4>1, <4>2, <4>3, TokenKinds, HeldValues
    <3> QED
      BY <3>1, <3>2
  <2>7. \A h \in Tokens : h[1] \notin {"in", "out"} => g[h] = held[h]
    BY <2>4
  <2>8. /\ g[<<"curr", 0>>] = HeldCurr' /\ g[<<"next", 0>>] = HeldNext'
        /\ g[<<"hold", 0>>] = hold' /\ g[<<"dict", 0>>] = HeldDict'
    BY <1>1, <1>5, <2>7, TokenKinds, HeldValues
  <2>9. ASSUME NEW n \in Seqs PROVE g[<<"lens", n>>] = HeldLens(n)'
    <3>1. g[<<"lens", n>>] = held[<<"lens", n>>]
      BY <2>4, TokenKinds
    <3> QED
      BY <1>6, <3>1, HeldValues
  <2>10. ASSUME NEW c \in Compressors PROVE g[<<"check", c>>] = HeldCheck(c)'
    <3>1. g[<<"check", c>>] = held[<<"check", c>>]
      BY <2>4, TokenKinds
    <3> QED
      BY <1>5, <3>1, HeldValues
  <2>11. Alone(g, <<"curr", 0>>) /\ Alone(g, <<"next", 0>>) /\ Alone(g, <<"hold", 0>>)
    BY <2>5, TokenKinds DEF MainAlone
  <2> HIDE DEF g
  <2> QED
    BY <2>5, <2>6, <2>8, <2>9, <2>10, <2>11, ReferencesAre
<1>8. MainOK'
  <2>1. mpc = "dict" => data'[next] = data[next]
    BY <1>1, <1>2, <1>7, NextKept
  <2> QED
    BY <1>1, <1>2, <2>1 DEF MainOK, Making
<1>9. SlotsOK'
  BY <1>1, <1>2 DEF SlotsOK
<1> QED
  BY <1>7, <1>8, <1>9

(* A compress thread that drops the dictionary, or the input it has        *)
(* checked.                                                                *)
LEMMA DropThreadRefs ==
  ASSUME Control, Control', References, NEW c \in Compressors, SetDictionary(c) \/ Check(c)
  PROVE  References'
<1> USE DEF References
<1> DEFINE n == cjob[c]
<1>1. /\ UNCHANGED <<mpc, seq, curr, next, hold, left, dict, setup, compressList, cjob, wpc, wseq>>
      /\ data' = Kept(refs', data) /\ cpc[c] \in {"window", "check"} /\ cpc[c] \in Having
      /\ refs \in [Spaces -> Int] /\ jobs \in [Seqs -> Jobs] /\ cpc \in [Compressors -> ThreadStates]
  BY DEF SetDictionary, Check, mainVars, wVars, cLists, Control, Types, PoolTypes, JobTypes, ThreadTypes,
         Having, Working
<1>2. \A d \in Compressors : d # c => cpc'[d] = cpc[d]
  BY <1>1 DEF SetDictionary, Check
<1>3. /\ n \in Seqs /\ AtWrite <= n /\ n < Taken /\ n < seq /\ n \in Nat
      /\ cpc[c] = "window" /\ wpc \in Busy => n # wseq
      /\ jobs[n].in \in Spaces \union {Null} /\ jobs[n].out \in Spaces \union {Null}
  <2>1. n \in Seqs /\ AtWrite <= n /\ n < Taken /\ n < seq /\ n \in Nat
    BY <1>1, Numbers
  <2>2. cpc[c] = "window" /\ wpc \in Busy => n # wseq
    BY Numbers DEF Working
  <2>3. jobs[n].in \in Spaces \union {Null} /\ jobs[n].out \in Spaces \union {Null}
    BY <1>1, <2>1, PoolsApart DEF Jobs
  <2> QED
    BY <2>1, <2>2, <2>3
<1>4. \A d \in Compressors : d # c /\ cpc[d] \in Having => cjob[d] # n
  BY <1>1 DEF Control, WorkOK
<1>5. AtWrite' = AtWrite /\ Taken' = Taken
  BY <1>1 DEF AtWrite, Taken, InStream
<1>6. \A m \in Seqs : Present(m)' <=> Present(m)
  BY <1>1, <1>5 DEF Present, Making
<1>7. \A m \in Seqs : /\ jobs'[m].in = jobs[m].in /\ jobs'[m].out = jobs[m].out
                      /\ jobs'[m].lens = jobs[m].lens /\ jobs'[m].more = jobs[m].more
  <2>1. CASE jobs' = jobs
    BY <2>1
  <2>2. CASE \E x : jobs' = [jobs EXCEPT ![cjob[c]].check = x]
    BY <1>1, <2>2 DEF Jobs
  <2> QED
    BY <2>1, <2>2 DEF SetDictionary, Check
<1>8. /\ HeldCurr' = HeldCurr /\ HeldNext' = HeldNext /\ hold' = hold
  BY <1>1 DEF HeldCurr, HeldNext
<1>9. HeldDict' = HeldDict
  BY <1>1, <1>7, Numbers DEF HeldDict, Making
<1>10. \A m \in Seqs : /\ HeldIn(m)' = HeldIn(m) /\ HeldLens(m)' = HeldLens(m)
  BY <1>1, <1>6, <1>7 DEF HeldIn, HeldLens
<1>11. CountsOK' /\ MainAlone'
  <2> DEFINE k == IF cpc[c] = "window" THEN <<"out", n>> ELSE <<"check", c>>
             g == With(held, k, Null)
  <2>1. k \in Tokens
    BY <1>3, TokenKinds
  <2>2. held[k] = (IF cpc[c] = "window" THEN jobs[n].out ELSE jobs[n].in)
    <3>1. cpc[c] = "window" => HeldOut(n) = jobs[n].out
      <4> SUFFICES ASSUME cpc[c] = "window" PROVE HeldOut(n) = jobs[n].out
        OBVIOUS
      <4>1. Present(n)
        BY <1>3 DEF Present
      <4>2. ~(n = wseq /\ wpc = "combine")
        BY <1>3 DEF Busy
      <4>3. \A d \in Compressors : cpc[d] = "compress" => cjob[d] # n
        BY <1>4 DEF Having, Working
      <4> QED
        BY <4>1, <4>2, <4>3 DEF HeldOut
    <3>2. cpc[c] = "check" => HeldCheck(c) = jobs[n].in
      BY DEF HeldCheck
    <3> QED
      BY <1>1, <1>3, <3>1, <3>2, HeldValues
  <2>3. refs' = Dropped(refs, held[k]) /\ held[k] \in Spaces \union {Null}
    BY <1>1, <1>3, <2>2 DEF SetDictionary, Check
  <2>4. \A h \in Tokens : g[h] = IF h = k THEN Null ELSE held[h]
    BY DEF With
  <2>5. Counts(refs', g) /\ \A j \in Tokens : Alone(held, j) => Alone(g, j)
    <3> HIDE DEF k
    <3> QED
      BY <1>1, <2>1, <2>3, TakeAway DEF CountsOK
  <2>6. ASSUME NEW m \in Seqs PROVE g[<<"out", m>>] = HeldOut(m)'
    <3>1. CASE cpc[c] = "window"
      <4>1. cpc'[c] = "compress"
        BY <1>1, <3>1 DEF SetDictionary, Check
      <4>2. CASE m = n
        <5>1. HeldOut(m)' = Null
          BY <1>1, <4>1, <4>2 DEF HeldOut
        <5> QED
          BY <2>4, <3>1, <4>2, <5>1, TokenKinds
      <4>3. CASE m # n
        <5>1. \A d \in Compressors : (cpc'[d] = "compress" => cjob'[d] # m) <=> (cpc[d] = "compress" => cjob[d] # m)
          BY <1>1, <1>2, <4>3
        <5>2. HeldOut(m)' = HeldOut(m)
          BY <1>1, <1>6, <1>7, <5>1 DEF HeldOut
        <5> QED
          BY <2>4, <3>1, <4>3, <5>2, TokenKinds, HeldValues
      <4> QED
        BY <4>2, <4>3
    <3>2. CASE cpc[c] = "check"
      <4>1. cpc'[c] = "calc"
        BY <1>1, <3>2 DEF SetDictionary, Check
      <4>2. \A d \in Compressors : (cpc'[d] = "compress" => cjob'[d] # m) <=> (cpc[d] = "compress" => cjob[d] # m)
        BY <1>1, <1>2, <3>2, <4>1
      <4>3. HeldOut(m)' = HeldOut(m)
        BY <1>1, <1>6, <1>7, <4>2 DEF HeldOut
      <4> QED
        BY <2>4, <3>2, <4>3, TokenKinds, HeldValues
    <3> QED
      BY <1>1, <3>1, <3>2
  <2>7. ASSUME NEW d \in Compressors PROVE g[<<"check", d>>] = HeldCheck(d)'
    <3>1. cpc[d] \in {"insert", "check"} => cjob[d] \in Seqs
      BY Numbers DEF Having, Working
    <3>2. CASE d # c
      <4>1. HeldCheck(d)' = HeldCheck(d)
        BY <1>1, <1>2, <1>7, <3>1, <3>2 DEF HeldCheck
      <4> QED
        BY <2>4, <3>2, <4>1, TokenKinds, HeldValues
    <3>3. CASE d = c /\ cpc[c] = "window"
      <4>1. cpc'[c] = "compress"
        BY <1>1, <3>3 DEF SetDictionary, Check
      <4>2. HeldCheck(d)' = HeldCheck(d)
        BY <3>3, <4>1 DEF HeldCheck
      <4> QED
        BY <2>4, <3>3, <4>2, TokenKinds, HeldValues
    <3>4. CASE d = c /\ cpc[c] = "check"
      <4>1. cpc'[c] = "calc"
        BY <1>1, <3>4 DEF SetDictionary, Check
      <4>2. HeldCheck(d)' = Null
        BY <3>4, <4>1 DEF HeldCheck
      <4> QED
        BY <2>4, <3>4, <4>2, TokenKinds
    <3> QED
      BY <1>1, <3>2, <3>3, <3>4
  <2>8. /\ g[<<"curr", 0>>] = HeldCurr' /\ g[<<"next", 0>>] = HeldNext'
        /\ g[<<"hold", 0>>] = hold' /\ g[<<"dict", 0>>] = HeldDict'
    BY <1>8, <1>9, <2>4, TokenKinds, HeldValues
  <2>9. ASSUME NEW m \in Seqs PROVE g[<<"in", m>>] = HeldIn(m)' /\ g[<<"lens", m>>] = HeldLens(m)'
    <3>1. g[<<"in", m>>] = held[<<"in", m>>] /\ g[<<"lens", m>>] = held[<<"lens", m>>]
      BY <2>4, TokenKinds
    <3> QED
      BY <1>10, <3>1, HeldValues
  <2>10. Alone(g, <<"curr", 0>>) /\ Alone(g, <<"next", 0>>) /\ Alone(g, <<"hold", 0>>)
    BY <2>5, TokenKinds DEF MainAlone
  <2> HIDE DEF g
  <2> QED
    BY <2>5, <2>6, <2>7, <2>8, <2>9, <2>10, ReferencesAre
<1>12. MainOK'
  <2>1. mpc = "dict" => data'[next] = data[next]
    BY <1>1, <1>11, NextKept
  <2> QED
    BY <1>1, <1>7, <2>1, Numbers DEF MainOK, Making
<1>13. SlotsOK'
  <2> SUFFICES ASSUME NEW m \in Seqs, AtWrite' <= m, m < Taken'
               PROVE  \/ \E d \in Compressors : cjob'[d] = m /\ cpc'[d] \in {"window", "compress"}
                      \/ jobs'[m].lens = Null /\ jobs'[m].out \in OutPool
    BY DEF SlotsOK
  <2>1. CASE jobs[m].lens = Null /\ jobs[m].out \in OutPool
    BY <1>7, <2>1
  <2>2. CASE \E d \in Compressors : cjob[d] = m /\ cpc[d] \in {"window", "compress"}
    <3>1. PICK d \in Compressors : cjob[d] = m /\ cpc[d] \in {"window", "compress"}
      BY <2>2
    <3>2. cpc'[d] \in {"window", "compress"} /\ cjob'[d] = cjob[d]
      BY <1>1, <1>2, <3>1 DEF SetDictionary, Check
    <3> QED
      BY <3>1, <3>2
  <2> QED
    BY <1>5, <2>1, <2>2 DEF SlotsOK
<1> QED
  BY <1>11, <1>12, <1>13

(* A compress thread that has an output buffer drops the lengths and       *)
(* reserves the input.                                                     *)
LEMMA CompressDataRefs ==
  ASSUME Control, Control', References, NEW c \in Compressors, CompressData(c)
  PROVE  References'
<1> USE DEF References
<1>0. PICK n, o, in, lens : n = cjob[c] /\ o = First(OutPool) /\ in = jobs[n].in /\ lens = jobs[n].lens
  OBVIOUS
<1> USE <1>0
<1>1. /\ UNCHANGED <<mpc, seq, curr, next, hold, left, dict, setup, compressList, cjob, wpc, wseq>>
      /\ cpc[c] = "compress" /\ cpc[c] \in Having
      /\ refs \in [Spaces -> Int] /\ jobs \in [Seqs -> Jobs] /\ cpc \in [Compressors -> ThreadStates]
  BY DEF CompressData, mainVars, wVars, cLists, Control, Types, PoolTypes, JobTypes, ThreadTypes,
         Having, Working
<1>2. cpc'[c] = "insert" /\ \A d \in Compressors : d # c => cpc'[d] = cpc[d]
  BY <1>1 DEF CompressData
<1>3. /\ n \in Seqs /\ AtWrite <= n /\ n < Taken /\ n < seq /\ n \in Nat
      /\ wpc \in Busy => n # wseq
      /\ in \in InPool /\ lens \in LensPool \union {Null}
  <2>1. n \in Seqs /\ AtWrite <= n /\ n < Taken /\ n < seq /\ n \in Nat
    BY <1>1, Numbers
  <2>2. wpc \in Busy => n # wseq
    BY <1>1, Numbers DEF Working
  <2>3. in \in InPool
    BY <1>1, ThreadHasJob DEF Control
  <2>4. lens \in LensPool \union {Null}
    BY <1>1, <2>1 DEF Jobs
  <2> QED
    BY <2>1, <2>2, <2>3, <2>4
<1>4. \A d \in Compressors : d # c /\ cpc[d] \in Having => cjob[d] # n
  BY <1>1 DEF Control, WorkOK
<1>5. AtWrite' = AtWrite /\ Taken' = Taken
  BY <1>1 DEF AtWrite, Taken, InStream
<1>6. \A m \in Seqs : Present(m)' <=> Present(m)
  BY <1>1, <1>5 DEF Present, Making
<1>7. o \in OutPool /\ refs[o] = 0 /\ o \in Spaces
  BY FreshBuffers, PoolsApart DEF CompressData
<1>8. /\ refs' = Used(Dropped(Used(refs, o), lens), in)
      /\ \E h : data' = Kept(refs', [data EXCEPT ![o] = h])
      /\ jobs' = [jobs EXCEPT ![n] = [[jobs[n] EXCEPT !.out = o] EXCEPT !.lens = Null]]
  <2>1. refs' = Used(Dropped(Used(refs, o), lens), in)
    BY DEF CompressData, Reserve
  <2>2. \E h : data' = Kept(refs', [data EXCEPT ![o] = h])
    BY DEF CompressData
  <2>3. jobs' = [jobs EXCEPT ![cjob[c]].out = o, ![cjob[c]].lens = Null]
    BY DEF CompressData
  <2>4. jobs' = [jobs EXCEPT ![n] = [[jobs[n] EXCEPT !.out = o] EXCEPT !.lens = Null]]
    BY <1>1, <1>3, <2>3
  <2> QED
    BY <2>1, <2>2, <2>4
<1>9. /\ \A m \in Seqs : m # n => jobs'[m] = jobs[m]
      /\ jobs'[n].in = in /\ jobs'[n].out = o /\ jobs'[n].lens = Null
  BY <1>1, <1>3, <1>8 DEF Jobs
<1>10. /\ HeldCurr' = HeldCurr /\ HeldNext' = HeldNext /\ hold' = hold
  BY <1>1 DEF HeldCurr, HeldNext
<1>11. HeldDict' = HeldDict
  BY <1>1, <1>3, <1>9, Numbers DEF HeldDict, Making
<1>12. Present(n)
  BY <1>3 DEF Present
<1>13. CountsOK' /\ MainAlone'
  <2> DEFINE k1 == <<"out", n>>
             k2 == <<"lens", n>>
             k3 == <<"check", c>>
             f1 == With(held, k1, o)
             f2 == With(f1, k2, Null)
             g == With(f2, k3, in)
  <2>1. k1 \in Tokens /\ k2 \in Tokens /\ k3 \in Tokens
    BY <1>3, TokenKinds
  <2>2. \A h \in Tokens : g[h] = IF h = k3 THEN in ELSE IF h = k2 THEN Null
                                 ELSE IF h = k1 THEN o ELSE held[h]
    BY DEF With
  <2>3. held[k1] = Null /\ held[k2] = lens /\ held[k3] = Null /\ held[<<"in", n>>] = in
    <3>1. HeldOut(n) = Null
      BY <1>1 DEF HeldOut
    <3>2. HeldLens(n) = lens
      BY <1>12 DEF HeldLens
    <3>3. HeldCheck(c) = Null
      BY <1>1 DEF HeldCheck
    <3>4. HeldIn(n) = in
      BY <1>3, <1>12 DEF HeldIn, Busy
    <3> QED
      BY <1>3, <3>1, <3>2, <3>3, <3>4, HeldValues
  <2>4. Counts(refs, held) /\ \A h \in Tokens : held[h] # o
    BY <1>7, NotInUse DEF CountsOK
  <2>5. /\ Counts(Used(refs, o), f1)
        /\ \A j \in Tokens : j # k1 /\ Alone(held, j) => Alone(f1, j)
    <3> HIDE DEF k1
    <3> QED
      BY <1>1, <1>7, <2>1, <2>3, <2>4, Put
  <2>6. Used(refs, o) \in [Spaces -> Int]
    BY <1>1, <1>7, UseTypes
  <2>7. f1[k2] = lens /\ lens \in Spaces \union {Null}
    BY <1>3, <2>1, <2>3, PoolsApart DEF With
  <2>8. /\ Counts(Dropped(Used(refs, o), lens), f2)
        /\ \A j \in Tokens : Alone(f1, j) => Alone(f2, j)
    <3> HIDE DEF k1, k2, f1
    <3> QED
      BY <2>1, <2>5, <2>6, <2>7, TakeAway
  <2>9. Dropped(Used(refs, o), lens) \in [Spaces -> Int]
    BY <2>6, <2>7, UseTypes
  <2>10. f2[k3] = Null /\ in \in Spaces
    BY <1>3, <2>1, <2>3, PoolsApart DEF With
  <2>11. /\ Counts(refs', g)
         /\ \A j \in Tokens : j # k3 /\ Alone(f2, j) /\ f2[j] # in => Alone(g, j)
    <3> HIDE DEF k1, k2, k3, f1, f2
    <3> QED
      BY <1>8, <2>1, <2>8, <2>9, <2>10, Put
  <2>12. ASSUME NEW j \in {<<"curr", 0>>, <<"next", 0>>, <<"hold", 0>>} PROVE Alone(g, j)
    <3>0. j \in Tokens /\ <<"in", n>> \in Tokens /\ j[1] \in {"curr", "next", "hold"}
      <4>1. <<"curr", 0>>[1] = "curr" /\ <<"next", 0>>[1] = "next" /\ <<"hold", 0>>[1] = "hold"
        OBVIOUS
      <4>2. j = <<"curr", 0>> \/ j = <<"next", 0>> \/ j = <<"hold", 0>>
        OBVIOUS
      <4>3. j[1] \in {"curr", "next", "hold"}
        BY ONLY <4>1, <4>2
      <4>4. j \in Tokens
        BY ONLY <4>2, TokenKinds
      <4> QED
        BY <1>3, <4>3, <4>4, TokenKinds
    <3>1. j \in Tokens /\ j # k1 /\ j # k2 /\ j # k3 /\ j # <<"in", n>> /\ <<"in", n>> \in Tokens
      BY <3>0
    <3>2. Alone(held, j)
      BY DEF MainAlone
    <3>3. held[j] # in
      BY <2>3, <2>10, <3>1, <3>2, PoolsApart DEF Alone
    <3>4. f2[j] = held[j]
      BY <3>1 DEF With
    <3> HIDE DEF g, f1, f2, k1, k2, k3
    <3> QED
      BY <2>5, <2>8, <2>11, <3>1, <3>2, <3>3, <3>4
  <2>13. ASSUME NEW m \in Seqs
         PROVE  g[<<"in", m>>] = HeldIn(m)' /\ g[<<"out", m>>] = HeldOut(m)' /\ g[<<"lens", m>>] = HeldLens(m)'
    <3>1. CASE m = n
      <4>1. HeldIn(n)' = in
        BY <1>1, <1>3, <1>6, <1>9, <1>12 DEF HeldIn, Busy
      <4>2. HeldOut(n)' = o
        <5>1. \A d \in Compressors : cpc'[d] = "compress" => cjob'[d] # n
          BY <1>1, <1>2, <1>4 DEF Having, Working
        <5>2. ~(n = wseq' /\ wpc' = "combine")
          BY <1>1, <1>3 DEF Busy
        <5> QED
          BY <1>3, <1>6, <1>9, <1>12, <5>1, <5>2 DEF HeldOut
      <4>3. HeldLens(n)' = Null
        BY <1>3, <1>6, <1>9, <1>12 DEF HeldLens
      <4> QED
        BY <2>2, <2>3, <3>1, <4>1, <4>2, <4>3, TokenKinds
    <3>2. CASE m # n
      <4>1. HeldIn(m)' = HeldIn(m) /\ HeldLens(m)' = HeldLens(m)
        BY <1>1, <1>6, <1>9, <3>2 DEF HeldIn, HeldLens
      <4>2. \A d \in Compressors : (cpc'[d] = "compress" => cjob'[d] # m) <=> (cpc[d] = "compress" => cjob[d] # m)
        BY <1>1, <1>2, <3>2
      <4>3. HeldOut(m)' = HeldOut(m)
        BY <1>1, <1>6, <1>9, <3>2, <4>2 DEF HeldOut
      <4>4. /\ g[<<"in", m>>] = held[<<"in", m>>] /\ g[<<"out", m>>] = held[<<"out", m>>]
            /\ g[<<"lens", m>>] = held[<<"lens", m>>]
        BY <2>2, <3>2, TokenKinds
      <4> QED
        BY <4>1, <4>3, <4>4, HeldValues
    <3> QED
      BY <3>1, <3>2
  <2>14. ASSUME NEW d \in Compressors PROVE g[<<"check", d>>] = HeldCheck(d)'
    <3>1. cpc[d] \in {"insert", "check"} => cjob[d] \in Seqs
      BY Numbers DEF Having, Working
    <3>2. CASE d # c
      <4>1. cpc[d] \in {"insert", "check"} => cjob[d] # n
        BY <1>4, <3>2 DEF Having, Working
      <4>2. HeldCheck(d)' = HeldCheck(d)
        BY <1>1, <1>2, <1>9, <3>1, <3>2, <4>1 DEF HeldCheck
      <4>3. g[<<"check", d>>] = held[<<"check", d>>]
        BY <2>2, <3>2, TokenKinds
      <4> QED
        BY <4>2, <4>3, HeldValues
    <3>3. CASE d = c
      <4>1. HeldCheck(c)' = in
        BY <1>1, <1>2, <1>9 DEF HeldCheck
      <4> QED
        BY <2>2, <3>3, <4>1, TokenKinds
    <3> QED
      BY <3>2, <3>3
  <2>15. /\ g[<<"curr", 0>>] = HeldCurr' /\ g[<<"next", 0>>] = HeldNext'
         /\ g[<<"hold", 0>>] = hold' /\ g[<<"dict", 0>>] = HeldDict'
    BY <1>10, <1>11, <2>2, TokenKinds, HeldValues
  <2>16. Alone(g, <<"curr", 0>>) /\ Alone(g, <<"next", 0>>) /\ Alone(g, <<"hold", 0>>)
    <3> HIDE DEF g
    <3> QED
      BY <2>12
  <2> HIDE DEF g
  <2> QED
    BY <2>11, <2>13, <2>14, <2>15, <2>16, ReferencesAre
<1>14. MainOK'
  <2>1. mpc = "dict" => data'[next] = data[next]
    <3>1. next # Null => next \in InPool
      BY DEF Control, Types, MainTypes
    <3>2. mpc = "dict" => next # Null
      BY DEF Control, BuffersOK
    <3>3. PICK h : data' = Kept(refs', [data EXCEPT ![o] = h])
      BY <1>8
    <3>4. mpc = "dict" => [data EXCEPT ![o] = h][next] = data[next]
      BY <1>7, <3>1, <3>2, PoolsApart DEF Control, Types, PoolTypes, DataOK
    <3> QED
      BY <1>1, <1>13, <3>3, <3>4, NextKept
  <2> QED
    BY <1>1, <1>3, <1>9, <2>1, Numbers DEF MainOK, Making
<1>15. SlotsOK'
  <2> SUFFICES ASSUME NEW m \in Seqs, AtWrite' <= m, m < Taken'
               PROVE  \/ \E d \in Compressors : cjob'[d] = m /\ cpc'[d] \in {"window", "compress"}
                      \/ jobs'[m].lens = Null /\ jobs'[m].out \in OutPool
    BY DEF SlotsOK
  <2>1. CASE m = n
    BY <1>7, <1>9, <2>1
  <2>2. CASE m # n /\ jobs[m].lens = Null /\ jobs[m].out \in OutPool
    BY <1>9, <2>2
  <2>3. CASE m # n /\ \E d \in Compressors : cjob[d] = m /\ cpc[d] \in {"window", "compress"}
    <3>1. PICK d \in Compressors : cjob[d] = m /\ cpc[d] \in {"window", "compress"}
      BY <2>3
    <3>2. cpc'[d] = cpc[d] /\ cjob'[d] = cjob[d]
      BY <1>1, <1>2, <2>3, <3>1
    <3> QED
      BY <3>1, <3>2
  <2> QED
    BY <1>5, <2>1, <2>2, <2>3 DEF SlotsOK
<1> QED
  BY <1>13, <1>14, <1>15

(* What a step of main at a job or around it leaves alone: the jobs made   *)
(* before, and what threads have.                                          *)
LEMMA MainFrame ==
  ASSUME Control, Control', ReadFirst \/ NewJob \/ Rsync \/ CutTail \/ Prepare \/ EndInput
  PROVE  /\ UNCHANGED <<seq, cpc, cjob, wpc, wseq>> /\ AtWrite' = AtWrite /\ Taken' = Taken
         /\ \A m \in Seqs : m # seq =>
              /\ jobs'[m] = jobs[m] /\ HeldIn(m)' = HeldIn(m) /\ HeldOut(m)' = HeldOut(m)
              /\ HeldLens(m)' = HeldLens(m)
         /\ \A m \in Seqs : m = seq => /\ Present(m) <=> Making
                                       /\ Present(m)' <=> Making'
                                       /\ wpc \in Busy => wseq # m
                                       /\ \A c \in Compressors : cpc[c] \in Having => cjob[c] # m
         /\ \A c \in Compressors : HeldCheck(c)' = HeldCheck(c)
         /\ SlotsOK => SlotsOK'
<1>1. UNCHANGED <<seq, setup, compressList, cpc, cjob, wpc, wseq>>
      /\ mpc \notin {"idle", "joinall"} /\ mpc' \notin {"idle", "joinall"}
  BY DEF ReadFirst, NewJob, Rsync, CutTail, Prepare, EndInput, cLists, cVars, wVars
<1>2. AtWrite' = AtWrite /\ Taken' = Taken
  BY <1>1 DEF AtWrite, Taken, InStream
<1>3. \A m \in Seqs : m # seq => jobs'[m] = jobs[m]
  <2>1. jobs \in [Seqs -> Jobs]
    BY DEF Control, Types, JobTypes
  <2>2. CASE jobs' = jobs
    BY <2>2
  <2>3. CASE \E x : jobs' = [jobs EXCEPT ![seq] = x]
    BY <2>1, <2>3
  <2>4. Prepare => \E x : jobs' = [jobs EXCEPT ![seq] = x]
    <3> SUFFICES ASSUME Prepare PROVE \E x : jobs' = [jobs EXCEPT ![seq] = x]
      OBVIOUS
    <3>1. PICK more : jobs' = [jobs EXCEPT ![seq].in = curr, ![seq].out = dict, ![seq].more = more]
      BY DEF Prepare
    <3>2. seq \in Seqs
      BY Numbers DEF Prepare, Making
    <3>3. jobs' = [jobs EXCEPT ![seq] = [[[jobs[seq] EXCEPT !.in = curr] EXCEPT !.out = dict] EXCEPT !.more = more]]
      BY <2>1, <3>1, <3>2
    <3> QED
      BY <3>3
  <2>5. Rsync => jobs' = jobs \/ \E x : jobs' = [jobs EXCEPT ![seq] = x]
    BY DEF Rsync
  <2> QED
    BY <2>2, <2>3, <2>4, <2>5 DEF ReadFirst, NewJob, CutTail, EndInput
<1>4. \A m \in Seqs : m # seq => (Present(m)' <=> Present(m))
  BY <1>1, <1>2 DEF Present
<1>5. ASSUME NEW m \in Seqs, m # seq
      PROVE  HeldIn(m)' = HeldIn(m) /\ HeldOut(m)' = HeldOut(m) /\ HeldLens(m)' = HeldLens(m)
  BY <1>1, <1>3, <1>4, <1>5 DEF HeldIn, HeldOut, HeldLens
<1>6. ASSUME NEW m \in Seqs, m = seq
      PROVE  /\ Present(m) <=> Making
             /\ Present(m)' <=> Making'
             /\ wpc \in Busy => wseq # m
             /\ \A c \in Compressors : cpc[c] \in Having => cjob[c] # m
  <2>1. AtWrite <= seq /\ seq \in Nat /\ (wpc \in Busy => wseq < seq /\ wseq \in Nat)
        /\ \A c \in Compressors : cpc[c] \in Having => cjob[c] < seq /\ cjob[c] \in Nat
    BY Numbers
  <2> QED
    BY <1>1, <1>2, <1>6, <2>1 DEF Present
<1>7. ASSUME NEW c \in Compressors PROVE HeldCheck(c)' = HeldCheck(c)
  <2>1. cpc[c] \in {"insert", "check"} => cjob[c] \in Seqs /\ cjob[c] # seq
    BY <1>6, Numbers DEF Having, Working
  <2> QED
    BY <1>1, <1>3, <2>1 DEF HeldCheck
<1>8. SlotsOK => SlotsOK'
  <2>1. \A n \in Seqs : n < Taken => n # seq
    BY Numbers
  <2> QED
    BY <1>1, <1>2, <1>3, <2>1 DEF SlotsOK
<1> QED
  BY <1>1, <1>2, <1>3, <1>5, <1>6, <1>7, <1>8

(* The references of main itself.                                          *)
LEMMA MainTokens ==
  ASSUME NEW j \in {<<"curr", 0>>, <<"next", 0>>, <<"hold", 0>>, <<"dict", 0>>}
  PROVE  /\ j \in Tokens
         /\ \A n \in Seqs : j # <<"in", n>> /\ j # <<"out", n>> /\ j # <<"lens", n>>
         /\ \A c \in Compressors : j # <<"check", c>>
<1>1. <<"curr", 0>>[1] = "curr" /\ <<"next", 0>>[1] = "next" /\ <<"hold", 0>>[1] = "hold"
      /\ <<"dict", 0>>[1] = "dict"
  OBVIOUS
<1>2. j = <<"curr", 0>> \/ j = <<"next", 0>> \/ j = <<"hold", 0>> \/ j = <<"dict", 0>>
  OBVIOUS
<1>3. j[1] \in {"curr", "next", "hold", "dict"}
  BY ONLY <1>1, <1>2
<1>4. j \in Tokens
  BY ONLY <1>2, TokenKinds
<1>5. \A n : <<"in", n>>[1] = "in" /\ <<"out", n>>[1] = "out" /\ <<"lens", n>>[1] = "lens"
             /\ <<"check", n>>[1] = "check"
  OBVIOUS
<1> QED
  BY ONLY <1>3, <1>4, <1>5

(* The same when only references of main itself change.                    *)
LEMMA MainReferencesAre ==
  ASSUME NEW g, Counts(refs', g),
         Alone(g, <<"curr", 0>>), Alone(g, <<"next", 0>>), Alone(g, <<"hold", 0>>),
         g[<<"curr", 0>>] = HeldCurr', g[<<"next", 0>>] = HeldNext',
         g[<<"hold", 0>>] = hold', g[<<"dict", 0>>] = HeldDict',
         \A h \in Tokens : g[h] = held[h]
           \/ h \in {<<"curr", 0>>, <<"next", 0>>, <<"hold", 0>>, <<"dict", 0>>},
         \A n \in Seqs : HeldIn(n)' = HeldIn(n),
         \A n \in Seqs : HeldOut(n)' = HeldOut(n),
         \A n \in Seqs : HeldLens(n)' = HeldLens(n),
         \A c \in Compressors : HeldCheck(c)' = HeldCheck(c)
  PROVE  CountsOK' /\ MainAlone'
<1>1. ASSUME NEW n \in Seqs
      PROVE  g[<<"in", n>>] = HeldIn(n)' /\ g[<<"out", n>>] = HeldOut(n)' /\ g[<<"lens", n>>] = HeldLens(n)'
  <2>1. /\ g[<<"in", n>>] = held[<<"in", n>>] /\ g[<<"out", n>>] = held[<<"out", n>>]
        /\ g[<<"lens", n>>] = held[<<"lens", n>>]
    BY TokenKinds, MainTokens
  <2> QED
    BY <2>1, HeldValues
<1>2. ASSUME NEW c \in Compressors PROVE g[<<"check", c>>] = HeldCheck(c)'
  <2>1. g[<<"check", c>>] = held[<<"check", c>>]
    BY TokenKinds, MainTokens
  <2> QED
    BY <2>1, HeldValues
<1> QED
  BY <1>1, <1>2, ReferencesAre

(* No job changes in these steps.                                          *)
LEMMA JobsUnchanged ==
  ASSUME Control, Control', ReadFirst \/ CutTail \/ EndInput
  PROVE  /\ jobs' = jobs
         /\ \A n \in Seqs : HeldIn(n)' = HeldIn(n)
         /\ \A n \in Seqs : HeldOut(n)' = HeldOut(n)
         /\ \A n \in Seqs : HeldLens(n)' = HeldLens(n)
<1>1. jobs' = jobs /\ (Making' <=> Making)
  BY DEF ReadFirst, CutTail, EndInput, Making
<1>2. UNCHANGED <<seq, cpc, cjob, wpc, wseq>> /\ AtWrite' = AtWrite
  BY MainFrame
<1>3. \A m \in Seqs : Present(m)' <=> Present(m)
  BY <1>1, <1>2 DEF Present
<1> QED
  BY <1>1, <1>2, <1>3 DEF HeldIn, HeldOut, HeldLens

LEMMA ReadFirstRefs ==
  ASSUME Control, Control', References, ReadFirst
  PROVE  References'
<1> USE DEF References
<1>1. PICK s \in InPool : /\ Fresh(InPool) # {} /\ s = First(InPool)
                          /\ next' = s /\ refs' = Used(refs, s)
  BY DEF ReadFirst, GetAndRead
<1>2. refs[s] = 0 /\ s \in Spaces /\ s # Null /\ refs \in [Spaces -> Int]
  BY <1>1, FreshBuffers, PoolsApart DEF Control, Types, PoolTypes
<1>3. mpc = "first" /\ mpc' = "job" /\ UNCHANGED <<hold, dict>> /\ hold = Null /\ dict = Null
  BY DEF ReadFirst, MainOK
<1>4. CountsOK' /\ MainAlone'
  <2> DEFINE k == <<"next", 0>>
             g == With(held, k, s)
  <2>1. k \in Tokens /\ held[k] = Null
    BY <1>3, MainTokens, HeldValues DEF HeldNext
  <2>2. \A h \in Tokens : held[h] # s
    BY <1>2, NotInUse DEF CountsOK
  <2>3. /\ Counts(refs', g) /\ Alone(g, k)
        /\ \A j \in Tokens : j # k /\ Alone(held, j) => Alone(g, j)
    <3> HIDE DEF k
    <3> QED
      BY <1>1, <1>2, <2>1, <2>2, Put DEF CountsOK
  <2>4. Alone(g, <<"curr", 0>>) /\ Alone(g, <<"next", 0>>) /\ Alone(g, <<"hold", 0>>)
    BY <2>3, MainTokens DEF MainAlone
  <2>5. \A h \in Tokens : g[h] = IF h = k THEN s ELSE held[h]
    BY DEF With
  <2>6. /\ g[<<"curr", 0>>] = HeldCurr' /\ g[<<"next", 0>>] = HeldNext'
        /\ g[<<"hold", 0>>] = hold' /\ g[<<"dict", 0>>] = HeldDict'
    BY <1>1, <1>3, <2>5, MainTokens, HeldValues DEF HeldCurr, HeldNext, HeldDict
  <2>7. \A c \in Compressors : HeldCheck(c)' = HeldCheck(c)
    BY MainFrame
  <2> HIDE DEF g
  <2> QED
    BY <2>3, <2>4, <2>5, <2>6, <2>7, JobsUnchanged, MainReferencesAre
<1>5. MainOK'
  BY <1>1, <1>3 DEF MainOK, Making
<1>6. SlotsOK'
  BY MainFrame
<1> QED
  BY <1>4, <1>5, <1>6

LEMMA EndInputRefs ==
  ASSUME Control, Control', References, EndInput
  PROVE  References'
<1> USE DEF References
<1>1. mpc = "end" /\ mpc' = "join" /\ UNCHANGED <<hold, dict>> /\ hold = Null
      /\ refs' = Dropped(refs, next) /\ refs \in [Spaces -> Int]
      /\ next \in Spaces \union {Null}
  BY PoolsApart DEF EndInput, MainOK, Control, Types, PoolTypes, MainTypes
<1>2. CountsOK' /\ MainAlone'
  <2> DEFINE k == <<"next", 0>>
             g == With(held, k, Null)
  <2>1. k \in Tokens /\ held[k] = next
    BY <1>1, MainTokens, HeldValues DEF HeldNext
  <2>2. /\ Counts(refs', g)
        /\ \A j \in Tokens : Alone(held, j) => Alone(g, j)
    <3> HIDE DEF k
    <3> QED
      BY <1>1, <2>1, TakeAway DEF CountsOK
  <2>3. Alone(g, <<"curr", 0>>) /\ Alone(g, <<"next", 0>>) /\ Alone(g, <<"hold", 0>>)
    BY <2>2, MainTokens DEF MainAlone
  <2>4. \A h \in Tokens : g[h] = IF h = k THEN Null ELSE held[h]
    BY DEF With
  <2>5. /\ g[<<"curr", 0>>] = HeldCurr' /\ g[<<"next", 0>>] = HeldNext'
        /\ g[<<"hold", 0>>] = hold' /\ g[<<"dict", 0>>] = HeldDict'
    BY <1>1, <2>4, MainTokens, HeldValues DEF HeldCurr, HeldNext, HeldDict
  <2>6. \A c \in Compressors : HeldCheck(c)' = HeldCheck(c)
    BY MainFrame
  <2> HIDE DEF g
  <2> QED
    BY <2>2, <2>3, <2>4, <2>5, <2>6, JobsUnchanged, MainReferencesAre
<1>3. MainOK'
  BY <1>1 DEF MainOK, Making
<1>4. SlotsOK'
  BY MainFrame
<1> QED
  BY <1>2, <1>3, <1>4

LEMMA CutTailRefs ==
  ASSUME Control, Control', References, CutTail
  PROVE  References'
<1> USE DEF References
<1>1. PICK s, p : /\ Fresh(InPool) # {} /\ s = First(InPool) /\ p = data[curr].piece
                  /\ next' = s /\ refs' = Used(refs, s)
                  /\ data' = [data EXCEPT ![s] = Holding(Suffix(p, left)),
                                          ![curr] = Holding(Piece(p.lo, p.hi - left))]
  BY DEF CutTail
<1>2. refs[s] = 0 /\ s \in Spaces /\ s # Null /\ refs \in [Spaces -> Int]
  BY <1>1, FreshBuffers, PoolsApart DEF Control, Types, PoolTypes
<1>3. /\ mpc = "tail" /\ mpc' = "dict" /\ UNCHANGED <<hold, dict, curr, left, jobs, seq>>
      /\ left # 0 /\ hold # Null /\ curr # Null
  BY DEF CutTail, MainOK, Control, BuffersOK
<1>4. \A h \in Tokens : held[h] # s
  BY <1>2, NotInUse DEF CountsOK
<1>5. s # curr
  BY <1>3, <1>4, MainTokens, HeldValues DEF HeldCurr
<1>6. CountsOK' /\ MainAlone'
  <2> DEFINE k == <<"next", 0>>
             g == With(held, k, s)
  <2>1. k \in Tokens /\ held[k] = Null
    BY <1>3, MainTokens, HeldValues DEF HeldNext
  <2>3. /\ Counts(refs', g) /\ Alone(g, k)
        /\ \A j \in Tokens : j # k /\ Alone(held, j) => Alone(g, j)
    <3> HIDE DEF k
    <3> QED
      BY <1>1, <1>2, <1>4, <2>1, Put DEF CountsOK
  <2>4. Alone(g, <<"curr", 0>>) /\ Alone(g, <<"next", 0>>) /\ Alone(g, <<"hold", 0>>)
    BY <2>3, MainTokens DEF MainAlone
  <2>5. \A h \in Tokens : g[h] = IF h = k THEN s ELSE held[h]
    BY DEF With
  <2>6. /\ g[<<"curr", 0>>] = HeldCurr' /\ g[<<"next", 0>>] = HeldNext'
        /\ g[<<"hold", 0>>] = hold' /\ g[<<"dict", 0>>] = HeldDict'
    BY <1>1, <1>3, <2>5, MainTokens, HeldValues DEF HeldCurr, HeldNext, HeldDict
  <2>7. \A c \in Compressors : HeldCheck(c)' = HeldCheck(c)
    BY MainFrame
  <2> HIDE DEF g
  <2> QED
    BY <2>3, <2>4, <2>5, <2>6, <2>7, JobsUnchanged, MainReferencesAre
<1>7. MainOK'
  <2>1. data'[next'].piece = Suffix(p, left)
    BY <1>1, <1>2, <1>5 DEF Holding, Control, Types, PoolTypes, DataOK
  <2>2. p \in Pieces /\ left \in Int
    <3>1. curr \in Spaces
      BY <1>3, PoolsApart DEF Control, Types, MainTypes
    <3> QED
      BY <1>1, <3>1 DEF Control, Types, PoolTypes, DataOK, MainTypes
  <2>3. Span(Suffix(p, left)) = left
    BY <2>2 DEF Span, Suffix, Piece, Pieces
  <2>4. Span(data'[next'].piece) # 0
    BY <1>3, <2>1, <2>3
  <2> QED
    BY <1>3, <2>4 DEF MainOK, Making
<1>8. SlotsOK'
  BY MainFrame
<1> QED
  BY <1>6, <1>7, <1>8

LEMMA NewJobRefs ==
  ASSUME Control, Control', References, NewJob
  PROVE  References'
<1> USE DEF References
<1>1. /\ mpc = "job" /\ mpc' = "rsync" /\ curr' = next /\ hold' = Null /\ next # Null
      /\ UNCHANGED <<dict, seq>> /\ seq \in Seqs /\ jobs' = [jobs EXCEPT ![seq] = [NoJob EXCEPT !.live = TRUE]]
      /\ refs \in [Spaces -> Int] /\ next \in Spaces /\ hold \in Spaces \union {Null}
      /\ Making' /\ ~Making
  BY PoolsApart DEF NewJob, Control, Types, PoolTypes, MainTypes, BuffersOK, Making
<1>2. jobs'[seq].in = Null /\ jobs'[seq].out = Null /\ jobs'[seq].lens = Null
  BY <1>1 DEF NoJob, Control, Types, JobTypes
<1>3. /\ \A n \in Seqs : HeldIn(n)' = HeldIn(n)
      /\ \A n \in Seqs : HeldOut(n)' = HeldOut(n)
      /\ \A n \in Seqs : HeldLens(n)' = HeldLens(n)
      /\ \A c \in Compressors : HeldCheck(c)' = HeldCheck(c)
  <2>1. ASSUME NEW n \in Seqs, n # seq
        PROVE  HeldIn(n)' = HeldIn(n) /\ HeldOut(n)' = HeldOut(n) /\ HeldLens(n)' = HeldLens(n)
    BY <2>1, MainFrame
  <2>2. ASSUME NEW n \in Seqs, n = seq
        PROVE  HeldIn(n)' = HeldIn(n) /\ HeldOut(n)' = HeldOut(n) /\ HeldLens(n)' = HeldLens(n)
    <3>1. ~Present(n)
      BY <1>1, <2>2, MainFrame
    <3> QED
      BY <1>2, <2>2, <3>1 DEF HeldIn, HeldOut, HeldLens
  <2> QED
    BY <2>1, <2>2, MainFrame
<1> DEFINE kc == <<"curr", 0>>
           kn == <<"next", 0>>
           kh == <<"hold", 0>>
           f == Passed(held, kn, kc)
<1>4. kc \in Tokens /\ kn \in Tokens /\ kh \in Tokens /\ kc # kn /\ kc # kh /\ kn # kh
  BY MainTokens
<1>5. held[kc] = Null /\ held[kn] = next /\ held[kh] = hold
  BY <1>1, HeldValues DEF HeldCurr, HeldNext
<1>6. \A h \in Tokens : f[h] = IF h = kn THEN Null ELSE IF h = kc THEN next ELSE held[h]
  BY <1>5 DEF Passed, With
<1>7. Counts(refs, f) /\ Alone(f, kc) /\ Alone(f, kh)
  <2>1. Counts(refs, held) /\ Alone(held, kn) /\ Alone(held, kh)
    BY DEF CountsOK, MainAlone
  <2>2. held[kn] \in Spaces \union {Null}
    BY <1>1, <1>5
  <2> HIDE DEF kc, kn, kh
  <2> QED
    BY <1>1, <1>4, <1>5, <2>1, <2>2, Pass
<1>8. CountsOK' /\ MainAlone'
  <2>1. CASE hold # Null
    <3> DEFINE g == Passed(f, kh, kn)
    <3>1. next' = hold /\ refs' = refs
      BY <2>1 DEF NewJob, pools
    <3>2. f[kn] = Null /\ f[kh] = hold
      BY <1>4, <1>5, <1>6
    <3>3. \A h \in Tokens : g[h] = IF h = kh THEN Null ELSE IF h = kn THEN hold
                                   ELSE IF h = kc THEN next ELSE held[h]
      <4> HIDE DEF f
      <4> QED
        BY <1>4, <1>6, <3>2 DEF Passed, With
    <3>4. Counts(refs', g) /\ Alone(g, kc) /\ Alone(g, kn) /\ Alone(g, kh)
      <4>1. Counts(refs', g) /\ Alone(g, kn) /\ Alone(g, kc)
        <5> HIDE DEF kc, kn, kh, f
        <5> QED
          BY <1>1, <1>4, <1>7, <3>1, <3>2, Pass
      <4>2. Alone(g, kh)
        BY <1>4, <3>3 DEF Alone
      <4> QED
        BY <4>1, <4>2
    <3>5. /\ g[kc] = HeldCurr' /\ g[kn] = HeldNext'
          /\ g[kh] = hold' /\ g[<<"dict", 0>>] = HeldDict'
      BY <1>1, <1>4, <3>1, <3>3, MainTokens, HeldValues DEF HeldCurr, HeldNext, HeldDict
    <3>6. \A h \in Tokens : g[h] = held[h] \/ h \in {kc, kn, kh, <<"dict", 0>>}
      BY <3>3
    <3> HIDE DEF g
    <3> QED
      BY <1>3, <3>4, <3>5, <3>6, MainReferencesAre
  <2>2. CASE hold = Null
    <3>1. PICK s \in InPool : Fresh(InPool) # {} /\ s = First(InPool) /\ next' = s /\ refs' = Used(refs, s)
      BY <2>2 DEF NewJob, GetAndRead
    <3>2. refs[s] = 0 /\ s \in Spaces
      BY <3>1, FreshBuffers, PoolsApart
    <3> DEFINE g == With(f, kn, s)
    <3>3. f[kn] = Null /\ \A h \in Tokens : f[h] # s
      BY <1>4, <1>6, <1>7, <3>2, NotInUse
    <3>4. \A h \in Tokens : g[h] = IF h = kn THEN s ELSE IF h = kc THEN next ELSE held[h]
      <4> HIDE DEF f
      <4> QED
        BY <1>4, <1>6 DEF With
    <3>5. Counts(refs', g) /\ Alone(g, kn) /\ Alone(g, kc) /\ Alone(g, kh)
      <4> HIDE DEF kc, kn, kh, f
      <4> QED
        BY <1>1, <1>4, <1>7, <3>1, <3>2, <3>3, Put
    <3>6. /\ g[kc] = HeldCurr' /\ g[kn] = HeldNext'
          /\ g[kh] = hold' /\ g[<<"dict", 0>>] = HeldDict'
      BY <1>1, <1>4, <1>5, <2>2, <3>1, <3>4, MainTokens, HeldValues DEF HeldCurr, HeldNext, HeldDict
    <3>7. \A h \in Tokens : g[h] = held[h] \/ h \in {kc, kn, kh, <<"dict", 0>>}
      BY <3>4
    <3> HIDE DEF g
    <3> QED
      BY <1>3, <3>5, <3>6, <3>7, MainReferencesAre
  <2> QED
    BY <2>1, <2>2
<1>9. MainOK'
  BY <1>1, <1>2 DEF MainOK, Making
<1>10. SlotsOK'
  BY MainFrame
<1> QED
  BY <1>8, <1>9, <1>10

LEMMA RsyncRefs ==
  ASSUME Control, Control', References, Rsync
  PROVE  References'
<1> USE DEF References
<1>1. /\ mpc = "rsync" /\ UNCHANGED <<seq, curr, next, dict>> /\ Making /\ seq \in Seqs
      /\ jobs \in [Seqs -> Jobs] /\ refs \in [Spaces -> Int] /\ next # Null /\ next \in Spaces
      /\ hold = Null /\ jobs[seq].in = Null /\ jobs[seq].out = Null /\ jobs[seq].lens = Null
  BY Numbers, PoolsApart DEF Rsync, Making, Control, Types, JobTypes, PoolTypes, MainTypes, BuffersOK, MainOK
<1>2. PICK n : n = seq
  OBVIOUS
<1>3. Present(n) /\ n \in Seqs /\ n = seq
  BY <1>1, <1>2, MainFrame
<1>4. SlotsOK'
  BY MainFrame
<1>5. CASE ~(input.rsync /\ Span(data[curr].piece) # 0)
  <2>1. mpc' = "dict" /\ UNCHANGED <<refs, data, jobs, left, hold>>
    BY <1>5 DEF Rsync, pools
  <2>2. Present(n)'
    BY <1>3, <2>1, MainFrame DEF Making
  <2>3. ASSUME NEW m \in Seqs
        PROVE  HeldIn(m)' = HeldIn(m) /\ HeldOut(m)' = HeldOut(m) /\ HeldLens(m)' = HeldLens(m)
    <3>1. CASE m = n
      BY <1>3, <2>1, <2>2, <3>1, MainFrame DEF HeldIn, HeldOut, HeldLens
    <3>2. CASE m # n
      BY <1>2, <3>2, MainFrame
    <3> QED
      BY <3>1, <3>2
  <2>4. HeldCurr' = HeldCurr /\ HeldNext' = HeldNext /\ hold' = hold /\ HeldDict' = HeldDict
    BY <1>1, <2>1 DEF HeldCurr, HeldNext, HeldDict
  <2>5. CountsOK' /\ MainAlone'
    BY <2>1, <2>3, <2>4, MainFrame, SameReferences
  <2>6. MainOK'
    BY <1>1, <2>1 DEF MainOK, Making
  <2> QED
    BY <1>4, <2>5, <2>6
<1>6. CASE input.rsync /\ Span(data[curr].piece) # 0
  <2>1. PICK l, t :
          /\ l = First(LensPool) /\ Fresh(LensPool) # {}
          /\ t = RsyncTurn(data[curr].piece, data[next].piece, left, scan, input.hits)
          /\ refs' = Used(refs, l)
          /\ jobs' = [jobs EXCEPT ![seq].lens = l]
          /\ left' = t.left
          /\ mpc' = IF t.tailed THEN "tail" ELSE "dict"
          /\ hold' = IF t.tailed THEN next ELSE hold
    BY <1>6 DEF Rsync
  <2>2. l \in LensPool /\ refs[l] = 0 /\ l \in Spaces
    BY <2>1, FreshBuffers, PoolsApart
  <2>3. t.tailed \in BOOLEAN /\ (t.tailed => t.left # 0)
    <3>1. curr \in Spaces
      BY <1>1, PoolsApart DEF Control, BuffersOK, Types, MainTypes
    <3>2. /\ data[curr].piece \in Pieces /\ data[next].piece \in Pieces
          /\ left \in Int /\ scan \in Int /\ input.hits \in SUBSET Nat
      BY <1>1, <3>1 DEF Control, Types, PoolTypes, DataOK, MainTypes, Inputs
    <3> QED
      BY <2>1, <3>2, TurnTypes
  <2>4. /\ jobs'[n].in = Null /\ jobs'[n].out = Null /\ jobs'[n].lens = l
    BY <1>1, <1>3, <2>1 DEF Jobs
  <2>5. Present(n)'
    BY <1>3, <2>1, MainFrame DEF Making
  <2> DEFINE k == <<"lens", n>>
             kn == <<"next", 0>>
             kh == <<"hold", 0>>
             f == With(held, k, l)
             g == IF t.tailed THEN Passed(f, kn, kh) ELSE f
  <2>6. k \in Tokens /\ kn \in Tokens /\ kh \in Tokens /\ kn # kh /\ kn # k /\ kh # k
    BY <1>3, TokenKinds, MainTokens
  <2>7. held[k] = Null /\ held[kn] = next /\ held[kh] = Null /\ \A h \in Tokens : held[h] # l
    <3>1. HeldLens(n) = Null
      BY <1>1, <1>3 DEF HeldLens
    <3>2. held[k] = HeldLens(n) /\ held[kn] = HeldNext /\ held[kh] = hold
      BY <1>3, HeldValues
    <3> QED
      BY <1>1, <2>2, <3>1, <3>2, NotInUse DEF HeldNext, CountsOK
  <2>8. Counts(Used(refs, l), f) /\ \A j \in Tokens : j # k /\ Alone(held, j) => Alone(f, j)
    <3> HIDE DEF k
    <3> QED
      BY <1>1, <2>2, <2>6, <2>7, Put DEF CountsOK
  <2>9. \A h \in Tokens : f[h] = IF h = k THEN l ELSE held[h]
    BY DEF With
  <2>10. \A h \in Tokens : g[h] = IF h = k THEN l
                                  ELSE IF t.tailed /\ h = kn THEN Null
                                  ELSE IF t.tailed /\ h = kh THEN next ELSE held[h]
    <3> HIDE DEF f
    <3> QED
      BY <2>6, <2>7, <2>9 DEF Passed, With
  <2>11. /\ Counts(refs', g)
         /\ Alone(g, <<"curr", 0>>) /\ Alone(g, <<"next", 0>>) /\ Alone(g, <<"hold", 0>>)
    <3>1. Used(refs, l) \in [Spaces -> Int]
      BY <1>1, <2>2, UseTypes
    <3>2. /\ Alone(f, <<"curr", 0>>) /\ Alone(f, kn) /\ Alone(f, kh)
      <4>1. <<"curr", 0>> \in Tokens /\ <<"curr", 0>> # k /\ <<"curr", 0>> # kh
        BY <1>3, MainTokens
      <4> HIDE DEF f
      <4> QED
        BY <2>6, <2>8, <4>1 DEF MainAlone
    <3>3. f[kn] = next /\ f[kh] = Null
      BY <2>6, <2>7, <2>9
    <3>4. <<"curr", 0>> \in Tokens /\ <<"curr", 0>> # kh
      BY MainTokens
    <3>5. CASE t.tailed
      <4>1. /\ Counts(Used(refs, l), Passed(f, kn, kh))
            /\ Alone(f, kn) => Alone(Passed(f, kn, kh), kh)
            /\ \A j \in Tokens : j # kh /\ Alone(f, j) => Alone(Passed(f, kn, kh), j)
        <5>1. next \in Spaces \union {Null}
          BY <1>1
        <5> HIDE DEF f, kn, kh
        <5> QED
          BY <2>6, <2>8, <3>1, <3>3, <5>1, Pass
      <4> HIDE DEF f
      <4> QED
        BY <2>1, <2>6, <3>2, <3>4, <3>5, <4>1
    <3>6. CASE ~t.tailed
      <4> HIDE DEF f
      <4> QED
        BY <2>1, <2>8, <3>2, <3>6
    <3> QED
      BY <2>3, <3>5, <3>6
  <2>12. /\ g[<<"curr", 0>>] = HeldCurr' /\ g[<<"next", 0>>] = HeldNext'
         /\ g[<<"hold", 0>>] = hold' /\ g[<<"dict", 0>>] = HeldDict'
    <3>1. /\ HeldCurr' = curr /\ HeldNext' = (IF t.tailed THEN Null ELSE next)
          /\ hold' = (IF t.tailed THEN next ELSE Null) /\ HeldDict' = dict
      BY <1>1, <2>1 DEF HeldCurr, HeldNext, HeldDict
    <3>2. HeldCurr = curr /\ HeldNext = next /\ HeldDict = dict
      BY <1>1 DEF HeldCurr, HeldNext, HeldDict
    <3>3. <<"curr", 0>> \in Tokens \ {k, kn, kh} /\ <<"dict", 0>> \in Tokens \ {k, kn, kh}
      BY <1>3, MainTokens
    <3> HIDE DEF g
    <3> QED
      BY <2>3, <2>6, <2>7, <2>10, <3>1, <3>2, <3>3, HeldValues
  <2>13. ASSUME NEW m \in Seqs
         PROVE  g[<<"in", m>>] = HeldIn(m)' /\ g[<<"out", m>>] = HeldOut(m)' /\ g[<<"lens", m>>] = HeldLens(m)'
    <3>1. CASE m = n
      <4>1. HeldIn(m)' = Null /\ HeldOut(m)' = Null /\ HeldLens(m)' = l
        BY <2>4, <2>5, <3>1 DEF HeldIn, HeldOut, HeldLens
      <4>2. HeldIn(m) = Null /\ HeldOut(m) = Null
        BY <1>1, <1>3, <3>1 DEF HeldIn, HeldOut
      <4>3. g[<<"in", m>>] = held[<<"in", m>>] /\ g[<<"out", m>>] = held[<<"out", m>>]
        BY <2>10, TokenKinds, MainTokens
      <4> QED
        BY <2>6, <2>10, <3>1, <4>1, <4>2, <4>3, HeldValues
    <3>2. CASE m # n
      <4>1. /\ g[<<"in", m>>] = held[<<"in", m>>] /\ g[<<"out", m>>] = held[<<"out", m>>]
            /\ g[<<"lens", m>>] = held[<<"lens", m>>]
        BY <2>10, <3>2, TokenKinds, MainTokens
      <4>2. HeldIn(m)' = HeldIn(m) /\ HeldOut(m)' = HeldOut(m) /\ HeldLens(m)' = HeldLens(m)
        BY <1>2, <3>2, MainFrame
      <4> QED
        BY <4>1, <4>2, HeldValues
    <3> QED
      BY <3>1, <3>2
  <2>14. ASSUME NEW c \in Compressors PROVE g[<<"check", c>>] = HeldCheck(c)'
    <3>1. g[<<"check", c>>] = held[<<"check", c>>]
      BY <2>10, TokenKinds, MainTokens
    <3> QED
      BY <3>1, MainFrame, HeldValues
  <2>15. CountsOK' /\ MainAlone'
    <3> HIDE DEF g
    <3> QED
      BY <2>11, <2>12, <2>13, <2>14, ReferencesAre
  <2>16. MainOK'
    BY <1>1, <1>3, <2>1, <2>3, <2>4 DEF MainOK, Making
  <2> QED
    BY <1>4, <2>15, <2>16
<1> QED
  BY <1>5, <1>6

LEMMA PrepareRefs ==
  ASSUME Control, Control', References, Prepare
  PROVE  References'
<1> USE DEF References
<1>1. /\ mpc = "dict" /\ mpc' = "append" /\ UNCHANGED <<seq, curr, next, hold>> /\ Making /\ seq \in Seqs
      /\ jobs \in [Seqs -> Jobs] /\ refs \in [Spaces -> Int] /\ curr # Null /\ curr \in Spaces
      /\ next # Null /\ dict \in Spaces \union {Null}
      /\ jobs[seq].in = Null /\ jobs[seq].out = Null
  BY Numbers, PoolsApart DEF Prepare, Making, Control, Types, JobTypes, PoolTypes, MainTypes, BuffersOK, MainOK
<1>2. PICK n, more : /\ n = seq /\ more = (Span(data[next].piece) # 0)
  OBVIOUS
<1>3. Present(n) /\ n \in Seqs /\ n = seq /\ more \in BOOLEAN
  BY <1>1, <1>2, MainFrame
<1>4. SlotsOK'
  BY MainFrame
<1>5. /\ jobs'[n].in = curr /\ jobs'[n].out = dict /\ jobs'[n].more = more /\ jobs'[n].lens = jobs[n].lens
  <2>1. jobs' = [jobs EXCEPT ![seq].in = curr, ![seq].out = dict, ![seq].more = more]
    BY <1>2 DEF Prepare
  <2> QED
    BY <1>1, <1>3, <2>1 DEF Jobs
<1>6. Present(n)'
  BY <1>1, <1>3, MainFrame DEF Making
<1> DEFINE kc == <<"curr", 0>>
           kn == <<"next", 0>>
           kh == <<"hold", 0>>
           kd == <<"dict", 0>>
           ki == <<"in", n>>
           ko == <<"out", n>>
           f == Passed(held, kc, ki)
           e == Passed(f, kd, ko)
<1>7. {kc, kn, kh, kd, ki, ko} \subseteq Tokens
  BY <1>3, TokenKinds
<1>8. /\ kc # kn /\ kc # kh /\ kc # kd /\ kn # kh /\ kn # kd /\ kh # kd /\ ki # ko
      /\ kc \notin {ki, ko} /\ kn \notin {ki, ko} /\ kh \notin {ki, ko} /\ kd \notin {ki, ko}
  <2>1. kc # kn /\ kc # kh /\ kc # kd /\ kn # kh /\ kn # kd /\ kh # kd /\ ki # ko
    OBVIOUS
  <2> QED
    BY <1>3, <2>1, MainTokens
<1>9. held[kc] = curr /\ held[kn] = next /\ held[kh] = hold /\ held[kd] = dict
      /\ held[ki] = Null /\ held[ko] = Null
  <2>1. HeldIn(n) = Null /\ HeldOut(n) = Null
    BY <1>1, <1>3 DEF HeldIn, HeldOut
  <2>2. HeldCurr = curr /\ HeldNext = next /\ HeldDict = dict
    BY <1>1 DEF HeldCurr, HeldNext, HeldDict
  <2> QED
    BY <1>3, <2>1, <2>2, HeldValues
<1>10. \A h \in Tokens : f[h] = IF h = kc THEN Null ELSE IF h = ki THEN curr ELSE held[h]
  BY <1>9 DEF Passed, With
<1>11. Counts(refs, f) /\ \A j \in {kc, kn, kh} : Alone(f, j)
  <2>1. Counts(refs, held) /\ Alone(held, kc) /\ Alone(held, kn) /\ Alone(held, kh)
    BY DEF CountsOK, MainAlone
  <2>2. held[kc] \in Spaces \union {Null}
    BY <1>1, <1>9
  <2> HIDE DEF kc, kn, kh, ki, ko, kd
  <2> QED
    BY <1>1, <1>7, <1>8, <1>9, <2>1, <2>2, Pass
<1>12. f[kd] = dict /\ f[ko] = Null
  <2> HIDE DEF kc, kn, kh, ki, ko, kd, f
  <2> QED
    BY <1>7, <1>8, <1>9, <1>10
<1>13. \A h \in Tokens : e[h] = IF h \in {kc, kd} THEN Null ELSE IF h = ki THEN curr
                                ELSE IF h = ko THEN dict ELSE held[h]
  <2> HIDE DEF kc, kn, kh, ki, ko, kd, f
  <2> QED
    BY <1>7, <1>8, <1>10, <1>12 DEF Passed, With
<1>14. Counts(refs, e) /\ \A j \in {kc, kn, kh} : Alone(e, j)
  <2>1. f[kd] \in Spaces \union {Null}
    BY <1>1, <1>12
  <2> HIDE DEF kc, kn, kh, ki, ko, kd, f
  <2> QED
    BY <1>1, <1>7, <1>8, <1>11, <1>12, <2>1, Pass
<1> HIDE DEF e, f
<1>15. PICK g :
         /\ Counts(refs', g) /\ Alone(g, kc) /\ Alone(g, kn) /\ Alone(g, kh)
         /\ \A h \in Tokens : g[h] = IF h = kd THEN (IF more THEN dict' ELSE Null) ELSE e[h]
  <2>1. CASE more
    <3>1. PICK x : /\ dict' = x /\ refs' = Used(refs, x) /\ x \in Spaces
                   /\ x = curr \/ refs[x] = 0
      <4>1. HoldDict(TRUE)
        BY <1>2, <2>1 DEF Prepare
      <4>2. CASE dict' = curr /\ refs' = Used(refs, curr)
        BY <1>1, <4>2
      <4>3. CASE Fresh(DictPool) # {} /\ dict' = First(DictPool) /\ refs' = Used(refs, First(DictPool))
        BY <4>3, FreshBuffers, PoolsApart
      <4> QED
        BY <4>1, <4>2, <4>3 DEF HoldDict
    <3>2. e[kd] = Null
      BY <1>7, <1>13
    <3>3. e[kn] # x /\ e[kh] # x /\ e[kc] # x
      <4>1. e[kc] = Null /\ Null # x
        BY <1>7, <1>13, <3>1, CompressAssumption
      <4>2. e[kn] = next /\ e[kh] = hold
        <5> HIDE DEF kc, kn, kh, ki, ko, kd
        <5> QED
          BY <1>7, <1>8, <1>9, <1>13
      <4>3. next # curr /\ hold # curr
        <5>1. Alone(held, kc)
          BY DEF MainAlone
        <5> QED
          BY <1>1, <1>7, <1>8, <1>9, <5>1 DEF Alone
      <4>4. refs[x] = 0 => \A h \in Tokens : e[h] # x
        BY <1>14, <3>1, NotInUse
      <4> QED
        BY <1>7, <3>1, <4>1, <4>2, <4>3, <4>4
    <3>4. /\ Counts(refs', With(e, kd, x))
          /\ Alone(With(e, kd, x), kc) /\ Alone(With(e, kd, x), kn) /\ Alone(With(e, kd, x), kh)
      <4> HIDE DEF kc, kn, kh, ki, ko, kd
      <4> QED
        BY <1>1, <1>7, <1>8, <1>14, <3>1, <3>2, <3>3, Put
    <3>5. \A h \in Tokens : With(e, kd, x)[h] = IF h = kd THEN x ELSE e[h]
      BY DEF With
    <3> WITNESS With(e, kd, x)
    <3> QED
      BY <2>1, <3>1, <3>4, <3>5
  <2>2. CASE ~more
    <3>1. refs' = refs
      <4>1. HoldDict(FALSE)
        BY <1>2, <2>2 DEF Prepare
      <4> QED
        BY <4>1 DEF HoldDict, pools
    <3>2. \A h \in Tokens : e[h] = IF h = kd THEN Null ELSE e[h]
      BY <1>13
    <3> WITNESS e
    <3> QED
      BY <1>14, <2>2, <3>1, <3>2
  <2> QED
    BY <1>3, <2>1, <2>2
<1>16. \A h \in Tokens : g[h] = IF h = kd THEN (IF more THEN dict' ELSE Null)
                                ELSE IF h = kc THEN Null ELSE IF h = ki THEN curr
                                ELSE IF h = ko THEN dict ELSE held[h]
  BY <1>13, <1>15
<1>17. g[kc] = HeldCurr' /\ g[kn] = HeldNext' /\ g[kh] = hold' /\ g[kd] = HeldDict'
  <2>1. HeldCurr' = Null /\ HeldNext' = next /\ HeldDict' = (IF more THEN dict' ELSE Null) /\ hold' = hold
    BY <1>1, <1>3, <1>5 DEF HeldCurr, HeldNext, HeldDict
  <2> HIDE DEF kc, kn, kh, ki, ko, kd
  <2> QED
    BY <1>7, <1>8, <1>9, <1>16, <2>1
<1>18. ASSUME NEW m \in Seqs
       PROVE  g[<<"in", m>>] = HeldIn(m)' /\ g[<<"out", m>>] = HeldOut(m)' /\ g[<<"lens", m>>] = HeldLens(m)'
  <2>1. g[<<"lens", m>>] = held[<<"lens", m>>]
    BY <1>16, TokenKinds, MainTokens
  <2>2. CASE m = n
    <3>1. HeldLens(m)' = HeldLens(m)
      BY <1>3, <1>5, <1>6, <2>2 DEF HeldLens
    <3>2. HeldIn(m)' = curr
      <4>1. ~(n = wseq' /\ wpc' \in {"write", "combine"})
        BY <1>3, MainFrame DEF Busy
      <4> QED
        BY <1>5, <1>6, <2>2, <4>1 DEF HeldIn
    <3>3. HeldOut(m)' = dict
      <4>1. ~(n = wseq' /\ wpc' = "combine")
        BY <1>3, MainFrame DEF Busy
      <4>2. \A c \in Compressors : cpc'[c] = "compress" => cjob'[c] # n
        BY <1>3, MainFrame DEF Having, Working
      <4> QED
        BY <1>5, <1>6, <2>2, <4>1, <4>2 DEF HeldOut
    <3> QED
      BY <1>7, <1>8, <1>16, <2>1, <2>2, <3>1, <3>2, <3>3, HeldValues
  <2>3. CASE m # n
    <3>1. g[<<"in", m>>] = held[<<"in", m>>] /\ g[<<"out", m>>] = held[<<"out", m>>]
      BY <1>16, <2>3, TokenKinds, MainTokens
    <3>2. HeldIn(m)' = HeldIn(m) /\ HeldOut(m)' = HeldOut(m) /\ HeldLens(m)' = HeldLens(m)
      BY <1>2, <2>3, MainFrame
    <3> QED
      BY <2>1, <3>1, <3>2, HeldValues
  <2> QED
    BY <2>2, <2>3
<1>19. ASSUME NEW c \in Compressors PROVE g[<<"check", c>>] = HeldCheck(c)'
  <2>1. g[<<"check", c>>] = held[<<"check", c>>]
    BY <1>16, TokenKinds, MainTokens
  <2> QED
    BY <2>1, MainFrame, HeldValues
<1>20. CountsOK' /\ MainAlone'
  BY <1>15, <1>17, <1>18, <1>19, ReferencesAre
<1>21. MainOK'
  <2>1. hold # Null => more
    BY <1>1, <1>2 DEF MainOK
  <2> QED
    BY <1>1, <1>3, <1>5, <2>1 DEF MainOK, Making
<1> QED
  BY <1>4, <1>20, <1>21

-----------------------------------------------------------------------------
(* No reference is lost and none is dropped twice                          *)

LEMMA NobodyHolds ==
  ASSUME Control, MainOK, wpc = "none"
  PROVE  \A h \in Tokens : held[h] = Null
BY NothingHeld, TokenKinds, HeldValues

LEMMA ReferencesInit ==
  ASSUME Init
  PROVE  References
<1>1. Control
  BY ControlInit
<1>2. MainOK
  BY DEF Init, MainOK, Making
<1>3. \A h \in Tokens : held[h] = Null
  BY <1>1, <1>2, NobodyHolds DEF Init
<1>4. CountsOK
  <2> SUFFICES ASSUME NEW s \in Spaces PROVE refs[s] = Cardinality({h \in Tokens : held[h] = s})
    BY DEF CountsOK, Counts
  <2>1. {h \in Tokens : held[h] = s} = {}
    BY <1>3, CompressAssumption
  <2> QED
    BY <2>1, FS_EmptySet DEF Init
<1>5. MainAlone
  BY <1>3, MainTokens DEF MainAlone, Alone
<1>6. SlotsOK
  <2>1. Taken = 0 /\ AtWrite = 0
    BY DEF Init, Taken, InStream, AtWrite
  <2> QED
    BY <2>1 DEF SlotsOK, Seqs
<1> QED
  BY <1>2, <1>4, <1>5, <1>6 DEF References

LEMMA ReferencesStep ==
  ASSUME Control, Control', References, [Next]_vars
  PROVE  References'
<1>1. CASE Main
  BY <1>1, StartRefs, ReadFirstRefs, NewJobRefs, RsyncRefs, CutTailRefs, PrepareRefs, AppendJobRefs,
     EndInputRefs, StreamEndRefs DEF Main
<1>2. CASE \E c \in Compressors : Compressor(c)
  BY <1>2, GetJobRefs, DropThreadRefs, CompressDataRefs, InsertRefs DEF Compressor
<1>3. CASE Writer
  BY <1>3, QuietWriterRefs, DropWriterRefs, CombineRefs DEF Writer
<1>4. CASE UNCHANGED vars
  <2> USE <1>4 DEF vars, pools, cLists, wLists, mainVars, cVars, wVars
  <2>1. AtWrite' = AtWrite /\ Taken' = Taken /\ (Making' <=> Making)
    BY DEF AtWrite, Taken, InStream, Making
  <2>2. \A n \in Seqs : Present(n)' <=> Present(n)
    BY <2>1 DEF Present
  <2>3. HeldCurr' = HeldCurr /\ HeldNext' = HeldNext /\ hold' = hold /\ HeldDict' = HeldDict
    BY DEF HeldCurr, HeldNext, HeldDict
  <2>4. ASSUME NEW n \in Seqs
        PROVE  HeldIn(n)' = HeldIn(n) /\ HeldOut(n)' = HeldOut(n) /\ HeldLens(n)' = HeldLens(n)
    BY <2>2 DEF HeldIn, HeldOut, HeldLens
  <2>5. ASSUME NEW c \in Compressors PROVE HeldCheck(c)' = HeldCheck(c)
    BY DEF HeldCheck
  <2>6. CountsOK' /\ MainAlone'
    BY <2>3, <2>4, <2>5, SameReferences DEF References
  <2>7. MainOK' /\ SlotsOK'
    BY <2>1 DEF References, MainOK, SlotsOK
  <2> QED
    BY <2>6, <2>7 DEF References
<1> QED
  BY <1>1, <1>2, <1>3, <1>4 DEF Next, Terminated

(* The two parts of the invariant hold together.                           *)
THEOREM ReferencesInvariant == Spec => [](Control /\ References)
<1>1. Control /\ Control' /\ References /\ [Next]_vars => References'
  BY ReferencesStep
<1> QED
  BY <1>1, ControlInvariant, ReferencesInit, PTL DEF Spec

(* The use count of every buffer of every pool is the number of references *)
(* that main, the jobs and the threads have to it: with every use_space(), *)
(* drop_space() and hand-over of the code no reference is lost, and none   *)
(* is dropped that one does not have.                                      *)
THEOREM CountsAreReferences == Spec => [](CountsOK /\ \A s \in Spaces : refs[s] \in Nat)
<1>1. References => \A s \in Spaces : refs[s] \in Nat
  BY NotInUse DEF References, CountsOK
<1>2. References => CountsOK
  BY DEF References
<1> QED
  BY <1>1, <1>2, ReferencesInvariant, PTL

(* The variables keep their types: in particular no use count is negative, *)
(* and the job that main makes and the one that is written next are at     *)
(* most one past the last.                                                 *)
THEOREM TypeCorrect == Spec => []TypeOK
<1>1. Control /\ References /\ (CountsOK /\ \A s \in Spaces : refs[s] \in Nat) => TypeOK
  <2> SUFFICES ASSUME Control, \A s \in Spaces : refs[s] \in Nat PROVE TypeOK
    OBVIOUS
  <2>0. PoolTypes /\ JobTypes /\ ListTypes /\ MainTypes /\ ThreadTypes /\ WriterTypes
    BY DEF Control, Types
  <2>1. refs \in [Spaces -> Nat] /\ \A s \in Spaces : data[s].piece \in [lo : Int, hi : Int]
    BY <2>0 DEF PoolTypes, DataOK, Pieces
  <2>2. \A n \in Seqs : /\ jobs[n].in \in InPool \union {Null}
                        /\ jobs[n].out \in (Spaces \ LensPool) \union {Null}
                        /\ jobs[n].lens \in LensPool \union {Null}
    BY <2>0 DEF JobTypes, Jobs
  <2>3. seq \in 0..(MaxJobs + 1)
    BY <2>0, CompressAssumption DEF Control, JobsOK, MainTypes
  <2>4. wseq \in 0..(MaxJobs + 1)
    BY <2>0, CompressAssumption DEF Control, WriterOK, WriterTypes
  <2>5. compressHave \in Nat
    BY <2>0 DEF Control, CompressListOK, ListTypes
  <2>6. writeFirst \in Seqs \union {-1} /\ cjob \in [Compressors -> Seqs \union {-1}] /\ cthreads \in 0..Procs
    BY <2>0 DEF ListTypes, ThreadTypes, MainTypes
  <2>7. {curr, next, hold} \subseteq InPool \union {Null} /\ dict \in InPool \union DictPool \union {Null}
    BY <2>0 DEF MainTypes
  <2>8. mpc \in MainStates /\ cpc \in [Compressors -> ThreadStates] /\ wpc \in WriterStates
    BY <2>0 DEF MainTypes, ThreadTypes, WriterTypes
  <2>9. ThreadStates = {"none", "get", "window", "compress", "insert", "check", "calc", "exited"}
    BY DEF ThreadStates, Having, Working
  <2>10. WriterStates = {"none", "header", "get", "length", "write", "combine", "trailer", "ended"}
    BY DEF WriterStates, Busy
  <2> QED
    BY <2>1, <2>2, <2>3, <2>4, <2>5, <2>6, <2>7, <2>8, <2>9, <2>10 DEF TypeOK, MainStates
<1> QED
  BY <1>1, ReferencesInvariant, CountsAreReferences, PTL

(* When the rsync part of parallel_compress() moves input between curr and *)
(* next, or cuts the tail of curr, no job and no thread has a reference to *)
(* them.                                                                   *)
THEOREM MovesAreUnshared == Spec => []MovesUnshared
<1>1. Control /\ References => MovesUnshared
  <2> SUFFICES ASSUME Control, References PROVE MovesUnshared
    OBVIOUS
  <2>1. ASSUME mpc \in {"rsync", "tail"} PROVE refs[curr] = 1
    <3>1. curr \in Spaces /\ held[<<"curr", 0>>] = curr
      BY <2>1, PoolsApart, HeldValues DEF HeldCurr, Control, BuffersOK, Types, MainTypes
    <3> QED
      BY <3>1, MainTokens, OneUse DEF References, CountsOK, MainAlone
  <2>2. ASSUME mpc = "rsync" PROVE refs[next] = 1
    <3>1. next \in Spaces /\ held[<<"next", 0>>] = next
      BY <2>2, PoolsApart, HeldValues DEF HeldNext, Control, BuffersOK, Types, MainTypes
    <3> QED
      BY <3>1, MainTokens, OneUse DEF References, CountsOK, MainAlone
  <2> QED
    BY <2>1, <2>2 DEF MovesUnshared
<1> QED
  BY <1>1, ReferencesInvariant, PTL

(* The assertions of write_thread() at the end of a stream hold, and when  *)
(* a stream is done every buffer is back in its pool, so that free_pool()  *)
(* finds as many as were made.                                             *)
THEOREM AssertionsHold == Spec => []Asserts
<1>1. Control /\ References => Asserts
  <2> SUFFICES ASSUME Control, References PROVE Asserts
    OBVIOUS
  <2>0. compressList \in Seq(Seqs \union {-1}) /\ writeList \in Seq(Seqs) /\ compressHave = Len(compressList)
    BY DEF Control, Types, ListTypes, CompressListOK
  <2>1. ASSUME wpc = "trailer" PROVE compressList = <<>> /\ compressHave = 0 /\ writeList = <<>>
    <3>1. AtWrite = seq /\ AllMade
      BY <2>1 DEF AtWrite, Control, WriterOK
    <3>2. Taken = seq /\ seq \in Nat
      BY <3>1, Numbers
    <3>3. InStream
      BY <3>1 DEF InStream, AllMade, Control, ThreadsOK
    <3>4. Len(compressList) = 0
      BY <2>0, <3>2, <3>3 DEF Taken
    <3>5. writeList = <<>>
      <4>0. \A i \in 1..Len(writeList) : writeList[i] \in Seqs
        BY <2>0
      <4>1. \A i \in 1..Len(writeList) : AtWrite <= writeList[i] /\ writeList[i] < Taken /\ writeList[i] \in Nat
        BY <4>0, Numbers DEF Control, WriteListOK
      <4>2. ~(1 \in 1..Len(writeList))
        BY <3>1, <3>2, <4>1
      <4> QED
        BY <2>0, <4>2
    <3> QED
      BY <2>0, <3>4, <3>5
  <2>2. compressHave # 0 => compressList # <<>>
    BY <2>0
  <2>3. ASSUME mpc = "idle", NEW s \in Spaces PROVE refs[s] = 0
    <3>1. \A h \in Tokens : held[h] # s
      BY <2>3, NobodyHolds, CompressAssumption DEF References, Control, ThreadsOK
    <3> QED
      BY <3>1, NotInUse DEF References, CountsOK
  <2> QED
    BY <2>1, <2>2, <2>3 DEF Asserts
<1> QED
  BY <1>1, ReferencesInvariant, PTL

(* A buffer that main or a thread is about to read is never back in its    *)
(* pool, where another could get it and write to it.                       *)
THEOREM NoUseAfterDrop == Spec => []ReadsHeld
<1>1. Control /\ References => ReadsHeld
  <2> SUFFICES ASSUME Control, References PROVE ReadsHeld
    OBVIOUS
  <2>1. \A h \in Tokens : held[h] # Null /\ held[h] \in Spaces => refs[held[h]] # 0
    BY NotInUse DEF References, CountsOK
  <2>2. /\ mpc \in {"rsync", "tail", "dict"} => refs[curr] # 0
        /\ mpc \in {"rsync", "dict"} => refs[next] # 0
        /\ mpc = "dict" /\ dict # Null => refs[dict] # 0
    <3>1. {curr, next, dict} \subseteq Spaces \union {Null}
      BY PoolsApart DEF Control, Types, MainTypes
    <3>2. /\ mpc \in {"rsync", "tail", "dict"} => held[<<"curr", 0>>] = curr /\ curr # Null
          /\ mpc \in {"rsync", "dict"} => held[<<"next", 0>>] = next /\ next # Null
          /\ mpc = "dict" => held[<<"dict", 0>>] = dict
      BY HeldValues DEF HeldCurr, HeldNext, HeldDict, Control, BuffersOK
    <3> QED
      BY <2>1, <3>1, <3>2, MainTokens
  <2>3. ASSUME NEW c \in Compressors
        PROVE  /\ cpc[c] = "window" /\ jobs[cjob[c]].out # Null => refs[jobs[cjob[c]].out] # 0
               /\ cpc[c] \in {"compress", "check"} => refs[jobs[cjob[c]].in] # 0
               /\ cpc[c] = "compress" /\ jobs[cjob[c]].lens # Null => refs[jobs[cjob[c]].lens] # 0
    <3>1. PICK n : n = cjob[c]
      OBVIOUS
    <3>2. CASE cpc[c] \in {"window", "compress"}
      <4>1. n \in Seqs /\ Present(n) /\ (wpc \in Busy => n # wseq)
        BY <3>1, <3>2, Numbers DEF Having, Working, Present
      <4>2. HeldIn(n) = jobs[n].in /\ HeldLens(n) = jobs[n].lens
        BY <4>1 DEF HeldIn, HeldLens, Busy
      <4>3. cpc[c] = "window" => HeldOut(n) = jobs[n].out
        <5>1. cpc[c] = "window" => \A d \in Compressors : cpc[d] = "compress" => cjob[d] # n
          BY <3>1 DEF Control, WorkOK, Having, Working
        <5> QED
          BY <4>1, <5>1 DEF HeldOut, Busy
      <4>4. /\ jobs[n].in \in Spaces /\ jobs[n].in # Null /\ jobs[n].out \in Spaces \union {Null}
            /\ jobs[n].lens \in Spaces \union {Null}
        <5>1. jobs[n] \in Jobs /\ jobs[n].in \in InPool
          BY <3>1, <3>2, ThreadHasJob DEF Control, Having, Working
        <5> QED
          BY <5>1, PoolsApart DEF Jobs
      <4>5. held[<<"in", n>>] = jobs[n].in /\ held[<<"lens", n>>] = jobs[n].lens
            /\ (cpc[c] = "window" => held[<<"out", n>>] = jobs[n].out)
        BY <4>1, <4>2, <4>3, HeldValues
      <4> QED
        BY <2>1, <3>1, <3>2, <4>1, <4>4, <4>5, TokenKinds
    <3>3. CASE cpc[c] = "check"
      <4>1. jobs[cjob[c]].in \in Spaces /\ jobs[cjob[c]].in # Null
        BY <3>3, ThreadHasJob, PoolsApart DEF Control, Having, Working
      <4>2. held[<<"check", c>>] = jobs[cjob[c]].in
        BY <3>3, HeldValues DEF HeldCheck
      <4> QED
        BY <2>1, <3>3, <4>1, <4>2, TokenKinds
    <3> QED
      BY <3>2, <3>3
  <2>4. ASSUME wpc \in {"length", "write"}
        PROVE  IF wpc = "length" THEN refs[jobs[wseq].in] # 0 ELSE refs[jobs[wseq].out] # 0
    <3>1. /\ wseq \in Seqs /\ jobs[wseq].out \in Spaces /\ jobs[wseq].in \in Spaces /\ Present(wseq)
          /\ \A c \in Compressors : cpc[c] = "compress" => cjob[c] # wseq
      BY <2>4, WrittenIsCompressed, PoolsApart DEF Busy, Working
    <3>2. wpc = "length" => HeldIn(wseq) = jobs[wseq].in
      BY <3>1 DEF HeldIn
    <3>3. wpc = "write" => HeldOut(wseq) = jobs[wseq].out
      BY <3>1 DEF HeldOut
    <3>4. jobs[wseq].in # Null /\ jobs[wseq].out # Null
      BY <3>1, CompressAssumption
    <3>5. /\ held[<<"in", wseq>>] = HeldIn(wseq) /\ held[<<"out", wseq>>] = HeldOut(wseq)
          /\ <<"in", wseq>> \in Tokens /\ <<"out", wseq>> \in Tokens
      BY <3>1, TokenKinds, HeldValues
    <3>6. wpc = "length" => refs[jobs[wseq].in] # 0
      BY <2>1, <3>1, <3>2, <3>4, <3>5
    <3>7. wpc = "write" => refs[jobs[wseq].out] # 0
      BY <2>1, <3>1, <3>3, <3>4, <3>5
    <3> QED
      BY <2>4, <3>6, <3>7
  <2> QED
    BY <2>2, <2>3, <2>4 DEF ReadsHeld
<1> QED
  BY <1>1, ReferencesInvariant, PTL

-----------------------------------------------------------------------------
(* Contents                                                                *)

(* What is left of the input i for main: next = [lo, mid) and, if a tail   *)
(* was cut off, hold = [mid, top).                                         *)
Remains(lo, mid, top, rest, seen, i) ==
  /\ {lo, mid, top, rest, seen} \subseteq Int
  /\ 0 <= lo /\ lo <= mid /\ mid <= top /\ top <= i.length
  /\ mid - lo <= Size /\ MinOf(Size, i.length) <= mid /\ (lo = mid => mid = i.length)
  /\ IF rest = 0 THEN top = mid /\ (lo = 0 \/ lo >= Size \/ lo = i.length)
     ELSE i.rsync /\ top # mid /\ top - mid <= Size /\ (top - mid = Size \/ top = i.length)
  /\ IF i.rsync
       THEN /\ HitsIn(i.hits, lo, seen) = {}
            /\ IF rest = 0 THEN lo <= seen /\ seen <= mid
               ELSE rest = mid - lo /\ mid <= seen /\ seen <= top /\ seen <= lo + Size
       ELSE seen = 0 /\ rest = 0 /\ (mid - lo = Size \/ mid = i.length)

(* The same when a job is begun, with curr = [lo, mid), next = [mid, top). *)
Faces(lo, mid, top, rest, seen, i) ==
  /\ {lo, mid, top, rest, seen} \subseteq Int
  /\ 0 <= lo /\ lo <= mid /\ mid <= top /\ top <= i.length
  /\ mid - lo <= Size /\ MinOf(Size, i.length) <= mid
  /\ top - mid <= Size /\ (top - mid = Size \/ top = i.length)
  /\ lo < mid \/ i.length = 0
  /\ rest = 0 => lo = 0 \/ lo >= Size
  /\ IF i.rsync
       THEN /\ HitsIn(i.hits, lo, seen) = {}
            /\ IF rest = 0 THEN lo <= seen /\ seen <= mid
               ELSE rest = mid - lo /\ mid <= seen /\ seen <= top /\ seen <= lo + Size
       ELSE seen = 0 /\ rest = 0 /\ (mid - lo = Size \/ mid = i.length)

(* The jobs decided on, where each begins (f) and where the blocks end (S).*)
Decided == IF mpc \in {"tail", "dict", "append"} THEN seq + 1 ELSE seq
Of(f, n) == Piece(f[n], f[n + 1])
Part(f, S, n) == {s \in S : f[n] < s /\ s <= f[n + 1]} \union {f[n + 1]}

CutsOK(f, S) ==
  /\ f \in [0..(MaxJobs + 1) -> Nat] /\ f[0] = 0
  /\ \A n \in 0..Decided : f[n] \in S
  /\ \A m, n \in 0..Decided : m <= n => f[m] <= f[n]
  /\ Chain(S, f[Decided], input.length, input.hits)

(* What main has when the input up to a position is in jobs.               *)
Buffered(at) ==
  \E mid \in 0..input.length :
    /\ Remains(at, mid, pos, left, scan, input)
    /\ data[next].piece = Piece(at, mid)
    /\ hold = Null <=> left = 0
    /\ hold # Null => data[hold].piece = Piece(mid, pos)

DictAt(at) ==
  /\ dict = Null <=> at = 0
  /\ dict # Null => Window(data[dict].piece, at)

(* A job is of some length and fits in a buffer.  It ends far enough from  *)
(* the start of the input for a full window, if it is not the first or the *)
(* last.                                                                   *)
FarEnough(lo, hi, i) ==
  /\ lo < hi \/ i.length = 0
  /\ hi - lo <= Size
  /\ lo = 0 \/ hi >= Dict \/ hi = i.length

MainData(f) ==
  /\ mpc = "first" => seq = 0 /\ pos = 0 /\ left = 0 /\ scan = 0
  /\ mpc = "job" => /\ Buffered(f[seq]) /\ DictAt(f[seq])
                    /\ f[seq] < input.length \/ input.length = 0
  /\ mpc = "rsync" =>
       /\ DictAt(f[seq])
       /\ \E mid \in 0..input.length :
            /\ Faces(f[seq], mid, pos, left, scan, input)
            /\ data[curr].piece = Piece(f[seq], mid) /\ data[next].piece = Piece(mid, pos)
  /\ mpc = "tail" =>
       /\ DictAt(f[seq]) /\ FarEnough(f[seq], f[seq + 1], input)
       /\ \E mid \in 0..input.length :
            /\ Remains(f[seq + 1], mid, pos, left, scan, input)
            /\ data[curr].piece = Piece(f[seq], mid) /\ data[hold].piece = Piece(mid, pos)
  /\ mpc = "dict" =>
       /\ DictAt(f[seq]) /\ FarEnough(f[seq], f[seq + 1], input)
       /\ data[curr].piece = Of(f, seq) /\ Buffered(f[seq + 1])
  /\ mpc = "append" =>
       IF jobs[seq].more
         THEN Buffered(f[seq + 1]) /\ DictAt(f[seq + 1]) /\ f[seq + 1] < input.length
         ELSE f[seq + 1] = input.length
  /\ AllMade => f[seq] = input.length

(* What a job and a compress thread have.  Jobs are raw until they are     *)
(* compressed.                                                             *)
Raw(n) == n >= Taken \/ \E c \in Compressors : cjob[c] = n /\ cpc[c] \in {"window", "compress"}
WindowAt(at) == {NoWindow, Piece(at - MinOf(at, Dict), at)}
Lens(n) == IF HeldLens(n) = Null THEN <<>> ELSE data[HeldLens(n)].lens

JobData(f, S, n) ==
  /\ HeldIn(n) # Null => data[HeldIn(n)].piece = Of(f, n)
  /\ Raw(n) => /\ jobs[n].out \notin OutPool
               /\ n < Decided => BlockEnds(Of(f, n), Lens(n)) = Part(f, S, n)
  /\ HeldOut(n) # Null =>
       IF HeldOut(n) \in OutPool
         THEN LET o == data[HeldOut(n)]
              IN  o.piece = Of(f, n) /\ o.window \in WindowAt(f[n]) /\ o.ends = Part(f, S, n)
         ELSE Window(data[HeldOut(n)].piece, f[n])
  /\ n < seq /\ jobs[n].calc => jobs[n].check = Of(f, n)

ThreadData(f, c) ==
  /\ HeldCheck(c) # Null => data[HeldCheck(c)].piece = Of(f, cjob[c])
  /\ cpc[c] = "compress" => cwindow[c] \in WindowAt(f[cjob[c]])
  /\ cpc[c] = "calc" => jobs[cjob[c]].check = Of(f, cjob[c])

(* What is written so far.                                                 *)
Written == IF wpc = "combine" THEN wseq + 1 ELSE wseq
Measured == IF wpc \in {"write", "combine"} THEN wseq + 1 ELSE wseq

OutData(f, S) ==
  wpc # "header" =>
    /\ output.piece = Piece(0, f[Written]) /\ output.check = Piece(0, f[wseq])
    /\ output.ulen = f[Measured]
    /\ output.ends = {s \in S : s <= f[Written]} /\ output.good

Story(f, S) ==
  /\ CutsOK(f, S) /\ MainData(f) /\ OutData(f, S)
  /\ \A n \in Seqs : Present(n) => JobData(f, S, n)
  /\ \A c \in Compressors : ThreadData(f, c)

Contents == wpc # "none" => \E f, S : Story(f, S)

-----------------------------------------------------------------------------
(* The loop of parallel_compress() on positions                            *)

LEMMA InputIs ==
  ASSUME NEW i \in Inputs
  PROVE  /\ Input(i.length, i.hits) /\ i.length \in Nat /\ i.hits \subseteq 1..i.length
         /\ i.rsync \in BOOLEAN /\ (~i.rsync => i.hits = {})
         /\ Size \in Nat /\ 0 < Size /\ Dict \in Nat /\ 0 < Dict /\ Dict <= Size
BY BlocksAssumption DEF Inputs, Input

(* The next buffer comes from hold or from the input.                      *)
LEMMA RemainsFaces ==
  ASSUME NEW i \in Inputs, NEW lo, NEW mid, NEW top, NEW rest, NEW seen,
         Remains(lo, mid, top, rest, seen, i), lo < i.length \/ i.length = 0,
         NEW top2, top2 = IF rest = 0 THEN MinOf(mid + Size, i.length) ELSE top
  PROVE  Faces(lo, mid, top2, rest, seen, i)
<1>1. /\ i.length \in Int /\ Size \in Int /\ 0 < Size /\ lo \in Int /\ mid \in Int /\ top \in Int
      /\ 0 <= lo /\ lo <= mid /\ mid <= top /\ top <= i.length
  BY InputIs DEF Remains
<1>2. /\ top2 \in Int /\ mid <= top2 /\ top2 <= i.length /\ top2 - mid <= Size
      /\ (top2 - mid = Size \/ top2 = i.length) /\ (rest # 0 => top2 = top)
  <2>1. CASE rest = 0
    BY <1>1, <2>1 DEF MinOf
  <2>2. CASE rest # 0
    BY <1>1, <2>2 DEF Remains
  <2> QED
    BY <2>1, <2>2
<1>3. lo < mid \/ i.length = 0
  BY <1>1 DEF Remains
<1>4. rest = 0 => lo = 0 \/ lo >= Size
  BY <1>1 DEF Remains
<1> QED
  BY <1>1, <1>2, <1>3, <1>4 DEF Remains, Faces

(* The job [lo, hi) that comes out of a turn, and what is left.  B is      *)
(* where the blocks end in it.                                             *)
Grows(B, lo, hi, i) ==
  /\ hi \in Int /\ lo <= hi /\ hi <= i.length
  /\ IF i.length = 0 THEN hi = 0 /\ B = {0} ELSE Extends(B, lo, hi, i.length, i.hits)

TurnLeaves(B, lo, hi, tailed, mid, top, rest, seen, i) ==
  /\ FarEnough(lo, hi, i) /\ Grows(B, lo, hi, i)
  /\ IF tailed THEN Remains(hi, mid, top, rest, seen, i) /\ rest = mid - hi /\ rest # 0
     ELSE Remains(hi, top, top, rest, seen, i) /\ rest = 0

(* No hash, or nothing to hash.                                            *)
LEMMA NoTurn ==
  ASSUME NEW i \in Inputs, NEW lo, NEW mid, NEW top, NEW rest, NEW seen,
         Faces(lo, mid, top, rest, seen, i), ~(i.rsync /\ mid - lo # 0)
  PROVE  TurnLeaves({mid}, lo, mid, FALSE, mid, top, rest, seen, i)
<1>1. /\ i.length \in Int /\ Size \in Int /\ 0 < Size /\ lo \in Int /\ mid \in Int /\ top \in Int
      /\ Dict \in Int /\ Dict <= Size /\ rest \in Int /\ seen \in Int
      /\ 0 <= lo /\ lo <= mid /\ mid <= top /\ top <= i.length /\ mid - lo <= Size
      /\ (Size <= mid \/ i.length <= mid) /\ (lo < mid \/ i.length = 0)
      /\ top - mid <= Size /\ (top - mid = Size \/ top = i.length)
  BY InputIs DEF Faces, MinOf
<1>2. rest = 0
  BY <1>1 DEF Faces
<1>3. FarEnough(lo, mid, i)
  BY <1>1 DEF FarEnough
<1>4. IF i.length = 0 THEN mid = 0 /\ {mid} = {0} ELSE Extends({mid}, lo, mid, i.length, i.hits)
  <2>1. CASE i.length = 0
    BY <1>1, <2>1
  <2>2. CASE i.length # 0
    <3>1. ~i.rsync /\ i.hits = {} /\ lo < mid /\ (mid - lo = Size \/ mid = i.length)
      BY <1>1, <2>2, InputIs DEF Faces
    <3>2. \A c \in Int : lo <= c /\ c < mid /\ (c = lo \/ c \in i.hits) => mid = MinOf(i.length, c + Size)
      BY <1>1, <3>1 DEF MinOf
    <3>3. {mid} = HitsIn(i.hits, lo, mid) \union {mid}
      BY <3>1 DEF HitsIn
    <3>4. mid \in Int /\ lo < mid /\ mid <= i.length /\ mid - lo <= Size
      BY <1>1, <3>1
    <3> QED
      BY ONLY <2>2, <3>2, <3>3, <3>4 DEF Extends
  <2> QED
    BY <2>1, <2>2
<1>5. Remains(mid, top, top, rest, seen, i)
  <2>1. /\ mid = top => top = i.length
        /\ mid = 0 \/ mid >= Size \/ mid = i.length
        /\ MinOf(Size, i.length) <= top
    BY <1>1 DEF MinOf
  <2>2. CASE i.rsync
    <3>1. i.length = 0 /\ lo = 0 /\ mid = 0 /\ top = 0
      BY <1>1, <2>2
    <3>2. HitsIn(i.hits, mid, seen) = {} /\ mid <= seen /\ seen <= top
      BY <1>2, <2>2, <3>1 DEF Faces
    <3> QED
      BY <1>1, <1>2, <2>1, <2>2, <3>2 DEF Remains
  <2>3. CASE ~i.rsync
    <3>1. seen = 0
      BY <2>3 DEF Faces
    <3> QED
      BY <1>1, <1>2, <2>1, <2>3, <3>1 DEF Remains
  <2> QED
    BY <2>2, <2>3
<1> QED
  BY <1>1, <1>2, <1>3, <1>4, <1>5 DEF TurnLeaves, Grows

LEMMA TurnDone ==
  ASSUME NEW i \in Inputs, NEW lo, NEW mid, NEW top, NEW rest, NEW seen,
         Faces(lo, mid, top, rest, seen, i), i.rsync, mid - lo # 0,
         NEW r, r = RsyncTurn(Piece(lo, mid), Piece(mid, top), rest, seen, i.hits)
  PROVE  \E hi :
           /\ TurnLeaves(BlockEnds(Piece(lo, hi), r.lens), lo, hi, r.tailed, mid, top,
                         r.left, r.scan, i)
           /\ r.tailed \in BOOLEAN
           /\ IF r.tailed THEN r.next = Piece(mid, top)
              ELSE r.curr = Piece(lo, hi) /\ r.next = Piece(hi, top)
<1>1. /\ i.length \in Int /\ Size \in Int /\ 0 < Size /\ lo \in Int /\ mid \in Int /\ top \in Int
      /\ Dict \in Int /\ Dict <= Size /\ rest \in Int /\ seen \in Int
      /\ 0 <= lo /\ lo < mid /\ mid <= top /\ top <= i.length /\ mid - lo <= Size
      /\ (Size <= mid \/ i.length <= mid) /\ i.length # 0
      /\ top - mid <= Size /\ (top - mid = Size \/ top = i.length)
      /\ (rest = 0 => lo = 0 \/ lo >= Size)
  BY InputIs DEF Faces, MinOf
<1>2. Ready(lo, mid, top, rest, seen, i.length, i.hits)
  BY <1>1 DEF Ready, Faces
<1>3. TurnedOut(r, lo, mid, top, rest, seen, i.length, i.hits)
  BY <1>2, InputIs, TurnIs
<1>4. PICK hi : hi = r.curr.hi
  OBVIOUS
<1>5. /\ r.curr = Piece(lo, hi) /\ r.tailed \in BOOLEAN
      /\ Extends(BlockEnds(Piece(lo, hi), r.lens), lo, hi, i.length, i.hits)
      /\ HitsIn(i.hits, hi, r.scan) = {} /\ hi <= r.scan /\ r.scan = MinOf(lo + Size, top)
      /\ IF r.tailed
           THEN /\ hi < mid /\ mid < top /\ r.next = Piece(mid, top) /\ r.left = mid - hi
                /\ rest = 0
           ELSE /\ r.left = 0 /\ mid <= hi /\ r.next = Piece(hi, top)
                /\ hi = top => top = i.length
  BY ONLY <1>3, <1>4 DEF TurnedOut, Stopped
<1>6. hi \in Int /\ lo < hi /\ hi <= i.length /\ hi - lo <= Size
  BY <1>5 DEF Extends
<1>7. r.scan \in Int /\ mid <= r.scan /\ r.scan <= top /\ r.scan <= lo + Size
  BY <1>1, <1>5 DEF MinOf
<1>8. CASE r.tailed
  <2>1. /\ hi < mid /\ mid < top /\ r.next = Piece(mid, top) /\ r.left = mid - hi /\ rest = 0
    BY <1>5, <1>8
  <2>2. FarEnough(lo, hi, i)
    BY <1>1, <1>6, <2>1 DEF FarEnough
  <2>3. Remains(hi, mid, top, r.left, r.scan, i)
    <3>1. r.left # 0 /\ r.left \in Int /\ r.scan <= hi + Size /\ mid - hi <= Size
      BY <1>1, <1>6, <1>7, <2>1
    <3>2. MinOf(Size, i.length) <= mid /\ hi # mid /\ 0 <= hi /\ hi <= mid
      BY <1>1, <1>6, <2>1 DEF MinOf
    <3> QED
      BY <1>1, <1>5, <1>6, <1>7, <2>1, <3>1, <3>2 DEF Remains
  <2> QED
    BY <1>1, <1>5, <1>6, <1>8, <2>1, <2>2, <2>3 DEF TurnLeaves, Grows
<1>9. CASE ~r.tailed
  <2>1. /\ r.left = 0 /\ mid <= hi /\ r.next = Piece(hi, top) /\ (hi = top => top = i.length)
    BY <1>5, <1>9
  <2>2. hi <= top
    BY <1>1, <1>5, <1>6, <1>7
  <2>3. FarEnough(lo, hi, i)
    BY <1>1, <1>6, <2>1 DEF FarEnough
  <2>4. Remains(hi, top, top, r.left, r.scan, i)
    <3>1. /\ top - hi <= Size /\ MinOf(Size, i.length) <= top
          /\ hi = 0 \/ hi >= Size \/ hi = i.length
      BY <1>1, <1>6, <2>1, <2>2 DEF MinOf
    <3> QED
      BY <1>1, <1>5, <1>6, <1>7, <2>1, <2>2, <3>1 DEF Remains
  <2> QED
    BY <1>1, <1>5, <1>6, <1>9, <2>1, <2>3, <2>4 DEF TurnLeaves, Grows
<1> QED
  BY <1>5, <1>8, <1>9

-----------------------------------------------------------------------------
(* Buffers in use                                                          *)

(* A step writes to no buffer that was and is in use, but to those in X.   *)
Untouched(X) == \A s \in Spaces \ X : refs[s] # 0 /\ refs'[s] # 0 => data'[s] = data[s]

LEMMA NextHeldValues ==
  /\ held'[<<"curr", 0>>] = HeldCurr' /\ held'[<<"next", 0>>] = HeldNext'
  /\ held'[<<"hold", 0>>] = hold' /\ held'[<<"dict", 0>>] = HeldDict'
  /\ \A n \in Seqs : /\ held'[<<"in", n>>] = HeldIn(n)' /\ held'[<<"out", n>>] = HeldOut(n)'
                     /\ held'[<<"lens", n>>] = HeldLens(n)'
  /\ \A c \in Compressors : held'[<<"check", c>>] = HeldCheck(c)'
<1>1. \A h \in Tokens : held'[h] =
        CASE h[1] = "curr" -> HeldCurr'
          [] h[1] = "next" -> HeldNext'
          [] h[1] = "hold" -> hold'
          [] h[1] = "dict" -> HeldDict'
          [] h[1] = "in" -> HeldIn(h[2])'
          [] h[1] = "out" -> HeldOut(h[2])'
          [] h[1] = "lens" -> HeldLens(h[2])'
          [] h[1] = "check" -> HeldCheck(h[2])'
  BY DEF held
<1> QED
  BY <1>1, TokenKinds

(* What somebody had before the step and somebody has after it.            *)
LEMMA StillThere ==
  ASSUME CountsOK, CountsOK', NEW X, Untouched(X), NEW h \in Tokens, NEW k \in Tokens,
         NEW s \in Spaces \ X, held[h] = s, held'[k] = s
  PROVE  data'[s] = data[s]
<1>1. refs[s] # 0
  BY NotInUse DEF CountsOK
<1>2. refs'[s] # 0
  <2>1. Counts(refs', held')
    BY DEF CountsOK
  <2> QED
    BY <2>1, NotInUse
<1> QED
  BY <1>1, <1>2 DEF Untouched

LEMMA HeldAreSpaces ==
  ASSUME Control
  PROVE  /\ {HeldCurr, HeldNext, hold, HeldDict} \subseteq Spaces \union {Null}
         /\ \A n \in Seqs : {HeldIn(n), HeldOut(n), HeldLens(n)} \subseteq Spaces \union {Null}
         /\ \A c \in Compressors : HeldCheck(c) \in Spaces \union {Null}
<1>1. {curr, next, hold, dict} \subseteq Spaces \union {Null}
  BY PoolsApart DEF Control, Types, MainTypes
<1>2. \A n \in Seqs : {jobs[n].in, jobs[n].out, jobs[n].lens} \subseteq Spaces \union {Null}
  BY PoolsApart DEF Control, Types, JobTypes, Jobs
<1>3. \A c \in Compressors : cpc[c] \in {"insert", "check"} => jobs[cjob[c]].in \in InPool
  BY ThreadHasJob DEF Control, Having, Working
<1> QED
  BY <1>1, <1>2, <1>3, PoolsApart DEF HeldCurr, HeldNext, HeldDict, HeldIn, HeldOut, HeldLens, HeldCheck

(* In a step that leaves the references where they are, they find what was *)
(* there.                                                                  *)
LEMMA SameContents ==
  ASSUME Control, CountsOK, CountsOK', Untouched({})
  PROVE  /\ HeldCurr # Null /\ HeldCurr' = HeldCurr => data'[HeldCurr] = data[HeldCurr]
         /\ HeldNext # Null /\ HeldNext' = HeldNext => data'[HeldNext] = data[HeldNext]
         /\ hold # Null /\ hold' = hold => data'[hold] = data[hold]
         /\ HeldDict # Null /\ HeldDict' = HeldDict => data'[HeldDict] = data[HeldDict]
         /\ \A n \in Seqs :
              /\ HeldIn(n) # Null /\ HeldIn(n)' = HeldIn(n) => data'[HeldIn(n)] = data[HeldIn(n)]
              /\ HeldOut(n) # Null /\ HeldOut(n)' = HeldOut(n) => data'[HeldOut(n)] = data[HeldOut(n)]
              /\ HeldLens(n) # Null /\ HeldLens(n)' = HeldLens(n) => data'[HeldLens(n)] = data[HeldLens(n)]
         /\ \A c \in Compressors :
              HeldCheck(c) # Null /\ HeldCheck(c)' = HeldCheck(c) => data'[HeldCheck(c)] = data[HeldCheck(c)]
<1>1. \A h \in Tokens, s \in Spaces : held[h] = s /\ held'[h] = s => data'[s] = data[s]
  BY StillThere
<1>2. /\ HeldCurr \in Spaces /\ HeldCurr' = HeldCurr => data'[HeldCurr] = data[HeldCurr]
      /\ HeldNext \in Spaces /\ HeldNext' = HeldNext => data'[HeldNext] = data[HeldNext]
      /\ hold \in Spaces /\ hold' = hold => data'[hold] = data[hold]
      /\ HeldDict \in Spaces /\ HeldDict' = HeldDict => data'[HeldDict] = data[HeldDict]
  BY <1>1, HeldValues, NextHeldValues, TokenKinds
<1>3. ASSUME NEW n \in Seqs
      PROVE  /\ HeldIn(n) \in Spaces /\ HeldIn(n)' = HeldIn(n) => data'[HeldIn(n)] = data[HeldIn(n)]
             /\ HeldOut(n) \in Spaces /\ HeldOut(n)' = HeldOut(n) => data'[HeldOut(n)] = data[HeldOut(n)]
             /\ HeldLens(n) \in Spaces /\ HeldLens(n)' = HeldLens(n) => data'[HeldLens(n)] = data[HeldLens(n)]
  <2>1. <<"in", n>> \in Tokens /\ <<"out", n>> \in Tokens /\ <<"lens", n>> \in Tokens
    BY TokenKinds
  <2>2. /\ held[<<"in", n>>] = HeldIn(n) /\ held'[<<"in", n>>] = HeldIn(n)'
        /\ held[<<"out", n>>] = HeldOut(n) /\ held'[<<"out", n>>] = HeldOut(n)'
        /\ held[<<"lens", n>>] = HeldLens(n) /\ held'[<<"lens", n>>] = HeldLens(n)'
    BY HeldValues, NextHeldValues
  <2> QED
    BY <1>1, <2>1, <2>2
<1>4. ASSUME NEW c \in Compressors
      PROVE  HeldCheck(c) \in Spaces /\ HeldCheck(c)' = HeldCheck(c) => data'[HeldCheck(c)] = data[HeldCheck(c)]
  BY <1>1, HeldValues, NextHeldValues, TokenKinds
<1> QED
  BY <1>2, <1>3, <1>4, HeldAreSpaces

(* drop_space(), get_space() and reading into a new buffer leave buffers   *)
(* in use alone.                                                           *)
LEMMA LeftAlone ==
  ASSUME Control, NEW o, o \in Spaces => refs[o] = 0, NEW h
  PROVE  /\ data' = data => Untouched({})
         /\ data' = Kept(refs', data) => Untouched({})
         /\ data' = [data EXCEPT ![o] = h] => Untouched({})
         /\ data' = Kept(refs', [data EXCEPT ![o] = h]) => Untouched({})
BY DEF Untouched, Kept, Control, Types, PoolTypes, DataOK

(* Where the parts of the story stay as they are.                          *)
LEMMA CutsKept ==
  ASSUME input' = input, Decided' = Decided, NEW f, NEW S, CutsOK(f, S)
  PROVE  CutsOK(f, S)'
BY DEF CutsOK

LEMMA MainDataKept ==
  ASSUME Control, References, CountsOK', Untouched({}),
         UNCHANGED <<mpc, input, pos, seq, curr, next, hold, left, scan, dict>>,
         mpc = "append" => jobs'[seq].more = jobs[seq].more,
         NEW f, MainData(f)
  PROVE  MainData(f)'
<1>1. HeldCurr' = HeldCurr /\ HeldNext' = HeldNext /\ HeldDict' = HeldDict
  BY DEF HeldCurr, HeldNext, HeldDict
<1>2. /\ HeldCurr # Null => data'[HeldCurr] = data[HeldCurr]
      /\ HeldNext # Null => data'[HeldNext] = data[HeldNext]
      /\ hold # Null => data'[hold] = data[hold]
      /\ HeldDict # Null => data'[HeldDict] = data[HeldDict]
  BY <1>1, SameContents DEF References
<1>3. BuffersOK /\ MainOK
  BY DEF Control, References
<1>4. /\ mpc \in {"rsync", "tail", "dict"} => data'[curr] = data[curr]
      /\ mpc \in {"job", "rsync", "dict", "append"} => data'[next] = data[next]
      /\ mpc = "tail" => data'[hold] = data[hold]
      /\ mpc \in {"job", "rsync", "tail", "dict"} \/ (mpc = "append" /\ jobs[seq].more)
           => (dict # Null => data'[dict] = data[dict])
  BY <1>2, <1>3 DEF HeldCurr, HeldNext, HeldDict, BuffersOK, MainOK
<1>5. ASSUME NEW at, mpc \in {"job", "dict", "append"}, Buffered(at) PROVE Buffered(at)'
  BY <1>2, <1>4, <1>5 DEF Buffered
<1>6. ASSUME NEW at, \/ mpc \in {"job", "rsync", "tail", "dict"}
                     \/ mpc = "append" /\ jobs[seq].more,
             DictAt(at)
      PROVE  DictAt(at)'
  BY <1>4, <1>6 DEF DictAt
<1>7. CASE mpc = "job"
  BY <1>5, <1>6, <1>7 DEF MainData, AllMade
<1>8. CASE mpc = "rsync"
  BY <1>4, <1>6, <1>8 DEF MainData, AllMade
<1>9. CASE mpc = "tail"
  BY <1>4, <1>6, <1>9 DEF MainData, AllMade
<1>10. CASE mpc = "dict"
  BY <1>4, <1>5, <1>6, <1>10 DEF MainData, AllMade
<1>11. CASE mpc = "append"
  BY <1>5, <1>6, <1>11 DEF MainData, AllMade
<1>12. CASE mpc \notin {"job", "rsync", "tail", "dict", "append"}
  BY <1>12 DEF MainData, AllMade
<1> QED
  BY <1>7, <1>8, <1>9, <1>10, <1>11, <1>12

LEMMA JobDataIs ==
  ASSUME NEW f, NEW S, NEW g, NEW T, NEW n, JobData(f, S, n), jobs'[n].out = jobs[n].out,
         HeldIn(n)' # Null => HeldIn(n)' = HeldIn(n) /\ data'[HeldIn(n)] = data[HeldIn(n)],
         HeldOut(n)' # Null => HeldOut(n)' = HeldOut(n) /\ data'[HeldOut(n)] = data[HeldOut(n)],
         HeldLens(n)' = HeldLens(n), HeldLens(n) # Null => data'[HeldLens(n)] = data[HeldLens(n)],
         Raw(n)' => Raw(n), n < Decided' => n < Decided,
         n < seq' /\ jobs'[n].calc => jobs'[n].check = Of(f, n),
         g[n] = f[n], g[n + 1] = f[n + 1], Part(g, T, n) = Part(f, S, n)
  PROVE  JobData(g, T, n)'
<1>1. Of(g, n) = Of(f, n) /\ WindowAt(g[n]) = WindowAt(f[n])
  BY DEF Of
<1>2. Lens(n)' = Lens(n)
  BY DEF Lens
<1>3. HeldIn(n)' # Null => data'[HeldIn(n)'].piece = Of(g, n)
  BY <1>1 DEF JobData
<1>4. Raw(n)' => /\ jobs'[n].out \notin OutPool
                 /\ n < Decided' => BlockEnds(Of(g, n), Lens(n)') = Part(g, T, n)
  BY <1>1, <1>2 DEF JobData
<1>5. HeldOut(n)' # Null =>
        IF HeldOut(n)' \in OutPool
          THEN LET o == data'[HeldOut(n)']
               IN  o.piece = Of(g, n) /\ o.window \in WindowAt(g[n]) /\ o.ends = Part(g, T, n)
          ELSE Window(data'[HeldOut(n)'].piece, g[n])
  BY <1>1 DEF JobData
<1>6. n < seq' /\ jobs'[n].calc => jobs'[n].check = Of(g, n)
  BY <1>1
<1> QED
  BY <1>3, <1>4, <1>5, <1>6 DEF JobData, Of, Part, WindowAt

LEMMA JobDataKept ==
  ASSUME NEW f, NEW S, NEW g, NEW T, NEW n, JobData(f, S, n), jobs'[n] = jobs[n],
         HeldIn(n)' # Null => HeldIn(n)' = HeldIn(n) /\ data'[HeldIn(n)] = data[HeldIn(n)],
         HeldOut(n)' # Null => HeldOut(n)' = HeldOut(n) /\ data'[HeldOut(n)] = data[HeldOut(n)],
         HeldLens(n)' = HeldLens(n), HeldLens(n) # Null => data'[HeldLens(n)] = data[HeldLens(n)],
         Raw(n)' => Raw(n), n < Decided' => n < Decided, n < seq' /\ jobs[n].calc => n < seq,
         g[n] = f[n], g[n + 1] = f[n + 1], Part(g, T, n) = Part(f, S, n)
  PROVE  JobData(g, T, n)'
<1>1. n < seq' /\ jobs'[n].calc => jobs'[n].check = Of(f, n)
  BY DEF JobData
<1> QED
  BY <1>1, JobDataIs

LEMMA ThreadDataKept ==
  ASSUME NEW f, NEW g, NEW c, ThreadData(f, c),
         cpc'[c] = cpc[c], cjob'[c] = cjob[c], cwindow'[c] = cwindow[c],
         HeldCheck(c)' = HeldCheck(c), HeldCheck(c) # Null => data'[HeldCheck(c)] = data[HeldCheck(c)],
         cpc[c] = "calc" => jobs'[cjob[c]].check = jobs[cjob[c]].check,
         cpc[c] \in Having => g[cjob[c]] = f[cjob[c]] /\ g[cjob[c] + 1] = f[cjob[c] + 1]
  PROVE  ThreadData(g, c)'
<1>1. HeldCheck(c) # Null => cpc[c] \in {"insert", "check"}
  BY DEF HeldCheck
<1>2. cpc[c] \in {"insert", "check", "compress", "calc"} => Of(g, cjob[c]) = Of(f, cjob[c]) /\ g[cjob[c]] = f[cjob[c]]
  BY DEF Of, Having, Working
<1> QED
  BY <1>1, <1>2 DEF ThreadData, Of, WindowAt

LEMMA OutDataKept ==
  ASSUME NEW f, NEW S, OutData(f, S), UNCHANGED <<wpc, wseq, output>>
  PROVE  OutData(f, S)'
BY DEF OutData, Written, Measured

-----------------------------------------------------------------------------
(* Steps of a compress thread                                              *)

ThreadStep(c) == SetDictionary(c) \/ CompressData(c) \/ Insert(c) \/ Check(c) \/ Calculated(c)

(* What a step of a compress thread with its job leaves alone.             *)
LEMMA ThreadFrame ==
  ASSUME Control, NEW c \in Compressors, ThreadStep(c), NEW n, n = cjob[c]
  PROVE  /\ UNCHANGED <<mpc, input, pos, seq, curr, next, hold, left, scan, dict, wpc, wseq, output>>
         /\ AtWrite' = AtWrite /\ Taken' = Taken /\ Decided' = Decided
         /\ n \in Seqs /\ Present(n) /\ n < Taken /\ n < seq /\ n # seq
         /\ \A m \in Seqs : Present(m)' <=> Present(m)
         /\ \A m \in Seqs \ {n} : /\ jobs'[m] = jobs[m] /\ HeldIn(m)' = HeldIn(m)
                                  /\ HeldOut(m)' = HeldOut(m) /\ HeldLens(m)' = HeldLens(m)
                                  /\ Raw(m)' <=> Raw(m)
         /\ HeldIn(n)' = HeldIn(n)
         /\ \A d \in Compressors \ {c} :
              /\ cpc'[d] = cpc[d] /\ cjob'[d] = cjob[d] /\ cwindow'[d] = cwindow[d]
              /\ HeldCheck(d)' = HeldCheck(d) /\ (cpc[d] \in Having => cjob[d] \in Seqs \ {n})
<1>1. /\ UNCHANGED <<mpc, input, pos, seq, curr, next, hold, left, scan, dict, setup, compressList,
                     wpc, wseq, output>>
      /\ cpc[c] \in Having
  BY DEF ThreadStep, SetDictionary, CompressData, Insert, Check, Calculated, mainVars, wVars, cLists,
         Having, Working
<1>2. AtWrite' = AtWrite /\ Taken' = Taken /\ Decided' = Decided
  BY <1>1 DEF AtWrite, Taken, InStream, Decided
<1>3. n \in Seqs /\ AtWrite <= n /\ n < Taken /\ n < seq /\ n # seq /\ n \in Nat
  BY <1>1, Numbers
<1>4. Present(n)
  BY <1>3 DEF Present
<1>5. \A m \in Seqs : Present(m)' <=> Present(m)
  BY <1>1, <1>2 DEF Present, Making
<1>6. jobs \in [Seqs -> Jobs]
  BY DEF Control, Types, JobTypes
<1>7. /\ \A m \in Seqs \ {n} : jobs'[m] = jobs[m]
      /\ jobs'[n].in = jobs[n].in
  <2>1. CASE jobs' = jobs
    BY <2>1
  <2>2. CASE CompressData(c)
    <3>1. PICK o : jobs' = [jobs EXCEPT ![n].out = o, ![n].lens = Null]
      BY <2>2 DEF CompressData
    <3> QED
      BY <1>3, <1>6, <3>1 DEF Jobs
  <2>3. CASE Check(c)
    BY <1>3, <1>6, <2>3 DEF Check, Jobs
  <2>4. CASE Calculated(c)
    BY <1>3, <1>6, <2>4 DEF Calculated, Jobs
  <2> QED
    BY <2>1, <2>2, <2>3, <2>4 DEF ThreadStep, SetDictionary, Insert
<1>8. \A d \in Compressors \ {c} :
        cpc'[d] = cpc[d] /\ cjob'[d] = cjob[d] /\ cwindow'[d] = cwindow[d]
  <2>1. DOMAIN cwindow = Compressors /\ DOMAIN cpc = Compressors /\ DOMAIN cjob = Compressors
    BY DEF Control, Types, ThreadTypes
  <2> QED
    BY <2>1 DEF ThreadStep, SetDictionary, CompressData, Insert, Check, Calculated
<1>9. \A d \in Compressors \ {c} : cpc[d] \in Having => cjob[d] \in Seqs \ {n}
  BY <1>1, Numbers DEF Control, WorkOK
<1>10. ASSUME NEW d \in Compressors \ {c} PROVE HeldCheck(d)' = HeldCheck(d)
  <2>1. cpc[d] \in {"insert", "check"} => jobs'[cjob[d]] = jobs[cjob[d]]
    BY <1>7, <1>9 DEF Having, Working
  <2> QED
    BY <1>8, <2>1 DEF HeldCheck
<1>11. ASSUME NEW m \in Seqs \ {n}
       PROVE  /\ HeldIn(m)' = HeldIn(m) /\ HeldOut(m)' = HeldOut(m) /\ HeldLens(m)' = HeldLens(m)
              /\ Raw(m)' <=> Raw(m)
  <2>1. cjob[c] # m /\ (cpc'[c] \in {"window", "compress"} => cjob'[c] # m)
    BY DEF ThreadStep, SetDictionary, CompressData, Insert, Check, Calculated, Control, Types, ThreadTypes
  <2>2. \A d \in Compressors : /\ (cpc'[d] = "compress" => cjob'[d] # m) <=> (cpc[d] = "compress" => cjob[d] # m)
                               /\ cjob'[d] = m /\ cpc'[d] \in {"window", "compress"}
                                    <=> cjob[d] = m /\ cpc[d] \in {"window", "compress"}
    BY <1>8, <2>1
  <2>3. jobs'[m] = jobs[m] /\ (Present(m)' <=> Present(m))
    BY <1>5, <1>7
  <2>4. HeldIn(m)' = HeldIn(m) /\ HeldLens(m)' = HeldLens(m)
    BY <1>1, <2>3 DEF HeldIn, HeldLens
  <2>5. HeldOut(m)' = HeldOut(m)
    BY <1>1, <2>2, <2>3 DEF HeldOut
  <2>6. Raw(m)' <=> Raw(m)
    BY <1>2, <2>2 DEF Raw
  <2> QED
    BY <2>4, <2>5, <2>6
<1>12. HeldIn(n)' = HeldIn(n)
  BY <1>1, <1>3, <1>5, <1>7 DEF HeldIn
<1> QED
  BY <1>1, <1>2, <1>3, <1>4, <1>5, <1>7, <1>8, <1>9, <1>10, <1>11, <1>12

(* It keeps the story if it does with the job and the thread.              *)
LEMMA ThreadStory ==
  ASSUME Control, Control', References, References', Untouched({}),
         NEW c \in Compressors, ThreadStep(c), NEW n, n = cjob[c],
         NEW f, NEW S, Story(f, S), JobData(f, S, n)', ThreadData(f, c)',
         mpc = "append" => jobs'[seq].more = jobs[seq].more
  PROVE  Story(f, S)'
<1>1. /\ UNCHANGED <<mpc, input, pos, seq, curr, next, hold, left, scan, dict, wpc, wseq, output>>
      /\ AtWrite' = AtWrite /\ Taken' = Taken /\ Decided' = Decided
      /\ n \in Seqs /\ Present(n) /\ n < Taken /\ n < seq /\ n # seq
      /\ \A m \in Seqs : Present(m)' <=> Present(m)
      /\ \A m \in Seqs \ {n} : /\ jobs'[m] = jobs[m] /\ HeldIn(m)' = HeldIn(m)
                               /\ HeldOut(m)' = HeldOut(m) /\ HeldLens(m)' = HeldLens(m)
                               /\ Raw(m)' <=> Raw(m)
      /\ \A d \in Compressors \ {c} :
           /\ cpc'[d] = cpc[d] /\ cjob'[d] = cjob[d] /\ cwindow'[d] = cwindow[d]
           /\ HeldCheck(d)' = HeldCheck(d) /\ (cpc[d] \in Having => cjob[d] \in Seqs \ {n})
  BY ThreadFrame
<1>2. CountsOK /\ CountsOK'
  BY DEF References
<1>3. CutsOK(f, S)'
  BY <1>1, CutsKept DEF Story
<1>4. MainData(f)'
  BY <1>1, <1>2, MainDataKept DEF Story
<1>5. OutData(f, S)'
  BY <1>1, OutDataKept DEF Story
<1>6. /\ \A m \in Seqs \ {n} :
           /\ HeldIn(m) # Null => data'[HeldIn(m)] = data[HeldIn(m)]
           /\ HeldOut(m) # Null => data'[HeldOut(m)] = data[HeldOut(m)]
           /\ HeldLens(m) # Null => data'[HeldLens(m)] = data[HeldLens(m)]
      /\ \A d \in Compressors \ {c} : HeldCheck(d) # Null => data'[HeldCheck(d)] = data[HeldCheck(d)]
  BY <1>1, <1>2, SameContents
<1>7. ASSUME NEW m \in Seqs, Present(m)' PROVE JobData(f, S, m)'
  <2>1. CASE m = n
    BY <2>1
  <2>2. CASE m # n
    <3>1. JobData(f, S, m) /\ m \in Seqs \ {n}
      BY <1>1, <1>7, <2>2 DEF Story
    <3> QED
      BY <1>1, <1>6, <3>1, JobDataKept
  <2> QED
    BY <2>1, <2>2
<1>8. ASSUME NEW d \in Compressors PROVE ThreadData(f, d)'
  <2>1. CASE d = c
    BY <2>1
  <2>2. CASE d # c
    <3>1. ThreadData(f, d) /\ d \in Compressors \ {c}
      BY <2>2 DEF Story
    <3>2. cpc[d] = "calc" => jobs'[cjob[d]] = jobs[cjob[d]]
      BY <1>1, <3>1 DEF Having
    <3> QED
      BY <1>1, <1>6, <3>1, <3>2, ThreadDataKept
  <2> QED
    BY <2>1, <2>2
<1> QED
  BY <1>3, <1>4, <1>5, <1>7, <1>8 DEF Story

(* The job that a compress thread has not compressed yet.                  *)
LEMMA AtWork ==
  ASSUME Control, NEW c \in Compressors, cpc[c] \in {"window", "compress"}, NEW n, n = cjob[c]
  PROVE  /\ n \in Seqs /\ n < seq /\ n < Decided /\ Raw(n) /\ ~jobs[n].calc
         /\ jobs[n].in \in InPool /\ HeldIn(n) = jobs[n].in /\ HeldLens(n) = jobs[n].lens
         /\ cpc[c] = "window" => HeldOut(n) = jobs[n].out
         /\ wpc \in Busy => n # wseq
         /\ \A d \in Compressors \ {c} : cpc[d] \in Having => cjob[d] # n
<1>1. cpc[c] \in Working /\ cpc[c] \in Having
  BY DEF Having, Working
<1>2. n \in Seqs /\ AtWrite <= n /\ n < seq /\ n < Decided /\ (wpc \in Busy => n # wseq)
  BY <1>1, Numbers DEF Decided
<1>3. jobs[n].in \in InPool /\ ~jobs[n].calc
  BY <1>1, ThreadHasJob DEF Control, WorkOK
<1>4. \A d \in Compressors \ {c} : cpc[d] \in Having => cjob[d] # n
  BY <1>1 DEF Control, WorkOK
<1>5. Present(n)
  BY <1>2 DEF Present
<1>6. HeldIn(n) = jobs[n].in /\ HeldLens(n) = jobs[n].lens
  BY <1>2, <1>5 DEF HeldIn, HeldLens, Busy
<1>7. cpc[c] = "window" => HeldOut(n) = jobs[n].out
  <2> SUFFICES ASSUME cpc[c] = "window" PROVE HeldOut(n) = jobs[n].out
    OBVIOUS
  <2>1. \A d \in Compressors : cpc[d] = "compress" => cjob[d] # n
    BY <1>4 DEF Having, Working
  <2> QED
    BY <1>2, <1>5, <2>1 DEF HeldOut, Busy
<1>8. Raw(n)
  BY DEF Raw
<1> QED
  BY <1>2, <1>3, <1>4, <1>6, <1>7, <1>8

LEMMA PlaceTypes ==
  ASSUME NEW f, NEW S, CutsOK(f, S), Control
  PROVE  /\ \A n \in 0..(MaxJobs + 1) : f[n] \in Nat
         /\ \A n \in Seqs : f[n] \in Nat /\ f[n + 1] \in Nat
         /\ f[seq] \in Nat /\ seq \in 0..(MaxJobs + 1) /\ wseq \in 0..(MaxJobs + 1)
<1>1. \A n \in 0..(MaxJobs + 1) : f[n] \in Nat
  BY DEF CutsOK
<1>2. \A n \in Seqs : n \in 0..(MaxJobs + 1) /\ n + 1 \in 0..(MaxJobs + 1)
  BY CompressAssumption DEF Seqs
<1>3. seq \in 0..(MaxJobs + 1) /\ wseq \in 0..(MaxJobs + 1)
  BY CompressAssumption DEF Control, JobsOK, WriterOK, Types, MainTypes, WriterTypes
<1> QED
  BY <1>1, <1>2, <1>3

LEMMA SetDictionaryStory ==
  ASSUME Control, Control', References, References', NEW c \in Compressors, SetDictionary(c),
         NEW f, NEW S, Story(f, S)
  PROVE  Story(f, S)'
<1>1. PICK n, d : n = cjob[c] /\ d = jobs[n].out
  OBVIOUS
<1>2. /\ cpc[c] = "window" /\ cpc'[c] = "compress" /\ jobs' = jobs /\ cjob' = cjob
      /\ data' = Kept(refs', data) /\ cpc' = [cpc EXCEPT ![c] = "compress"]
      /\ cwindow'[c] = IF d = Null THEN NoWindow ELSE UsedDict(data[d].piece)
  BY <1>1 DEF SetDictionary, Control, Types, ThreadTypes
<1>3. CountsOK /\ CountsOK' /\ Untouched({})
  <2>1. Null \in Spaces => refs[Null] = 0
    BY PoolsApart
  <2> QED
    BY <1>2, <2>1, LeftAlone DEF References
<1>4. /\ n \in Seqs /\ n < seq /\ n < Decided /\ Raw(n)
      /\ HeldIn(n) = jobs[n].in /\ HeldOut(n) = d
  BY <1>1, <1>2, AtWork
<1>5. /\ UNCHANGED <<mpc, seq>> /\ Decided' = Decided /\ Present(n) /\ Present(n)' /\ HeldIn(n)' = HeldIn(n)
  BY <1>1, <1>4, ThreadFrame DEF ThreadStep
<1>6. HeldLens(n)' = HeldLens(n) /\ HeldOut(n)' = Null
  BY <1>1, <1>2, <1>5 DEF HeldLens, HeldOut
<1>7. JobData(f, S, n)
  BY <1>4, <1>5 DEF Story
<1>8. JobData(f, S, n)'
  <2>1. /\ HeldIn(n) # Null => data'[HeldIn(n)] = data[HeldIn(n)]
        /\ HeldLens(n) # Null => data'[HeldLens(n)] = data[HeldLens(n)]
    BY <1>3, <1>4, <1>5, <1>6, SameContents
  <2> QED
    BY <1>2, <1>4, <1>5, <1>6, <1>7, <2>1, JobDataKept
<1>9. ThreadData(f, c)'
  <2>1. cwindow'[c] \in WindowAt(f[n])
    <3>1. CASE d = Null
      BY <1>2, <3>1 DEF WindowAt
    <3>2. CASE d # Null
      <4>1. Window(data[d].piece, f[n])
        BY <1>1, <1>4, <1>7, <3>2 DEF JobData
      <4>2. f[n] \in Int
        BY <1>4, PlaceTypes DEF Story
      <4>3. UsedDict(data[d].piece) = Piece(f[n] - MinOf(f[n], Dict), f[n])
        BY <4>1, <4>2, WindowIs
      <4> QED
        BY <1>2, <3>2, <4>3 DEF WindowAt
    <3> QED
      BY <3>1, <3>2
  <2>2. HeldCheck(c)' = Null
    BY <1>2 DEF HeldCheck
  <2> QED
    BY <1>1, <1>2, <2>1, <2>2 DEF ThreadData, WindowAt
<1> QED
  BY <1>1, <1>2, <1>3, <1>8, <1>9, ThreadStory DEF ThreadStep

LEMMA CompressDataStory ==
  ASSUME Control, Control', References, References', NEW c \in Compressors, CompressData(c),
         NEW f, NEW S, Story(f, S)
  PROVE  Story(f, S)'
<1>1. PICK n, o, in, h :
        /\ n = cjob[c] /\ o = First(OutPool) /\ in = jobs[n].in
        /\ h = [piece |-> data[in].piece, window |-> cwindow[c],
                ends |-> BlockEnds(data[in].piece,
                           IF jobs[n].lens = Null THEN <<>> ELSE data[jobs[n].lens].lens),
                lens |-> <<>>]
  OBVIOUS
<1>2. /\ cpc[c] = "compress" /\ cjob' = cjob /\ Fresh(OutPool) # {}
      /\ data' = Kept(refs', [data EXCEPT ![o] = h]) /\ cpc' = [cpc EXCEPT ![c] = "insert"]
      /\ jobs' = [jobs EXCEPT ![n].out = o, ![n].lens = Null]
  BY <1>1 DEF CompressData
<1>3. /\ n \in Seqs /\ n < seq /\ n < Decided /\ Raw(n) /\ ~jobs[n].calc /\ in \in InPool
      /\ HeldIn(n) = in /\ HeldLens(n) = jobs[n].lens /\ (wpc \in Busy => n # wseq)
      /\ \A d \in Compressors \ {c} : cpc[d] \in Having => cjob[d] # n
  BY <1>1, <1>2, AtWork
<1>4. cpc'[c] = "insert" /\ \A d \in Compressors \ {c} : cpc'[d] = cpc[d]
  BY <1>2 DEF Control, Types, ThreadTypes
<1>5. /\ jobs'[n].in = in /\ jobs'[n].out = o /\ jobs'[n].lens = Null /\ jobs'[n].calc = jobs[n].calc
  <2>1. jobs \in [Seqs -> Jobs]
    BY DEF Control, Types, JobTypes
  <2> QED
    BY <1>1, <1>2, <1>3, <2>1 DEF Jobs
<1>6. o \in OutPool /\ o \in Spaces /\ refs[o] = 0 /\ o # Null /\ in \in Spaces /\ in # Null
  BY <1>1, <1>2, <1>3, FreshBuffers, PoolsApart
<1>7. CountsOK /\ CountsOK' /\ Untouched({})
  BY <1>2, <1>6, LeftAlone DEF References
<1>8. /\ UNCHANGED <<mpc, seq, wpc, wseq>> /\ Present(n) /\ Present(n)' /\ HeldIn(n)' = HeldIn(n)
      /\ Taken' = Taken /\ n < Taken
      /\ \A m \in Seqs \ {n} : jobs'[m] = jobs[m]
      /\ n # seq
  BY <1>1, <1>3, ThreadFrame DEF ThreadStep
<1>9. HeldOut(n)' = o /\ HeldLens(n)' = Null /\ ~Raw(n)'
  <2>1. \A d \in Compressors : cpc'[d] \in {"window", "compress"} => cjob'[d] # n
    BY <1>2, <1>3, <1>4 DEF Having, Working
  <2>2. ~(n = wseq' /\ wpc' = "combine")
    BY <1>3, <1>8 DEF Busy
  <2>3. HeldOut(n)' = o
    BY <1>5, <1>8, <2>1, <2>2 DEF HeldOut
  <2>4. ~(n >= Taken)
    BY <1>3, <1>8, Numbers
  <2>5. ~Raw(n)'
    BY <1>8, <2>1, <2>4 DEF Raw
  <2> QED
    BY <1>5, <1>8, <2>3, <2>5 DEF HeldLens
<1>10. data'[o] = h
  <2>1. Counts(refs', held') /\ <<"out", n>> \in Tokens /\ held'[<<"out", n>>] = o
    BY <1>3, <1>7, <1>9, NextHeldValues, TokenKinds DEF CountsOK
  <2>2. refs'[o] # 0
    BY <1>6, <2>1, NotInUse
  <2> QED
    BY <1>2, <1>6, <2>2 DEF Kept, Control, Types, PoolTypes, DataOK
<1>11. data'[in] = data[in]
  BY <1>3, <1>6, <1>7, <1>8, SameContents
<1>12. JobData(f, S, n) /\ ThreadData(f, c)
  BY <1>3, <1>8 DEF Story
<1>13. data[in].piece = Of(f, n) /\ h.window \in WindowAt(f[n]) /\ h.ends = Part(f, S, n)
  <2>1. data[in].piece = Of(f, n)
    BY <1>3, <1>6, <1>12 DEF JobData
  <2>2. cwindow[c] \in WindowAt(f[n])
    BY <1>1, <1>2, <1>12 DEF ThreadData
  <2>3. BlockEnds(Of(f, n), Lens(n)) = Part(f, S, n)
    BY <1>3, <1>12 DEF JobData
  <2>4. Lens(n) = IF jobs[n].lens = Null THEN <<>> ELSE data[jobs[n].lens].lens
    BY <1>3 DEF Lens
  <2> QED
    BY <1>1, <2>1, <2>2, <2>3, <2>4
<1>14. h.piece = Of(f, n)
  BY <1>1, <1>13
<1>15. JobData(f, S, n)'
  <2>1. HeldIn(n)' = in /\ data'[in].piece = Of(f, n)
    BY <1>3, <1>8, <1>11, <1>13
  <2> HIDE <1>1
  <2> QED
    BY <1>3, <1>5, <1>6, <1>9, <1>10, <1>13, <1>14, <2>1 DEF JobData, Of, Part, WindowAt
<1>16. ThreadData(f, c)'
  <2>1. HeldCheck(c)' = in
    BY <1>1, <1>2, <1>4, <1>5 DEF HeldCheck
  <2> QED
    BY <1>1, <1>2, <1>4, <1>11, <1>13, <2>1 DEF ThreadData, Of
<1>17. mpc = "append" => jobs'[seq].more = jobs[seq].more
  BY <1>8, Numbers DEF Making
<1> QED
  BY <1>1, <1>7, <1>15, <1>16, <1>17, ThreadStory DEF ThreadStep

LEMMA InsertCheckStory ==
  ASSUME Control, Control', References, References', NEW c \in Compressors,
         Insert(c) \/ Check(c) \/ Calculated(c), NEW f, NEW S, Story(f, S)
  PROVE  Story(f, S)'
<1>1. PICK n : n = cjob[c]
  OBVIOUS
<1>2. /\ cpc[c] \in {"insert", "check", "calc"} /\ cpc[c] \in Having
      /\ data' = data \/ data' = Kept(refs', data)
      /\ jobs \in [Seqs -> Jobs] /\ cpc \in [Compressors -> ThreadStates]
  BY DEF Insert, Check, Calculated, pools, Having, Working, Control, Types, JobTypes, ThreadTypes
<1>3. CountsOK /\ CountsOK' /\ Untouched({})
  <2>1. Null \in Spaces => refs[Null] = 0
    BY PoolsApart
  <2> QED
    BY <1>2, <2>1, LeftAlone DEF References
<1>4. /\ UNCHANGED <<mpc, seq, wpc, wseq>> /\ Present(n) /\ Present(n)' /\ HeldIn(n)' = HeldIn(n)
      /\ Taken' = Taken /\ n < Taken /\ Decided' = Decided /\ n \in Seqs /\ n < seq /\ n # seq
      /\ \A m \in Seqs \ {n} : jobs'[m] = jobs[m]
      /\ \A d \in Compressors \ {c} :
           /\ cpc'[d] = cpc[d] /\ cjob'[d] = cjob[d] /\ (cpc[d] \in Having => cjob[d] \in Seqs \ {n})
  BY <1>1, ThreadFrame DEF ThreadStep
<1>5. ~jobs[n].calc
  BY <1>1, <1>2 DEF Control, WorkOK
<1>6. /\ jobs'[n].in = jobs[n].in /\ jobs'[n].out = jobs[n].out /\ jobs'[n].lens = jobs[n].lens
      /\ cpc'[c] = (IF cpc[c] = "insert" THEN "check" ELSE IF cpc[c] = "check" THEN "calc" ELSE "get")
      /\ cpc[c] # "calc" => ~jobs'[n].calc /\ cjob'[c] = n
      /\ cpc[c] = "calc" => jobs'[n].check = jobs[n].check
      /\ cpc[c] = "check" => jobs'[n].check = data[jobs[n].in].piece
  <2>1. CASE Insert(c)
    BY <1>1, <1>2, <1>4, <1>5, <2>1 DEF Insert
  <2>2. CASE Check(c)
    BY <1>1, <1>2, <1>4, <1>5, <2>2 DEF Check, Jobs
  <2>3. CASE Calculated(c)
    BY <1>1, <1>2, <1>4, <2>3 DEF Calculated, Jobs
  <2> QED
    BY <2>1, <2>2, <2>3
<1>7. \A d \in Compressors : /\ cpc[d] \in {"window", "compress"} => cjob[d] # n
                             /\ cpc'[d] \in {"window", "compress"} => cjob'[d] # n
  BY <1>2, <1>4, <1>6 DEF Having, Working
<1>8. HeldOut(n)' = HeldOut(n) /\ HeldLens(n)' = HeldLens(n) /\ ~Raw(n)'
  <2>1. ~(n >= Taken)
    BY <1>4, Numbers
  <2> QED
    BY <1>4, <1>6, <1>7, <2>1 DEF HeldOut, HeldLens, Raw
<1>9. /\ HeldIn(n) # Null => data'[HeldIn(n)] = data[HeldIn(n)]
      /\ HeldOut(n) # Null => data'[HeldOut(n)] = data[HeldOut(n)]
      /\ HeldLens(n) # Null => data'[HeldLens(n)] = data[HeldLens(n)]
  BY <1>3, <1>4, <1>8, SameContents
<1>10. JobData(f, S, n) /\ ThreadData(f, c)
  BY <1>4 DEF Story
<1>11. HeldCheck(c) = (IF cpc[c] \in {"insert", "check"} THEN jobs[n].in ELSE Null)
       /\ HeldCheck(c)' = (IF cpc[c] = "insert" THEN jobs[n].in ELSE Null)
       /\ jobs[n].in # Null
  <2>1. jobs[n].in # Null
    BY <1>1, <1>2, ThreadHasJob, PoolsApart DEF Control
  <2> QED
    BY <1>1, <1>2, <1>4, <1>6, <2>1 DEF HeldCheck
<1>12. JobData(f, S, n)'
  <2>1. n < seq' /\ jobs'[n].calc => jobs'[n].check = Of(f, n)
    BY <1>1, <1>6, <1>10 DEF ThreadData
  <2> QED
    BY <1>4, <1>6, <1>8, <1>9, <1>10, <2>1, JobDataIs
<1>13. ThreadData(f, c)'
  <2>1. CASE cpc[c] = "insert"
    <3>1. data'[HeldCheck(c)] = data[HeldCheck(c)]
      BY <1>3, <1>11, <2>1, SameContents
    <3> QED
      BY <1>1, <1>6, <1>10, <1>11, <2>1, <3>1 DEF ThreadData, Of
  <2>2. CASE cpc[c] = "check"
    BY <1>1, <1>6, <1>10, <1>11, <2>2 DEF ThreadData, Of
  <2>3. CASE cpc[c] = "calc"
    BY <1>6, <1>11, <2>3 DEF ThreadData
  <2> QED
    BY <1>2, <2>1, <2>2, <2>3
<1>14. mpc = "append" => jobs'[seq].more = jobs[seq].more
  BY <1>4, Numbers DEF Making
<1> QED
  BY <1>1, <1>3, <1>12, <1>13, <1>14, ThreadStory DEF ThreadStep

LEMMA GetJobStory ==
  ASSUME Control, Control', References, References', NEW c \in Compressors, GetJob(c), wpc # "none",
         NEW f, NEW S, Story(f, S)
  PROVE  Story(f, S)'
<1>1. /\ UNCHANGED <<refs, data, jobs, mpc, input, pos, seq, curr, next, hold, left, scan, dict,
                     setup, cwindow, wpc, wseq, output>>
      /\ cpc \in [Compressors -> ThreadStates] /\ cjob \in [Compressors -> Seqs \union {-1}]
      /\ cpc[c] = "get" /\ compressList \in Seq(Seqs \union {-1})
  BY DEF GetJob, pools, mainVars, wVars, Control, Types, ThreadTypes, ListTypes
<1>2. /\ InStream /\ Head(compressList) = Taken /\ Taken \in Seqs /\ Taken = seq - Len(compressList)
      /\ Len(compressList) \in Nat \ {0} /\ mpc # "joinall"
  <2>1. mpc # "joinall"
    BY DEF Control, ThreadsOK
  <2> QED
    BY <2>1, HeadOfList
<1>3. Taken \in Nat /\ seq \in Nat /\ \A m \in Seqs : m \in Nat
  BY <1>2, Numbers
<1>4. /\ cjob' = [cjob EXCEPT ![c] = Taken] /\ cpc' = [cpc EXCEPT ![c] = "window"]
      /\ compressList' = Tail(compressList)
  <2>1. Head(compressList) # -1
    BY <1>2, <1>3
  <2> QED
    BY <1>2, <2>1 DEF GetJob
<1>5. Taken' = Taken + 1
  <2>1. Len(compressList') = Len(compressList) - 1
    BY <1>1, <1>2, <1>4
  <2> QED
    BY <1>1, <1>2, <1>3, <2>1 DEF Taken, InStream
<1>6. cpc'[c] = "window" /\ cjob'[c] = Taken
      /\ \A d \in Compressors \ {c} : cpc'[d] = cpc[d] /\ cjob'[d] = cjob[d]
  BY <1>1, <1>4
<1>7. AtWrite' = AtWrite /\ Decided' = Decided
  BY <1>1 DEF AtWrite, Decided
<1>8. \A m \in Seqs : Present(m)' <=> Present(m)
  BY <1>1, <1>7 DEF Present, Making
<1>9. ASSUME NEW m \in Seqs
      PROVE  /\ HeldIn(m)' = HeldIn(m) /\ HeldOut(m)' = HeldOut(m) /\ HeldLens(m)' = HeldLens(m)
             /\ Raw(m)' => Raw(m)
  <2>1. HeldIn(m)' = HeldIn(m) /\ HeldLens(m)' = HeldLens(m)
    BY <1>1, <1>8 DEF HeldIn, HeldLens
  <2>2. \A d \in Compressors : (cpc'[d] = "compress" => cjob'[d] # m) <=> (cpc[d] = "compress" => cjob[d] # m)
    BY <1>1, <1>6
  <2>3. HeldOut(m)' = HeldOut(m)
    BY <1>1, <1>8, <2>2 DEF HeldOut
  <2>4. Raw(m)' => Raw(m)
    <3>1. m >= Taken' => m >= Taken
      BY <1>3, <1>5
    <3>2. ASSUME NEW d \in Compressors, cjob'[d] = m, cpc'[d] \in {"window", "compress"}
          PROVE  m >= Taken \/ (cjob[d] = m /\ cpc[d] \in {"window", "compress"})
      BY <1>3, <1>6, <3>2
    <3> QED
      BY <3>1, <3>2 DEF Raw
  <2> QED
    BY <2>1, <2>3, <2>4
<1>10. \A d \in Compressors : HeldCheck(d)' = HeldCheck(d)
  BY <1>1, <1>6 DEF HeldCheck
<1>11. CountsOK' /\ Untouched({})
  <2>1. Untouched({})
    BY <1>1 DEF Untouched
  <2> QED
    BY <2>1 DEF References
<1>12. CutsOK(f, S)' /\ OutData(f, S)' /\ MainData(f)'
  <2>1. CutsOK(f, S)' /\ OutData(f, S)'
    BY <1>1, <1>7, CutsKept, OutDataKept DEF Story
  <2>2. MainData(f)'
    BY <1>1, <1>11, MainDataKept DEF Story
  <2> QED
    BY <2>1, <2>2
<1>13. ASSUME NEW m \in Seqs, Present(m)' PROVE JobData(f, S, m)'
  <2>1. JobData(f, S, m)
    BY <1>8, <1>13 DEF Story
  <2> QED
    BY <1>1, <1>7, <1>9, <2>1, JobDataKept
<1>14. ASSUME NEW d \in Compressors PROVE ThreadData(f, d)'
  <2>1. CASE d = c
    BY <1>6, <2>1 DEF ThreadData, HeldCheck
  <2>2. CASE d # c
    <3>1. ThreadData(f, d)
      BY DEF Story
    <3> QED
      BY <1>1, <1>6, <1>10, <2>2, <3>1, ThreadDataKept
  <2> QED
    BY <2>1, <2>2
<1> QED
  BY <1>12, <1>13, <1>14 DEF Story

-----------------------------------------------------------------------------
(* Steps of the write thread                                               *)

(* It keeps the story if it does with what is written.                     *)
LEMMA WriterStory ==
  ASSUME Control, Control', References, References', Writer, NEW f, NEW S, Story(f, S), OutData(f, S)'
  PROVE  Story(f, S)'
<1>1. /\ UNCHANGED <<mpc, input, pos, seq, curr, next, hold, left, scan, dict, cpc, cjob, cwindow>>
      /\ data' = data \/ data' = Kept(refs', data)
      /\ jobs' = jobs \/ (Combine /\ jobs' = [jobs EXCEPT ![wseq] = NoJob])
      /\ Taken' = Taken
  <2>1. /\ UNCHANGED <<mpc, input, pos, seq, curr, next, hold, left, scan, dict, cpc, cjob, cwindow>>
        /\ data' = data \/ data' = Kept(refs', data)
        /\ jobs' = jobs \/ (Combine /\ jobs' = [jobs EXCEPT ![wseq] = NoJob])
    BY DEF Writer, WriteHeader, TakeJob, TakeLength, WriteData, Combine, WriteTrailer, mainVars, cVars,
           pools
  <2> QED
    BY <2>1, WriterFrame
<1>2. CountsOK' /\ Untouched({})
  <2>1. Null \in Spaces => refs[Null] = 0
    BY PoolsApart
  <2> QED
    BY <1>1, <2>1, LeftAlone DEF References
<1>3. /\ jobs' # jobs => /\ wpc = "combine" /\ jobs[wseq].calc /\ AtWrite' = wseq + 1 /\ wseq \in Nat
                         /\ wseq # seq /\ AtWrite = wseq
      /\ AtWrite' = AtWrite \/ AtWrite' = AtWrite + 1
      /\ AtWrite \in Nat
  <2>1. CASE Combine
    <3>1. wpc = "combine" /\ wpc' \in {"get", "trailer"} /\ jobs[wseq].calc /\ wseq' = wseq + 1
      BY <2>1 DEF Combine, CalcReady
    <3>2. AtWrite = wseq /\ wseq \in Nat /\ wseq # seq
      BY <3>1, Numbers DEF Busy
    <3> QED
      BY <3>1, <3>2 DEF AtWrite
  <2>2. CASE ~Combine
    <3>1. jobs' = jobs
      BY <1>1, <2>2
    <3>2. AtWrite' = AtWrite /\ AtWrite \in Nat
      BY <2>2, Numbers DEF AtWrite, Writer, WriteHeader, TakeJob, TakeLength, WriteData, WriteTrailer
    <3> QED
      BY <3>1, <3>2
  <2> QED
    BY <2>1, <2>2
<1>0. \A m \in Seqs : m # wseq \/ jobs' = jobs => jobs'[m] = jobs[m]
  <2>1. jobs \in [Seqs -> Jobs]
    BY DEF Control, Types, JobTypes
  <2> QED
    BY <1>1, <2>1
<1>4. \A m \in Seqs : Present(m)' => Present(m) /\ jobs'[m] = jobs[m]
  <2> SUFFICES ASSUME NEW m \in Seqs, Present(m)' PROVE Present(m) /\ jobs'[m] = jobs[m]
    OBVIOUS
  <2>1. m \in Nat /\ AtWrite' <= m /\ AtWrite <= m
    BY <1>3, Numbers DEF Present
  <2>2. Present(m)
    BY <1>1, <2>1 DEF Present, Making
  <2>3. jobs' # jobs => m # wseq
    BY <1>3, <2>1
  <2> QED
    BY <1>0, <2>2, <2>3
<1>5. Decided' = Decided /\ \A m \in Seqs : Raw(m)' => Raw(m)
  BY <1>1 DEF Decided, Raw
<1>6. \A d \in Compressors : cpc[d] \in Having => cjob[d] \in Seqs /\ jobs'[cjob[d]] = jobs[cjob[d]]
  <2> SUFFICES ASSUME NEW d \in Compressors, cpc[d] \in Having
               PROVE  cjob[d] \in Seqs /\ jobs'[cjob[d]] = jobs[cjob[d]]
    OBVIOUS
  <2>1. cjob[d] \in Seqs /\ ~jobs[cjob[d]].calc
    BY Numbers DEF Control, WorkOK
  <2>2. jobs' # jobs => cjob[d] # wseq
    BY <1>3, <2>1
  <2> QED
    BY <1>0, <2>1, <2>2
<1>7. \A d \in Compressors : HeldCheck(d)' = HeldCheck(d)
  BY <1>1, <1>6 DEF HeldCheck, Having, Working
<1>8. ASSUME NEW m \in Seqs, Present(m)'
      PROVE  /\ HeldIn(m)' # Null => HeldIn(m)' = HeldIn(m)
             /\ HeldOut(m)' # Null => HeldOut(m)' = HeldOut(m)
             /\ HeldLens(m)' = HeldLens(m)
  <2>1. Present(m) /\ jobs'[m] = jobs[m]
    BY <1>4, <1>8
  <2>2. HeldLens(m)' = HeldLens(m)
    BY <1>8, <2>1 DEF HeldLens
  <2>3. /\ m = wseq /\ wpc \in {"write", "combine"} => m = wseq' /\ wpc' \in {"write", "combine"}
        /\ m = wseq /\ wpc = "combine" => m = wseq' /\ wpc' = "combine"
    <3>1. wpc \in {"write", "combine"} /\ m = wseq => ~Combine
      <4>1. Combine => AtWrite' = wseq + 1 /\ wseq \in Nat
        BY Numbers DEF Combine, AtWrite, Busy
      <4> QED
        BY <1>8, <4>1, Numbers DEF Present
    <3>2. wpc \in {"write", "combine"} /\ ~Combine => WriteData
      BY DEF Writer, WriteHeader, TakeJob, TakeLength, WriteTrailer
    <3> QED
      BY <3>1, <3>2 DEF WriteData
  <2>4. HeldIn(m)' # Null => HeldIn(m)' = HeldIn(m)
    BY <1>8, <2>1, <2>3 DEF HeldIn
  <2>5. HeldOut(m)' # Null => HeldOut(m)' = HeldOut(m)
    BY <1>1, <1>8, <2>1, <2>3 DEF HeldOut
  <2> QED
    BY <2>2, <2>4, <2>5
<1>9. CutsOK(f, S)' /\ MainData(f)'
  <2>1. CutsOK(f, S)'
    BY <1>1, <1>5, CutsKept DEF Story
  <2>2. mpc = "append" => jobs'[seq].more = jobs[seq].more
    BY <1>0, <1>3, Numbers DEF Making
  <2>3. MainData(f)'
    BY <1>1, <1>2, <2>2, MainDataKept DEF Story
  <2> QED
    BY <2>1, <2>3
<1>10. ASSUME NEW m \in Seqs, Present(m)' PROVE JobData(f, S, m)'
  <2>1. JobData(f, S, m) /\ jobs'[m] = jobs[m]
    BY <1>4, <1>10 DEF Story
  <2>2. /\ HeldIn(m)' # Null => HeldIn(m)' = HeldIn(m) /\ data'[HeldIn(m)] = data[HeldIn(m)]
        /\ HeldOut(m)' # Null => HeldOut(m)' = HeldOut(m) /\ data'[HeldOut(m)] = data[HeldOut(m)]
        /\ HeldLens(m)' = HeldLens(m)
        /\ HeldLens(m) # Null => data'[HeldLens(m)] = data[HeldLens(m)]
    BY <1>2, <1>8, <1>10, SameContents DEF References
  <2> QED
    BY <1>1, <1>5, <2>1, <2>2, JobDataKept
<1>11. ASSUME NEW d \in Compressors PROVE ThreadData(f, d)'
  <2>1. ThreadData(f, d)
    BY DEF Story
  <2>2. HeldCheck(d) # Null => data'[HeldCheck(d)] = data[HeldCheck(d)]
    BY <1>2, <1>7, SameContents DEF References
  <2>3. cpc[d] = "calc" => jobs'[cjob[d]].check = jobs[cjob[d]].check
    BY <1>6 DEF Having
  <2> QED
    BY <1>1, <1>7, <2>1, <2>2, <2>3, ThreadDataKept
<1> QED
  BY <1>9, <1>10, <1>11 DEF Story

(* The job that the write thread has.                                      *)
LEMMA AtHand ==
  ASSUME Control, References, wpc \in Busy, NEW f, NEW S, Story(f, S), NEW n, n = wseq
  PROVE  /\ n \in Seqs /\ n < seq /\ Present(n) /\ JobData(f, S, n)
         /\ f[n] \in Nat /\ f[n + 1] \in Nat /\ f[n] <= f[n + 1] /\ f[n + 1] \in S
         /\ S \subseteq Int
<1>1. n \in Seqs /\ n < seq /\ Present(n)
  <2>1. n \in Seqs /\ Present(n)
    BY WrittenIsCompressed
  <2> QED
    BY <2>1, Numbers
<1>2. f[n] \in Nat /\ f[n + 1] \in Nat
  BY <1>1, PlaceTypes DEF Story
<1>3. n \in 0..Decided /\ n + 1 \in 0..Decided /\ n <= n + 1
  BY <1>1, Numbers DEF Decided
<1>4. f[n] <= f[n + 1] /\ f[n + 1] \in S
  BY <1>3 DEF Story, CutsOK
<1>5. S \subseteq Int
  BY DEF Story, CutsOK, Chain
<1>6. JobData(f, S, n)
  BY <1>1 DEF Story
<1> QED
  BY <1>1, <1>2, <1>4, <1>5, <1>6

LEMMA WriteHeaderOut ==
  ASSUME Control, WriteHeader, NEW f, NEW S, Story(f, S)
  PROVE  OutData(f, S)'
<1>1. wseq' = 0 /\ output' = NoOutput /\ wpc' = "get"
  BY DEF WriteHeader
<1>2. Written' = 0 /\ Measured' = 0
  BY <1>1 DEF Written, Measured
<1>3. f[0] = 0 /\ S \subseteq Nat /\ 0 \in S
  BY DEF Story, CutsOK, Chain
<1>4. {s \in S : s <= 0} = {0}
  <2>1. \A s \in S : s <= 0 <=> s = 0
    BY <1>3
  <2>2. 0 \in S
    BY <1>3
  <2> QED
    BY ONLY <2>1, <2>2
<1> QED
  BY <1>1, <1>2, <1>3, <1>4 DEF OutData, NoOutput, Empty

LEMMA TakeLengthOut ==
  ASSUME Control, References, TakeLength, NEW f, NEW S, Story(f, S)
  PROVE  OutData(f, S)'
<1>1. PICK n, in : n = wseq /\ in = jobs[n].in
  OBVIOUS
<1>2. /\ wpc = "length" /\ wpc' = "write" /\ wseq' = n
      /\ output' = [output EXCEPT !.ulen = @ + Span(data[in].piece)]
  BY <1>1 DEF TakeLength
<1>3. /\ n \in Seqs /\ Present(n) /\ JobData(f, S, n)
      /\ f[n] \in Nat /\ f[n + 1] \in Nat
  BY <1>1, <1>2, AtHand DEF Busy
<1>4. data[in].piece = Of(f, n)
  <2>1. in \in InPool
    BY <1>1, <1>2, WrittenIsCompressed DEF Busy
  <2>2. HeldIn(n) = in /\ in # Null
    BY <1>1, <1>2, <1>3, <2>1, PoolsApart DEF HeldIn
  <2> QED
    BY <1>3, <2>2 DEF JobData
<1>5. Span(data[in].piece) = f[n + 1] - f[n]
  BY <1>4 DEF Of, Span, Piece
<1>6. Written = n /\ Measured = n /\ Written' = n /\ Measured' = n + 1
  BY <1>1, <1>2 DEF Written, Measured
<1>7. OutData(f, S)
  BY DEF Story
<1>8. output.ulen + (f[n + 1] - f[n]) = f[n + 1]
  BY <1>2, <1>3, <1>6, <1>7 DEF OutData
<1>9. /\ output'.piece = output.piece /\ output'.check = output.check /\ output'.ends = output.ends
      /\ output'.good = output.good
  BY <1>2
<1>10. output'.ulen = f[n + 1]
  BY <1>2, <1>5, <1>8 DEF OutData
<1> QED
  BY <1>1, <1>2, <1>6, <1>7, <1>9, <1>10 DEF OutData

LEMMA WriteDataOut ==
  ASSUME Control, References, WriteData, NEW f, NEW S, Story(f, S)
  PROVE  OutData(f, S)'
<1>1. PICK n, o, w : /\ n = wseq /\ o = data[jobs[n].out]
                     /\ w = Suffix(output.piece, MinOf(Span(output.piece), Dict))
  OBVIOUS
<1>2. /\ wpc = "write" /\ wpc' = "combine" /\ wseq' = n
      /\ output' = [output EXCEPT !.piece = Cat(@, o.piece), !.ends = @ \union o.ends,
                                  !.good = @ /\ o.window \in {NoWindow, w}]
  BY <1>1 DEF WriteData
<1>3. /\ n \in Seqs /\ Present(n) /\ JobData(f, S, n)
      /\ f[n] \in Nat /\ f[n + 1] \in Nat /\ f[n] <= f[n + 1] /\ f[n + 1] \in S /\ S \subseteq Int
  BY <1>1, <1>2, AtHand DEF Busy
<1>4. o.piece = Of(f, n) /\ o.window \in WindowAt(f[n]) /\ o.ends = Part(f, S, n)
  <2>1. jobs[n].out \in OutPool /\ \A c \in Compressors : cpc[c] \in Working => cjob[c] # n
    BY <1>1, <1>2, WrittenIsCompressed DEF Busy
  <2>2. HeldOut(n) = jobs[n].out /\ jobs[n].out # Null
    BY <1>1, <1>2, <1>3, <2>1, PoolsApart DEF HeldOut, Working
  <2> QED
    BY <1>1, <1>3, <2>1, <2>2 DEF JobData
<1>5. Written = n /\ Measured = n + 1 /\ Written' = n + 1 /\ Measured' = n + 1
  BY <1>1, <1>2 DEF Written, Measured
<1>6. /\ output.piece = Piece(0, f[n]) /\ output.check = Piece(0, f[n]) /\ output.ulen = f[n + 1]
      /\ output.ends = {s \in S : s <= f[n]} /\ output.good
  BY <1>1, <1>2, <1>5 DEF Story, OutData
<1>7. Cat(output.piece, o.piece) = Piece(0, f[n + 1])
  <2>1. 0 <= f[n]
    BY <1>3
  <2> QED
    BY <1>3, <1>4, <1>6, <2>1, CatIs DEF Of
<1>8. output.ends \union o.ends = {s \in S : s <= f[n + 1]}
  <2>1. \A s \in S : s <= f[n + 1] <=> s <= f[n] \/ (f[n] < s /\ s <= f[n + 1])
    BY <1>3
  <2>2. f[n + 1] \in S /\ f[n + 1] <= f[n + 1]
    BY <1>3
  <2>3. output.ends = {s \in S : s <= f[n]} /\ o.ends = {s \in S : f[n] < s /\ s <= f[n + 1]} \union {f[n + 1]}
    BY <1>4, <1>6 DEF Part
  <2> QED
    BY ONLY <2>1, <2>2, <2>3
<1>9. o.window \in {NoWindow, w}
  <2>1. w = Piece(f[n] - MinOf(f[n], Dict), f[n])
    <3>1. Span(Piece(0, f[n])) = f[n]
      BY <1>3 DEF Span, Piece
    <3> QED
      BY <1>1, <1>6, <3>1 DEF Suffix, Piece
  <2> QED
    BY <1>4, <2>1 DEF WindowAt
<1>10. /\ output'.piece = Piece(0, f[n + 1]) /\ output'.check = output.check /\ output'.ulen = output.ulen
       /\ output'.ends = {s \in S : s <= f[n + 1]} /\ output'.good = (output.good /\ TRUE)
  <2>1. DOMAIN output' = DOMAIN output
    BY <1>2
  <2> QED
    BY <1>2, <1>7, <1>8, <1>9 DEF OutData
<1> QED
  BY <1>1, <1>2, <1>5, <1>6, <1>10 DEF OutData

LEMMA CombineOut ==
  ASSUME Control, References, Combine, NEW f, NEW S, Story(f, S)
  PROVE  OutData(f, S)'
<1>1. PICK n : n = wseq
  OBVIOUS
<1>2. /\ wpc = "combine" /\ wpc' \in {"get", "trailer"} /\ wseq' = n + 1 /\ jobs[n].calc
      /\ output' = [output EXCEPT !.check = Cat(@, jobs[n].check)]
  BY <1>1 DEF Combine, CalcReady
<1>3. /\ n \in Seqs /\ n < seq /\ JobData(f, S, n)
      /\ f[n] \in Nat /\ f[n + 1] \in Nat /\ f[n] <= f[n + 1]
  BY <1>1, <1>2, AtHand DEF Busy
<1>4. Written = n + 1 /\ Measured = n + 1 /\ Written' = n + 1 /\ Measured' = n + 1
  BY <1>1, <1>2 DEF Written, Measured
<1>5. /\ output.piece = Piece(0, f[n + 1]) /\ output.check = Piece(0, f[n]) /\ output.ulen = f[n + 1]
      /\ output.ends = {s \in S : s <= f[n + 1]} /\ output.good
  BY <1>1, <1>2, <1>4 DEF Story, OutData
<1>6. Cat(output.check, jobs[n].check) = Piece(0, f[n + 1])
  <2>1. jobs[n].check = Of(f, n) /\ 0 <= f[n]
    BY <1>2, <1>3 DEF JobData
  <2> QED
    BY <1>3, <1>5, <2>1, CatIs DEF Of
<1> QED
  BY <1>1, <1>2, <1>4, <1>5, <1>6 DEF OutData

LEMMA WriterKeeps ==
  ASSUME Control, Control', References, References', Writer, NEW f, NEW S, Story(f, S)
  PROVE  Story(f, S)'
<1>1. OutData(f, S)'
  <2>1. CASE TakeJob \/ WriteTrailer
    <3>1. /\ wpc # "header" /\ UNCHANGED <<output, wseq>>
          /\ wpc \notin {"write", "combine"} /\ wpc' \notin {"write", "combine"}
      BY <2>1 DEF TakeJob, WriteTrailer
    <3>2. OutData(f, S)
      BY DEF Story
    <3> QED
      BY <3>1, <3>2 DEF OutData, Written, Measured
  <2> QED
    BY <2>1, WriteHeaderOut, TakeLengthOut, WriteDataOut, CombineOut DEF Writer
<1> QED
  BY <1>1, WriterStory

-----------------------------------------------------------------------------
(* Steps of main                                                           *)

(* Main writes to no buffer but new ones and, in X, those it has alone.    *)
(* The story goes on if it does for main and for the job it is at.         *)
LEMMA MainStory ==
  ASSUME Control, Control', References, References',
         ReadFirst \/ NewJob \/ Rsync \/ CutTail \/ Prepare \/ EndInput,
         NEW X, Untouched(X), X \subseteq {HeldCurr, HeldNext},
         NEW f, NEW S, Story(f, S), NEW g, NEW T, CutsOK(g, T)', MainData(g)',
         \A n \in Seqs : n = seq /\ Making' => JobData(g, T, n)',
         \A n \in 0..seq : g[n] = f[n],
         \A s : s \in T /\ s <= f[seq] <=> s \in S /\ s <= f[seq]
  PROVE  Story(g, T)'
<1>1. /\ UNCHANGED <<seq, cpc, cjob, wpc, wseq>> /\ AtWrite' = AtWrite /\ Taken' = Taken
      /\ \A m \in Seqs : m # seq =>
           /\ jobs'[m] = jobs[m] /\ HeldIn(m)' = HeldIn(m) /\ HeldOut(m)' = HeldOut(m)
           /\ HeldLens(m)' = HeldLens(m)
      /\ \A m \in Seqs : m = seq => /\ Present(m) <=> Making
                                    /\ Present(m)' <=> Making'
                                    /\ wpc \in Busy => wseq # m
                                    /\ \A c \in Compressors : cpc[c] \in Having => cjob[c] # m
      /\ \A c \in Compressors : HeldCheck(c)' = HeldCheck(c)
  BY MainFrame
<1>2. cwindow' = cwindow /\ output' = output
  BY DEF ReadFirst, NewJob, Rsync, CutTail, Prepare, EndInput, cVars, wVars
<1>3. /\ \A h \in Tokens, s \in Spaces \ X : held[h] = s /\ held'[h] = s => data'[s] = data[s]
      /\ \A h \in Tokens : h \notin {<<"curr", 0>>, <<"next", 0>>} /\ held[h] # Null => held[h] \notin X
  <2>1. \A h \in Tokens, s \in Spaces \ X : held[h] = s /\ held'[h] = s => data'[s] = data[s]
    BY StillThere DEF References
  <2>2. ASSUME NEW h \in Tokens, h \notin {<<"curr", 0>>, <<"next", 0>>}, held[h] # Null
        PROVE  held[h] \notin X
    <3>1. Alone(held, <<"curr", 0>>) /\ Alone(held, <<"next", 0>>)
      BY DEF References, MainAlone
    <3>2. held[<<"curr", 0>>] = HeldCurr /\ held[<<"next", 0>>] = HeldNext
      BY HeldValues
    <3> QED
      BY <2>2, <3>1, <3>2 DEF Alone
  <2> QED
    BY <2>1, <2>2
<1>4. ASSUME NEW m \in Seqs, m # seq
      PROVE  /\ HeldIn(m) # Null => data'[HeldIn(m)] = data[HeldIn(m)]
             /\ HeldOut(m) # Null => data'[HeldOut(m)] = data[HeldOut(m)]
             /\ HeldLens(m) # Null => data'[HeldLens(m)] = data[HeldLens(m)]
  <2>1. /\ {<<"in", m>>, <<"out", m>>, <<"lens", m>>} \subseteq Tokens
        /\ <<"curr", 0>> \notin {<<"in", m>>, <<"out", m>>, <<"lens", m>>}
        /\ <<"next", 0>> \notin {<<"in", m>>, <<"out", m>>, <<"lens", m>>}
    BY TokenKinds, MainTokens
  <2>2. /\ held[<<"in", m>>] = HeldIn(m) /\ held[<<"out", m>>] = HeldOut(m) /\ held[<<"lens", m>>] = HeldLens(m)
        /\ held'[<<"in", m>>] = HeldIn(m) /\ held'[<<"out", m>>] = HeldOut(m) /\ held'[<<"lens", m>>] = HeldLens(m)
    BY <1>1, <1>4, HeldValues, NextHeldValues
  <2>3. {HeldIn(m), HeldOut(m), HeldLens(m)} \subseteq Spaces \union {Null}
    BY HeldAreSpaces
  <2> QED
    BY <1>3, <2>1, <2>2, <2>3
<1>5. ASSUME NEW c \in Compressors, HeldCheck(c) # Null PROVE data'[HeldCheck(c)] = data[HeldCheck(c)]
  <2>1. <<"check", c>> \in Tokens /\ <<"check", c>> \notin {<<"curr", 0>>, <<"next", 0>>}
    BY TokenKinds, MainTokens
  <2>2. held[<<"check", c>>] = HeldCheck(c) /\ held'[<<"check", c>>] = HeldCheck(c)
    BY <1>1, HeldValues, NextHeldValues
  <2>3. HeldCheck(c) \in Spaces \union {Null}
    BY HeldAreSpaces
  <2> QED
    BY <1>3, <1>5, <2>1, <2>2, <2>3
<1>6. seq \in Nat /\ \A m \in Seqs : m \in Nat
  BY Numbers
<1>7. \A n \in 0..seq : f[n] \in Nat /\ f[n] <= f[seq]
  <2>1. \A n \in 0..seq : n \in 0..(MaxJobs + 1)
    BY CompressAssumption, PlaceTypes DEF Story
  <2>2. \A n \in 0..seq : n \in 0..Decided /\ seq \in 0..Decided /\ n <= seq
    BY <1>6 DEF Decided
  <2> QED
    BY <2>1, <2>2, PlaceTypes DEF Story, CutsOK
<1>8. S \subseteq Int
  BY DEF Story, CutsOK, Chain
<1>9. ASSUME NEW m \in Seqs, m < seq
      PROVE  /\ g[m] = f[m] /\ g[m + 1] = f[m + 1] /\ Part(g, T, m) = Part(f, S, m)
             /\ m < Decided
  <2>1. m \in 0..seq /\ m + 1 \in 0..seq /\ m < Decided
    BY <1>6, <1>9 DEF Decided
  <2>2. f[m + 1] <= f[seq] /\ f[m + 1] \in Nat /\ f[seq] \in Nat /\ f[m] \in Nat
    BY <1>6, <1>7, <2>1
  <2>3. \A s : s \in T /\ s <= f[m + 1] <=> s \in S /\ s <= f[m + 1]
    <3>1. \A s : s \in S /\ s <= f[m + 1] => s <= f[seq]
      BY <1>8, <2>2
    <3>2. \A s : s \in T /\ s <= f[m + 1] => s <= f[seq]
      <4>1. T \subseteq Int
        BY DEF CutsOK, Chain
      <4> QED
        BY <2>2, <4>1
    <3> QED
      BY <3>1, <3>2
  <2> QED
    BY <2>1, <2>3 DEF Part
<1>10. ASSUME NEW m \in Seqs, Present(m)' PROVE JobData(g, T, m)'
  <2>1. CASE m = seq
    BY <1>1, <1>10, <2>1
  <2>2. CASE m # seq
    <3>1. m < seq /\ AtWrite <= m
      BY <1>1, <1>10, <2>2 DEF Present
    <3>2. Present(m)
      BY <3>1 DEF Present
    <3>3. JobData(f, S, m)
      BY <3>2 DEF Story
    <3>4. Raw(m)' => Raw(m)
      BY <1>1 DEF Raw
    <3> QED
      BY <1>1, <1>4, <1>9, <2>2, <3>1, <3>3, <3>4, JobDataKept
  <2> QED
    BY <2>1, <2>2
<1>11. ASSUME NEW c \in Compressors PROVE ThreadData(g, c)'
  <2>1. ThreadData(f, c)
    BY DEF Story
  <2>2. cpc[c] \in Having => cjob[c] \in Seqs /\ cjob[c] # seq /\ cjob[c] < seq
    BY <1>1, Numbers
  <2>3. cpc[c] = "calc" => jobs'[cjob[c]].check = jobs[cjob[c]].check
    BY <1>1, <2>2 DEF Having
  <2>4. cpc[c] \in Having => g[cjob[c]] = f[cjob[c]] /\ g[cjob[c] + 1] = f[cjob[c] + 1]
    BY <1>9, <2>2
  <2> QED
    BY <1>1, <1>2, <1>5, <2>1, <2>3, <2>4, ThreadDataKept
<1>12. OutData(g, T)'
  <2> SUFFICES ASSUME wpc # "header" PROVE OutData(g, T)'
    BY <1>1 DEF OutData
  <2>1. Written' = Written /\ Measured' = Measured
    BY <1>1 DEF Written, Measured
  <2>2. Written \in 0..seq /\ Measured \in 0..seq /\ wseq \in 0..seq
    BY <1>6, Numbers DEF Written, Measured, AtWrite, Busy
  <2>3. g[Written] = f[Written] /\ g[Measured] = f[Measured] /\ g[wseq] = f[wseq]
    BY <2>2
  <2>4. {s \in T : s <= f[Written]} = {s \in S : s <= f[Written]}
    <3>1. f[Written] <= f[seq] /\ f[Written] \in Nat /\ f[seq] \in Nat
      BY <1>6, <1>7, <2>2
    <3>2. T \subseteq Int
      BY DEF CutsOK, Chain
    <3>3. \A s \in Int : s <= f[Written] => s <= f[seq]
      BY <3>1
    <3> QED
      BY <1>8, <3>2, <3>3
  <2>5. OutData(f, S)
    BY DEF Story
  <2> QED
    BY <1>1, <1>2, <2>1, <2>3, <2>4, <2>5 DEF OutData
<1> QED
  BY <1>10, <1>11, <1>12 DEF Story

LEMMA StartStory ==
  ASSUME Control, Control', Start
  PROVE  \E f, S : Story(f, S)'
<1> DEFINE f == [n \in 0..(MaxJobs + 1) |-> 0]
           S == {0}
<1>1. /\ wpc = "none" /\ wpc' = "header" /\ mpc' = "first" /\ seq' = 0 /\ pos' = 0 /\ left' = 0 /\ scan' = 0
      /\ cpc' = cpc
  BY DEF Start, cVars, Control, ThreadsOK
<1>2. f[0] = 0 /\ f \in [0..(MaxJobs + 1) -> Nat] /\ MaxJobs \in Nat
  BY CompressAssumption
<1>3. CutsOK(f, S)'
  <2>1. Decided' = 0
    BY <1>1 DEF Decided
  <2>2. input'.length \in Nat
    BY DEF Control, Types, MainTypes, Inputs
  <2>3. Chain(S, 0, input'.length, input'.hits)
    BY <2>2 DEF Chain
  <2> HIDE DEF f, S
  <2>4. f[0] \in S
    BY <1>2 DEF S
  <2>5. \A m \in 0..0 : m = 0
    OBVIOUS
  <2> QED
    BY <1>2, <2>1, <2>3, <2>4, <2>5 DEF CutsOK
<1>4. MainData(f)'
  BY <1>1 DEF MainData, AllMade
<1>5. OutData(f, S)'
  BY <1>1 DEF OutData
<1>6. \A n \in Seqs : ~Present(n)'
  BY <1>1, Numbers DEF Present, Making, AtWrite
<1>7. ASSUME NEW c \in Compressors PROVE ThreadData(f, c)'
  <2>1. cpc[c] \notin Having
    <3>1. AtWrite = seq
      BY <1>1 DEF AtWrite, Control, WriterOK
    <3> QED
      BY <3>1, Numbers
  <2> QED
    BY <1>1, <2>1 DEF ThreadData, HeldCheck, Having, Working
<1> HIDE DEF f, S
<1>8. Story(f, S)'
  BY <1>3, <1>4, <1>5, <1>6, <1>7 DEF Story
<1> QED
  BY <1>8

LEMMA AppendJobStory ==
  ASSUME Control, Control', References, References', AppendJob, NEW f, NEW S, Story(f, S)
  PROVE  Story(f, S)'
<1>1. /\ mpc = "append" /\ seq' = seq + 1 /\ mpc' = (IF jobs[seq].more THEN "job" ELSE "end")
      /\ UNCHANGED <<refs, data, jobs, input, pos, curr, next, hold, left, scan, dict, cjob, cwindow,
                     wpc, wseq, output, setup>>
  BY DEF AppendJob, pools, wVars
<1>2. \A c \in Compressors : cpc'[c] = cpc[c] \/ (cpc[c] \notin Having /\ cpc'[c] = "get")
  <2>1. CASE cpc' = cpc
    BY <2>1
  <2>2. CASE cpc' = [cpc EXCEPT ![cthreads + 1] = "get"]
    <3>1. cpc \in [Compressors -> ThreadStates] /\ cthreads \in Int
      BY DEF Control, Types, ThreadTypes, MainTypes
    <3>2. \A c \in Compressors : c = cthreads + 1 => cpc[c] = "none"
      BY <3>1 DEF Control, ThreadsOK, Compressors
    <3> QED
      BY <2>2, <3>1, <3>2 DEF Having, Working
  <2> QED
    BY <2>1, <2>2 DEF AppendJob
<1>3. AtWrite' = AtWrite /\ Taken' = Taken /\ Decided' = Decided /\ seq \in Seqs /\ seq \in Nat
  <2>1. compressList \in Seq(Seqs \union {-1}) /\ setup \in BOOLEAN /\ seq \in Nat
    BY DEF Control, Types, ListTypes, MainTypes
  <2>2. seq \in Seqs
    BY <1>1, Numbers DEF Making
  <2>3. Len(compressList') = Len(compressList) + 1 /\ Len(compressList) \in Nat
    BY <2>1, <2>2 DEF AppendJob
  <2>4. setup
    BY <1>1 DEF Control, ThreadsOK
  <2>5. InStream /\ InStream'
    BY <1>1, <2>4 DEF InStream
  <2> QED
    BY <1>1, <2>1, <2>2, <2>3, <2>5 DEF AtWrite, Taken, Decided
<1>4. \A n \in Seqs : Present(n)' <=> Present(n)
  BY <1>1, <1>3, Numbers DEF Present, Making
<1>5. ASSUME NEW n \in Seqs
      PROVE  /\ HeldIn(n)' = HeldIn(n) /\ HeldLens(n)' = HeldLens(n) /\ HeldOut(n)' = HeldOut(n)
             /\ Raw(n)' => Raw(n)
  BY <1>1, <1>2, <1>3, <1>4 DEF HeldIn, HeldLens, HeldOut, Raw, Having, Working
<1>6. \A c \in Compressors : HeldCheck(c)' = HeldCheck(c)
  BY <1>1, <1>2 DEF HeldCheck, Having, Working
<1>7. CutsOK(f, S)' /\ OutData(f, S)'
  BY <1>1, <1>3, CutsKept, OutDataKept DEF Story
<1>8. MainData(f)'
  <2>1. IF jobs[seq].more
          THEN Buffered(f[seq + 1]) /\ DictAt(f[seq + 1]) /\ f[seq + 1] < input.length
          ELSE f[seq + 1] = input.length
    BY <1>1 DEF Story, MainData
  <2>2. CASE jobs[seq].more
    <3>1. PICK at : at = f[seq + 1]
      OBVIOUS
    <3>2. Buffered(at)' /\ DictAt(at)'
      BY <1>1, <2>1, <2>2, <3>1 DEF Buffered, DictAt
    <3> QED
      BY <1>1, <2>1, <2>2, <3>1, <3>2 DEF MainData, AllMade
  <2>3. CASE ~jobs[seq].more
    BY <1>1, <2>1, <2>3 DEF MainData, AllMade
  <2> QED
    BY <2>2, <2>3
<1>9. ASSUME NEW n \in Seqs, Present(n)' PROVE JobData(f, S, n)'
  <2>1. JobData(f, S, n)
    BY <1>4, <1>9 DEF Story
  <2>2. n < seq' /\ jobs[n].calc => n < seq
    <3>1. ~jobs[seq].calc
      BY <1>1 DEF Control, JobsOK, Making
    <3>2. n \in Nat /\ (n < seq + 1 => n < seq \/ n = seq)
      BY <1>3, Numbers
    <3> QED
      BY <1>1, <3>1, <3>2
  <2> QED
    BY <1>1, <1>3, <1>5, <2>1, <2>2, JobDataKept
<1>10. ASSUME NEW c \in Compressors PROVE ThreadData(f, c)'
  <2>1. ThreadData(f, c)
    BY DEF Story
  <2>2. CASE cpc'[c] = cpc[c]
    BY <1>1, <1>6, <2>1, <2>2, ThreadDataKept
  <2>3. CASE cpc'[c] = "get"
    BY <2>3 DEF ThreadData, HeldCheck
  <2> QED
    BY <1>2, <2>2, <2>3
<1> QED
  BY <1>7, <1>8, <1>9, <1>10 DEF Story

LEMMA EndInputStory ==
  ASSUME Control, Control', References, References', EndInput, NEW f, NEW S, Story(f, S)
  PROVE  Story(f, S)'
<1>1. /\ mpc = "end" /\ mpc' = "join" /\ UNCHANGED <<input, seq>> /\ data' = Kept(refs', data)
  BY DEF EndInput
<1>2. Untouched({})
  <2>1. Null \in Spaces => refs[Null] = 0
    BY PoolsApart
  <2> QED
    BY <1>1, <2>1, LeftAlone
<1>3. CutsOK(f, S)'
  <2>1. Decided' = Decided
    BY <1>1 DEF Decided
  <2> QED
    BY <1>1, <2>1, CutsKept DEF Story
<1>4. MainData(f)'
  <2>1. f[seq] = input.length
    BY <1>1 DEF Story, MainData, AllMade
  <2> QED
    BY <1>1, <2>1 DEF MainData
<1>5. ~Making'
  BY <1>1 DEF Making
<1> QED
  BY <1>2, <1>3, <1>4, <1>5, MainStory

(* What the first buffer has.                                              *)
LEMMA FirstRemains ==
  ASSUME NEW i \in Inputs, NEW mid, mid = MinOf(0 + Size, i.length)
  PROVE  Remains(0, mid, mid, 0, 0, i) /\ mid \in 0..i.length /\ (0 < i.length \/ i.length = 0)
<1>1. i.length \in Nat /\ Size \in Nat /\ 0 < Size /\ i.hits \subseteq 1..i.length
  BY InputIs
<1>2. mid \in Int /\ 0 <= mid /\ mid <= i.length /\ mid <= Size /\ (mid = Size \/ mid = i.length)
      /\ MinOf(Size, i.length) <= mid
  BY <1>1 DEF MinOf
<1>3. HitsIn(i.hits, 0, 0) = {}
  <2>1. \A h \in i.hits : ~(0 < h /\ h <= 0)
    BY <1>1
  <2> QED
    BY <2>1 DEF HitsIn
<1> QED
  BY <1>1, <1>2, <1>3 DEF Remains

LEMMA ReadFirstStory ==
  ASSUME Control, Control', References, References', ReadFirst, NEW f, NEW S, Story(f, S)
  PROVE  Story(f, S)'
<1>1. PICK s, mid : /\ s \in InPool /\ Fresh(InPool) # {} /\ s = First(InPool) /\ next' = s
                    /\ mid = MinOf(pos + Size, input.length) /\ pos' = ReadAt(pos).hi
                    /\ data' = [data EXCEPT ![s] = Holding(ReadAt(pos))]
  BY DEF ReadFirst, GetAndRead
<1>2. /\ mpc = "first" /\ mpc' = "job" /\ UNCHANGED <<input, seq, hold, left, scan, dict>>
      /\ hold = Null /\ dict = Null
  BY DEF ReadFirst, References, MainOK
<1>3. s \in Spaces /\ refs[s] = 0 /\ input \in Inputs
  BY <1>1, FreshBuffers, PoolsApart DEF Control, Types, MainTypes
<1>4. Untouched({})
  BY <1>1, <1>3, LeftAlone
<1>5. seq = 0 /\ pos = 0 /\ left = 0 /\ scan = 0 /\ f[0] = 0
  BY <1>2 DEF Story, MainData, CutsOK
<1>6. pos' = mid /\ data'[s].piece = Piece(0, mid)
  BY <1>1, <1>3, <1>5 DEF ReadAt, Piece, Holding, Control, Types, PoolTypes, DataOK
<1>7. Remains(0, mid, mid, 0, 0, input) /\ mid \in 0..input.length /\ (0 < input.length \/ input.length = 0)
  BY <1>1, <1>3, <1>5, FirstRemains
<1>8. Buffered(f[seq])' /\ DictAt(f[seq])'
  BY <1>1, <1>2, <1>5, <1>6, <1>7 DEF Buffered, DictAt
<1>9. MainData(f)'
  BY <1>2, <1>5, <1>7, <1>8 DEF MainData, AllMade
<1>10. CutsOK(f, S)' /\ ~Making'
  <2>1. Decided' = Decided
    BY <1>2 DEF Decided
  <2> QED
    BY <1>2, <2>1, CutsKept DEF Story, Making
<1> QED
  BY <1>4, <1>9, <1>10, MainStory

LEMMA NewJobStory ==
  ASSUME Control, Control', References, References', NewJob, NEW f, NEW S, Story(f, S)
  PROVE  Story(f, S)'
<1>1. /\ mpc = "job" /\ mpc' = "rsync" /\ curr' = next /\ hold' = Null
      /\ UNCHANGED <<input, seq, left, scan, dict>> /\ seq \in Seqs /\ input \in Inputs
      /\ jobs' = [jobs EXCEPT ![seq] = [NoJob EXCEPT !.live = TRUE]]
      /\ next \in Spaces /\ next # Null
  BY PoolsApart DEF NewJob, Control, Types, MainTypes, BuffersOK
<1>2. PICK lo, mid : /\ lo = f[seq] /\ mid \in 0..input.length
                     /\ Remains(lo, mid, pos, left, scan, input) /\ data[next].piece = Piece(lo, mid)
                     /\ hold = Null <=> left = 0
                     /\ hold # Null => data[hold].piece = Piece(mid, pos)
                     /\ DictAt(lo) /\ (lo < input.length \/ input.length = 0)
  BY <1>1 DEF Story, MainData, Buffered
<1>3. refs[next] # 0
  <2>1. held[<<"next", 0>>] = next /\ <<"next", 0>> \in Tokens
    BY <1>1, HeldValues, TokenKinds DEF HeldNext
  <2> QED
    BY <1>1, <2>1, NotInUse DEF References, CountsOK
<1>4. /\ Untouched({}) /\ data'[next] = data[next]
      /\ data'[next'].piece = Piece(mid, pos')
      /\ pos' = IF left = 0 THEN MinOf(mid + Size, input.length) ELSE pos
  <2>1. CASE hold # Null
    <3>1. next' = hold /\ pos' = pos /\ data' = data
      BY <2>1 DEF NewJob, pools
    <3>2. Untouched({})
      BY <3>1 DEF Untouched
    <3> QED
      BY <1>2, <2>1, <3>1, <3>2
  <2>2. CASE hold = Null
    <3>1. PICK s : /\ s \in InPool /\ Fresh(InPool) # {} /\ s = First(InPool) /\ next' = s
                   /\ pos' = ReadAt(pos).hi /\ data' = [data EXCEPT ![s] = Holding(ReadAt(pos))]
      BY <2>2 DEF NewJob, GetAndRead
    <3>2. s \in Spaces /\ refs[s] = 0
      BY <3>1, FreshBuffers, PoolsApart
    <3>3. Untouched({})
      BY <3>1, <3>2, LeftAlone
    <3>4. pos = mid
      BY <1>2, <2>2 DEF Remains
    <3>5. data'[s].piece = ReadAt(pos) /\ data'[next] = data[next]
      BY <1>1, <1>3, <3>1, <3>2 DEF Holding, Control, Types, PoolTypes, DataOK
    <3>6. ReadAt(pos) = Piece(mid, pos') /\ pos' = MinOf(mid + Size, input.length)
      BY <3>1, <3>4 DEF ReadAt, Piece
    <3> QED
      BY <1>2, <2>2, <3>1, <3>3, <3>5, <3>6
  <2> QED
    BY <2>1, <2>2
<1>5. Faces(lo, mid, pos', left, scan, input)
  BY <1>1, <1>2, <1>4, RemainsFaces
<1>6. DictAt(lo)'
  <2>1. HeldDict = dict /\ HeldDict' = dict
    BY <1>1 DEF HeldDict
  <2>2. dict # Null => data'[dict] = data[dict]
    BY <1>4, <2>1, SameContents DEF References
  <2> QED
    BY <1>1, <1>2, <2>2 DEF DictAt
<1>7. MainData(f)'
  BY <1>1, <1>2, <1>4, <1>5, <1>6 DEF MainData, AllMade
<1>8. Decided' = Decided /\ Decided' = seq
  BY <1>1 DEF Decided
<1>9. CutsOK(f, S)'
  BY <1>1, <1>8, CutsKept DEF Story
<1>10. ASSUME NEW n \in Seqs, n = seq PROVE JobData(f, S, n)'
  <2>1. jobs'[n].in = Null /\ jobs'[n].out = Null /\ ~(n < Decided') /\ ~(n < seq')
    <3>1. seq \in Nat
      BY Numbers
    <3> QED
      BY <1>1, <1>8, <1>10, <3>1 DEF NoJob, Control, Types, JobTypes
  <2>2. HeldIn(n)' = Null /\ HeldOut(n)' = Null
    BY <2>1 DEF HeldIn, HeldOut
  <2> QED
    BY <2>1, <2>2, PoolsApart DEF JobData
<1> QED
  BY <1>4, <1>7, <1>9, <1>10, MainStory

LEMMA CutTailStory ==
  ASSUME Control, Control', References, References', CutTail, NEW f, NEW S, Story(f, S)
  PROVE  Story(f, S)'
<1>1. PICK s, p, n : /\ Fresh(InPool) # {} /\ s = First(InPool) /\ p = data[curr].piece /\ n = seq
                     /\ next' = s
                     /\ data' = [data EXCEPT ![s] = Holding(Suffix(p, left)),
                                             ![curr] = Holding(Piece(p.lo, p.hi - left))]
  BY DEF CutTail
<1>2. /\ mpc = "tail" /\ mpc' = "dict" /\ UNCHANGED <<jobs, input, pos, seq, curr, hold, left, scan, dict>>
      /\ left # 0 /\ hold # Null /\ curr \in Spaces /\ hold \in Spaces /\ dict \in Spaces \union {Null}
      /\ curr # Null /\ input \in Inputs
  BY PoolsApart DEF CutTail, References, MainOK, Control, BuffersOK, Types, MainTypes
<1>3. s \in Spaces /\ refs[s] = 0 /\ DOMAIN data = Spaces
  BY <1>1, FreshBuffers, PoolsApart DEF Control, Types, PoolTypes, DataOK
<1>4. \A h \in Tokens : held[h] # s
  BY <1>3, NotInUse DEF References, CountsOK
<1>5. HeldCurr = curr /\ HeldDict = dict
  BY <1>2 DEF HeldCurr, HeldDict
<1>6. s # curr /\ s # hold /\ s # dict /\ hold # curr /\ (dict # Null => dict # curr)
  <2>1. Alone(held, <<"curr", 0>>)
    BY DEF References, MainAlone
  <2>2. /\ held[<<"curr", 0>>] = curr /\ held[<<"hold", 0>>] = hold /\ held[<<"dict", 0>>] = dict
        /\ {<<"curr", 0>>, <<"hold", 0>>, <<"dict", 0>>} \subseteq Tokens
        /\ <<"hold", 0>> # <<"curr", 0>> /\ <<"dict", 0>> # <<"curr", 0>>
    BY <1>5, HeldValues, TokenKinds
  <2> QED
    BY <1>2, <1>4, <2>1, <2>2 DEF Alone
<1>7. Untouched({curr})
  BY <1>1, <1>3 DEF Untouched
<1>8. PICK lo, hi, mid :
        /\ lo = f[seq] /\ hi = f[seq + 1] /\ mid \in 0..input.length
        /\ DictAt(lo) /\ FarEnough(lo, hi, input) /\ Remains(hi, mid, pos, left, scan, input)
        /\ p = Piece(lo, mid) /\ data[hold].piece = Piece(mid, pos)
  BY <1>1, <1>2 DEF Story, MainData
<1>9. left = mid - hi /\ mid \in Int /\ hi \in Int
  BY <1>2, <1>8 DEF Remains
<1>10. Suffix(p, left) = Piece(hi, mid) /\ Piece(p.lo, p.hi - left) = Piece(lo, hi)
  BY <1>8, <1>9 DEF Suffix, Piece
<1>11. /\ data'[s].piece = Piece(hi, mid) /\ data'[curr].piece = Piece(lo, hi)
       /\ data'[hold] = data[hold] /\ (dict # Null => data'[dict] = data[dict])
  BY <1>1, <1>2, <1>3, <1>6, <1>10 DEF Holding
<1>12. Buffered(hi)' /\ DictAt(lo)'
  BY <1>1, <1>2, <1>8, <1>11 DEF Buffered, DictAt
<1>13. MainData(f)'
  BY <1>2, <1>8, <1>11, <1>12 DEF MainData, AllMade, Of
<1>14. Decided' = Decided
  BY <1>2 DEF Decided
<1>15. CutsOK(f, S)'
  BY <1>2, <1>14, CutsKept DEF Story
<1>16. ASSUME n \in Seqs PROVE JobData(f, S, n)'
  <2>1. /\ HeldIn(n)' = HeldIn(n) /\ HeldOut(n)' = HeldOut(n) /\ HeldLens(n)' = HeldLens(n)
    BY <1>16, JobsUnchanged
  <2>2. Present(n) /\ UNCHANGED <<cpc, cjob>> /\ Taken' = Taken
    BY <1>1, <1>2, <1>16, MainFrame DEF Making
  <2>3. jobs[n].in = Null /\ jobs[n].out = Null
    BY <1>1, <1>2 DEF References, MainOK, Making
  <2>4. HeldIn(n) = Null /\ HeldOut(n) = Null
    BY <2>3 DEF HeldIn, HeldOut
  <2>5. HeldLens(n) # Null => data'[HeldLens(n)] = data[HeldLens(n)]
    <3>1. HeldLens(n) \in LensPool \union {Null}
      BY <1>16 DEF HeldLens, Control, Types, JobTypes, Jobs
    <3>2. curr \in InPool /\ s \in InPool
      BY <1>1, <1>2, FreshBuffers DEF Control, Types, MainTypes
    <3>3. HeldLens(n) # Null => HeldLens(n) \in Spaces /\ HeldLens(n) # s /\ HeldLens(n) # curr
      BY <1>2, <3>1, <3>2, PoolsApart
    <3> QED
      BY <1>1, <1>3, <3>3
  <2>6. JobData(f, S, n)
    BY <1>16, <2>2 DEF Story
  <2>7. Raw(n)' => Raw(n)
    BY <2>2 DEF Raw
  <2> QED
    BY <1>2, <1>14, <2>1, <2>4, <2>5, <2>6, <2>7, JobDataKept
<1> QED
  BY <1>1, <1>5, <1>7, <1>13, <1>15, <1>16, MainStory

(* The data of the job itself, or what was copied, is the next dictionary. *)
LEMMA WholeIsWindow ==
  ASSUME NEW lo \in Int, NEW hi \in Int, 0 <= lo, lo < hi, hi - lo <= Size, hi - lo >= Dict \/ lo = 0
  PROVE  Window(Piece(lo, hi), hi)
<1>1. Size \in Int /\ Dict \in Int
  BY BlocksAssumption
<1>2. IsPiece(Piece(lo, hi), hi) /\ Span(Piece(lo, hi)) = hi - lo /\ Piece(lo, hi).hi = hi
  BY DEF IsPiece, Span, Piece
<1>3. MinOf(hi - lo, Dict) = MinOf(hi, Dict)
  BY <1>1 DEF MinOf
<1> QED
  BY <1>2, <1>3 DEF Window

LEMMA PrepareStory ==
  ASSUME Control, Control', References, References', Prepare, NEW f, NEW S, Story(f, S)
  PROVE  Story(f, S)'
<1>1. PICK n, c, more :
        /\ n = seq /\ c = data[curr].piece /\ more = (Span(data[next].piece) # 0)
        /\ jobs' = [jobs EXCEPT ![n].in = curr, ![n].out = dict, ![n].more = more]
        /\ HoldDict(more)
  BY DEF Prepare
<1>2. /\ mpc = "dict" /\ mpc' = "append" /\ UNCHANGED <<input, pos, seq, next, hold, left, scan>>
      /\ curr \in InPool /\ next \in InPool /\ hold \in InPool \union {Null}
      /\ dict \in InPool \union DictPool \union {Null} /\ input \in Inputs
      /\ jobs \in [Seqs -> Jobs] /\ jobs[n].in = Null /\ jobs[n].out = Null /\ Making /\ Making'
  <2>1. mpc = "dict" /\ mpc' = "append" /\ UNCHANGED <<input, pos, seq, next, hold, left, scan>>
    BY DEF Prepare
  <2>2. curr # Null /\ next # Null
    BY <2>1 DEF Control, BuffersOK
  <2> QED
    BY <1>1, <2>1, <2>2 DEF References, MainOK, Control, Types, MainTypes, JobTypes, Making
<1>3. seq \in Seqs /\ n \in Seqs /\ n \in Nat /\ Taken <= n /\ Taken \in Int /\ n + 1 \in 0..(MaxJobs + 1) /\ n \in 0..(MaxJobs + 1)
  BY <1>1, <1>2, Numbers, CompressAssumption DEF Seqs
<1>4. ASSUME NEW s \in Spaces, refs[s] # 0 PROVE data'[s] = data[s]
  <2>1. CASE data' = data
    BY <2>1
  <2>2. CASE ~(data' = data)
    <3>1. PICK d, x : d = First(DictPool) /\ Fresh(DictPool) # {} /\ data' = [data EXCEPT ![d] = x]
      BY <1>1, <2>2 DEF HoldDict, pools
    <3>2. refs[d] = 0
      BY <3>1, FreshBuffers
    <3> QED
      BY <1>4, <3>1, <3>2 DEF Control, Types, PoolTypes, DataOK
  <2> QED
    BY <2>1, <2>2
<1>5. Untouched({})
  BY <1>4 DEF Untouched
<1>6. /\ data'[curr] = data[curr] /\ data'[next] = data[next]
      /\ hold # Null => data'[hold] = data[hold]
      /\ dict # Null => data'[dict] = data[dict]
  <2>1. \A h \in Tokens : held[h] \in Spaces => data'[held[h]] = data[held[h]]
    BY <1>4, NotInUse DEF References, CountsOK
  <2>2. HeldCurr = curr /\ HeldNext = next /\ HeldDict = dict
    BY <1>2 DEF HeldCurr, HeldNext, HeldDict
  <2>3. /\ held[<<"curr", 0>>] = curr /\ held[<<"next", 0>>] = next
        /\ held[<<"hold", 0>>] = hold /\ held[<<"dict", 0>>] = dict
    BY <2>2, HeldValues
  <2>4. curr \in Spaces /\ next \in Spaces /\ (hold # Null => hold \in Spaces) /\ (dict # Null => dict \in Spaces)
    BY <1>2, PoolsApart
  <2> QED
    BY <2>1, <2>3, <2>4, TokenKinds
<1>7. PICK lo, hi, mid :
        /\ lo = f[n] /\ hi = f[n + 1] /\ mid \in 0..input.length /\ DictAt(lo) /\ FarEnough(lo, hi, input)
        /\ c = Piece(lo, hi) /\ Remains(hi, mid, pos, left, scan, input) /\ data[next].piece = Piece(hi, mid)
        /\ hold = Null <=> left = 0
        /\ hold # Null => data[hold].piece = Piece(mid, pos)
  <2>1. MainData(f)
    BY DEF Story
  <2>2. DictAt(f[n]) /\ FarEnough(f[n], f[n + 1], input) /\ c = Piece(f[n], f[n + 1]) /\ Buffered(f[n + 1])
    BY <1>1, <1>2, <2>1 DEF MainData, Of
  <2> QED
    BY <2>2 DEF Buffered
<1>8. lo \in Int /\ 0 <= lo /\ hi \in Int /\ 0 <= hi /\ mid \in Int /\ hi <= mid /\ mid <= input.length /\ input.length \in Int
  <2>1. f[n] \in Nat /\ f[n + 1] \in Nat
    BY <1>3 DEF Story, CutsOK
  <2> QED
    BY <1>2, <1>7, <2>1, InputIs DEF Remains
<1>9. more <=> hi # mid
  <2>1. Span(data[next].piece) = mid - hi
    BY <1>7, <1>8, PieceIs
  <2>2. mid - hi # 0 <=> hi # mid
    BY <1>8
  <2> QED
    BY <1>1, <2>1, <2>2
<1>10. ASSUME more PROVE Buffered(hi)' /\ DictAt(hi)' /\ hi < input.length
  <2>1. hi < input.length /\ lo < hi /\ hi - lo <= Size /\ (lo = 0 \/ hi >= Dict) /\ hi # 0
    BY <1>7, <1>8, <1>9, <1>10 DEF FarEnough
  <2>2. Buffered(hi)'
    BY <1>2, <1>6, <1>7 DEF Buffered
  <2>3. dict' # Null /\ Window(data'[dict'].piece, hi)
    <3>1. CASE Span(c) >= Dict \/ dict = Null
      <4>1. dict' = curr /\ data'[dict'].piece = Piece(lo, hi) /\ curr # Null
        BY <1>1, <1>2, <1>6, <1>7, <1>10, <3>1, PoolsApart DEF HoldDict
      <4>2. hi - lo >= Dict \/ lo = 0
        <5>1. Span(Piece(lo, hi)) = hi - lo
          BY <1>8, PieceIs
        <5> QED
          BY <1>7, <3>1, <5>1 DEF DictAt
      <4> QED
        BY <1>8, <2>1, <4>1, <4>2, WholeIsWindow
    <3>2. CASE ~(Span(c) >= Dict \/ dict = Null)
      <4>1. PICK d, x : /\ d = First(DictPool) /\ Fresh(DictPool) # {} /\ dict' = d /\ x = data[dict].piece
                        /\ data' = [data EXCEPT ![d] = Holding(NextDict(c, x))]
        BY <1>1, <1>10, <3>2 DEF HoldDict
      <4>2. d \in Spaces /\ d # Null
        BY <4>1, FreshBuffers, PoolsApart
      <4>3. data'[d].piece = NextDict(Piece(lo, hi), x)
        BY <1>7, <4>1, <4>2 DEF Holding, Control, Types, PoolTypes, DataOK
      <4>4. Window(x, lo)
        BY <1>7, <3>2, <4>1 DEF DictAt
      <4>5. Window(NextDict(Piece(lo, hi), x), hi)
        BY <1>8, <2>1, <4>4, NextDictIs
      <4> QED
        BY <4>1, <4>2, <4>3, <4>5
    <3> QED
      BY <3>1, <3>2
  <2> QED
    BY <2>1, <2>2, <2>3 DEF DictAt
<1>11. ASSUME ~more PROVE hi = input.length
  BY <1>7, <1>9, <1>11 DEF Remains
<1>12. /\ jobs'[n].in = curr /\ jobs'[n].out = dict /\ jobs'[n].lens = jobs[n].lens /\ jobs'[n].more = more
  BY <1>1, <1>2, <1>3 DEF Jobs
<1>13. MainData(f)'
  <2>1. CASE more
    BY <1>1, <1>2, <1>7, <1>10, <1>12, <2>1 DEF MainData, AllMade
  <2>2. CASE ~more
    BY <1>1, <1>2, <1>7, <1>11, <1>12, <2>2 DEF MainData, AllMade
  <2> QED
    BY <2>1, <2>2
<1>14. CutsOK(f, S)' /\ Decided' = Decided
  <2>1. Decided' = Decided
    BY <1>2 DEF Decided
  <2> QED
    BY <1>2, <2>1, CutsKept DEF Story
<1>15. JobData(f, S, n)'
  <2>1. /\ Present(n) /\ Present(n)' /\ UNCHANGED <<cpc, cjob, wpc, wseq>> /\ Taken' = Taken
        /\ wpc \in Busy => wseq # n
        /\ \A t \in Compressors : cpc[t] \in Having => cjob[t] # n
    BY <1>1, <1>2, <1>3, MainFrame
  <2>2. HeldIn(n)' = curr /\ HeldOut(n)' = dict
    BY <1>12, <2>1 DEF HeldIn, HeldOut, Busy, Having, Working
  <2>3. HeldLens(n)' = HeldLens(n) /\ Lens(n)' = Lens(n)
    <3>1. HeldLens(n)' = HeldLens(n)
      BY <1>12, <2>1 DEF HeldLens
    <3>2. HeldLens(n) # Null => data'[HeldLens(n)] = data[HeldLens(n)]
      BY <1>3, <1>5, <3>1, SameContents DEF References
    <3> QED
      BY <3>1, <3>2 DEF Lens
  <2>4. JobData(f, S, n) /\ Raw(n)
    BY <1>3, <2>1 DEF Story, Raw
  <2>5. dict \notin OutPool /\ ~(n < seq')
    BY <1>1, <1>2, <1>3, PoolsApart
  <2>6. dict # Null => Window(data'[dict].piece, f[n])
    BY <1>6, <1>7 DEF DictAt
  <2>7. data'[curr].piece = Of(f, n)
    BY <1>1, <1>6, <1>7 DEF Of
  <2> QED
    BY <1>12, <1>14, <2>2, <2>3, <2>4, <2>5, <2>6, <2>7 DEF JobData, Of, Part, WindowAt
<1> QED
  BY <1>1, <1>5, <1>13, <1>14, <1>15, MainStory

(* The cuts up to the end of one job more.                                 *)
Longer(g, T, f, S, n) ==
  /\ \A m \in 0..n : g[m] = f[m]
  /\ \A s : s \in T /\ s <= f[n] <=> s \in S /\ s <= f[n]

LEMMA CutsGrow ==
  ASSUME input \in Inputs, input' = input, NEW n, n \in 0..MaxJobs, Decided = n, Decided' = n + 1,
         NEW f, NEW S, CutsOK(f, S), NEW hi, NEW B,
         Grows(B, f[n], hi, input)
  PROVE  \E g, T : CutsOK(g, T)' /\ Longer(g, T, f, S, n) /\ g[n + 1] = hi /\ Part(g, T, n) = B
<1> PICK g, T : g = [f EXCEPT ![n + 1] = hi] /\ T = S \union B
  OBVIOUS
<1>1. /\ f \in [0..(MaxJobs + 1) -> Nat] /\ f[0] = 0 /\ n \in Nat /\ MaxJobs \in Nat
      /\ \A m \in 0..n : f[m] \in S
      /\ \A m, k \in 0..n : m <= k => f[m] <= f[k]
      /\ Chain(S, f[n], input.length, input.hits)
      /\ input.length \in Nat /\ Input(input.length, input.hits)
      /\ hi \in Int /\ f[n] <= hi /\ hi <= input.length
  BY CompressAssumption, InputIs DEF CutsOK, Grows
<1>2. /\ n + 1 \in 0..(MaxJobs + 1) /\ n \in 0..(MaxJobs + 1) /\ f[n] \in Nat /\ f[n] \in Int
      /\ \A m \in 0..n : m \in 0..(MaxJobs + 1) /\ m # n + 1
      /\ \A m \in 0..(n + 1) : m \in 0..n \/ m = n + 1
      /\ 0 \in 0..n /\ n \in 0..n
  BY <1>1
<1>3. (\A m \in 0..n : g[m] = f[m]) /\ g[n + 1] = hi /\ hi \in Nat
  <2>1. hi \in Nat
    BY <1>1, <1>2
  <2> QED
    BY <1>1, <1>2, <2>1
<1>4. g \in [0..(MaxJobs + 1) -> Nat]
  BY <1>1, <1>2, <1>3
<1>5. \A s \in S : s \in Int /\ s <= f[n]
  BY <1>1, <1>2 DEF Chain
<1>6. /\ Chain(T, hi, input.length, input.hits)
      /\ \A s \in B : s \in Int /\ s <= hi /\ (s <= f[n] => s \in S)
      /\ hi \in B
      /\ \A s \in B : s = hi \/ f[n] < s
  <2>1. CASE input.length = 0
    <3>1. f[n] = 0 /\ 0 \in S /\ hi = 0 /\ B = {0}
      BY <1>1, <2>1 DEF Chain, Grows
    <3>2. T = S
      BY <3>1
    <3> QED
      BY <1>1, <3>1, <3>2
  <2>2. CASE input.length # 0
    <3>1. Extends(B, f[n], hi, input.length, input.hits)
      BY <2>2 DEF Grows
    <3>2. Chain(T, hi, input.length, input.hits)
      BY <1>1, <3>1, ChainExtends
    <3>3. f[n] < hi /\ hi \in B /\ \A s \in B : s \in Int /\ f[n] < s /\ s <= hi
      BY <1>1, <3>1 DEF Extends, HitsIn, Input
    <3> QED
      BY <1>2, <3>2, <3>3
  <2> QED
    BY <2>1, <2>2
<1>7. \A m \in 0..(n + 1) : g[m] \in T
  BY <1>1, <1>2, <1>3, <1>6
<1>8. \A m, k \in 0..(n + 1) : m <= k => g[m] <= g[k]
  <2> SUFFICES ASSUME NEW m \in 0..(n + 1), NEW k \in 0..(n + 1), m <= k PROVE g[m] <= g[k]
    OBVIOUS
  <2>1. CASE k = n + 1
    <3>1. CASE m = n + 1
      BY <1>3, <2>1, <3>1
    <3>2. CASE m # n + 1
      <4>1. m \in 0..n /\ m <= n
        BY <1>2, <3>2
      <4>2. f[m] <= f[n] /\ f[m] \in Nat /\ g[m] = f[m]
        BY <1>1, <1>2, <1>3, <4>1
      <4> QED
        BY <1>1, <1>2, <1>3, <2>1, <4>2
    <3> QED
      BY <3>1, <3>2
  <2>2. CASE k # n + 1
    <3>1. k \in 0..n /\ m \in 0..n
      BY <1>1, <2>2
    <3> QED
      BY <1>1, <1>3, <3>1
  <2> QED
    BY <2>1, <2>2
<1>9. CutsOK(g, T)'
  <2>1. g[0] = 0 /\ g[n + 1] = hi
    BY <1>1, <1>2, <1>3
  <2> QED
    BY <1>4, <1>6, <1>7, <1>8, <2>1 DEF CutsOK
<1>10. \A s : s \in T /\ s <= f[n] <=> s \in S /\ s <= f[n]
  BY <1>6
<1>11. Part(g, T, n) = B
  <2>1. Part(g, T, n) = {s \in T : f[n] < s /\ s <= hi} \union {hi}
    BY <1>2, <1>3 DEF Part
  <2>2. \A s : s \in {x \in T : f[n] < x /\ x <= hi} \union {hi} <=> s \in B
    <3>1. \A s \in S : ~(f[n] < s)
      BY <1>2, <1>5
    <3> QED
      BY <1>6, <3>1
  <2> QED
    BY ONLY <2>1, <2>2
<1> QED
  BY <1>3, <1>9, <1>10, <1>11 DEF Longer

(* What main has after the turn, with the cuts up to the end of its job.   *)
LEMMA RsyncStory ==
  ASSUME Control, Control', References, References', Rsync, NEW f, NEW S, Story(f, S)
  PROVE  \E g, T : Story(g, T)'
<1>1. PICK n : n = seq
  OBVIOUS
<1>2. /\ mpc = "rsync" /\ UNCHANGED <<input, pos, seq, curr, next, dict>> /\ input \in Inputs
      /\ curr \in InPool /\ next \in InPool /\ dict \in InPool \union DictPool \union {Null}
      /\ hold = Null /\ jobs \in [Seqs -> Jobs] /\ DOMAIN data = Spaces
      /\ jobs[n].in = Null /\ jobs[n].out = Null /\ jobs[n].lens = Null /\ Making
  <2>1. mpc = "rsync" /\ UNCHANGED <<input, pos, seq, curr, next, dict>>
    BY DEF Rsync
  <2>2. curr # Null /\ next # Null
    BY <2>1 DEF Control, BuffersOK
  <2> QED
    BY <1>1, <2>1, <2>2
       DEF References, MainOK, Control, Types, PoolTypes, DataOK, MainTypes, JobTypes, Making
<1>3. n \in Seqs /\ n \in Nat /\ n \in 0..MaxJobs /\ Decided = n
  BY <1>1, <1>2, Numbers DEF Seqs, Decided
<1>4. PICK lo, mid :
        /\ lo = f[n] /\ mid \in 0..input.length /\ DictAt(lo)
        /\ Faces(lo, mid, pos, left, scan, input)
        /\ data[curr].piece = Piece(lo, mid) /\ data[next].piece = Piece(mid, pos)
  BY <1>1, <1>2 DEF Story, MainData
<1>5. lo \in Int /\ mid \in Int /\ pos \in Int /\ 0 <= lo /\ pos \in 0..input.length
      /\ Span(data[curr].piece) = mid - lo
  <2>1. lo \in Int /\ mid \in Int /\ pos \in Int /\ 0 <= lo /\ pos \in 0..input.length
    BY <1>4 DEF Faces
  <2> QED
    BY <1>4, <2>1, PieceIs
<1>6. CutsOK(f, S)
  BY DEF Story
<1>7. /\ curr # next
      /\ dict # Null => dict \notin {curr, next} /\ refs[dict] # 0
  <2>1. Alone(held, <<"curr", 0>>) /\ Alone(held, <<"next", 0>>)
    BY DEF References, MainAlone
  <2>2. /\ held[<<"curr", 0>>] = curr /\ held[<<"next", 0>>] = next /\ held[<<"dict", 0>>] = dict
        /\ {<<"curr", 0>>, <<"next", 0>>, <<"dict", 0>>} \subseteq Tokens
    BY <1>2, HeldValues, TokenKinds DEF HeldCurr, HeldNext, HeldDict
  <2>3. <<"next", 0>> # <<"curr", 0>> /\ <<"dict", 0>> # <<"curr", 0>> /\ <<"dict", 0>> # <<"next", 0>>
    OBVIOUS
  <2>4. curr # Null /\ next # Null /\ (dict # Null => dict \in Spaces)
    BY <1>2, PoolsApart
  <2> QED
    BY <2>1, <2>2, <2>3, <2>4, NotInUse DEF Alone, References, CountsOK
<1>8. ASSUME NEW X, Untouched(X), X \subseteq {HeldCurr, HeldNext},
             dict # Null => data'[dict] = data[dict],
             NEW B, NEW hi, NEW tailed \in BOOLEAN,
             TurnLeaves(B, lo, hi, tailed, mid, pos, left', scan', input),
             mpc' = (IF tailed THEN "tail" ELSE "dict"),
             hold' = (IF tailed THEN next ELSE Null),
             IF tailed THEN data'[curr].piece = Piece(lo, mid) /\ data'[next].piece = Piece(mid, pos)
               ELSE data'[curr].piece = Piece(lo, hi) /\ data'[next].piece = Piece(hi, pos),
             jobs'[n].in = Null, jobs'[n].out = Null, BlockEnds(Piece(lo, hi), Lens(n)') = B
      PROVE  \E g, T : Story(g, T)'
  <2>1. Decided' = n + 1 /\ Decided = n /\ input' = input /\ n \in 0..MaxJobs
    BY <1>1, <1>2, <1>3, <1>8 DEF Decided
  <2>2. PICK g, T : CutsOK(g, T)' /\ Longer(g, T, f, S, n) /\ g[n + 1] = hi /\ Part(g, T, n) = B
    <3>1. Grows(B, f[n], hi, input)
      BY <1>4, <1>8 DEF TurnLeaves
    <3> QED
      BY <1>2, <1>6, <2>1, <3>1, CutsGrow
  <2>3. g[n] = lo /\ Of(g, n) = Piece(lo, hi)
    BY <1>3, <1>4, <2>2 DEF Of, Longer
  <2>4. DictAt(lo)'
    BY <1>2, <1>4, <1>8 DEF DictAt
  <2>5. MainData(g)'
    <3>1. CASE tailed
      <4>1. Remains(hi, mid, pos, left', scan', input) /\ FarEnough(lo, hi, input)
        BY <1>8, <3>1 DEF TurnLeaves
      <4> QED
        BY <1>1, <1>2, <1>4, <1>8, <2>2, <2>3, <2>4, <3>1, <4>1 DEF MainData, AllMade
    <3>2. CASE ~tailed
      <4>1. Remains(hi, pos, pos, left', scan', input) /\ left' = 0 /\ FarEnough(lo, hi, input)
        BY <1>8, <3>2 DEF TurnLeaves
      <4>2. Buffered(hi)'
        BY <1>2, <1>5, <1>8, <3>2, <4>1 DEF Buffered
      <4> QED
        BY <1>1, <1>2, <1>8, <2>2, <2>3, <2>4, <3>2, <4>1, <4>2 DEF MainData, AllMade, Of
    <3> QED
      BY <3>1, <3>2
  <2>6. JobData(g, T, n)'
    <3>1. HeldIn(n)' = Null /\ HeldOut(n)' = Null
      BY <1>8 DEF HeldIn, HeldOut
    <3>2. Null \notin OutPool /\ ~(n < seq')
      BY <1>1, <1>2, <1>3, PoolsApart
    <3> QED
      BY <1>8, <2>2, <2>3, <3>1, <3>2 DEF JobData, Of, Part
  <2>7. Story(g, T)'
    BY <1>1, <1>8, <2>2, <2>5, <2>6, MainStory DEF Longer
  <2> QED
    BY <2>7
<1>9. CASE ~(input.rsync /\ Span(data[curr].piece) # 0)
  <2>1. mpc' = "dict" /\ UNCHANGED <<refs, data, jobs, left, scan, hold>>
    BY <1>9 DEF Rsync, pools
  <2>2. Untouched({}) /\ {} \subseteq {HeldCurr, HeldNext}
    BY <2>1 DEF Untouched
  <2>3. TurnLeaves({mid}, lo, mid, FALSE, mid, pos, left, scan, input)
    BY <1>2, <1>4, <1>5, <1>9, NoTurn
  <2>4. Lens(n)' = <<>>
    BY <1>2, <2>1 DEF Lens, HeldLens
  <2>5. BlockEnds(Piece(lo, mid), <<>>) = {mid}
    BY DEF BlockEnds, Piece
  <2>6. PICK B : B = {mid}
    OBVIOUS
  <2> QED
    BY <1>2, <1>4, <1>8, <2>1, <2>2, <2>3, <2>4, <2>5, <2>6
<1>10. CASE input.rsync /\ Span(data[curr].piece) # 0
  <2>1. PICK l, t :
          /\ l = First(LensPool) /\ Fresh(LensPool) # {}
          /\ t = RsyncTurn(Piece(lo, mid), Piece(mid, pos), left, scan, input.hits)
          /\ data' = [data EXCEPT ![l] = [Garbage EXCEPT !.lens = t.lens],
                                  ![curr] = IF t.tailed THEN data[curr] ELSE Holding(t.curr),
                                  ![next] = Holding(t.next)]
          /\ jobs' = [jobs EXCEPT ![n].lens = l]
          /\ left' = t.left /\ scan' = t.scan
          /\ mpc' = IF t.tailed THEN "tail" ELSE "dict"
          /\ hold' = IF t.tailed THEN next ELSE hold
    BY <1>1, <1>4, <1>10 DEF Rsync
  <2>2. l \in LensPool /\ refs[l] = 0 /\ l \in Spaces /\ l # curr /\ l # next /\ l # Null
        /\ curr \in Spaces /\ next \in Spaces
    BY <1>2, <2>1, FreshBuffers, PoolsApart
  <2>3. Untouched({curr, next}) /\ {curr, next} \subseteq {HeldCurr, HeldNext}
    BY <1>2, <2>1, <2>2 DEF Untouched, HeldCurr, HeldNext
  <2>4. PICK hi :
          /\ TurnLeaves(BlockEnds(Piece(lo, hi), t.lens), lo, hi, t.tailed, mid, pos, left', scan', input)
          /\ t.tailed \in BOOLEAN
          /\ IF t.tailed THEN t.next = Piece(mid, pos)
             ELSE t.curr = Piece(lo, hi) /\ t.next = Piece(hi, pos)
    <3>1. input.rsync /\ mid - lo # 0
      BY <1>5, <1>10
    <3> QED
      BY <1>2, <1>4, <2>1, <3>1, TurnDone
  <2>5. /\ data'[l].lens = t.lens /\ data'[next].piece = t.next
        /\ data'[curr] = (IF t.tailed THEN data[curr] ELSE Holding(t.curr))
    BY <1>2, <1>7, <2>1, <2>2 DEF Garbage, Holding
  <2>6. dict # Null => data'[dict] = data[dict]
    BY <1>2, <1>7, <2>1, <2>2, PoolsApart
  <2>7. jobs'[n].in = Null /\ jobs'[n].out = Null /\ jobs'[n].lens = l
    BY <1>2, <1>3, <2>1 DEF Jobs
  <2>8. Lens(n)' = t.lens
    <3>1. Present(n)'
      BY <1>1, <1>3, <2>1, MainFrame DEF Making
    <3> QED
      BY <2>2, <2>5, <2>7, <3>1 DEF Lens, HeldLens
  <2>9. PICK B, X, tailed : B = BlockEnds(Piece(lo, hi), t.lens) /\ X = {curr, next} /\ tailed = t.tailed
    OBVIOUS
  <2>10. IF tailed THEN data'[curr].piece = Piece(lo, mid) /\ data'[next].piece = Piece(mid, pos)
           ELSE data'[curr].piece = Piece(lo, hi) /\ data'[next].piece = Piece(hi, pos)
    BY <1>4, <2>4, <2>5, <2>9 DEF Holding
  <2> QED
    BY <1>2, <1>8, <2>1, <2>3, <2>4, <2>6, <2>7, <2>8, <2>9, <2>10
<1> QED
  BY <1>9, <1>10

-----------------------------------------------------------------------------
(* The contents are those of a story in every state                        *)

LEMMA StutterStory ==
  ASSUME Control, References, References', UNCHANGED vars, NEW f, NEW S, Story(f, S)
  PROVE  Story(f, S)'
<1>1. /\ UNCHANGED <<refs, data, jobs, compressList, mpc, input, pos, seq, curr, next, hold, left, scan, dict>>
      /\ UNCHANGED <<setup, cpc, cjob, cwindow, wpc, wseq, output>>
  BY DEF vars, pools, cLists, mainVars, cVars, wVars
<1>2. /\ AtWrite' = AtWrite /\ Taken' = Taken /\ Decided' = Decided
      /\ \A n \in Seqs : Present(n)' <=> Present(n)
  BY <1>1 DEF AtWrite, Taken, InStream, Decided, Present, Making
<1>3. Untouched({})
  BY <1>1 DEF Untouched
<1>4. CutsOK(f, S)' /\ MainData(f)' /\ OutData(f, S)'
  BY <1>1, <1>2, <1>3, CutsKept, MainDataKept, OutDataKept DEF Story, References
<1>5. ASSUME NEW n \in Seqs, Present(n)' PROVE JobData(f, S, n)'
  <2>1. /\ HeldIn(n)' = HeldIn(n) /\ HeldOut(n)' = HeldOut(n) /\ HeldLens(n)' = HeldLens(n)
        /\ Raw(n)' => Raw(n)
    BY <1>1, <1>2 DEF HeldIn, HeldOut, HeldLens, Raw
  <2>2. JobData(f, S, n)
    BY <1>2, <1>5 DEF Story
  <2> QED
    BY <1>1, <1>2, <2>1, <2>2, JobDataKept
<1>6. ASSUME NEW c \in Compressors PROVE ThreadData(f, c)'
  <2>1. HeldCheck(c)' = HeldCheck(c)
    BY <1>1 DEF HeldCheck
  <2> QED
    BY <1>1, <2>1, ThreadDataKept DEF Story
<1> QED
  BY <1>4, <1>5, <1>6 DEF Story

LEMMA ContentsStep ==
  ASSUME Control, Control', References, References', [Next]_vars, Contents
  PROVE  Contents'
<1> SUFFICES ASSUME wpc' # "none" PROVE \E f, S : Story(f, S)'
  BY DEF Contents
<1>1. CASE Start
  BY <1>1, StartStory
<1>2. CASE ~Start
  <2>1. wpc # "none"
    <3>1. CASE Main
      <4>1. JoinWriter => wpc' = "none"
        BY DEF JoinWriter
      <4>2. ReadFirst \/ NewJob \/ Rsync \/ CutTail \/ Prepare \/ AppendJob => wpc' = wpc
        BY DEF ReadFirst, NewJob, Rsync, CutTail, Prepare, AppendJob, wVars
      <4>3. EndInput \/ Finish \/ JoinAll => wpc' = wpc
        BY DEF EndInput, Finish, JoinAll, wVars
      <4> QED
        BY <1>2, <3>1, <4>1, <4>2, <4>3 DEF Main
    <3>2. CASE \E c \in Compressors : Compressor(c)
      BY <3>2 DEF Compressor, GetJob, SetDictionary, CompressData, Insert, Check, Calculated, wVars
    <3>3. CASE Writer
      <4>1. WriteHeader \/ TakeJob \/ WriteTrailer => wpc # "none"
        BY DEF WriteHeader, TakeJob, WriteTrailer
      <4>2. TakeLength \/ WriteData \/ Combine => wpc # "none"
        BY DEF TakeLength, WriteData, Combine
      <4> QED
        BY <3>3, <4>1, <4>2 DEF Writer
    <3>4. CASE UNCHANGED vars
      BY <3>4 DEF vars, wVars
    <3> QED
      BY <3>1, <3>2, <3>3, <3>4 DEF Next, Terminated
  <2>2. PICK f, S : Story(f, S)
    BY <2>1 DEF Contents
  <2>3. CASE Rsync
    BY <2>2, <2>3, RsyncStory
  <2>4. CASE ReadFirst \/ NewJob \/ CutTail \/ Prepare \/ AppendJob \/ EndInput
    <3>1. Story(f, S)'
      BY <2>2, <2>4, ReadFirstStory, NewJobStory, CutTailStory, PrepareStory, AppendJobStory, EndInputStory
    <3> QED
      BY <3>1
  <2>5. ~(JoinWriter \/ Finish \/ JoinAll)
    BY <2>1 DEF JoinWriter, Finish, JoinAll, Control, ThreadsOK
  <2>6. CASE \E c \in Compressors : Compressor(c)
    <3>1. Story(f, S)'
      BY <2>1, <2>2, <2>6, GetJobStory, SetDictionaryStory, CompressDataStory, InsertCheckStory DEF Compressor
    <3> QED
      BY <3>1
  <2>7. CASE Writer
    <3>1. Story(f, S)'
      BY <2>2, <2>7, WriterKeeps
    <3> QED
      BY <3>1
  <2>8. CASE UNCHANGED vars
    <3>1. Story(f, S)'
      BY <2>2, <2>8, StutterStory
    <3> QED
      BY <3>1
  <2> QED
    BY <1>2, <2>3, <2>4, <2>5, <2>6, <2>7, <2>8 DEF Next, Main, Terminated
<1> QED
  BY <1>1, <1>2

LEMMA ContentsInit ==
  ASSUME Init
  PROVE  Contents
BY DEF Init, Contents

(* What is written in the end is the input, in order, in the blocks that   *)
(* Blocks asks for, each with the window before it, and the trailer has    *)
(* the length and the check value of all of it: for any number of compress *)
(* threads, any limits of the pools, any stream and any hits in it.        *)
THEOREM OutputRight == Spec => []OutputIsInput
<1>1. Control /\ Contents => OutputIsInput
  <2> SUFFICES ASSUME Control, Contents, wpc \in {"trailer", "ended"} PROVE OutputIsInput
    BY DEF OutputIsInput
  <2>1. PICK f, S : Story(f, S)
    BY DEF Contents
  <2>2. wseq = seq /\ AllMade /\ Written = seq /\ Measured = seq /\ Decided = seq /\ input \in Inputs
    BY DEF Control, WriterOK, AllMade, Written, Measured, Decided, Types, MainTypes
  <2>3. f[seq] = input.length
    BY <2>1, <2>2 DEF Story, MainData
  <2>4. /\ Chain(S, input.length, input.length, input.hits) /\ Input(input.length, input.hits)
        /\ input.length \in Nat
    BY <2>1, <2>2, <2>3, InputIs DEF Story, CutsOK
  <2>5. Cuts(input.length, input.hits) = S
    BY <2>4, CutsAre
  <2>6. {s \in S : s <= input.length} = S
    <3>1. S \subseteq 0..input.length
      BY <2>4 DEF Chain
    <3>2. \A s \in S : s <= input.length
      BY <2>4, <3>1
    <3> QED
      BY ONLY <3>2
  <2>7. /\ output.piece = Piece(0, input.length) /\ output.check = Piece(0, input.length)
        /\ output.ulen = input.length
        /\ output.ends = {s \in S : s <= input.length} /\ output.good
    BY <2>1, <2>2, <2>3 DEF Story, OutData
  <2> QED
    BY <2>5, <2>6, <2>7 DEF OutputIsInput
<1>2. Control /\ Control' /\ References /\ References' /\ [Next]_vars /\ Contents => Contents'
  BY ContentsStep
<1> QED
  BY <1>1, <1>2, ContentsInit, ReferencesInvariant, PTL DEF Spec
=============================================================================
