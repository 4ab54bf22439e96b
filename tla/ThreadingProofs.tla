--------------------------- MODULE ThreadingProofs ---------------------------
(***************************************************************************)
(* What the loops of parallel_compress() and of single_compress() make of  *)
(* an input, for any input and any hits of the hash, any size of blocks    *)
(* and of the window; and that the list of block lengths that goes with a  *)
(* job says what was put into it, in a buffer that is large enough.        *)
(***************************************************************************)
EXTENDS Threading, Lens, BlocksProofs

-----------------------------------------------------------------------------
(* parallel_compress()                                                     *)

Given ==
  /\ length \in 0..MaxLength /\ hits \subseteq 1..length
  /\ rsync \in BOOLEAN /\ (~rsync => hits = {})

(* next and hold are what comes next of the input.  There is something in  *)
(* hold just when a tail was cut off; without one, the first buffer was    *)
(* used up.                                                                *)
Buffers ==
  /\ IsPiece(next, length) /\ IsPiece(hold, length)
  /\ next.hi = hold.lo /\ hold.hi = pos
  /\ Span(next) <= Size /\ MinOf(Size, length) <= next.hi
  /\ {left, scan} \subseteq Int
  /\ IF left = 0
       THEN Span(hold) = 0 /\ (next.lo = 0 \/ next.lo >= Size \/ next.lo = length)
       ELSE rsync /\ Span(hold) # 0 /\ Span(hold) <= Size /\ (Span(hold) = Size \/ pos = length)
  /\ ~rsync => scan = 0 /\ left = 0 /\ (Span(next) = Size \/ next.hi = length)

(* The hash has seen the input up to scan, and no hit since the last job.  *)
Hashing ==
  /\ 0 <= scan /\ scan <= length
  /\ rsync =>
       /\ hashed = Piece(0, scan)
       /\ IF left = 0 THEN next.lo <= scan /\ scan <= next.hi
          ELSE left = Span(next) /\ next.hi <= scan /\ scan <= pos /\ scan <= next.lo + Size
       /\ HitsIn(hits, next.lo, scan) = {}

(* The last job was what is before next.                                   *)
LastJob ==
  /\ IsPiece(job.in, length) /\ job.in.hi = next.lo
  /\ done \in BOOLEAN
  /\ IF done THEN next.lo = length /\ Span(next) = 0 ELSE Span(next) # 0 \/ length = 0

Dictionaries ==
  /\ IF done THEN Span(dict) <= Size ELSE Window(dict, next.lo)
  /\ Window(job.dict, job.in.lo) /\ copied <= Span(job.dict)

BlockCuts == Chain(ends, next.lo, length, hits)

ParallelInv == Given /\ Buffers /\ Hashing /\ LastJob /\ Dictionaries /\ BlockCuts

LEMMA GivenIs ==
  ASSUME Given
  PROVE  Input(length, hits) /\ length \in Nat /\ Size \in Nat /\ 0 < Size
         /\ Dict \in Nat /\ 0 < Dict /\ Dict <= Size
BY LengthAssumption, BlocksAssumption DEF Given, Input

LEMMA ParallelInit ==
  ASSUME Init
  PROVE  ParallelInv
<1>1. Given
  BY DEF Init, Given
<1>2. /\ Input(length, hits) /\ length \in Nat /\ Size \in Nat /\ 0 < Size
      /\ Dict \in Nat /\ 0 < Dict /\ Dict <= Size
  BY <1>1, GivenIs
<1>3. PICK mid : mid = MinOf(Size, length)
  OBVIOUS
<1>4. mid \in Int /\ 0 <= mid /\ mid <= length /\ mid <= Size /\ (mid = Size \/ mid = length)
      /\ (mid = 0 => length = 0)
  BY <1>2, <1>3 DEF MinOf
<1>5. next = Piece(0, mid) /\ hold = Piece(mid, mid) /\ pos = mid /\ dict = Piece(0, 0)
      /\ job.in = Piece(0, 0) /\ job.dict = Piece(0, 0) /\ left = 0 /\ scan = 0
      /\ copied = 0 /\ ends = {0} /\ hashed = Piece(0, 0) /\ done = FALSE
  <2>1. 0 + Size = Size /\ MinOf(0 + Size, length) = mid
    BY <1>2, <1>3
  <2>2. Read(0) = Piece(0, mid)
    BY <2>1 DEF Read
  <2> QED
    BY <2>2 DEF Init, Empty, Piece
<1>6. /\ next.lo = 0 /\ next.hi = mid /\ Span(next) = mid
      /\ hold.lo = mid /\ hold.hi = mid /\ Span(hold) = 0
      /\ Piece(0, 0).lo = 0 /\ Piece(0, 0).hi = 0 /\ Span(Piece(0, 0)) = 0
  BY <1>4, <1>5 DEF Piece, Span
<1>7. Buffers
  BY <1>2, <1>3, <1>4, <1>5, <1>6 DEF Buffers, IsPiece
<1>8. Hashing
  <2>1. HitsIn(hits, 0, 0) = {}
    <3>1. \A h \in hits : ~(h <= 0)
      BY <1>2 DEF Input
    <3> QED
      BY <3>1 DEF HitsIn
  <2> QED
    BY <1>2, <1>4, <1>5, <1>6, <2>1 DEF Hashing
<1>9. LastJob
  <2>1. IsPiece(job.in, length) /\ job.in.hi = 0
    BY <1>2, <1>5, <1>6, PieceIs
  <2> QED
    BY <1>4, <1>5, <1>6, <2>1 DEF LastJob
<1>10. Dictionaries
  <2>1. Window(Piece(0, 0), 0)
    BY <1>2, <1>6 DEF Window, IsPiece
  <2> QED
    BY <1>5, <1>6, <2>1 DEF Dictionaries
<1>11. BlockCuts
  <2>1. 0 \in 0..length /\ {0} \subseteq 0..0 /\ {0, 0} \subseteq {0} /\ \A c \in {0} : ~(c < 0)
    BY <1>2
  <2> QED
    BY <1>5, <1>6, <2>1 DEF BlockCuts, Chain
<1> QED
  BY <1>1, <1>7, <1>8, <1>9, <1>10, <1>11 DEF ParallelInv

(* What the turn does with what the hash part made of the buffers, r.      *)
TurnDoes(r, top) ==
  LET onward == r.tailed \/ Span(r.next) # 0
  IN  /\ pos' = top
      /\ next' = IF r.tailed THEN r.tail ELSE r.next
      /\ hold' = IF r.tailed THEN r.next ELSE Empty(top)
      /\ left' = r.left /\ scan' = r.scan
      /\ hashed' = Cat(hashed, r.fed)
      /\ job' = [in |-> r.curr, dict |-> dict, more |-> onward]
      /\ dict' = IF onward THEN NextDict(r.curr, dict) ELSE dict
      /\ copied' = IF onward /\ Span(r.curr) < Dict /\ Span(dict) # 0
                     THEN Copied(r.curr) ELSE 0
      /\ ends' = ends \union BlockEnds(r.curr, r.lens)
      /\ done' = ~onward
      /\ UNCHANGED <<length, hits, rsync>>

(* And what that is: the job [lo, hi) out of next = [lo, mid) and of the   *)
(* buffer after it, [mid, top).                                            *)
TurnGives(r, lo, mid, hi, top) ==
  /\ {lo, mid, hi, top} \subseteq Int
  /\ 0 <= lo /\ lo <= mid /\ mid <= top /\ top <= length
  /\ top - mid <= Size /\ (top - mid = Size \/ top = length)
  /\ next = Piece(lo, mid) /\ r.curr = Piece(lo, hi)
  /\ r.tailed \in BOOLEAN
  /\ IF length = 0
       THEN /\ hi = 0 /\ lo = 0 /\ ~r.tailed /\ r.next = Piece(0, 0) /\ r.left = 0
            /\ r.scan = scan /\ r.fed = Piece(scan, scan) /\ BlockEnds(r.curr, r.lens) = {0}
       ELSE /\ Extends(BlockEnds(r.curr, r.lens), lo, hi, length, hits)
            /\ IF r.tailed
                 THEN /\ rsync /\ left = 0 /\ hi < mid /\ mid < top
                      /\ r.tail = Piece(hi, mid) /\ r.next = Piece(mid, top) /\ r.left = mid - hi
                      /\ mid <= r.scan
                 ELSE /\ mid <= hi /\ hi <= top /\ r.next = Piece(hi, top) /\ r.left = 0
                      /\ (hi = top => top = length)
            /\ IF rsync
                 THEN /\ r.scan \in Int /\ scan <= r.scan /\ r.fed = Piece(scan, r.scan)
                      /\ HitsIn(hits, hi, r.scan) = {}
                      /\ hi <= r.scan /\ r.scan <= top /\ r.scan <= lo + Size
                 ELSE r.scan = scan /\ r.fed = Piece(scan, scan) /\ hi = mid

LEMMA TurnIsTurn ==
  ASSUME ParallelInv, Turn
  PROVE  \E r, lo, mid, hi, top : TurnDoes(r, top) /\ TurnGives(r, lo, mid, hi, top)
<1>1. /\ Input(length, hits) /\ length \in Nat /\ Size \in Nat /\ 0 < Size
      /\ Dict \in Nat /\ 0 < Dict /\ Dict <= Size
  BY GivenIs DEF ParallelInv
<1>2. PICK lo, mid, top :
        /\ lo = next.lo /\ mid = next.hi
        /\ top = IF Span(hold) = 0 THEN MinOf(pos + Size, length) ELSE pos
  OBVIOUS
<1>3. /\ next = Piece(lo, mid) /\ hold = Piece(mid, pos) /\ lo \in Int /\ mid \in Int /\ pos \in Int
      /\ 0 <= lo /\ lo <= mid /\ mid <= pos /\ pos <= length
      /\ mid - lo <= Size /\ Span(hold) = pos - mid /\ Span(next) = mid - lo
      /\ left \in Int /\ scan \in Int /\ rsync \in BOOLEAN /\ (~rsync => hits = {})
      /\ 0 <= scan /\ scan <= length
      /\ mid - lo # 0 \/ length = 0
  BY <1>2 DEF ParallelInv, Buffers, IsPiece, Span, Given, Hashing, LastJob, Turn
<1>4. /\ top \in Int /\ mid <= top /\ pos <= top /\ top <= length
      /\ top - mid <= Size /\ (top - mid = Size \/ top = length)
  <2>1. CASE Span(hold) = 0
    <3>0. pos - mid = 0 /\ pos \in Int /\ mid \in Int
      BY <1>3, <2>1
    <3>1. pos = mid /\ top = MinOf(mid + Size, length)
      <4>1. pos = mid
        BY ONLY <3>0
      <4> QED
        BY <1>2, <2>1, <4>1
    <3>2. mid \in Int /\ Size \in Int /\ length \in Int /\ 0 < Size /\ mid <= length
      BY <1>1, <1>3
    <3> QED
      BY ONLY <3>1, <3>2 DEF MinOf
  <2>2. CASE Span(hold) # 0
    <3>1. pos - mid <= Size /\ (pos - mid = Size \/ pos = length)
      BY <1>3, <2>2 DEF ParallelInv, Buffers
    <3> QED
      BY <1>2, <1>3, <2>2, <3>1
  <2> QED
    BY <2>1, <2>2
<1> DEFINE next0 == IF Span(hold) = 0 THEN Read(pos) ELSE hold
           r == IF rsync /\ Span(next) # 0
                  THEN RsyncTurn(next, next0, left, scan, hits)
                  ELSE [lens |-> <<>>, scan |-> scan, left |-> left,
                        fed |-> Empty(scan), curr |-> next, next |-> next0, tailed |-> FALSE]
<1>5. next0 = Piece(mid, top)
  <2>1. CASE Span(hold) = 0
    <3>1. pos = mid
      BY <1>3, <2>1
    <3> QED
      BY <1>2, <2>1, <3>1 DEF Read
  <2>2. CASE Span(hold) # 0
    BY <1>2, <1>3, <2>2
  <2> QED
    BY <2>1, <2>2
<1>6. TurnDoes(r, top)
  <2>1. next0.hi = top
    BY <1>5 DEF Piece
  <2>2. (IF Span(hold) = 0 THEN next0.hi ELSE pos) = top
    BY <1>2, <2>1
  <2>3. Turn
    OBVIOUS
  <2> DEFINE onward == r.tailed \/ Span(r.next) # 0
  <2>4. /\ pos' = IF Span(hold) = 0 THEN next0.hi ELSE pos
        /\ next' = IF r.tailed THEN r.tail ELSE r.next
        /\ hold' = IF r.tailed THEN r.next ELSE Empty(pos')
        /\ left' = r.left /\ scan' = r.scan
        /\ hashed' = Cat(hashed, r.fed)
        /\ job' = [in |-> r.curr, dict |-> dict, more |-> onward]
        /\ dict' = IF onward THEN NextDict(r.curr, dict) ELSE dict
        /\ copied' = IF onward /\ Span(r.curr) < Dict /\ Span(dict) # 0
                       THEN Copied(r.curr) ELSE 0
        /\ ends' = ends \union BlockEnds(r.curr, r.lens)
        /\ done' = ~onward
        /\ UNCHANGED <<length, hits, rsync>>
    BY ONLY <2>3, Zenon DEF Turn
  <2> HIDE DEF r, next0
  <2> QED
    BY ONLY <2>2, <2>4, Zenon DEF TurnDoes
<1>7. PICK q : q = r
  OBVIOUS
<1>8. q = IF rsync /\ Span(next) # 0
            THEN RsyncTurn(Piece(lo, mid), Piece(mid, top), left, scan, hits)
            ELSE [lens |-> <<>>, scan |-> scan, left |-> left,
                  fed |-> Empty(scan), curr |-> next, next |-> Piece(mid, top), tailed |-> FALSE]
  BY <1>3, <1>5, <1>7
<1> HIDE DEF r
<1>9. \E hi : TurnGives(q, lo, mid, hi, top)
  <2>1. CASE ~(rsync /\ Span(next) # 0)
    <3>1. /\ q.lens = <<>> /\ q.scan = scan /\ q.left = left /\ q.fed = Piece(scan, scan)
          /\ q.curr = next /\ q.next = Piece(mid, top) /\ q.tailed = FALSE
      BY <1>8, <2>1 DEF Empty
    <3>2. BlockEnds(q.curr, q.lens) = {mid}
      <4>1. next.hi = mid
        BY <1>2
      <4>2. \A f : {f[i] : i \in DOMAIN <<>>} = {}
        OBVIOUS
      <4> QED
        BY <3>1, <4>1, <4>2 DEF BlockEnds
    <3>3. CASE length = 0
      <4>1. lo = 0 /\ mid = 0 /\ top = 0
        BY <1>3, <1>4, <3>3
      <4>2. left = 0
        BY <1>3, <3>3 DEF ParallelInv, Buffers
      <4> QED
        BY <1>3, <1>4, <3>1, <3>2, <3>3, <4>1, <4>2 DEF TurnGives
    <3>4. CASE length # 0
      <4>1. ~rsync /\ hits = {} /\ left = 0 /\ (mid - lo = Size \/ mid = length) /\ lo < mid
        BY <1>2, <1>3, <2>1, <3>4 DEF ParallelInv, Buffers
      <4>2. Extends({mid}, lo, mid, length, hits)
        <5>1. \A c \in Int : lo <= c /\ c < mid /\ (c = lo \/ c \in hits) => mid = MinOf(length, c + Size)
          BY <1>1, <1>3, <1>4, <4>1 DEF MinOf
        <5>2. HitsIn(hits, lo, mid) = {}
          BY <4>1 DEF HitsIn
        <5>3. {mid} = HitsIn(hits, lo, mid) \union {mid}
          BY <5>2
        <5>4. mid \in Int /\ lo < mid /\ mid <= length /\ mid - lo <= Size
          BY <1>1, <1>3, <4>1
        <5> QED
          BY ONLY <5>1, <5>3, <5>4 DEF Extends
      <4>3. mid = top => top = length
        BY <1>1, <1>4
      <4>4. /\ {lo, mid, top} \subseteq Int
            /\ 0 <= lo /\ lo <= mid /\ mid <= top /\ top <= length /\ mid <= mid
            /\ next = Piece(lo, mid) /\ (top - mid = Size \/ top = length) /\ top - mid <= Size
        BY <1>3, <1>4
      <4>5. TurnGives(q, lo, mid, mid, top)
        BY ONLY <3>1, <3>2, <3>4, <4>1, <4>2, <4>3, <4>4 DEF TurnGives
      <4> QED
        BY <4>5
    <3> QED
      BY <3>3, <3>4
  <2>2. CASE rsync /\ Span(next) # 0
    <3>1. lo < mid /\ length # 0
      BY <1>3, <1>4, <2>2
    <3>2. Ready(lo, mid, top, left, scan, length, hits)
      <4>1. /\ IF left = 0 THEN lo <= scan /\ scan <= mid
               ELSE left = mid - lo /\ mid <= scan /\ scan <= pos /\ scan <= lo + Size
            /\ HitsIn(hits, lo, scan) = {}
        BY <1>2, <1>3, <2>2 DEF ParallelInv, Hashing
      <4>2. scan <= pos => scan <= top
        BY <1>3, <1>4
      <4> QED
        BY <1>3, <1>4, <3>1, <4>1, <4>2 DEF Ready
    <3>3. TurnedOut(q, lo, mid, top, left, scan, length, hits)
      <4>1. q = RsyncTurn(Piece(lo, mid), Piece(mid, top), left, scan, hits)
        BY <1>8, <2>2
      <4> QED
        BY <1>1, <3>2, <4>1, TurnIs
    <3>4. PICK hi : hi = q.curr.hi
      OBVIOUS
    <3>5. /\ q.scan \in Int /\ mid <= q.scan /\ q.scan <= top /\ scan <= q.scan /\ q.scan <= lo + Size
      <4>1. q.scan = MinOf(lo + Size, top)
        BY <3>3 DEF TurnedOut, Stopped
      <4>2. scan <= top /\ scan <= lo + Size
        BY <1>1, <1>3, <1>4, <3>2 DEF Ready
      <4> QED
        BY <1>1, <1>3, <1>4, <4>1, <4>2 DEF MinOf
    <3>6. /\ q.curr = Piece(lo, hi) /\ q.fed = Piece(scan, q.scan) /\ q.tailed \in BOOLEAN
          /\ Extends(BlockEnds(q.curr, q.lens), lo, hi, length, hits)
          /\ HitsIn(hits, hi, q.scan) = {} /\ hi <= q.scan
          /\ IF q.tailed
               THEN /\ q.tail = Piece(hi, mid) /\ hi < mid /\ mid < top
                    /\ q.next = Piece(mid, top) /\ q.left = mid - hi /\ left = 0
               ELSE /\ q.left = 0 /\ mid <= hi /\ q.next = Piece(hi, top)
                    /\ hi = top => top = length
      BY ONLY <3>3, <3>4 DEF TurnedOut
    <3>7. hi \in Int
      BY <3>6 DEF Extends
    <3>8. hi <= top
      BY <1>4, <3>5, <3>6, <3>7
    <3> QED
      BY <1>3, <1>4, <2>2, <3>1, <3>5, <3>6, <3>7, <3>8 DEF TurnGives
  <2> QED
    BY <2>1, <2>2
<1> QED
  BY <1>6, <1>7, <1>9

(* The job of a turn: what comes next of the input, if there is any.       *)
NextJob ==
  /\ job'.in.lo = job.in.hi
  /\ Span(job'.in) \in (IF length = 0 THEN 0 ELSE 1)..Size
  /\ ~job'.more <=> job'.in.hi = length

LEMMA ParallelTurn ==
  ASSUME ParallelInv, Turn
  PROVE  ParallelInv' /\ NextJob
<1>1. /\ Input(length, hits) /\ length \in Nat /\ Size \in Nat /\ 0 < Size
      /\ Dict \in Nat /\ 0 < Dict /\ Dict <= Size
  BY GivenIs DEF ParallelInv
<1>2. PICK r, lo, mid, hi, top : TurnDoes(r, top) /\ TurnGives(r, lo, mid, hi, top)
  BY TurnIsTurn
<1>3. /\ lo \in Int /\ mid \in Int /\ hi \in Int /\ top \in Int
      /\ 0 <= lo /\ lo <= mid /\ mid <= top /\ top <= length
      /\ top - mid <= Size /\ (top - mid = Size \/ top = length)
      /\ next = Piece(lo, mid) /\ r.curr = Piece(lo, hi) /\ r.tailed \in BOOLEAN
  BY <1>2 DEF TurnGives
<1>4. /\ next.lo = lo /\ next.hi = mid /\ Span(next) = mid - lo
      /\ r.curr.lo = lo /\ r.curr.hi = hi /\ Span(r.curr) = hi - lo
  BY <1>3 DEF Piece, Span
<1>5. /\ left \in Int /\ scan \in Int /\ 0 <= scan /\ scan <= length /\ mid - lo <= Size
      /\ (Size <= mid \/ length <= mid)
      /\ rsync \in BOOLEAN /\ (~rsync => scan = 0)
      /\ left = 0 => lo = 0 \/ lo >= Size \/ lo = length
      /\ rsync => hashed = Piece(0, scan)
      /\ job.in.hi = lo /\ Window(dict, lo) /\ Span(dict) \in 0..Size
      /\ Chain(ends, lo, length, hits)
  <2>1. Window(dict, lo)
    BY <1>4 DEF Turn, ParallelInv, Dictionaries
  <2>2. Span(dict) \in 0..Size
    BY <1>3, <2>1, WindowIs
  <2>3. Size <= mid \/ length <= mid
    BY <1>4 DEF ParallelInv, Buffers, MinOf
  <2> QED
    BY <1>4, <2>1, <2>2, <2>3 DEF ParallelInv, Given, Buffers, Hashing, LastJob, BlockCuts
<1>6. /\ length' = length /\ hits' = hits /\ rsync' = rsync
      /\ pos' = top /\ left' = r.left /\ scan' = r.scan /\ hashed' = Cat(hashed, r.fed)
      /\ next' = (IF r.tailed THEN r.tail ELSE r.next)
      /\ hold' = (IF r.tailed THEN r.next ELSE Piece(top, top))
      /\ job'.in = Piece(lo, hi) /\ job'.dict = dict
      /\ ends' = ends \union BlockEnds(r.curr, r.lens)
  BY <1>2, <1>3 DEF TurnDoes, Empty
<1>7. PICK onward \in BOOLEAN :
        /\ onward <=> r.tailed \/ Span(r.next) # 0
        /\ onward => /\ job'.more = TRUE /\ done' = FALSE
                     /\ dict' = NextDict(Piece(lo, hi), dict)
                     /\ copied' = (IF Span(Piece(lo, hi)) < Dict /\ Span(dict) # 0
                                     THEN Copied(Piece(lo, hi)) ELSE 0)
        /\ ~onward => job'.more = FALSE /\ done' = TRUE /\ dict' = dict /\ copied' = 0
  <2>1. PICK o : o = (r.tailed \/ Span(r.next) # 0)
    OBVIOUS
  <2>2. o \in BOOLEAN /\ (o <=> r.tailed \/ Span(r.next) # 0)
    BY <2>1
  <2>3. /\ job' = [in |-> r.curr, dict |-> dict, more |-> o]
        /\ dict' = (IF o THEN NextDict(r.curr, dict) ELSE dict)
        /\ copied' = (IF o /\ Span(r.curr) < Dict /\ Span(dict) # 0 THEN Copied(r.curr) ELSE 0)
        /\ done' = ~o
    BY ONLY <1>2, <2>1, Zenon DEF TurnDoes
  <2>4. ASSUME o
        PROVE  /\ job'.more = TRUE /\ done' = FALSE
               /\ dict' = NextDict(Piece(lo, hi), dict)
               /\ copied' = (IF Span(Piece(lo, hi)) < Dict /\ Span(dict) # 0
                               THEN Copied(Piece(lo, hi)) ELSE 0)
    <3>1. o = TRUE
      BY ONLY <2>2, <2>4
    <3> QED
      BY ONLY <1>3, <2>3, <3>1
  <2>5. ASSUME ~o
        PROVE  job'.more = FALSE /\ done' = TRUE /\ dict' = dict /\ copied' = 0
    <3>1. o = FALSE
      BY ONLY <2>2, <2>5
    <3> QED
      BY ONLY <2>3, <3>1
  <2> QED
    BY ONLY <2>2, <2>4, <2>5
<1>8. Given'
  BY <1>6 DEF ParallelInv, Given
<1>9. CASE length = 0
  <2>1. /\ hi = 0 /\ lo = 0 /\ ~r.tailed /\ r.next = Piece(0, 0) /\ r.left = 0
        /\ r.scan = scan /\ r.fed = Piece(scan, scan) /\ BlockEnds(r.curr, r.lens) = {0}
    BY <1>2, <1>9 DEF TurnGives
  <2>2. mid = 0 /\ top = 0 /\ scan = 0
    BY <1>3, <1>5, <1>9
  <2>3. /\ Piece(0, 0).lo = 0 /\ Piece(0, 0).hi = 0 /\ Span(Piece(0, 0)) = 0
        /\ IsPiece(Piece(0, 0), 0)
    BY PieceIs
  <2>4. /\ next' = Piece(0, 0) /\ hold' = Piece(0, 0) /\ pos' = 0 /\ left' = 0 /\ scan' = 0
        /\ job'.in = Piece(0, 0) /\ job'.dict = dict /\ job'.more = FALSE /\ done' = TRUE
        /\ dict' = dict /\ copied' = 0 /\ length' = 0
    BY <1>6, <1>7, <1>9, <2>1, <2>2, <2>3
  <2>5. Buffers'
    BY <1>1, <1>6, <2>3, <2>4 DEF Buffers, MinOf
  <2>6. Hashing'
    <3>1. rsync => hashed' = Piece(0, 0)
      BY <1>5, <1>6, <2>1, <2>2, CatIs
    <3>2. HitsIn(hits, 0, 0) = {}
      BY <1>1, NoHits
    <3> QED
      BY <1>6, <2>3, <2>4, <3>1, <3>2 DEF Hashing
  <2>7. LastJob'
    BY <2>3, <2>4 DEF LastJob
  <2>8. Dictionaries'
    BY <1>5, <2>1, <2>3, <2>4 DEF Dictionaries
  <2>9. ends' = ends
    BY <1>5, <1>6, <2>1 DEF Chain
  <2>10. BlockCuts'
    BY <1>5, <1>6, <2>1, <2>3, <2>4, <2>9 DEF BlockCuts
  <2>11. NextJob
    BY <1>1, <1>5, <1>9, <2>1, <2>3, <2>4 DEF NextJob
  <2> QED
    BY <1>8, <2>5, <2>6, <2>7, <2>8, <2>10, <2>11 DEF ParallelInv
<1>10. CASE length # 0
  <2>1. /\ Extends(BlockEnds(r.curr, r.lens), lo, hi, length, hits)
        /\ lo < hi /\ hi <= length /\ hi - lo <= Size
        /\ hi <= top
        /\ job'.in.lo = lo /\ job'.in.hi = hi /\ Span(job'.in) = hi - lo
    <3>1. Extends(BlockEnds(r.curr, r.lens), lo, hi, length, hits)
      BY <1>2, <1>10 DEF TurnGives
    <3>2. hi <= top
      BY <1>2, <1>3, <1>10 DEF TurnGives
    <3>3. lo < hi /\ hi <= length /\ hi - lo <= Size
      BY <3>1 DEF Extends
    <3> QED
      BY <1>3, <1>6, <3>1, <3>2, <3>3 DEF Piece, Span
  <2>2. /\ rsync => /\ scan' \in Int /\ scan <= scan' /\ r.fed = Piece(scan, scan')
                    /\ HitsIn(hits, hi, scan') = {}
                    /\ hi <= scan' /\ scan' <= top /\ scan' <= lo + Size
        /\ ~rsync => scan' = 0 /\ hi = mid
    BY <1>2, <1>5, <1>6, <1>10 DEF TurnGives
  <2>3. rsync => hashed' = Piece(0, scan')
    <3>1. rsync => hashed' = Cat(Piece(0, scan), Piece(scan, scan'))
      BY <1>5, <1>6, <2>2
    <3> SUFFICES ASSUME rsync PROVE hashed' = Piece(0, scan')
      OBVIOUS
    <3>2. 0 \in Int /\ scan \in Int /\ scan' \in Int /\ 0 <= 0 /\ 0 <= scan /\ scan <= scan'
      BY <1>5, <2>2
    <3> QED
      BY ONLY <3>1, <3>2, rsync, CatIs
  <2>4. 0 <= scan' /\ scan' <= length' /\ scan' \in Int
    BY <1>1, <1>3, <1>5, <1>6, <2>1, <2>2
  <2> DEFINE Kept == /\ next'.lo = hi /\ Buffers' /\ Hashing' /\ LastJob'
                     /\ (onward <=> hi # length) /\ (lo = 0 \/ hi >= Dict \/ ~onward)
  <2>5. ASSUME ~r.tailed PROVE Kept
    <3>1. /\ mid <= hi /\ r.next = Piece(hi, top) /\ r.left = 0 /\ (hi = top => top = length)
      BY <1>2, <1>10, <2>5 DEF TurnGives
    <3>2. /\ next' = Piece(hi, top) /\ hold' = Piece(top, top) /\ left' = 0
          /\ next'.lo = hi /\ next'.hi = top /\ Span(next') = top - hi
          /\ hold'.lo = top /\ hold'.hi = top /\ Span(hold') = 0
      BY <1>3, <1>6, <2>5, <3>1 DEF Piece, Span
    <3>3. IsPiece(next', length') /\ IsPiece(hold', length')
      BY <1>3, <1>6, <2>1, <3>2 DEF IsPiece
    <3>4. onward <=> hi # top
      BY <1>3, <1>7, <2>5, <3>1 DEF Span, Piece
    <3>5. onward <=> hi # length
      BY <1>3, <2>1, <3>1, <3>4
    <3>6. lo = 0 \/ hi >= Dict \/ ~onward
      BY <1>1, <1>3, <1>5, <2>1, <3>1, <3>5
    <3>7. Buffers'
      <4>1. Span(next') <= Size /\ MinOf(Size, length) <= next'.hi
        BY <1>1, <1>3, <1>5, <3>1, <3>2 DEF MinOf
      <4>2. hi = 0 \/ hi >= Size \/ hi = length
        BY <1>1, <1>3, <1>5, <2>1, <3>1
      <4>3. ~rsync => Span(next') = Size \/ next'.hi = length
        BY <1>3, <2>2, <3>2
      <4> QED
        BY <1>3, <1>6, <2>2, <2>4, <3>2, <3>3, <4>1, <4>2, <4>3 DEF Buffers
    <3>8. Hashing'
      BY <1>6, <2>2, <2>3, <2>4, <3>2 DEF Hashing
    <3>9. LastJob'
      <4>1. IsPiece(job'.in, length') /\ job'.in.hi = hi
        BY <1>3, <1>6, <2>1 DEF IsPiece
      <4> QED
        BY <1>3, <1>6, <1>7, <3>1, <3>2, <3>4, <3>5, <4>1 DEF LastJob
    <3> QED
      BY <3>2, <3>5, <3>6, <3>7, <3>8, <3>9
  <2>6. ASSUME r.tailed PROVE Kept
    <3>1. /\ rsync /\ left = 0 /\ hi < mid /\ mid < top
          /\ r.tail = Piece(hi, mid) /\ r.next = Piece(mid, top) /\ r.left = mid - hi
          /\ mid <= r.scan
      BY <1>2, <1>10, <2>6 DEF TurnGives
    <3>2. /\ next' = Piece(hi, mid) /\ hold' = Piece(mid, top) /\ left' = mid - hi
          /\ next'.lo = hi /\ next'.hi = mid /\ Span(next') = mid - hi
          /\ hold'.lo = mid /\ hold'.hi = top /\ Span(hold') = top - mid
      BY <1>3, <1>6, <2>6, <3>1 DEF Piece, Span
    <3>3. IsPiece(next', length') /\ IsPiece(hold', length')
      <4>1. /\ hi \in Int /\ mid \in Int /\ top \in Int /\ 0 <= hi /\ hi <= mid /\ mid <= top
            /\ mid <= length' /\ top <= length'
        BY <1>1, <1>3, <1>6, <2>1, <3>1
      <4> QED
        BY ONLY <3>2, <4>1 DEF IsPiece
    <3>0. hi < length
      BY <1>1, <1>3, <3>1
    <3>4. onward /\ hi # length /\ done' = FALSE
      BY <1>1, <1>3, <1>7, <2>6, <3>0
    <3>5. lo = 0 \/ hi >= Dict
      BY <1>1, <1>3, <1>5, <2>1, <3>1
    <3>6. Buffers'
      <4>1. Span(next') <= Size /\ MinOf(Size, length) <= next'.hi
        BY <1>1, <1>3, <1>5, <2>1, <3>1, <3>2 DEF MinOf
      <4>2. left' # 0 /\ left' \in Int
        BY <1>3, <3>1, <3>2
      <4>3. Span(hold') # 0 /\ Span(hold') <= Size /\ (Span(hold') = Size \/ top = length)
        BY <1>3, <3>1, <3>2
      <4> QED
        BY <1>6, <2>4, <3>1, <3>2, <3>3, <4>1, <4>2, <4>3 DEF Buffers
    <3>7. Hashing'
      <4>1. left' # 0
        BY <1>3, <3>1, <3>2
      <4>2. scan' <= hi + Size
        BY <1>1, <1>3, <2>1, <2>2, <2>4, <3>1
      <4> QED
        BY <1>6, <2>2, <2>3, <2>4, <3>1, <3>2, <4>1, <4>2 DEF Hashing
    <3>8. LastJob'
      <4>1. IsPiece(job'.in, length') /\ job'.in.hi = hi
        BY <1>3, <1>6, <2>1 DEF IsPiece
      <4>2. Span(next') # 0
        BY <1>3, <3>1, <3>2
      <4> QED
        BY <3>2, <3>4, <4>1, <4>2 DEF LastJob
    <3> QED
      BY <3>2, <3>4, <3>5, <3>6, <3>7, <3>8
  <2>7. Kept
    BY <1>3, <2>5, <2>6
  <2>8. (onward <=> hi # length) /\ (lo = 0 \/ hi >= Dict \/ ~onward)
    BY <2>7
  <2>9. BlockCuts'
    <3>1. Chain(ends', hi, length, hits)
      BY <1>1, <1>5, <1>6, <2>1, ChainExtends
    <3> QED
      BY <1>6, <2>7, <3>1 DEF BlockCuts
  <2>10. Dictionaries'
    <3>1. Window(job'.dict, job'.in.lo)
      BY <1>5, <1>6, <2>1
    <3>2. CASE onward
      <4>1. /\ Window(NextDict(Piece(lo, hi), dict), hi)
            /\ Span(Piece(lo, hi)) < Dict /\ Span(dict) # 0 => Copied(Piece(lo, hi)) <= Span(dict)
        BY <1>3, <1>5, <2>1, <2>8, <3>2, NextDictIs
      <4>2. done' = FALSE /\ dict' = NextDict(Piece(lo, hi), dict) /\ copied' <= Span(dict)
        BY <1>5, <1>7, <3>2, <4>1
      <4> QED
        BY <1>6, <2>7, <3>1, <4>1, <4>2 DEF Dictionaries
    <3>3. CASE ~onward
      BY <1>5, <1>6, <1>7, <3>1, <3>3 DEF Dictionaries
    <3> QED
      BY <1>7, <3>2, <3>3
  <2>11. NextJob
    <3>1. ~job'.more <=> hi = length
      BY <1>7, <2>8
    <3>2. hi - lo \in 1..Size
      BY <1>1, <1>3, <2>1
    <3> QED
      BY <1>5, <1>10, <2>1, <3>1, <3>2 DEF NextJob
  <2> QED
    BY <1>8, <2>7, <2>9, <2>10, <2>11 DEF ParallelInv
<1> QED
  BY <1>9, <1>10

-----------------------------------------------------------------------------
(* single_compress()                                                       *)

(* What is in in[] and next[] is what comes next of the input, and room    *)
(* for it there is.                                                        *)
TwoBuffers ==
  /\ {sPos, inAt, inOff, got, nextAt, start, more, sScan, sLeft} \subseteq Nat
  /\ setdict \in BOOLEAN
  /\ sPos = nextAt + more /\ sPos <= length /\ (more = 0 => sPos = length)
  /\ start + more <= Size
  /\ ~rsync => more = MinOf(Size, length - nextAt)

(* Where in[] ends, and that the scan has found no hit in it yet.          *)
AtTop == /\ nextAt = inAt + got /\ inOff + got <= Size /\ (got = 0 /\ more = 0 => length = 0)
         /\ ~rsync => got = 0
AtScan == /\ rsync /\ nextAt = inAt + got /\ inOff + got <= Size /\ got # 0
          /\ inAt <= sScan /\ sScan + sLeft = inAt + got
          /\ HitsIn(hits, inAt, sScan) = {}
AtBlock == /\ nextAt = inAt + got + sLeft /\ inOff + got + sLeft <= Size
           /\ IF got = 0 THEN length = 0 ELSE inAt + got = NextCut(length, hits, inAt)
           /\ ~rsync => sLeft = 0 /\ got = MinOf(Size, length - inAt)

Scanning ==
  /\ pc \in {"top", "scan", "full", "history", "emit", "done"}
  /\ pc = "top" => AtTop
  /\ pc \in {"scan", "full"} => AtScan
  /\ pc = "full" => sLeft = 0
  /\ pc \in {"history", "emit"} => AtBlock
  /\ pc = "done" => inAt = length /\ inOff + got <= Size

SingleCuts == Chain(sEnds, inAt, length, hits)

(* With -i and without -R, the history is cleared before each block but    *)
(* the first, since the one before it was full.                            *)
Clears ==
  ~rsync /\ ~setdict =>
    /\ pc \in {"top", "history"} => block = IF inAt = 0 THEN 0 ELSE Size
    /\ pc = "emit" => block = got
    /\ resets = IF pc = "emit" THEN sEnds ELSE (sEnds \ {inAt}) \union {0}

SingleInv == TwoBuffers /\ Scanning /\ SingleCuts /\ Clears

(* Both, one after the other.                                              *)
Starts ==
  /\ done \/ pc = "top"
  /\ IF starts = {} THEN next.lo = 0 /\ ~done ELSE 0 \in starts
  /\ ~rsync => starts \union {0} = (ends \ {next.lo}) \union {0}

BothInv == ParallelInv /\ SingleInv /\ Starts

(* SingleBlocks counts and finds hits as Blocks does.                      *)
LEMMA SameOperators ==
  /\ \A a, b : Single!MinOf(a, b) = MinOf(a, b)
  /\ \A h, from, to : Single!HitsIn(h, from, to) = HitsIn(h, from, to)
BY DEF Single!MinOf, MinOf, Single!HitsIn, HitsIn

LEMMA SingleInit ==
  ASSUME Given, InitBoth
  PROVE  SingleInv
<1>1. /\ Input(length, hits) /\ length \in Nat /\ Size \in Nat /\ 0 < Size
  BY GivenIs
<1>2. /\ setdict \in BOOLEAN /\ sPos = MinOf(Size, length - 0) /\ more = MinOf(Size, length - 0)
      /\ inAt = 0 /\ inOff = 0 /\ got = 0 /\ nextAt = 0 /\ start = 0
      /\ sScan = 0 /\ sLeft = 0 /\ block = 0 /\ sEnds = {0} /\ resets = {0} /\ pc = "top"
  BY SameOperators DEF InitBoth, Single!Init, Single!ReadN
<1>3. /\ more \in Nat /\ more <= Size /\ more <= length /\ (more = 0 => length = 0)
      /\ (more = Size \/ more = length)
  BY <1>1, <1>2 DEF MinOf
<1>4. TwoBuffers
  BY <1>1, <1>2, <1>3 DEF TwoBuffers
<1>5. Scanning
  BY <1>1, <1>2, <1>3 DEF Scanning, AtTop
<1>6. SingleCuts
  <2>1. 0 \in 0..length /\ {0} \subseteq 0..0 /\ {0, 0} \subseteq {0} /\ \A c \in {0} : ~(c < 0)
    BY <1>1
  <2> QED
    BY <1>2, <2>1 DEF SingleCuts, Chain
<1>7. Clears
  BY <1>2 DEF Clears
<1> QED
  BY <1>4, <1>5, <1>6, <1>7 DEF SingleInv

(* What a step of single_compress() starts from.                           *)
SingleFacts ==
  /\ Input(length, hits) /\ length \in Nat /\ Size \in Nat /\ 0 < Size
  /\ sPos \in Nat /\ inAt \in Nat /\ inOff \in Nat /\ got \in Nat /\ nextAt \in Nat
  /\ start \in Nat /\ more \in Nat /\ sScan \in Nat /\ sLeft \in Nat
  /\ rsync \in BOOLEAN /\ setdict \in BOOLEAN
  /\ sPos = nextAt + more /\ sPos <= length /\ (more = 0 => sPos = length)
  /\ start + more <= Size

LEMMA SingleFactsAre ==
  ASSUME Given, TwoBuffers
  PROVE  SingleFacts
BY GivenIs DEF Given, TwoBuffers, SingleFacts

LEMMA ReadNIs ==
  ASSUME SingleFacts, NEW p \in Nat, p <= length
  PROVE  /\ Single!ReadN(p) \in Nat /\ Single!ReadN(p) <= Size /\ p + Single!ReadN(p) <= length
         /\ (Single!ReadN(p) = 0 => p = length)
         /\ Single!ReadN(p) = MinOf(Size, length - p)
<1>1. length \in Nat /\ Size \in Nat /\ 0 < Size
  BY DEF SingleFacts
<1>2. Single!ReadN(p) = MinOf(Size, length - p)
  BY SameOperators DEF Single!ReadN
<1> QED
  BY <1>1, <1>2 DEF MinOf

LEMMA FullOrEnd ==
  ASSUME NEW a \in Int, NEW n \in Int, NEW s \in Int
  PROVE  a + MinOf(s, n - a) = MinOf(n, a + s)
<1>1. CASE s < n - a
  BY <1>1 DEF MinOf
<1>2. CASE ~(s < n - a)
  BY <1>2 DEF MinOf
<1> QED
  BY <1>1, <1>2

LEMMA SingleTop ==
  ASSUME Given, SingleInv, Single!Top, UNCHANGED <<length, hits, rsync>>
  PROVE  SingleInv'
<1>1. SingleFacts
  BY SingleFactsAre DEF SingleInv
<1>2. /\ pc = "top" /\ AtTop /\ sScan' = inAt' /\ sEnds' = sEnds
      /\ block' = block /\ resets' = resets /\ setdict' = setdict
      /\ sLeft' = (IF rsync /\ got' # 0 THEN got' ELSE 0)
      /\ pc' = (IF rsync /\ got' # 0 THEN "scan" ELSE "history")
  BY DEF Single!Top, Single!input, SingleInv, Scanning
<1>3. /\ inAt' = inAt
      /\ got' \in Nat /\ inOff' \in Nat /\ nextAt' \in Nat /\ start' \in Nat /\ more' \in Nat
      /\ sPos' \in Nat
      /\ nextAt' = inAt' + got' /\ inOff' + got' <= Size /\ (got' = 0 => length = 0)
      /\ sPos' = nextAt' + more' /\ sPos' <= length /\ (more' = 0 => sPos' = length)
      /\ start' + more' <= Size
      /\ ~rsync => more' = MinOf(Size, length - nextAt') /\ got' = MinOf(Size, length - inAt')
  <2>1. CASE got = 0
    <3>1. /\ inAt' = nextAt /\ inOff' = start /\ got' = more
          /\ nextAt' = sPos /\ start' = 0 /\ more' = Single!ReadN(sPos)
          /\ sPos' = sPos + Single!ReadN(sPos)
      BY <2>1 DEF Single!Top
    <3>2. /\ more' \in Nat /\ more' <= Size /\ sPos + more' <= length
          /\ (more' = 0 => sPos = length) /\ more' = MinOf(Size, length - sPos)
      BY <1>1, <3>1, ReadNIs DEF SingleFacts
    <3>3. inAt = nextAt
      BY <1>1, <1>2, <2>1 DEF AtTop, SingleFacts
    <3>4. ~rsync => more = MinOf(Size, length - nextAt)
      BY DEF SingleInv, TwoBuffers
    <3> QED
      BY <1>1, <1>2, <2>1, <3>1, <3>2, <3>3, <3>4 DEF SingleFacts, AtTop
  <2>2. CASE got # 0
    <3>1. UNCHANGED <<inAt, inOff, got, nextAt, start, more, sPos>>
      BY <2>2 DEF Single!Top
    <3>2. rsync
      BY <1>2, <2>2 DEF AtTop
    <3> QED
      BY <1>1, <1>2, <2>2, <3>1, <3>2 DEF SingleFacts, AtTop
  <2> QED
    BY <2>1, <2>2
<1>4. sLeft' \in Nat /\ sScan' \in Nat
  BY <1>1, <1>2, <1>3 DEF SingleFacts
<1>5. TwoBuffers'
  BY <1>1, <1>2, <1>3, <1>4 DEF TwoBuffers, SingleFacts
<1>6. Scanning'
  <2>1. CASE rsync /\ got' # 0
    <3>1. HitsIn(hits, inAt', inAt') = {}
      BY <1>1, <1>3, NoHits DEF SingleFacts
    <3>2. AtScan'
      BY <1>2, <1>3, <1>4, <2>1, <3>1 DEF AtScan
    <3> QED
      BY <1>2, <2>1, <3>2 DEF Scanning
  <2>2. CASE ~(rsync /\ got' # 0)
    <3>1. got' # 0 => inAt' + got' = NextCut(length, hits, inAt')
      <4> SUFFICES ASSUME got' # 0 PROVE inAt' + got' = NextCut(length, hits, inAt')
        OBVIOUS
      <4>1. hits = {} /\ got' = MinOf(Size, length - inAt')
        BY <1>3, <2>2 DEF Given
      <4>2. HitsIn(hits, inAt', inAt' + Size) = {}
        BY <4>1 DEF HitsIn
      <4>3. inAt' \in 0..length
        <5>1. inAt \in 0..length
          BY <1>1, <1>2 DEF SingleFacts, AtTop
        <5> QED
          BY <1>3, <5>1
      <4>4. NextCut(length, hits, inAt') = MinOf(length, inAt' + Size)
        BY <1>1, <4>2, <4>3, NextCutIs DEF SingleFacts
      <4>5. inAt' + MinOf(Size, length - inAt') = MinOf(length, inAt' + Size)
        <5>1. inAt' \in Int /\ length \in Int /\ Size \in Int
          BY <1>1, <4>3 DEF SingleFacts
        <5> QED
          BY <5>1, FullOrEnd
      <4> QED
        BY <4>1, <4>4, <4>5
    <3>2. AtBlock'
      BY <1>2, <1>3, <2>2, <3>1 DEF AtBlock
    <3> QED
      BY <1>2, <2>2, <3>2 DEF Scanning
  <2> QED
    BY <2>1, <2>2
<1>7. SingleCuts'
  BY <1>2, <1>3 DEF SingleInv, SingleCuts
<1>8. Clears'
  BY <1>2, <1>3 DEF SingleInv, Clears
<1> QED
  BY <1>5, <1>6, <1>7, <1>8 DEF SingleInv

(* A cut that the scan came to.                                            *)
LEMMA CutAtHit ==
  ASSUME SingleFacts, NEW a \in Nat, NEW s \in Nat, NEW e \in Nat, a <= s, e <= a + Size,
         a <= length, HitsIn(hits, a, s) = {}, NEW h \in HitsIn(hits, s, e),
         \A g \in HitsIn(hits, s, e) : h <= g
  PROVE  NextCut(length, hits, a) = h
<1>1. /\ length \in Nat /\ Size \in Nat /\ \A g \in hits : g \in Int
      /\ \A g \in hits : ~(a < g /\ g <= s)
      /\ h \in hits /\ s < h /\ h <= e /\ h \in Int
  BY DEF SingleFacts, Input, HitsIn
<1>2. h \in HitsIn(hits, a, a + Size)
  BY <1>1 DEF HitsIn
<1>3. \A g \in HitsIn(hits, a, a + Size) : h <= g
  <2> TAKE g \in HitsIn(hits, a, a + Size)
  <2>1. g \in hits /\ a < g /\ g \in Int
    BY <1>1 DEF HitsIn
  <2>2. CASE g <= e
    <3>1. g \in HitsIn(hits, s, e)
      BY <1>1, <2>1, <2>2 DEF HitsIn
    <3> QED
      BY <3>1
  <2>3. CASE ~(g <= e)
    BY <1>1, <2>1, <2>3
  <2> QED
    BY <2>2, <2>3
<1>4. a \in 0..length /\ Input(length, hits)
  BY <1>1 DEF SingleFacts
<1> QED
  BY <1>2, <1>3, <1>4, NextCutIs

(* A cut without a hit.                                                    *)
LEMMA CutAtEnd ==
  ASSUME SingleFacts, NEW a \in Nat, NEW e \in Nat, a <= e, e <= length, e <= a + Size,
         HitsIn(hits, a, e) = {}, e = a + Size \/ e = length
  PROVE  NextCut(length, hits, a) = e
<1>1. /\ length \in Nat /\ Size \in Nat /\ \A g \in hits : g \in Int /\ g <= length
      /\ \A g \in hits : ~(a < g /\ g <= e)
  BY DEF SingleFacts, Input, HitsIn
<1>2. HitsIn(hits, a, a + Size) = {}
  <2>1. \A g \in hits : ~(a < g /\ g <= a + Size)
    BY <1>1
  <2> QED
    BY <2>1 DEF HitsIn
<1>3. a \in 0..length /\ Input(length, hits)
  BY <1>1 DEF SingleFacts
<1>4. NextCut(length, hits, a) = MinOf(length, a + Size)
  BY <1>2, <1>3, NextCutIs
<1> QED
  BY <1>1, <1>4 DEF MinOf

LEMMA SingleScan ==
  ASSUME Given, SingleInv, Single!Scan, UNCHANGED <<length, hits, rsync>>
  PROVE  SingleInv'
<1>1. SingleFacts
  BY SingleFactsAre DEF SingleInv
<1>2. /\ pc = "scan" /\ AtScan
      /\ UNCHANGED <<setdict, sPos, inAt, inOff, nextAt, start, more, block, sEnds, resets>>
  BY DEF Single!Scan, Single!input, SingleInv, Scanning
<1>3. /\ rsync /\ nextAt = inAt + got /\ inOff + got <= Size /\ got # 0
      /\ inAt <= sScan /\ sScan + sLeft = inAt + got /\ HitsIn(hits, inAt, sScan) = {}
      /\ inAt <= length /\ inAt + got <= length /\ inAt + got <= inAt + Size
      /\ inAt \in Nat /\ sScan \in Nat /\ sLeft \in Nat /\ got \in Nat /\ nextAt \in Nat
      /\ inOff \in Nat /\ Size \in Nat
  BY <1>1, <1>2 DEF AtScan, SingleFacts
<1>4. PICK found : found = HitsIn(hits, sScan, inAt + got)
  OBVIOUS
<1>5. \A h \in found : h \in Nat /\ sScan < h /\ h <= inAt + got /\ h \in hits
  BY <1>1, <1>4 DEF SingleFacts, Input, HitsIn
<1>6. SingleCuts' /\ Clears'
  <2>1. pc' # "emit" /\ pc' # "top" /\ (pc' = "history" => rsync)
    BY <1>2, <1>3 DEF Single!Scan
  <2> QED
    BY <1>2, <1>3, <2>1 DEF SingleInv, SingleCuts, Clears
<1>7. CASE found = {}
  <2>1. sScan' = sScan + sLeft /\ sLeft' = 0 /\ pc' = "full" /\ got' = got
    BY <1>3, <1>4, <1>7, SameOperators DEF Single!Scan
  <2>2. HitsIn(hits, inAt, sScan') = {}
    <3>1. \A h \in hits : h \in Int /\ ~(inAt < h /\ h <= sScan) /\ ~(sScan < h /\ h <= inAt + got)
      BY <1>1, <1>3, <1>4, <1>7 DEF HitsIn, SingleFacts, Input
    <3>2. \A h \in hits : ~(inAt < h /\ h <= sScan')
      BY <1>3, <2>1, <3>1
    <3> QED
      BY <3>2 DEF HitsIn
  <2>3. AtScan'
    BY <1>2, <1>3, <2>1, <2>2 DEF AtScan
  <2>4. Scanning'
    BY <2>1, <2>3 DEF Scanning
  <2>5. TwoBuffers'
    BY <1>1, <1>2, <1>3, <2>1 DEF SingleInv, TwoBuffers
  <2> QED
    BY <1>6, <2>4, <2>5 DEF SingleInv
<1>8. CASE found # {}
  <2>1. PICK h \in found : \A g \in found : h <= g
    BY <1>5, <1>8, LeastNat
  <2>2. (CHOOSE x \in found : \A g \in found : x <= g) = h
    <3>1. \A x \in found : (\A g \in found : x <= g) => x = h
      BY <1>5, <2>1
    <3> QED
      BY <2>1, <3>1
  <2>3. sScan' = h /\ sLeft' = sLeft - (h - sScan) /\ got' = got - sLeft' /\ pc' = "history"
    <3>1. /\ sScan' = CHOOSE x \in found : \A g \in found : x <= g
          /\ sLeft' = sLeft - (sScan' - sScan)
          /\ got' = got - sLeft' /\ pc' = "history"
      BY <1>3, <1>4, <1>8, SameOperators DEF Single!Scan
    <3> QED
      BY <2>2, <3>1
  <2>4. h \in Nat /\ sScan < h /\ h <= inAt + got
    BY <1>5
  <2>5. sLeft' = inAt + got - h /\ sLeft' \in Nat /\ got' = h - inAt /\ got' \in Nat /\ got' # 0
    BY <1>3, <2>3, <2>4
  <2>6. NextCut(length, hits, inAt) = h
    BY <1>1, <1>3, <1>4, <2>1, CutAtHit
  <2>7. AtBlock'
    <3>1. nextAt = inAt + got' + sLeft' /\ inOff + got' + sLeft' <= Size /\ inAt + got' = h
      BY <1>3, <2>4, <2>5
    <3> QED
      BY <1>2, <1>3, <2>5, <2>6, <3>1 DEF AtBlock
  <2>8. Scanning'
    BY <2>3, <2>7 DEF Scanning
  <2>9. TwoBuffers'
    BY <1>1, <1>2, <1>3, <2>3, <2>4, <2>5 DEF SingleInv, TwoBuffers
  <2> QED
    BY <1>6, <2>8, <2>9 DEF SingleInv
<1> QED
  BY <1>7, <1>8

LEMMA SingleFull ==
  ASSUME Given, SingleInv, Single!Full, UNCHANGED <<length, hits, rsync>>
  PROVE  SingleInv'
<1>1. SingleFacts
  BY SingleFactsAre DEF SingleInv
<1>2. /\ pc = "full" /\ AtScan /\ sLeft = 0
      /\ UNCHANGED <<setdict, inAt, sScan, block, sEnds, resets>>
  BY DEF Single!Full, Single!input, SingleInv, Scanning
<1>3. /\ rsync /\ nextAt = inAt + got /\ inOff + got <= Size /\ got # 0
      /\ sScan = inAt + got /\ HitsIn(hits, inAt, inAt + got) = {}
      /\ inAt + got <= length
      /\ inAt \in Nat /\ got \in Nat /\ nextAt \in Nat /\ more \in Nat /\ start \in Nat
      /\ inOff \in Nat /\ Size \in Nat /\ length \in Nat
  BY <1>1, <1>2 DEF AtScan, SingleFacts
<1>4. SingleCuts' /\ Clears'
  <2>1. pc' # "emit" /\ pc' # "top" /\ (pc' = "history" => rsync)
    BY <1>3 DEF Single!Full
  <2> QED
    BY <1>2, <1>3, <2>1 DEF SingleInv, SingleCuts, Clears
<1>5. CASE Single!EndOfBlock
  <2>1. /\ pc' = "history"
        /\ UNCHANGED <<inOff, got, sLeft, nextAt, start, more, sPos>>
    BY <1>5 DEF Single!Full
  <2>2. more = 0 \/ got = Size
    BY <1>5 DEF Single!EndOfBlock
  <2>3. inAt + got = inAt + Size \/ inAt + got = length
    BY <1>1, <1>3, <2>2 DEF SingleFacts
  <2>4. NextCut(length, hits, inAt) = inAt + got
    <3>1. inAt + got \in Nat /\ inAt <= inAt + got /\ inAt + got <= inAt + Size
      BY <1>3
    <3> QED
      BY <1>1, <1>3, <2>3, <3>1, CutAtEnd
  <2>5. AtBlock'
    BY <1>2, <1>3, <2>1, <2>4 DEF AtBlock
  <2>6. Scanning'
    BY <2>1, <2>5 DEF Scanning
  <2>7. TwoBuffers'
    BY <1>2, <2>1 DEF SingleInv, TwoBuffers
  <2> QED
    BY <1>4, <2>6, <2>7 DEF SingleInv
<1>6. CASE ~Single!EndOfBlock
  <2>1. PICK n : n = MinOf(more, Size - got)
    OBVIOUS
  <2>2. Single!Fill(Size - got) = n
    BY <2>1, SameOperators DEF Single!Fill
  <2>3. /\ inOff' = 0 /\ sLeft' = n /\ got' = got + n /\ pc' = "scan"
        /\ more' = (IF more = n THEN Single!ReadN(sPos) ELSE more - n)
        /\ start' = (IF more = n THEN 0 ELSE start + n)
        /\ nextAt' = (IF more = n THEN sPos ELSE nextAt + n)
        /\ sPos' = (IF more = n THEN sPos + Single!ReadN(sPos) ELSE sPos)
    BY <1>6, <2>2 DEF Single!Full, Single!NewStart
  <2>4. more # 0 /\ got # Size
    BY <1>6 DEF Single!EndOfBlock
  <2>5. n \in Nat /\ n <= more /\ got + n <= Size
    <3>1. Size - got \in Nat
      BY <1>3
    <3> QED
      BY <1>3, <2>1, <3>1 DEF MinOf
  <2>6. /\ sPos' \in Nat /\ nextAt' \in Nat /\ start' \in Nat /\ more' \in Nat
        /\ sPos' = nextAt' + more' /\ sPos' <= length /\ (more' = 0 => sPos' = length)
        /\ start' + more' <= Size /\ nextAt' = inAt + got + n
    <3>1. /\ sPos \in Nat /\ sPos = nextAt + more /\ sPos <= length /\ start + more <= Size
      BY <1>1 DEF SingleFacts
    <3>2. CASE more = n
      <4>1. PICK k : k = Single!ReadN(sPos)
        OBVIOUS
      <4>2. k \in Nat /\ k <= Size /\ sPos + k <= length /\ (k = 0 => sPos = length)
        BY <1>1, <3>1, <4>1, ReadNIs
      <4>3. more' = k /\ start' = 0 /\ nextAt' = sPos /\ sPos' = sPos + k
        BY <2>3, <3>2, <4>1
      <4> QED
        BY <1>3, <2>5, <3>1, <3>2, <4>2, <4>3
    <3>3. CASE more # n
      <4>1. more' = more - n /\ start' = start + n /\ nextAt' = nextAt + n /\ sPos' = sPos
        BY <2>3, <3>3
      <4> QED
        BY <1>3, <2>5, <3>1, <3>3, <4>1
    <3> QED
      BY <3>2, <3>3
  <2>7. AtScan'
    BY <1>2, <1>3, <2>3, <2>5, <2>6 DEF AtScan
  <2>8. Scanning'
    BY <2>3, <2>7 DEF Scanning
  <2>9. TwoBuffers'
    <3>1. {sPos', inAt', inOff', got', nextAt', start', more', sScan', sLeft'} \subseteq Nat
      BY <1>1, <1>2, <1>3, <2>3, <2>5, <2>6 DEF SingleFacts
    <3>2. setdict' \in BOOLEAN /\ rsync'
      BY <1>1, <1>2, <1>3 DEF SingleFacts
    <3> QED
      BY <2>6, <3>1, <3>2 DEF TwoBuffers
  <2> QED
    BY <1>4, <2>8, <2>9 DEF SingleInv
<1> QED
  BY <1>5, <1>6

LEMMA SingleHistory ==
  ASSUME Given, SingleInv, Single!History, UNCHANGED <<length, hits, rsync>>
  PROVE  SingleInv'
<1>1. SingleFacts
  BY SingleFactsAre DEF SingleInv
<1>2. /\ pc = "history" /\ pc' = "emit" /\ AtBlock
      /\ UNCHANGED <<setdict, sPos, inAt, inOff, got, nextAt, start, more, sScan, sLeft, sEnds>>
  BY DEF Single!History, Single!input, SingleInv, Scanning
<1>3. TwoBuffers' /\ SingleCuts'
  BY <1>2 DEF SingleInv, TwoBuffers, SingleCuts
<1>4. Scanning'
  BY <1>2 DEF Scanning, AtBlock
<1>5. Clears'
  <2> SUFFICES ASSUME ~rsync, ~setdict PROVE block' = got /\ resets' = sEnds
    BY <1>2 DEF Clears
  <2>1. /\ block = (IF inAt = 0 THEN 0 ELSE Size)
        /\ resets = (sEnds \ {inAt}) \union {0}
    BY <1>2 DEF SingleInv, Clears
  <2>2. /\ inAt \in Nat /\ got \in Nat /\ Size \in Nat /\ length \in Nat
        /\ got <= Size /\ (got = 0 => length = 0)
    BY <1>1, <1>2 DEF SingleFacts, AtBlock
  <2>3. {0, inAt} \subseteq sEnds /\ sEnds \subseteq 0..inAt /\ inAt <= length
    BY DEF SingleInv, SingleCuts, Chain
  <2>4. /\ block' = (IF block + got > Size THEN got ELSE block + got)
        /\ resets' = (IF block + got > Size THEN resets \union {inAt} ELSE resets)
    BY DEF Single!History
  <2>5. CASE inAt = 0
    <3>1. block + got = got /\ ~(got > Size)
      BY <2>1, <2>2, <2>5
    <3>2. sEnds = {0}
      <4>1. 0 \in sEnds /\ \A e \in sEnds : e \in 0..0
        BY <2>3, <2>5
      <4>2. \A e \in 0..0 : e = 0
        OBVIOUS
      <4> QED
        BY ONLY <4>1, <4>2
    <3> QED
      BY <2>1, <2>4, <2>5, <3>1, <3>2
  <2>6. CASE inAt # 0
    <3>1. got # 0 /\ block + got > Size
      BY <2>1, <2>2, <2>3, <2>6
    <3>2. (sEnds \ {inAt}) \union {0} \union {inAt} = sEnds
      BY <2>3
    <3> QED
      BY <2>1, <2>4, <3>1, <3>2
  <2> QED
    BY <2>5, <2>6
<1> QED
  BY <1>3, <1>4, <1>5 DEF SingleInv

(* One cut more.                                                           *)
LEMMA ChainNext ==
  ASSUME SingleFacts, NEW S, NEW c, Chain(S, c, length, hits), c < length
  PROVE  Chain(S \union {NextCut(length, hits, c)}, NextCut(length, hits, c), length, hits)
<1>1. PICK e : e = NextCut(length, hits, c)
  OBVIOUS
<1>2. c \in 0..length /\ S \subseteq 0..c /\ 0 \in S /\ c \in S /\ length \in Nat
  BY DEF Chain, SingleFacts
<1>3. e \in 0..length /\ c < e
  BY <1>1, <1>2, NextCutIs DEF SingleFacts
<1>4. ASSUME NEW x \in S \union {e}, x < e
      PROVE  /\ NextCut(length, hits, x) \in S \union {e}
             /\ \A d \in S \union {e} : x < d => NextCut(length, hits, x) <= d
  <2>1. x \in S /\ x <= c
    BY <1>2, <1>4
  <2>2. CASE x = c
    <3>1. \A d \in S \union {e} : x < d => d = e
      BY <1>2, <1>3, <2>2
    <3> QED
      BY <1>1, <1>3, <2>2, <3>1
  <2>3. CASE x # c
    <3>1. x < c
      BY <1>2, <2>1, <2>3
    <3>2. /\ NextCut(length, hits, x) \in S /\ NextCut(length, hits, x) <= c
          /\ \A d \in S : x < d => NextCut(length, hits, x) <= d
      BY <1>2, <2>1, <3>1 DEF Chain
    <3>3. NextCut(length, hits, x) \in Int /\ c \in Int /\ e \in Int
      <4>1. \A s \in S : s \in Int
        BY ONLY <1>2
      <4>2. c \in Int /\ e \in Int
        BY ONLY <1>2, <1>3
      <4> QED
        BY ONLY <3>2, <4>1, <4>2
    <3>4. NextCut(length, hits, x) <= e
      BY <1>3, <3>2, <3>3
    <3> QED
      BY <3>2, <3>4
  <2> QED
    BY <2>2, <2>3
<1>5. S \union {e} \subseteq 0..e /\ {0, e} \subseteq S \union {e}
  BY <1>2, <1>3
<1> QED
  BY <1>1, <1>3, <1>4, <1>5 DEF Chain

LEMMA SingleEmit ==
  ASSUME Given, SingleInv, Single!Emit, UNCHANGED <<length, hits, rsync>>
  PROVE  SingleInv'
<1>1. SingleFacts
  BY SingleFactsAre DEF SingleInv
<1>2. /\ pc = "emit" /\ AtBlock
      /\ inAt' = inAt + got /\ inOff' = inOff + got /\ got' = sLeft
      /\ sEnds' = sEnds \union {inAt + got}
      /\ pc' = (IF more # 0 \/ sLeft # 0 THEN "top" ELSE "done")
      /\ UNCHANGED <<setdict, sPos, nextAt, start, more, sScan, sLeft, block, resets>>
  BY DEF Single!Emit, Single!input, SingleInv, Scanning
<1>3. /\ inAt \in Nat /\ inOff \in Nat /\ got \in Nat /\ sLeft \in Nat /\ nextAt \in Nat
      /\ more \in Nat /\ sPos \in Nat /\ length \in Nat /\ Size \in Nat
      /\ sPos = nextAt + more /\ sPos <= length /\ (more = 0 => sPos = length)
      /\ nextAt = inAt + got + sLeft /\ inOff + got + sLeft <= Size
      /\ ~rsync => sLeft = 0 /\ got = MinOf(Size, length - inAt)
  BY <1>1, <1>2 DEF SingleFacts, AtBlock
<1>4. TwoBuffers'
  BY <1>1, <1>2, <1>3 DEF SingleInv, TwoBuffers
<1>5. Scanning'
  <2>1. CASE more # 0 \/ sLeft # 0
    <3>1. AtTop'
      BY <1>2, <1>3, <2>1 DEF AtTop
    <3> QED
      BY <1>2, <2>1, <3>1 DEF Scanning
  <2>2. CASE more = 0 /\ sLeft = 0
    <3>1. inAt' = length /\ inOff' + got' <= Size /\ pc' = "done"
      BY <1>2, <1>3, <2>2
    <3> QED
      BY <1>2, <3>1 DEF Scanning
  <2> QED
    BY <2>1, <2>2
<1>6. /\ Chain(sEnds, inAt, length, hits) /\ {0, inAt} \subseteq sEnds /\ sEnds \subseteq 0..inAt
      /\ inAt <= length
  BY DEF SingleInv, SingleCuts, Chain
<1>7. SingleCuts'
  <2>1. CASE got = 0
    <3>1. sEnds \union {inAt + got} = sEnds /\ inAt + got = inAt
      BY <1>3, <1>6, <2>1
    <3> QED
      BY <1>2, <1>6, <3>1 DEF SingleCuts
  <2>2. CASE got # 0
    <3>1. inAt + got = NextCut(length, hits, inAt) /\ inAt < length
      BY <1>2, <1>3, <2>2 DEF AtBlock
    <3> QED
      BY <1>1, <1>2, <1>6, <3>1, ChainNext DEF SingleCuts
  <2> QED
    BY <2>1, <2>2
<1>8. Clears'
  <2> SUFFICES ASSUME ~rsync, ~setdict
               PROVE  /\ pc' = "top" => block' = IF inAt' = 0 THEN 0 ELSE Size
                      /\ resets' = (sEnds' \ {inAt'}) \union {0}
    BY <1>2 DEF Clears
  <2>1. block = got /\ resets = sEnds
    BY <1>2 DEF SingleInv, Clears
  <2>2. ASSUME pc' = "top" PROVE block' = IF inAt' = 0 THEN 0 ELSE Size
    <3>1. more # 0 /\ sLeft = 0
      BY <1>2, <1>3, <2>2
    <3>2. inAt + got < length
      BY <1>3, <3>1
    <3>3. got = Size
      BY <1>3, <3>2 DEF MinOf
    <3>4. inAt' # 0
      <4>1. Size # 0
        BY <1>1 DEF SingleFacts
      <4> QED
        BY <1>2, <1>3, <3>3, <4>1
    <3> QED
      BY <1>2, <2>1, <3>3, <3>4
  <2>3. resets' = (sEnds' \ {inAt'}) \union {0}
    <3>1. CASE got = 0
      <4>1. length = 0
        BY <1>2, <3>1 DEF AtBlock
      <4>2. inAt = 0
        BY <1>3, <4>1, <1>6
      <4>3. sEnds = {0}
        <5>1. 0 \in sEnds /\ \A e \in sEnds : e \in 0..0
          BY <1>6, <4>2
        <5>2. \A e \in 0..0 : e = 0
          OBVIOUS
        <5> QED
          BY ONLY <5>1, <5>2
      <4>4. inAt' = 0 /\ sEnds' = {0} /\ resets' = {0}
        BY <1>2, <2>1, <3>1, <4>2, <4>3
      <4> QED
        BY <4>4
    <3>2. CASE got # 0
      <4>1. inAt + got \notin sEnds
        BY <1>3, <1>6, <3>2
      <4> QED
        BY <1>2, <1>6, <2>1, <4>1
    <3> QED
      BY <3>1, <3>2
  <2> QED
    BY <2>2, <2>3
<1> QED
  BY <1>4, <1>5, <1>7, <1>8 DEF SingleInv

LEMMA SingleNext ==
  ASSUME Given, SingleInv, Single!Next, UNCHANGED <<length, hits, rsync>>, pc # "done"
  PROVE  SingleInv'
BY SingleTop, SingleScan, SingleFull, SingleHistory, SingleEmit DEF Single!Next, Single!Stop

-----------------------------------------------------------------------------
(* Both, one after the other                                               *)

LEMMA SingleKeepsInput ==
  ASSUME Single!Next, pc # "done"
  PROVE  UNCHANGED <<length, hits, rsync>>
BY DEF Single!Next, Single!Top, Single!Scan, Single!Full, Single!History, Single!Emit,
       Single!Stop, Single!input

LEMMA BothInit ==
  ASSUME InitBoth
  PROVE  BothInv
<1>1. Init
  BY DEF InitBoth
<1>2. ParallelInv
  BY <1>1, ParallelInit
<1>3. SingleInv
  BY <1>2, SingleInit DEF ParallelInv
<1>4. Starts
  <2>1. next.lo = 0 /\ ~done /\ ends = {0} /\ starts = {} /\ pc = "top"
    BY <1>1 DEF Init, InitBoth, Single!Init, Read, Piece
  <2> QED
    BY <2>1 DEF Starts
<1> QED
  BY <1>2, <1>3, <1>4 DEF BothInv

(* The jobs start where the blocks end, but for the end of the input.      *)
LEMMA StartsTurn ==
  ASSUME ParallelInv, Starts, Turn, starts' = starts \union {job'.in.lo}, pc' = pc
  PROVE  Starts'
<1>1. ~done /\ pc = "top"
  BY DEF Turn, Starts
<1>2. PICK r, lo, mid, hi, top : TurnDoes(r, top) /\ TurnGives(r, lo, mid, hi, top)
  BY TurnIsTurn
<1>3. next.lo = lo /\ r.curr.lo = lo
  BY <1>2 DEF TurnGives, Piece
<1>4. starts' = starts \union {lo}
  BY <1>2, <1>3 DEF TurnDoes
<1>5. 0 \in starts'
  BY <1>1, <1>3, <1>4 DEF Starts
<1>6. rsync' = rsync
  BY <1>2 DEF TurnDoes
<1>7. ASSUME ~rsync
      PROVE  starts' \union {0} = (ends' \ {next'.lo}) \union {0}
  <2>1. starts \union {0} = (ends \ {lo}) \union {0}
    BY <1>3, <1>7 DEF Starts
  <2>2. {0, lo} \subseteq ends /\ ends \subseteq 0..lo /\ lo \in Int
    BY <1>3 DEF ParallelInv, BlockCuts, Chain
  <2>3. ends' = ends \union BlockEnds(r.curr, r.lens)
    BY <1>2 DEF TurnDoes
  <2>4. ~r.tailed /\ r.next.lo = hi
    <3>1. ~r.tailed /\ r.next = Piece(hi, top)
      <4>1. CASE length = 0
        <5>1. ~r.tailed /\ r.next = Piece(0, 0) /\ hi = 0 /\ top = 0
          BY <1>2, <4>1, GivenIs DEF TurnGives, ParallelInv
        <5> QED
          BY <5>1
      <4>2. CASE length # 0
        BY <1>2, <1>7, <4>2 DEF TurnGives
      <4> QED
        BY <4>1, <4>2
    <3> QED
      BY <3>1 DEF Piece
  <2>5. next'.lo = hi
    BY <1>2, <2>4 DEF TurnDoes
  <2>6. starts' \union {0} = ends \union {0}
    BY <1>4, <2>1, <2>2
  <2>7. CASE length = 0
    <3>1. BlockEnds(r.curr, r.lens) = {0} /\ hi = 0 /\ lo = 0
      BY <1>2, <2>7 DEF TurnGives
    <3>2. ends' = ends
      BY <2>2, <2>3, <3>1
    <3> QED
      BY <2>5, <2>6, <3>1, <3>2
  <2>8. CASE length # 0
    <3>1. Extends(BlockEnds(r.curr, r.lens), lo, hi, length, hits)
      BY <1>2, <2>8 DEF TurnGives
    <3>2. HitsIn(hits, lo, hi) = {}
      BY <1>7 DEF ParallelInv, Given, HitsIn
    <3>3. BlockEnds(r.curr, r.lens) = {hi} /\ lo < hi /\ hi \in Int
      BY <3>1, <3>2 DEF Extends
    <3>4. hi \notin ends
      BY <2>2, <3>3
    <3> QED
      BY <2>3, <2>5, <2>6, <3>3, <3>4
  <2> QED
    BY <2>7, <2>8
<1> QED
  BY <1>1, <1>4, <1>5, <1>6, <1>7 DEF Starts

LEMMA BothNext ==
  ASSUME BothInv, [NextBoth]_bothVars
  PROVE  BothInv'
<1>1. ASSUME ParallelStep PROVE BothInv'
  <2>1. Turn /\ starts' = starts \union {job'.in.lo} /\ UNCHANGED <<setdict, singleVars>>
    BY <1>1 DEF ParallelStep
  <2>2. UNCHANGED <<length, hits, rsync>>
    BY <2>1 DEF Turn
  <2>3. ParallelInv'
    BY <2>1, ParallelTurn DEF BothInv
  <2>4. Starts'
    BY <2>1, StartsTurn DEF BothInv, singleVars
  <2>5. SingleInv'
    BY <2>1, <2>2 DEF BothInv, SingleInv, TwoBuffers, Scanning, AtTop, AtScan, AtBlock,
                      SingleCuts, Clears, singleVars
  <2> QED
    BY <2>3, <2>4, <2>5 DEF BothInv
<1>2. ASSUME SingleStep PROVE BothInv'
  <2>1. Single!Next /\ done /\ pc # "done"
        /\ UNCHANGED <<starts, next, hold, left, scan, dict, job, copied, ends, hashed, done, pos>>
    BY <1>2 DEF SingleStep
  <2>2. UNCHANGED <<length, hits, rsync>>
    BY <2>1, SingleKeepsInput
  <2>3. SingleInv'
    BY <2>1, <2>2, SingleNext DEF BothInv, ParallelInv
  <2>4. ParallelInv'
    BY <2>1, <2>2 DEF BothInv, ParallelInv, Given, Buffers, Hashing, LastJob, Dictionaries, BlockCuts
  <2>5. Starts'
    BY <2>1, <2>2 DEF BothInv, Starts
  <2> QED
    BY <2>3, <2>4, <2>5 DEF BothInv
<1>3. ASSUME UNCHANGED bothVars PROVE BothInv'
  <2>1. SingleInv'
    BY <1>3 DEF BothInv, SingleInv, TwoBuffers, Scanning, AtTop, AtScan, AtBlock,
                SingleCuts, Clears, bothVars, singleVars, vars
  <2>2. ParallelInv'
    BY <1>3 DEF BothInv, ParallelInv, Given, Buffers, Hashing, LastJob, Dictionaries, BlockCuts,
                bothVars, vars
  <2>3. Starts'
    BY <1>3 DEF BothInv, Starts, bothVars, singleVars, vars
  <2> QED
    BY <2>1, <2>2, <2>3 DEF BothInv
<1> QED
  BY <1>1, <1>2, <1>3 DEF NextBoth, StopBoth

LEMMA ParallelNext ==
  ASSUME ParallelInv, [Next]_vars
  PROVE  ParallelInv' /\ [NextJob]_job
<1>1. ASSUME UNCHANGED vars PROVE ParallelInv' /\ job' = job
  BY <1>1 DEF ParallelInv, Given, Buffers, Hashing, LastJob, Dictionaries, BlockCuts, vars
<1> QED
  BY <1>1, ParallelTurn DEF Next, Stop

(* What the invariants are for.                                            *)
LEMMA ParallelSafe ==
  ASSUME ParallelInv
  PROVE  StaysInside /\ DictionaryIsWindow /\ HashedInOrder
<1>1. StaysInside
  <2>1. \A e \in ends : 0 <= e /\ e <= job.in.hi
    <3>1. job.in.hi = next.lo
      BY DEF ParallelInv, LastJob
    <3>2. next.lo \in 0..length /\ ends \subseteq 0..next.lo
      BY DEF ParallelInv, BlockCuts, Chain
    <3>3. length \in Int
      BY GivenIs DEF ParallelInv
    <3> QED
      BY <3>1, <3>2, <3>3
  <2>2. Span(next) >= 0 /\ Span(hold) >= 0
    BY DEF ParallelInv, Buffers, IsPiece, Span
  <2>3. Span(dict) <= Size /\ copied <= Span(job.dict)
    BY DEF ParallelInv, Dictionaries, Window
  <2> QED
    BY <2>1, <2>2, <2>3 DEF StaysInside
<1>2. DictionaryIsWindow
  <2>1. Window(job.dict, job.in.lo) /\ job.in.lo \in Int
    BY DEF ParallelInv, Dictionaries, LastJob, IsPiece
  <2> QED
    BY <2>1, WindowIs DEF DictionaryIsWindow
<1>3. HashedInOrder
  BY DEF ParallelInv, Hashing, HashedInOrder
<1> QED
  BY <1>1, <1>2, <1>3

LEMMA BothSafe ==
  ASSUME BothInv
  PROVE  BothStayInside /\ SameBlocks
<1>1. BothStayInside
  <2>1. SingleFacts
    BY SingleFactsAre DEF BothInv, SingleInv, ParallelInv
  <2>2. inOff + got <= Size
    BY <2>1 DEF BothInv, SingleInv, Scanning, AtTop, AtScan, AtBlock, SingleFacts
  <2>3. /\ pc = "full" => nextAt = inAt + got
        /\ pc \in {"scan", "full"} => sScan + sLeft = inAt + got
    BY DEF BothInv, SingleInv, Scanning, AtScan
  <2>4. Single!StaysInside
    BY <2>1, <2>2, <2>3 DEF Single!StaysInside, SingleFacts
  <2> QED
    BY <2>4, ParallelSafe DEF BothStayInside, BothInv
<1>2. SameBlocks
  <2> SUFFICES ASSUME pc = "done"
               PROVE  /\ sEnds = Cuts(length, hits) /\ ends = Cuts(length, hits)
                      /\ ~setdict /\ ~rsync => resets = starts
    BY DEF SameBlocks
  <2>1. inAt = length /\ done /\ next.lo = length
    BY DEF BothInv, SingleInv, Scanning, Starts, ParallelInv, LastJob
  <2>2. Chain(sEnds, length, length, hits) /\ Chain(ends, length, length, hits)
    BY <2>1 DEF BothInv, SingleInv, SingleCuts, ParallelInv, BlockCuts
  <2>3. sEnds = Cuts(length, hits) /\ ends = Cuts(length, hits)
    BY <2>2, CutsAre, GivenIs DEF BothInv, ParallelInv
  <2>4. ~setdict /\ ~rsync => resets = starts
    <3>1. 0 \in starts
      BY <2>1 DEF BothInv, Starts
    <3>2. ~rsync => starts \union {0} = (ends \ {length}) \union {0}
      BY <2>1 DEF BothInv, Starts
    <3>3. ~setdict /\ ~rsync => resets = (sEnds \ {length}) \union {0}
      BY <2>1 DEF BothInv, SingleInv, Clears
    <3> QED
      BY <2>3, <3>1, <3>2, <3>3
  <2> QED
    BY <2>3, <2>4
<1> QED
  BY <1>1, <1>2

-----------------------------------------------------------------------------
(* The theorems                                                            *)

(* The inductive invariant of the loop of parallel_compress().             *)
THEOREM ParallelInvariant == Spec => []ParallelInv
<1>1. Init => ParallelInv
  BY ParallelInit
<1>2. ParallelInv /\ [Next]_vars => ParallelInv'
  BY ParallelNext
<1> QED
  BY <1>1, <1>2, PTL DEF Spec

(* The jobs are the input, in order and without gaps, and "more" tells the *)
(* last one.                                                               *)
THEOREM JobsAreTheInput == Spec => JobsAreInput
<1>1. ParallelInv /\ [Next]_vars => [NextJob]_job
  BY ParallelNext
<1>2. Spec => [][NextJob]_job
  BY <1>1, ParallelInvariant, PTL DEF Spec
<1> QED
  BY <1>2 DEF JobsAreInput, NextJob

(* Lengths and copies stay inside; each job is compressed with the window  *)
(* that a decompressor has; the hash sees every byte once and in order.    *)
THEOREM CopiesStayInside == Spec => []StaysInside
<1>1. ParallelInv => StaysInside
  BY ParallelSafe
<1> QED
  BY <1>1, ParallelInvariant, PTL

THEOREM WindowForEachJob == Spec => []DictionaryIsWindow
<1>1. ParallelInv => DictionaryIsWindow
  BY ParallelSafe
<1> QED
  BY <1>1, ParallelInvariant, PTL

THEOREM EveryByteHashed == Spec => []HashedInOrder
<1>1. ParallelInv => HashedInOrder
  BY ParallelSafe
<1> QED
  BY <1>1, ParallelInvariant, PTL

(* The inductive invariant of both compressors on the same input.          *)
THEOREM BothInvariant == BothSpec => []BothInv
<1>1. InitBoth => BothInv
  BY BothInit
<1>2. BothInv /\ [NextBoth]_bothVars => BothInv'
  BY BothNext
<1> QED
  BY <1>1, <1>2, PTL DEF BothSpec

(* Copies stay inside the buffers of both.                                 *)
THEOREM BuffersOfBoth == BothSpec => []BothStayInside
<1>1. BothInv => BothStayInside
  BY BothSafe
<1> QED
  BY <1>1, BothInvariant, PTL

(* The blocks are independent of threading (pigz.c:138), as those of -i    *)
(* are of the history that is cleared between them.                        *)
THEOREM IndependentOfThreading == BothSpec => []SameBlocks
<1>1. BothInv => SameBlocks
  BY BothSafe
<1> QED
  BY <1>1, BothInvariant, PTL

(* Whatever single_compress() does after it, parallel_compress() is as it  *)
(* is alone.                                                               *)
THEOREM BothImplementsParallel == BothSpec => Spec
<1>1. InitBoth => Init
  BY DEF InitBoth
<1>2. [NextBoth]_bothVars => [Next]_vars
  <2>1. ASSUME ParallelStep PROVE Next
    BY <2>1 DEF ParallelStep, Next
  <2>2. ASSUME SingleStep PROVE UNCHANGED vars
    <3>1. Single!Next /\ pc # "done"
      BY <2>2 DEF SingleStep
    <3>2. UNCHANGED <<length, hits, rsync>>
      BY <3>1, SingleKeepsInput
    <3> QED
      BY <2>2, <3>2 DEF SingleStep, vars
  <2>3. ASSUME UNCHANGED bothVars PROVE UNCHANGED vars
    BY <2>3 DEF bothVars
  <2> QED
    BY <2>1, <2>2, <2>3 DEF NextBoth, StopBoth
<1> QED
  BY <1>1, <1>2, PTL DEF BothSpec, Spec

-----------------------------------------------------------------------------
(* The lists of block lengths                                              *)

(* The powers of two double and do not fall.                               *)
LEMMA Powers ==
  /\ Pow2[0] = 1
  /\ \A n \in Nat : Pow2[n] \in Nat \ {0} /\ Pow2[n + 1] = 2 * Pow2[n]
  /\ \A m, n \in Nat : m <= n => Pow2[m] <= Pow2[n]
<1> DEFINE G == [x \in Nat |-> 2 * x]
           IsPow(p) == p = [n \in Nat |-> IF n = 0 THEN 1 ELSE 2 * p[n - 1]]
<1>1. G \in [Nat -> Nat]
  OBVIOUS
<1>2. PICK f \in [Nat -> Nat] : f[0] = 1 /\ \A n \in Nat : f[n + 1] = G[f[n]]
  <2> DEFINE T == Nat
             one == 1
  <2>1. one \in T /\ G \in [T -> T]
    BY <1>1
  <2>2. \E f \in [Nat -> T] : f[0] = one /\ \A n \in Nat : f[n + 1] = G[f[n]]
    <3> HIDE DEF G, T, one
    <3> QED
      BY <2>1, Iterate
  <2> QED
    BY <2>2
<1>3. IsPow(f)
  <2>1. ASSUME NEW n \in Nat PROVE f[n] = IF n = 0 THEN 1 ELSE 2 * f[n - 1]
    <3>1. n # 0 => n - 1 \in Nat /\ (n - 1) + 1 = n
      OBVIOUS
    <3>2. n # 0 => f[n] = G[f[n - 1]]
      BY <1>2, <3>1
    <3>3. n # 0 => f[n - 1] \in Nat
      BY <1>2, <3>1
    <3> QED
      BY <1>2, <3>2, <3>3
  <2> QED
    BY <2>1
<1>4. IsPow(Pow2)
  <2>1. Pow2 = CHOOSE p : IsPow(p)
    BY DEF Pow2
  <2> HIDE DEF IsPow
  <2> QED
    BY <1>3, <2>1
<1>5. \A n \in Nat : Pow2[n] = IF n = 0 THEN 1 ELSE 2 * Pow2[n - 1]
  BY <1>4
<1>6. Pow2[0] = 1 /\ \A n \in Nat : Pow2[n + 1] = 2 * Pow2[n]
  <2>1. \A n \in Nat : n + 1 \in Nat /\ n + 1 # 0 /\ (n + 1) - 1 = n
    OBVIOUS
  <2> QED
    BY <1>5, <2>1
<1> DEFINE S == {n \in Nat : Pow2[n] \in Nat \ {0}}
<1>7. Nat \subseteq S
  <2>1. 0 \in S /\ \A n \in Nat : n \in S => n + 1 \in S
    BY <1>6
  <2> HIDE DEF S
  <2> QED
    BY <2>1, Up
<1>8. ASSUME NEW m \in Nat, NEW n \in Nat, m <= n PROVE Pow2[m] <= Pow2[n]
  <2> DEFINE T == {k \in Nat : Pow2[m] <= Pow2[m + k]}
  <2>1. 0 \in T
    <3>1. m + 0 = m /\ Pow2[m] \in Nat
      BY <1>7
    <3> QED
      BY <3>1
  <2>2. ASSUME NEW k \in Nat, k \in T PROVE k + 1 \in T
    <3>1. Pow2[(m + k) + 1] = 2 * Pow2[m + k] /\ Pow2[m + k] \in Nat /\ Pow2[m] \in Nat
      BY <1>6, <1>7
    <3>2. m + (k + 1) = (m + k) + 1
      OBVIOUS
    <3> QED
      BY <2>2, <3>1, <3>2
  <2>3. Nat \subseteq T
    <3> HIDE DEF T
    <3> QED
      BY <2>1, <2>2, Up
  <2>4. n - m \in Nat /\ m + (n - m) = n
    BY <1>8
  <2> QED
    BY <2>3, <2>4
<1> QED
  BY <1>6, <1>7, <1>8

(* A size_t has at least the values that C asks for.                       *)
LEMMA Sizes == MaxSize \in Nat /\ MaxSize >= 65535
<1>1. Pow2[16] = 65536
  <2>1. \A n \in Nat : Pow2[n] \in Nat /\ Pow2[n + 1] = 2 * Pow2[n]
    BY Powers
  <2>2. \A n \in Nat : Pow2[n + 4] = 16 * Pow2[n]
    <3> TAKE n \in Nat
    <3>1. n + 1 \in Nat /\ n + 2 \in Nat /\ n + 3 \in Nat
          /\ (n + 1) + 1 = n + 2 /\ (n + 2) + 1 = n + 3 /\ (n + 3) + 1 = n + 4
      OBVIOUS
    <3>2. Pow2[n + 1] = 2 * Pow2[n] /\ Pow2[n + 2] = 2 * Pow2[n + 1]
          /\ Pow2[n + 3] = 2 * Pow2[n + 2] /\ Pow2[n + 4] = 2 * Pow2[n + 3]
      BY <2>1, <3>1
    <3> QED
      BY <2>1, <3>2
  <2>3. Pow2[0 + 4] = 16 * Pow2[0] /\ Pow2[4 + 4] = 16 * Pow2[4]
        /\ Pow2[8 + 4] = 16 * Pow2[8] /\ Pow2[12 + 4] = 16 * Pow2[12]
    BY <2>2
  <2>4. 0 + 4 = 4 /\ 4 + 4 = 8 /\ 8 + 4 = 12 /\ 12 + 4 = 16
    OBVIOUS
  <2>5. Pow2[4] = 16 * 1 /\ Pow2[8] = 16 * Pow2[4] /\ Pow2[12] = 16 * Pow2[8]
        /\ Pow2[16] = 16 * Pow2[12]
    BY <2>3, <2>4, Powers
  <2> QED
    BY <2>5
<1>2. Pow2[16] <= Pow2[Width] /\ Pow2[Width] \in Nat
  BY Powers, GrowAssumption
<1> QED
  BY <1>1, <1>2 DEF MaxSize

(* The number of bits that grow() shifts by.                               *)
LEMMA Shifts ==
  ASSUME NEW size \in Nat, size < Pow2[Width]
  PROVE  TopShift(size) \in 0..Width
<1> DEFINE Small(n) == size \div Pow2[n] <= 7
           T == {n \in 0..Width : Small(n)}
<1>1. Width \in T
  <2>1. Width \in Nat /\ Pow2[Width] \in Nat \ {0}
    BY Powers, GrowAssumption
  <2>2. size \div Pow2[Width] = 0
    BY <2>1
  <2> QED
    BY <2>1, <2>2
<1>2. T \subseteq Nat
  BY GrowAssumption
<1>3. PICK n \in T : \A m \in T : n <= m
  BY <1>1, <1>2, LeastNat
<1>4. n > 0 => size \div Pow2[n - 1] > 7
  <2> SUFFICES ASSUME n > 0 PROVE size \div Pow2[n - 1] > 7
    OBVIOUS
  <2>1. n \in 0..Width /\ n - 1 \in 0..Width /\ n - 1 \in Nat /\ ~(n <= n - 1)
    BY GrowAssumption
  <2>2. ~Small(n - 1)
    BY <1>3, <2>1
  <2>3. size \div Pow2[n - 1] \in Int
    BY <2>1, Powers
  <2> QED
    BY <2>2, <2>3
<1> QED
  BY <1>3, <1>4 DEF TopShift

(* grow() gives the largest size, or at least four more.                   *)
LEMMA Grows ==
  ASSUME NEW was \in 16..MaxSize, NEW r \in Grow(was)
  PROVE  r \in 16..MaxSize /\ (r = MaxSize \/ r >= was + 4)
<1> DEFINE W == Pow2[Width]
           larger == (was + was \div 4) % W
           shift == TopShift(larger)
           P == Pow2[shift]
<1>1. W \in Nat /\ W >= 65536 /\ MaxSize = W - 1 /\ Width \in Nat
  BY Sizes, GrowAssumption, Powers DEF MaxSize
<1>2. was \in Nat /\ 16 <= was /\ was < W /\ was \div 4 \in 4..was /\ 4 * (was \div 4) <= was
  BY <1>1
<1>3. larger \in Nat /\ larger < W
      /\ \/ larger >= was + 4
         \/ 4 * larger <= was
  <2> DEFINE sum == was + was \div 4
  <2>1. CASE sum < W
    <3>1. sum % W = sum
      BY <1>1, <1>2, <2>1
    <3> QED
      BY <1>1, <1>2, <2>1, <3>1
  <2>2. CASE sum >= W
    <3>1. sum % W = sum - W
      <4>1. sum - W \in 0..(W - 1)
        BY <1>1, <1>2, <2>2
      <4> QED
        BY <1>1, <1>2, <4>1
    <3> QED
      BY <1>1, <1>2, <2>2, <3>1
  <2> QED
    BY <1>1, <1>2, <2>1, <2>2
<1> HIDE DEF larger
<1>4. shift \in 0..Width /\ P \in Nat \ {0}
  BY <1>1, <1>3, Shifts, Powers
<1> HIDE DEF shift, W
<1>5. PICK s \in IF larger \div P = 7 THEN ShiftLeft1(shift + 3) ELSE {larger} : r = Grown(was, s)
  BY DEF Grow, larger, shift, W
<1>6. s \in Nat /\ s < W /\ (s <= was \/ s >= was + 4)
  <2>1. CASE larger \div P # 7
    BY <1>2, <1>3, <1>5, <2>1
  <2>2. CASE larger \div P = 7
    <3>1. 7 * P <= larger /\ larger < 8 * P
      BY <1>3, <1>4, <2>2
    <3>2. CASE shift + 3 < Width
      <4>1. s = Pow2[shift + 3]
        BY <1>5, <2>2, <3>2 DEF ShiftLeft1
      <4>2. shift + 1 \in Nat /\ shift + 2 \in Nat /\ shift + 3 \in Nat /\ shift \in Nat
        BY <1>1, <1>4
      <4>3. Pow2[shift + 1] = 2 * P /\ Pow2[(shift + 1) + 1] = 2 * Pow2[shift + 1]
            /\ Pow2[(shift + 2) + 1] = 2 * Pow2[shift + 2]
        BY <4>2, Powers
      <4>4. (shift + 1) + 1 = shift + 2 /\ (shift + 2) + 1 = shift + 3
        BY <4>2
      <4>5. s = 8 * P
        BY <1>4, <4>1, <4>3, <4>4
      <4>6. Pow2[(shift + 3) + 1] = 2 * s /\ Pow2[(shift + 3) + 1] <= W
        BY <1>1, <3>2, <4>1, <4>2, Powers DEF W
      <4> QED
        BY <1>1, <1>2, <1>3, <1>4, <3>1, <4>5, <4>6
    <3>3. CASE ~(shift + 3 < Width)
      <4>1. s \in {0, 1}
        BY <1>5, <2>2, <3>3 DEF ShiftLeft1
      <4> QED
        BY <1>1, <1>2, <4>1
    <3> QED
      BY <3>2, <3>3
  <2> QED
    BY <2>1, <2>2
<1> QED
  BY <1>1, <1>2, <1>5, <1>6 DEF Grown

(* A sum is where the running totals end.                                  *)
LEMMA SumIs ==
  ASSUME NEW s, Len(s) \in Nat, NEW h \in [0..Len(s) -> Int], h[0] = 0,
         \A i \in 1..Len(s) : h[i] = h[i - 1] + s[i]
  PROVE  TotalOf(s) = h[Len(s)]
<1> DEFINE IsTo(e) == e = [i \in 0..Len(s) |-> IF i = 0 THEN 0 ELSE e[i - 1] + s[i]]
           to == CHOOSE e : IsTo(e)
<1>1. IsTo(h)
  <2>1. \A i \in 0..Len(s) : h[i] = IF i = 0 THEN 0 ELSE h[i - 1] + s[i]
    OBVIOUS
  <2> QED
    BY <2>1
<1>2. IsTo(to)
  BY <1>1
<1>3. \A i \in 0..Len(s) : to[i] = IF i = 0 THEN 0 ELSE to[i - 1] + s[i]
  BY <1>2
<1> DEFINE S == {i \in Nat : i > Len(s) \/ to[i] = h[i]}
<1>4. Nat \subseteq S
  <2>1. 0 \in S
    BY <1>3
  <2>2. ASSUME NEW i \in Nat, i \in S PROVE i + 1 \in S
    <3>1. CASE i + 1 > Len(s)
      BY <3>1
    <3>2. CASE i + 1 <= Len(s)
      <4>1. i + 1 \in 1..Len(s) /\ i + 1 \in 0..Len(s) /\ i + 1 # 0 /\ (i + 1) - 1 = i
            /\ to[i] = h[i]
        BY <2>2, <3>2
      <4> QED
        BY <1>3, <4>1
    <3> QED
      BY <3>1, <3>2
  <2> HIDE DEF S
  <2> QED
    BY <2>1, <2>2, Up
<1>5. Len(s) \in S /\ ~(Len(s) > Len(s))
  BY <1>4
<1>6. TotalOf(s) = to[Len(s)]
  BY DEF TotalOf
<1> QED
  BY <1>5, <1>6

(* What append_len() asserts of a length.                                  *)
Codable == 64 * 65536 + 32831

LEMMA CodableIs ==
  Codable \in Nat /\ Codable >= 64 * 65536 + 32831 /\ Codable <= 64 * 65536 + 32831
  BY SMT DEF Codable

(* The codes, and that compress_thread() reads what append_len() wrote.    *)
LEMMA CodeBytes ==
  ASSUME NEW len \in Nat
  PROVE  Code(len) \in Seq(Nat) /\ Len(Code(len)) \in Nat /\ Len(Code(len)) <= 3
<1>1. \A n \in Int : Byte(n) \in Nat
  BY DEF Byte
<1> QED
  BY <1>1 DEF Code

LEMMA CodeEnd == Code(0) = <<128>>
  BY DEF Code, Byte

(* The three forms of codes are told apart and give the length back.       *)
LEMMA DecodedIs ==
  ASSUME NEW len \in 1..Codable,
         \A k \in 1..Len(Code(len)) : buf[lNext + k] = Code(len)[k]
  PROVE  Decoded = [len |-> len, bytes |-> Len(Code(len))]
<1>1. CASE len < 64
  <2>1. Code(len) = <<len + 128>>
    BY <1>1 DEF Code, Byte
  <2>2. buf[lNext + 1] = len + 128
    BY <2>1
  <2>3. (len + 128) % 64 = len
    BY <1>1
  <2> QED
    BY <1>1, <2>1, <2>2, <2>3 DEF Decoded
<1>2. CASE len >= 64 /\ len < 32832
  <2> DEFINE l == len - 64
  <2>1. l \in Nat /\ l < 32768
    BY <1>2, CodableIs
  <2>2. /\ l \div 256 \in Nat /\ l \div 256 < 128
        /\ (l \div 256) % 256 = l \div 256 /\ (l \div 256) * 256 + (l % 256) = l
    BY <2>1
  <2>3. Code(len) = <<l \div 256, l % 256>>
    BY <1>2, <2>2 DEF Code, Byte
  <2>4. buf[lNext + 1] = l \div 256 /\ buf[lNext + 2] = l % 256
    BY <2>3
  <2> QED
    BY <1>2, <2>1, <2>2, <2>3, <2>4 DEF Decoded
<1>3. CASE len >= 32832
  <2> DEFINE l == len - 32832
             top == l \div 65536
             mid == (l \div 256) % 256
  <2>1. l \in Nat /\ l < 64 * 65536
    BY <1>3, CodableIs, SMT
  <2>2. top \in Nat /\ top < 64 /\ (top + 192) % 256 = top + 192 /\ (top + 192) % 64 = top
    BY <2>1, SMT
  <2>3. mid \in Nat /\ top * 65536 + mid * 256 + (l % 256) = l
    BY <2>1, SMT
  <2>4. Code(len) = <<top + 192, mid, l % 256>>
    BY <1>3, <2>2 DEF Code, Byte
  <2>5. buf[lNext + 1] = top + 192 /\ buf[lNext + 2] = mid /\ buf[lNext + 3] = l % 256
    BY <2>4
  <2>6. l % 256 \in Nat
    BY <2>1
  <2> HIDE DEF top, mid
  <2>7. Decoded = [len |-> top * 65536 + mid * 256 + 32832 + (l % 256), bytes |-> 3]
    BY <2>2, <2>5 DEF Decoded
  <2> QED
    BY <1>3, <2>2, <2>3, <2>4, <2>6, <2>7
<1> QED
  BY <1>1, <1>2, <1>3

LEMMA DecodedEnd ==
  ASSUME buf[lNext + 1] = 128
  PROVE  Decoded = [len |-> lLeft, bytes |-> 1]
  BY DEF Decoded

-----------------------------------------------------------------------------

(* Where the codes of a list are in its bytes.                             *)
Places(g, all, bytes) ==
  /\ g \in [0..Len(all) -> Nat] /\ g[0] = 0 /\ g[Len(all)] = Len(bytes)
  /\ \A i \in 1..Len(all) :
       /\ g[i] = g[i - 1] + Len(Code(all[i])) /\ g[i] <= Len(bytes)
       /\ \A k \in 1..Len(Code(all[i])) : bytes[g[i - 1] + k] = Code(all[i])[k]

(* A code more is one place more.                                          *)
LEMMA PlacesGrow ==
  ASSUME NEW all \in Seq(Nat), NEW bytes \in Seq(Nat), NEW g, Places(g, all, bytes),
         NEW len \in Nat
  PROVE  \E g2 : Places(g2, Append(all, len), bytes \o Code(len))
<1> DEFINE n == Len(all)
           puts == Append(all, len)
           longer == bytes \o Code(len)
           g2 == [i \in 0..(n + 1) |-> IF i = n + 1 THEN Len(longer) ELSE g[i]]
<1>1. n \in Nat /\ Len(puts) = n + 1 /\ puts[n + 1] = len /\ \A i \in 1..n : puts[i] = all[i]
  OBVIOUS
<1>2. Code(len) \in Seq(Nat) /\ Len(Code(len)) \in Nat
  BY CodeBytes
<1>3. /\ Len(bytes) \in Nat /\ Len(longer) = Len(bytes) + Len(Code(len))
      /\ \A i \in 1..Len(bytes) : longer[i] = bytes[i]
      /\ \A k \in 1..Len(Code(len)) : longer[Len(bytes) + k] = Code(len)[k]
  BY <1>2
<1> HIDE DEF puts, longer
<1>4. g2 \in [0..(n + 1) -> Nat] /\ g2[0] = 0 /\ g2[n + 1] = Len(longer)
      /\ \A i \in 0..n : g2[i] = g[i]
  BY <1>1, <1>2, <1>3 DEF Places
<1> HIDE DEF g2
<1>5. ASSUME NEW i \in 1..(n + 1)
      PROVE  /\ g2[i] = g2[i - 1] + Len(Code(puts[i])) /\ g2[i] <= Len(longer)
             /\ \A k \in 1..Len(Code(puts[i])) : longer[g2[i - 1] + k] = Code(puts[i])[k]
  <2>1. CASE i = n + 1
    <3>1. i - 1 = n /\ n \in 0..n /\ puts[i] = len
      BY <1>1, <2>1
    <3>2. g2[i - 1] = Len(bytes) /\ g2[i] = Len(longer)
      BY <1>4, <2>1, <3>1 DEF Places
    <3>3. g2[i] = g2[i - 1] + Len(Code(puts[i])) /\ g2[i] <= Len(longer)
      BY <1>2, <1>3, <3>1, <3>2
    <3> QED
      BY <1>3, <3>1, <3>2, <3>3
  <2>2. CASE i # n + 1
    <3>1. i \in 1..n /\ i \in 0..n /\ i - 1 \in 0..n /\ puts[i] = all[i]
      BY <1>1, <2>2
    <3>2. g2[i] = g[i] /\ g2[i - 1] = g[i - 1] /\ g[i - 1] \in Nat /\ g[i] \in Nat
      BY <1>4, <3>1 DEF Places
    <3>3. g[i] = g[i - 1] + Len(Code(all[i])) /\ g[i] <= Len(bytes)
          /\ \A k \in 1..Len(Code(all[i])) : bytes[g[i - 1] + k] = Code(all[i])[k]
      BY <3>1 DEF Places
    <3>4. ASSUME NEW k \in 1..Len(Code(all[i]))
          PROVE  longer[g[i - 1] + k] = Code(all[i])[k]
      <4>1. Len(Code(all[i])) \in Nat
        <5>1. all[i] \in Nat
          BY <3>1
        <5> QED
          BY <5>1, CodeBytes
      <4>2. g[i - 1] + k \in 1..Len(bytes)
        <5>1. k \in Nat /\ 1 <= k /\ k <= Len(Code(all[i]))
          BY <4>1
        <5>2. /\ g[i - 1] \in Nat /\ Len(bytes) \in Nat
              /\ g[i - 1] + Len(Code(all[i])) <= Len(bytes)
          BY <1>3, <3>2, <3>3
        <5> DEFINE p == g[i - 1]
                   w == Len(Code(all[i]))
                   m == Len(bytes)
        <5>3. p \in Nat /\ w \in Nat /\ m \in Nat /\ p + w <= m /\ k <= w
          BY <4>1, <5>1, <5>2
        <5> HIDE DEF p, w, m
        <5>4. p + k \in 1..m
          BY <5>1, <5>3
        <5> QED
          BY <5>4 DEF p, m
      <4> QED
        BY <1>3, <3>3, <4>2
    <3> QED
      BY <1>2, <1>3, <3>1, <3>2, <3>3, <3>4
  <2> QED
    BY <2>1, <2>2
<1>6. Places(g2, puts, longer)
  BY <1>1, <1>4, <1>5 DEF Places
<1> QED
  BY <1>6 DEF puts, longer

(* The buffer grows before it is too small.                                *)
LEMMA PutFits ==
  ASSUME room \in 16..MaxSize, buf \in Seq(Nat), Len(buf) <= room, Len(buf) + 3 <= MaxSize,
         NEW len \in Nat, Put(len)
  PROVE  /\ room' \in 16..MaxSize /\ buf' = buf \o Code(len) /\ buf' \in Seq(Nat)
         /\ Len(buf') <= room' /\ Len(buf') <= Len(buf) + 3
<1> DEFINE was == Len(buf)
           put == Len(buf')
           code == Code(len)
<1>1. MaxSize \in Nat /\ room \in Nat /\ was \in Nat /\ was <= room /\ was + 3 <= MaxSize
  BY Sizes
<1>2. code \in Seq(Nat) /\ Len(code) \in Nat /\ Len(code) <= 3
  BY CodeBytes
<1>3. buf' = buf \o code
  BY DEF Put
<1> HIDE DEF code
<1>4. buf' \in Seq(Nat) /\ put = was + Len(code)
  BY <1>2, <1>3
<1> HIDE DEF was, put
<1>5. put \in Nat /\ put <= was + 3
  BY <1>1, <1>2, <1>4
<1>6. room' \in 16..MaxSize /\ put <= room'
  <2>1. CASE room < was + 3
    <3>1. room' \in Grow(room)
      BY <2>1 DEF Put, Needs, was
    <3>2. room' \in 16..MaxSize /\ (room' = MaxSize \/ room' >= room + 4)
      BY <3>1, Grows
    <3> QED
      BY <1>1, <1>5, <2>1, <3>2
  <2>2. CASE ~(room < was + 3)
    <3>1. room' = room
      BY <2>2 DEF Put, Needs, was
    <3> QED
      BY <1>1, <1>5, <2>2, <3>1
  <2> QED
    BY <2>1, <2>2
<1> QED
  BY <1>3, <1>4, <1>5, <1>6 DEF was, put, code

(* The running totals of a list of lengths.                                *)
Totals(h, lengths) ==
  /\ h \in [0..Len(lengths) -> Nat] /\ h[0] = 0
  /\ \A i \in 1..Len(lengths) : h[i] = h[i - 1] + lengths[i]
  /\ \A i \in 0..Len(lengths) : i < Len(lengths) => h[i] < h[Len(lengths)]

(* What was put into the list.                                             *)
Written == IF lLeft = -1 THEN asked ELSE Append(asked, 0)

AskedFor ==
  /\ \E k \in BlockSizes : SizeAllowed(k) /\ blockSize = k * 1024
  /\ asked \in Seq(Gaps) /\ \A i \in 1..Len(asked) : asked[i] <= blockSize
  /\ Len(asked) <= MaxLens(blockSize)
  /\ rest \in Nat /\ lLeft \in Int

ListFits ==
  /\ buf \in Seq(Nat) /\ room \in 16..MaxSize
  /\ Len(buf) <= room /\ Len(buf) <= 3 * Len(Written)

(* The decoder is at the code of the next block, and has taken from what   *)
(* is left what the codes before it say.                                   *)
AtCode(g, h) ==
  IF lLeft = -1 THEN blocks = <<>> /\ lNext = 0 /\ ~lDone
  ELSE IF lDone THEN lLeft = 0 /\ blocks = asked \o (IF rest = 0 THEN <<>> ELSE <<rest>>)
  ELSE /\ blocks \in Seq(Nat) /\ Len(blocks) <= Len(asked)
       /\ \A i \in 1..Len(blocks) : blocks[i] = asked[i]
       /\ lNext = g[Len(blocks)]
       /\ lLeft > 0 /\ lLeft = h[Len(asked)] - h[Len(blocks)] + rest

ListInd ==
  /\ AskedFor /\ ListFits
  /\ \E g, h : Places(g, Written, buf) /\ Totals(h, asked) /\ AtCode(g, h)

(* What the option and the bound on hits leave room for.                   *)
LEMMA AskedSmall ==
  ASSUME AskedFor
  PROVE  /\ blockSize \in 32768..Codable /\ Len(asked) \in Nat
         /\ MaxLens(blockSize) \in Nat /\ 3 * (MaxLens(blockSize) + 1) <= MaxSize
         /\ asked \in Seq(Nat) /\ \A i \in 1..Len(asked) : asked[i] \in 1..Codable
<1>1. PICK k \in BlockSizes : SizeAllowed(k) /\ blockSize = k * 1024
  BY DEF AskedFor
<1>2. k \in Nat /\ MaxLens(k * 1024) \in Nat /\ 3 * (MaxLens(k * 1024) + 1) <= MaxSize
  BY <1>1, LensAssumption
<1>3. blockSize \in 32768..Codable
  <2>1. blockSize \in Nat /\ blockSize >= 32768
    BY <1>1, <1>2, SMT DEF SizeAllowed
  <2>2. blockSize <= Codable
    BY <1>1, <1>2, CodableIs, SMT DEF SizeAllowed
  <2> QED
    BY <2>1, <2>2, CodableIs
<1>4. asked \in Seq(Gaps) /\ Gaps \subseteq Nat \ {0}
  BY LensAssumption DEF AskedFor
<1>5. \A i \in 1..Len(asked) : asked[i] \in Gaps /\ asked[i] <= blockSize
  BY <1>4 DEF AskedFor
<1>6. \A i \in 1..Len(asked) : asked[i] \in 1..Codable
  <2> TAKE i \in 1..Len(asked)
  <2>1. asked[i] \in Nat /\ asked[i] # 0 /\ asked[i] <= blockSize
    BY <1>4, <1>5
  <2> QED
    BY <1>3, <2>1, CodableIs
<1>7. asked \in Seq(Nat)
  <2>1. Gaps \subseteq Nat
    BY <1>4
  <2> QED
    BY <1>4, <2>1, SeqMonotonic
<1> QED
  BY <1>1, <1>2, <1>3, <1>4, <1>6, <1>7

(* The steps of append_len() and of compress_thread() keep all that.       *)
LEMMA ListInit == LensInit => ListInd
<1> SUFFICES ASSUME LensInit PROVE ListInd
  OBVIOUS
<1> DEFINE z == [i \in 0..0 |-> 0]
<1>1. PICK k \in BlockSizes : SizeAllowed(k) /\ blockSize = k * 1024
  BY DEF LensInit
<1>2. k \in Nat /\ MaxLens(blockSize) \in Nat
  BY <1>1, LensAssumption
<1>3. asked = <<>> /\ rest = 0 /\ buf = <<>> /\ lNext = 0 /\ lLeft = -1 /\ blocks = <<>> /\ ~lDone
  BY DEF LensInit
<1>4. AskedFor
  BY <1>1, <1>2, <1>3 DEF AskedFor
<1>5. room \in 16..2048 /\ room \in 16..MaxSize
  BY <1>1, <1>2, Sizes DEF LensInit, SizeAllowed
<1>6. Written = <<>>
  BY <1>3 DEF Written
<1>7. ListFits
  BY <1>3, <1>5, <1>6 DEF ListFits
<1>8. Places(z, Written, buf)
  BY <1>3, <1>6 DEF Places
<1>9. Totals(z, asked)
  BY <1>3 DEF Totals
<1>10. AtCode(z, z)
  BY <1>3 DEF AtCode
<1> QED
  BY <1>4, <1>7, <1>8, <1>9, <1>10 DEF ListInd

LEMMA ListAppend ==
  ASSUME ListInd, NEW len \in Gaps, Append1(len)
  PROVE  ListInd'
<1> DEFINE n == Len(asked)
<1>1. PICK g, h : Places(g, Written, buf) /\ Totals(h, asked) /\ AtCode(g, h)
  BY DEF ListInd
<1>2. AskedFor /\ ListFits
  BY DEF ListInd
<1>3. /\ lLeft = -1 /\ Len(asked) < MaxLens(blockSize) /\ len <= blockSize /\ Put(len)
      /\ asked' = Append(asked, len)
      /\ UNCHANGED <<blockSize, rest, lNext, lLeft, blocks, lDone>>
  BY DEF Append1
<1>4. len \in Nat \ {0} /\ n \in Nat
  BY <1>2, <1>3, AskedSmall, LensAssumption
<1>5. Written = asked /\ Written' = Append(asked, len)
  BY <1>3 DEF Written
<1>6. asked \in Seq(Gaps) /\ asked \in Seq(Nat)
  BY <1>2, AskedSmall DEF AskedFor
<1>7. asked' \in Seq(Gaps) /\ Len(asked') = n + 1 /\ asked'[n + 1] = len
      /\ \A i \in 1..n : asked'[i] = asked[i]
  BY <1>3, <1>6
<1>8. AskedFor'
  <2>1. \A i \in 1..(n + 1) : asked'[i] <= blockSize
    <3>1. \A i \in 1..(n + 1) : i = n + 1 \/ i \in 1..n
      BY <1>4
    <3> QED
      BY <1>2, <1>3, <1>7, <3>1 DEF AskedFor
  <2>2. Len(asked') <= MaxLens(blockSize)
    BY <1>2, <1>3, <1>4, <1>7, AskedSmall
  <2>3. blockSize' = blockSize /\ rest' = rest /\ lLeft' = lLeft
    BY <1>3
  <2> QED
    BY <1>2, <1>7, <2>1, <2>2, <2>3 DEF AskedFor
<1>9. /\ room' \in 16..MaxSize /\ buf' = buf \o Code(len) /\ buf' \in Seq(Nat)
      /\ Len(buf') <= room' /\ Len(buf') <= Len(buf) + 3
  <2>1. Len(buf) + 3 <= MaxSize
    BY <1>2, <1>3, <1>4, <1>5, AskedSmall, Sizes DEF ListFits
  <2> QED
    BY <1>2, <1>3, <1>4, <2>1, PutFits DEF ListFits
<1>10. ListFits'
  <2>1. Len(Written') = n + 1 /\ Len(Written) = n /\ Len(buf) \in Nat /\ Len(buf') \in Nat
    BY <1>2, <1>5, <1>6, <1>9 DEF ListFits
  <2>2. Len(buf) <= 3 * n
    BY <1>2, <2>1 DEF ListFits
  <2> QED
    BY <1>4, <1>9, <2>1, <2>2 DEF ListFits
<1>11. PICK g2 : Places(g2, Written', buf')
  <2>1. buf \in Seq(Nat)
    BY <1>2 DEF ListFits
  <2> QED
    BY <1>1, <1>4, <1>5, <1>6, <1>9, <2>1, PlacesGrow
<1> DEFINE h2 == [i \in 0..(n + 1) |-> IF i = n + 1 THEN h[n] + len ELSE h[i]]
<1>12. Totals(h2, asked')
  <2>1. h \in [0..n -> Nat] /\ h[0] = 0 /\ (\A i \in 1..n : h[i] = h[i - 1] + asked[i])
        /\ \A i \in 0..n : i < n => h[i] < h[n]
    BY <1>1 DEF Totals
  <2>2. h2 \in [0..(n + 1) -> Nat] /\ h2[0] = 0 /\ h2[n + 1] = h[n] + len
        /\ \A i \in 0..n : h2[i] = h[i]
    BY <1>4, <2>1
  <2> HIDE DEF h2
  <2>3. ASSUME NEW i \in 1..(n + 1) PROVE h2[i] = h2[i - 1] + asked'[i]
    <3>1. CASE i = n + 1
      BY <1>4, <1>7, <2>1, <2>2, <3>1
    <3>2. CASE i # n + 1
      <4>1. i \in 1..n /\ i \in 0..n /\ i - 1 \in 0..n
        BY <1>4, <3>2
      <4> QED
        BY <1>7, <2>1, <2>2, <4>1
    <3> QED
      BY <3>1, <3>2
  <2>4. ASSUME NEW i \in 0..(n + 1), i < n + 1 PROVE h2[i] < h2[n + 1]
    <3>1. i \in 0..n /\ n \in 0..n /\ h[i] \in Nat /\ h[n] \in Nat
      BY <1>4, <2>1, <2>4
    <3>2. h[i] <= h[n]
      BY <1>4, <2>1, <3>1
    <3> QED
      BY <1>4, <2>2, <3>1, <3>2
  <2> QED
    BY <1>7, <2>2, <2>3, <2>4 DEF Totals
<1>13. \A e, f : AtCode(e, f)'
  BY <1>1, <1>3 DEF AtCode
<1> QED
  BY <1>8, <1>10, <1>11, <1>12, <1>13 DEF ListInd

LEMMA ListEnd ==
  ASSUME ListInd, NEW r \in Rests, EndList(r)
  PROVE  ListInd'
<1> DEFINE n == Len(asked)
<1>1. PICK g, h : Places(g, Written, buf) /\ Totals(h, asked) /\ AtCode(g, h)
  BY DEF ListInd
<1>2. AskedFor /\ ListFits
  BY DEF ListInd
<1>3. /\ lLeft = -1 /\ (asked # <<>> \/ r # 0) /\ Put(0)
      /\ rest' = r /\ lLeft' = TotalOf(asked) + r
      /\ UNCHANGED <<blockSize, asked, lNext, blocks, lDone>>
  BY DEF EndList
<1>4. n \in Nat /\ asked \in Seq(Nat) /\ r \in Nat /\ (n = 0 => asked = <<>>)
  BY <1>2, AskedSmall, LensAssumption
<1>5. h \in [0..n -> Nat] /\ h[0] = 0 /\ (\A i \in 1..n : h[i] = h[i - 1] + asked[i])
      /\ \A i \in 0..n : i < n => h[i] < h[n]
  BY <1>1 DEF Totals
<1>6. TotalOf(asked) = h[n]
  <2>1. h \in [0..n -> Int]
    BY <1>5
  <2> QED
    BY <1>4, <1>5, <2>1, SumIs
<1>7. lLeft' = h[n] - h[0] + r /\ lLeft' > 0 /\ lLeft' \in Int /\ lLeft' # -1
  BY <1>3, <1>4, <1>5, <1>6
<1>8. Written = asked /\ Written' = Append(asked, 0)
  BY <1>3, <1>7 DEF Written
<1>9. /\ room' \in 16..MaxSize /\ buf' = buf \o Code(0) /\ buf' \in Seq(Nat)
      /\ Len(buf') <= room' /\ Len(buf') <= Len(buf) + 3
  <2>1. Len(buf) + 3 <= MaxSize
    <3>1. Len(buf) <= 3 * n /\ Len(buf) \in Nat /\ n <= MaxLens(blockSize)
      BY <1>2, <1>8 DEF ListFits, AskedFor
    <3> QED
      BY <1>2, <1>4, <3>1, AskedSmall, Sizes
  <2> QED
    BY <1>2, <1>3, <2>1, PutFits DEF ListFits
<1>10. ListFits'
  <2>1. Len(Written') = n + 1 /\ Len(Written) = n /\ Len(buf) \in Nat /\ Len(buf') \in Nat
    BY <1>2, <1>4, <1>8, <1>9 DEF ListFits
  <2>2. Len(buf) <= 3 * n
    BY <1>2, <2>1 DEF ListFits
  <2> QED
    BY <1>4, <1>9, <2>1, <2>2 DEF ListFits
<1>11. PICK g2 : Places(g2, Written', buf')
  <2>1. buf \in Seq(Nat)
    BY <1>2 DEF ListFits
  <2> QED
    BY <1>1, <1>4, <1>8, <1>9, <2>1, PlacesGrow
<1>12. AskedFor'
  BY <1>2, <1>3, <1>4, <1>7 DEF AskedFor
<1>13. Totals(h, asked')
  BY <1>1, <1>3 DEF Totals
<1>14. AtCode(g2, h)'
  <2>1. blocks' = <<>> /\ lNext' = 0 /\ ~lDone' /\ asked' = asked
    BY <1>1, <1>3 DEF AtCode
  <2>2. g2[0] = 0
    BY <1>11 DEF Places
  <2>3. blocks' \in Seq(Nat) /\ Len(blocks') = 0
    BY <2>1
  <2> QED
    BY <1>3, <1>4, <1>7, <2>1, <2>2, <2>3 DEF AtCode
<1> QED
  BY <1>10, <1>11, <1>12, <1>13, <1>14 DEF ListInd

LEMMA ListBlock ==
  ASSUME ListInd, Block
  PROVE  ListInd'
<1> DEFINE n == Len(asked)
           j == Len(blocks)
<1>1. PICK g, h : Places(g, Written, buf) /\ Totals(h, asked) /\ AtCode(g, h)
  BY DEF ListInd
<1>2. AskedFor /\ ListFits
  BY DEF ListInd
<1>3. /\ lLeft # -1 /\ ~lDone
      /\ lLeft' = lLeft - Decoded.len /\ lNext' = lNext + Decoded.bytes
      /\ blocks' = Append(blocks, Decoded.len) /\ lDone' = (lLeft' = 0)
      /\ UNCHANGED <<blockSize, asked, rest, buf, room>>
  BY DEF Block
<1>4. n \in Nat /\ asked \in Seq(Nat) /\ rest \in Nat /\ \A i \in 1..n : asked[i] \in 1..Codable
  BY <1>2, AskedSmall DEF AskedFor
<1>5. /\ blocks \in Seq(Nat) /\ j \in Nat /\ j <= n
      /\ \A i \in 1..j : blocks[i] = asked[i]
      /\ lNext = g[j] /\ lLeft > 0 /\ lLeft = h[n] - h[j] + rest
  BY <1>1, <1>3 DEF AtCode
<1>6. h \in [0..n -> Nat] /\ (\A i \in 1..n : h[i] = h[i - 1] + asked[i])
      /\ \A i \in 0..n : i < n => h[i] < h[n]
  BY <1>1 DEF Totals
<1>7. Written = Append(asked, 0) /\ Len(Written) = n + 1 /\ Written[n + 1] = 0
      /\ \A i \in 1..n : Written[i] = asked[i]
  BY <1>3, <1>4 DEF Written
<1>8. \A i \in 1..(n + 1) :
        /\ g[i] = g[i - 1] + Len(Code(Written[i]))
        /\ \A k \in 1..Len(Code(Written[i])) : buf[g[i - 1] + k] = Code(Written[i])[k]
  BY <1>1, <1>7 DEF Places
<1>9. j + 1 \in 1..(n + 1) /\ (j + 1) - 1 = j
  BY <1>4, <1>5
<1>10. \A i \in 1..(j + 1) : i \in 1..j \/ i = j + 1
  BY <1>5
<1>11. CASE j < n
  <2>1. j + 1 \in 1..n /\ j \in 0..n /\ j + 1 \in 0..n /\ n \in 0..n
    BY <1>4, <1>5, <1>11
  <2>2. asked[j + 1] \in 1..Codable /\ Written[j + 1] = asked[j + 1]
    BY <1>4, <1>7, <2>1
  <2>3. Decoded = [len |-> asked[j + 1], bytes |-> Len(Code(asked[j + 1]))]
    BY <1>5, <1>8, <1>9, <2>2, DecodedIs
  <2>4. lNext' = g[j + 1]
    BY <1>3, <1>5, <1>8, <1>9, <2>2, <2>3
  <2>5. blocks' = Append(blocks, asked[j + 1]) /\ blocks' \in Seq(Nat) /\ Len(blocks') = j + 1
        /\ \A i \in 1..(j + 1) : blocks'[i] = asked[i]
    <3>1. blocks' = Append(blocks, asked[j + 1]) /\ asked[j + 1] \in Nat
      BY <1>3, <2>2, <2>3
    <3>2. blocks' \in Seq(Nat) /\ Len(blocks') = j + 1 /\ blocks'[j + 1] = asked[j + 1]
          /\ \A i \in 1..j : blocks'[i] = blocks[i]
      BY <1>5, <3>1
    <3> QED
      BY <1>5, <1>10, <3>1, <3>2
  <2>6. h[j] \in Nat /\ h[n] \in Nat /\ h[j + 1] \in Nat /\ h[j + 1] = h[j] + asked[j + 1]
    BY <1>6, <1>9, <2>1
  <2>7. lLeft' = h[n] - h[j + 1] + rest /\ lLeft' \in Nat /\ (j + 1 < n => lLeft' > 0)
        /\ (j + 1 = n => lLeft' = rest)
    <3>1. lLeft' = (h[n] - h[j] + rest) - asked[j + 1]
      BY <1>3, <1>5, <2>3
    <3>2. j + 1 < n => h[j + 1] < h[n]
      BY <1>6, <2>1
    <3>3. asked[j + 1] \in Nat /\ asked[j + 1] > 0 /\ rest \in Nat
      BY <1>4, <2>2, CodableIs
    <3>4. lLeft' = h[n] - h[j + 1] + rest
      BY <2>6, <3>1, <3>3
    <3>5. j + 1 < n \/ j + 1 = n
      BY <1>4, <1>5, <1>11
    <3> QED
      BY <2>6, <3>2, <3>3, <3>4, <3>5
  <2>8. AtCode(g, h)'
    <3>1. CASE lLeft' = 0
      <4>1. j + 1 = n /\ rest = 0
        BY <1>4, <1>5, <1>11, <2>7, <3>1
      <4>2. blocks' = asked
        BY <1>4, <2>5, <4>1
      <4>3. blocks' = asked \o <<>>
        BY <1>4, <4>2
      <4>4. lLeft' # -1 /\ asked' = asked /\ rest' = 0
        BY <1>3, <3>1, <4>1
      <4>5. lDone'
        BY <1>3, <3>1, Zenon
      <4> QED
        BY <3>1, <4>3, <4>4, <4>5 DEF AtCode
    <3>2. CASE lLeft' # 0
      <4>1. lLeft' > 0 /\ lLeft' # -1 /\ asked' = asked /\ rest' = rest
        BY <1>3, <2>7, <3>2
      <4>2. ~lDone'
        BY <1>3, <3>2, Zenon
      <4>3. j + 1 <= n /\ lLeft' = h[n] - h[j + 1] + rest
        BY <1>4, <1>5, <1>11, <2>7
      <4> QED
        BY <2>4, <2>5, <4>1, <4>2, <4>3 DEF AtCode
    <3> QED
      BY <3>1, <3>2
  <2>9. lLeft' # -1 /\ lLeft' \in Int
    BY <2>7
  <2> QED
    <3>1. AskedFor'
      BY <1>2, <1>3, <2>9 DEF AskedFor
    <3>2. Written' = Written
      BY <1>3, <2>9 DEF Written
    <3>3. ListFits'
      BY <1>2, <1>3, <3>2 DEF ListFits
    <3>4. Places(g, Written', buf') /\ Totals(h, asked')
      BY <1>1, <1>3, <3>2 DEF Totals
    <3> QED
      BY <2>8, <3>1, <3>3, <3>4 DEF ListInd
<1>12. CASE j = n
  <2>1. lLeft = rest /\ rest > 0 /\ h[n] \in Nat
    <3>1. n \in 0..n
      BY <1>4
    <3> QED
      BY <1>4, <1>5, <1>6, <1>12, <3>1
  <2>2. buf[lNext + 1] = 128
    <3>1. Code(Written[j + 1]) = <<128>>
      BY <1>7, <1>12, CodeEnd
    <3>2. 1 \in 1..Len(Code(Written[j + 1])) /\ Code(Written[j + 1])[1] = 128
      BY <3>1
    <3> QED
      BY <1>5, <1>8, <1>9, <3>2
  <2>3. Decoded = [len |-> rest, bytes |-> 1]
    BY <2>1, <2>2, DecodedEnd
  <2>4. lLeft' = 0 /\ lDone' /\ blocks' = Append(blocks, rest)
    <3>1. Decoded.len = rest
      BY <2>3
    <3>2. lLeft' = lLeft - rest /\ blocks' = Append(blocks, rest)
      BY <1>3, <3>1
    <3>3. lLeft' = 0
      BY <1>4, <2>1, <3>2
    <3> QED
      BY <1>3, <3>2, <3>3
  <2>5. blocks' = asked \o <<rest>>
    <3>1. blocks = asked
      BY <1>4, <1>5, <1>12
    <3> QED
      BY <1>4, <2>4, <3>1
  <2>6. AtCode(g, h)'
    BY <1>3, <2>1, <2>4, <2>5 DEF AtCode
  <2>7. AskedFor'
    BY <1>2, <1>3, <2>4 DEF AskedFor
  <2>8. Written' = Written
    BY <1>3, <2>4 DEF Written
  <2>9. ListFits'
    BY <1>2, <1>3, <2>8 DEF ListFits
  <2>10. Places(g, Written', buf') /\ Totals(h, asked')
    BY <1>1, <1>3, <2>8 DEF Totals
  <2> QED
    BY <2>6, <2>7, <2>9, <2>10 DEF ListInd
<1> QED
  BY <1>4, <1>5, <1>11, <1>12

(* compress_thread() makes the blocks that were asked for, and the list    *)
(* stays inside its buffer, for any distances between hits, any block size *)
(* that -b takes, and a size_t of any width.                               *)
THEOREM ListRight == LensSpec => []BlocksAsAsked
<1>1. ListInd /\ [LensNext]_lensVars => ListInd'
  <2> SUFFICES ASSUME ListInd, [LensNext]_lensVars PROVE ListInd'
    OBVIOUS
  <2>1. ASSUME NEW len \in Gaps, Append1(len) PROVE ListInd'
    BY <2>1, ListAppend
  <2>2. ASSUME NEW r \in Rests, EndList(r) PROVE ListInd'
    BY <2>2, ListEnd
  <2>3. CASE Block
    BY <2>3, ListBlock
  <2>4. CASE UNCHANGED lensVars
    <3>1. AskedFor' /\ Written' = Written /\ buf' = buf
      BY <2>4 DEF ListInd, lensVars, AskedFor, Written
    <3>2. ListFits'
      BY <2>4, <3>1 DEF ListInd, lensVars, ListFits
    <3>3. ASSUME NEW g, NEW h, Totals(h, asked), AtCode(g, h)
          PROVE  Totals(h, asked') /\ AtCode(g, h)'
      BY <2>4, <3>3 DEF lensVars, Totals, AtCode
    <3> QED
      BY <3>1, <3>2, <3>3 DEF ListInd
  <2> QED
    BY <2>1, <2>2, <2>3, <2>4 DEF LensNext, ListDone
<1>2. ListInd => BlocksAsAsked
  <2> SUFFICES ASSUME ListInd PROVE BlocksAsAsked
    OBVIOUS
  <2>1. AskedFor /\ ListFits
    BY DEF ListInd
  <2>2. lDone => blocks = asked \o (IF rest = 0 THEN <<>> ELSE <<rest>>)
    BY DEF ListInd, AtCode
  <2>3. \A i \in DOMAIN asked : asked[i] <= Codable /\ asked[i] \in Int
    <3>1. asked \in Seq(Nat) /\ \A i \in 1..Len(asked) : asked[i] \in 1..Codable
      BY <2>1, AskedSmall
    <3>2. DOMAIN asked = 1..Len(asked)
      BY <3>1
    <3> QED
      BY <3>1, <3>2, CodableIs
  <2>4. Len(buf) <= room
    BY <2>1 DEF ListFits
  <2> QED
    BY <2>2, <2>3, <2>4, CodableIs, SMT DEF BlocksAsAsked
<1> QED
  BY <1>1, <1>2, ListInit, PTL DEF LensSpec
=============================================================================
