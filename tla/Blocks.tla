------------------------------- MODULE Blocks -------------------------------
(***************************************************************************)
(* How pigz cuts its input into blocks and jobs.  Data is abstracted to    *)
(* positions: a piece of input is an interval [lo, hi), and the rolling    *)
(* hash to the set of positions right after which it hits.  The hash       *)
(* depends on nothing but the bytes before the position, so the set is a   *)
(* property of the input as long as every byte is hashed once and in       *)
(* order, which ParallelBlocks and SingleBlocks check.                     *)
(***************************************************************************)
EXTENDS Integers, Sequences, FiniteSets, SequencesExt

CONSTANTS
  Size,      \* block size (option -b)
  Dict       \* DICT, the deflate window

ASSUME BlocksAssumption ==
  /\ Size \in Nat \ {0}
  /\ Dict \in 1..Size

MinOf(a, b) == IF a < b THEN a ELSE b

Piece(lo, hi) == [lo |-> lo, hi |-> hi]
Span(x) == x.hi - x.lo
Empty(pos) == Piece(pos, pos)

(* Two pieces one after the other, if that is what they are.               *)
Broken == Piece(-1, -1)
Cat(x, y) ==
  IF x.lo <= x.hi /\ x.hi = y.lo /\ y.lo <= y.hi /\ x # Broken
    THEN Piece(x.lo, y.hi) ELSE Broken

(* The last n positions of a piece.                                        *)
Suffix(x, n) == Piece(x.hi - n, x.hi)

(* The hits the hash finds from position "from" up to position "to".       *)
HitsIn(hits, from, to) == {h \in hits : from < h /\ h <= to}
LastOf(S, default) == IF S = {} THEN default ELSE CHOOSE h \in S : \A g \in S : g <= h

(* The distances from base to the first hit and from each hit to the next. *)
Lengths(base, S) ==
  LET nth(i) == CHOOSE h \in S : Cardinality({g \in S : g <= h}) = i
  IN  [i \in 1..Cardinality(S) |-> nth(i) - (IF i = 1 THEN base ELSE nth(i - 1))]

(* In next, the scan goes on for what curr has room for.                   *)
ScanEnd(curr, next) == next.lo + MinOf(Size - Span(curr), Span(next))

(* Not the code: nothing moved when curr had the hits.                     *)
MovedNoHit(lens, scanned, inNext, next) ==
  (IF lens = <<>> THEN scanned ELSE next.lo) - next.lo

(* How much of next goes to curr: up to the last hit in it, or all that    *)
(* was scanned if there was no hit in either.                              *)
Moved(lens, scanned, inNext, next) ==
  (IF lens = <<>> THEN scanned ELSE LastOf(inNext, next.lo)) - next.lo

(* Not the code: no test for a hit.                                        *)
TailedNoHit(lens, len, left, next) == len = 0 /\ left # 0 /\ Span(next) # 0

(* There were hits in curr and none in next, and input follows the last.   *)
Tailed(lens, len, left, next) ==
  len = 0 /\ lens # <<>> /\ left # 0 /\ Span(next) # 0

(* Not the code: left forgotten with the tail of curr.                     *)
LeftAfterNone(tailed, left) == 0

LeftAfter(tailed, left) == IF tailed THEN left ELSE 0

(* One turn of the rsync part of the loop of parallel_compress(): curr and *)
(* next are in the buffers, left is the distance from the last hit to the  *)
(* end of curr if the scan has gone on to next, scan is where it is.       *)
(* "lens" is the list of block lengths without the zero that ends it,      *)
(* "tail" what is cut off curr, if anything is, "fed" what was hashed.     *)
RsyncTurn(curr, next, left, scan, hits) ==
  LET inCurr == IF left = 0 THEN HitsIn(hits, scan, curr.hi) ELSE {}
      leftOver == IF left = 0 THEN curr.hi - LastOf(inCurr, curr.lo) ELSE left
      start == IF left = 0 THEN next.lo ELSE scan
      stop == ScanEnd(curr, next)
      inNext == HitsIn(hits, start, stop)
      left2 == IF inNext = {} THEN leftOver ELSE 0
      scan2 == IF start < stop THEN stop ELSE start
      lens == Lengths(curr.lo, inCurr) \o Lengths(next.lo - leftOver, inNext)
      len == Moved(lens, scan2, inNext, next)
      tailed == Tailed(lens, len, left2, next)
  IN  [lens |-> lens,
       scan |-> scan2,
       fed |-> IF left = 0 THEN Cat(Piece(scan, curr.hi), Piece(start, scan2))
               ELSE Piece(start, scan2),
       left |-> LeftAfter(tailed, left2),
       curr |-> IF tailed THEN Piece(curr.lo, curr.hi - left2)
                ELSE Cat(curr, Piece(next.lo, next.lo + len)),
       next |-> Piece(next.lo + len, next.hi),
       tail |-> IF tailed THEN Suffix(curr, left2) ELSE Empty(curr.hi),
       tailed |-> tailed]

(* The positions of the block boundaries of a job: compress_thread()       *)
(* decodes the list and takes what is left as the last block.              *)
BlockEnds(in, lens) ==
  LET end[i \in 0..Len(lens)] == IF i = 0 THEN in.lo ELSE end[i - 1] + lens[i]
  IN  {end[i] : i \in DOMAIN lens} \union {in.hi}

(* The dictionary that parallel_compress() prepares for the next job: curr *)
(* itself, or what comes before it in the dictionary of this job and curr. *)
Copied(curr) == Dict - Span(curr)

(* Not the code: the last job's data, however short.                       *)
NextDictShort(curr, out) == curr

NextDict(curr, out) ==
  IF Span(curr) >= Dict \/ Span(out) = 0 THEN curr
  ELSE Cat(Suffix(out, Copied(curr)), curr)

(* What deflateSetDictionary() is given of a dictionary.                   *)
UsedDict(out) == Suffix(out, MinOf(Span(out), Dict))

(* Where the blocks have to end, whatever cuts them: after a hit, or after *)
(* Size bytes without one, or at the end of the input.                     *)
NextCut(len, hits, c) ==
  LET h == HitsIn(hits, c, c + Size)
  IN  MinOf(len, IF h = {} THEN c + Size ELSE CHOOSE x \in h : \A y \in h : x <= y)

Cuts(len, hits) ==
  LET upto[n \in Nat] ==
        IF n = 0 THEN {0}
        ELSE LET S == upto[n - 1] IN S \union {NextCut(len, hits, LastOf(S, 0))}
  IN  upto[len]
=============================================================================
