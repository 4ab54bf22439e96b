----------------------------- MODULE Threading -----------------------------
(***************************************************************************)
(* The same input compressed twice: by parallel_compress() (ParallelBlocks)*)
(* and then by single_compress() (SingleBlocks), to compare what the two   *)
(* make of it.  The change log says of 2.2.3: "Have rsyncable compression  *)
(* be independent of threading" (pigz.c:138).                              *)
(***************************************************************************)
EXTENDS ParallelBlocks, Checks

VARIABLES
  starts,    \* where the jobs of parallel_compress() start
  check,     \* the check values that write_thread() has combined
  setdict, sPos, inAt, inOff, got, nextAt, start, more, sScan, sLeft, block,
  sEnds, resets, pc

singleVars == <<sPos, inAt, inOff, got, nextAt, start, more, sScan, sLeft,
                block, sEnds, resets, pc>>
bothVars == <<vars, starts, check, setdict, singleVars>>

Single == INSTANCE SingleBlocks WITH
  pos <- sPos, scan <- sScan, left <- sLeft, ends <- sEnds

(* Two values for bytes, those that hit and the others.                    *)
Bytes(piece) ==
  [i \in 1..Span(piece) |-> IF piece.lo + i \in hits THEN 2 ELSE 1]

(* CHECK(): the values of a piece.                                         *)
CheckOf(piece) ==
  [adler |-> Adler(AdlerNone, Bytes(piece)), crc |-> Crc(CrcNone, Bytes(piece))]

(* COMB()                                                                  *)
Combined(c1, c2, len2) ==
  [adler |-> AdlerComb(c1.adler, c2.adler, len2), crc |-> CrcComb(c1.crc, c2.crc, len2)]

InitBoth == Init /\ Single!Init /\ starts = {} /\ check = CheckOf(Empty(0))

ParallelStep ==
  /\ Turn
  /\ starts' = starts \union {job'.in.lo}
  /\ check' = Combined(check, CheckOf(job'.in), Span(job'.in))
  /\ UNCHANGED <<setdict, singleVars>>

SingleStep ==
  /\ done /\ pc # "done"
  /\ Single!Next
  /\ UNCHANGED <<starts, check, next, hold, left, scan, dict, job, copied, ends,
                 hashed, done, pos>>

StopBoth == done /\ pc = "done" /\ UNCHANGED bothVars

NextBoth == ParallelStep \/ SingleStep \/ StopBoth

BothSpec == InitBoth /\ [][NextBoth]_bothVars

(* What the two compressors copy and move between their buffers stays      *)
(* inside them, and is the input that follows.                             *)
BothStayInside == StaysInside /\ Single!StaysInside

(* The flushed blocks of both end at the cuts that the input alone         *)
(* decides, whatever the number of processors: with -R where the hash hits.*)
(* With -i and without -R they also forget the history at the same places. *)
SameBlocks ==
  pc = "done" =>
    /\ sEnds = Cuts(length, hits) /\ ends = Cuts(length, hits)
    /\ ~setdict /\ ~rsync => resets = starts

(* The trailer that write_thread() makes of the check values of the jobs   *)
(* has that of the whole input, which single_compress() computes, wherever *)
(* the jobs end: an Adler-32 and a CRC-32 alike.                           *)
SameTrailer == pc = "done" => check = CheckOf(Piece(0, length))
=============================================================================
