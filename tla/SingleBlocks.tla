---------------------------- MODULE SingleBlocks ----------------------------
(***************************************************************************)
(* The loop of single_compress(), used when there is one processor: the    *)
(* same blocks as the main thread of parallel_compress() makes, found with *)
(* two buffers of the same size, in[] and next[], and no jobs.             *)
(***************************************************************************)
EXTENDS Blocks

CONSTANTS
  MaxLength  \* bound: the longest input

VARIABLES
  length,    \* the length of the input
  hits,      \* where the rolling hash hits
  rsync,     \* option -R
  setdict,   \* false for option -i
  pos,       \* how much was read
  inAt, inOff, got,     \* strm->next_in: position, offset in in[], and got
  nextAt, start, more,  \* next[start]: position, offset in next[], and more
  scan, left,           \* the position of the scan and left
  block,                \* bytes since the history was cleared
  ends,      \* the block boundaries so far
  resets,    \* where the history was cleared
  pc

vars == <<length, hits, rsync, setdict, pos, inAt, inOff, got, nextAt, start,
          more, scan, left, block, ends, resets, pc>>

input == <<length, hits, rsync, setdict>>

TypeOK ==
  /\ length \in 0..MaxLength /\ hits \subseteq 1..MaxLength
  /\ {rsync, setdict} \subseteq BOOLEAN
  /\ {pos, inAt, nextAt, scan} \subseteq 0..length
  /\ {inOff, got, start, more, left} \subseteq 0..Size
  /\ block \in 0..Size
  /\ ends \subseteq 0..length /\ resets \subseteq 0..length
  /\ pc \in {"top", "scan", "full", "history", "emit", "done"}

ReadN(p) == MinOf(Size, length - p)

Init ==
  /\ length \in 0..MaxLength
  /\ rsync \in BOOLEAN /\ setdict \in BOOLEAN
  /\ hits \in SUBSET (1..length)
  /\ ~rsync => hits = {}
  /\ pos = ReadN(0)
  /\ inAt = 0 /\ inOff = 0 /\ got = 0
  /\ nextAt = 0 /\ start = 0 /\ more = ReadN(0)
  /\ scan = 0 /\ left = 0 /\ block = 0
  /\ ends = {0} /\ resets = {0}
  /\ pc = "top"

(* The top of the outer loop: with nothing left in in[], go on with next[] *)
(* and read what follows.                                                  *)
Top ==
  /\ pc = "top"
  /\ IF got = 0
       THEN /\ inAt' = nextAt /\ inOff' = start /\ got' = more
            /\ nextAt' = pos /\ start' = 0 /\ more' = ReadN(pos)
            /\ pos' = pos + ReadN(pos)
       ELSE UNCHANGED <<inAt, inOff, got, nextAt, start, more, pos>>
  /\ scan' = inAt'
  /\ left' = IF rsync /\ got' # 0 THEN got' ELSE 0
  /\ pc' = IF rsync /\ got' # 0 THEN "scan" ELSE "history"
  /\ UNCHANGED <<input, block, ends, resets>>

(* Hash up to a hit or to the end of what is in in[].                      *)
Scan ==
  /\ pc = "scan"
  /\ LET found == HitsIn(hits, scan, scan + left)
     IN  IF found = {}
           THEN /\ scan' = scan + left /\ left' = 0
                /\ pc' = "full"
                /\ UNCHANGED got
           ELSE /\ scan' = CHOOSE h \in found : \A g \in found : h <= g
                /\ left' = left - (scan' - scan)
                /\ got' = got - left'
                /\ pc' = "history"
  /\ UNCHANGED <<input, pos, inAt, inOff, nextAt, start, more, block, ends, resets>>

(* Not the code: a flush whenever in[] runs out.                           *)
EndOfBlockAlways == TRUE

(* At the end of in[] without a hit, flush if there is no more input or    *)
(* the buffer is full.                                                     *)
EndOfBlock == more = 0 \/ got = Size

(* How much of next[] goes to in[].                                        *)
Fill(room) == MinOf(more, room)

NewStart(refill, n) == IF refill THEN 0 ELSE start + n

(* The rest of in[] moves to its beginning and next[] fills it up; if that *)
(* empties next[], read it again.                                          *)
Full ==
  /\ pc = "full"
  /\ IF EndOfBlock
       THEN /\ pc' = "history"
            /\ UNCHANGED <<inOff, got, left, nextAt, start, more, pos>>
       ELSE LET n == Fill(Size - got)
                refill == more = n
            IN  /\ inOff' = 0
                /\ left' = n /\ got' = got + n
                /\ more' = IF refill THEN ReadN(pos) ELSE more - n
                /\ start' = NewStart(refill, n)
                /\ nextAt' = IF refill THEN pos ELSE nextAt + n
                /\ pos' = IF refill THEN pos + ReadN(pos) ELSE pos
                /\ pc' = "scan"
  /\ UNCHANGED <<input, inAt, scan, block, ends, resets>>

(* With -i, clear the history when this block does not go with the ones    *)
(* since it was last cleared.                                              *)
History ==
  /\ pc = "history"
  /\ LET clear == ~setdict /\ block + got > Size
     IN  /\ block' = IF setdict THEN block ELSE IF clear THEN got ELSE block + got
         /\ resets' = IF clear THEN resets \union {inAt} ELSE resets
  /\ pc' = "emit"
  /\ UNCHANGED <<input, pos, inAt, inOff, got, nextAt, start, more, scan, left, ends>>

(* Compress the block and go round if there is more.                       *)
Emit ==
  /\ pc = "emit"
  /\ ends' = ends \union {inAt + got}
  /\ inAt' = inAt + got /\ inOff' = inOff + got
  /\ got' = left
  /\ pc' = IF more # 0 \/ left # 0 THEN "top" ELSE "done"
  /\ UNCHANGED <<input, pos, nextAt, start, more, scan, left, block, resets>>

Stop == pc = "done" /\ UNCHANGED vars

Next == Top \/ Scan \/ Full \/ History \/ Emit \/ Stop

Spec == Init /\ [][Next]_vars

-----------------------------------------------------------------------------

(* What is in in[] and next[] fits there, and next[] goes on where in[]    *)
(* ends, so that memcpy() appends the input that follows.                  *)
StaysInside ==
  /\ inOff + got <= Size /\ start + more <= Size
  /\ pc = "full" => nextAt = inAt + got
  /\ pc \in {"scan", "full"} => scan + left = inAt + got
=============================================================================
