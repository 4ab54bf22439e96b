--------------------------------- MODULE Lens ---------------------------------
(***************************************************************************)
(* The list of block lengths that goes with a job when -R is given:        *)
(* append_len() codes each length in one to three bytes in a buffer that   *)
(* grow_space() enlarges, and compress_thread() decodes the list block by  *)
(* block, the length of the last block being what is left of the job.      *)
(***************************************************************************)
EXTENDS Grow, Sequences

CONSTANTS
  BlockSizes,  \* arguments of -b, in K
  Gaps,        \* bound: the distances between hits to try
  Rests,       \* bound: what may follow the last hit
  MaxLens(_)   \* bound: hits in a job, by block size

(* The limits that option -b puts on the block size.                       *)
SizeAllowed(k) == k * 1024 >= 32768 /\ k * 1024 <= 4194304

(* A hit is at least one byte after the one before it.  A list with three  *)
(* bytes for each hit and for its end is shorter than the largest size_t:  *)
(* a job has less than 2^23 bytes.                                         *)
ASSUME LensAssumption ==
  /\ BlockSizes \subseteq Nat /\ Gaps \subseteq Nat \ {0} /\ Rests \subseteq Nat
  /\ \A k \in BlockSizes : SizeAllowed(k) =>
       MaxLens(k * 1024) \in Nat /\ 3 * (MaxLens(k * 1024) + 1) <= MaxSize

VARIABLES
  blockSize, \* the block size
  asked,     \* the lengths appended
  rest,      \* what follows the last hit
  buf,       \* the bytes of the list
  room,      \* the size of the buffer
  lNext,     \* bytes decoded
  lLeft,     \* bytes of the job left, or -1 before it is compressed
  blocks,    \* the lengths decoded
  lDone

lensVars == <<blockSize, asked, rest, buf, room, lNext, lLeft, blocks, lDone>>

TotalOf(s) ==
  LET to[i \in 0..Len(s)] == IF i = 0 THEN 0 ELSE to[i - 1] + s[i]
  IN  to[Len(s)]
Byte(n) == n % 256

LensInit ==
  /\ blockSize \in {k * 1024 : k \in {b \in BlockSizes : SizeAllowed(b)}}
  /\ asked = <<>> /\ rest = 0
  /\ buf = <<>> /\ room = blockSize \div 2048
  /\ lNext = 0 /\ lLeft = -1 /\ blocks = <<>> /\ lDone = FALSE

(* Not the code: the two-byte form one too long.                           *)
CodeOff(len) ==
  IF len < 64 THEN <<Byte(len + 128)>>
  ELSE IF len < 32833 THEN <<Byte((len - 64) \div 256), Byte(len - 64)>>
  ELSE LET l == len - 32832
       IN  <<Byte(l \div 65536 + 192), Byte(l \div 256), Byte(l)>>

Code(len) ==
  IF len < 64 THEN <<Byte(len + 128)>>
  ELSE IF len < 32832 THEN <<Byte((len - 64) \div 256), Byte(len - 64)>>
  ELSE LET l == len - 32832
       IN  <<Byte(l \div 65536 + 192), Byte(l \div 256), Byte(l)>>

Needs(n) == n + 3

(* append_len()                                                            *)
Put(len) ==
  /\ IF room < Needs(Len(buf)) THEN room' \in Grow(room) ELSE UNCHANGED room
  /\ buf' = buf \o Code(len)

Append1(len) ==
  /\ lLeft = -1 /\ Len(asked) < MaxLens(blockSize)
  /\ len <= blockSize
  /\ Put(len)
  /\ asked' = Append(asked, len)
  /\ UNCHANGED <<blockSize, rest, lNext, lLeft, blocks, lDone>>

(* append_len(job, 0), and the job, which is not empty, goes to a compress *)
(* thread.                                                                 *)
EndList(r) ==
  /\ lLeft = -1 /\ (asked # <<>> \/ r # 0)
  /\ Put(0)
  /\ rest' = r
  /\ lLeft' = TotalOf(asked) + r
  /\ UNCHANGED <<blockSize, asked, lNext, blocks, lDone>>

(* What the bytes from position lNext on say, and how many they are.        *)
Decoded ==
  LET b(i) == buf[lNext + i]
  IN  IF b(1) < 128 THEN [len |-> b(1) * 256 + b(2) + 64, bytes |-> 2]
      ELSE IF b(1) = 128 THEN [len |-> lLeft, bytes |-> 1]
      ELSE IF b(1) < 192 THEN [len |-> b(1) % 64, bytes |-> 1]
      ELSE [len |-> (b(1) % 64) * 65536 + b(2) * 256 + 32832 + b(3), bytes |-> 3]

(* One turn of the loop of compress_thread().                              *)
Block ==
  /\ lLeft # -1 /\ ~lDone
  /\ lLeft' = lLeft - Decoded.len
  /\ lNext' = lNext + Decoded.bytes
  /\ blocks' = Append(blocks, Decoded.len)
  /\ lDone' = (lLeft' = 0)
  /\ UNCHANGED <<blockSize, asked, rest, buf, room>>

ListDone == lDone /\ UNCHANGED lensVars

LensNext ==
  \/ \E len \in Gaps : Append1(len)
  \/ \E r \in Rests : EndList(r)
  \/ Block \/ ListDone

LensSpec == LensInit /\ [][LensNext]_lensVars

-----------------------------------------------------------------------------

(* The blocks that compress_thread() makes are those that were asked for,  *)
(* and the rest is the last: no list ends early or runs into what follows. *)
(* The list never runs over its buffer, nor a length over its code: the    *)
(* assertion len < 4227136UL of append_len(), whatever -b allows.          *)
BlocksAsAsked ==
  /\ lDone => blocks = asked \o (IF rest = 0 THEN <<>> ELSE <<rest>>)
  /\ Len(buf) <= room
  /\ \A i \in DOMAIN asked : asked[i] < 4227136
=============================================================================
