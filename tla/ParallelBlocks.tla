--------------------------- MODULE ParallelBlocks ---------------------------
(***************************************************************************)
(* The loop of parallel_compress() as the main thread goes round it: how   *)
(* the input is read into buffers, cut into jobs and into the flushed      *)
(* blocks of a job, and which dictionary each job is given.  What the      *)
(* other threads do with the jobs is in Compress.                          *)
(***************************************************************************)
EXTENDS Blocks

CONSTANTS
  MaxLength  \* bound: the longest input

ASSUME LengthAssumption == MaxLength \in Nat

VARIABLES
  length,    \* the length of the input
  hits,      \* where the rolling hash hits
  rsync,     \* option -R
  pos,       \* how much was read
  next, hold,  \* the pieces in next->buf and hold->buf (empty for NULL)
  left, scan,
  dict,      \* the dictionary for the next job (empty for NULL)
  job,       \* the last job made: in, dict, more
  copied,    \* the bytes this turn copied from the previous dictionary
  ends,      \* the block boundaries so far
  hashed,    \* the pieces given to the hash, put together
  done

vars == <<length, hits, rsync, pos, next, hold, left, scan, dict, job, copied,
          ends, hashed, done>>

Pieces == [lo : -1..MaxLength, hi : -1..MaxLength]

TypeOK ==
  /\ length \in 0..MaxLength
  /\ hits \subseteq 1..MaxLength
  /\ {rsync, done} \subseteq BOOLEAN
  /\ pos \in 0..length
  /\ {next, hold, dict, job.in, job.dict, hashed} \subseteq Pieces
  /\ job.more \in BOOLEAN
  /\ left \in 0..Size
  /\ scan \in 0..length
  /\ ends \subseteq 0..length

(* readn() into an empty buffer                                            *)
Read(p) == Piece(p, MinOf(p + Size, length))

Init ==
  /\ length \in 0..MaxLength
  /\ rsync \in BOOLEAN
  /\ hits \in SUBSET (1..length)
  /\ ~rsync => hits = {}
  /\ next = Read(0) /\ pos = next.hi
  /\ hold = Empty(pos)
  /\ left = 0 /\ scan = 0
  /\ dict = Empty(0)
  /\ job = [in |-> Empty(0), dict |-> Empty(0), more |-> TRUE]
  /\ copied = 0 /\ ends = {0} /\ hashed = Empty(0)
  /\ done = FALSE

(* One turn of the loop, from the second buffer on.                        *)
Turn ==
  /\ ~done
  /\ LET curr0 == next
         next0 == IF Span(hold) = 0 THEN Read(pos) ELSE hold
         r == IF rsync /\ Span(curr0) # 0
                THEN RsyncTurn(curr0, next0, left, scan, hits)
                ELSE [lens |-> <<>>, scan |-> scan, left |-> left,
                      fed |-> Empty(scan), curr |-> curr0, next |-> next0, tailed |-> FALSE]
         curr == r.curr
         more == r.tailed \/ Span(r.next) # 0
     IN  /\ pos' = IF Span(hold) = 0 THEN next0.hi ELSE pos
         /\ next' = IF r.tailed THEN r.tail ELSE r.next
         /\ hold' = IF r.tailed THEN r.next ELSE Empty(pos')
         /\ left' = r.left /\ scan' = r.scan
         /\ hashed' = Cat(hashed, r.fed)
         /\ job' = [in |-> curr, dict |-> dict, more |-> more]
         /\ dict' = IF more THEN NextDict(curr, dict) ELSE dict
         /\ copied' = IF more /\ Span(curr) < Dict /\ Span(dict) # 0
                        THEN Copied(curr) ELSE 0
         /\ ends' = ends \union BlockEnds(curr, r.lens)
         /\ done' = ~more
  /\ UNCHANGED <<length, hits, rsync>>

Stop == done /\ UNCHANGED vars

Next == Turn \/ Stop

Spec == Init /\ [][Next]_vars

-----------------------------------------------------------------------------

(* The jobs are the input, in order and without gaps, none larger than a   *)
(* buffer or empty (but for the job of an empty input), and "more" tells   *)
(* the last one: so the loop gets on in every turn.                        *)
JobsAreInput ==
  [][ /\ job'.in.lo = job.in.hi
      /\ Span(job'.in) \in (IF length = 0 THEN 0 ELSE 1)..Size
      /\ ~job'.more <=> job'.in.hi = length ]_job

(* Lengths and copies stay inside: a list of block lengths never promises  *)
(* more than the job has, or left would run below zero in                  *)
(* compress_thread(); the buffers that main copies between have no         *)
(* negative length, and a constructed dictionary takes no more than the    *)
(* previous one has.                                                       *)
StaysInside ==
  /\ \A e \in ends : 0 <= e /\ e <= job.in.hi
  /\ Span(next) >= 0 /\ Span(hold) >= 0
  /\ copied <= Span(job.dict)
  /\ Span(dict) <= Size

(* Each job is compressed with the window that a decompressor will have:   *)
(* the bytes right before it, as many as there are up to Dict.             *)
DictionaryIsWindow ==
  job.more \/ done =>
    UsedDict(job.dict) = Piece(job.in.lo - MinOf(job.in.lo, Dict), job.in.lo)

(* The hash sees every byte once and in order, so that hits do not depend  *)
(* on how the input fell into buffers.                                     *)
HashedInOrder == rsync => hashed = Piece(0, scan)
=============================================================================
