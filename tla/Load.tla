--------------------------------- MODULE Load ---------------------------------
(***************************************************************************)
(* How pigz reads what it decompresses or lists: load() with its parallel  *)
(* read thread load_read() and two buffers, in_init(), and what process()  *)
(* and list_info() do around them with the descriptor ind, one file after  *)
(* the other until finish_jobs() at the end of the program.                *)
(*                                                                         *)
(* A byte is named by its file and position.  What the decoder does with   *)
(* the input is abstracted to how it uses load(): "whole", up to the end   *)
(* of the input; "leave", up to somewhere (a header that is not one of a   *)
(* compressed file, or junk after the compressed data); "list", a header   *)
(* and then the trailer.  Locks are at the level of LockSpec, and since    *)
(* the value of load_state says whose turn it is, only values are kept.    *)
(***************************************************************************)
EXTENDS Integers, Sequences, FiniteSets

CONSTANTS
  Buf,       \* BUF, the size of an input buffer
  Trailer,   \* the size of the trailer that list_info() looks for
  MaxFiles,  \* bound: the most files of a program
  Programs   \* the sequences of files: length, use, threads (procs > 1), seek

FileType ==
  [length : Nat, use : {"compress", "whole", "leave", "list"}, threads : BOOLEAN, seek : BOOLEAN]

ASSUME LoadAssumption ==
  /\ Buf \in Nat /\ Trailer \in 1..Buf
  /\ MaxFiles \in Nat
  /\ Programs \subseteq Seq(FileType)
  /\ \A p \in Programs : Len(p) <= MaxFiles

VARIABLES
  files,       \* the program's files
  at,          \* the one being processed
  off,         \* the offset of the descriptor ind, or -1 if it is closed
  bufs,        \* in_buf2 (0) and in_buf (1)
  inWhich, inLen, inLeft, inNext,  \* in_next is <<buffer, index>>
  inShort, inEof,
  loadState,   \* which lock load_state points to: that of a file, or 0
  lockVal,     \* the value of each such lock, -1 if it is freed
  rpc, rlock, rwhich, rgot,   \* the read threads, one for each file
  cthreads, caught,           \* compress threads, and what join_all() returns
  taken,       \* the bytes the decoder took from this file
  tail,        \* what list_info() takes for the trailer
  kept,        \* n, the bytes of the trailer kept from the last buffer
  mpc

fileVars == <<files, at, cthreads, caught>>
inVars == <<bufs, inWhich, inLen, inLeft, inNext, inShort, inEof>>
lockVars == <<loadState, lockVal>>
readVars == <<rpc, rlock, rwhich, rgot>>
useVars == <<taken, tail, kept>>
vars == <<fileVars, off, inVars, lockVars, readVars, useVars, mpc>>

MaxOf(a, b) == IF a > b THEN a ELSE b
MinOf(a, b) == IF a < b THEN a ELSE b
Slots == 0..(Buf - 1)
NoByte == <<0, 0>>
file == files[at]

(* Bytes from a buffer, as a sequence.                                     *)
Bytes(b, i, n) == [k \in 1..n |-> b[i + k - 1]]
InBytes(i, n) == Bytes(bufs[inNext[1]], inNext[2] + i, n)

Init ==
  /\ files \in Programs /\ at = 0
  /\ off = -1
  /\ bufs = [w \in {0, 1} |-> [s \in Slots |-> NoByte]]
  /\ inWhich = -1 /\ inLen = 0 /\ inLeft = 0 /\ inNext = <<1, 0>>
  /\ inShort = FALSE /\ inEof = FALSE
  /\ loadState = 0
  /\ lockVal = [f \in 1..MaxFiles |-> 0]
  /\ rpc = [f \in 1..MaxFiles |-> "none"]
  /\ rlock = [f \in 1..MaxFiles |-> 0]
  /\ rwhich = [f \in 1..MaxFiles |-> 0]
  /\ rgot = [f \in 1..MaxFiles |-> 0]
  /\ cthreads = 0 /\ caught = -1
  /\ taken = 0 /\ tail = <<>> /\ kept = -1
  /\ mpc = "next"

Bailed == mpc = "bailed"

-----------------------------------------------------------------------------
(* The read thread                                                         *)

(* possess(load_state), whatever load_state points to by now.  (Of a lock  *)
(* that is freed, the thread is taken to wait forever.)                    *)
ReadPossess(f) ==
  /\ ~Bailed
  /\ rpc[f] = "loop"
  /\ rlock' = [rlock EXCEPT ![f] = loadState]
  /\ rpc' = [rpc EXCEPT ![f] = "wait"]
  /\ UNCHANGED <<fileVars, off, inVars, lockVars, rwhich, rgot, useVars, mpc>>

(* wait_for(load_state, TO_BE, 1), and the arguments of readn()            *)
ReadBegin(f) ==
  /\ ~Bailed
  /\ rpc[f] = "wait"
  /\ lockVal[rlock[f]] = 1
  /\ rwhich' = [rwhich EXCEPT ![f] = IF inWhich # 0 THEN 1 ELSE 0]
  /\ rgot' = [rgot EXCEPT ![f] = 0]
  /\ rpc' = [rpc EXCEPT ![f] = "read"]
  /\ UNCHANGED <<fileVars, off, inVars, lockVars, rlock, useVars, mpc>>

(* A call of read() for up to n bytes into a buffer from slot g on: some   *)
(* of what is there, and nothing only at the end of the file.              *)
Filled(b, g, k) == [s \in Slots |-> IF s \in g..(g + k - 1) THEN <<at, off + s - g>>
                                    ELSE b[s]]
Portions(n) == LET rest == MaxOf(0, file.length - off)
               IN  MinOf(1, MinOf(n, rest))..MinOf(n, rest)

(* One turn of readn(): a full buffer or the end of the file ends it, and  *)
(* a closed descriptor the program, with bail().                           *)
ReadSome(f) ==
  /\ ~Bailed
  /\ rpc[f] = "read"
  /\ IF off = -1
       THEN mpc' = "bailed" /\ UNCHANGED <<off, bufs, rpc, rgot>>
       ELSE \E k \in Portions(Buf - rgot[f]) :
              /\ bufs' = [bufs EXCEPT ![rwhich[f]] = Filled(@, rgot[f], k)]
              /\ off' = off + k
              /\ rgot' = [rgot EXCEPT ![f] = @ + k]
              /\ rpc' = [rpc EXCEPT ![f] =
                           IF k = 0 \/ rgot'[f] = Buf THEN "twist" ELSE "read"]
              /\ UNCHANGED mpc
  /\ UNCHANGED <<fileVars, inWhich, inLen, inLeft, inNext, inShort, inEof,
                 lockVars, rlock, rwhich, useVars>>

(* Not the code: a thread that does not stop at the end of the file.       *)
MoreToReadAlways(n) == TRUE

MoreToRead(n) == n = Buf

(* twist(load_state, TO, 0), and once more if the buffer was filled.       *)
ReadTwist(f) ==
  /\ ~Bailed
  /\ rpc[f] = "twist"
  /\ inLen' = rgot[f]
  /\ lockVal' = [lockVal EXCEPT ![loadState] = 0]
  /\ rpc' = [rpc EXCEPT ![f] = IF MoreToRead(rgot[f]) THEN "loop" ELSE "ended"]
  /\ UNCHANGED <<fileVars, off, bufs, inWhich, inLeft, inNext, inShort, inEof,
                 loadState, rlock, rwhich, rgot, useVars, mpc>>

-----------------------------------------------------------------------------
(* process(), main(): the next file.  Compressing launches compress        *)
(* threads, one here, that stay until finish_jobs().                       *)

Open ==
  /\ mpc = "next" /\ at < Len(files)
  /\ at' = at + 1
  /\ taken' = 0 /\ tail' = <<>> /\ kept' = -1
  /\ IF files[at + 1].use = "compress"
       THEN /\ cthreads' = 1
            /\ UNCHANGED <<off, mpc, inWhich, inLeft, inShort, inEof>>
       ELSE /\ off' = 0 /\ mpc' = "load"
            /\ inWhich' = -1 /\ inLeft' = 0 /\ inShort' = FALSE /\ inEof' = FALSE
            /\ UNCHANGED cthreads
  /\ UNCHANGED <<files, caught, bufs, inLen, inNext, lockVars, readVars>>

(* in_short: nothing more to load.                                         *)
LoadNothing ==
  /\ mpc = "load" /\ inShort
  /\ inEof' = TRUE /\ inLeft' = 0
  /\ mpc' = "loaded"
  /\ UNCHANGED <<fileVars, off, bufs, inWhich, inLen, inNext, inShort, lockVars,
                 readVars, useVars>>

(* With threads, the first time, launch the read thread and ask it for a   *)
(* buffer.                                                                 *)
LoadLaunch ==
  /\ mpc = "load" /\ ~inShort /\ file.threads
  /\ IF inWhich = -1
       THEN /\ inWhich' = 1
            /\ loadState' = at
            /\ lockVal' = [lockVal EXCEPT ![at] = 1]
            /\ rpc' = [rpc EXCEPT ![at] = "loop"]
       ELSE UNCHANGED <<inWhich, lockVars, rpc>>
  /\ mpc' = "wait"
  /\ UNCHANGED <<fileVars, off, bufs, inLen, inLeft, inNext, inShort, inEof, rlock,
                 rwhich, rgot, useVars>>

Other(w) == 1 - w

(* Not the code: no wait for the read that was asked for.                  *)
ReadDoneNot(v) == TRUE

(* wait_for(load_state, TO_BE, 0)                                          *)
ReadDone(v) == v = 0

(* Take the buffer that was read; ask for the next one if it is full.      *)
LoadTake ==
  /\ mpc = "wait"
  /\ ReadDone(lockVal[loadState])
  /\ inNext' = <<IF inWhich # 0 THEN 1 ELSE 0, 0>>
  /\ inLeft' = inLen
  /\ IF inLen = Buf
       THEN /\ inWhich' = Other(inWhich)
            /\ lockVal' = [lockVal EXCEPT ![loadState] = 1]
            /\ mpc' = "loaded"
       ELSE /\ mpc' = "join"
            /\ UNCHANGED <<inWhich, lockVal>>
  /\ UNCHANGED <<fileVars, off, bufs, inLen, inShort, inEof, loadState, readVars,
                 useVars>>

Short == inShort' = TRUE /\ inEof' = (inLeft' = 0)

(* Not the code: the read thread left to itself.                           *)
LoadJoinNot ==
  /\ mpc = "join"
  /\ lockVal' = [lockVal EXCEPT ![loadState] = -1]
  /\ inWhich' = -1 /\ inLeft' = inLeft
  /\ Short
  /\ mpc' = "loaded"
  /\ UNCHANGED <<fileVars, off, bufs, inLen, inNext, loadState, readVars, useVars>>

(* At the end of the file, join the read thread and free the lock.         *)
LoadJoin ==
  /\ mpc = "join"
  /\ rpc[at] = "ended"
  /\ rpc' = [rpc EXCEPT ![at] = "joined"]
  /\ lockVal' = [lockVal EXCEPT ![loadState] = -1]
  /\ inWhich' = -1 /\ inLeft' = inLeft
  /\ Short
  /\ mpc' = "loaded"
  /\ UNCHANGED <<fileVars, off, bufs, inLen, inNext, loadState, rlock, rwhich, rgot,
                 useVars>>

(* Without threads, read a buffer.                                         *)
LoadSingle ==
  /\ mpc = "load" /\ ~inShort /\ ~file.threads
  /\ LET n == MinOf(Buf, file.length - off)
     IN  /\ inLeft' = n
         /\ off' = off + n
         /\ bufs' = [bufs EXCEPT ![1] = Filled(@, 0, n)]
         /\ IF n < Buf THEN Short ELSE UNCHANGED <<inShort, inEof>>
  /\ inNext' = <<1, 0>>
  /\ mpc' = "loaded"
  /\ UNCHANGED <<fileVars, inWhich, inLen, lockVars, readVars, useVars>>

-----------------------------------------------------------------------------
(* The callers of load().                                                  *)

(* GET(): take a byte.                                                     *)
Take ==
  /\ mpc = "loaded" /\ kept = -1 /\ inLeft > 0
  /\ inLeft' = inLeft - 1
  /\ inNext' = [inNext EXCEPT ![2] = @ + 1]
  /\ taken' = taken + 1
  /\ UNCHANGED <<fileVars, off, bufs, inWhich, inLen, inShort, inEof, lockVars,
                 readVars, tail, kept, mpc>>

Again ==
  /\ mpc = "loaded" /\ kept = -1 /\ inLeft = 0 /\ ~inEof
  /\ mpc' = "load"
  /\ UNCHANGED <<fileVars, off, inVars, lockVars, readVars, useVars>>

(* The end of the input, or of what the decoder wants of it, or of the     *)
(* listing: close(ind).                                                    *)
Close ==
  /\ \/ mpc = "listed"
     \/ /\ mpc = "loaded" /\ kept = -1
        /\ \/ inEof \/ file.use = "leave"
           \/ file.use = "list" /\ inShort /\ inLeft < Trailer
  /\ off' = -1
  /\ mpc' = "next"
  /\ UNCHANGED <<fileVars, inVars, lockVars, readVars, useVars>>

(* list_info() has read the header.                                        *)
Listing == mpc = "loaded" /\ kept = -1 /\ file.use = "list" /\ taken > 0 /\ ~inEof

(* The trailer is in the buffer if that is the whole input,                *)
ListShort ==
  /\ Listing /\ inShort /\ inLeft >= Trailer
  /\ tail' = InBytes(inLeft - Trailer, Trailer)
  /\ mpc' = "listed"
  /\ UNCHANGED <<fileVars, off, inVars, lockVars, readVars, taken, kept>>

(* or it is read from the end of a file that can seek,                     *)
ListSeek ==
  /\ Listing /\ ~inShort /\ file.seek
  /\ off' = file.length - Trailer
  /\ mpc' = "seek"
  /\ UNCHANGED <<fileVars, inVars, lockVars, readVars, useVars>>

ListRead ==
  /\ mpc = "seek"
  /\ LET n == MinOf(Trailer, MaxOf(0, file.length - off))
     IN  /\ tail' = [k \in 1..n |-> <<at, off + k - 1>>]
         /\ off' = off + n
  /\ mpc' = "listed"
  /\ UNCHANGED <<fileVars, inVars, lockVars, readVars, taken, kept>>

(* or kept of every buffer of a pipe, until one is not full.               *)
ListKeep ==
  /\ \/ Listing /\ ~inShort /\ ~file.seek
     \/ mpc = "loaded" /\ kept # -1 /\ inLeft = Buf
  /\ kept' = MinOf(inLeft, Trailer)
  /\ tail' = InBytes(inLeft - kept', kept')
  /\ taken' = taken + inLeft
  /\ mpc' = "load"
  /\ UNCHANGED <<fileVars, off, inVars, lockVars, readVars>>

(* Not the code: the trailer in the last buffer, or all of it before.      *)
JoinedTailNot(n) == IF inLeft >= Trailer THEN InBytes(inLeft - Trailer, Trailer) ELSE tail

(* The end of the last buffer, after what is wanted of the one before.     *)
JoinedTail(n) ==
  IF inLeft >= Trailer THEN InBytes(inLeft - Trailer, Trailer)
  ELSE SubSeq(tail, n + inLeft - Trailer + 1, n) \o InBytes(0, inLeft)

ListLast ==
  /\ mpc = "loaded" /\ kept # -1 /\ inLeft < Buf
  /\ tail' = IF kept + inLeft < Trailer THEN <<>> ELSE JoinedTail(kept)
  /\ mpc' = "listed"
  /\ UNCHANGED <<fileVars, off, inVars, lockVars, readVars, taken, kept>>

-----------------------------------------------------------------------------
(* The end of the program: finish_jobs(), if there were jobs, and there    *)
(* join_all(), which joins every thread that is extant.                    *)

Extant == {f \in 1..MaxFiles : rpc[f] \notin {"none", "joined"}}

Finish ==
  /\ mpc = "next" /\ at = Len(files)
  /\ IF cthreads = 0 THEN UNCHANGED <<caught, rpc>>
     ELSE /\ \A f \in Extant : rpc[f] = "ended"
          /\ caught' = cthreads + Cardinality(Extant)
          /\ rpc' = [f \in 1..MaxFiles |-> IF f \in Extant THEN "joined" ELSE rpc[f]]
  /\ mpc' = "done"
  /\ UNCHANGED <<files, at, cthreads, off, inVars, lockVars, rlock, rwhich, rgot,
                 useVars>>

Stopped == mpc \in {"done", "bailed"} /\ UNCHANGED vars

Main ==
  \/ Open \/ LoadNothing \/ LoadLaunch \/ LoadTake \/ LoadJoin \/ LoadSingle
  \/ Take \/ Again \/ Close \/ ListShort \/ ListSeek \/ ListRead \/ ListKeep
  \/ ListLast \/ Finish

Reader(f) == ReadPossess(f) \/ ReadBegin(f) \/ ReadSome(f) \/ ReadTwist(f)

Next == Main \/ (\E f \in 1..MaxFiles : Reader(f)) \/ Stopped

Spec == Init /\ [][Next]_vars

(* Main and the read threads go on when they can.                          *)
FairSpec == Spec /\ WF_vars(Main) /\ \A f \in 1..MaxFiles : WF_vars(Reader(f))

-----------------------------------------------------------------------------

TypeOK ==
  /\ files \in Programs /\ at \in 0..Len(files)
  /\ off \in -1..(IF at = 0 THEN 0 ELSE file.length)
  /\ inWhich \in {-1, 0, 1} /\ {inLen, inLeft} \subseteq 0..Buf
  /\ inNext[1] \in {0, 1} /\ inNext[2] + inLeft \in 0..Buf
  /\ loadState \in 0..MaxFiles
  /\ lockVal \in [1..MaxFiles -> {-1, 0, 1}]
  /\ rpc \in [1..MaxFiles -> {"none", "loop", "wait", "read", "twist", "ended",
                             "joined"}]
  /\ rgot \in [1..MaxFiles -> 0..Buf]
  /\ mpc \in {"next", "load", "wait", "join", "loaded", "seek", "listed", "done",
              "bailed"}

(* load() provides the bytes of the file ind in their order: those in the  *)
(* buffer follow those taken, and the end is where the file ends; and the  *)
(* read thread never fills the buffer that the decoder takes from.         *)
LoadsInd ==
  mpc = "loaded" =>
    /\ \A k \in 1..inLeft : InBytes(0, inLeft)[k] = <<at, taken + k - 1>>
    /\ inEof => taken = file.length
    /\ \A f \in 1..MaxFiles :
         rpc[f] = "read" /\ inLeft > 0 => rwhich[f] # inNext[1]

(* What list_info() takes for the trailer, if it finds one in what follows *)
(* the header, is the end of the file.                                     *)
TrailerIsEnd ==
  mpc = "listed" /\ tail # <<>> =>
    tail = [k \in 1..Trailer |-> <<at, file.length - Trailer + k - 1>>]

(* A file that was read to its end leaves no read thread behind: none      *)
(* reads from the descriptor of another file, waits forever, or is counted *)
(* by join_all(), as assert(caught == cthreads) in finish_jobs() notices.  *)
NoneLeft ==
  /\ mpc \in {"next", "done"} => Extant = {}
  /\ mpc = "done" /\ cthreads # 0 => caught = cthreads

(* The program ends.                                                       *)
Ends == <>(mpc \in {"done", "bailed"})
=============================================================================
