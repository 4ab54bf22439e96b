------------------------------ MODULE EncoderMt ------------------------------
(***************************************************************************)
(* The multi-threaded .xz encoder of liblzma (stream_encoder_mt.c) with    *)
(* its ring of output buffers (outqueue.c).  main, the thread that calls   *)
(* lzma_code(), cuts the input into blocks and gives each to a worker and  *)
(* a buffer of the ring; the workers encode, mark their buffer finished    *)
(* and put themselves on the stack of free threads; main copies finished   *)
(* buffers to the output in the order of the ring.                         *)
(*                                                                         *)
(* A mythread_sync is one step, up to a wait in it.  Each condition        *)
(* variable has at most one sleeper besides the one who signals, so that a *)
(* signal wakes it if it is there.  Data is abstracted to positions: a     *)
(* block is a piece of the input, and takes three units of output, so that *)
(* it can be read in part.                                                 *)
(***************************************************************************)
EXTENDS Integers, Sequences, FiniteSets, FiniteSetsExt, Functions

CONSTANTS
  MaxThreads,  \* bound: the number of threads is up to this
  BlockSize,   \* block_size, for all streams
  Plans,       \* bounds: the input and the errors of each stream of a run
  Rooms,       \* room for output that a call may have
  Reuses       \* when the encoder may be initialized again as it is

ASSUME EncoderAssumption ==
  /\ {MaxThreads, BlockSize} \subseteq Nat \ {0}
  /\ Plans \subseteq Seq([input : Nat, errors : Nat]) /\ Plans # {} /\ IsFiniteSet(Plans)
  /\ Rooms \subseteq Nat \ {0}
  /\ Reuses \subseteq {"end", "error", "midway"}

Threads == 1..MaxThreads
Bounds == UNION {Range(p) : p \in Plans}
MostInput == Max({0} \union {b.input : b \in Bounds})
MostStreams == Max({Len(p) : p \in Plans})
BlockOf(s, lo, hi) == [stream |-> s, lo |-> lo, hi |-> hi]
NoBlock == BlockOf(0, 0, 0)
Actions == {"RUN", "FULL_FLUSH", "FULL_BARRIER", "FINISH"}

VARIABLES
  \* the application
  plan,        \* the bounds of its streams
  stream,      \* the streams so far
  given,       \* input made available
  marks,       \* where it asked for the end of a block
  action, room,
  result,      \* what the last call returned
  faults,      \* errors so far
  \* lzma_coder
  max,         \* threads_max
  initialized, \* threads_initialized
  sequence,    \* SEQ_BLOCK, or SEQ_INDEX with what follows
  inPos,       \* input used
  thr,         \* the worker that is given input, or 0
  free,        \* threads_free, the top first
  threadError, \* thread_error # LZMA_OK
  written,     \* the blocks in the output
  index,       \* the blocks with a record in the index
  \* lzma_outq
  bufs, bufsAllocated, bufsPos, bufsUsed, readPos,
  \* worker_thread: state, where in the input its block is, outbuf
  state, lo, inSize, outbuf,
  \* where main is, and the workers, with their copies of state and in_size
  mpc, idx, wpc, wstate, wsize

appVars == <<plan, stream, given, marks, action, room, result, faults>>
outq == <<bufs, bufsAllocated, bufsPos, bufsUsed, readPos>>
thrVars == <<state, lo, inSize, outbuf>>
wVars == <<wpc, wstate, wsize>>
vars == <<appVars, max, initialized, sequence, inPos, thr, free, threadError,
          written, index, outq, thrVars, mpc, idx, wVars>>

Ring == 0..(2 * MaxThreads - 1)

(* Memory as malloc() returns it.                                          *)
Unset == [finished |-> "unset", block |-> NoBlock]

Init ==
  /\ plan \in Plans /\ stream = 0 /\ given = 0 /\ marks = {} /\ action = "RUN" /\ room = 0
  /\ result = "end" /\ faults = 0
  /\ max = 0 /\ initialized = 0
  /\ sequence = "block" /\ inPos = 0 /\ thr = 0 /\ free = <<>>
  /\ threadError = FALSE /\ written = <<>> /\ index = <<>>
  /\ bufs = [i \in Ring |-> Unset] /\ bufsAllocated = 0
  /\ bufsPos = 0 /\ bufsUsed = 0 /\ readPos = 0
  /\ state = [w \in Threads |-> "IDLE"] /\ lo = [w \in Threads |-> 0]
  /\ inSize = [w \in Threads |-> 0] /\ outbuf = [w \in Threads |-> 0]
  /\ mpc = "app" /\ idx = 0
  /\ wpc = [w \in Threads |-> "none"] /\ wstate = [w \in Threads |-> "IDLE"]
  /\ wsize = [w \in Threads |-> 0]

-----------------------------------------------------------------------------
(* Sleeping and signals                                                    *)

Asleep == [idle |-> "idle_wait", more |-> "more_wait", whole |-> "whole_wait"]

Woken(pc, w) ==
  IF \E s \in DOMAIN Asleep : Asleep[s] = pc[w]
  THEN [pc EXCEPT ![w] = CHOOSE s \in DOMAIN Asleep : Asleep[s] = pc[w]]
  ELSE pc

(* Not the code: the coder's condition variable is not signalled.          *)
MainWokenNot == mpc

(* A signal of the coder's condition variable, and of that of worker w.    *)
MainWoken == IF mpc = "work_wait" THEN "work" ELSE mpc
MainWokenBy(w) == IF mpc = "settle_wait" /\ idx = w THEN "settle" ELSE mpc

SpuriousWake ==
  /\ \/ \E w \in 1..initialized : wpc' = Woken(wpc, w) /\ wpc' # wpc /\ UNCHANGED mpc
     \/ mpc' = MainWoken /\ mpc' # mpc /\ UNCHANGED wpc
     \/ mpc' = MainWokenBy(idx) /\ mpc' # mpc /\ UNCHANGED wpc
  /\ UNCHANGED <<appVars, max, initialized, sequence, inPos, thr, free,
                 threadError, written, index, outq, thrVars, idx, wstate, wsize>>

-----------------------------------------------------------------------------
(* The output queue: outqueue.c, outqueue.h                                *)

HasBuf == bufsUsed < bufsAllocated
Oldest == bufsPos - bufsUsed + (IF bufsPos < bufsUsed THEN bufsAllocated ELSE 0)

(* lzma_outq_is_readable(), which looks at a buffer even when none is used *)
ReadableSet == CASE bufs[Oldest].finished = "yes" -> {TRUE}
                 [] bufs[Oldest].finished = "no" -> {FALSE}
                 [] OTHER -> BOOLEAN

NextPos(p) == IF p + 1 = bufsAllocated THEN 0 ELSE p + 1

GetBuf(w) ==
  /\ outbuf' = [outbuf EXCEPT ![w] = bufsPos]
  /\ bufs' = [bufs EXCEPT ![bufsPos] = [finished |-> "no", block |-> NoBlock]]
  /\ bufsPos' = NextPos(bufsPos)
  /\ bufsUsed' = bufsUsed + 1
  /\ UNCHANGED <<bufsAllocated, readPos>>

(* lzma_outq_read(): as much of the oldest buffer as there is room for.    *)
BlockUnits == 3

(* Not the code: the oldest buffer is read without a look at its flag.     *)
NothingToReadUsed == bufsUsed = 0

NothingToRead == bufsUsed = 0 \/ bufs[Oldest].finished # "yes"

OutqRead ==
  LET n == Min({BlockUnits - readPos, room})
  IN  /\ room' = room - n
      /\ IF readPos + n = BlockUnits
         THEN /\ bufsUsed' = bufsUsed - 1 /\ readPos' = 0
              /\ bufs' = [bufs EXCEPT ![Oldest].block = NoBlock]
              /\ written' = Append(written, bufs[Oldest].block)
         ELSE readPos' = readPos + n /\ UNCHANGED <<bufs, bufsUsed, written>>
      /\ UNCHANGED <<bufsAllocated, bufsPos>>

-----------------------------------------------------------------------------
(* The application                                                         *)

Result(r) == result' = r /\ mpc' = "app"

(* lzma_code() with n more bytes of input; a flush or finish is called     *)
(* again, with the same input, until it is completed.                      *)
Call(a, n, r) ==
  /\ mpc = "app" /\ max > 0
  /\ \/ result \in {"ok", "timed_out"} /\ (action = "RUN" \/ (a = action /\ n = 0))
     \/ result = "end" /\ action # "FINISH"
  /\ given + n <= plan[stream].input
  /\ given' = given + n
  /\ action' = a /\ room' = r
  /\ marks' = IF a = "RUN" THEN marks ELSE marks \union {given'}
  /\ mpc' = IF sequence = "block" THEN "read" ELSE "index"
  /\ UNCHANGED <<plan, stream, result, faults, max, initialized, sequence, inPos, thr,
                 free, threadError, written, index, outq, thrVars, idx, wVars>>

(* What the application has done with its last stream.                     *)
Situation ==
  IF result = "error" THEN "error"
  ELSE IF result = "end" /\ action = "FINISH" THEN "end" ELSE "midway"

(* lzma_stream_encoder_mt(): with another number of threads the old ones   *)
(* are ended, with the same they are stopped and kept.                     *)
StartStream(m) ==
  /\ mpc = "app" /\ stream < Len(plan)
  /\ m = max => Situation \in Reuses
  /\ stream' = stream + 1
  /\ given' = 0 /\ marks' = {} /\ action' = "RUN" /\ room' = 0 /\ result' = "ok"
  /\ faults' = 0
  /\ sequence' = "block" /\ threadError' = FALSE /\ thr' = 0 /\ inPos' = 0
  /\ mpc' = IF m = max THEN "stop" ELSE "exit"
  /\ max' = m
  /\ idx' = 1
  /\ UNCHANGED <<plan, initialized, free, written, index, outq, thrVars, wVars>>

(* lzma_end(), after which nothing is left                                 *)
EndEncoder ==
  /\ mpc = "app" /\ max > 0
  /\ mpc' = "exit" /\ max' = 0 /\ idx' = 1
  /\ given' = 0 /\ marks' = {} /\ action' = "RUN" /\ room' = 0 /\ result' = "none"
  /\ sequence' = "block" /\ threadError' = FALSE /\ thr' = 0 /\ inPos' = 0
  /\ UNCHANGED <<plan, stream, faults, initialized, free, written, index, outq, thrVars,
                 wVars>>

-----------------------------------------------------------------------------
(* threads_stop() and threads_end()                                        *)

(* One thread is told to stop, or to exit.                                 *)
Tell(pc, s, after) ==
  /\ mpc = pc
  /\ IF idx <= initialized
     THEN /\ state' = [state EXCEPT ![idx] = s]
          /\ wpc' = Woken(wpc, idx)
          /\ idx' = idx + 1
          /\ UNCHANGED mpc
     ELSE /\ mpc' = after /\ idx' = IF after = "app" THEN 0 ELSE 1
          /\ UNCHANGED <<state, wpc>>
  /\ UNCHANGED <<appVars, max, initialized, sequence, inPos, thr, free,
                 threadError, written, index, outq, lo, inSize, outbuf, wstate, wsize>>

(* threads_stop(coder, false) on the way out with an error, and            *)
(* threads_stop(coder, true)                                               *)
TellStop == Tell("stop_error", "STOP", "app") \/ Tell("stop", "STOP", "settle")
TellExit == Tell("exit", "EXIT", "join")

(* lzma_outq_init(), with the buffers it has or others, and an empty index *)
OutqInit(b) ==
  /\ bufs' = b
  /\ bufsAllocated' = 2 * max
  /\ written' = <<>> /\ index' = <<>>
  /\ bufsPos' = 0 /\ bufsUsed' = 0 /\ readPos' = 0

(* threads_stop() waits for each thread to be idle.                        *)
Settle ==
  /\ mpc = "settle"
  /\ IF idx > initialized
     THEN mpc' = "app" /\ idx' = 0 /\ OutqInit(bufs)
     ELSE /\ IF state[idx] = "IDLE" THEN idx' = idx + 1 /\ UNCHANGED mpc
             ELSE mpc' = "settle_wait" /\ UNCHANGED idx
          /\ UNCHANGED <<outq, written, index>>
  /\ UNCHANGED <<appVars, max, initialized, sequence, inPos, thr, free,
                 threadError, thrVars, wVars>>

(* threads_end() joins each thread and frees it.                           *)
Join ==
  /\ mpc = "join"
  /\ IF idx <= initialized
     THEN /\ wpc[idx] = "exited"
          /\ wpc' = [wpc EXCEPT ![idx] = "none"]
          /\ idx' = idx + 1
          /\ UNCHANGED <<initialized, free, mpc, outq, written, index>>
     ELSE /\ initialized' = 0 /\ free' = <<>>
          /\ OutqInit([i \in Ring |-> Unset])
          /\ mpc' = "app" /\ idx' = 0
          /\ UNCHANGED wpc
  /\ UNCHANGED <<appVars, max, sequence, inPos, thr, threadError, thrVars,
                 wstate, wsize>>

-----------------------------------------------------------------------------
(* stream_encode_mt()                                                      *)

Fails == result' = "error" /\ mpc' = "stop_error" /\ idx' = 1

(* lzma_index_append() after the last of a block: it fails without memory, *)
(* or if the index gets too large.  With room left main reads on whatever  *)
(* it returned, and the failure is lost; without, the call fails.          *)
EndOfBlock ==
  \/ /\ index' = Append(index, bufs[Oldest].block)
     /\ mpc' = IF room' > 0 THEN "read" ELSE "in"
     /\ UNCHANGED <<faults, result, idx>>
  \/ /\ faults < plan[stream].errors /\ faults' = faults + 1
     /\ IF room' > 0 THEN mpc' = "read" /\ UNCHANGED <<result, idx>> ELSE Fails
     /\ UNCHANGED index

(* Under the coder's mutex: a worker's error, or output to read.           *)
Read ==
  /\ mpc = "read"
  /\ \/ /\ threadError /\ Fails
        /\ UNCHANGED <<room, outq, written, index, faults>>
     \/ /\ ~threadError /\ NothingToRead /\ mpc' = "in"
        /\ UNCHANGED <<room, outq, written, index, faults, result, idx>>
     \/ /\ ~threadError /\ ~NothingToRead /\ OutqRead
        /\ IF bufsUsed' # bufsUsed THEN EndOfBlock
           ELSE mpc' = "in" /\ UNCHANGED <<index, faults, result, idx>>
  /\ UNCHANGED <<plan, stream, given, marks, action, max, initialized, sequence,
                 inPos, thr, free, threadError, thrVars, wVars>>

InputLeft == given > inPos

(* All blocks are in the output: lzma_index_encoder_init(), which may fail,*)
(* and nobody is told to stop.                                             *)
BeginIndex ==
  \/ mpc' = "index" /\ sequence' = "index" /\ UNCHANGED <<result, faults>>
  \/ /\ faults < plan[stream].errors /\ faults' = faults + 1
     /\ Result("error") /\ UNCHANGED sequence

(* See if we should wait or return.                                        *)
Decide ==
  IF ~InputLeft /\ bufsUsed = 0 /\ action = "FINISH" THEN BeginIndex
  ELSE /\ IF ~InputLeft /\ action \in {"RUN", "FULL_BARRIER"}
          THEN Result(IF action = "RUN" THEN "ok" ELSE "end")
          ELSE IF ~InputLeft /\ bufsUsed = 0 THEN Result("end")
          ELSE IF room = 0 THEN Result("ok")
          ELSE mpc' = "work" /\ UNCHANGED result
       /\ UNCHANGED <<sequence, faults>>

(* stream_encode_in() has nothing to do, or cannot go on: no free buffer,  *)
(* or no free thread and none to be made.                                  *)
InDone ==
  /\ mpc = "in"
  /\ \/ ~(InputLeft \/ (thr # 0 /\ action # "RUN"))
     \/ thr = 0 /\ (~HasBuf \/ (free = <<>> /\ initialized = max))
  /\ Decide
  /\ UNCHANGED <<plan, stream, given, marks, action, room, max, initialized, inPos,
                 thr, free, threadError, written, index, outq, thrVars, idx, wVars>>

(* Not the code: the thread stays on the stack.                            *)
PopThreadKept ==
  /\ mpc = "in" /\ InputLeft /\ thr = 0 /\ HasBuf /\ free # <<>>
  /\ thr' = Head(free) /\ UNCHANGED free
  /\ mpc' = "reset"
  /\ UNCHANGED <<appVars, max, initialized, sequence, inPos, threadError, written, index,
                 outq, thrVars, idx, wVars>>

(* get_thread(): from the stack of free threads                            *)
PopThread ==
  /\ mpc = "in" /\ InputLeft /\ thr = 0 /\ HasBuf /\ free # <<>>
  /\ thr' = Head(free) /\ free' = Tail(free)
  /\ mpc' = "reset"
  /\ UNCHANGED <<appVars, max, initialized, sequence, inPos, threadError, written, index,
                 outq, thrVars, idx, wVars>>

(* get_thread(): initialize_new_thread(), which may fail                   *)
NewThread ==
  /\ mpc = "in" /\ InputLeft /\ thr = 0 /\ HasBuf /\ free = <<>> /\ initialized < max
  /\ \/ /\ initialized' = initialized + 1
        /\ thr' = initialized'
        /\ state' = [state EXCEPT ![thr'] = "IDLE"]
        /\ wpc' = [wpc EXCEPT ![thr'] = "idle"]
        /\ mpc' = "reset"
        /\ UNCHANGED <<faults, result, idx>>
     \/ /\ faults < plan[stream].errors /\ faults' = faults + 1
        /\ Fails
        /\ UNCHANGED <<initialized, thr, state, wpc>>
  /\ UNCHANGED <<plan, stream, given, marks, action, room, max, sequence, inPos, free,
                 threadError, written, index, outq, lo, inSize, outbuf, wstate, wsize>>

(* get_thread(): the worker gets a buffer and is told to run.              *)
ResetThread ==
  /\ mpc = "reset"
  /\ state' = [state EXCEPT ![thr] = "RUN"]
  /\ lo' = [lo EXCEPT ![thr] = inPos] /\ inSize' = [inSize EXCEPT ![thr] = 0]
  /\ GetBuf(thr)
  /\ wpc' = Woken(wpc, thr)
  /\ mpc' = "in"
  /\ UNCHANGED <<appVars, max, initialized, sequence, inPos, thr, free,
                 threadError, written, index, idx, wstate, wsize>>

(* Not the code: a block ends only when it is full.                        *)
EndsWhenFull(size, last) == size = BlockSize

(* The block encoder is told to finish: enough input, or no more of it.    *)
EndsBlock(size, last) == size = BlockSize \/ (last /\ action # "RUN")

(* stream_encode_in(): input is copied to the worker's buffer, and the     *)
(* worker is told, unless it has gone idle.                                *)
Put ==
  /\ mpc = "in" /\ thr # 0 /\ (InputLeft \/ action # "RUN")
  /\ LET n == Min({given - inPos, BlockSize - inSize[thr]})
         size == inSize[thr] + n
         finish == EndsBlock(size, inPos + n = given)
     IN  /\ inPos' = inPos + n
         /\ IF state[thr] = "IDLE"
            THEN mpc' = "block_error" /\ UNCHANGED <<state, inSize, thr, wpc>>
            ELSE /\ inSize' = [inSize EXCEPT ![thr] = size]
                 /\ state' = IF finish THEN [state EXCEPT ![thr] = "FINISH"] ELSE state
                 /\ wpc' = Woken(wpc, thr)
                 /\ thr' = IF finish THEN 0 ELSE thr
                 /\ UNCHANGED mpc
  /\ UNCHANGED <<appVars, max, initialized, sequence, free, threadError, written, index,
                 outq, lo, outbuf, idx, wstate, wsize>>

(* The error is what thread_error says.                                    *)
BlockError ==
  /\ mpc = "block_error"
  /\ IF threadError THEN Fails /\ UNCHANGED <<sequence, faults>>
     ELSE Decide /\ UNCHANGED idx
  /\ UNCHANGED <<plan, stream, given, marks, action, room, max, initialized,
                 inPos, thr, free, threadError, written, index, outq, thrVars, wVars>>

(* wait_for_work(), under the coder's mutex                                *)
WaitForWork ==
  /\ mpc = "work"
  /\ \E readable \in ReadableSet :
       mpc' = IF /\ ~InputLeft \/ free = <<>> \/ ~HasBuf
                 /\ ~readable /\ ~threadError
              THEN "work_wait" ELSE "read"
  /\ UNCHANGED <<appVars, max, initialized, sequence, inPos, thr, free,
                 threadError, written, index, outq, thrVars, idx, wVars>>

(* With the option timeout, which may be 0, the wait ends some time.       *)
TimeOut ==
  /\ mpc = "work_wait"
  /\ Result("timed_out")
  /\ UNCHANGED <<plan, stream, given, marks, action, room, faults, max, initialized,
                 sequence, inPos, thr, free, threadError, written, index, outq, thrVars, idx,
                 wVars>>

(* The index and the stream footer, as far as there is room.               *)
EncodeIndex ==
  /\ mpc = "index"
  /\ IF room = 0 THEN Result("ok") ELSE Result("end")
  /\ UNCHANGED <<plan, stream, given, marks, action, room, faults, max, initialized,
                 sequence, inPos, thr, free, threadError, written, index, outq, thrVars, idx,
                 wVars>>

-----------------------------------------------------------------------------
(* worker_start() and worker_encode()                                      *)

(* The thread is idle: it waits for work, and stops if told to.            *)
WorkerIdle(w) ==
  /\ wpc[w] = "idle"
  /\ LET s == IF state[w] = "STOP" THEN "IDLE" ELSE state[w]
     IN  /\ state' = [state EXCEPT ![w] = s]
         /\ mpc' = IF s # state[w] THEN MainWokenBy(w) ELSE mpc
         /\ wstate' = [wstate EXCEPT ![w] = s]
         /\ wsize' = [wsize EXCEPT ![w] = 0]
         /\ wpc' = [wpc EXCEPT ![w] = CASE s = "IDLE" -> "idle_wait"
                                        [] s = "EXIT" -> "exited"
                                        [] OTHER -> "more"]
  /\ UNCHANGED <<appVars, max, initialized, sequence, inPos, thr, free,
                 threadError, written, index, outq, lo, inSize, outbuf, idx>>

(* The buffer gets the block of the input that the worker was given.       *)
Encoded(w) ==
  bufs' = [bufs EXCEPT ![outbuf[w]].block = BlockOf(stream, lo[w], lo[w] + inSize[w])]

(* The block encoder takes its input, ends the block, finds that the       *)
(* output does not fit, or fails.                                          *)
Encode(w) ==
  \/ /\ state[w] = "RUN"
     /\ wpc' = [wpc EXCEPT ![w] = "more"]
     /\ UNCHANGED <<bufs, faults>>
  \/ /\ state[w] = "FINISH"
     /\ Encoded(w)
     /\ wpc' = [wpc EXCEPT ![w] = "settle"]
     /\ UNCHANGED faults
  \/ /\ wpc' = [wpc EXCEPT ![w] = "whole"]
     /\ UNCHANGED <<bufs, faults>>
  \/ /\ faults < plan[stream].errors /\ faults' = faults + 1
     /\ wpc' = [wpc EXCEPT ![w] = "error"]
     /\ UNCHANGED bufs

(* worker_encode() returns when it is asked to stop or exit.               *)
Leave(w) ==
  /\ wpc' = [wpc EXCEPT ![w] = IF state[w] = "EXIT" THEN "exited" ELSE "settle"]
  /\ UNCHANGED <<bufs, faults>>

(* Waiting for more input, or for the end of it; then what there is is     *)
(* encoded, which nobody sees before the buffer is finished.               *)
WorkerMore(w) ==
  /\ wpc[w] = "more"
  /\ IF wsize[w] = inSize[w] /\ state[w] = "RUN"
     THEN /\ wpc' = [wpc EXCEPT ![w] = "more_wait"]
          /\ UNCHANGED <<wstate, wsize, bufs, faults>>
     ELSE /\ wstate' = [wstate EXCEPT ![w] = state[w]]
          /\ wsize' = [wsize EXCEPT ![w] = inSize[w]]
          /\ IF state[w] \in {"STOP", "EXIT"} THEN Leave(w) ELSE Encode(w)
  /\ UNCHANGED <<plan, stream, given, marks, action, room, result, max, initialized,
                 sequence, inPos, thr, free, threadError, written, index, bufsAllocated,
                 bufsPos, bufsUsed, readPos, thrVars, mpc, idx>>

(* The data was incompressible: all of the input is waited for and stored. *)
WorkerWhole(w) ==
  /\ wpc[w] = "whole"
  /\ IF state[w] = "RUN"
     THEN /\ wpc' = [wpc EXCEPT ![w] = "whole_wait"]
          /\ UNCHANGED <<wstate, wsize, bufs, faults>>
     ELSE /\ wstate' = [wstate EXCEPT ![w] = state[w]]
          /\ wsize' = [wsize EXCEPT ![w] = inSize[w]]
          /\ IF state[w] \in {"STOP", "EXIT"} THEN Leave(w)
             ELSE /\ Encoded(w)
                  /\ wpc' = [wpc EXCEPT ![w] = "settle"]
                  /\ UNCHANGED faults
  /\ UNCHANGED <<plan, stream, given, marks, action, room, result, max, initialized,
                 sequence, inPos, thr, free, threadError, written, index, bufsAllocated,
                 bufsPos, bufsUsed, readPos, thrVars, mpc, idx>>

(* worker_error()                                                          *)
WorkerError(w) ==
  /\ wpc[w] = "error"
  /\ threadError' = TRUE
  /\ mpc' = MainWoken
  /\ wstate' = [wstate EXCEPT ![w] = "STOP"]
  /\ wpc' = [wpc EXCEPT ![w] = "settle"]
  /\ UNCHANGED <<appVars, max, initialized, sequence, inPos, thr, free, written, index,
                 outq, thrVars, idx, wsize>>

(* The thread is marked as idle, unless it is to exit.                     *)
WorkerSettle(w) ==
  /\ wpc[w] = "settle"
  /\ IF state[w] = "EXIT" THEN UNCHANGED <<state, mpc>>
     ELSE state' = [state EXCEPT ![w] = "IDLE"] /\ mpc' = MainWokenBy(w)
  /\ wpc' = [wpc EXCEPT ![w] = "return"]
  /\ UNCHANGED <<appVars, max, initialized, sequence, inPos, thr, free,
                 threadError, written, index, outq, lo, inSize, outbuf, idx, wstate, wsize>>

(* Under the coder's mutex: the buffer is finished if it is, and the       *)
(* thread is free again.  What it leaves behind is not used again.         *)
WorkerReturn(w) ==
  /\ wpc[w] = "return"
  /\ bufs' = [bufs EXCEPT ![outbuf[w]].finished =
                IF wstate[w] = "FINISH" THEN "yes" ELSE "no"]
  /\ free' = <<w>> \o free
  /\ mpc' = MainWoken
  /\ wpc' = [wpc EXCEPT ![w] = "idle"]
  /\ wstate' = [wstate EXCEPT ![w] = "IDLE"] /\ wsize' = [wsize EXCEPT ![w] = 0]
  /\ lo' = [lo EXCEPT ![w] = 0] /\ inSize' = [inSize EXCEPT ![w] = 0]
  /\ outbuf' = [outbuf EXCEPT ![w] = 0]
  /\ UNCHANGED <<appVars, max, initialized, sequence, inPos, thr, threadError, written, index,
                 bufsAllocated, bufsPos, bufsUsed, readPos, state, idx>>

Worker(w) ==
  \/ WorkerIdle(w) \/ WorkerMore(w) \/ WorkerWhole(w)
  \/ WorkerError(w) \/ WorkerSettle(w) \/ WorkerReturn(w)

CallStep ==
  \/ Read \/ InDone \/ PopThread \/ NewThread \/ ResetThread \/ Put \/ BlockError
  \/ WaitForWork \/ EncodeIndex
  \/ TellStop \/ TellExit \/ Settle \/ Join

Stopped == mpc = "app" /\ max = 0 /\ UNCHANGED vars

Next ==
  \/ \E a \in Actions, n \in 0..MostInput, r \in Rooms : Call(a, n, r)
  \/ \E m \in Threads : StartStream(m)
  \/ EndEncoder
  \/ CallStep \/ TimeOut \/ SpuriousWake
  \/ \E w \in Threads : Worker(w)
  \/ Stopped

Spec == Init /\ [][Next]_vars

(* Threads that can go on do.                                              *)
FairSpec == Spec /\ WF_vars(CallStep) /\ \A w \in Threads : WF_vars(Worker(w))

(* The application finishes what it has begun to finish.                   *)
FinishingSpec ==
  /\ FairSpec
  /\ WF_vars(action = "FINISH" /\ \E r \in Rooms : Call("FINISH", 0, r))

-----------------------------------------------------------------------------
(* Properties                                                              *)

TypeOK ==
  /\ stream \in 0..MostStreams /\ given \in 0..MostInput /\ inPos \in 0..MostInput
  /\ marks \subseteq 0..MostInput /\ action \in Actions /\ room \in 0..Max(Rooms)
  /\ result \in {"none", "ok", "end", "error", "timed_out"}
  /\ plan \in Plans /\ faults \in 0..Max({0} \union {b.errors : b \in Bounds})
  /\ max \in 0..MaxThreads /\ initialized \in 0..MaxThreads
  /\ threadError \in BOOLEAN /\ sequence \in {"block", "index"}
  /\ thr \in 0..initialized /\ \A k \in DOMAIN free : free[k] \in 1..initialized
  /\ \A i \in Ring : bufs[i].finished \in {"unset", "no", "yes"}
  /\ bufsUsed \in 0..bufsAllocated /\ readPos \in 0..(BlockUnits - 1)
  /\ bufsPos \in 0..bufsAllocated
  /\ state \in [Threads -> {"IDLE", "RUN", "FINISH", "STOP", "EXIT"}]
  /\ wpc \in [Threads -> {"none", "idle", "idle_wait", "more", "more_wait",
                          "whole", "whole_wait", "error", "settle", "return",
                          "exited"}]

Streaming == mpc \notin {"stop", "settle", "settle_wait", "exit", "join"} /\ max > 0

(* Where a block that starts at p has to end: after BlockSize bytes, or    *)
(* where the application asked for it.                                     *)
CutAfter(p) == Min({p + BlockSize} \union {m \in marks : m > p})

(* The blocks in the output are the input cut where it has to be, in       *)
(* order; when a flush or the stream is completed it is all of it, and     *)
(* when a barrier is, all of the input is with the workers.  The index has *)
(* the same blocks as long as nothing in the stream has failed.            *)
OutputIsInput ==
  LET end(k) == IF k = 0 THEN 0 ELSE written[k].hi
  IN  Streaming =>
        /\ \A k \in DOMAIN written :
             written[k] = BlockOf(stream, end(k - 1), CutAfter(end(k - 1)))
        /\ mpc = "app" /\ result = "end" =>
             /\ inPos = given
             /\ action # "FULL_BARRIER" => end(Len(written)) = given
        /\ faults = 0 => index = written

(* While a stream is encoded without error every thread is accounted for:  *)
(* it is on the stack of free threads, once, or is the one main gives      *)
(* input to, or has a block to finish; and each buffer that is not         *)
(* finished is that of one thread.                                         *)
Busy(w) == state[w] \in {"RUN", "FINISH"} \/ wpc[w] \in {"settle", "return"}
OnStack(w) == {k \in DOMAIN free : free[k] = w}
Unfinished == {i \in Ring : \E k \in 1..bufsUsed :
                 i = (Oldest + k - 1) % bufsAllocated /\ bufs[i].finished # "yes"}

ThreadsAccounted ==
  Streaming /\ result # "error" =>
    /\ \A w \in 1..initialized :
         Cardinality(OnStack(w)) =
           IF Busy(w) \/ (mpc = "reset" /\ thr = w) THEN 0 ELSE 1
    /\ ~threadError =>
         {outbuf[w] : w \in {w \in 1..initialized : Busy(w)}} = Unfinished
         /\ Cardinality(Unfinished) = Cardinality({w \in 1..initialized : Busy(w)})

AllBlocks ==
  {BlockOf(s, l, h) : s \in 1..MostStreams, l \in 0..MostInput, h \in 1..MostInput}

Abstract == INSTANCE BlockQueue WITH
  Limit <- 2 * MaxThreads, Waiting <- NoBlock,
  Blocks <- AllBlocks,
  queue <- [k \in 1..bufsUsed |->
              LET b == bufs[(Oldest + k - 1) % bufsAllocated]
              IN  IF b.finished = "yes" THEN b.block ELSE NoBlock]

(* The ring of buffers, with its positions and flags, is a queue whose     *)
(* blocks are finished in any order and read in that of the queue.         *)
Implements == Abstract!Spec

(* Every call of lzma_code(), lzma_stream_encoder_mt() and lzma_end()      *)
(* returns: a signal is not lost, and without a time-out none is needed.   *)
CallsReturn == mpc # "app" ~> mpc = "app"

(* A stream that the application goes on finishing is finished, or fails.  *)
FinishEnds ==
  action = "FINISH" ~> (action # "FINISH" \/ result \in {"end", "error", "none"})
=============================================================================
