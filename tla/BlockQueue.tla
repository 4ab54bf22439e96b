------------------------------ MODULE BlockQueue ------------------------------
(***************************************************************************)
(* What outqueue.h promises the encoder: a queue of limited length whose   *)
(* buffers are filled in any order and read in the order in which they     *)
(* were taken.  A buffer holds Waiting until its block is finished.        *)
(***************************************************************************)
EXTENDS Integers, Sequences

CONSTANTS
  Limit,     \* buffers in the queue: twice the threads
  Blocks,    \* what a buffer may hold
  Waiting    \* a buffer whose block is not finished, not one of them

VARIABLES
  queue,     \* the buffers in use, the oldest first
  written    \* the blocks read from the queue in this stream

vars == <<queue, written>>

Init == queue = <<>> /\ written = <<>>

(* lzma_outq_get_buf()                                                     *)
GetBuf ==
  /\ Len(queue) < Limit
  /\ queue' = Append(queue, Waiting)
  /\ UNCHANGED written

(* A worker marks its buffer finished.  That the queue changes follows,    *)
(* Waiting not being a block; it is said because it is quick to check.     *)
Finish ==
  /\ queue' # queue
  /\ \E k \in DOMAIN queue, b \in Blocks :
       queue[k] = Waiting /\ queue' = [queue EXCEPT ![k] = b]
  /\ UNCHANGED written

(* lzma_outq_read() that reads the oldest buffer to its end                *)
Read ==
  /\ queue # <<>> /\ Head(queue) # Waiting
  /\ written' = Append(written, Head(queue))
  /\ queue' = Tail(queue)

(* lzma_outq_init() for another stream                                     *)
Reset == queue' = <<>> /\ written' = <<>>

Next == GetBuf \/ Finish \/ Read \/ Reset

Spec == Init /\ [][Next]_vars
=============================================================================
