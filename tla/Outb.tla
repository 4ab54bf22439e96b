--------------------------------- MODULE Outb ---------------------------------
(***************************************************************************)
(* The output of decompression: outb() hands each piece of output to a     *)
(* thread that writes it, outb_write(), and to one that adds it to the     *)
(* check value, outb_check(), while infchk() goes on to decompress.  All   *)
(* three share the copy out_copy and out_len; each thread has a lock whose *)
(* value says that there is a piece to be done.                            *)
(*                                                                         *)
(* A piece is named by a number; out_len is abstracted to the piece in     *)
(* out_copy, 0 being the one of length zero that ends a stream.  Only the  *)
(* values of the locks are kept: main copies when both are 0, a thread     *)
(* works when its own is 1, and each holds its lock until it twists it.    *)
(***************************************************************************)
EXTENDS Integers, Sequences

CONSTANTS
  MaxPieces,   \* bound: pieces of output in a stream
  MaxStreams   \* bound: streams until the program ends

ASSUME OutbAssumption == MaxPieces \in Nat /\ MaxStreams \in Nat

Workers == {"write", "check"}

VARIABLES
  streams,     \* streams so far
  threads,     \* procs > 1
  produced,    \* the pieces of this stream given to outb()
  copy,        \* the piece in out_copy and out_len
  more,        \* the values of outb_write_more and outb_check_more
  launched,    \* outb_write_more # NULL
  wpc, wlen,   \* the two threads: where they are, and the piece each works on
  written,     \* what was written of this stream
  outCheck,    \* the pieces that out_check stands for
  opc, arg     \* main, and the piece in its call of outb()

outbVars == <<streams, threads, produced, copy, more, launched, wpc, wlen,
              written, outCheck, opc, arg>>
outputs == <<written, outCheck>>
streamVars == <<streams, threads>>
workerVars == <<wpc, wlen>>

OutbInit ==
  /\ streams = 0 /\ threads = FALSE
  /\ produced = <<>> /\ copy = 0
  /\ more = [w \in Workers |-> 0] /\ launched = FALSE
  /\ wpc = [w \in Workers |-> "none"] /\ wlen = [w \in Workers |-> 0]
  /\ written = <<>> /\ outCheck = <<>>
  /\ opc = "idle" /\ arg = 0

-----------------------------------------------------------------------------
(* infchk(), with inflateBack() that calls outb()                          *)

(* The start of a stream: out_tot and out_check are set up.                *)
StartStream ==
  /\ opc = "idle" /\ streams < MaxStreams
  /\ threads' \in BOOLEAN
  /\ produced' = <<>> /\ outCheck' = <<>> /\ written' = <<>>
  /\ opc' = "inflate"
  /\ UNCHANGED <<streams, copy, more, launched, workerVars, arg>>

(* A piece of output, or the end of the stream.                            *)
Call(n) ==
  /\ opc = "inflate"
  /\ n \in {0, Len(produced) + 1}
  /\ arg' = n
  /\ produced' = IF n = 0 THEN produced ELSE Append(produced, n)
  /\ opc' = IF threads THEN "launch" ELSE "single"
  /\ UNCHANGED <<streamVars, copy, more, launched, workerVars, outputs>>

(* The trailer is compared with out_check, and on to the next stream.      *)
EndStream ==
  /\ opc = "end"
  /\ streams' = streams + 1
  /\ opc' = "idle"
  /\ UNCHANGED <<threads, produced, copy, more, launched, workerVars, outputs, arg>>

-----------------------------------------------------------------------------
(* outb()                                                                  *)

After(n) == IF n = 0 THEN "end" ELSE "inflate"

(* Without threads, write and check.                                       *)
Single ==
  /\ opc = "single"
  /\ IF arg = 0 THEN UNCHANGED outputs
     ELSE written' = Append(written, arg) /\ outCheck' = Append(outCheck, arg)
  /\ opc' = After(arg)
  /\ UNCHANGED <<streamVars, produced, copy, more, launched, workerVars, arg>>

Launch ==
  /\ opc = "launch"
  /\ IF launched THEN UNCHANGED <<more, launched, wpc>>
     ELSE /\ more' = [w \in Workers |-> 0]
          /\ launched' = TRUE
          /\ wpc' = [w \in Workers |-> "wait"]
  /\ opc' = "waitcheck"
  /\ UNCHANGED <<streamVars, produced, copy, wlen, outputs, arg>>

WaitCheck ==
  /\ opc = "waitcheck" /\ more["check"] = 0
  /\ opc' = "waitwrite"
  /\ UNCHANGED <<streamVars, produced, copy, more, launched, workerVars, outputs, arg>>

(* Not the code: a copy made without a wait for the writer.                *)
WaitWriteNot ==
  /\ opc = "waitwrite"
  /\ opc' = "copy"
  /\ UNCHANGED <<streamVars, produced, copy, more, launched, workerVars, outputs, arg>>

WaitWrite ==
  /\ opc = "waitwrite" /\ more["write"] = 0
  /\ opc' = "copy"
  /\ UNCHANGED <<streamVars, produced, copy, more, launched, workerVars, outputs, arg>>

(* memcpy(), and twist(outb_write_more, TO, 1)                             *)
CopyOut ==
  /\ opc = "copy"
  /\ copy' = arg
  /\ more' = [more EXCEPT !["write"] = 1]
  /\ opc' = "alert"
  /\ UNCHANGED <<streamVars, produced, launched, workerVars, outputs, arg>>

(* Not the code: the end of the stream not told to the checker.            *)
AlertSome ==
  /\ opc = "alert"
  /\ more' = [more EXCEPT !["check"] = IF arg = 0 THEN 0 ELSE 1]
  /\ opc' = IF arg = 0 THEN "joincheck" ELSE "inflate"
  /\ UNCHANGED <<streamVars, produced, copy, launched, workerVars, outputs, arg>>

(* twist(outb_check_more, TO, 1); at the end of a stream, on to the joins. *)
Alert ==
  /\ opc = "alert"
  /\ more' = [more EXCEPT !["check"] = 1]
  /\ opc' = IF arg = 0 THEN "joincheck" ELSE "inflate"
  /\ UNCHANGED <<streamVars, produced, copy, launched, workerVars, outputs, arg>>

JoinCheck ==
  /\ opc = "joincheck" /\ wpc["check"] = "ended"
  /\ opc' = "joinwrite"
  /\ UNCHANGED <<streamVars, produced, copy, more, launched, workerVars, outputs, arg>>

(* Not the code: the writer is not joined.                                 *)
JoinWriteNot ==
  /\ opc = "joinwrite"
  /\ launched' = FALSE
  /\ opc' = "end"
  /\ UNCHANGED <<streamVars, produced, copy, more, workerVars, outputs, arg>>

(* join(wr), and the locks are freed.                                      *)
JoinWrite ==
  /\ opc = "joinwrite" /\ wpc["write"] = "ended"
  /\ launched' = FALSE
  /\ opc' = "end"
  /\ UNCHANGED <<streamVars, produced, copy, more, workerVars, outputs, arg>>

-----------------------------------------------------------------------------
(* outb_write() and outb_check()                                           *)

WorkerTake(w) ==
  /\ wpc[w] = "wait" /\ more[w] = 1
  /\ wlen' = [wlen EXCEPT ![w] = copy]
  /\ wpc' = [wpc EXCEPT ![w] = "work"]
  /\ UNCHANGED <<streamVars, produced, copy, more, launched, outputs, opc, arg>>

(* Write out_copy or add it to the check value, and twist the lock to 0;   *)
(* the piece of no length is the last.                                     *)
WorkerDo(w) ==
  /\ wpc[w] = "work"
  /\ LET out == IF wlen[w] = 0 THEN <<>> ELSE <<copy>>
     IN  IF w = "write" THEN written' = written \o out /\ UNCHANGED outCheck
         ELSE outCheck' = outCheck \o out /\ UNCHANGED written
  /\ more' = [more EXCEPT ![w] = 0]
  /\ wpc' = [wpc EXCEPT ![w] = IF wlen[w] = 0 THEN "ended" ELSE "wait"]
  /\ UNCHANGED <<streamVars, produced, copy, launched, wlen, opc, arg>>

Worker(w) == WorkerTake(w) \/ WorkerDo(w)

OutbStep ==
  \/ Single \/ Launch \/ WaitCheck \/ WaitWrite \/ CopyOut \/ Alert
  \/ JoinCheck \/ JoinWrite

OutbStopped == opc = "idle" /\ streams = MaxStreams /\ UNCHANGED outbVars

OutbNext ==
  \/ StartStream \/ (\E n \in 0..MaxPieces : Call(n)) \/ EndStream
  \/ OutbStep
  \/ \E w \in Workers : Worker(w)
  \/ OutbStopped

OutbSpec == OutbInit /\ [][OutbNext]_outbVars

(* outb() and its threads go on when they can; the decompressor may stop   *)
(* calling.                                                                *)
OutbFairSpec ==
  OutbSpec /\ WF_outbVars(OutbStep) /\ \A w \in Workers : WF_outbVars(Worker(w))

-----------------------------------------------------------------------------

OutbTypeOK ==
  /\ streams \in 0..MaxStreams /\ {threads, launched} \subseteq BOOLEAN
  /\ \A s \in {produced, written, outCheck} :
       Len(s) <= MaxPieces /\ \A i \in DOMAIN s : s[i] \in 1..MaxPieces
  /\ copy \in 0..MaxPieces /\ arg \in 0..MaxPieces
  /\ more \in [Workers -> {0, 1}]
  /\ wpc \in [Workers -> {"none", "wait", "work", "ended"}]
  /\ wlen \in [Workers -> 0..MaxPieces]
  /\ opc \in {"idle", "inflate", "single", "launch", "waitcheck", "waitwrite",
              "copy", "alert", "joincheck", "joinwrite", "end"}

(* Each thread does the pieces in order, every one and once, and is at     *)
(* most the one in the copy and the one in the call behind: main never     *)
(* copies into out_copy while a thread works on what it holds.             *)
InOrder ==
  LET DoneOf(s) == /\ Len(s) \in (Len(produced) - 2)..Len(produced)
                   /\ s = SubSeq(produced, 1, Len(s))
  IN  /\ DoneOf(written) /\ DoneOf(outCheck)
      /\ \A w \in Workers : opc = "copy" => wpc[w] # "work" /\ more[w] = 0

(* At the end of a stream the whole of it is written and checked, and both *)
(* threads are gone: the check value compared with the trailer is that of  *)
(* the stream.                                                             *)
StreamDone ==
  opc = "end" =>
    /\ written = produced /\ outCheck = produced
    /\ \A w \in Workers : wpc[w] \in {"none", "ended"}

(* outb() returns: the two hand-shakes and the two joins do not block each *)
(* other.                                                                  *)
OutbReturns == (opc \notin {"idle", "inflate", "end"}) ~> (opc \in {"inflate", "end"})
=============================================================================
