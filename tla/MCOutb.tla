------------------------------- MODULE MCOutb -------------------------------
(* Two streams of up to three pieces: a piece in the call, one in the copy *)
(* and one done; and threads that are launched again.                      *)
EXTENDS Outb
=============================================================================
