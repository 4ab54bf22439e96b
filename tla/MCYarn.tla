------------------------------- MODULE MCYarn -------------------------------
(* Three threads on one lock with the values 0 and 1, as most locks of     *)
(* pigz have: two waiters with different conditions, and one that twists.  *)
EXTENDS Yarn
=============================================================================
