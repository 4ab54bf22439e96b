------------------------------ MODULE SpacePool ------------------------------
(***************************************************************************)
(* What a pool of buffers promises its users in pigz.c: get_space() hands  *)
(* out a buffer nobody has a reference to and makes a new one only when    *)
(* all are in use and the limit allows it; use_space() adds a reference;   *)
(* drop_space() removes one.  Each call takes effect at once; there are no *)
(* locks and no list here.  Pool is the detailed pool.                     *)
(***************************************************************************)
EXTENDS Integers, FiniteSets

CONSTANTS
  Spaces,    \* names for the buffers a pool may come to own
  Limit      \* the limit argument of new_pool(): -1 for none

VARIABLES
  born,      \* the buffers made so far
  count      \* the references to each buffer

poolVars == <<born, count>>

Init ==
  /\ born = {}
  /\ count = [s \in Spaces |-> 0]

Free == {s \in born : count[s] = 0}

GetFree(s) ==
  /\ s \in Free
  /\ count' = [count EXCEPT ![s] = 1]
  /\ UNCHANGED born

GetNew(s) ==
  /\ Free = {}
  /\ Limit # -1 => Cardinality(born) < Limit
  /\ s \in Spaces \ born
  /\ born' = born \union {s}
  /\ count' = [count EXCEPT ![s] = 1]

Use(s) ==
  /\ count[s] > 0
  /\ count' = [count EXCEPT ![s] = @ + 1]
  /\ UNCHANGED born

Drop(s) ==
  /\ count[s] > 0
  /\ count' = [count EXCEPT ![s] = @ - 1]
  /\ UNCHANGED born

(* The pool is freed, and a new one set up, when every buffer is back.     *)
Renew ==
  /\ Free = born
  /\ born' = {}
  /\ UNCHANGED count

Next ==
  \/ \E s \in Spaces : GetFree(s) \/ GetNew(s) \/ Use(s) \/ Drop(s)
  \/ Renew

Spec == Init /\ [][Next]_poolVars
=============================================================================
