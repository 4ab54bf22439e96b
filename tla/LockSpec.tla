------------------------------ MODULE LockSpec ------------------------------
(***************************************************************************)
(* What yarn.h promises of a lock, with no mutex, condition variable or    *)
(* wake-up in sight: at most one possessor, a value that only the          *)
(* possessor changes, and a wait_for() that gives the lock up and gets it  *)
(* back, in one step, at a moment when its condition holds.                *)
(*                                                                         *)
(* The modules about pigz use its locks at this level: a blocking          *)
(* possess() + wait_for() is the guard of an action, twist() its effect.   *)
(* Yarn is the detailed lock that implements this specification.           *)
(***************************************************************************)
EXTENDS YarnOps

VARIABLES
  holder,    \* the possessor of the lock, or None
  value,     \* the lock's value
  waits      \* the condition each thread waits for, or None

lockVars == <<holder, value, waits>>

Init ==
  /\ holder = None
  /\ value = Initial
  /\ waits = [t \in Threads |-> None]

Acquire(t) ==
  /\ holder = None
  /\ waits[t] = None
  /\ holder' = t
  /\ UNCHANGED <<value, waits>>

Wait(t, c) ==
  /\ holder = t
  /\ ~Satisfied(c, value)
  /\ holder' = None
  /\ waits' = [waits EXCEPT ![t] = c]
  /\ UNCHANGED value

Resume(t) ==
  /\ holder = None
  /\ waits[t] # None
  /\ Satisfied(waits[t], value)
  /\ holder' = t
  /\ waits' = [waits EXCEPT ![t] = None]
  /\ UNCHANGED value

Twist(t, d) ==
  /\ holder = t
  /\ value' = Twisted(d, value)
  /\ holder' = None
  /\ UNCHANGED waits

Release(t) ==
  /\ holder = t
  /\ holder' = None
  /\ UNCHANGED <<value, waits>>

Next ==
  \E t \in Threads :
    \/ Acquire(t)
    \/ \E c \in Conditions : Wait(t, c)
    \/ Resume(t)
    \/ \E d \in Changes : Twist(t, d)
    \/ Release(t)

Spec == Init /\ [][Next]_lockVars
=============================================================================
