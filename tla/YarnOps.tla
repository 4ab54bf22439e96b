------------------------------ MODULE YarnOps ------------------------------
(***************************************************************************)
(* The vocabulary of yarn.h: conditions that wait_for() waits on and       *)
(* changes that twist() makes to the value of a lock.                      *)
(***************************************************************************)
EXTENDS Integers

CONSTANTS
  Threads,   \* the threads that use the lock
  Values,    \* the values the lock may take (bounds the model)
  Initial,   \* the argument of new_lock()
  None       \* no thread, or no condition

(* enum wait_op: the condition of wait_for(bolt, op, val)                  *)
WaitOps == {"TO_BE", "NOT_TO_BE", "TO_BE_MORE_THAN", "TO_BE_LESS_THAN"}

(* enum twist_op: the change of twist(bolt, op, val)                       *)
TwistOps == {"TO", "BY"}

Conditions == [op : WaitOps, val : Values]
Changes == [op : TwistOps, val : Values]

ASSUME YarnAssumption ==
  /\ Values \subseteq Int
  /\ Initial \in Values
  /\ None \notin Threads
  /\ None \notin Conditions

Satisfied(c, v) ==
  \/ c.op = "TO_BE" /\ v = c.val
  \/ c.op = "NOT_TO_BE" /\ v # c.val
  \/ c.op = "TO_BE_MORE_THAN" /\ v > c.val
  \/ c.op = "TO_BE_LESS_THAN" /\ v < c.val

Twisted(d, v) == IF d.op = "TO" THEN d.val ELSE v + d.val
=============================================================================
