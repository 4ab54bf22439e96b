-------------------------------- MODULE Yarn --------------------------------
(***************************************************************************)
(* A yarn lock as yarn.c builds it: a pthread mutex, a pthread condition   *)
(* variable and a value.  possess() locks the mutex, wait_for() re-tests   *)
(* its condition around pthread_cond_wait() (which may return for no       *)
(* reason), twist() changes the value, broadcasts and unlocks.             *)
(*                                                                         *)
(* The clients are threads that use the lock as yarn.h allows: twist(),    *)
(* release() and wait_for() only while in possession, any number of times  *)
(* and in any order.  The value stays in the finite set Values, which is   *)
(* the only bound.                                                         *)
(***************************************************************************)
EXTENDS YarnOps

VARIABLES
  mutex,     \* the owner of bolt->mutex, or None
  value,     \* bolt->value
  pc,        \* where each thread is with respect to the lock
  want       \* the condition of the wait_for() each thread is in, or None

vars == <<mutex, value, pc, want>>

(* "out"      not in possession                                            *)
(* "in"       in possession                                                *)
(* "testing"  in possession, at the head of the loop of wait_for()         *)
(* "asleep"   in pthread_cond_wait(), not yet woken                        *)
(* "woken"    in pthread_cond_wait(), wanting the mutex back               *)
PcStates == {"out", "in", "testing", "asleep", "woken"}

Waiting(t) == pc[t] \in {"testing", "asleep", "woken"}

TypeOK ==
  /\ mutex \in Threads \union {None}
  /\ value \in Values
  /\ pc \in [Threads -> PcStates]
  /\ want \in [Threads -> Conditions \union {None}]

(* new_lock()                                                              *)
Init ==
  /\ mutex = None
  /\ value = Initial
  /\ pc = [t \in Threads |-> "out"]
  /\ want = [t \in Threads |-> None]

Possess(t) ==
  /\ pc[t] = "out"
  /\ mutex = None
  /\ mutex' = t
  /\ pc' = [pc EXCEPT ![t] = "in"]
  /\ UNCHANGED <<value, want>>

Release(t) ==
  /\ pc[t] = "in"
  /\ mutex' = None
  /\ pc' = [pc EXCEPT ![t] = "out"]
  /\ UNCHANGED <<value, want>>

(* Not the code: pthread_cond_signal(), which moves one sleeper on, and no *)
(* signal at all.                                                          *)
BroadcastOne(p) ==
  LET sleepers == {t \in Threads : p[t] = "asleep"}
  IN  IF sleepers = {} THEN p
      ELSE [p EXCEPT ![CHOOSE t \in sleepers : TRUE] = "woken"]
BroadcastNone(p) == p

(* pthread_cond_broadcast() moves every sleeper on to wanting the mutex.   *)
Broadcast(p) == [t \in Threads |-> IF p[t] = "asleep" THEN "woken" ELSE p[t]]

(* The broadcast and the unlock are one step: the woken threads can do     *)
(* nothing before the unlock.                                              *)
Twist(t, d) ==
  /\ pc[t] = "in"
  /\ Twisted(d, value) \in Values
  /\ value' = Twisted(d, value)
  /\ mutex' = None
  /\ pc' = Broadcast([pc EXCEPT ![t] = "out"])
  /\ UNCHANGED want

WaitFor(t, c) ==
  /\ pc[t] = "in"
  /\ pc' = [pc EXCEPT ![t] = "testing"]
  /\ want' = [want EXCEPT ![t] = c]
  /\ UNCHANGED <<mutex, value>>

(* The head of the loop of wait_for(): return in possession, or unlock and *)
(* sleep (pthread_cond_wait() does both at once).                          *)
Test(t) ==
  /\ pc[t] = "testing"
  /\ IF Satisfied(want[t], value)
       THEN /\ pc' = [pc EXCEPT ![t] = "in"]
            /\ want' = [want EXCEPT ![t] = None]
            /\ UNCHANGED mutex
       ELSE /\ pc' = [pc EXCEPT ![t] = "asleep"]
            /\ mutex' = None
            /\ UNCHANGED want
  /\ UNCHANGED value

(* pthread_cond_wait() is allowed to wake up for no reason.                *)
SpuriousWake(t) ==
  /\ pc[t] = "asleep"
  /\ pc' = [pc EXCEPT ![t] = "woken"]
  /\ UNCHANGED <<mutex, value, want>>

(* Not the code: "if" for "until" in wait_for().                           *)
ReacquireNoRetest(t) ==
  /\ pc[t] = "woken"
  /\ mutex = None
  /\ mutex' = t
  /\ pc' = [pc EXCEPT ![t] = "in"]
  /\ want' = [want EXCEPT ![t] = None]
  /\ UNCHANGED value

(* pthread_cond_wait() gets the mutex back and returns: back to the test.  *)
Reacquire(t) ==
  /\ pc[t] = "woken"
  /\ mutex = None
  /\ mutex' = t
  /\ pc' = [pc EXCEPT ![t] = "testing"]
  /\ UNCHANGED <<value, want>>

Leave(t) == Release(t) \/ \E d \in Changes : Twist(t, d)

Next ==
  \E t \in Threads :
    \/ Possess(t)
    \/ Leave(t)
    \/ \E c \in Conditions : WaitFor(t, c)
    \/ Test(t)
    \/ SpuriousWake(t)
    \/ Reacquire(t)

Spec == Init /\ [][Next]_vars

(* A possessor that is not waiting lets go in the end (every use of a lock *)
(* in pigz.c is a short critical section), the test is made, and a mutex   *)
(* that is free again and again is had in the end.  Nobody has to call     *)
(* possess(), and no spurious wake-up has to happen.                       *)
FairSpec ==
  /\ Spec
  /\ \A t \in Threads :
       SF_vars(Leave(t)) /\ WF_vars(Test(t)) /\ SF_vars(Reacquire(t))

(* The mutex is owned by the thread that is inside, and by nobody else:    *)
(* what possess(), wait_for() and twist() exist for.                       *)
Exclusive == \A t \in Threads : mutex = t <=> pc[t] \in {"in", "testing"}

(* wait_for() in progress is exactly a condition remembered.               *)
WantOK == \A t \in Threads : want[t] # None <=> Waiting(t)

(* No wake-up is lost: no thread sleeps on a condition that is true.  It   *)
(* rests on the test and the sleep being one critical section and on       *)
(* twist() broadcasting, since the waiters may wait for different values.  *)
NoLostWakeup ==
  \A t \in Threads : pc[t] = "asleep" => ~Satisfied(want[t], value)

(* wait_for() returns: no thread waits forever while its condition stays   *)
(* true.                                                                   *)
WaitsEnd ==
  \A t \in Threads : []<>~(Waiting(t) /\ Satisfied(want[t], value))

(* The lock of yarn.h.  A thread that is about to find its condition false *)
(* has already given the lock up, as far as a client can tell.             *)
GivesUp(t) == Waiting(t) /\ (pc[t] = "testing" => ~Satisfied(want[t], value))

Abstract == INSTANCE LockSpec WITH
  holder <- IF \E t \in Threads : mutex = t /\ ~GivesUp(t) THEN mutex ELSE None,
  waits <- [t \in Threads |-> IF GivesUp(t) THEN want[t] ELSE None]

(* Every step of the mutex and the condition variable is a step of the     *)
(* promised lock or changes nothing a client can see; in particular        *)
(* wait_for() gives the lock back at a moment when its condition holds.    *)
Implements == Abstract!Spec
=============================================================================
