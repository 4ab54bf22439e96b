----------------------------- MODULE YarnThreads -----------------------------
(***************************************************************************)
(* The threads of yarn.c: launch(), the reenter() every thread runs before *)
(* it exits, join(), join_all() and destruct(), around the list "threads"  *)
(* and threads_lock, whose value is the number of threads in the list that *)
(* have announced their exit.                                              *)
(*                                                                         *)
(* One client, main, calls them in any order that yarn.h allows.  The lock *)
(* is at the level of LockSpec; pthread_create(), pthread_join() and       *)
(* pthread_kill() are modelled as POSIX defines them.                      *)
(***************************************************************************)
EXTENDS Integers, Sequences, FiniteSets, SequencesExt

CONSTANTS
  Workers,     \* the threads that may be launched, each once (a bound)
  Main,        \* the thread that launches and joins
  Nobody       \* no possessor, or no thread

ASSUME ThreadsAssumption ==
  /\ IsFiniteSet(Workers)
  /\ Main \notin Workers /\ Nobody \notin Workers /\ Main # Nobody

VARIABLES
  threads,     \* the list of threads launched but not joined
  marked,      \* the threads with done set
  threadsLock, \* the value of threads_lock
  by,          \* the possessor of threads_lock
  state,       \* of each thread
  signalled,   \* the threads with SIGUSR1 pending
  mpc, ally    \* where main is in its call, and on which thread

threadVars == <<threads, marked, threadsLock, by, state, signalled, mpc, ally>>
lists == <<threads, marked, threadsLock>>

(* "running"   in probe()                                                  *)
(* "returned"  in reenter(), without the lock                              *)
(* "entering"  in reenter(), in possession of threads_lock                 *)
(* "exiting"   on its way out                                              *)
(* "ended"     terminated, to be joined                                    *)
(* "joined"    gone, and its struct thread_s freed                         *)
States == {"none", "running", "returned", "entering", "exiting", "ended", "joined"}

MainStates == {"idle", "launch", "create", "link", "join", "joined", "unlink",
               "all", "turn", "find", "wait"}

ThreadsTypeOK ==
  /\ threads \in Seq(Workers)
  /\ marked \subseteq Workers
  /\ threadsLock \in 0..Cardinality(Workers)
  /\ by \in Workers \union {Main, Nobody}
  /\ state \in [Workers -> States]
  /\ signalled \subseteq Workers
  /\ mpc \in MainStates
  /\ ally \in Workers \union {Nobody}

ThreadsInit ==
  /\ threads = <<>> /\ marked = {} /\ threadsLock = 0 /\ by = Nobody
  /\ state = [t \in Workers |-> "none"]
  /\ signalled = {}
  /\ mpc = "idle" /\ ally = Nobody

Go(p, t) == mpc' = p /\ ally' = t
Become(t, s) == state' = [state EXCEPT ![t] = s]
Listed == ToSet(threads)
Without(t) == RemoveFirst(threads, t)

-----------------------------------------------------------------------------
(* launch()                                                                *)

CallLaunch(t) ==
  /\ mpc = "idle" /\ state[t] = "none"
  /\ Go("launch", t)
  /\ UNCHANGED <<lists, by, state, signalled>>

(* Not the code: a thread created without the lock.                        *)
LaunchPossessNot ==
  /\ mpc = "launch"
  /\ Go("create", ally)
  /\ UNCHANGED <<lists, by, state, signalled>>

LaunchPossess ==
  /\ mpc = "launch" /\ by = Nobody
  /\ by' = Main
  /\ Go("create", ally)
  /\ UNCHANGED <<lists, state, signalled>>

(* pthread_create(): the thread runs before it is in the list.             *)
LaunchCreate ==
  /\ mpc = "create"
  /\ Become(ally, "running")
  /\ Go("link", ally)
  /\ UNCHANGED <<lists, by, signalled>>

LaunchLink ==
  /\ mpc = "link"
  /\ threads' = <<ally>> \o threads
  /\ by' = Nobody
  /\ Go("idle", Nobody)
  /\ UNCHANGED <<marked, threadsLock, state, signalled>>

-----------------------------------------------------------------------------
(* ignition() and reenter()                                                *)

(* probe() returns, and the clean-up handler is popped and called.         *)
Return(t) ==
  /\ state[t] = "running"
  /\ Become(t, "returned")
  /\ UNCHANGED <<lists, by, signalled, mpc, ally>>

ReenterPossess(t) ==
  /\ state[t] = "returned" /\ by = Nobody
  /\ by' = t
  /\ Become(t, "entering")
  /\ UNCHANGED <<lists, signalled, mpc, ally>>

(* Not the code: a thread put at the head of the list and left where it    *)
(* was.                                                                    *)
ReenterKept(t) ==
  /\ state[t] = "entering" /\ t \in Listed
  /\ marked' = marked \union {t}
  /\ threads' = <<t>> \o threads
  /\ threadsLock' = threadsLock + 1
  /\ by' = Nobody
  /\ Become(t, "exiting")
  /\ UNCHANGED <<signalled, mpc, ally>>

(* Mark the thread, move it to the head of the list, count it and alert    *)
(* join_all().                                                             *)
Reenter(t) ==
  /\ state[t] = "entering" /\ t \in Listed
  /\ marked' = marked \union {t}
  /\ threads' = <<t>> \o Without(t)
  /\ threadsLock' = threadsLock + 1
  /\ by' = Nobody
  /\ Become(t, "exiting")
  /\ UNCHANGED <<signalled, mpc, ally>>

Terminate(t) ==
  /\ state[t] = "exiting"
  /\ Become(t, "ended")
  /\ UNCHANGED <<lists, by, signalled, mpc, ally>>

(* SIGUSR1 arrives: thread_exit_handler() calls pthread_exit(), which runs *)
(* reenter() if the thread is in probe(); later the clean-up handler is no *)
(* longer there and the thread just ends, whatever it possesses.           *)
Signal(t) ==
  /\ t \in signalled
  /\ signalled' = signalled \ {t}
  /\ state' = [state EXCEPT ![t] =
                 CASE @ = "running" -> "returned"
                   [] @ \in {"returned", "entering", "exiting"} -> "ended"
                   [] OTHER -> @]
  /\ UNCHANGED <<lists, by, mpc, ally>>

-----------------------------------------------------------------------------
(* join()                                                                  *)

CallJoin(t) ==
  /\ mpc = "idle" /\ state[t] \notin {"none", "joined"}
  /\ Go("join", t)
  /\ UNCHANGED <<lists, by, state, signalled>>

(* pthread_join()                                                          *)
JoinWait ==
  /\ mpc = "join" /\ state[ally] = "ended"
  /\ Go("joined", ally)
  /\ UNCHANGED <<lists, by, state, signalled>>

JoinPossess ==
  /\ mpc = "joined" /\ by = Nobody
  /\ by' = Main
  /\ Go("unlink", ally)
  /\ UNCHANGED <<lists, state, signalled>>

(* Not the code: the count of exited threads left as it is.                *)
JoinUnlinkUncounted ==
  /\ mpc = "unlink" /\ ally \in Listed
  /\ threads' = Without(ally)
  /\ by' = Nobody
  /\ Become(ally, "joined")
  /\ Go("idle", Nobody)
  /\ UNCHANGED <<marked, threadsLock, signalled>>

JoinUnlink ==
  /\ mpc = "unlink" /\ ally \in Listed
  /\ threadsLock' = IF ally \in marked THEN threadsLock - 1 ELSE threadsLock
  /\ threads' = Without(ally)
  /\ by' = Nobody
  /\ Become(ally, "joined")
  /\ Go("idle", Nobody)
  /\ UNCHANGED <<marked, signalled>>

(* destruct(): pthread_kill(), then join().                                *)
CallDestruct(t) ==
  /\ mpc = "idle" /\ state[t] \notin {"none", "joined"}
  /\ signalled' = signalled \union {t}
  /\ Go("join", t)
  /\ UNCHANGED <<lists, by, state>>

-----------------------------------------------------------------------------
(* join_all()                                                              *)

CallJoinAll ==
  /\ mpc = "idle"
  /\ Go("all", Nobody)
  /\ UNCHANGED <<lists, by, state, signalled>>

AllPossess ==
  /\ mpc = "all" /\ by = Nobody
  /\ by' = Main
  /\ Go("turn", Nobody)
  /\ UNCHANGED <<lists, state, signalled>>

(* wait_for(NOT_TO_BE, 0): go on, or let go of the lock and sleep.         *)
AllTurn ==
  /\ mpc = "turn" /\ threads # <<>>
  /\ Go(IF threadsLock # 0 THEN "find" ELSE "wait", Nobody)
  /\ by' = IF threadsLock # 0 THEN by ELSE Nobody
  /\ UNCHANGED <<lists, state, signalled>>

AllResume ==
  /\ mpc = "wait" /\ threadsLock # 0 /\ by = Nobody
  /\ by' = Main
  /\ Go("find", Nobody)
  /\ UNCHANGED <<lists, state, signalled>>

FirstMarked == SelectInSeq(threads, LAMBDA t : t \in marked)

(* The first thread marked done, pthread_join(), and off the list.         *)
AllJoin ==
  /\ mpc = "find" /\ FirstMarked # 0
  /\ LET t == threads[FirstMarked]
     IN  /\ state[t] = "ended"
         /\ threads' = Without(t)
         /\ Become(t, "joined")
  /\ threadsLock' = threadsLock - 1
  /\ Go("turn", Nobody)
  /\ UNCHANGED <<marked, by, signalled>>

(* Not the code: the count, not the list, says that no thread is left.     *)
AllReturnCount ==
  /\ mpc = "turn" /\ threadsLock = 0
  /\ by' = Nobody
  /\ Go("idle", Nobody)
  /\ UNCHANGED <<lists, state, signalled>>

AllReturn ==
  /\ mpc = "turn" /\ threads = <<>>
  /\ by' = Nobody
  /\ Go("idle", Nobody)
  /\ UNCHANGED <<lists, state, signalled>>

-----------------------------------------------------------------------------

(* Main in a call it has made.                                             *)
InCall ==
  \/ LaunchPossess \/ LaunchCreate \/ LaunchLink
  \/ JoinWait \/ JoinPossess \/ JoinUnlink
  \/ AllPossess \/ AllTurn \/ AllResume \/ AllJoin \/ AllReturn

Thread(t) ==
  Return(t) \/ ReenterPossess(t) \/ Reenter(t) \/ Terminate(t) \/ Signal(t)

ThreadsNext ==
  \/ InCall \/ CallJoinAll
  \/ \E t \in Workers :
       CallLaunch(t) \/ CallJoin(t) \/ CallDestruct(t) \/ Thread(t)

ThreadsSpec == ThreadsInit /\ [][ThreadsNext]_threadVars

(* Every thread returns from probe() in the end and gets threads_lock if   *)
(* it is free again and again; main goes on with a call it has made.  No   *)
(* call has to be made.                                                    *)
ThreadsFairSpec ==
  /\ ThreadsSpec
  /\ SF_threadVars(InCall)
  /\ \A t \in Workers : SF_threadVars(Thread(t))

-----------------------------------------------------------------------------

(* The list and its count agree with the threads: whenever nobody is at    *)
(* work on them, the value of threads_lock is the number of those in the   *)
(* list that are done; what is in the list is in it once and not freed,    *)
(* and what was launched is in it until it is joined.                      *)
ListOK ==
  /\ by = Nobody => threadsLock = Cardinality(Listed \intersect marked)
  /\ IsInjective(threads)
  /\ \A t \in Workers :
       t \in Listed <=> state[t] \notin {"none", "joined"} /\ ~(mpc = "link" /\ ally = t)

(* No call of fail(EINVAL): reenter() finds its thread, join() the one to  *)
(* join, and join_all() one that is done once the count says so.           *)
NeverFails ==
  /\ \A t \in Workers : state[t] = "entering" => t \in Listed
  /\ mpc = "unlink" => ally \in Listed
  /\ mpc = "find" => FirstMarked # 0

(* join_all() returns when no thread is left, so that what the threads     *)
(* used can be freed.                                                      *)
AllJoined ==
  [][ mpc = "turn" /\ mpc' = "idle" =>
        threadsLock = 0 /\ \A t \in Workers : state[t] \in {"none", "joined"} ]_threadVars

(* Every call of launch(), join() and join_all() returns, unless destruct()*)
(* is called: its signal may end a thread in possession of threads_lock.   *)
CallsReturn == [](signalled = {}) => (mpc # "idle" ~> mpc = "idle")
=============================================================================
