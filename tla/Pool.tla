-------------------------------- MODULE Pool --------------------------------
(***************************************************************************)
(* A pool of reference-counted buffers as pigz.c keeps it: a list of free  *)
(* buffers under the lock pool->have, whose value is the length of the     *)
(* list, and in each buffer a lock space->use whose value is the number of *)
(* references.  get_space() takes have and then use; drop_space() takes    *)
(* use and then have, and lets go of use last.                             *)
(*                                                                         *)
(* Users pass references on to each other, so a reference that no thread   *)
(* is spending belongs to no thread here: refs counts those of a buffer.   *)
(* One step is a critical section, or the part of one up to the next lock  *)
(* to wait for.  MaxUses bounds the calls of use_space() between get and   *)
(* last drop (at most 2 in pigz.c), and Spaces the buffers of a pool that  *)
(* has no limit.                                                           *)
(***************************************************************************)
EXTENDS Integers, Sequences, FiniteSets

CONSTANTS
  Threads,   \* the threads that use the pool
  Getters,   \* those that call get_space()
  Spaces,    \* names for the buffers the pool may come to own
  Limit,     \* the limit argument of new_pool(): -1 for none
  MaxUses,   \* bound: calls of use_space() in one life of a buffer
  NoSpace,   \* a null struct space *
  NoThread   \* no possessor

ASSUME PoolAssumption ==
  /\ IsFiniteSet(Threads) /\ IsFiniteSet(Spaces)
  /\ Getters \subseteq Threads
  /\ Limit \in {-1} \union (1..Cardinality(Spaces))
  /\ MaxUses \in Nat
  /\ NoSpace \notin Spaces
  /\ NoThread \notin Threads

VARIABLES
  head,      \* the free list, most recent first
  have,      \* value of pool->have
  haveBy,    \* possessor of pool->have
  limit,     \* pool->limit
  born,      \* the buffers made (pool->made is their number)
  use,       \* value of space->use
  useBy,     \* possessor of space->use
  refs,      \* references to each buffer that no thread is spending
  uses,      \* calls of use_space() in this life of each buffer
  pc, arg    \* where each thread is in its call, and on which buffer

listVars == <<head, have, haveBy, limit, born>>
vars == <<head, have, haveBy, limit, born, use, useBy, refs, uses, pc, arg>>

Listed(s) == \E i \in DOMAIN head : head[i] = s

PcStates == {"idle", "get", "pull", "pulled", "popped", "use", "drop",
             "last", "pushed"}

TypeOK ==
  /\ head \in Seq(Spaces)
  /\ have \in Nat
  /\ haveBy \in Threads \union {NoThread}
  /\ limit \in {-1} \union Nat
  /\ born \subseteq Spaces
  /\ use \in [Spaces -> Nat]
  /\ useBy \in [Spaces -> Threads \union {NoThread}]
  /\ refs \in [Spaces -> Nat]
  /\ uses \in [Spaces -> 0..MaxUses]
  /\ pc \in [Threads -> PcStates]
  /\ arg \in [Threads -> Spaces \union {NoSpace}]

Go(t, p, s) ==
  /\ pc' = [pc EXCEPT ![t] = p]
  /\ arg' = [arg EXCEPT ![t] = s]

(* new_pool()                                                              *)
Init ==
  /\ head = <<>> /\ have = 0 /\ haveBy = NoThread
  /\ limit = Limit /\ born = {}
  /\ use = [s \in Spaces |-> 0]
  /\ useBy = [s \in Spaces |-> NoThread]
  /\ refs = [s \in Spaces |-> 0]
  /\ uses = [s \in Spaces |-> 0]
  /\ pc = [t \in Threads |-> "idle"]
  /\ arg = [t \in Threads |-> NoSpace]

-----------------------------------------------------------------------------
(* get_space()                                                             *)

CallGet(t) ==
  /\ t \in Getters
  /\ pc[t] = "idle"
  /\ Go(t, "get", NoSpace)
  /\ UNCHANGED <<listVars, use, useBy, refs, uses>>

(* Not the code: get_space() that does not wait when the limit is reached. *)
GetPossessNoWait(t) ==
  /\ pc[t] = "get"
  /\ haveBy = NoThread
  /\ limit = -1 /\ head = <<>> => born # Spaces
  /\ haveBy' = t
  /\ Go(t, "pull", NoSpace)
  /\ UNCHANGED <<head, have, limit, born, use, useBy, refs, uses>>

(* possess(pool->have) and, with no more buffers to make, the wait for one *)
(* to come back.  (A pool with no limit stops at the bound Spaces.)        *)
GetPossess(t) ==
  /\ pc[t] = "get"
  /\ haveBy = NoThread
  /\ limit = 0 => have # 0
  /\ limit = -1 /\ head = <<>> => born # Spaces
  /\ haveBy' = t
  /\ Go(t, "pull", NoSpace)
  /\ UNCHANGED <<head, have, limit, born, use, useBy, refs, uses>>

(* Not the code: get_space() that does not take the lock of the buffer.    *)
GetPullUnlocked(t) ==
  /\ pc[t] = "pull"
  /\ head # <<>>
  /\ Go(t, "pulled", Head(head))
  /\ UNCHANGED <<listVars, use, useBy, refs, uses>>

(* possess(space->use) of the first buffer in the list: its last user may  *)
(* still be in drop_space().                                               *)
GetPull(t) ==
  /\ pc[t] = "pull"
  /\ head # <<>>
  /\ useBy[Head(head)] = NoThread
  /\ useBy' = [useBy EXCEPT ![Head(head)] = t]
  /\ Go(t, "pulled", Head(head))
  /\ UNCHANGED <<listVars, use, refs, uses>>

GetPop(t) ==
  /\ pc[t] = "pulled"
  /\ head' = Tail(head)
  /\ have' = have - 1
  /\ haveBy' = NoThread
  /\ Go(t, "popped", arg[t])
  /\ UNCHANGED <<limit, born, use, useBy, refs, uses>>

(* Not the code: get_space() that does not release the buffer.             *)
GetTwistKeeps(t) ==
  /\ pc[t] = "popped"
  /\ use' = [use EXCEPT ![arg[t]] = 1]
  /\ refs' = [refs EXCEPT ![arg[t]] = @ + 1]
  /\ uses' = [uses EXCEPT ![arg[t]] = 0]
  /\ Go(t, "idle", NoSpace)
  /\ UNCHANGED <<listVars, useBy>>

(* twist(space->use, TO, 1) and return                                     *)
GetTwist(t) ==
  /\ pc[t] = "popped"
  /\ use' = [use EXCEPT ![arg[t]] = 1]
  /\ useBy' = [useBy EXCEPT ![arg[t]] = NoThread]
  /\ refs' = [refs EXCEPT ![arg[t]] = @ + 1]
  /\ uses' = [uses EXCEPT ![arg[t]] = 0]
  /\ Go(t, "idle", NoSpace)
  /\ UNCHANGED listVars

(* Nothing in the list: make a new buffer, which only this thread knows.   *)
GetMake(t) ==
  /\ pc[t] = "pull"
  /\ head = <<>>
  /\ limit' = IF limit > 0 THEN limit - 1 ELSE limit
  /\ haveBy' = NoThread
  /\ \E s \in Spaces \ born :
       /\ born' = born \union {s}
       /\ use' = [use EXCEPT ![s] = 1]
       /\ refs' = [refs EXCEPT ![s] = 1]
       /\ uses' = [uses EXCEPT ![s] = 0]
  /\ Go(t, "idle", NoSpace)
  /\ UNCHANGED <<head, have, useBy>>

-----------------------------------------------------------------------------
(* use_space(), by a thread that has a reference                           *)

CallUse(t, s) ==
  /\ pc[t] = "idle"
  /\ refs[s] > 0
  /\ uses[s] < MaxUses
  /\ refs' = [refs EXCEPT ![s] = @ - 1]
  /\ uses' = [uses EXCEPT ![s] = @ + 1]
  /\ Go(t, "use", s)
  /\ UNCHANGED <<listVars, use, useBy>>

UseTwist(t) ==
  /\ pc[t] = "use"
  /\ useBy[arg[t]] = NoThread
  /\ use' = [use EXCEPT ![arg[t]] = @ + 1]
  /\ refs' = [refs EXCEPT ![arg[t]] = @ + 2]
  /\ Go(t, "idle", NoSpace)
  /\ UNCHANGED <<listVars, useBy, uses>>

-----------------------------------------------------------------------------
(* drop_space(), by a thread that spends its reference                     *)

CallDrop(t, s) ==
  /\ pc[t] = "idle"
  /\ refs[s] > 0
  /\ refs' = [refs EXCEPT ![s] = @ - 1]
  /\ Go(t, "drop", s)
  /\ UNCHANGED <<listVars, use, useBy, uses>>

(* Not the code: drop_space() that forgets the list.                       *)
DropSharedAny(t) ==
  /\ pc[t] = "drop"
  /\ useBy[arg[t]] = NoThread
  /\ use' = [use EXCEPT ![arg[t]] = @ - 1]
  /\ Go(t, "idle", NoSpace)
  /\ UNCHANGED <<listVars, useBy, refs, uses>>

(* Others have references: only the count goes down.                       *)
DropShared(t) ==
  /\ pc[t] = "drop"
  /\ useBy[arg[t]] = NoThread
  /\ use[arg[t]] # 1
  /\ use' = [use EXCEPT ![arg[t]] = @ - 1]
  /\ Go(t, "idle", NoSpace)
  /\ UNCHANGED <<listVars, useBy, refs, uses>>

(* Not the code: drop_space() that puts a buffer back while others still   *)
(* have references to it.                                                  *)
DropLastAlways(t) ==
  /\ pc[t] = "drop"
  /\ useBy[arg[t]] = NoThread
  /\ ~Listed(arg[t])
  /\ useBy' = [useBy EXCEPT ![arg[t]] = t]
  /\ Go(t, "last", arg[t])
  /\ UNCHANGED <<listVars, use, refs, uses>>

(* The last reference: keep the buffer locked and put it back in the list. *)
DropLast(t) ==
  /\ pc[t] = "drop"
  /\ useBy[arg[t]] = NoThread
  /\ use[arg[t]] = 1
  /\ useBy' = [useBy EXCEPT ![arg[t]] = t]
  /\ Go(t, "last", arg[t])
  /\ UNCHANGED <<listVars, use, refs, uses>>

DropPush(t) ==
  /\ pc[t] = "last"
  /\ haveBy = NoThread
  /\ head' = <<arg[t]>> \o head
  /\ have' = have + 1
  /\ Go(t, "pushed", arg[t])
  /\ UNCHANGED <<haveBy, limit, born, use, useBy, refs, uses>>

DropTwist(t) ==
  /\ pc[t] = "pushed"
  /\ use' = [use EXCEPT ![arg[t]] = @ - 1]
  /\ useBy' = [useBy EXCEPT ![arg[t]] = NoThread]
  /\ Go(t, "idle", NoSpace)
  /\ UNCHANGED <<listVars, refs, uses>>

-----------------------------------------------------------------------------
(* free_pool(), once every user is done, and new_pool() for the next use.  *)

Quiet == \A t \in Threads : pc[t] = "idle"
Unreferenced == \A s \in Spaces : refs[s] = 0

FreePool ==
  /\ Quiet /\ Unreferenced
  /\ born # {}
  /\ head' = <<>> /\ have' = 0
  /\ limit' = Limit /\ born' = {}
  /\ UNCHANGED <<haveBy, use, useBy, refs, uses, pc, arg>>

Get(t) == GetPossess(t) \/ GetPull(t) \/ GetPop(t) \/ GetTwist(t) \/ GetMake(t)
Drop(t) == DropShared(t) \/ DropLast(t) \/ DropPush(t) \/ DropTwist(t)

Next ==
  \/ \E t \in Threads :
       \/ CallGet(t) \/ Get(t)
       \/ UseTwist(t) \/ Drop(t)
       \/ \E s \in Spaces : CallUse(t, s) \/ CallDrop(t, s)
  \/ FreePool

Spec == Init /\ [][Next]_vars

(* A call goes on if its next lock is free again and again (the fairness   *)
(* that Yarn assumes of a mutex), and who has a reference drops it in the  *)
(* end.  Nobody has to call get_space().                                   *)
FairSpec ==
  /\ Spec
  /\ \A t \in Threads : SF_vars(Get(t) \/ UseTwist(t) \/ Drop(t))
  /\ \A s \in Spaces :
       WF_vars(\E t \in Threads \ Getters : CallDrop(t, s))

-----------------------------------------------------------------------------

(* The threads that are spending a reference to s.                         *)
Spending(s) == {t \in Threads : pc[t] \in {"use", "drop", "last"} /\ arg[t] = s}

(* A buffer in the free list is in it once, and nobody has a reference to  *)
(* it: get_space() never hands out a buffer that someone still reads.      *)
NoSharing ==
  /\ \A i, j \in DOMAIN head : head[i] = head[j] => i = j
  /\ \A s \in Spaces : Listed(s) => refs[s] = 0 /\ Spending(s) = {}

(* The use count of an unlocked buffer is its number of references, those  *)
(* that are being spent included.                                          *)
UseCounts ==
  \A s \in Spaces :
    useBy[s] = NoThread => use[s] = refs[s] + Cardinality(Spending(s))

(* assert(pool->limit != 0) before a new buffer is made, and               *)
(* assert(use != 0) in drop_space().                                       *)
Asserts ==
  \A t \in Threads :
    /\ pc[t] = "pull" /\ head = <<>> => limit # 0
    /\ pc[t] = "drop" /\ useBy[arg[t]] = NoThread => use[arg[t]] # 0

(* No buffer is lost: each is in the list, or referenced, or on its way;   *)
(* and with every user done they are all back in the list, as free_pool()  *)
(* asserts: assert(count == pool->made).                                   *)
NoneLost ==
  /\ \A s \in born :
       \/ Listed(s) \/ refs[s] > 0 \/ Spending(s) # {}
       \/ \E t \in Threads : pc[t] = "popped" /\ arg[t] = s
  /\ Quiet /\ Unreferenced => Len(head) = Cardinality(born)

(* Whatever the others do, a call of get_space(), use_space() or           *)
(* drop_space() returns: the two orders in which the locks are taken do    *)
(* not meet, and a getter that waits is woken by a drop.                   *)
CallsEnd == \A t \in Threads : pc[t] # "idle" ~> pc[t] = "idle"

(* The pool as its users see it: a call takes effect when it changes the   *)
(* list or, if it does not, when it changes the count.                     *)
Abstract == INSTANCE SpacePool WITH
  count <- [s \in Spaces |->
              IF Listed(s) \/ s \notin born THEN 0
              ELSE IF \E t \in Threads : pc[t] = "popped" /\ arg[t] = s THEN 1
              ELSE use[s]]

(* Every step inside the calls is an atomic get, use or drop, or changes   *)
(* nothing a user can see.                                                 *)
Implements == Abstract!Spec
=============================================================================
