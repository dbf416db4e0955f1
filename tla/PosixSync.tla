------------------------------ MODULE PosixSync ------------------------------
(***************************************************************************)
(* The events and semaphores of C/Threads.c on POSIX systems: a value      *)
(* under a mutex, and a condition variable that waiters sleep on.          *)
(*                                                                         *)
(* A call locks the mutex, looks at the value, and either changes it and   *)
(* unlocks, or sleeps, which gives the mutex back, and starts again when   *)
(* it is woken, by a broadcast or for no reason (pthread_cond_wait may     *)
(* return spuriously).  The value is changed before the broadcast, both    *)
(* under the mutex.                                                        *)
(***************************************************************************)
EXTENDS Naturals, SyncObjects

CONSTANTS
    Threads,   \* the threads that use the object
    MaxCount   \* _maxCount of a semaphore

ASSUME PosixSyncAssumption == MaxCount \in Nat \ {0}

VARIABLES
    kind,          \* CEvent with _manual_reset or without it, CSemaphore
    state, count,  \* _state, _count
    mutex,         \* the threads that have _mutex: none or one
    newCount,      \* ReleaseN's local variable
    pc,            \* where each thread is
    op, releaseCount, result   \* its call, argument and return value

syncVars == <<kind, state, count, mutex, newCount, pc, op, releaseCount, result>>

(* Event_Create, Semaphore_Create with legal arguments. *)
SyncInit ==
    /\ kind \in {"manual", "auto", "semaphore"}
    /\ state \in BOOLEAN
    /\ count \in 0..MaxCount
    /\ mutex = {}
    /\ newCount = [t \in Threads |-> 0]
    /\ pc = [t \in Threads |-> "idle"]
    /\ op = [t \in Threads |-> "none"]
    /\ releaseCount = [t \in Threads |-> 1]
    /\ result = [t \in Threads |-> "none"]

Calls == IF kind = "semaphore" THEN {"wait", "release"}
                               ELSE {"wait", "set", "reset"}

(* Somebody calls; releaseCount is at least 1, else EINVAL at once. *)
Call(t) ==
    /\ pc[t] = "idle"
    /\ \E call \in Calls : op' = [op EXCEPT ![t] = call]
    /\ \E n \in 1..MaxCount + 1 : releaseCount' = [releaseCount EXCEPT ![t] = n]
    /\ pc' = [pc EXCEPT ![t] = "lock"]
    /\ UNCHANGED <<kind, state, count, mutex, newCount, result>>

(* Faulty: the value is looked at without the mutex. *)
MutexFree_NoLock == TRUE

MutexFree == mutex = {}

(* pthread_mutex_lock, also the one at the end of pthread_cond_wait. *)
LockMutex(t) ==
    /\ pc[t] = "lock"
    /\ MutexFree
    /\ mutex' = mutex \cup {t}
    /\ pc' = [pc EXCEPT ![t] = "locked"]
    /\ UNCHANGED <<kind, state, count, newCount, op, releaseCount, result>>

(* The call has had its effect. *)
Done(t, res, where) ==
    /\ pc' = [pc EXCEPT ![t] = where]
    /\ result' = [result EXCEPT ![t] = res]
    /\ UNCHANGED <<kind, mutex, newCount, op, releaseCount>>

SetState(t) ==
    /\ pc[t] = "locked" /\ op[t] = "set"
    /\ state' = Event_Set(state)
    /\ Done(t, "ok", "broadcast")
    /\ UNCHANGED count

ResetState(t) ==
    /\ pc[t] = "locked" /\ op[t] = "reset"
    /\ state' = Event_Reset(state)
    /\ Done(t, "ok", "unlock")
    /\ UNCHANGED count

(* Semaphore_ReleaseN computes the new count ... *)
Add(t) ==
    /\ pc[t] = "locked" /\ op[t] = "release"
    /\ newCount' = [newCount EXCEPT ![t] = count + releaseCount[t]]
    /\ pc' = [pc EXCEPT ![t] = "post"]
    /\ UNCHANGED <<kind, state, count, mutex, op, releaseCount, result>>

(* ... and stores it if it fits, else it changes nothing and wakes nobody. *)
Post(t) ==
    /\ pc[t] = "post"
    /\ \/ /\ newCount[t] > MaxCount
          /\ Done(t, "too many", "unlock")
          /\ UNCHANGED count
       \/ /\ newCount[t] <= MaxCount
          /\ count' = newCount[t]
          /\ Done(t, "ok", "broadcast")
    /\ UNCHANGED state

Signaled == IF kind = "semaphore" THEN Semaphore_CanWait(count)
                                  ELSE Event_CanWait(state)

(* The condition of a wait's while loop: leave it, or pthread_cond_wait.   *)
CheckWait(t) ==
    /\ pc[t] = "locked" /\ op[t] = "wait"
    /\ IF Signaled THEN pc' = [pc EXCEPT ![t] = "take"] /\ UNCHANGED mutex
                   ELSE pc' = [pc EXCEPT ![t] = "asleep"] /\ mutex' = mutex \ {t}
    /\ UNCHANGED <<kind, state, count, newCount, op, releaseCount, result>>

(* Faulty: the event stays signaled for the next waiter. *)
TakeEvent_Kept(t) ==
    /\ pc[t] = "take" /\ kind # "semaphore"
    /\ Done(t, "ok", "unlock")
    /\ UNCHANGED <<state, count>>

(* Event_Wait after its loop. *)
TakeEvent(t) ==
    /\ pc[t] = "take" /\ kind # "semaphore"
    /\ state' = Event_Wait(kind = "manual", state)
    /\ Done(t, "ok", "unlock")
    /\ UNCHANGED count

(* Semaphore_Wait after its loop. *)
TakeCount(t) ==
    /\ pc[t] = "take" /\ kind = "semaphore"
    /\ count' = Semaphore_Wait(count)
    /\ Done(t, "ok", "unlock")
    /\ UNCHANGED state

WakeSpuriously(t) ==
    /\ pc[t] = "asleep"
    /\ pc' = [pc EXCEPT ![t] = "lock"]
    /\ UNCHANGED <<kind, state, count, mutex, newCount, op, releaseCount, result>>

Asleep == {t \in Threads : pc[t] = "asleep"}

(* Faulty: pthread_cond_signal, which wakes one. *)
Woken_One == IF Asleep = {} THEN {} ELSE {CHOOSE t \in Asleep : TRUE}

(* pthread_cond_broadcast wakes all. *)
Woken == Asleep

Broadcast(t) ==
    /\ pc[t] = "broadcast"
    /\ pc' = [u \in Threads |-> IF u = t THEN "unlock"
                                ELSE IF u \in Woken THEN "lock" ELSE pc[u]]
    /\ UNCHANGED <<kind, state, count, mutex, newCount, op, releaseCount, result>>

(* pthread_mutex_unlock, and the call returns. *)
UnlockMutex(t) ==
    /\ pc[t] = "unlock"
    /\ mutex' = mutex \ {t}
    /\ pc' = [pc EXCEPT ![t] = "idle"]
    /\ op' = [op EXCEPT ![t] = "none"]
    /\ result' = [result EXCEPT ![t] = "none"]
    /\ newCount' = [newCount EXCEPT ![t] = 0]
    /\ UNCHANGED <<kind, state, count, releaseCount>>

Step(t) == \/ Call(t) \/ LockMutex(t)
           \/ SetState(t) \/ ResetState(t) \/ Add(t) \/ Post(t)
           \/ CheckWait(t) \/ TakeEvent(t) \/ TakeCount(t)
           \/ WakeSpuriously(t) \/ Broadcast(t) \/ UnlockMutex(t)

SyncNext == \E t \in Threads : Step(t)

SyncSpec == SyncInit /\ [][SyncNext]_syncVars

-----------------------------------------------------------------------------
SyncPlaces == {"idle", "lock", "locked", "take", "post", "asleep",
               "broadcast", "unlock"}

SyncTypeOK ==
    /\ kind \in {"manual", "auto", "semaphore"}
    /\ state \in BOOLEAN
    /\ count \in 0..MaxCount
    /\ mutex \subseteq Threads
    /\ newCount \in [Threads -> 0..2 * MaxCount + 1]
    /\ pc \in [Threads -> SyncPlaces]
    /\ op \in [Threads -> {"none", "wait", "set", "reset", "release"}]
    /\ releaseCount \in [Threads -> 1..MaxCount + 1]
    /\ result \in [Threads -> {"none", "ok", "too many"}]

(* No wakeup is lost: nobody sleeps on a signaled object, except while the *)
(* thread that signaled it is on its way to the broadcast.  In particular  *)
(* ReleaseN of several wakes as many, and a wait that comes between a      *)
(* check and a sleep of another cannot eat the broadcast.                  *)
NoLostWakeup ==
    Signaled => \/ Asleep = {}
                \/ \E t \in Threads : pc[t] = "broadcast"

(* The calls take effect one at a time, each once: see SyncObject. *)
Object == INSTANCE SyncObject
ImplementsObject == Object!Spec
=============================================================================
