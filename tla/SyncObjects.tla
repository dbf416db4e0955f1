---------------------------- MODULE SyncObjects ----------------------------
(***************************************************************************)
(* The synchronization objects of C/Threads.c as pure operators: what one  *)
(* call does to the value the object holds.  Every function of Threads.c   *)
(* does its work while it holds the object's mutex, so for the components  *)
(* built on them a call is one atomic step; module PosixSync shows that    *)
(* the mutex / condition-variable code really implements these steps.      *)
(*                                                                         *)
(* An event is its _state flag, a semaphore its _count.  A wait is enabled *)
(* when the operator ...CanWait holds and leaves the value ...Wait.        *)
(***************************************************************************)
EXTENDS Naturals

(* Event_Set: _state = True, then a broadcast. *)
Event_Set(state) == TRUE

Event_Reset(state) == FALSE

Event_CanWait(state) == state

(* Event_Wait leaves a manual-reset event signaled and consumes the other. *)
Event_Wait(manualReset, state) == manualReset /\ state

Semaphore_CanWait(count) == count >= 1

Semaphore_Wait(count) == count - 1

(* ReleaseN posts all of releaseCount or nothing: beyond maxCount it fails *)
(* with ERROR_TOO_MANY_POSTS and leaves the count as it is.                *)
Semaphore_ReleaseN(count, maxCount, releaseCount) ==
    IF count + releaseCount > maxCount THEN count ELSE count + releaseCount
=============================================================================
