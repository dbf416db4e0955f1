----------------------------- MODULE SyncObject -----------------------------
(***************************************************************************)
(* What C/Threads.c promises of an event or a semaphore: every call takes  *)
(* effect at one moment between its beginning and its return, and that of  *)
(* a wait only when the object is signaled.  The other components of this  *)
(* project use the objects at this level, one call being one step.         *)
(***************************************************************************)
EXTENDS Naturals, SyncObjects

CONSTANTS Threads, MaxCount

VARIABLES kind,          \* CEvent with _manual_reset or without, CSemaphore
          state,         \* _state of an event
          count,         \* _count of a semaphore
          op,            \* the call each thread is in
          releaseCount,  \* its argument
          result         \* "none" before the effect of the call

callVars == <<op, releaseCount>>
objectVars == <<kind, state, count, callVars, result>>

Init ==
    /\ kind \in {"manual", "auto", "semaphore"}
    /\ state \in BOOLEAN
    /\ count \in 0..MaxCount
    /\ op = [t \in Threads |-> "none"]
    /\ releaseCount = [t \in Threads |-> 1]
    /\ result = [t \in Threads |-> "none"]

Calls == IF kind = "semaphore" THEN {"wait", "release"}
                               ELSE {"wait", "set", "reset"}

Call(t) ==
    /\ op[t] = "none"
    /\ \E call \in Calls : op' = [op EXCEPT ![t] = call]
    /\ \E n \in 1..MaxCount + 1 : releaseCount' = [releaseCount EXCEPT ![t] = n]
    /\ UNCHANGED <<kind, state, count, result>>

Done(t, res) ==
    /\ result' = [result EXCEPT ![t] = res]
    /\ UNCHANGED <<kind, callVars>>

Set(t) == /\ op[t] = "set" /\ result[t] = "none"
          /\ state' = Event_Set(state) /\ Done(t, "ok")
          /\ UNCHANGED count

Reset(t) == /\ op[t] = "reset" /\ result[t] = "none"
            /\ state' = Event_Reset(state) /\ Done(t, "ok")
            /\ UNCHANGED count

WaitEvent(t) == /\ op[t] = "wait" /\ kind # "semaphore" /\ result[t] = "none"
                /\ Event_CanWait(state)
                /\ state' = Event_Wait(kind = "manual", state) /\ Done(t, "ok")
                /\ UNCHANGED count

WaitSemaphore(t) == /\ op[t] = "wait" /\ kind = "semaphore" /\ result[t] = "none"
                    /\ Semaphore_CanWait(count)
                    /\ count' = Semaphore_Wait(count) /\ Done(t, "ok")
                    /\ UNCHANGED state

(* ERROR_TOO_MANY_POSTS exactly when the posts do not fit. *)
Release(t) ==
    /\ op[t] = "release" /\ result[t] = "none"
    /\ count' = Semaphore_ReleaseN(count, MaxCount, releaseCount[t])
    /\ Done(t, IF count + releaseCount[t] > MaxCount THEN "too many" ELSE "ok")
    /\ UNCHANGED state

Return(t) ==
    /\ result[t] # "none"
    /\ op' = [op EXCEPT ![t] = "none"]
    /\ result' = [result EXCEPT ![t] = "none"]
    /\ UNCHANGED <<kind, state, count, releaseCount>>

Next == \E t \in Threads : \/ Call(t) \/ Return(t)
                           \/ Set(t) \/ Reset(t) \/ Release(t)
                           \/ WaitEvent(t) \/ WaitSemaphore(t)

Spec == Init /\ [][Next]_objectVars
=============================================================================
