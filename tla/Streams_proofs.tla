---------------------------- MODULE Streams_proofs ----------------------------
(***************************************************************************)
(* Theorems about the streams between components: the stream binder, the   *)
(* events and semaphores of C/Threads.c below it, and, in the last part,   *)
(* the cache between the zip writer and the file.                          *)
(***************************************************************************)
EXTENDS StreamBinder, PosixSync, CacheStream, SequenceTheorems,
        WellFoundedInduction, TLAPS

-----------------------------------------------------------------------------
(***************************************************************************)
(* Theorems about the stream binder, for every stream length and every     *)
(* bound on the sizes of Read and Write; and, after them, about the        *)
(* events and semaphores of C/Threads.c that it and all other components   *)
(* are built on, for any number of threads and any maximal count.          *)
(*                                                                         *)
(* The binder's invariant follows the buffer through the hand-over.  While *)
(* reading is open, exactly one of these tokens exists during a Write: the *)
(* event (buffer lent, not yet seen), _waitWrite = false (reader owns it), *)
(* the reader's pending post, or the semaphore post.                       *)
(*                                                                         *)
(* In the mutex and condition-variable code below it, what a thread found  *)
(* out about the value (at "take": signaled; at "post": the new count)     *)
(* stays true because only the holder of the mutex changes the value, and  *)
(* there is one holder.                                                    *)
(***************************************************************************)

InWrite == wpc \in {"store", "set", "lock", "finish"}

(* What is in the buffer, what was read and what was reported add up. *)
Accounting ==
    /\ wPos <= ProcessedSize
    /\ ReportedIsRead
    /\ wpc \in {"set", "lock", "finish"} =>
            /\ ProcessedSize + bufSize = wPos + wsize
            /\ buf = ProcessedSize
    /\ wpc = "set" => bufSize = wsize
    /\ InWrite => wsize >= 1 /\ wPos + wsize <= StreamLen

(* Who may touch the buffer while the reader's stream is open. *)
OpenTokens ==
    ~rClosed =>
        /\ ~readingWasClosed2
        /\ wpc \in {"idle", "store", "set", "finish", "closing"} =>
                waitWrite /\ ~canRead /\ canWrite = 0
        /\ wpc \in {"idle", "store", "finish", "closing", "closed"} => bufSize = 0
        /\ wpc = "closed" => canWrite = 0 /\ (canRead => waitWrite)
        /\ wpc = "lock" =>
            \/ canRead /\ waitWrite /\ bufSize = wsize /\ canWrite = 0
            \/ ~canRead /\ ~waitWrite /\ bufSize > 0 /\ canWrite = 0
            \/ ~canRead /\ waitWrite /\ bufSize = 0
               /\ canWrite = IF rpc = "release" THEN 0 ELSE 1

(* What each place in Read and Write implies. *)
Places ==
    /\ rClosed => rpc = "idle"
    /\ rpc = "lock" => waitWrite /\ rsize >= 1
    /\ rpc = "copy" => ~waitWrite /\ rsize >= 1
    /\ rpc = "release" => wpc = "lock" /\ bufSize = 0 /\ waitWrite
    /\ rEof => wpc = "closed"
    /\ wRes = "cut" => readingWasClosed2
    /\ readingWasClosed2 => rClosed /\ wpc \in {"idle", "closing", "closed"}

IInv == TypeOK /\ Accounting /\ OpenTokens /\ Places

(* The flags are apart from the rest: their types need no arithmetic. *)
Rest == CountersOK /\ PlacesOK /\ Accounting /\ OpenTokens /\ Places

LEMMA InitIInv == Init => IInv
<1>1. Init => FlagsOK BY DEF Init, FlagsOK
<1>2. Init => Rest
  BY BinderAssumption DEF Init, Rest, CountersOK, PlacesOK, Accounting, OpenTokens, Places,
     InWrite, ReportedIsRead, NULL, kSemaphoreMaxCount
<1> QED BY <1>1, <1>2 DEF IInv, TypeOK, Rest

LEMMA StepFlags == FlagsOK /\ [Next]_vars => FlagsOK'
<1> SUFFICES ASSUME FlagsOK, [Next]_vars PROVE FlagsOK' OBVIOUS
<1> USE DEF FlagsOK, vars, binderVars, readerVars, writerVars
<1>1. CASE Reader
  BY <1>1 DEF Reader, ReadCall, ReadLock, ReadCopy, ReadRelease, CloseRead_CallOnce, Event_Wait
<1>2. CASE Writer
  BY <1>2 DEF Writer, WriteCall, WriteCallCut, WriteStore, WriteSet, WriteLock, WriteFinish,
     CloseWriteStore, CloseWriteSet, Event_Set
<1>3. CASE Create_ReInit BY <1>3 DEF Create_ReInit, Event_Reset
<1>4. CASE UNCHANGED vars BY <1>4
<1> QED BY <1>1, <1>2, <1>3, <1>4 DEF Next

(* Preservation, one step per action of the code. *)
LEMMA StepRest == Rest /\ [Next]_vars => Rest'
<1> SUFFICES ASSUME Rest, [Next]_vars PROVE Rest' OBVIOUS
<1> USE BinderAssumption
    DEF Rest, CountersOK, PlacesOK, Accounting, OpenTokens, Places, InWrite,
        ReportedIsRead, vars, binderVars, readerVars, writerVars,
        kSemaphoreMaxCount, NULL
<1>1. ASSUME NEW size \in 1..MaxRead, ReadCall(size) PROVE Rest' BY <1>1 DEF ReadCall
<1>2. CASE ReadLock
  <2>1. /\ rpc = "lock" /\ canRead
        /\ ~canRead' /\ ~waitWrite'
        /\ rpc' = "copy"
        /\ UNCHANGED <<buf, bufSize, readingWasClosed2, ProcessedSize,
                       canWrite, rsize, rEof, rClosed, writerVars>>
    BY <1>2 DEF ReadLock, Event_CanWait, Event_Wait
  <2> QED BY <2>1
<1>3. CASE ReadCopy
  <2> DEFINE n == Lesser(rsize, bufSize)
  <2>1. n \in Nat /\ n <= bufSize /\ n <= rsize /\ (n = 0 <=> bufSize = 0)
    BY <1>3 DEF ReadCopy, Lesser
  <2>2. /\ buf' = IF n = 0 THEN buf ELSE buf + n
        /\ bufSize' = bufSize - n
        /\ ProcessedSize' = ProcessedSize + n
        /\ rpc' = IF n # 0 /\ bufSize = n THEN "release" ELSE "idle"
        /\ rpc = "copy"
        /\ UNCHANGED <<canWrite, rsize, writerVars>>
    BY <1>3 DEF ReadCopy
  <2>3. /\ rEof' <=> n = 0
        /\ waitWrite' <=> (waitWrite \/ (n # 0 /\ bufSize = n))
        /\ UNCHANGED <<readingWasClosed2, canRead, rClosed>>
    BY <1>3 DEF ReadCopy
  <2>4. ~waitWrite /\ ~rClosed BY <2>2
  <2>5. wpc \in {"lock", "closed"} /\ (wpc = "closed" <=> n = 0) BY <2>1, <2>2, <2>4
  <2> HIDE DEF n
  <2>6. CountersOK' /\ PlacesOK' /\ Accounting' BY <2>1, <2>2, <2>5
  <2>7. rEof' => wpc' = "closed" BY <2>2, <2>3, <2>5, Zenon
  <2>8. waitWrite' <=> rpc' = "release" BY <2>2, <2>3, <2>4, Zenon
  <2>9. bufSize' = 0 <=> (wpc = "closed" \/ rpc' = "release") BY <2>1, <2>2, <2>5
  <2>10. Places' BY <2>2, <2>3, <2>4, <2>5, <2>7, <2>8, <2>9
  <2>11. OpenTokens' BY <2>4, <2>9, <2>2, <2>3, <2>5, <2>6, <2>8
  <2> QED BY <2>6, <2>10, <2>11
<1>4. CASE ReadRelease BY <1>4 DEF ReadRelease, Semaphore_ReleaseN
<1>5. CASE CloseRead_CallOnce BY <1>5 DEF CloseRead_CallOnce, Semaphore_ReleaseN
<1>6. ASSUME NEW size \in 1..MaxWrite, WriteCall(size) PROVE Rest' BY <1>6 DEF WriteCall
<1>7. ASSUME NEW size \in 1..MaxWrite, WriteCallCut(size) PROVE Rest' BY <1>7 DEF WriteCallCut
<1>8. CASE WriteStore BY <1>8 DEF WriteStore
<1>9. CASE WriteSet BY <1>9 DEF WriteSet, Event_Set
<1>10. CASE WriteLock BY <1>10 DEF WriteLock, Semaphore_CanWait, Semaphore_Wait
<1>11. CASE WriteFinish
  <2> DEFINE done == wsize - bufSize
  <2>1. /\ wpc = "finish"
        /\ wPos' = wPos + done
        /\ wRes' = IF done # 0 THEN "ok" ELSE "cut"
        /\ readingWasClosed2' <=> done = 0
        /\ wpc' = "idle"
        /\ UNCHANGED <<buf, bufSize, waitWrite, ProcessedSize, canRead,
                       canWrite, readerVars, wsize>>
    BY <1>11 DEF WriteFinish
  <2> QED BY <2>1
<1>12. CASE CloseWriteStore BY <1>12 DEF CloseWriteStore
<1>13. CASE CloseWriteSet BY <1>13 DEF CloseWriteSet, Event_Set
<1>14. CASE Create_ReInit BY <1>14 DEF Create_ReInit, Event_Reset
<1>15. CASE UNCHANGED vars BY <1>15
<1> QED BY <1>1, <1>2, <1>3, <1>4, <1>5, <1>6, <1>7, <1>8, <1>9, <1>10, <1>11,
<1>12, <1>13, <1>14, <1>15 DEF Next, Reader, Writer

LEMMA StepIInv == IInv /\ [Next]_vars => IInv'
  BY StepFlags, StepRest DEF IInv, TypeOK, Rest

(* Each property of the binder follows from the invariant. *)
LEMMA Consequences ==
    IInv => /\ TypeOK /\ LentBufferStable /\ ReadsInOrder /\ ReportedIsRead
            /\ TruthfulEnds /\ PostsFit
<1> SUFFICES ASSUME IInv
             PROVE  /\ TypeOK /\ LentBufferStable /\ ReadsInOrder
                    /\ ReportedIsRead /\ TruthfulEnds /\ PostsFit
  OBVIOUS
<1> USE DEF IInv, TypeOK, PlacesOK, CountersOK, Accounting, OpenTokens, Places,
            InWrite, ReportedIsRead, kSemaphoreMaxCount
<1>1. LentBufferStable BY DEF LentBufferStable
<1>2. ReadsInOrder BY <1>1 DEF ReadsInOrder, LentBufferStable
<1>3. CutOnlyAfterLastData BY DEF CutOnlyAfterLastData
<1>4. EofOnlyAtEnd BY DEF EofOnlyAtEnd
<1>5. PostsFit BY DEF PostsFit
<1> QED BY <1>1, <1>2, <1>3, <1>4, <1>5 DEF IInv, TypeOK, Accounting, TruthfulEnds

(* The types and bounds of TypeOK hold in every reachable state. *)
THEOREM TypeCorrect == Spec => []TypeOK
  BY InitIInv, StepIInv, Consequences, PTL DEF Spec

(* Read and Write never use the lent buffer at the same time. *)
THEOREM NoRaceOnBuffer == Spec => []LentBufferStable
  BY InitIInv, StepIInv, Consequences, PTL DEF Spec

(* Every byte is delivered once and in order, and the writer is told       *)
(* exactly what was read.                                                  *)
THEOREM Delivery == Spec => [](ReadsInOrder /\ ReportedIsRead)
  BY InitIInv, StepIInv, Consequences, PTL DEF Spec

(* Cut and end of stream are reported only when they are true. *)
THEOREM EndsAreTrue == Spec => []TruthfulEnds
  BY InitIInv, StepIInv, Consequences, PTL DEF Spec

(* No post of the semaphore is ever refused. *)
THEOREM NoPostLost == Spec => []PostsFit
  BY InitIInv, StepIInv, Consequences, PTL DEF Spec

-----------------------------------------------------------------------------
(* Refinement: the binder implements the byte pipe.                        *)

LEMMA PipeInit == Init => Pipe!Init
  BY DEF Init, Pipe!Init

LEMMA PipeStep == IInv /\ [Next]_vars => [Pipe!Next]_(Pipe!pipeVars)
<1> SUFFICES ASSUME IInv, [Next]_vars
             PROVE  Pipe!Next \/ UNCHANGED Pipe!pipeVars
  OBVIOUS
<1> USE DEF IInv, TypeOK, PlacesOK, CountersOK, Accounting, OpenTokens, Places,
            InWrite, ReportedIsRead, vars, binderVars, readerVars, writerVars,
            Pipe!pipeVars
<1>1. ASSUME NEW size \in 1..MaxRead, ReadCall(size)
      PROVE  UNCHANGED Pipe!pipeVars
  BY <1>1 DEF ReadCall
<1>2. CASE ReadLock BY <1>2 DEF ReadLock
<1>3. CASE ReadCopy
  <2> DEFINE n == Lesser(rsize, bufSize)
  <2>1. n \in Nat /\ n <= bufSize /\ n <= rsize /\ (n = 0 <=> bufSize = 0)
    BY <1>3 DEF ReadCopy, Lesser
  <2>2. /\ rpc = "copy" /\ ~waitWrite /\ ~rClosed
        /\ ProcessedSize' = ProcessedSize + n
        /\ rEof' = (n = 0)
        /\ UNCHANGED <<rClosed, wpc, wsize, wPos, wRes>>
    BY <1>3 DEF ReadCopy
  <2>3. wpc \in {"lock", "closed"} /\ (wpc = "closed" <=> n = 0) BY <2>1, <2>2
  <2> HIDE DEF n
  <2>4. CASE n = 0
    <3>1. Pipe!ReadEof
      <4>1. wpc = "closed" /\ ProcessedSize = wPos /\ ProcessedSize' = ProcessedSize
        BY <2>2, <2>3, <2>4
      <4>2. rEof' = TRUE BY <2>2, <2>4
      <4> QED BY <2>2, <4>1, <4>2 DEF Pipe!ReadEof
    <3> QED BY <3>1 DEF Pipe!Next
  <2>5. CASE n # 0
    <3>1. rEof' = FALSE BY <2>2, <2>5
    <3>2. wpc = "lock" /\ n \in 1..MaxRead /\ wsize # 0
          /\ ProcessedSize + n <= wPos + wsize
      BY <2>3, <2>5, <2>1, BinderAssumption
    <3>3. Pipe!Take(n) BY <2>2, <3>1, <3>2 DEF Pipe!Take
    <3> QED BY <3>2, <3>3 DEF Pipe!Next
  <2> QED BY <2>4, <2>5
<1>4. CASE ReadRelease BY <1>4 DEF ReadRelease
<1>5. CASE CloseRead_CallOnce BY <1>5 DEF CloseRead_CallOnce, Pipe!Next, Pipe!CloseRead
<1>6. ASSUME NEW size \in 1..MaxWrite, WriteCall(size)
      PROVE  Pipe!BeginWrite(size)
  BY <1>6 DEF WriteCall, Pipe!BeginWrite
<1>7. ASSUME NEW size \in 1..MaxWrite, WriteCallCut(size)
      PROVE  Pipe!CutWrite
  BY <1>7 DEF WriteCallCut, Pipe!CutWrite
<1>8. CASE WriteStore BY <1>8 DEF WriteStore
<1>9. CASE WriteSet BY <1>9 DEF WriteSet
<1>10. CASE WriteLock BY <1>10 DEF WriteLock
<1>11. CASE WriteFinish BY <1>11 DEF WriteFinish, Pipe!Next, Pipe!CutWrite, Pipe!EndWrite
<1>12. CASE CloseWriteStore BY <1>12 DEF CloseWriteStore, Pipe!Next, Pipe!CloseWrite
<1>13. CASE CloseWriteSet BY <1>13 DEF CloseWriteSet
<1>14. CASE Create_ReInit BY <1>14 DEF Create_ReInit, Pipe!Next, Pipe!Reset
<1>15. CASE UNCHANGED vars BY <1>15
<1> QED BY <1>1, <1>2, <1>3, <1>4, <1>5, <1>6, <1>7, <1>8, <1>9, <1>10, <1>11,
<1>12, <1>13, <1>14, <1>15 DEF Next, Reader, Writer, Pipe!Next

(* The binder implements the abstract byte pipe, for all constants. *)
THEOREM BinderImplementsPipe == Spec => ImplementsPipe
  BY PipeInit, PipeStep, InitIInv, StepIInv, PTL DEF Spec, ImplementsPipe, Pipe!Spec

-----------------------------------------------------------------------------
(* Events and semaphores: PosixSync.                                       *)

Inside == {"locked", "take", "post", "broadcast", "unlock"}

MutexInv ==
    /\ \A t \in Threads : t \in mutex <=> pc[t] \in Inside
    /\ \A t, u \in mutex : t = u

CallOk(t) ==
    /\ op[t] = "none" <=> pc[t] = "idle"
    /\ result[t] = "none" <=> pc[t] \notin {"broadcast", "unlock"}
    /\ pc[t] = "asleep" => op[t] = "wait"
    /\ pc[t] = "take" => op[t] = "wait" /\ Signaled
    /\ pc[t] = "post" => /\ op[t] = "release"
                         /\ newCount[t] = count + releaseCount[t]

CallInv == \A t \in Threads : CallOk(t)

SyncInv == SyncTypeOK /\ MutexInv /\ CallInv /\ NoLostWakeup

USE PosixSyncAssumption DEF PosixSyncAssumption

LEMMA Bounds ==
    ASSUME SyncTypeOK, NEW t \in Threads
    PROVE  /\ MaxCount \in Nat /\ count \in Nat /\ releaseCount[t] \in Nat
           /\ 0 \in 0..2 * MaxCount + 1
           /\ count + releaseCount[t] \in 0..2 * MaxCount + 1
           /\ newCount[t] \in Nat
           /\ count >= 1 => count - 1 \in 0..MaxCount
<1>1. /\ count \in 0..MaxCount
      /\ releaseCount[t] \in 1..MaxCount + 1
      /\ newCount[t] \in 0..2 * MaxCount + 1
  BY DEF SyncTypeOK
<1> QED BY <1>1

LEMMA SyncTypeInit == SyncInit => SyncTypeOK
  BY DEF SyncInit, SyncTypeOK, SyncPlaces

LEMMA SyncInitInv == SyncInit => SyncInv
  BY SyncTypeInit DEF SyncInit, MutexInv, Inside, CallInv, CallOk, NoLostWakeup, Asleep, SyncInv

LEMMA PostCount ==
    ASSUME SyncTypeOK, NEW t \in Threads, Post(t)
    PROVE  count' \in 0..MaxCount
<1>1. count \in 0..MaxCount BY DEF SyncTypeOK
<1>2. newCount[t] \in Nat /\ MaxCount \in Nat BY Bounds
<1>3. \/ count' = count
      \/ newCount[t] <= MaxCount /\ count' = newCount[t]
  BY DEF Post
<1> QED BY <1>1, <1>2, <1>3

LEMMA SyncTypeStep == SyncTypeOK /\ CallInv /\ [SyncNext]_syncVars => SyncTypeOK'
<1> SUFFICES ASSUME SyncTypeOK, CallInv, [SyncNext]_syncVars PROVE SyncTypeOK' OBVIOUS
<1> USE DEF SyncTypeOK, SyncPlaces
<1>1. CASE UNCHANGED syncVars BY <1>1 DEF syncVars
<1>2. ASSUME NEW t \in Threads, Step(t) PROVE SyncTypeOK'
  <2>1. CASE Call(t) BY <2>1 DEF Call, Calls
  <2>2. CASE LockMutex(t) BY <2>2 DEF LockMutex
  <2>3. CASE SetState(t) BY <2>3 DEF SetState, Done, Event_Set
  <2>4. CASE ResetState(t) BY <2>4 DEF ResetState, Done, Event_Reset
  <2>5. CASE Add(t)
    <3>1. count + releaseCount[t] \in 0..2 * MaxCount + 1 BY Bounds
    <3>2. newCount' \in [Threads -> 0..2 * MaxCount + 1] BY <2>5, <3>1 DEF Add
    <3> QED BY <2>5, <3>2 DEF Add
  <2>6. CASE Post(t)
    <3>1. count' \in 0..MaxCount BY <2>6, PostCount
    <3> QED BY <2>6, <3>1 DEF Post, Done
  <2>7. CASE CheckWait(t) BY <2>7 DEF CheckWait
  <2>8. CASE TakeEvent(t) BY <2>8 DEF TakeEvent, Done, Event_Wait
  <2>9. CASE TakeCount(t)
    <3>1. count >= 1 BY <2>9 DEF TakeCount, CallInv, CallOk, Signaled, Semaphore_CanWait
    <3>2. count' \in 0..MaxCount BY <2>9, <3>1, Bounds DEF TakeCount, Semaphore_Wait
    <3> QED BY <2>9, <3>2 DEF TakeCount, Done
  <2>10. CASE WakeSpuriously(t) BY <2>10 DEF WakeSpuriously
  <2>11. CASE Broadcast(t) BY <2>11 DEF Broadcast
  <2>12. CASE UnlockMutex(t)
    <3>1. 0 \in 0..2 * MaxCount + 1 BY Bounds
    <3>2. newCount' \in [Threads -> 0..2 * MaxCount + 1] BY <2>12, <3>1 DEF UnlockMutex
    <3> QED BY <2>12, <3>2 DEF UnlockMutex
  <2> QED BY <1>2, <2>1, <2>2, <2>3, <2>4, <2>5, <2>6, <2>7, <2>8, <2>9, <2>10,
  <2>11, <2>12 DEF Step
<1> QED BY <1>1, <1>2 DEF SyncNext

LEMMA MutexStep == SyncInv /\ [SyncNext]_syncVars => MutexInv'
<1> SUFFICES ASSUME SyncInv, [SyncNext]_syncVars PROVE MutexInv' OBVIOUS
<1> USE DEF SyncInv, SyncTypeOK, SyncPlaces, MutexInv, Inside
<1>1. CASE UNCHANGED syncVars BY <1>1 DEF syncVars
<1>2. ASSUME NEW t \in Threads, Step(t) PROVE MutexInv'
  <2>1. CASE Call(t) BY <2>1 DEF Call
  <2>2. CASE LockMutex(t) BY <2>2 DEF LockMutex, MutexFree
  <2>3. CASE SetState(t) BY <2>3 DEF SetState, Done
  <2>4. CASE ResetState(t) BY <2>4 DEF ResetState, Done
  <2>5. CASE Add(t) BY <2>5 DEF Add
  <2>6. CASE Post(t) BY <2>6, ZenonT(60) DEF Post, Done
  <2>7. CASE CheckWait(t) BY <2>7 DEF CheckWait
  <2>8. CASE TakeEvent(t) BY <2>8 DEF TakeEvent, Done
  <2>9. CASE TakeCount(t) BY <2>9 DEF TakeCount, Done
  <2>10. CASE WakeSpuriously(t) BY <2>10 DEF WakeSpuriously
  <2>11. CASE Broadcast(t) BY <2>11 DEF Broadcast, Woken, Asleep
  <2>12. CASE UnlockMutex(t) BY <2>12 DEF UnlockMutex
  <2> QED BY <1>2, <2>1, <2>2, <2>3, <2>4, <2>5, <2>6, <2>7, <2>8, <2>9, <2>10,
  <2>11, <2>12 DEF Step
<1> QED BY <1>1, <1>2 DEF SyncNext

(* The value changes only in the hands of the one that has the mutex; so   *)
(* what another thread knows of it is about a thread outside.              *)
LEMMA CallStep == SyncInv /\ [SyncNext]_syncVars => CallInv'
<1> SUFFICES ASSUME SyncInv, [SyncNext]_syncVars PROVE CallInv' OBVIOUS
<1> SUFFICES ASSUME NEW u \in Threads PROVE CallOk(u)' BY DEF CallInv
<1> CallOk(u) BY DEF SyncInv, CallInv
<1> USE DEF SyncInv, SyncTypeOK, SyncPlaces, Inside, CallOk
<1>1. CASE UNCHANGED syncVars BY <1>1 DEF syncVars, Signaled
<1>2. ASSUME NEW t \in Threads, Step(t) PROVE CallOk(u)'
  <2>0. pc[t] \in Inside /\ u # t => pc[u] \notin Inside BY DEF MutexInv
  <2>1. CASE Call(t) BY <2>0, <2>1 DEF Call, Calls, Signaled
  <2>2. CASE LockMutex(t) BY <2>0, <2>2 DEF LockMutex, Signaled
  <2>3. CASE SetState(t) BY <2>0, <2>3 DEF SetState, Done, Signaled
  <2>4. CASE ResetState(t) BY <2>0, <2>4 DEF ResetState, Done, Signaled
  <2>5. CASE Add(t) BY <2>0, <2>5 DEF Add, Signaled
  <2>6. CASE Post(t) BY <2>0, <2>6 DEF Post, Done, Signaled
  <2>7. CASE CheckWait(t) BY <2>0, <2>7 DEF CheckWait, Signaled
  <2>8. CASE TakeEvent(t) BY <2>0, <2>8 DEF TakeEvent, Done, Signaled
  <2>9. CASE TakeCount(t) BY <2>0, <2>9 DEF TakeCount, Done, Signaled
  <2>10. CASE WakeSpuriously(t) BY <2>0, <2>10 DEF WakeSpuriously, Signaled
  <2>11. CASE Broadcast(t) BY <2>0, <2>11 DEF Broadcast, Woken, Asleep, Signaled
  <2>12. CASE UnlockMutex(t) BY <2>0, <2>12 DEF UnlockMutex, Signaled
  <2> QED BY <1>2, <2>1, <2>2, <2>3, <2>4, <2>5, <2>6, <2>7, <2>8, <2>9, <2>10,
  <2>11, <2>12 DEF Step
<1> QED BY <1>1, <1>2 DEF SyncNext

LEMMA WakeupStep == SyncInv /\ [SyncNext]_syncVars => NoLostWakeup'
<1> SUFFICES ASSUME SyncInv, [SyncNext]_syncVars PROVE NoLostWakeup' OBVIOUS
<1> USE DEF SyncInv, SyncTypeOK, SyncPlaces, NoLostWakeup, Asleep
<1>1. CASE UNCHANGED syncVars BY <1>1 DEF syncVars, Signaled
<1>2. ASSUME NEW t \in Threads, Step(t) PROVE NoLostWakeup'
  <2>1. CASE Call(t) BY <2>1 DEF Call, Signaled
  <2>2. CASE LockMutex(t) BY <2>2 DEF LockMutex, Signaled
  <2>3. CASE SetState(t) BY <2>3 DEF SetState, Done, Signaled
  <2>4. CASE ResetState(t) BY <2>4 DEF ResetState, Done, Signaled, Event_CanWait, Event_Reset
  <2>5. CASE Add(t) BY <2>5 DEF Add, Signaled
  <2>6. CASE Post(t) BY <2>6 DEF Post, Done, Signaled
  <2>7. CASE CheckWait(t) BY <2>7 DEF CheckWait, Signaled
  <2>8. CASE TakeEvent(t) BY <2>8 DEF TakeEvent, Done, Signaled, Event_CanWait, Event_Wait
  <2>9. CASE TakeCount(t)
    <3>1. Signaled BY <2>9 DEF TakeCount, CallInv, CallOk
    <3> QED BY <2>9, <3>1 DEF TakeCount, Done
  <2>10. CASE WakeSpuriously(t) BY <2>10 DEF WakeSpuriously, Signaled
  <2>11. CASE Broadcast(t) BY <2>11 DEF Broadcast, Woken
  <2>12. CASE UnlockMutex(t) BY <2>12 DEF UnlockMutex, Signaled
  <2> QED BY <1>2, <2>1, <2>2, <2>3, <2>4, <2>5, <2>6, <2>7, <2>8, <2>9, <2>10,
  <2>11, <2>12 DEF Step
<1> QED BY <1>1, <1>2 DEF SyncNext

LEMMA SyncStepInv == SyncInv /\ [SyncNext]_syncVars => SyncInv'
  BY SyncTypeStep, MutexStep, CallStep, WakeupStep DEF SyncInv

(* The inductive invariant holds in every reachable state. *)
THEOREM SyncInvariance == SyncSpec => []SyncInv
<1>1. SyncInit => SyncInv BY SyncInitInv
<1>2. SyncInv /\ [SyncNext]_syncVars => SyncInv' BY SyncStepInv
<1> QED BY <1>1, <1>2, PTL DEF SyncSpec

(* Type correctness: in particular a semaphore's count stays in bounds     *)
(* although ReleaseN adds first and compares afterwards, and Wait          *)
(* decrements an unsigned number.                                          *)
THEOREM SyncTypeCorrect == SyncSpec => []SyncTypeOK
<1>1. SyncInv => SyncTypeOK BY DEF SyncInv
<1> QED BY <1>1, SyncInvariance, PTL

(* No wakeup is lost, however many threads wait and signal. *)
THEOREM WakeupsArrive == SyncSpec => []NoLostWakeup
<1>1. SyncInv => NoLostWakeup BY DEF SyncInv
<1> QED BY <1>1, SyncInvariance, PTL

-----------------------------------------------------------------------------
LEMMA ObjectInit == SyncInit => Object!Init
  BY DEF SyncInit, Object!Init

LEMMA ObjectStep == SyncInv /\ [SyncNext]_syncVars => [Object!Next]_(Object!objectVars)
<1> SUFFICES ASSUME SyncInv, [SyncNext]_syncVars
             PROVE  [Object!Next]_(Object!objectVars)
  OBVIOUS
<1> USE DEF Object!objectVars, Object!callVars
<1>1. CASE UNCHANGED syncVars BY <1>1 DEF syncVars
<1>2. ASSUME NEW t \in Threads, Step(t)
      PROVE  [Object!Next]_(Object!objectVars)
  <2>1. CASE Call(t)
    <3>1. Object!Call(t)
      BY <2>1 DEF Call, Calls, Object!Call, Object!Calls, SyncInv, CallInv, CallOk, SyncTypeOK
    <3> QED BY <3>1 DEF Object!Next
  <2>2. CASE LockMutex(t) BY <2>2 DEF LockMutex
  <2>3. CASE SetState(t)
    <3>1. Object!Set(t)
      BY <2>3 DEF SetState, Done, Object!Set, Object!Done, Event_Set, Object!Event_Set, SyncInv,
         CallInv, CallOk
    <3> QED BY <3>1 DEF Object!Next
  <2>4. CASE ResetState(t)
    <3>1. Object!Reset(t)
      BY <2>4 DEF ResetState, Done, Object!Reset, Object!Done, Event_Reset, Object!Event_Reset,
         SyncInv, CallInv, CallOk
    <3> QED BY <3>1 DEF Object!Next
  <2>5. CASE Add(t) BY <2>5 DEF Add
  <2>6. CASE Post(t)
    <3>1. count \in Nat /\ releaseCount[t] \in Nat /\ MaxCount \in Nat BY Bounds DEF SyncInv
    <3>2. /\ op[t] = "release" /\ result[t] = "none"
          /\ newCount[t] = count + releaseCount[t]
      BY <2>6 DEF Post, SyncInv, CallInv, CallOk
    <3>3. \/ /\ count + releaseCount[t] > MaxCount
             /\ count' = count /\ Object!Done(t, "too many")
          \/ /\ ~(count + releaseCount[t] > MaxCount)
             /\ count' = count + releaseCount[t] /\ Object!Done(t, "ok")
      <4>1. CASE newCount[t] > MaxCount /\ Done(t, "too many", "unlock")
                 /\ UNCHANGED count
        BY <3>2, <4>1 DEF Done, Object!Done
      <4>2. CASE newCount[t] <= MaxCount /\ count' = newCount[t]
                 /\ Done(t, "ok", "broadcast")
        <5>1. ~(newCount[t] > MaxCount) BY <3>1, <3>2, <4>2
        <5> QED BY <3>2, <4>2, <5>1 DEF Done, Object!Done
      <4> QED BY <2>6, <4>1, <4>2 DEF Post
    <3>4. Object!Release(t)
      BY <2>6, <3>2, <3>3 DEF Post, Object!Release, Object!Semaphore_ReleaseN
    <3> QED BY <3>4 DEF Object!Next
  <2>7. CASE CheckWait(t) BY <2>7 DEF CheckWait
  <2>8. CASE TakeEvent(t)
    <3>1. Object!WaitEvent(t)
      BY <2>8 DEF TakeEvent, Done, Object!WaitEvent, Object!Done, SyncInv, CallInv, CallOk,
         Signaled, Event_CanWait, Event_Wait, Object!Event_CanWait, Object!Event_Wait
    <3> QED BY <3>1 DEF Object!Next
  <2>9. CASE TakeCount(t)
    <3>1. Object!WaitSemaphore(t)
      BY <2>9 DEF TakeCount, Done, Object!WaitSemaphore, Object!Done, SyncInv, CallInv, CallOk,
         Signaled, Semaphore_CanWait, Semaphore_Wait, Object!Semaphore_CanWait,
         Object!Semaphore_Wait
    <3> QED BY <3>1 DEF Object!Next
  <2>10. CASE WakeSpuriously(t) BY <2>10 DEF WakeSpuriously
  <2>11. CASE Broadcast(t) BY <2>11 DEF Broadcast
  <2>12. CASE UnlockMutex(t)
    <3>1. Object!Return(t) BY <2>12 DEF UnlockMutex, Object!Return, SyncInv, CallInv, CallOk
    <3> QED BY <3>1 DEF Object!Next
  <2> QED BY <1>2, <2>1, <2>2, <2>3, <2>4, <2>5, <2>6, <2>7, <2>8, <2>9, <2>10,
  <2>11, <2>12 DEF Step
<1> QED BY <1>1, <1>2 DEF SyncNext

(* The calls are atomic: the mutex code implements SyncObject, the level   *)
(* at which the other modules use events and semaphores.                   *)
THEOREM CallsAreAtomic == SyncSpec => ImplementsObject
<1>1. SyncInit => Object!Init BY ObjectInit
<1>2. SyncInv /\ [SyncNext]_syncVars => [Object!Next]_(Object!objectVars) BY ObjectStep
<1> QED BY <1>1, <1>2, SyncInvariance, PTL DEF SyncSpec, ImplementsObject, Object!Spec

HIDE PosixSyncAssumption DEF PosixSyncAssumption

-----------------------------------------------------------------------------
(***************************************************************************)
(* Theorems about the cache between the zip writer and the file, for every *)
(* size of the cache, of the file and of the writes, for streams with and  *)
(* without seeking, whatever calls of the stream below fail.               *)
(*                                                                         *)
(* A call of the client is one step of the model and a chain of operations *)
(* in the code, each of which may end it with an error.  So there is one   *)
(* lemma per operation, about the states x that it may be called in and    *)
(* the states y that it may leave, with two things that stay the same all  *)
(* along: d, which is what the client has written, and o, which is what    *)
(* the stream below was when the call began.  Sound(x, d, o) says          *)
(*                                                                         *)
(*   - Below: no byte that was final in o has been touched, and            *)
(*     restrictions have been lifted only at the end of the file;          *)
(*   - Limits: what is final lies before the cached data and before the    *)
(*     restricted area, so that nothing has to be written there again; a   *)
(*     stream that cannot seek stands where the cached data belongs;       *)
(*   - Holds: each byte of d is in the cache, when it is cached, else in   *)
(*     the stream below.                                                   *)
(*                                                                         *)
(* Client adds where the client stands between its calls.  The invariant   *)
(* is Sound and Client of the present state; the step from o to it gives   *)
(* the action property.                                                    *)
(*                                                                         *)
(* The cache is addressed modulo its size.  Distance, Apart and BlockEnds  *)
(* are what that arithmetic comes down to: positions less than a round     *)
(* apart have places of their own, and no block is cut by the end of the   *)
(* memory.                                                                 *)
(***************************************************************************)
(* Arithmetic.                                                             *)

LEMMA QuotientAndRemainder ==
    ASSUME NEW a \in Int, NEW n \in Nat \ {0},
           NEW q \in Int, q = a \div n, NEW r \in Int, r = a % n
    PROVE  a = n * q + r
  OBVIOUS

LEMMA Division ==
    ASSUME NEW a \in Int, NEW n \in Nat \ {0}
    PROVE  \E q \in Int, r \in 0..n - 1 : r = a % n /\ a = n * q + r
  BY QuotientAndRemainder

LEMMA Multiples ==
    ASSUME NEW n \in Nat \ {0}, NEW q \in Int, NEW r \in Int, -n < r, r < n,
           n * q = r
    PROVE  q = 0 /\ r = 0
<1>1. CASE q >= 1
  <2>1. n * q >= n BY <1>1
  <2> QED BY <2>1
<1>2. CASE q <= -1
  <2>1. n * q <= -n BY <1>2
  <2> QED BY <2>1
<1> QED BY <1>1, <1>2

LEMMA Remainder ==
    ASSUME NEW n \in Nat \ {0}, NEW q \in Int, NEW r \in 0..n - 1,
           NEW a \in Int, a = n * q + r
    PROVE  a % n = r
  BY Division, Multiples

(* Where p is found, counted from where b is: two places less than a round *)
(* apart.                                                                  *)
LEMMA Distance ==
    ASSUME NEW n \in Nat \ {0}, NEW p \in Int, NEW b \in Int,
           -n <= p - b, p - b < n
    PROVE  ((p % n) - b) % n = IF b <= p THEN p - b ELSE p - b + n
<1>1. PICK q \in Int, r \in 0..n - 1 : r = p % n /\ p = n * q + r BY Division
<1>2. CASE b <= p
  <2>1. r - b = n * (-q) + (p - b) BY <1>1
  <2>2. -q \in Int /\ p - b \in 0..n - 1 /\ r - b \in Int BY <1>1, <1>2
  <2>3. (r - b) % n = p - b BY <2>1, <2>2, Remainder
  <2> QED BY <1>1, <1>2, <2>3
<1>3. CASE ~(b <= p)
  <2> DEFINE z == -q - 1
  <2>1. z \in Int /\ n * z = n * (-q) - n BY <1>1
  <2>2. r - b = n * z + (p - b + n) BY <1>1, <2>1
  <2>3. p - b + n \in 0..n - 1 /\ r - b \in Int BY <1>1, <1>3
  <2> HIDE DEF z
  <2>4. (r - b) % n = p - b + n BY <2>1, <2>2, <2>3, Remainder
  <2> QED BY <1>1, <1>3, <2>4
<1> QED BY <1>2, <1>3

(* The end of a block is not behind the end of the cache's memory. *)
LEMMA BlockEnds ==
    ASSUME NEW b \in Nat \ {0}, NEW c \in Nat \ {0}, NEW p \in Int
    PROVE  (p % (c * b)) + (b - (p % b)) <= c * b
<1>0. c * b \in Nat \ {0} OBVIOUS
<1>1. PICK q \in Int, r \in 0..b - 1 : r = p % b /\ p = b * q + r BY Division
<1>2. PICK k \in Int, m \in 0..c * b - 1 : m = p % (c * b) /\ p = (c * b) * k + m
  BY <1>0, Division
<1>3. (c * b) * k = b * (c * k) BY <1>2
<1> DEFINE t == q - c * k
<1>4. t \in Int /\ m - r = b * t
  <2>1. t \in Int /\ b * t = b * q - b * (c * k) BY <1>1, <1>2
  <2>2. p = b * q + r /\ p = b * (c * k) + m BY <1>1, <1>2, <1>3
  <2>3. b * q \in Int /\ b * (c * k) \in Int /\ r \in Int /\ m \in Int BY <1>0, <1>1, <1>2
  <2> HIDE DEF t
  <2> QED BY <2>1, <2>2, <2>3
<1> HIDE DEF t
<1>5. t < c
  <2> SUFFICES ASSUME t >= c PROVE FALSE BY <1>4
  <2>1. b * t >= b * c BY <1>4
  <2> QED BY <1>1, <1>2, <1>4, <2>1
<1>6. b * t <= b * (c - 1) BY <1>4, <1>5
<1>7. b * (c - 1) = c * b - b OBVIOUS
<1> QED BY <1>0, <1>1, <1>2, <1>4, <1>6, <1>7

-----------------------------------------------------------------------------
(* Parameters. *)

LEMMA MinTwo == \A a, b \in Int : Min({a, b}) = IF a <= b THEN a ELSE b
  BY DEF Min

LEMMA MaxTwo == \A a, b \in Int : Max({a, b}) = IF a >= b THEN a ELSE b
  BY DEF Max

LEMMA Sizes ==
    /\ CacheSize \in Nat \ {0} /\ CacheBlockSize \in Nat \ {0}
    /\ CacheBlocks \in Nat \ {0} /\ CacheBlockSize <= CacheSize
    /\ Inf \in Nat /\ MaxSize \in Nat /\ Inf = MaxSize + 1
  BY CacheAssumption DEF CacheSize, Inf

-----------------------------------------------------------------------------
(* What is in a file after a write at its end or before.                   *)

Byte == Int \X Int

LEMMA PutFacts ==
    ASSUME NEW data \in Seq(Byte), NEW pos \in 0..Len(data), NEW bytes \in Seq(Byte)
    PROVE  LET r == Put(data, pos, bytes) IN
           /\ r \in Seq(Byte)
           /\ Len(r) = IF pos + Len(bytes) > Len(data) THEN pos + Len(bytes) ELSE Len(data)
           /\ \A k \in 1..Len(r) :
                 r[k] = IF k <= pos THEN data[k]
                        ELSE IF k <= pos + Len(bytes) THEN bytes[k - pos] ELSE data[k]
<1> DEFINE a == SubSeq(data, 1, pos)
           z == SubSeq(data, pos + Len(bytes) + 1, Len(data))
           g == [k \in 1..pos - Len(data) |-> Zero]
<1>0. Len(data) \in Nat /\ pos \in Nat /\ Len(bytes) \in Nat OBVIOUS
<1>1. a \in Seq(Byte) /\ Len(a) = pos /\ \A k \in 1..pos : a[k] = data[k] BY <1>0
<1>2. /\ z \in Seq(Byte)
      /\ Len(z) = IF pos + Len(bytes) < Len(data) THEN Len(data) - (pos + Len(bytes)) ELSE 0
      /\ \A k \in 1..Len(z) : z[k] = data[pos + Len(bytes) + k]
  BY <1>0
<1>3. g = <<>> BY <1>0
<1>4. Min({pos, Len(data)}) = pos BY <1>0, MinTwo
<1>5. Put(data, pos, bytes) = ((a \o g) \o bytes) \o z BY <1>4 DEF Put
<1> HIDE DEF a, z, g
<1>6. a \o g = a BY <1>1, <1>3
<1>7. /\ a \o bytes \in Seq(Byte) /\ Len(a \o bytes) = pos + Len(bytes)
      /\ \A k \in 1..pos + Len(bytes) :
            (a \o bytes)[k] = IF k <= pos THEN data[k] ELSE bytes[k - pos]
  BY <1>0, <1>1, SMTT(30)
<1> DEFINE ab == a \o bytes
<1>13. Len(z) \in Nat /\ Len(a) \in Nat BY <1>1, <1>2
<1>8. Put(data, pos, bytes) = ab \o z BY <1>5, <1>6
<1> HIDE DEF ab
<1>9. ab \in Seq(Byte) /\ Len(ab) = pos + Len(bytes)
      /\ \A k \in 1..pos + Len(bytes) :
            ab[k] = IF k <= pos THEN data[k] ELSE bytes[k - pos]
  BY <1>7 DEF ab
<1>10. /\ ab \o z \in Seq(Byte) /\ Len(ab \o z) = Len(ab) + Len(z)
       /\ \A k \in 1..Len(ab) + Len(z) :
             (ab \o z)[k] = IF k <= Len(ab) THEN ab[k] ELSE z[k - Len(ab)]
  BY <1>2, <1>9, Zenon, ConcatProperties
<1> DEFINE r == ab \o z
           e == pos + Len(bytes)
<1>11. r \in Seq(Byte) /\ Len(r) = e + Len(z)
      /\ \A k \in 1..e + Len(z) : r[k] = IF k <= e THEN ab[k] ELSE z[k - e]
  BY <1>9, <1>10
<1> HIDE DEF r
<1>12. Len(r) = IF e > Len(data) THEN e ELSE Len(data)
  <2>1. Len(z) = IF e < Len(data) THEN Len(data) - e ELSE 0 BY <1>2
  <2>2. Len(r) = e + Len(z) /\ e \in Nat BY <1>0, <1>11
  <2> HIDE DEF e
  <2> QED BY <1>0, <2>1, <2>2
<1>14. ASSUME NEW k \in 1..Len(r)
       PROVE  r[k] = IF k <= pos THEN data[k] ELSE IF k <= e THEN bytes[k - pos] ELSE data[k]
  <2>1. CASE k <= e BY <1>0, <1>9, <1>11, <1>13, <2>1
  <2>2. CASE ~(k <= e)
    <3>1. k - e \in 1..Len(z) /\ r[k] = z[k - e] BY <1>0, <1>11, <1>13, <2>2
    <3> QED BY <1>0, <1>2, <2>2, <3>1
  <2> QED BY <2>1, <2>2
<1> QED BY <1>8, <1>11, <1>12, <1>14 DEF r

LEMMA CutFacts ==
    ASSUME NEW data \in Seq(Byte), NEW n \in 0..Len(data)
    PROVE  /\ SubSeq(data, 1, n) \in Seq(Byte) /\ Len(SubSeq(data, 1, n)) = n
           /\ \A k \in 1..n : SubSeq(data, 1, n)[k] = data[k]
  OBVIOUS

-----------------------------------------------------------------------------
(* The states of the stream and what must be true of them while a call is  *)
(* under way: d is what the client has written, o what the stream below    *)
(* was when the call began.                                                *)

Phy == [data : Seq(Byte), pos : Nat, begin : Nat, final : Nat, atEnd : BOOLEAN]
Cache == [hres : {"ok", "error", "notimpl", "fail"}, cachedSize : Nat,
          cachedPos : Nat, virtPos : Nat, virtSize : Nat, phyPos : Nat,
          phySize : Nat, begin : Nat, end : Nat,
          cache : [0..CacheSize - 1 -> Byte], seekable : BOOLEAN, phy : Phy]

IsCached(x, pos) == x.cachedPos <= pos /\ pos < CachedEnd(x)

(* Nothing that was final has been touched. *)
Below(x, o) ==
    /\ x.phy.final <= Len(x.phy.data) /\ x.phy.atEnd
    /\ o.final <= x.phy.final
    /\ \A k \in 1..o.final : x.phy.data[k] = o.data[k]

(* What may still be written is not final. *)
Limits(x) ==
    /\ IF x.begin = x.end THEN x.begin = 0
       ELSE /\ x.end = Inf /\ x.begin <= MaxSize /\ x.seekable
            /\ x.phy.final <= x.begin
    /\ x.cachedSize > 0 => x.phy.final <= x.cachedPos
    /\ ~x.seekable => /\ x.phyPos = x.phySize
                      /\ x.cachedSize > 0 => x.cachedPos = x.phyPos

(* The cache and the stream below hold d. *)
Holds(x, d) ==
    /\ x.phyPos = x.phy.pos /\ x.phySize = Len(x.phy.data)
    /\ x.cachedSize > 0 => CachedEnd(x) <= Len(d)
    /\ \A pos \in 0..Len(d) - 1 :
          IF IsCached(x, pos) THEN d[pos + 1] = CacheByte(x, pos)
          ELSE pos < x.phySize /\ d[pos + 1] = x.phy.data[pos + 1]

(* What holds after each operation of a call. *)
Sound(x, d, o) ==
    /\ x \in Cache /\ d \in Seq(Byte) /\ o \in Phy
    /\ x.hres \in {"ok", "error"} /\ x.cachedSize <= CacheSize
    /\ Below(x, o)
    /\ x.hres = "ok" => /\ Limits(x) /\ Holds(x, d)
                        /\ x.phySize <= Len(d) /\ Len(d) <= MaxSize

(* What the calls of the stream below leave alone. *)
ClientFields(x) == <<x.virtPos, x.virtSize, x.begin, x.end, x.cache, x.seekable>>

LEMMA Parts ==
    ASSUME NEW x \in Cache
    PROVE  /\ x.hres \in {"ok", "error", "notimpl", "fail"} /\ x.seekable \in BOOLEAN
           /\ x.cachedSize \in Nat /\ x.cachedPos \in Nat /\ x.virtPos \in Nat
           /\ x.virtSize \in Nat /\ x.phyPos \in Nat /\ x.phySize \in Nat
           /\ x.begin \in Nat /\ x.end \in Nat
           /\ x.cache \in [0..CacheSize - 1 -> Byte]
           /\ x.phy \in Phy /\ x.phy.data \in Seq(Byte) /\ Len(x.phy.data) \in Nat
           /\ x.phy.pos \in Nat /\ x.phy.begin \in Nat /\ x.phy.final \in Nat
           /\ x.phy.atEnd \in BOOLEAN
           /\ CachedEnd(x) = x.cachedPos + x.cachedSize
  BY DEF Cache, Phy, CachedEnd

LEMMA OrFailsOutcome ==
    \A x, z, y : y \in OrFails(x, z) => y = z \/ y = Failed(x)
  BY DEF OrFails

LEMMA Failing ==
    ASSUME NEW x \in Cache, NEW d \in Seq(Byte), NEW o \in Phy, Below(x, o)
    PROVE  Sound(Failed(x), d, o)
<1> DEFINE y == [x EXCEPT !.hres = "error", !.cachedSize = 0]
<1>1. y \in Cache /\ y.hres = "error" /\ y.cachedSize = 0 /\ y.phy = x.phy BY DEF Cache
<1>2. y = Failed(x) BY DEF Failed
<1> HIDE DEF y
<1>3. Below(y, o) BY <1>1 DEF Below
<1>4. 0 <= CacheSize BY Sizes
<1> QED BY <1>1, <1>2, <1>3, <1>4 DEF Sound

LEMMA SeekOutcome ==
    ASSUME NEW x \in Cache, NEW pos \in Nat, x.seekable \/ pos = x.phyPos,
           x.phyPos = x.phy.pos, NEW y \in SeekPhy(x, pos)
    PROVE  \/ y = Failed(x)
           \/ /\ y \in Cache /\ ClientFields(y) = ClientFields(x) /\ y.hres = x.hres
              /\ y.cachedPos = x.cachedPos /\ y.cachedSize = x.cachedSize
              /\ y.phyPos = pos /\ y.phySize = x.phySize /\ y.phy.pos = pos
              /\ y.phy.data = x.phy.data /\ y.phy.begin = x.phy.begin
              /\ y.phy.final = x.phy.final /\ y.phy.atEnd = x.phy.atEnd
<1>1. CASE pos = x.phyPos
  <2>1. y = x BY <1>1 DEF SeekPhy
  <2> QED BY <1>1, <2>1
<1>2. CASE pos # x.phyPos
  <2> DEFINE z == [x EXCEPT !.phyPos = pos, !.phy.pos = pos]
  <2>1. y = z \/ y = Failed(x) BY <1>2, OrFailsOutcome DEF SeekPhy
  <2>2. /\ z \in Cache /\ ClientFields(z) = ClientFields(x) /\ z.hres = x.hres
        /\ z.cachedPos = x.cachedPos /\ z.cachedSize = x.cachedSize
        /\ z.phyPos = pos /\ z.phySize = x.phySize
        /\ z.phy = [x.phy EXCEPT !.pos = pos]
    BY DEF Cache, Phy, ClientFields
  <2>3. x.phy \in Phy BY Parts
  <2> HIDE DEF z
  <2>4. /\ z.phy.pos = pos /\ z.phy.data = x.phy.data /\ z.phy.begin = x.phy.begin
        /\ z.phy.final = x.phy.final /\ z.phy.atEnd = x.phy.atEnd
    BY <2>2, <2>3 DEF Phy
  <2> QED BY <2>1, <2>2, <2>4
<1> QED BY <1>1, <1>2

Larger(a, b) == IF a >= b THEN a ELSE b
SmallerOf(a, b) == IF a <= b THEN a ELSE b

LEMMA FinalOutcome ==
    ASSUME NEW p \in Phy
    PROVE  /\ Final(p) \in Phy /\ Final(p).data = p.data /\ Final(p).pos = p.pos
           /\ Final(p).begin = p.begin /\ Final(p).atEnd = p.atEnd
           /\ Final(p).final = Larger(p.final, SmallerOf(Len(p.data), p.begin))
<1>1. Len(p.data) \in Int /\ p.begin \in Nat /\ p.final \in Int /\ Len(p.data) \in Nat
  BY DEF Phy
<1>2. Min({Len(p.data), p.begin}) = SmallerOf(Len(p.data), p.begin)
  BY <1>1, MinTwo DEF SmallerOf
<1>3. SmallerOf(Len(p.data), p.begin) \in Nat BY <1>1 DEF SmallerOf
<1>4. Max({p.final, SmallerOf(Len(p.data), p.begin)})
        = Larger(p.final, SmallerOf(Len(p.data), p.begin))
  BY <1>1, <1>3, MaxTwo DEF Larger
<1>5. Larger(p.final, SmallerOf(Len(p.data), p.begin)) \in Nat BY <1>1, <1>3 DEF Larger, Phy
<1>6. Final(p) = [p EXCEPT !.final = Larger(p.final, SmallerOf(Len(p.data), p.begin))]
  BY <1>2, <1>4 DEF Final
<1> QED BY <1>5, <1>6 DEF Phy

LEMMA RestrictOutcome ==
    ASSUME NEW x \in Cache, NEW b \in Nat, NEW e \in Nat,
           NEW y \in PhySetRestriction(x, b, e)
    PROVE  \/ y = Failed(x)
           \/ ~x.seekable /\ y = x
           \/ /\ x.seekable /\ y \in Cache /\ ClientFields(y) = ClientFields(x) /\ y.hres = x.hres
              /\ y.cachedPos = x.cachedPos /\ y.cachedSize = x.cachedSize
              /\ y.phyPos = x.phyPos /\ y.phySize = x.phySize
              /\ y.phy.data = x.phy.data /\ y.phy.pos = x.phy.pos
              /\ y.phy.begin = (IF b = e THEN Inf ELSE b)
              /\ y.phy.final = Larger(x.phy.final, SmallerOf(Len(x.phy.data), y.phy.begin))
              /\ y.phy.atEnd = (x.phy.atEnd /\ (b = e => x.phy.pos = Len(x.phy.data)))
<1> DEFINE p == [x.phy EXCEPT !.begin = IF b = e THEN Inf ELSE b,
                              !.atEnd = @ /\ (b = e => x.phy.pos = Len(x.phy.data))]
           z == [x EXCEPT !.phy = Final(p)]
<1>1. CASE ~x.seekable BY <1>1 DEF PhySetRestriction
<1>2. CASE x.seekable
  <2>0. PhySetRestriction(x, b, e) = OrFails(x, z) BY <1>2 DEF PhySetRestriction
  <2> HIDE DEF z
  <2>1. y = z \/ y = Failed(x) BY <2>0, OrFailsOutcome
  <2> USE DEF z
  <2>2. x.phy \in Phy /\ Inf \in Nat BY Parts, Sizes
  <2>3. /\ p \in Phy /\ p.data = x.phy.data /\ p.pos = x.phy.pos
        /\ p.begin = (IF b = e THEN Inf ELSE b) /\ p.final = x.phy.final
        /\ p.atEnd = (x.phy.atEnd /\ (b = e => x.phy.pos = Len(x.phy.data)))
    BY <2>2 DEF Phy
  <2> HIDE DEF p
  <2>4. Final(p) \in Phy BY <2>3, FinalOutcome
  <2>5. /\ z \in Cache /\ ClientFields(z) = ClientFields(x) /\ z.hres = x.hres
        /\ z.cachedPos = x.cachedPos /\ z.cachedSize = x.cachedSize
        /\ z.phyPos = x.phyPos /\ z.phySize = x.phySize /\ z.phy = Final(p)
    BY <2>4 DEF Cache, ClientFields
  <2> HIDE DEF z
  <2> QED BY <1>2, <2>1, <2>3, <2>5, FinalOutcome
<1>3. x.seekable \in BOOLEAN BY Parts
<1> QED BY <1>1, <1>2, <1>3

LEMMA WriteOutcome ==
    ASSUME NEW x \in Cache, NEW bytes \in Seq(Byte), x.phyPos = x.phy.pos,
           x.phySize = Len(x.phy.data), x.phyPos <= x.phySize,
           NEW y \in PhyWrite(x, bytes)
    PROVE  \/ y = Failed(x)
           \/ /\ y \in Cache /\ ClientFields(y) = ClientFields(x) /\ y.hres = x.hres
              /\ y.cachedPos = x.cachedPos /\ y.cachedSize = x.cachedSize
              /\ y.phyPos = x.phyPos + Len(bytes) /\ y.phy.pos = y.phyPos
              /\ y.phySize = Larger(x.phySize, x.phyPos + Len(bytes))
              /\ y.phySize = Len(y.phy.data)
              /\ \A k \in 1..y.phySize :
                    y.phy.data[k] = IF k <= x.phyPos THEN x.phy.data[k]
                                    ELSE IF k <= y.phyPos THEN bytes[k - x.phyPos]
                                    ELSE x.phy.data[k]
              /\ y.phy.begin = x.phy.begin /\ y.phy.atEnd = x.phy.atEnd
              /\ y.phy.final = Larger(x.phy.final, SmallerOf(y.phySize, y.phy.begin))
<1> DEFINE data == Put(x.phy.data, x.phy.pos, bytes)
           p == [x.phy EXCEPT !.data = data, !.pos = @ + Len(bytes)]
           z == [x EXCEPT !.phy = Final(p), !.phyPos = @ + Len(bytes),
                          !.phySize = Max({@, x.phyPos + Len(bytes)})]
<1>0. PhyWrite(x, bytes) = OrFails(x, z) BY DEF PhyWrite
<1> HIDE DEF z
<1>1. y = z \/ y = Failed(x) BY <1>0, OrFailsOutcome
<1> USE DEF z
<1>2. /\ x.phy \in Phy /\ Len(bytes) \in Nat /\ x.phyPos \in Nat /\ x.phySize \in Nat
      /\ x.phy.data \in Seq(Byte) /\ x.phy.pos \in Nat
  BY Parts
<1>3. x.phy.pos \in 0..Len(x.phy.data) BY <1>2
<1>4. /\ data \in Seq(Byte) /\ Len(data) = Larger(x.phySize, x.phyPos + Len(bytes))
      /\ \A k \in 1..Len(data) :
            data[k] = IF k <= x.phyPos THEN x.phy.data[k]
                      ELSE IF k <= x.phyPos + Len(bytes) THEN bytes[k - x.phyPos]
                      ELSE x.phy.data[k]
  BY <1>2, <1>3, PutFacts, SMTT(30) DEF Larger
<1> HIDE DEF data
<1>5. /\ p \in Phy /\ p.data = data /\ p.pos = x.phyPos + Len(bytes)
      /\ p.begin = x.phy.begin /\ p.final = x.phy.final /\ p.atEnd = x.phy.atEnd
  <2>1. x.phy.pos + Len(bytes) \in Nat /\ x.phy.pos = x.phyPos BY <1>2
  <2>2. p = [x.phy EXCEPT !.data = data, !.pos = x.phyPos + Len(bytes)] BY <2>1, Zenon
  <2> HIDE DEF p
  <2> QED BY <1>2, <1>4, <2>1, <2>2 DEF Phy
<1> HIDE DEF p
<1>6. Final(p) \in Phy BY <1>5, FinalOutcome
<1>7. Max({x.phySize, x.phyPos + Len(bytes)}) = Larger(x.phySize, x.phyPos + Len(bytes))
  BY <1>2, MaxTwo DEF Larger
<1>8. Larger(x.phySize, x.phyPos + Len(bytes)) \in Nat /\ x.phyPos + Len(bytes) \in Nat
  BY <1>2 DEF Larger
<1>9. /\ z \in Cache /\ ClientFields(z) = ClientFields(x) /\ z.hres = x.hres
      /\ z.cachedPos = x.cachedPos /\ z.cachedSize = x.cachedSize
      /\ z.phyPos = x.phyPos + Len(bytes)
      /\ z.phySize = Larger(x.phySize, x.phyPos + Len(bytes))
      /\ z.phy = Final(p)
  BY <1>6, <1>7, <1>8 DEF Cache, ClientFields
<1> HIDE DEF z
<1>10. /\ z.phy.data = data /\ z.phy.pos = x.phyPos + Len(bytes)
       /\ z.phy.begin = x.phy.begin /\ z.phy.atEnd = x.phy.atEnd
       /\ z.phy.final = Larger(x.phy.final, SmallerOf(Len(data), x.phy.begin))
  BY <1>5, <1>9, FinalOutcome
<1> QED BY <1>1, <1>4, <1>9, <1>10

LEMMA SizeOutcome ==
    ASSUME NEW x \in Cache, NEW size \in Nat, size <= Len(x.phy.data),
           NEW y \in PhySetSize(x, size)
    PROVE  \/ y = Failed(x)
           \/ /\ y \in Cache /\ ClientFields(y) = ClientFields(x) /\ y.hres = x.hres
              /\ y.cachedPos = x.cachedPos /\ y.cachedSize = x.cachedSize
              /\ y.phyPos = x.phyPos /\ y.phy.pos = x.phy.pos
              /\ y.phySize = size /\ y.phySize = Len(y.phy.data)
              /\ \A k \in 1..size : y.phy.data[k] = x.phy.data[k]
              /\ y.phy.begin = x.phy.begin /\ y.phy.atEnd = x.phy.atEnd
              /\ y.phy.final = x.phy.final
<1> DEFINE data == SubSeq(x.phy.data, 1, size)
           z == [x EXCEPT !.phy.data = data, !.phySize = size]
<1>1. y = z \/ y = Failed(x) BY OrFailsOutcome DEF PhySetSize
<1>2. x.phy \in Phy /\ x.phy.data \in Seq(Byte) /\ size \in 0..Len(x.phy.data) BY Parts
<1>3. data \in Seq(Byte) /\ Len(data) = size /\ \A k \in 1..size : data[k] = x.phy.data[k]
  BY <1>2, CutFacts
<1> HIDE DEF data
<1>4. /\ z \in Cache /\ ClientFields(z) = ClientFields(x) /\ z.hres = x.hres
      /\ z.cachedPos = x.cachedPos /\ z.cachedSize = x.cachedSize
      /\ z.phyPos = x.phyPos /\ z.phySize = size
      /\ z.phy = [x.phy EXCEPT !.data = data]
  BY <1>3 DEF Cache, Phy, ClientFields
<1> HIDE DEF z
<1>5. /\ z.phy.data = data /\ z.phy.pos = x.phy.pos /\ z.phy.begin = x.phy.begin
      /\ z.phy.final = x.phy.final /\ z.phy.atEnd = x.phy.atEnd
  BY <1>2, <1>4 DEF Phy
<1> QED BY <1>1, <1>3, <1>4, <1>5

-----------------------------------------------------------------------------
(* Cached data on its way down.                                            *)

(* What is final after the next write of size bytes. *)
FinalAfter(x, size) ==
    Larger(x.phy.final, SmallerOf(Larger(x.phySize, x.phyPos + size), x.phy.begin))

LEMMA RestrictForWrite ==
    ASSUME NEW d, NEW o, NEW x, Sound(x, d, o), x.hres = "ok",
           x.phyPos = x.cachedPos, NEW size \in 1..x.cachedSize,
           NEW y \in SetRestriction_ForWrite(x, size)
    PROVE  \/ y = Failed(x)
           \/ /\ y \in Cache /\ ClientFields(y) = ClientFields(x) /\ y.hres = x.hres
              /\ y.cachedPos = x.cachedPos /\ y.cachedSize = x.cachedSize
              /\ y.phyPos = x.phyPos /\ y.phySize = x.phySize
              /\ y.phy.data = x.phy.data /\ y.phy.pos = x.phy.pos
              /\ y.phy.atEnd
              /\ x.phy.final <= y.phy.final /\ y.phy.final <= y.phyPos
              /\ FinalAfter(y, size) <= y.phyPos + size
              /\ x.begin # x.end => FinalAfter(y, size) <= x.begin
<1> DEFINE r == RestrictionForWrite(x, size)
<1>1. /\ x \in Cache /\ Limits(x) /\ Holds(x, d) /\ x.phySize <= Len(d)
      /\ Len(d) <= MaxSize /\ Below(x, o) /\ d \in Seq(Byte) /\ Len(d) \in Nat
  BY DEF Sound
<1>2. /\ x.cachedSize \in Nat /\ x.cachedPos \in Nat /\ x.virtPos \in Nat
      /\ x.phyPos \in Nat /\ x.phySize \in Nat /\ x.begin \in Nat /\ x.end \in Nat
      /\ x.phy.final \in Nat /\ x.phy.pos \in Nat /\ Len(x.phy.data) \in Nat
      /\ x.seekable \in BOOLEAN /\ x.phy.begin \in Nat
  BY <1>1, Parts
<1>3. /\ x.phyPos = x.phy.pos /\ x.phySize = Len(x.phy.data)
      /\ x.cachedPos + x.cachedSize <= Len(d) /\ x.phyPos < MaxSize
      /\ x.phy.final <= x.phySize /\ x.phy.atEnd /\ x.phy.final <= x.cachedPos
  <2>1. x.cachedSize > 0 /\ MaxSize \in Nat BY <1>2, Sizes
  <2>2. x.phyPos = x.phy.pos /\ x.phySize = Len(x.phy.data) /\ CachedEnd(x) <= Len(d)
    BY <1>1, <2>1 DEF Holds
  <2>3. CachedEnd(x) = x.cachedPos + x.cachedSize BY DEF CachedEnd
  <2>4. x.phy.final <= x.phySize /\ x.phy.atEnd BY <1>1, <2>2 DEF Below
  <2>5. x.phy.final <= x.cachedPos BY <1>1, <2>1 DEF Limits
  <2>6. x.cachedPos + x.cachedSize <= Len(d) /\ x.phyPos < MaxSize
    <3>1. Len(d) \in Nat /\ Len(d) <= MaxSize BY <1>1
    <3>2. x.cachedPos + x.cachedSize <= Len(d) BY <2>2, <2>3
    <3> QED BY <1>2, <2>1, <3>1, <3>2
  <2> QED BY <2>2, <2>4, <2>5, <2>6, Zenon
<1>4. SetRestriction_ForWrite(x, size) = PhySetRestriction(x, r.begin, r.end)
  BY DEF SetRestriction_ForWrite
<1> DEFINE begin == IF x.begin = x.end THEN x.virtPos ELSE x.begin
<1>5. begin \in Nat /\ size \in Nat /\ Inf \in Nat /\ Inf = MaxSize + 1 /\ MaxSize \in Nat
  BY <1>2, Sizes
<1>6. Min({begin, x.phyPos}) = SmallerOf(begin, x.phyPos)
  BY <1>2, <1>5, MinTwo, SMTT(30) DEF SmallerOf
<1>7. \/ /\ x.phyPos = x.phySize /\ x.phyPos + size <= begin
         /\ r.begin = 0 /\ r.end = 0
      \/ /\ x.phyPos = x.phySize /\ x.phyPos + size > begin
         /\ r.begin = SmallerOf(begin, x.phyPos) /\ r.end = Inf
      \/ /\ x.phyPos # x.phySize /\ r.end = Inf
         /\ r.begin = IF x.begin = x.end \/ x.begin > x.phyPos THEN x.phyPos ELSE x.begin
  BY <1>2, <1>5, <1>6 DEF RestrictionForWrite
<1> HIDE DEF r
<1>8. r.begin \in Nat /\ r.end \in Nat BY <1>2, <1>5, <1>7 DEF SmallerOf
<1>9. x.begin # x.end => x.phy.final <= x.begin /\ x.begin <= MaxSize /\ x.seekable
  BY <1>1 DEF Limits
<1>10. CASE ~x.seekable /\ y = x
  <2>1. x.phyPos = x.phySize BY <1>1, <1>10 DEF Limits
  <2>2. ~(x.begin # x.end) BY <1>9, <1>10
  <2>3. /\ Larger(x.phySize, x.phyPos + size) = x.phyPos + size
        /\ SmallerOf(x.phyPos + size, x.phy.begin) <= x.phyPos + size
    BY <1>2, <1>5, <2>1 DEF Larger, SmallerOf
  <2>4. FinalAfter(x, size) <= x.phyPos + size
    BY <1>2, <1>3, <1>5, <2>1, <2>3, SMTT(30) DEF FinalAfter, Larger
  <2>5. x.phy.final <= x.phy.final /\ x.phy.final <= x.phyPos BY <1>2, <1>3
  <2> QED BY <1>1, <1>3, <1>10, <2>2, <2>4, <2>5, Zenon
<1>11. CASE /\ x.seekable /\ y \in Cache /\ ClientFields(y) = ClientFields(x) /\ y.hres = x.hres
            /\ y.cachedPos = x.cachedPos /\ y.cachedSize = x.cachedSize
            /\ y.phyPos = x.phyPos /\ y.phySize = x.phySize
            /\ y.phy.data = x.phy.data /\ y.phy.pos = x.phy.pos
            /\ y.phy.begin = (IF r.begin = r.end THEN Inf ELSE r.begin)
            /\ y.phy.final = Larger(x.phy.final, SmallerOf(Len(x.phy.data), y.phy.begin))
            /\ y.phy.atEnd = (x.phy.atEnd /\ (r.begin = r.end => x.phy.pos = Len(x.phy.data)))
  <2>1. /\ y.phy.begin \in Nat /\ y.phy.final \in Nat BY <1>11, Parts
  <2>2. y.phy.atEnd
    <3>1. r.begin = r.end => x.phy.pos = Len(x.phy.data) BY <1>2, <1>3, <1>5, <1>7, <1>9
    <3> QED BY <1>3, <1>11, <3>1, Zenon
  <2>3. x.phy.final <= y.phy.final BY <1>2, <1>11, <2>1, SMTT(30) DEF Larger, SmallerOf
  <2>4. x.phyPos = x.phySize \/ y.phy.begin <= x.phyPos
    BY <1>2, <1>3, <1>5, <1>7, <1>8, <1>9, <1>11
  <2>5. y.phy.final <= y.phyPos BY <1>2, <1>3, <1>11, <2>1, <2>4 DEF Larger, SmallerOf
  <2>6. FinalAfter(y, size) <= y.phyPos + size
    <3> DEFINE e == Larger(y.phySize, y.phyPos + size)
    <3>1. e \in Nat /\ (x.phyPos = x.phySize => e = y.phyPos + size)
      BY <1>2, <1>5, <1>11 DEF Larger
    <3> HIDE DEF e
    <3>2. SmallerOf(e, y.phy.begin) <= y.phyPos + size /\ SmallerOf(e, y.phy.begin) \in Nat
      BY <1>2, <1>5, <1>11, <2>1, <2>4, <3>1, SMTT(30) DEF SmallerOf
    <3>3. Larger(y.phy.final, SmallerOf(e, y.phy.begin)) <= y.phyPos + size
      BY <1>2, <1>5, <1>11, <2>1, <2>5, <3>2 DEF Larger
    <3> QED BY <3>3 DEF FinalAfter, e
  <2>7. ASSUME x.begin # x.end PROVE FinalAfter(y, size) <= x.begin
    <3>1. begin = x.begin /\ x.begin < Inf BY <1>2, <1>5, <1>9, <2>7
    <3>2. \/ x.phyPos = x.phySize /\ x.phyPos + size <= x.begin
          \/ y.phy.begin <= x.begin
      BY <1>2, <1>5, <1>7, <1>11, <2>7, <3>1 DEF SmallerOf
    <3>3. y.phy.final <= x.begin
      BY <1>2, <1>3, <1>5, <1>9, <1>11, <2>1, <2>7, <3>2, SMTT(30) DEF Larger, SmallerOf
    <3> QED BY <1>2, <1>5, <1>11, <2>1, <3>2, <3>3, SMTT(30) DEF FinalAfter, Larger, SmallerOf
  <2> QED BY <1>11, <2>2, <2>3, <2>5, <2>6, <2>7
<1>12. y \in PhySetRestriction(x, r.begin, r.end) BY <1>4
<1> QED BY <1>1, <1>8, <1>10, <1>11, <1>12, RestrictOutcome

LEMMA CacheIndex ==
    ASSUME NEW pos \in Int
    PROVE  pos % CacheSize \in 0..CacheSize - 1
  BY Sizes, Division

(* One write of FlushFromCache. *)
PartSize(x, size) == Min({CacheSize - (x.cachedPos % CacheSize), size})

LEMMA PartSizeIs ==
    ASSUME NEW x \in Cache, NEW size \in Nat
    PROVE  PartSize(x, size) = SmallerOf(CacheSize - (x.cachedPos % CacheSize), size)
<1>0. x.cachedPos \in Nat BY Parts
<1>1. CacheSize - (x.cachedPos % CacheSize) \in Int BY <1>0, CacheIndex, Sizes
<1> QED BY <1>1, MinTwo DEF PartSize, SmallerOf

PartBytes(x, size) ==
    [k \in 1..PartSize(x, size) |-> CacheByte(x, x.cachedPos + k - 1)]

IsPart(x, cur, bytes, y) ==
    \E a \in SetRestriction_ForWrite(x, cur) :
       IF a.hres = "ok"
       THEN \E b \in PhyWrite(a, bytes) :
               IF b.hres = "ok"
               THEN y = [b EXCEPT !.cachedPos = @ + cur, !.cachedSize = @ - cur]
               ELSE y = b
       ELSE y = a

LEMMA PartCases ==
    ASSUME NEW x, NEW size, NEW y \in FlushPart(x, size)
    PROVE  IsPart(x, PartSize(x, size), PartBytes(x, size), y)
  BY DEF FlushPart, Then, PartSize, PartBytes, IsPart

(* What is in front of the cached data is in the stream below. *)
LEMMA NoGap ==
    ASSUME NEW d, NEW o, NEW x, Sound(x, d, o), x.hres = "ok", x.cachedSize > 0
    PROVE  x.cachedPos <= x.phySize
<1>1. /\ x \in Cache /\ Holds(x, d) /\ d \in Seq(Byte) /\ Len(d) \in Nat BY DEF Sound
<1>2. /\ x.cachedSize \in Nat /\ x.cachedPos \in Nat /\ x.phySize \in Nat
      /\ CachedEnd(x) = x.cachedPos + x.cachedSize
  BY <1>1, Parts
<1>3. CASE x.cachedPos = 0 BY <1>2, <1>3
<1>4. CASE x.cachedPos # 0
  <2>1. CachedEnd(x) <= Len(d) BY <1>1 DEF Holds
  <2>2. x.cachedPos - 1 \in 0..Len(d) - 1 /\ ~IsCached(x, x.cachedPos - 1)
    BY <1>1, <1>2, <1>4, <2>1 DEF IsCached
  <2>3. x.cachedPos - 1 < x.phySize BY <1>1, <2>2 DEF Holds
  <2> QED BY <1>2, <2>3
<1> QED BY <1>3, <1>4

LEMMA CallsFields ==
    ASSUME NEW x, NEW y, ClientFields(x) = ClientFields(y)
    PROVE  /\ x.virtPos = y.virtPos /\ x.virtSize = y.virtSize
           /\ x.begin = y.begin /\ x.end = y.end /\ x.cache = y.cache
           /\ x.seekable = y.seekable
  BY DEF ClientFields

LEMMA FlushPartSound ==
    ASSUME NEW d, NEW o, NEW x, Sound(x, d, o), x.hres = "ok",
           x.phyPos = x.cachedPos, NEW size \in 1..x.cachedSize,
           NEW y \in FlushPart(x, size)
    PROVE  /\ Sound(y, d, o)
           /\ PartSize(x, size) \in 1..size
           /\ y.hres = "ok" =>
                /\ ClientFields(y) = ClientFields(x) /\ y.phyPos = y.cachedPos
                /\ y.cachedPos = x.cachedPos + PartSize(x, size)
                /\ y.cachedSize = x.cachedSize - PartSize(x, size)
<1> DEFINE cur == PartSize(x, size)
           bytes == PartBytes(x, size)
<1>1. /\ x \in Cache /\ d \in Seq(Byte) /\ o \in Phy /\ Len(d) \in Nat
      /\ Limits(x) /\ Holds(x, d) /\ Below(x, o) /\ x.cachedSize <= CacheSize
      /\ x.phySize <= Len(d) /\ Len(d) <= MaxSize
  BY DEF Sound
<1>2. /\ x.cachedSize \in Nat /\ x.cachedPos \in Nat /\ x.phyPos \in Nat
      /\ x.phySize \in Nat /\ x.phy.pos \in Nat /\ x.phy.final \in Nat
      /\ Len(x.phy.data) \in Nat /\ x.cache \in [0..CacheSize - 1 -> Byte]
      /\ x.phy.data \in Seq(Byte) /\ size \in Nat /\ x.begin \in Nat
      /\ CachedEnd(x) = x.cachedPos + x.cachedSize /\ x.seekable \in BOOLEAN
      /\ o.final \in Nat
  BY <1>1, Parts DEF Phy
<1>3. cur \in 1..size
  <2>1. x.cachedPos % CacheSize \in 0..CacheSize - 1
    <3>1. x.cachedPos \in Int BY <1>2
    <3> QED BY <3>1, CacheIndex
  <2>2. cur = SmallerOf(CacheSize - (x.cachedPos % CacheSize), size) BY <1>1, <1>2, PartSizeIs
  <2> HIDE DEF cur
  <2> QED BY <1>2, <2>1, <2>2, Sizes DEF SmallerOf
<1>4. /\ bytes \in Seq(Byte) /\ Len(bytes) = cur
      /\ \A k \in 1..cur : bytes[k] = CacheByte(x, x.cachedPos + k - 1)
  <2>1. bytes = [k \in 1..cur |-> CacheByte(x, x.cachedPos + k - 1)] /\ cur \in Nat
    BY <1>3 DEF PartBytes
  <2>2. \A k \in 1..cur : CacheByte(x, x.cachedPos + k - 1) \in Byte
    <3> SUFFICES ASSUME NEW k \in 1..cur
                 PROVE  CacheByte(x, x.cachedPos + k - 1) \in Byte
      OBVIOUS
    <3>1. x.cachedPos + k - 1 \in Int BY <1>2, <2>1
    <3>2. (x.cachedPos + k - 1) % CacheSize \in 0..CacheSize - 1 BY <3>1, CacheIndex
    <3> QED BY <1>2, <3>2 DEF CacheByte
  <2> HIDE DEF cur, bytes
  <2> QED BY <2>1, <2>2
<1> HIDE DEF cur, bytes
<1>0. IsPart(x, cur, bytes, y) BY PartCases DEF cur, bytes
<1>5. PICK a \in SetRestriction_ForWrite(x, cur) :
         IF a.hres = "ok"
         THEN \E b \in PhyWrite(a, bytes) :
                 IF b.hres = "ok"
                 THEN y = [b EXCEPT !.cachedPos = @ + cur, !.cachedSize = @ - cur]
                 ELSE y = b
         ELSE y = a
  BY <1>0 DEF IsPart
<1>6. cur \in 1..x.cachedSize BY <1>2, <1>3
<1>7. CASE a = Failed(x)
  <2>1. a.hres = "error" BY <1>7, <1>1 DEF Failed, Cache
  <2>2. y = a BY <1>5, <2>1
  <2> QED BY <1>1, <1>3, <1>7, <2>1, <2>2, Failing DEF cur
<1>8. CASE /\ a \in Cache /\ ClientFields(a) = ClientFields(x) /\ a.hres = x.hres
           /\ a.cachedPos = x.cachedPos /\ a.cachedSize = x.cachedSize
           /\ a.phyPos = x.phyPos /\ a.phySize = x.phySize
           /\ a.phy.data = x.phy.data /\ a.phy.pos = x.phy.pos
           /\ a.phy.atEnd
           /\ x.phy.final <= a.phy.final /\ a.phy.final <= a.phyPos
           /\ FinalAfter(a, cur) <= a.phyPos + cur
           /\ x.begin # x.end => FinalAfter(a, cur) <= x.begin
  <2>1. PICK b \in PhyWrite(a, bytes) :
           IF b.hres = "ok"
           THEN y = [b EXCEPT !.cachedPos = @ + cur, !.cachedSize = @ - cur]
           ELSE y = b
    BY <1>5, <1>8
  <2>2. x.cachedPos <= x.phySize /\ x.phyPos = x.phy.pos /\ x.phySize = Len(x.phy.data)
    <3>1. x.cachedSize > 0 BY <1>2, <1>6
    <3>2. x.cachedPos <= x.phySize BY <3>1, NoGap
    <3>3. x.phyPos = x.phy.pos /\ x.phySize = Len(x.phy.data) BY <1>1 DEF Holds
    <3> QED BY <3>2, <3>3
  <2>3. a.phy.final \in Nat BY <1>8, Parts
  <2>4. Below(a, o) BY <1>1, <1>2, <1>8, <2>2, <2>3, SMTT(30) DEF Below
  <2>5. CASE b = Failed(a)
    <3>1. b.hres = "error" BY <1>8, <2>5 DEF Failed, Cache
    <3>2. y = b BY <2>1, <3>1
    <3> QED BY <1>1, <1>3, <1>8, <2>4, <2>5, <3>1, <3>2, Failing DEF cur
  <2>6. CASE /\ b \in Cache /\ ClientFields(b) = ClientFields(a) /\ b.hres = a.hres
             /\ b.cachedPos = a.cachedPos /\ b.cachedSize = a.cachedSize
             /\ b.phyPos = a.phyPos + Len(bytes) /\ b.phy.pos = b.phyPos
             /\ b.phySize = Larger(a.phySize, a.phyPos + Len(bytes))
             /\ b.phySize = Len(b.phy.data)
             /\ \A k \in 1..b.phySize :
                   b.phy.data[k] = IF k <= a.phyPos THEN a.phy.data[k]
                                   ELSE IF k <= b.phyPos THEN bytes[k - a.phyPos]
                                   ELSE a.phy.data[k]
             /\ b.phy.begin = a.phy.begin /\ b.phy.atEnd = a.phy.atEnd
             /\ b.phy.final = Larger(a.phy.final, SmallerOf(b.phySize, b.phy.begin))
    <3>1. y = [b EXCEPT !.cachedPos = x.cachedPos + cur, !.cachedSize = x.cachedSize - cur]
      BY <1>8, <2>1, <2>6
    <3>2. x.cachedPos + cur \in Nat /\ x.cachedSize - cur \in Nat BY <1>2, <1>6
    <3>3. /\ y \in Cache /\ y.hres = "ok" /\ y.cachedPos = x.cachedPos + cur
          /\ y.cachedSize = x.cachedSize - cur /\ y.phyPos = b.phyPos
          /\ y.phySize = b.phySize /\ y.phy = b.phy /\ ClientFields(y) = ClientFields(x)
      BY <1>8, <2>6, <3>1, <3>2 DEF Cache, ClientFields
    <3> DEFINE e == Larger(x.phySize, x.phyPos + cur)
    <3>4. /\ y.phyPos = x.phyPos + cur /\ y.phy.pos = y.phyPos
          /\ y.phySize = e /\ y.phySize = Len(y.phy.data)
          /\ e \in Nat /\ e >= x.phySize /\ e >= x.phyPos + cur
          /\ (x.phySize <= x.phyPos + cur => e = x.phyPos + cur)
          /\ (x.phySize > x.phyPos + cur => e = x.phySize)
      <4>1. /\ y.phyPos = x.phyPos + cur /\ y.phy.pos = y.phyPos
            /\ y.phySize = e /\ y.phySize = Len(y.phy.data)
        BY <1>4, <1>8, <2>6, <3>3
      <4>2. x.phyPos + cur \in Nat BY <1>2, <1>6
      <4>3. /\ e \in Nat /\ e >= x.phySize /\ e >= x.phyPos + cur
            /\ (x.phySize <= x.phyPos + cur => e = x.phyPos + cur)
            /\ (x.phySize > x.phyPos + cur => e = x.phySize)
        BY <1>2, <4>2 DEF Larger
      <4> HIDE DEF e
      <4> QED BY <4>1, <4>3
    <3> HIDE DEF e
    <3>5. \A k \in 1..e :
             y.phy.data[k] = IF k <= x.phyPos THEN x.phy.data[k]
                             ELSE IF k <= x.phyPos + cur THEN bytes[k - x.phyPos]
                             ELSE x.phy.data[k]
      BY <1>4, <1>8, <2>6, <3>3, <3>4
    <3>6. y.phy.final = FinalAfter(a, cur) /\ y.phy.atEnd /\ y.phy.final \in Nat
      <4>1. y.phy.final = FinalAfter(a, cur) BY <1>4, <2>6, <3>3 DEF FinalAfter
      <4>2. y.phy.atEnd BY <1>8, <2>6, <3>3, Zenon
      <4> QED BY <3>3, <4>1, <4>2, Parts
    <3>7. a.phy.final <= y.phy.final /\ y.phy.final <= e
      <4>1. b.phy.begin \in Nat BY <2>6, Parts
      <4>2. b.phySize = e BY <3>3, <3>4
      <4>3. a.phy.final <= e BY <1>2, <1>6, <1>8, <2>3, <3>4, SMTT(30)
      <4> QED BY <2>3, <2>6, <3>3, <3>4, <4>1, <4>2, <4>3 DEF Larger, SmallerOf
    <3>8. Below(y, o)
      <4>1. /\ o.final <= x.phy.final /\ x.phy.final <= a.phy.final
            /\ a.phy.final <= x.phyPos
            /\ \A k \in 1..o.final : x.phy.data[k] = o.data[k]
        BY <1>1, <1>8 DEF Below
      <4>2. \A k \in 1..o.final : k \in 1..e /\ k <= x.phyPos
        <5>1. o.final <= x.phyPos /\ o.final <= e BY <1>2, <2>2, <2>3, <3>4, <4>1, SMTT(30)
        <5> QED BY <1>2, <3>4, <5>1
      <4>3. \A k \in 1..o.final : y.phy.data[k] = o.data[k] BY <3>5, <4>1, <4>2
      <4>4. y.phy.final <= Len(y.phy.data) /\ o.final <= y.phy.final
        BY <1>2, <2>3, <3>4, <3>6, <3>7, <4>1
      <4> QED BY <3>6, <4>3, <4>4 DEF Below
    <3>9. Limits(y)
      <4>1. y.phy.final <= y.cachedPos
        BY <1>8, <3>3, <3>6
      <4>2. /\ IF x.begin = x.end THEN x.begin = 0
               ELSE x.end = Inf /\ x.begin <= MaxSize /\ x.seekable
            /\ ~x.seekable => x.phyPos = x.phySize
        BY <1>1 DEF Limits
      <4>3. x.begin # x.end => y.phy.final <= x.begin
        BY <1>8, <3>6
      <4>4. ~x.seekable => y.phyPos = y.phySize /\ y.cachedPos = y.phyPos
        BY <1>2, <1>6, <3>3, <3>4, <4>2
      <4>5. y.begin = x.begin /\ y.end = x.end /\ y.seekable = x.seekable
        BY <3>3, CallsFields
      <4> QED
        BY <4>1, <4>2, <4>3, <4>4, <4>5 DEF Limits
    <3>10. Holds(y, d)
      <4>1. CachedEnd(y) = CachedEnd(x) /\ y.cache = x.cache
        BY <1>2, <1>6, <3>3, CallsFields DEF CachedEnd
      <4>2. CachedEnd(x) <= Len(d) BY <1>1, <1>2, <1>6 DEF Holds
      <4>3. ASSUME NEW pos \in 0..Len(d) - 1
            PROVE  IF IsCached(y, pos) THEN d[pos + 1] = CacheByte(y, pos)
                   ELSE pos < y.phySize /\ d[pos + 1] = y.phy.data[pos + 1]
        <5>1. IF IsCached(x, pos) THEN d[pos + 1] = CacheByte(x, pos)
              ELSE pos < x.phySize /\ d[pos + 1] = x.phy.data[pos + 1]
          BY <1>1 DEF Holds
        <5>2. CASE IsCached(y, pos)
          BY <1>2, <1>6, <3>3, <4>1, <5>2, <5>1 DEF IsCached, CacheByte
        <5>3. CASE ~IsCached(y, pos) /\ IsCached(x, pos)
          <6>1. x.phyPos <= pos /\ pos < x.phyPos + cur
            BY <1>2, <1>6, <3>3, <4>1, <5>3 DEF IsCached
          <6>0. pos \in Nat /\ cur \in Nat BY <1>1, <1>6
          <6>2. pos + 1 \in 1..e /\ pos < e /\ (pos + 1) - x.phyPos \in 1..cur
            <7>1. e >= x.phyPos + cur /\ e \in Nat /\ x.phyPos \in Nat BY <1>2, <3>4
            <7> QED BY <6>0, <6>1, <7>1
          <6>3. y.phy.data[pos + 1] = bytes[(pos + 1) - x.phyPos]
            <7>1. ~(pos + 1 <= x.phyPos) /\ pos + 1 <= x.phyPos + cur BY <1>2, <6>0, <6>1
            <7>2. pos + 1 \in 1..e BY <6>2
            <7>3. ASSUME NEW k \in 1..e, ~(k <= x.phyPos), k <= x.phyPos + cur
                  PROVE  y.phy.data[k] = bytes[k - x.phyPos]
              BY <3>5, <7>3
            <7> QED BY <7>1, <7>2, <7>3
          <6>4. bytes[(pos + 1) - x.phyPos] = CacheByte(x, x.cachedPos + ((pos + 1) - x.phyPos) - 1)
            BY <1>4, <6>2
          <6>5. x.cachedPos + ((pos + 1) - x.phyPos) - 1 = pos BY <1>2
          <6> QED BY <3>4, <5>1, <5>3, <6>2, <6>3, <6>4, <6>5
        <5>4. CASE ~IsCached(y, pos) /\ ~IsCached(x, pos)
          <6>1. pos < x.phySize /\ d[pos + 1] = x.phy.data[pos + 1] BY <5>1, <5>4
          <6>2. pos < x.phyPos \/ pos >= x.phyPos + cur BY <1>2, <1>6, <5>4 DEF IsCached
          <6>3. pos + 1 \in 1..e /\ pos < e BY <1>2, <3>4, <6>1, SMTT(30)
          <6>4. y.phy.data[pos + 1] = x.phy.data[pos + 1] BY <1>2, <1>6, <3>5, <6>2, <6>3
          <6> QED BY <3>4, <5>4, <6>1, <6>3, <6>4
        <5> QED BY <5>2, <5>3, <5>4
      <4> QED BY <3>4, <4>1, <4>2, <4>3 DEF Holds
    <3>11. y.phySize <= Len(d)
      <4>1. CachedEnd(x) <= Len(d) BY <1>1, <1>2, <1>6 DEF Holds
      <4> QED BY <1>1, <1>2, <1>6, <3>4, <4>1
    <3>12. y.cachedSize <= CacheSize BY <1>1, <1>2, <1>6, <3>3, Sizes
    <3>13. Sound(y, d, o) BY <1>1, <3>3, <3>8, <3>9, <3>10, <3>11, <3>12 DEF Sound
    <3> QED BY <1>3, <3>3, <3>4, <3>13 DEF cur
  <2>7. a.phyPos = a.phy.pos /\ a.phySize = Len(a.phy.data) /\ a.phyPos <= a.phySize
    BY <1>8, <2>2
  <2>8. a \in Cache /\ bytes \in Seq(Byte) BY <1>4, <1>8
  <2>9. \/ b = Failed(a)
        \/ /\ b \in Cache /\ ClientFields(b) = ClientFields(a) /\ b.hres = a.hres
           /\ b.cachedPos = a.cachedPos /\ b.cachedSize = a.cachedSize
           /\ b.phyPos = a.phyPos + Len(bytes) /\ b.phy.pos = b.phyPos
           /\ b.phySize = Larger(a.phySize, a.phyPos + Len(bytes))
           /\ b.phySize = Len(b.phy.data)
           /\ \A k \in 1..b.phySize :
                 b.phy.data[k] = IF k <= a.phyPos THEN a.phy.data[k]
                                 ELSE IF k <= b.phyPos THEN bytes[k - a.phyPos]
                                 ELSE a.phy.data[k]
           /\ b.phy.begin = a.phy.begin /\ b.phy.atEnd = a.phy.atEnd
           /\ b.phy.final = Larger(a.phy.final, SmallerOf(b.phySize, b.phy.begin))
    BY <2>7, <2>8, WriteOutcome
  <2> QED BY <2>5, <2>6, <2>9
<1>9. \/ a = Failed(x)
      \/ /\ a \in Cache /\ ClientFields(a) = ClientFields(x) /\ a.hres = x.hres
         /\ a.cachedPos = x.cachedPos /\ a.cachedSize = x.cachedSize
         /\ a.phyPos = x.phyPos /\ a.phySize = x.phySize
         /\ a.phy.data = x.phy.data /\ a.phy.pos = x.phy.pos
         /\ a.phy.atEnd
         /\ x.phy.final <= a.phy.final /\ a.phy.final <= a.phyPos
         /\ FinalAfter(a, cur) <= a.phyPos + cur
         /\ x.begin # x.end => FinalAfter(a, cur) <= x.begin
  BY <1>6, RestrictForWrite
<1> QED BY <1>7, <1>8, <1>9
LEMMA SeekSound ==
    ASSUME NEW d, NEW o, NEW x, Sound(x, d, o), x.hres = "ok",
           NEW pos \in Nat, x.seekable \/ pos = x.phyPos, NEW y \in SeekPhy(x, pos)
    PROVE  /\ Sound(y, d, o)
           /\ y.hres = "ok" =>
                /\ ClientFields(y) = ClientFields(x) /\ y.phyPos = pos /\ y.phySize = x.phySize
                /\ y.cachedPos = x.cachedPos /\ y.cachedSize = x.cachedSize
                /\ y.phy.final = x.phy.final
<1>1. /\ x \in Cache /\ d \in Seq(Byte) /\ o \in Phy
      /\ Limits(x) /\ Holds(x, d) /\ Below(x, o) /\ x.cachedSize <= CacheSize
      /\ x.phySize <= Len(d) /\ Len(d) <= MaxSize
  BY DEF Sound
<1>2. x.phyPos = x.phy.pos /\ x.phySize = Len(x.phy.data) BY <1>1 DEF Holds
<1>3. CASE y = Failed(x)
  <2>1. y.hres = "error" BY <1>1, <1>3 DEF Failed, Cache
  <2> QED BY <1>1, <1>3, <2>1, Failing
<1>4. CASE /\ y \in Cache /\ ClientFields(y) = ClientFields(x) /\ y.hres = x.hres
           /\ y.cachedPos = x.cachedPos /\ y.cachedSize = x.cachedSize
           /\ y.phyPos = pos /\ y.phySize = x.phySize /\ y.phy.pos = pos
           /\ y.phy.data = x.phy.data /\ y.phy.begin = x.phy.begin
           /\ y.phy.final = x.phy.final /\ y.phy.atEnd = x.phy.atEnd
  BY <1>4, CallsFields, <1>1, <1>2 DEF CachedEnd, Below, Limits, Holds, IsCached, CacheByte,
     Sound
<1> QED BY <1>1, <1>2, <1>3, <1>4, SeekOutcome

IsFlush(x, n, y) ==
    \E a \in SeekPhy(x, x.cachedPos) :
       IF a.hres = "ok"
       THEN \E b \in FlushPart(a, n) :
               IF b.hres = "ok"
               THEN IF n - (x.cachedSize - b.cachedSize) = 0 THEN y = b
                    ELSE y \in FlushPart(b, n - (x.cachedSize - b.cachedSize))
               ELSE y = b
       ELSE y = a

LEMMA FlushCases ==
    ASSUME NEW x, NEW size, NEW y \in FlushFromCache(x, size)
    PROVE  LET n == Min({size, x.cachedSize}) IN
           IF n = 0 THEN y = x ELSE IsFlush(x, n, y)
  BY DEF FlushFromCache, Then, IsFlush

(* Behind the end of the memory the next index is the first. *)
LEMMA WrapsToZero ==
    ASSUME NEW pos \in Int
    PROVE  (pos + (CacheSize - (pos % CacheSize))) % CacheSize = 0
<1>1. CacheSize \in Nat \ {0} BY Sizes
<1>2. PICK q \in Int, r \in 0..CacheSize - 1 : r = pos % CacheSize /\ pos = CacheSize * q + r
  BY <1>1, Division
<1> DEFINE a == pos + (CacheSize - (pos % CacheSize))
           p == q + 1
<1>3. CacheSize * p = CacheSize * q + CacheSize BY <1>1, <1>2
<1>4. a \in Int /\ a = CacheSize * p + 0 /\ p \in Int /\ 0 \in 0..CacheSize - 1
  BY <1>1, <1>2, <1>3
<1> HIDE DEF a, p
<1>5. a % CacheSize = 0 BY <1>1, <1>4, Remainder
<1> QED BY <1>5 DEF a

LEMMA FlushSound ==
    ASSUME NEW d, NEW o, NEW x, Sound(x, d, o), x.hres = "ok",
           NEW size \in Nat, NEW y \in FlushFromCache(x, size)
    PROVE  /\ Sound(y, d, o)
           /\ y.hres = "ok" =>
                /\ ClientFields(y) = ClientFields(x)
                /\ y.cachedPos = x.cachedPos + SmallerOf(size, x.cachedSize)
                /\ y.cachedSize = x.cachedSize - SmallerOf(size, x.cachedSize)
<1> DEFINE n == SmallerOf(size, x.cachedSize)
<1>1. /\ x \in Cache /\ Limits(x) /\ x.cachedSize <= CacheSize BY DEF Sound
<1>2. /\ x.cachedSize \in Nat /\ x.cachedPos \in Nat /\ x.seekable \in BOOLEAN BY <1>1, Parts
<1>3. n \in 0..x.cachedSize /\ Min({size, x.cachedSize}) = n BY <1>2, MinTwo DEF SmallerOf
<1>4. IF n = 0 THEN y = x ELSE IsFlush(x, n, y) BY <1>3, FlushCases
<1> HIDE DEF n
<1>5. CASE n = 0 BY <1>2, <1>4, <1>5 DEF n
<1>6. CASE n # 0
  <2>0. x.seekable \/ x.cachedPos = x.phyPos BY <1>1, <1>2, <1>3, <1>6 DEF Limits
  <2>1. PICK a \in SeekPhy(x, x.cachedPos) :
           IF a.hres = "ok"
           THEN \E b \in FlushPart(a, n) :
                   IF b.hres = "ok"
                   THEN IF n - (x.cachedSize - b.cachedSize) = 0 THEN y = b
                        ELSE y \in FlushPart(b, n - (x.cachedSize - b.cachedSize))
                   ELSE y = b
           ELSE y = a
    BY <1>4, <1>6 DEF IsFlush
  <2>2. /\ Sound(a, d, o)
        /\ a.hres = "ok" =>
             /\ ClientFields(a) = ClientFields(x) /\ a.phyPos = x.cachedPos
             /\ a.cachedPos = x.cachedPos /\ a.cachedSize = x.cachedSize
    BY <1>2, <2>0, SeekSound
  <2>3. CASE a.hres # "ok" BY <2>1, <2>2, <2>3
  <2>4. CASE a.hres = "ok"
    <3>1. PICK b \in FlushPart(a, n) :
             IF b.hres = "ok"
             THEN IF n - (x.cachedSize - b.cachedSize) = 0 THEN y = b
                  ELSE y \in FlushPart(b, n - (x.cachedSize - b.cachedSize))
             ELSE y = b
      BY <2>1, <2>4
    <3> DEFINE cur == PartSize(a, n)
    <3>2. n \in 1..a.cachedSize BY <1>2, <1>3, <1>6, <2>2, <2>4
    <3>3. /\ Sound(b, d, o) /\ cur \in 1..n
          /\ b.hres = "ok" =>
              /\ ClientFields(b) = ClientFields(a) /\ b.phyPos = b.cachedPos
              /\ b.cachedPos = a.cachedPos + cur
              /\ b.cachedSize = a.cachedSize - cur
      BY <2>2, <2>4, <3>2, FlushPartSound
    <3>4. CASE b.hres # "ok" BY <3>1, <3>3, <3>4
    <3>5. CASE b.hres = "ok"
      <4> DEFINE rest == n - (x.cachedSize - b.cachedSize)
      <4>1. rest = n - cur /\ rest \in 0..b.cachedSize
        BY <1>2, <1>3, <2>2, <2>4, <3>2, <3>3, <3>5
      <4>2. IF rest = 0 THEN y = b ELSE y \in FlushPart(b, rest) BY <3>1, <3>5
      <4>3. cur = SmallerOf(CacheSize - (x.cachedPos % CacheSize), n)
        BY <2>2, <3>2, <1>2, <1>3, <2>4, PartSizeIs DEF Sound
      <4> HIDE DEF cur, rest
      <4>4. CASE rest = 0 BY <1>2, <1>3, <3>3, <4>1, <4>2, <4>4, <2>2, <2>4, <3>5 DEF n
      <4>5. CASE rest # 0
        <5>1. rest \in 1..b.cachedSize BY <4>1, <4>5
        <5>2. /\ Sound(y, d, o)
              /\ PartSize(b, rest) \in 1..rest
              /\ y.hres = "ok" =>
                   /\ ClientFields(y) = ClientFields(b) /\ y.phyPos = y.cachedPos
                   /\ y.cachedPos = b.cachedPos + PartSize(b, rest)
                   /\ y.cachedSize = b.cachedSize - PartSize(b, rest)
          BY <3>3, <3>5, <4>2, <4>5, <5>1, FlushPartSound
        <5>3. x.cachedPos % CacheSize \in 0..CacheSize - 1 /\ CacheSize \in Nat
          BY <1>2, CacheIndex, Sizes
        <5>4. cur = CacheSize - (x.cachedPos % CacheSize)
          BY <1>2, <1>3, <3>3, <4>1, <4>3, <4>5, <5>3 DEF SmallerOf
        <5>5. b.cachedPos % CacheSize = 0 BY <2>2, <2>4, <3>3, <3>5, <5>4, <1>2, WrapsToZero
        <5>6. PartSize(b, rest) = rest
          BY <1>1, <1>2, <1>3, <3>3, <4>1, <5>3, PartSizeIs, <5>5 DEF Sound, SmallerOf
        <5>7. y.hres = "ok" => /\ ClientFields(y) = ClientFields(x)
                               /\ y.cachedPos = x.cachedPos + n
                               /\ y.cachedSize = x.cachedSize - n
          BY <1>2, <1>3, <2>2, <2>4, <3>3, <3>5, <4>1, <5>2, <5>6
        <5> QED BY <5>2, <5>7 DEF n
      <4> QED BY <4>4, <4>5
    <3> QED BY <3>4, <3>5
  <2> QED BY <2>3, <2>4
<1> QED BY <1>5, <1>6

-----------------------------------------------------------------------------
(* The loop of FlushNonRestrictedBlocks.                                   *)

(* A nonempty set of natural numbers has a least element. *)
LEMMA LeastNumber ==
    ASSUME NEW T \in SUBSET Nat, T # {}
    PROVE  \E n \in T : \A k \in T : n <= k
<1>1. IsWellFoundedOn(OpToRel(<, Nat), Nat) BY NatLessThanWellFounded
<1>2. PICK n \in T : \A k \in T : <<k, n>> \notin OpToRel(<, Nat) BY <1>1, WFMin
<1>3. \A k \in T : ~(k < n) BY <1>2 DEF OpToRel
<1>4. \A k \in T : n <= k BY <1>3
<1> QED BY <1>4

(* f[n] is where the loop can be after n rounds. *)
IsRounds(x, f, m) ==
    f = [n \in 0..m |-> IF n = 0 THEN {x}
                        ELSE UNION {FlushNextBlock(y) : y \in f[n - 1]}]

LEMMA RoundsExist ==
    ASSUME NEW x, NEW m \in Nat
    PROVE  \E f : IsRounds(x, f, m)
<1> DEFINE T == {n \in Nat : ~ \E f : IsRounds(x, f, n)}
<1> SUFFICES ASSUME T # {} PROVE FALSE OBVIOUS
<1>1. PICK n \in T : \A k \in T : n <= k BY LeastNumber
<1>2. CASE n = 0
  <2>1. 0..0 = {0} OBVIOUS
  <2>2. IsRounds(x, [k \in 0..0 |-> {x}], 0) BY <2>1 DEF IsRounds
  <2> QED BY <1>1, <1>2, <2>2
<1>3. CASE n # 0
  <2>0. n \in Nat /\ n - 1 \in Nat /\ ~(n <= n - 1) BY <1>1, <1>3
  <2>1. n - 1 \notin T BY <1>1, <2>0
  <2>2. PICK g : IsRounds(x, g, n - 1) BY <2>0, <2>1
  <2> DEFINE h == [k \in 0..n |-> IF k = 0 THEN {x}
                                  ELSE UNION {FlushNextBlock(y) : y \in g[k - 1]}]
             After(v) == UNION {FlushNextBlock(y) : y \in v}
  <2>3. \A k \in 0..n - 1 : g[k] = IF k = 0 THEN {x} ELSE After(g[k - 1]) BY <2>2 DEF IsRounds
  <2>4. \A k \in 0..n : h[k] = IF k = 0 THEN {x} ELSE After(g[k - 1]) OBVIOUS
  <2>5. h = [k \in 0..n |-> h[k]] OBVIOUS
  <2> HIDE DEF h, After
  <2>6. \A k \in 0..n - 1 : h[k] = g[k] BY <2>0, <2>3, <2>4
  <2>7. \A k \in 0..n : k # 0 => k - 1 \in 0..n - 1 BY <2>0
  <2>8. \A k \in 0..n : h[k] = IF k = 0 THEN {x} ELSE After(h[k - 1]) BY <2>4, <2>6, <2>7
  <2>9. h = [k \in 0..n |-> IF k = 0 THEN {x} ELSE After(h[k - 1])] BY <2>5, <2>8
  <2>10. IsRounds(x, h, n) BY <2>9 DEF IsRounds, After
  <2> QED BY <1>1, <2>10
<1> QED BY <1>2, <1>3

(* What a call has done that is still to return. *)
Flushes(x, y, d, o) ==
    /\ Sound(y, d, o)
    /\ y.hres = "ok" => ClientFields(y) = ClientFields(x) /\ CachedEnd(y) = CachedEnd(x)

LEMMA FlushNextSound ==
    ASSUME NEW d, NEW o, NEW x, Sound(x, d, o), NEW y \in FlushNextBlock(x)
    PROVE  Flushes(x, y, d, o)
<1>1. x \in Cache /\ x.cachedPos \in Nat /\ x.cachedSize \in Nat BY Parts DEF Sound
<1>2. BlockRest(x.cachedPos) \in Nat BY <1>1, Sizes, Division DEF BlockRest
<1>3. y = x \/ (x.hres = "ok" /\ y \in FlushFromCache(x, BlockRest(x.cachedPos)))
  BY DEF FlushNextBlock
<1>4. CASE y = x BY <1>4 DEF Flushes
<1>5. CASE x.hres = "ok" /\ y \in FlushFromCache(x, BlockRest(x.cachedPos))
  <2> DEFINE n == SmallerOf(BlockRest(x.cachedPos), x.cachedSize)
  <2>1. /\ Sound(y, d, o)
        /\ y.hres = "ok" => /\ ClientFields(y) = ClientFields(x)
                            /\ y.cachedPos = x.cachedPos + n
                            /\ y.cachedSize = x.cachedSize - n
    BY <1>2, <1>5, FlushSound
  <2>2. n \in Nat BY <1>1, <1>2 DEF SmallerOf
  <2> HIDE DEF n
  <2>3. y.hres = "ok" => CachedEnd(y) = CachedEnd(x) BY <1>1, <2>1, <2>2 DEF CachedEnd
  <2> QED BY <2>1, <2>3 DEF Flushes
<1> QED BY <1>3, <1>4, <1>5

LEMMA FlushesOn ==
    \A d, o, x, z, y : x.hres = "ok" /\ Flushes(x, z, d, o) /\ Flushes(z, y, d, o)
                         /\ (z.hres # "ok" => y = z)
                       => Flushes(x, y, d, o)
  BY ZenonT(60) DEF Flushes

LEMMA LoopSound ==
    ASSUME NEW d, NEW o, NEW x, Sound(x, d, o), x.hres = "ok",
           NEW y \in FlushNonRestrictedBlocks(x)
    PROVE  Flushes(x, y, d, o)
<1> DEFINE m == CacheBlocks
           f == CHOOSE g : IsRounds(x, g, m)
<1>0. m \in Nat BY Sizes
<1>1. FlushNonRestrictedBlocks(x) = f[m] BY DEF FlushNonRestrictedBlocks, IsRounds
<1>2. IsRounds(x, f, m) BY <1>0, RoundsExist
<1> HIDE DEF f, m
<1>3. /\ f[0] = {x}
      /\ \A n \in 0..m : n # 0 => f[n] = UNION {FlushNextBlock(z) : z \in f[n - 1]}
  <2>1. 0 \in 0..m BY <1>0
  <2> QED BY <1>2, <2>1 DEF IsRounds
<1> DEFINE T == {n \in 0..m : ~ \A z \in f[n] : Flushes(x, z, d, o)}
<1>4. T = {}
  <2> SUFFICES ASSUME T # {} PROVE FALSE OBVIOUS
  <2>1. T \subseteq Nat BY <1>0
  <2>2. PICK n \in T : \A k \in T : n <= k BY <2>1, LeastNumber
  <2>3. CASE n = 0 BY <1>3, <2>2, <2>3 DEF Flushes
  <2>4. CASE n # 0
    BY <1>0, <2>2, <2>4, <1>3, FlushNextSound, FlushesOn DEF Flushes, FlushNextBlock
  <2> QED BY <2>3, <2>4
<1>5. m \in 0..m BY <1>0
<1> QED BY <1>1, <1>4, <1>5

-----------------------------------------------------------------------------
(* Write.                                                                  *)

(* Where the client stands. *)
Client(x, d) ==
    /\ x.virtSize = Len(d) /\ x.virtPos <= Len(d)
    /\ IF x.begin = x.end THEN x.virtPos = Len(d) ELSE x.begin <= x.virtPos

LEMMA ClientKept ==
    \A x, y, d : Client(x, d) /\ ClientFields(y) = ClientFields(x) => Client(y, d)
  BY CallsFields DEF Client

(* The cached data begins before the place to write at and reaches it. *)
Ready(x) ==
    /\ x.cachedPos <= x.virtPos /\ x.virtPos <= CachedEnd(x)
    /\ x.virtPos = CachedEnd(x) => x.cachedSize < CacheSize

LEMMA NothingCached ==
    ASSUME NEW d, NEW o, NEW x, Sound(x, d, o), x.hres = "ok", x.cachedSize = 0
    PROVE  x.phySize = Len(d) /\ x.phy.final <= Len(d)
<1>1. /\ x \in Cache /\ Holds(x, d) /\ Len(d) \in Nat /\ x.phySize <= Len(d) /\ Below(x, o)
  BY DEF Sound
<1>2. /\ x.cachedPos \in Nat /\ x.phySize \in Nat /\ CachedEnd(x) = x.cachedPos + x.cachedSize
      /\ x.phy.final \in Nat
  BY <1>1, Parts
<1>3. CASE Len(d) = 0 BY <1>1, <1>2, <1>3 DEF Below, Holds
<1>4. CASE Len(d) # 0
  <2>1. Len(d) - 1 \in 0..Len(d) - 1 /\ ~IsCached(x, Len(d) - 1)
    BY <1>1, <1>2, <1>4 DEF IsCached
  <2>2. Len(d) - 1 < x.phySize BY <1>1, <2>1 DEF Holds
  <2>3. x.phySize = Len(d) BY <1>1, <1>2, <2>2
  <2> QED BY <1>1, <1>2, <2>3 DEF Below, Holds
<1> QED BY <1>3, <1>4

LEMMA ContinueSound ==
    ASSUME NEW d, NEW o, NEW x, Sound(x, d, o), x.hres = "ok", NEW y \in Continue(x)
    PROVE  /\ Sound(y, d, o)
           /\ y.hres = "ok" =>
                /\ ClientFields(y) = ClientFields(x)
                /\ y.cachedSize # 0 => y.cachedPos <= y.virtPos /\ y.virtPos <= CachedEnd(y)
<1>1. x \in Cache BY DEF Sound
<1>2. /\ x.cachedSize \in Nat /\ x.cachedPos \in Nat /\ x.virtPos \in Nat
      /\ CachedEnd(x) = x.cachedPos + x.cachedSize
  BY <1>1, Parts
<1>3. CASE x.cachedSize # 0 /\ (x.virtPos < x.cachedPos \/ x.virtPos > CachedEnd(x))
  BY <1>3, <1>2, FlushSound DEF Continue, FlushCache, SmallerOf
<1>4. CASE ~(x.cachedSize # 0 /\ (x.virtPos < x.cachedPos \/ x.virtPos > CachedEnd(x)))
  <2>1. y = x BY <1>4 DEF Continue
  <2> QED BY <1>2, <1>4, <2>1
<1> QED BY <1>3, <1>4

LEMMA StartSound ==
    ASSUME NEW d, NEW o, NEW x, Sound(x, d, o), x.hres = "ok",
           x.cachedSize # 0 => x.cachedPos <= x.virtPos /\ x.virtPos <= CachedEnd(x)
    PROVE  LET y == Start(x) IN
           /\ Sound(y, d, o) /\ y.hres = "ok" /\ ClientFields(y) = ClientFields(x)
           /\ y.cachedSize = x.cachedSize
           /\ y.cachedPos <= y.virtPos /\ y.virtPos <= CachedEnd(y)
<1>1. CASE x.cachedSize # 0 BY <1>1 DEF Start
<1>2. CASE x.cachedSize = 0
  <2> DEFINE y == [x EXCEPT !.cachedPos = x.virtPos]
  <2>1. /\ x \in Cache /\ d \in Seq(Byte) /\ o \in Phy
        /\ Limits(x) /\ Holds(x, d) /\ Below(x, o) /\ x.cachedSize <= CacheSize
        /\ x.phySize <= Len(d) /\ Len(d) <= MaxSize /\ Len(d) \in Nat
    BY DEF Sound
  <2>2. x.virtPos \in Nat /\ x.cachedPos \in Nat BY <2>1, Parts
  <2>3. /\ y \in Cache /\ y.hres = x.hres /\ ClientFields(y) = ClientFields(x) /\ y.phy = x.phy
        /\ y.cachedSize = 0 /\ y.cachedPos = x.virtPos /\ y.virtPos = x.virtPos
        /\ y.phyPos = x.phyPos /\ y.phySize = x.phySize /\ y.begin = x.begin
        /\ y.end = x.end /\ y.seekable = x.seekable
    BY <1>2, <2>2, <2>1 DEF Cache, ClientFields
  <2>4. Start(x) = y BY <1>2 DEF Start
  <2> HIDE DEF y
  <2>5. Below(y, o) BY <2>1, <2>3 DEF Below
  <2>6. Limits(y) BY <1>2, <2>1, <2>3 DEF Limits
  <2>7. \A pos \in 0..Len(d) - 1 : ~IsCached(x, pos) /\ ~IsCached(y, pos)
    BY <1>2, <2>1, <2>2, <2>3 DEF IsCached, CachedEnd
  <2>8. Holds(y, d) BY <2>1, <2>3, <2>7 DEF Holds
  <2>9. Sound(y, d, o) BY <1>2, <2>1, <2>3, <2>5, <2>6, <2>8 DEF Sound
  <2> QED BY <1>2, <2>2, <2>3, <2>4, <2>9 DEF CachedEnd
<1> QED BY <1>1, <1>2

LEMMA RoomSound ==
    ASSUME NEW d, NEW o, NEW x, Sound(x, d, o), x.hres = "ok",
           x.cachedPos <= x.virtPos, x.virtPos <= CachedEnd(x), NEW y \in MakeRoom(x)
    PROVE  /\ Sound(y, d, o)
           /\ y.hres = "ok" => ClientFields(y) = ClientFields(x) /\ Ready(y)
<1>1. x \in Cache /\ x.cachedSize <= CacheSize BY DEF Sound
<1>2. /\ x.cachedSize \in Nat /\ x.cachedPos \in Nat /\ x.virtPos \in Nat
      /\ CachedEnd(x) = x.cachedPos + x.cachedSize /\ CacheSize \in Nat \ {0}
  BY <1>1, Parts, Sizes
<1>3. CASE x.virtPos = CachedEnd(x) /\ x.cachedSize = CacheSize
  <2>1. y \in FlushFromCache(x, BlockRest(x.cachedPos)) BY <1>3 DEF MakeRoom
  <2>2. BlockRest(x.cachedPos) \in Nat \ {0} BY <1>2, Sizes, Division DEF BlockRest
  <2> DEFINE n == SmallerOf(BlockRest(x.cachedPos), x.cachedSize)
  <2>3. n \in 1..x.cachedSize BY <1>2, <1>3, <2>2 DEF SmallerOf
  <2>4. /\ Sound(y, d, o)
        /\ y.hres = "ok" => /\ ClientFields(y) = ClientFields(x)
                            /\ y.cachedPos = x.cachedPos + n
                            /\ y.cachedSize = x.cachedSize - n
    BY <2>1, <2>2, FlushSound
  <2> HIDE DEF n
  <2>5. ASSUME y.hres = "ok" PROVE Ready(y)
    BY <2>4, <2>5, CallsFields, <1>2, <1>3, <2>3 DEF Ready, CachedEnd
  <2> QED BY <2>4, <2>5
<1>4. CASE ~(x.virtPos = CachedEnd(x) /\ x.cachedSize = CacheSize)
  BY <1>4, <1>1, <1>2 DEF MakeRoom, Ready
<1> QED BY <1>3, <1>4

(* Two places of a file less than a round apart, in the cache's memory. *)
LEMMA Apart ==
    ASSUME NEW n \in Nat \ {0}, NEW p \in Int, NEW a \in Int, 0 <= a - p, a - p < n
    PROVE  LET r == p % n
               v == a % n
           IN  /\ r \in 0..n - 1 /\ v \in 0..n - 1
               /\ a - p = IF v >= r THEN v - r ELSE (v - r) + n
<1>1. PICK q \in Int, r \in 0..n - 1 : r = p % n /\ p = n * q + r BY Division
<1>2. PICK k \in Int, v \in 0..n - 1 : v = a % n /\ a = n * k + v BY Division
<1>3. n * k \in Int /\ n * q \in Int /\ n * (k - q) = n * k - n * q BY <1>1, <1>2
<1> DEFINE z == k - q
<1>4. z \in Int /\ a - p = n * z + (v - r) BY <1>1, <1>2, <1>3
<1> HIDE DEF z
<1>5. CASE v >= r
  <2>1. n * z = (a - p) - (v - r) BY <1>1, <1>2, <1>4
  <2>2. (a - p) - (v - r) = 0 BY <1>1, <1>2, <1>5, <2>1, <1>4, Multiples
  <2> QED BY <1>1, <1>2, <1>5, <2>2
<1>6. CASE v < r
  <2> DEFINE w == z - 1
  <2>1. w \in Int /\ n * w = n * z - n BY <1>4
  <2>2. n * w = (a - p) - (v - r) - n BY <1>1, <1>2, <1>4, <2>1
  <2> HIDE DEF w
  <2>3. (a - p) - (v - r) - n = 0 BY <1>1, <1>2, <1>4, <1>6, <2>1, <2>2, Multiples
  <2>4. r \in Int /\ v \in Int /\ a - p \in Int /\ n \in Int BY <1>1, <1>2
  <2>5. ~(v >= r) BY <1>6, <2>4
  <2>6. a - p = (v - r) + n BY <2>3, <2>4
  <2> QED BY <1>1, <1>2, <2>5, <2>6
<1> QED BY <1>1, <1>2, <1>5, <1>6

LEMMA BlockRestIs ==
    ASSUME NEW pos \in Nat
    PROVE  BlockRest(pos) \in 1..CacheBlockSize
  BY Sizes, Division DEF BlockRest

LEMMA AmountFacts ==
    ASSUME NEW x \in Cache, x.cachedSize <= CacheSize, Ready(x), NEW size \in Nat \ {0}
    PROVE  /\ Amount(x, size) \in 1..size /\ Amount(x, size) <= CacheBlockSize
           /\ x.virtPos = CachedEnd(x) \/ x.virtPos + Amount(x, size) <= CachedEnd(x)
           /\ (x.virtPos + Amount(x, size)) - x.cachedPos <= CacheSize
<1>1. /\ x.cachedSize \in Nat /\ x.cachedPos \in Nat /\ x.virtPos \in Nat
      /\ CachedEnd(x) = x.cachedPos + x.cachedSize
      /\ CacheSize \in Nat \ {0} /\ CacheBlockSize \in Nat \ {0}
      /\ CacheBlockSize <= CacheSize
      /\ x.cachedPos <= x.virtPos /\ x.virtPos <= CachedEnd(x)
      /\ x.virtPos = CachedEnd(x) => x.cachedSize < CacheSize
  BY Parts, Sizes DEF Ready
<1>2. BlockRest(x.virtPos) \in 1..CacheBlockSize BY <1>1, BlockRestIs
<1> DEFINE n == Min({size, BlockRest(x.virtPos)})
           rest == CachedEnd(x) - x.virtPos
           gap == (x.cachedPos % CacheSize) - (x.virtPos % CacheSize)
<1>3. n \in 1..size /\ n <= BlockRest(x.virtPos) BY <1>2, MinTwo
<1>4. Amount(x, size) = IF rest > 0 THEN Min({n, rest})
                        ELSE IF x.cachedSize # 0 /\ gap > 0 THEN Min({n, gap}) ELSE n
  BY DEF Amount
<1>5. rest \in Nat /\ rest = CachedEnd(x) - x.virtPos BY <1>1
<1> DEFINE r == x.cachedPos % CacheSize
           v == x.virtPos % CacheSize
<1>6. r \in 0..CacheSize - 1 /\ v \in 0..CacheSize - 1 /\ gap = r - v /\ gap \in Int
  BY <1>1, CacheIndex
<1>7. v + BlockRest(x.virtPos) <= CacheSize
  <2>1. CacheBlockSize \in Nat \ {0} /\ CacheBlocks \in Nat \ {0} /\ x.virtPos \in Int
    BY <1>1, Sizes
  <2>2. (x.virtPos % (CacheBlocks * CacheBlockSize))
          + (CacheBlockSize - (x.virtPos % CacheBlockSize)) <= CacheBlocks * CacheBlockSize
    BY <2>1, BlockEnds
  <2> QED BY <2>2 DEF BlockRest, CacheSize
<1>8. CASE rest > 0
  <2>1. Amount(x, size) = IF n <= rest THEN n ELSE rest
    <3>1. n \in Int /\ rest \in Int BY <1>3, <1>5
    <3> HIDE DEF n, rest
    <3> QED BY <1>4, <1>8, <3>1, MinTwo
  <2> HIDE DEF n, rest
  <2> QED BY <1>1, <1>2, <1>3, <1>5, <1>8, <2>1
<1>9. CASE rest = 0 /\ x.cachedSize # 0 /\ gap > 0
  <2>1. Amount(x, size) = IF n <= gap THEN n ELSE gap BY <1>3, <1>6, <1>9, <1>4, MinTwo
  <2>2. x.virtPos - x.cachedPos = (v - r) + CacheSize
    <3>1. 0 <= x.virtPos - x.cachedPos /\ x.virtPos - x.cachedPos < CacheSize BY <1>1, <1>9
    <3>2. ~(v >= r) BY <1>6, <1>9
    <3>3. x.virtPos - x.cachedPos = IF v >= r THEN v - r ELSE (v - r) + CacheSize
      <4>1. x.cachedPos \in Int /\ x.virtPos \in Int /\ CacheSize \in Nat \ {0} BY <1>1
      <4> QED BY <3>1, <4>1, Apart
    <3> QED BY <3>2, <3>3
  <2>3. x.virtPos = CachedEnd(x) BY <1>1, <1>9
  <2> HIDE DEF n, rest, gap, r, v
  <2> QED BY <1>1, <1>2, <1>3, <1>6, <1>9, <2>1, <2>2, <2>3
<1>10. CASE rest = 0 /\ x.cachedSize # 0 /\ ~(gap > 0)
  <2>1. Amount(x, size) = n BY <1>10, <1>4
  <2>2. x.virtPos - x.cachedPos = v - r
    <3>1. 0 <= x.virtPos - x.cachedPos /\ x.virtPos - x.cachedPos < CacheSize BY <1>1, <1>10
    <3>2. v >= r BY <1>6, <1>10
    <3>3. x.virtPos - x.cachedPos = IF v >= r THEN v - r ELSE (v - r) + CacheSize
      <4>1. x.cachedPos \in Int /\ x.virtPos \in Int /\ CacheSize \in Nat \ {0} BY <1>1
      <4> QED BY <3>1, <4>1, Apart
    <3> QED BY <3>2, <3>3
  <2>3. x.virtPos = CachedEnd(x) BY <1>1, <1>10
  <2> HIDE DEF n, rest, gap, r, v
  <2> QED BY <1>1, <1>2, <1>3, <1>6, <1>7, <2>1, <2>2, <2>3
<1>11. CASE rest = 0 /\ x.cachedSize = 0 BY <1>11, <1>4, <1>1, <1>2, <1>3
<1> QED BY <1>5, <1>8, <1>9, <1>10, <1>11

LEMMA NewByteIs ==
    ASSUME file.data \in Seq(Byte), NEW p \in Nat
    PROVE  NewByte(p) \in Byte
  BY DEF Byte, NewByte

LEMMA NewBytesAre ==
    ASSUME file.data \in Seq(Byte), NEW pos \in Nat, NEW n \in Int
    PROVE  /\ NewBytes(pos, n) \in Seq(Byte)
           /\ n \in Nat => /\ Len(NewBytes(pos, n)) = n
                           /\ \A k \in 1..n : NewBytes(pos, n)[k] = NewByte(pos + k - 1)
  BY NewByteIs DEF NewBytes

(* e is d with n bytes written at pos. *)
IsNew(e, d, pos, n) ==
    /\ e \in Seq(Byte) /\ Len(e) \in Nat
    /\ Len(e) = IF pos + n > Len(d) THEN pos + n ELSE Len(d)
    /\ \A k \in 0..Len(e) - 1 :
          e[k + 1] = IF pos <= k /\ k < pos + n THEN NewByte(k) ELSE d[k + 1]

LEMMA NewFile ==
    ASSUME file.data \in Seq(Byte), NEW d \in Seq(Byte), NEW pos \in 0..Len(d), NEW n \in Nat
    PROVE  IsNew(Put(d, pos, NewBytes(pos, n)), d, pos, n)
<1> DEFINE bytes == NewBytes(pos, n)
           e == Put(d, pos, bytes)
<1>1. pos \in Nat /\ Len(d) \in Nat /\ n \in Int OBVIOUS
<1>2. /\ bytes \in Seq(Byte) /\ Len(bytes) = n
      /\ \A k \in 1..n : bytes[k] = NewByte(pos + k - 1)
  BY <1>1, NewBytesAre
<1> HIDE DEF bytes
<1>3. LET r == e IN
      /\ r \in Seq(Byte)
      /\ Len(r) = IF pos + Len(bytes) > Len(d) THEN pos + Len(bytes) ELSE Len(d)
      /\ \A k \in 1..Len(r) :
            r[k] = IF k <= pos THEN d[k]
                   ELSE IF k <= pos + Len(bytes) THEN bytes[k - pos] ELSE d[k]
  BY <1>2, PutFacts
<1> HIDE DEF e
<1>4. e \in Seq(Byte) /\ Len(e) \in Nat BY <1>3
<1>5. Len(e) = IF pos + n > Len(d) THEN pos + n ELSE Len(d) BY <1>2, <1>3
<1>6. ASSUME NEW k \in 0..Len(e) - 1
      PROVE  e[k + 1] = IF pos <= k /\ k < pos + n THEN NewByte(k) ELSE d[k + 1]
  <2>1. k \in Nat /\ k + 1 \in 1..Len(e)
    BY <1>4
  <2>2. e[k + 1] = IF k + 1 <= pos THEN d[k + 1]
                   ELSE IF k + 1 <= pos + n THEN bytes[(k + 1) - pos] ELSE d[k + 1]
    BY <1>2, <1>3, <2>1
  <2>3. CASE pos <= k /\ k < pos + n
    <3>1. (k + 1) - pos \in 1..n /\ pos + ((k + 1) - pos) - 1 = k
      BY <1>1, <2>1, <2>3
    <3>2. bytes[(k + 1) - pos] = NewByte(k)
      BY <1>2, <3>1
    <3> QED
      BY <1>1, <2>1, <2>2, <2>3, <3>2
  <2>4. CASE k < pos
    <3>1. k + 1 <= pos /\ ~(pos <= k)
      BY <1>1, <2>1, <2>4
    <3> QED
      BY <2>2, <3>1
  <2>5. CASE k >= pos + n
    <3>1. ~(k + 1 <= pos) /\ ~(k + 1 <= pos + n) /\ ~(k < pos + n)
      BY <1>1, <2>1, <2>5
    <3> QED
      BY <2>2, <3>1
  <2> QED
    BY <1>1, <2>1, <2>3, <2>4, <2>5
<1> QED BY <1>4, <1>5, <1>6 DEF IsNew, e, bytes

(* What a call of Write has done that took n bytes of the client, whose    *)
(* file is e then.                                                         *)
Written(x, e, o, n, y) ==
    /\ Sound(y, e, o)
    /\ y.hres = "ok" => /\ y.virtPos = x.virtPos + n /\ Client(y, e)
                        /\ y.begin = x.begin /\ y.end = x.end

LEMMA MovedIs ==
    ASSUME NEW x \in Cache, NEW pos \in Nat
    PROVE  LET y == Moved(x, pos) IN
           /\ y \in Cache /\ y.virtPos = pos
           /\ y.virtSize = IF x.virtSize >= pos THEN x.virtSize ELSE pos
           /\ y.hres = x.hres /\ y.cachedSize = x.cachedSize /\ y.cachedPos = x.cachedPos
           /\ y.phyPos = x.phyPos /\ y.phySize = x.phySize /\ y.begin = x.begin
           /\ y.end = x.end /\ y.cache = x.cache /\ y.seekable = x.seekable
           /\ y.phy = x.phy
<1>1. x.virtSize \in Nat BY Parts
<1>2. Max({x.virtSize, pos}) = IF x.virtSize >= pos THEN x.virtSize ELSE pos BY <1>1, MaxTwo
<1>3. Max({x.virtSize, pos}) \in Nat BY <1>1, <1>2
<1> QED BY <1>2, <1>3 DEF Moved, Cache

(* After an error what the client has written does not matter any more. *)
LEMMA ErrorSound ==
    \A d, e, o, y : Sound(y, d, o) /\ y.hres # "ok" /\ e \in Seq(Byte) => Sound(y, e, o)
  BY DEF Sound

LEMMA ErrorWritten ==
    \A d, e, o, x, n, y : Sound(y, d, o) /\ y.hres # "ok" /\ e \in Seq(Byte)
                            => Written(x, e, o, n, y)
  BY ErrorSound DEF Written

IsDirectly(x, n, y) ==
    \E a \in SeekPhy(x, x.virtPos) :
       IF a.hres = "ok"
       THEN \E b \in PhySetRestriction(a, a.begin, a.end) :
               IF b.hres = "ok"
               THEN \E c \in PhyWrite(b, NewBytes(b.virtPos, n)) :
                       IF c.hres = "ok" THEN y = Moved(c, c.virtPos + n) ELSE y = c
               ELSE y = b
       ELSE y = a

LEMMA DirectCases ==
    ASSUME NEW x, NEW n, NEW y \in WriteDirect(x, n)
    PROVE  IsDirectly(x, n, y)
  BY DEF WriteDirect, Then, IsDirectly

(* A block goes to the stream below at the end of the file. *)
LEMMA DirectSound ==
    ASSUME file.data \in Seq(Byte), NEW d, NEW o, NEW x, Sound(x, d, o), x.hres = "ok",
           Client(x, d), x.cachedSize = 0, x.begin = x.end, NEW n \in Nat,
           x.virtPos + n <= MaxSize, NEW e, IsNew(e, d, x.virtPos, n),
           NEW y \in WriteDirect(x, n)
    PROVE  Written(x, e, o, n, y)
<1>1. /\ x \in Cache /\ d \in Seq(Byte) /\ o \in Phy /\ Len(d) \in Nat
      /\ Limits(x) /\ Holds(x, d) /\ Below(x, o) /\ o.final \in Nat
  BY DEF Sound, Phy
<1>2. /\ x.virtPos = Len(d) /\ x.virtSize = Len(d) /\ x.phySize = Len(d)
      /\ x.virtPos \in Nat /\ e \in Seq(Byte)
  BY <1>1, NothingCached DEF Client, IsNew
<1>3. x.seekable \/ x.virtPos = x.phyPos BY <1>1, <1>2 DEF Limits
<1>4. IsDirectly(x, n, y) BY DirectCases
<1>5. PICK a \in SeekPhy(x, x.virtPos) :
         IF a.hres = "ok"
         THEN \E b \in PhySetRestriction(a, a.begin, a.end) :
                 IF b.hres = "ok"
                 THEN \E c \in PhyWrite(b, NewBytes(b.virtPos, n)) :
                         IF c.hres = "ok" THEN y = Moved(c, c.virtPos + n) ELSE y = c
                 ELSE y = b
         ELSE y = a
  BY <1>4 DEF IsDirectly
<1>6. /\ Sound(a, d, o)
      /\ a.hres = "ok" =>
           /\ ClientFields(a) = ClientFields(x) /\ a.phyPos = x.virtPos /\ a.phySize = x.phySize
           /\ a.cachedPos = x.cachedPos /\ a.cachedSize = x.cachedSize
           /\ a.phy.final = x.phy.final
  BY <1>2, <1>3, SeekSound
<1>7. CASE a.hres # "ok" BY <1>2, <1>5, <1>6, <1>7, ErrorWritten
<1>8. CASE a.hres = "ok"
  <2>1. PICK b \in PhySetRestriction(a, a.begin, a.end) :
           IF b.hres = "ok"
           THEN \E c \in PhyWrite(b, NewBytes(b.virtPos, n)) :
                   IF c.hres = "ok" THEN y = Moved(c, c.virtPos + n) ELSE y = c
           ELSE y = b
    BY <1>5, <1>8
  <2>2. /\ a \in Cache /\ Limits(a) /\ Holds(a, d) /\ Below(a, o)
        /\ a.begin \in Nat /\ a.end \in Nat /\ a.virtPos = x.virtPos
        /\ a.virtSize = x.virtSize /\ a.begin = x.begin /\ a.end = x.end
        /\ a.seekable = x.seekable /\ a.phy.final \in Nat /\ Len(a.phy.data) \in Nat
    BY <1>6, <1>8, Parts, CallsFields DEF Sound
  <2>3. CASE b = Failed(a)
    <3>1. b.hres = "error" BY <2>2, <2>3 DEF Failed, Cache
    <3>2. Sound(b, d, o) BY <1>1, <2>2, <2>3, Failing
    <3> QED BY <1>2, <2>1, <3>1, <3>2, ErrorWritten
  <2> DEFINE p == x.virtPos
  <2>4. CASE /\ b \in Cache /\ b.hres = "ok" /\ ClientFields(b) = ClientFields(a)
             /\ b.cachedPos = a.cachedPos /\ b.cachedSize = a.cachedSize
             /\ b.phyPos = a.phyPos /\ b.phySize = a.phySize
             /\ b.phy.data = a.phy.data /\ b.phy.pos = a.phy.pos
             /\ a.phy.final <= b.phy.final /\ b.phy.final <= p
             /\ b.phy.atEnd
    <3> DEFINE bytes == NewBytes(b.virtPos, n)
    <3>1. PICK c \in PhyWrite(b, bytes) :
             IF c.hres = "ok" THEN y = Moved(c, c.virtPos + n) ELSE y = c
      BY <2>1, <2>4
    <3>2. /\ b.virtPos = p /\ b.phyPos = p /\ b.phySize = p
          /\ b.phyPos = b.phy.pos /\ b.phySize = Len(b.phy.data) /\ b.cachedSize = 0
      BY <1>2, <1>6, <1>8, <2>2, <2>4, CallsFields DEF Holds
    <3>3. /\ bytes \in Seq(Byte) /\ Len(bytes) = n
          /\ \A k \in 1..n : bytes[k] = NewByte(p + k - 1)
      <4>1. bytes = NewBytes(p, n) BY <3>2
      <4>2. p \in Nat /\ n \in Int BY <1>2
      <4> HIDE DEF bytes, p
      <4> QED BY <4>1, <4>2, NewBytesAre
    <3> HIDE DEF bytes
    <3>4. Below(b, o) /\ b.phy.final \in Nat
      BY <2>4, Parts, <1>1, <1>2, <2>2, <3>2, SMTT(30) DEF Below
    <3>5. CASE c = Failed(b)
      <4>1. c.hres = "error" BY <2>4, <3>5 DEF Failed, Cache
      <4>2. Sound(c, d, o) BY <1>1, <2>4, <3>4, <3>5, Failing
      <4> QED BY <1>2, <3>1, <4>1, <4>2, ErrorWritten
    <3>6. CASE /\ c \in Cache /\ ClientFields(c) = ClientFields(b) /\ c.hres = b.hres
               /\ c.cachedPos = b.cachedPos /\ c.cachedSize = b.cachedSize
               /\ c.phyPos = b.phyPos + Len(bytes) /\ c.phy.pos = c.phyPos
               /\ c.phySize = Larger(b.phySize, b.phyPos + Len(bytes))
               /\ c.phySize = Len(c.phy.data)
               /\ \A k \in 1..c.phySize :
                     c.phy.data[k] = IF k <= b.phyPos THEN b.phy.data[k]
                                     ELSE IF k <= c.phyPos THEN bytes[k - b.phyPos]
                                     ELSE b.phy.data[k]
               /\ c.phy.begin = b.phy.begin /\ c.phy.atEnd = b.phy.atEnd
               /\ c.phy.final = Larger(b.phy.final, SmallerOf(c.phySize, c.phy.begin))
      <4>1. y = Moved(c, p + n) /\ p + n \in Nat BY <1>2, <2>4, <3>1, <3>2, <3>6, CallsFields
      <4>2. /\ y \in Cache /\ y.virtPos = p + n
            /\ y.virtSize = (IF c.virtSize >= p + n THEN c.virtSize ELSE p + n)
            /\ y.hres = c.hres /\ y.cachedSize = c.cachedSize /\ y.cachedPos = c.cachedPos
            /\ y.phyPos = c.phyPos /\ y.phySize = c.phySize /\ y.begin = c.begin
            /\ y.end = c.end /\ y.cache = c.cache /\ y.seekable = c.seekable
            /\ y.phy = c.phy
        BY <3>6, <4>1, MovedIs
      <4>3. /\ y.begin = x.begin /\ y.end = x.end /\ y.seekable = x.seekable
            /\ c.virtSize = p /\ y.hres = "ok" /\ y.cachedSize = 0
        BY <1>2, <2>2, <2>4, <3>2, <3>6, <4>2, CallsFields
      <4>4. /\ y.virtSize = p + n /\ y.phyPos = p + n /\ y.phySize = p + n
            /\ y.phy.pos = p + n /\ Len(y.phy.data) = p + n
        <5>1. y.phyPos = p + n /\ y.phy.pos = p + n BY <3>2, <3>3, <3>6, <4>2
        <5>2. y.phySize = Larger(p, p + n) /\ Len(y.phy.data) = y.phySize
          BY <3>2, <3>3, <3>6, <4>2
        <5>3. y.virtSize = IF p >= p + n THEN p ELSE p + n BY <4>2, <4>3
        <5>4. p \in Nat BY <1>2
        <5> HIDE DEF p
        <5> QED BY <5>1, <5>2, <5>3, <5>4 DEF Larger
      <4>5. /\ Len(e) = p + n
            /\ \A k \in 0..(p + n) - 1 :
                  e[k + 1] = IF p <= k /\ k < p + n THEN NewByte(k) ELSE d[k + 1]
        BY <1>1, <1>2 DEF IsNew
      <4>6. \A k \in 1..p + n :
               y.phy.data[k] = IF k <= p THEN a.phy.data[k] ELSE bytes[k - p]
        BY <2>4, <3>2, <3>3, <3>6, <1>2, <4>2, <4>4
      <4>7. ASSUME NEW k \in 0..(p + n) - 1
            PROVE  e[k + 1] = y.phy.data[k + 1]
        <5>1. k \in Nat /\ k + 1 \in 1..p + n BY <1>2
        <5>2. CASE k < p
          <6>1. k \in 0..Len(d) - 1 /\ ~IsCached(a, k)
            BY <1>6, <1>8, <2>2, <2>4, <3>2, Parts, <5>1, <1>1, <1>2, <5>2, SMTT(30) DEF
               IsCached, CachedEnd
          <6>2. d[k + 1] = a.phy.data[k + 1] BY <2>2, <6>1 DEF Holds
          <6>3. k + 1 <= p /\ ~(p <= k) BY <1>2, <5>1, <5>2
          <6> QED BY <4>5, <4>6, <5>1, <6>2, <6>3
        <5>3. CASE k >= p
          <6>1. (k + 1) - p \in 1..n /\ p + ((k + 1) - p) - 1 = k /\ ~(k + 1 <= p) /\ k < p + n
            <7>1. p \in Nat BY <1>2
            <7> HIDE DEF p
            <7> QED BY <5>1, <5>3, <7>1
          <6>2. bytes[(k + 1) - p] = NewByte(k) BY <3>3, <6>1
          <6> QED BY <4>5, <4>6, <5>1, <5>3, <6>1, <6>2
        <5> QED BY <1>2, <5>1, <5>2, <5>3
      <4>8. Below(y, o)
        <5>1. y.phy.final <= Len(y.phy.data) /\ b.phy.final <= y.phy.final
          <6>1. /\ c.phy.begin \in Nat /\ c.phySize \in Nat
                /\ c.phy.final = Larger(b.phy.final, SmallerOf(c.phySize, c.phy.begin))
            BY <3>6, Parts
          <6>2. b.phy.final \in Nat /\ b.phy.final <= c.phySize
            BY <3>2, <3>3, <3>6, <1>2, <2>4, <3>4 DEF Larger
          <6>3. y.phy = c.phy /\ Len(c.phy.data) = c.phySize BY <3>6, <4>2
          <6> QED BY <6>1, <6>2, <6>3 DEF Larger, SmallerOf
        <5>2. y.phy.atEnd BY <2>4, <3>6, <4>2, Zenon
        <5>3. y.phy.final \in Nat BY <4>2, Parts
        <5>4. o.final <= b.phy.final /\ \A k \in 1..o.final : a.phy.data[k] = o.data[k]
          BY <2>4, <3>4 DEF Below
        <5>5. \A k \in 1..o.final : k \in 1..p + n /\ k <= p BY <1>1, <1>2, <2>4, <3>4, <5>4
        <5>6. \A k \in 1..o.final : y.phy.data[k] = o.data[k] BY <4>6, <5>4, <5>5
        <5>7. o.final <= y.phy.final BY <1>1, <3>4, <5>1, <5>3, <5>4
        <5> QED BY <5>1, <5>2, <5>6, <5>7 DEF Below
      <4>9. Limits(y) BY <1>1, <4>3, <4>4 DEF Limits
      <4>10. Holds(y, e)
        BY <1>2, <4>2, Parts, <4>3, <4>4, <4>5, <4>7 DEF IsCached, CachedEnd, Holds
      <4>11. Sound(y, e, o)
        BY <4>3, Sizes, <1>1, <1>2, <4>2, <4>4, <4>5, <4>8, <4>9, <4>10 DEF Sound
      <4>12. Client(y, e) BY <1>2, <4>2, <4>3, <4>4, <4>5 DEF Client
      <4> QED BY <4>2, <4>3, <4>11, <4>12 DEF Written
    <3>7. b.phyPos <= b.phySize BY <1>2, <3>2
    <3>8. \/ c = Failed(b)
          \/ /\ c \in Cache /\ ClientFields(c) = ClientFields(b) /\ c.hres = b.hres
             /\ c.cachedPos = b.cachedPos /\ c.cachedSize = b.cachedSize
             /\ c.phyPos = b.phyPos + Len(bytes) /\ c.phy.pos = c.phyPos
             /\ c.phySize = Larger(b.phySize, b.phyPos + Len(bytes))
             /\ c.phySize = Len(c.phy.data)
             /\ \A k \in 1..c.phySize :
                   c.phy.data[k] = IF k <= b.phyPos THEN b.phy.data[k]
                                   ELSE IF k <= c.phyPos THEN bytes[k - b.phyPos]
                                   ELSE b.phy.data[k]
             /\ c.phy.begin = b.phy.begin /\ c.phy.atEnd = b.phy.atEnd
             /\ c.phy.final = Larger(b.phy.final, SmallerOf(c.phySize, c.phy.begin))
      <4>1. b \in Cache /\ b.phyPos = b.phy.pos /\ b.phySize = Len(b.phy.data) BY <2>4, <3>2
      <4> QED BY <3>3, <3>7, <4>1, WriteOutcome
    <3> QED BY <3>5, <3>6, <3>8
  <2>5. CASE ~a.seekable /\ b = a BY <1>2, <1>6, <1>8, <2>2, <2>4, <2>5 DEF Holds, Below
  <2>6. CASE /\ a.seekable /\ b \in Cache /\ ClientFields(b) = ClientFields(a) /\ b.hres = a.hres
             /\ b.cachedPos = a.cachedPos /\ b.cachedSize = a.cachedSize
             /\ b.phyPos = a.phyPos /\ b.phySize = a.phySize
             /\ b.phy.data = a.phy.data /\ b.phy.pos = a.phy.pos
             /\ b.phy.begin = (IF a.begin = a.end THEN Inf ELSE a.begin)
             /\ b.phy.final = Larger(a.phy.final, SmallerOf(Len(a.phy.data), b.phy.begin))
             /\ b.phy.atEnd = (a.phy.atEnd /\ (a.begin = a.end => a.phy.pos = Len(a.phy.data)))
    <3>1. a.phySize = Len(a.phy.data) /\ a.phySize = p /\ a.phy.pos = p /\ p \in Nat
      BY <1>2, <1>6, <1>8, <2>2 DEF Holds
    <3>2. a.phy.final <= p /\ a.phy.atEnd BY <2>2, <3>1 DEF Below
    <3>3. b.phy.atEnd
      <4>1. a.phy.pos = Len(a.phy.data) BY <3>1
      <4> QED BY <2>6, <3>2, <4>1, Zenon
    <3>4. b.phy.final <= p /\ a.phy.final <= b.phy.final
      BY <2>6, Parts, <2>2, <3>1, <3>2, SMTT(30) DEF Larger, SmallerOf
    <3>5. b.hres = "ok" BY <1>8, <2>6
    <3> QED BY <2>4, <2>6, <3>3, <3>4, <3>5, Zenon
  <2> QED BY <2>2, <2>3, <2>5, <2>6, RestrictOutcome
<1> QED BY <1>7, <1>8

(* The cache with n new bytes from virtPos on. *)
At(x, k) == (k - x.virtPos) % CacheSize
WithBytes(x, n) ==
    [Moved(x, x.virtPos + n) EXCEPT
        !.cachedSize = Max({@, x.virtPos + n - x.cachedPos}),
        !.cache = [k \in DOMAIN @ |->
                     IF At(x, k) < n THEN NewByte(x.virtPos + At(x, k)) ELSE @[k]]]

LEMMA WithBytesIs ==
    ASSUME file.data \in Seq(Byte), NEW x \in Cache, NEW n \in Nat
    PROVE  LET z == WithBytes(x, n) IN
           /\ z \in Cache /\ z.virtPos = x.virtPos + n
           /\ z.virtSize = IF x.virtSize >= x.virtPos + n THEN x.virtSize ELSE x.virtPos + n
           /\ z.cachedSize = IF x.cachedSize >= (x.virtPos + n) - x.cachedPos
                             THEN x.cachedSize ELSE (x.virtPos + n) - x.cachedPos
           /\ \A k \in 0..CacheSize - 1 :
                 z.cache[k] = IF At(x, k) < n THEN NewByte(x.virtPos + At(x, k))
                              ELSE x.cache[k]
           /\ z.hres = x.hres /\ z.cachedPos = x.cachedPos
           /\ z.phyPos = x.phyPos /\ z.phySize = x.phySize /\ z.begin = x.begin
           /\ z.end = x.end /\ z.seekable = x.seekable /\ z.phy = x.phy
<1> DEFINE w == Moved(x, x.virtPos + n)
           size == IF x.cachedSize >= (x.virtPos + n) - x.cachedPos
                   THEN x.cachedSize ELSE (x.virtPos + n) - x.cachedPos
           cache == [k \in 0..CacheSize - 1 |->
                       IF At(x, k) < n THEN NewByte(x.virtPos + At(x, k)) ELSE x.cache[k]]
           z == [w EXCEPT !.cachedSize = size, !.cache = cache]
<1>1. /\ x.cachedSize \in Nat /\ x.cachedPos \in Nat /\ x.virtPos \in Nat
      /\ x.cache \in [0..CacheSize - 1 -> Byte]
  BY Parts
<1>2. x.virtPos + n \in Nat BY <1>1
<1>3. /\ w \in Cache /\ w.virtPos = x.virtPos + n
      /\ w.virtSize = (IF x.virtSize >= x.virtPos + n THEN x.virtSize ELSE x.virtPos + n)
      /\ w.hres = x.hres /\ w.cachedSize = x.cachedSize /\ w.cachedPos = x.cachedPos
      /\ w.phyPos = x.phyPos /\ w.phySize = x.phySize /\ w.begin = x.begin
      /\ w.end = x.end /\ w.cache = x.cache /\ w.seekable = x.seekable
      /\ w.phy = x.phy
  BY <1>2, MovedIs
<1> HIDE DEF w
<1>4. size \in Nat /\ Max({x.cachedSize, x.virtPos + n - x.cachedPos}) = size
  <2>1. PICK c \in Nat, e \in Int : c = x.cachedSize /\ e = x.virtPos + n - x.cachedPos
    BY <1>1
  <2>2. Max({c, e}) = (IF c >= e THEN c ELSE e) BY MaxTwo
  <2>3. (IF c >= e THEN c ELSE e) \in Nat OBVIOUS
  <2> QED BY <1>1, <2>1, <2>2, <2>3
<1> HIDE DEF size
<1>5. cache \in [0..CacheSize - 1 -> Byte]
  <2>1. ASSUME NEW k \in 0..CacheSize - 1
        PROVE  NewByte(x.virtPos + At(x, k)) \in Byte
    <3>1. k - x.virtPos \in Int BY <1>1
    <3>2. At(x, k) \in 0..CacheSize - 1 BY <3>1, CacheIndex DEF At
    <3>3. x.virtPos + At(x, k) \in Nat BY <1>1, <3>2
    <3> QED BY <3>3, NewByteIs
  <2> QED BY <1>1, <2>1
<1>6. \A k \in 0..CacheSize - 1 :
         cache[k] = IF At(x, k) < n THEN NewByte(x.virtPos + At(x, k)) ELSE x.cache[k]
  OBVIOUS
<1>7. WithBytes(x, n) = z
  <2>1. DOMAIN x.cache = 0..CacheSize - 1 BY <1>1
  <2>2. WithBytes(x, n) =
          [w EXCEPT !.cachedSize = Max({w.cachedSize, x.virtPos + n - x.cachedPos}),
                    !.cache = [k \in DOMAIN w.cache |->
                       IF At(x, k) < n THEN NewByte(x.virtPos + At(x, k)) ELSE w.cache[k]]]
    BY <1>3 DEF WithBytes, w, Cache
  <2> QED BY <1>3, <1>4, <2>1, <2>2
<1> HIDE DEF cache
<1>8. /\ z \in Cache /\ z.virtPos = w.virtPos /\ z.virtSize = w.virtSize
      /\ z.cachedSize = size /\ z.cache = cache
      /\ z.hres = w.hres /\ z.cachedPos = w.cachedPos
      /\ z.phyPos = w.phyPos /\ z.phySize = w.phySize /\ z.begin = w.begin
      /\ z.end = w.end /\ z.seekable = w.seekable /\ z.phy = w.phy
  BY <1>3, <1>4, <1>5 DEF Cache
<1> HIDE DEF z
<1> QED BY <1>3, <1>6, <1>7, <1>8 DEF size

LEMMA WriteCachedIs ==
    \A x, n : WriteCached(x, n) = FlushNonRestrictedBlocks(WithBytes(x, n))
  BY DEF WriteCached, WithBytes, At

(* Where the cache puts the new bytes, and what it leaves. *)
LEMMA NewInCache ==
    ASSUME file.data \in Seq(Byte), NEW x \in Cache, NEW n \in Nat,
           x.cachedPos <= x.virtPos, x.virtPos - x.cachedPos <= CacheSize,
           (x.virtPos + n) - x.cachedPos <= CacheSize,
           NEW pos \in Nat, x.cachedPos <= pos, pos - x.cachedPos < CacheSize
    PROVE  CacheByte(WithBytes(x, n), pos) =
              IF x.virtPos <= pos /\ pos < x.virtPos + n THEN NewByte(pos)
              ELSE CacheByte(x, pos)
<1> DEFINE z == WithBytes(x, n)
           k == pos % CacheSize
           v == x.virtPos
<1>1. v \in Nat /\ x.cachedPos \in Nat /\ CacheSize \in Nat \ {0} BY Parts, Sizes
<1>2. k \in 0..CacheSize - 1 BY CacheIndex
<1>3. z.cache[k] = IF At(x, k) < n THEN NewByte(v + At(x, k)) ELSE x.cache[k]
  BY <1>2, WithBytesIs
<1>4. At(x, k) = IF v <= pos THEN pos - v ELSE pos - v + CacheSize
  <2>1. -CacheSize <= pos - v /\ pos - v < CacheSize /\ pos \in Int /\ v \in Int BY <1>1
  <2> HIDE DEF v
  <2>2. ((pos % CacheSize) - v) % CacheSize = IF v <= pos THEN pos - v ELSE pos - v + CacheSize
    BY <1>1, <2>1, Distance
  <2> QED BY <2>2 DEF At, v
<1>5. CacheByte(z, pos) = z.cache[k] /\ CacheByte(x, pos) = x.cache[k] BY DEF CacheByte
<1>6. v + n <= x.cachedPos + CacheSize BY <1>1
<1> HIDE DEF z, k, v
<1>7. CASE v <= pos /\ pos < v + n BY <1>1, <1>4, <1>7, <1>3, <1>5 DEF z, v
<1>8. CASE v <= pos /\ ~(pos < v + n) BY <1>1, <1>4, <1>8, <1>3, <1>5 DEF z, v
<1>9. CASE ~(v <= pos) BY <1>1, <1>6, <1>9, <1>4, <1>3, <1>5 DEF z, v
<1> QED BY <1>7, <1>8, <1>9

(* Data that goes to the cache, and what is flushed then. *)
LEMMA WithBytesSound ==
    ASSUME file.data \in Seq(Byte), NEW d, NEW o, NEW x, Sound(x, d, o), x.hres = "ok",
           Client(x, d), Ready(x), NEW n \in Nat \ {0}, x.virtPos + n <= MaxSize,
           x.virtPos = CachedEnd(x) \/ x.virtPos + n <= CachedEnd(x),
           (x.virtPos + n) - x.cachedPos <= CacheSize,
           NEW e, IsNew(e, d, x.virtPos, n)
    PROVE  Sound(WithBytes(x, n), e, o) /\ Client(WithBytes(x, n), e)
<1> DEFINE z == WithBytes(x, n)
           v == x.virtPos
           c == x.cachedPos
           m == x.cachedSize
<1>1. /\ x \in Cache /\ d \in Seq(Byte) /\ o \in Phy /\ Len(d) \in Nat
      /\ Limits(x) /\ Holds(x, d) /\ Below(x, o) /\ x.cachedSize <= CacheSize
      /\ x.phySize <= Len(d) /\ Len(d) <= MaxSize
  BY DEF Sound
<1>2. /\ m \in Nat /\ c \in Nat /\ v \in Nat /\ x.phySize \in Nat /\ x.phyPos \in Nat
      /\ CachedEnd(x) = c + m /\ x.phy.final \in Nat /\ x.begin \in Nat /\ x.end \in Nat
  BY <1>1, Parts
<1>3. /\ z \in Cache /\ z.virtPos = v + n
      /\ z.virtSize = (IF x.virtSize >= v + n THEN x.virtSize ELSE v + n)
      /\ z.cachedSize = (IF m >= (v + n) - c THEN m ELSE (v + n) - c)
      /\ z.hres = x.hres /\ z.cachedPos = c
      /\ z.phyPos = x.phyPos /\ z.phySize = x.phySize /\ z.begin = x.begin
      /\ z.end = x.end /\ z.seekable = x.seekable /\ z.phy = x.phy
  BY <1>1, WithBytesIs
<1>4. /\ c <= v /\ v <= c + m /\ (v = c + m \/ v + n <= c + m) /\ m <= CacheSize
      /\ (v + n) - c <= CacheSize /\ CacheSize \in Nat
      /\ x.virtSize = Len(d) /\ v <= Len(d)
      /\ IF x.begin = x.end THEN v = Len(d) ELSE x.begin <= v
  BY <1>1, <1>2, Sizes DEF Ready, Client
<1>5. /\ e \in Seq(Byte) /\ Len(e) \in Nat
      /\ Len(e) = (IF v + n > Len(d) THEN v + n ELSE Len(d))
      /\ \A k \in 0..Len(e) - 1 :
            e[k + 1] = IF v <= k /\ k < v + n THEN NewByte(k) ELSE d[k + 1]
  BY DEF IsNew
<1>6. m > 0 => c + m <= Len(d) BY <1>1, <1>2 DEF Holds
<1>7. m = 0 => c = v /\ x.phySize = Len(d) /\ x.phy.final <= Len(d)
  BY <1>2, <1>4, NothingCached
<1>8. v + n <= MaxSize /\ n \in Nat /\ n > 0 OBVIOUS
<1>9. \A pos \in Nat : c <= pos /\ pos - c < CacheSize =>
         CacheByte(z, pos) = IF v <= pos /\ pos < v + n THEN NewByte(pos)
                             ELSE CacheByte(x, pos)
  <2>1. v - c <= CacheSize BY <1>2, <1>4
  <2> QED BY <1>1, <1>4, <1>8, <2>1, NewInCache
<1> HIDE DEF z, v, c, m
<1>17. /\ v \in Int /\ c \in Int /\ m \in Int /\ n \in Int /\ CacheSize \in Int
       /\ c <= v /\ v <= c + m /\ m <= CacheSize /\ (v + n) - c <= CacheSize
       /\ n > 0 /\ m >= 0 /\ c >= 0
  BY <1>2, <1>4, <1>8
<1>10. /\ CachedEnd(z) = (IF c + m >= v + n THEN c + m ELSE v + n)
       /\ z.cachedSize <= CacheSize /\ z.cachedSize > 0 /\ CachedEnd(z) - c <= CacheSize
       /\ CachedEnd(z) <= Len(e)
  BY <1>3, <1>17, <1>2, <1>8, <1>1, <1>4, <1>5, <1>6 DEF CachedEnd
<1>11. Below(z, o) BY <1>1, <1>3 DEF Below
<1>12. Limits(z)
  <2>1. /\ IF x.begin = x.end THEN x.begin = 0
           ELSE x.end = Inf /\ x.begin <= MaxSize /\ x.seekable /\ x.phy.final <= x.begin
        /\ m > 0 => x.phy.final <= c
        /\ ~x.seekable => x.phyPos = x.phySize /\ (m > 0 => c = x.phyPos)
    BY <1>1 DEF Limits, m, c
  <2>2. z.phy.final <= z.cachedPos BY <1>3, <2>1, <1>1, <1>2, <1>4, <1>7
  <2>3. ~z.seekable => z.phyPos = z.phySize /\ z.cachedPos = z.phyPos
    <3>1. CASE m > 0 BY <1>3, <2>1, <3>1
    <3>2. CASE m = 0 BY <1>3, <1>4, <1>7, <2>1, <3>2
    <3> QED BY <1>2, <3>1, <3>2
  <2> QED BY <1>3, <2>1, <2>2, <2>3 DEF Limits
<1>13. Holds(z, e)
  <2>1. ASSUME NEW pos \in 0..Len(e) - 1
        PROVE  IF IsCached(z, pos) THEN e[pos + 1] = CacheByte(z, pos)
               ELSE pos < z.phySize /\ e[pos + 1] = z.phy.data[pos + 1]
    <3>1. /\ pos \in Nat /\ pos < Len(e)
          /\ e[pos + 1] = IF v <= pos /\ pos < v + n THEN NewByte(pos) ELSE d[pos + 1]
      BY <1>5
    <3>2. IsCached(z, pos) <=> c <= pos /\ pos < CachedEnd(z) BY <1>3 DEF IsCached
    <3>3. IsCached(x, pos) <=> c <= pos /\ pos < c + m BY <1>2 DEF IsCached, c
    <3>4. pos < Len(d) => IF IsCached(x, pos) THEN d[pos + 1] = CacheByte(x, pos)
                          ELSE pos < x.phySize /\ d[pos + 1] = x.phy.data[pos + 1]
      BY <1>1, <3>1 DEF Holds
    <3>5. CASE IsCached(z, pos)
      <4>1. c <= pos /\ pos - c < CacheSize
        <5>1. CachedEnd(z) \in Nat
          BY <1>10, <1>17
        <5> QED
          BY <1>10, <1>17, <3>1, <3>2, <3>5, <5>1
      <4>2. CacheByte(z, pos) = IF v <= pos /\ pos < v + n THEN NewByte(pos)
                                ELSE CacheByte(x, pos)
        BY <1>9, <3>1, <4>1
      <4>3. CASE v <= pos /\ pos < v + n
        BY <3>1, <3>5, <4>2, <4>3
      <4>4. CASE ~(v <= pos /\ pos < v + n)
        <5>1. pos < c + m /\ pos < Len(d)
          <6>1. pos \in Nat /\ pos < CachedEnd(z) /\ (v = c + m \/ v + n <= c + m)
            BY <1>4, <3>1, <3>2, <3>5
          <6>2. CachedEnd(z) = (IF c + m >= v + n THEN c + m ELSE v + n)
            BY <1>10
          <6>3. pos < c + m
            BY <1>17, <4>4, <6>1, <6>2
          <6>4. m > 0
            BY <1>17, <4>1, <6>1, <6>3
          <6>5. c + m <= Len(d) /\ Len(d) \in Nat
            BY <1>1, <1>6, <6>4
          <6> QED
            BY <1>17, <6>1, <6>3, <6>5
        <5>2. d[pos + 1] = CacheByte(x, pos)
          BY <3>3, <3>4, <4>1, <5>1
        <5> QED
          BY <3>1, <3>5, <4>2, <4>4, <5>2
      <4> QED
        BY <4>3, <4>4
    <3>6. CASE ~IsCached(z, pos)
      BY <1>2, <1>4, <1>8, <1>10, <3>1, <3>2, <3>3, <3>6, <1>1, <1>5, <1>3, <3>4
    <3> QED BY <3>5, <3>6
  <2>2. z.phyPos = z.phy.pos /\ z.phySize = Len(z.phy.data) BY <1>1, <1>3 DEF Holds
  <2> QED BY <1>10, <2>1, <2>2 DEF Holds
<1>14. z.phySize <= Len(e) /\ Len(e) <= MaxSize
  <2>1. /\ z.phySize = x.phySize /\ x.phySize \in Nat /\ Len(d) \in Nat /\ Len(e) \in Nat
        /\ x.phySize <= Len(d) /\ Len(d) <= MaxSize /\ MaxSize \in Nat /\ v + n <= MaxSize
        /\ Len(e) = (IF v + n > Len(d) THEN v + n ELSE Len(d))
    BY <1>1, <1>2, <1>3, <1>5, <1>8, Sizes
  <2> QED BY <1>17, <2>1
<1>15. Sound(z, e, o) BY <1>1, <1>3, <1>5, <1>10, <1>11, <1>12, <1>13, <1>14 DEF Sound
<1>16. Client(z, e) BY <1>1, <1>2, <1>3, <1>4, <1>5, <1>8 DEF Client
<1> QED BY <1>15, <1>16 DEF z

LEMMA CachedSound ==
    ASSUME file.data \in Seq(Byte), NEW d, NEW o, NEW x, Sound(x, d, o), x.hres = "ok",
           Client(x, d), Ready(x), NEW n \in Nat \ {0}, x.virtPos + n <= MaxSize,
           x.virtPos = CachedEnd(x) \/ x.virtPos + n <= CachedEnd(x),
           (x.virtPos + n) - x.cachedPos <= CacheSize,
           NEW e, IsNew(e, d, x.virtPos, n), NEW y \in WriteCached(x, n)
    PROVE  Written(x, e, o, n, y)
<1> DEFINE z == WithBytes(x, n)
<1>1. Sound(z, e, o) /\ Client(z, e) BY WithBytesSound
<1>2. /\ z.hres = "ok" /\ z.virtPos = x.virtPos + n
      /\ z.begin = x.begin /\ z.end = x.end
  <2>1. x \in Cache /\ n \in Nat
    BY DEF Sound
  <2> QED
    BY <2>1, WithBytesIs
<1>3. y \in FlushNonRestrictedBlocks(z) BY WriteCachedIs
<1> HIDE DEF z
<1>4. Flushes(z, y, e, o) BY <1>1, <1>2, <1>3, LoopSound
<1>5. Sound(y, e, o) BY <1>4 DEF Flushes
<1>6. ASSUME y.hres = "ok"
      PROVE  y.virtPos = x.virtPos + n /\ Client(y, e) /\ y.begin = x.begin /\ y.end = x.end
  BY <1>4, <1>6, <1>1, <1>2, ClientKept, CallsFields DEF Flushes
<1> QED BY <1>5, <1>6 DEF Written

IsWrite(x, size, y) ==
    \E a \in Continue(x) :
       IF a.hres = "ok"
       THEN \E b \in MakeRoom(Start(a)) :
               IF b.hres = "ok"
               THEN IF IsDirect(b, size) THEN y \in WriteDirect(b, CacheBlockSize)
                    ELSE y \in WriteCached(b, Amount(b, size))
               ELSE y = b
       ELSE y = a

LEMMA WriteCases ==
    ASSUME NEW x, NEW size, NEW y \in CallWrite(x, size)
    PROVE  IsWrite(x, size, y)
<1> DEFINE Room(a) == MakeRoom(Start(a))
           Out(b) == IF IsDirect(b, size) THEN WriteDirect(b, CacheBlockSize)
                     ELSE WriteCached(b, Amount(b, size))
           rooms == UNION {IF a.hres = "ok" THEN Room(a) ELSE {a} : a \in Continue(x)}
<1>1. CallWrite(x, size) = UNION {IF b.hres = "ok" THEN Out(b) ELSE {b} : b \in rooms}
  BY DEF CallWrite, Then
<1>2. PICK b \in rooms : y \in IF b.hres = "ok" THEN Out(b) ELSE {b} BY <1>1
<1>3. PICK a \in Continue(x) : b \in IF a.hres = "ok" THEN Room(a) ELSE {a} BY <1>2
<1>4. CASE a.hres # "ok" BY <1>2, <1>3, <1>4 DEF IsWrite
<1>5. CASE a.hres = "ok" BY <1>3, <1>5, <1>2 DEF IsWrite
<1> QED BY <1>4, <1>5

LEMMA WriteSound ==
    ASSUME NEW d, d = file.data, NEW o, NEW x, Sound(x, d, o), x.hres = "ok", Client(x, d),
           NEW size \in Nat \ {0}, x.virtPos + size <= MaxSize, NEW y \in CallWrite(x, size)
    PROVE  LET n == y.virtPos - x.virtPos
               e == Put(d, x.virtPos, NewBytes(x.virtPos, n))
           IN  /\ Sound(y, e, o)
               /\ y.hres = "ok" => Client(y, e) /\ y.begin = x.begin /\ y.end = x.end
<1> DEFINE v == x.virtPos
           E(n) == Put(d, v, NewBytes(v, n))
           Good(n) == /\ Sound(y, E(n), o)
                      /\ y.hres = "ok" => /\ y.virtPos = v + n /\ Client(y, E(n))
                                          /\ y.begin = x.begin /\ y.end = x.end
<1>1. /\ x \in Cache /\ d \in Seq(Byte) /\ file.data \in Seq(Byte) /\ Len(d) \in Nat
      /\ v \in Nat /\ v \in 0..Len(d) /\ x.begin \in Nat
  BY Parts DEF Sound, Client
<1>2. \A n \in Int : E(n) \in Seq(Byte) BY <1>1, NewBytesAre, PutFacts
<1>3. \A n \in Nat : IsNew(E(n), d, v, n) BY <1>1, NewFile
<1> HIDE DEF E, v
<1>4. \E n \in Nat : Good(n)
  <2>0. ASSUME Sound(y, d, o), y.hres # "ok" PROVE \E n \in Nat : Good(n)
    BY <1>2, <2>0, ErrorSound
  <2> HIDE DEF Good
  <2>1. IsWrite(x, size, y) BY WriteCases
  <2>2. PICK a \in Continue(x) :
           IF a.hres = "ok"
           THEN \E b \in MakeRoom(Start(a)) :
                   IF b.hres = "ok"
                   THEN IF IsDirect(b, size) THEN y \in WriteDirect(b, CacheBlockSize)
                        ELSE y \in WriteCached(b, Amount(b, size))
                   ELSE y = b
           ELSE y = a
    BY <2>1 DEF IsWrite
  <2>3. /\ Sound(a, d, o)
        /\ a.hres = "ok" =>
             /\ ClientFields(a) = ClientFields(x)
             /\ a.cachedSize # 0 => a.cachedPos <= a.virtPos /\ a.virtPos <= CachedEnd(a)
    BY ContinueSound
  <2>4. CASE a.hres # "ok" BY <2>0, <2>2, <2>3, <2>4
  <2>5. CASE a.hres = "ok"
    <3> DEFINE s0 == Start(a)
    <3>1. /\ Sound(s0, d, o) /\ s0.hres = "ok" /\ ClientFields(s0) = ClientFields(a)
          /\ s0.cachedPos <= s0.virtPos /\ s0.virtPos <= CachedEnd(s0)
      BY <2>3, <2>5, StartSound
    <3>2. PICK b \in MakeRoom(s0) :
             IF b.hres = "ok"
             THEN IF IsDirect(b, size) THEN y \in WriteDirect(b, CacheBlockSize)
                  ELSE y \in WriteCached(b, Amount(b, size))
             ELSE y = b
      BY <2>2, <2>5
    <3> HIDE DEF s0
    <3>3. /\ Sound(b, d, o)
          /\ b.hres = "ok" => ClientFields(b) = ClientFields(s0) /\ Ready(b)
      BY <3>1, <3>2, RoomSound
    <3>4. CASE b.hres # "ok" BY <2>0, <3>2, <3>3, <3>4
    <3>5. CASE b.hres = "ok"
      <4>1. ClientFields(b) = ClientFields(x) /\ Ready(b) /\ Client(b, d)
        BY <2>3, <2>5, <3>1, <3>3, <3>5, ClientKept
      <4>2. b \in Cache /\ b.cachedSize <= CacheSize BY <3>3 DEF Sound
      <4>3. b.virtPos = v /\ b.begin = x.begin /\ b.end = x.end BY <4>1, CallsFields DEF v
      <4> DEFINE m == Amount(b, size)
      <4>4. /\ m \in 1..size
            /\ b.virtPos = CachedEnd(b) \/ b.virtPos + m <= CachedEnd(b)
            /\ (b.virtPos + m) - b.cachedPos <= CacheSize
        BY <4>1, <4>2, AmountFacts
      <4> HIDE DEF m
      <4>5. m \in Nat \ {0} /\ b.virtPos + m <= MaxSize BY Sizes, <1>1, <4>3, <4>4 DEF v
      <4>6. IsNew(E(m), d, b.virtPos, m) BY <1>3, <4>3, <4>5
      <4>7. Written(b, E(m), o, m, y)
        BY <3>2, <3>5, <1>1, <3>3, <4>1, <4>5, <4>6, DirectSound, <4>4, CachedSound DEF
           IsDirect, m
      <4>8. Good(m) BY <4>3, <4>7 DEF Good, Written
      <4> QED BY <4>5, <4>8
    <3> QED BY <3>4, <3>5
  <2> QED BY <2>4, <2>5
<1>5. PICK n \in Nat : Good(n) BY <1>4
<1> DEFINE k == y.virtPos - v
<1>6. Sound(y, E(k), o) /\ (y.hres = "ok" => Client(y, E(k)) /\ y.begin = x.begin /\ y.end = x.end)
  <2>1. y.virtPos \in Nat BY <1>5, Parts DEF Sound
  <2>2. k \in Int /\ E(k) \in Seq(Byte)
    <3>1. k \in Int BY <1>1, <2>1
    <3> HIDE DEF k
    <3> QED BY <1>2, <3>1
  <2>3. CASE y.hres # "ok" BY <1>5, <2>2, <2>3, ErrorSound
  <2>4. CASE y.hres = "ok" BY <1>1, <1>5, <2>4
  <2> QED BY <2>3, <2>4
<1> QED BY <1>6 DEF E, v

-----------------------------------------------------------------------------
(* FinalFlush.                                                             *)

IsFinalFlush(x, y) ==
    \E a \in FlushCache(x) :
       IF a.hres = "ok"
       THEN \E b \in (IF a.seekable /\ a.virtSize # a.phySize
                      THEN PhySetSize(a, a.virtSize) ELSE {a}) :
               IF b.hres = "ok"
               THEN y \in (IF b.seekable THEN SeekPhy(b, b.virtPos) ELSE {b})
               ELSE y = b
       ELSE y = a

Unrestricted(x) == [x EXCEPT !.begin = 0, !.end = 0]

LEMMA FinalFlushCases ==
    ASSUME NEW x, NEW y \in FinalFlushCall(x)
    PROVE  IsFinalFlush(Unrestricted(x), y)
  BY DEF FinalFlushCall, Then, IsFinalFlush, Unrestricted

LEMMA FinalFlushSound ==
    ASSUME NEW d, NEW o, NEW x, Sound(x, d, o), x.hres = "ok", Client(x, d),
           x.begin = x.end, NEW y \in FinalFlushCall(x)
    PROVE  /\ Sound(y, d, o)
           /\ y.hres = "ok" => /\ Client(y, d) /\ y.phy.data = d
                               /\ y.begin = x.begin /\ y.end = x.end
<1>1. /\ x \in Cache /\ d \in Seq(Byte) /\ Len(d) \in Nat /\ Limits(x) BY DEF Sound
<1>2. Unrestricted(x) = x
  <2>1. x.begin = 0 /\ x.end = 0 BY <1>1 DEF Limits
  <2> QED BY <1>1, <2>1 DEF Cache, Unrestricted
<1>7. IsFinalFlush(x, y) BY FinalFlushCases, <1>2
<1>3. PICK a \in FlushCache(x) :
         IF a.hres = "ok"
         THEN \E b \in (IF a.seekable /\ a.virtSize # a.phySize
                        THEN PhySetSize(a, a.virtSize) ELSE {a}) :
                 IF b.hres = "ok"
                 THEN y \in (IF b.seekable THEN SeekPhy(b, b.virtPos) ELSE {b})
                 ELSE y = b
         ELSE y = a
  BY <1>7 DEF IsFinalFlush
<1>4. /\ Sound(a, d, o)
      /\ a.hres = "ok" => ClientFields(a) = ClientFields(x) /\ a.cachedSize = 0
  BY <1>1, <1>3, Parts, FlushSound DEF FlushCache, SmallerOf
<1>5. CASE a.hres # "ok" BY <1>3, <1>4, <1>5
<1>6. CASE a.hres = "ok"
  <2>1. Client(a, d) /\ a.phySize = Len(d) /\ a.virtSize = Len(d)
    BY <1>4, <1>6, ClientKept, NothingCached DEF Client
  <2>2. y \in (IF a.seekable THEN SeekPhy(a, a.virtPos) ELSE {a}) BY <1>3, <1>6, <2>1
  <2>3. /\ Sound(y, d, o)
        /\ y.hres = "ok" => ClientFields(y) = ClientFields(a) /\ y.cachedSize = 0
    <3>1. CASE a.seekable BY <1>4, Parts, <1>6, <2>2, <3>1, SeekSound DEF Sound
    <3>2. CASE ~a.seekable
      <4>1. y = a BY <2>2, <3>2
      <4> QED BY <1>4, <1>6, <4>1
    <3> QED BY <3>1, <3>2
  <2>4. ASSUME y.hres = "ok"
        PROVE  Client(y, d) /\ y.phy.data = d /\ y.begin = x.begin /\ y.end = x.end
    <3>1. Client(y, d) /\ y.begin = x.begin /\ y.end = x.end
      BY <1>4, <1>6, <2>1, <2>3, <2>4, ClientKept, CallsFields
    <3>2. /\ y \in Cache /\ Holds(y, d) /\ y.phySize = Len(d) /\ y.cachedSize = 0
      BY <2>3, <2>4, NothingCached DEF Sound
    <3>3. /\ y.phy.data \in Seq(Byte) /\ Len(y.phy.data) = Len(d) /\ y.cachedPos \in Nat
      BY <3>2, Parts DEF Holds
    <3>4. ASSUME NEW k \in 1..Len(d) PROVE y.phy.data[k] = d[k]
      <4>1. k - 1 \in 0..Len(d) - 1 /\ ~IsCached(y, k - 1) /\ (k - 1) + 1 = k
        BY <1>1, <3>2, <3>3 DEF IsCached, CachedEnd
      <4> QED BY <3>2, <4>1 DEF Holds
    <3>5. y.phy.data = d BY <1>1, <3>3, <3>4
    <3> QED BY <3>1, <3>5
  <2> QED BY <2>3, <2>4
<1> QED BY <1>5, <1>6

-----------------------------------------------------------------------------
(* SetSize.                                                                *)

(* What is cached behind the new end is dropped. *)
HeldInside(x, size) == x.cachedSize # 0 /\ size > x.cachedPos /\ size <= CachedEnd(x)

IsDropped(x, size, y) ==
    IF size <= x.cachedPos \/ x.cachedSize = 0
    THEN y = [x EXCEPT !.cachedSize = 0, !.cachedPos = size]
    ELSE IF HeldInside(x, size) THEN y = [x EXCEPT !.cachedSize = size - x.cachedPos]
    ELSE y \in FlushCache(x)

IsCut(x, size, y) ==
    \E a \in SeekPhy(x, size) :
       IF a.hres = "ok"
       THEN \E b \in (IF a.cachedSize # 0
                      THEN PhySetRestriction(a, Min({a.begin, a.cachedPos}), Inf)
                      ELSE PhySetRestriction(a, a.begin, a.end)) :
               IF b.hres = "ok" THEN y \in PhySetSize(b, size) ELSE y = b
       ELSE y = a

Sized(x, size) == [x EXCEPT !.virtSize = size]

IsSetSize(x, size, y) ==
    \E a : /\ IsDropped(x, size, a)
           /\ IF a.hres = "ok"
              THEN LET b == Sized(a, size) IN
                   IF b.hres = "ok"
                   THEN IF size = b.phySize \/ (HeldInside(x, size) /\ b.phySize <= size)
                        THEN y = b ELSE IsCut(b, size, y)
                   ELSE y = b
              ELSE y = a

LEMMA SetSizeCases ==
    ASSUME NEW x, NEW size, NEW y \in SetSizeCall(x, size)
    PROVE  IsSetSize(x, size, y)
<1> DEFINE inside == HeldInside(x, size)
           D == IF size <= x.cachedPos \/ x.cachedSize = 0
                THEN {[x EXCEPT !.cachedSize = 0, !.cachedPos = size]}
                ELSE IF inside THEN {[x EXCEPT !.cachedSize = size - x.cachedPos]}
                ELSE FlushCache(x)
           Limit(a) == IF a.cachedSize # 0
                       THEN PhySetRestriction(a, Min({a.begin, a.cachedPos}), Inf)
                       ELSE PhySetRestriction(a, a.begin, a.end)
           Resize(a) == PhySetSize(a, size)
           Limited(b) == UNION {IF a.hres = "ok" THEN Limit(a) ELSE {a} : a \in SeekPhy(b, size)}
           Ended(b) == UNION {IF a.hres = "ok" THEN Resize(a) ELSE {a} : a \in Limited(b)}
           Cut(b) == IF size = b.phySize \/ (inside /\ b.phySize <= size) THEN {b}
                     ELSE Ended(b)
           Z == UNION {IF a.hres = "ok" THEN {Sized(a, size)} ELSE {a} : a \in D}
<1>1. SetSizeCall(x, size) = UNION {IF b.hres = "ok" THEN Cut(b) ELSE {b} : b \in Z}
  BY DEF SetSizeCall, Then, HeldInside, Sized
<1>2. PICK b \in Z : y \in IF b.hres = "ok" THEN Cut(b) ELSE {b} BY <1>1
<1>3. PICK a \in D : b \in IF a.hres = "ok" THEN {Sized(a, size)} ELSE {a} BY <1>2
<1>4. IsDropped(x, size, a) BY <1>3 DEF IsDropped
<1>5. CASE a.hres # "ok" BY <1>2, <1>3, <1>5, <1>4 DEF IsSetSize
<1>6. CASE a.hres = "ok"
  <2>1. b = Sized(a, size) BY <1>3, <1>6
  <2>2. CASE b.hres # "ok" BY <1>2, <2>2, <1>4, <1>6, <2>1 DEF IsSetSize
  <2>3. CASE b.hres = "ok" /\ (size = b.phySize \/ (inside /\ b.phySize <= size))
    BY <1>2, <2>3, <1>4, <1>6, <2>1 DEF IsSetSize
  <2>4. CASE b.hres = "ok" /\ ~(size = b.phySize \/ (inside /\ b.phySize <= size))
    BY <1>2, <2>4, <1>4, <1>6, <2>1 DEF IsCut, IsSetSize
  <2> QED BY <2>2, <2>3, <2>4
<1> QED BY <1>5, <1>6

(* The cache holds what the shorter file d has, and the stream below       *)
(* perhaps more than that.                                                 *)
Shortened(x, d, o) ==
    /\ x \in Cache /\ d \in Seq(Byte) /\ o \in Phy
    /\ x.hres = "ok" /\ x.cachedSize <= CacheSize
    /\ Below(x, o) /\ Limits(x) /\ Holds(x, d)
    /\ x.begin # x.end /\ x.begin <= Len(d) /\ Len(d) <= MaxSize
    /\ x.virtPos = Len(d)
    /\ Len(d) <= x.phySize \/ (x.cachedSize # 0 /\ x.phySize < Len(d))

Shortens(x, d, o, size, y) ==
    /\ y.hres # "ok" => Sound(y, d, o)
    /\ y.hres = "ok" =>
         /\ Shortened(y, SubSeq(d, 1, size), o)
         /\ y.cachedSize # 0 => HeldInside(x, size)
         /\ y.begin = x.begin /\ y.end = x.end /\ y.virtPos = x.virtPos
         /\ Len(SubSeq(d, 1, size)) = size

LEMMA DroppedSound ==
    ASSUME NEW d, NEW o, NEW x, Sound(x, d, o), x.hres = "ok", Client(x, d),
           x.begin # x.end, NEW size, size = x.virtPos, NEW y, IsDropped(x, size, y)
    PROVE  Shortens(x, d, o, size, y)
<1> USE DEF Shortens
<1> DEFINE e == SubSeq(d, 1, size)
<1>1. /\ x \in Cache /\ d \in Seq(Byte) /\ o \in Phy /\ Len(d) \in Nat
      /\ Limits(x) /\ Holds(x, d) /\ Below(x, o) /\ x.cachedSize <= CacheSize
      /\ x.phySize <= Len(d) /\ Len(d) <= MaxSize /\ MaxSize \in Nat
  BY Sizes DEF Sound
<1>2. /\ x.cachedSize \in Nat /\ x.cachedPos \in Nat /\ size \in Nat /\ x.phySize \in Nat
      /\ CachedEnd(x) = x.cachedPos + x.cachedSize /\ x.begin \in Nat
      /\ x.phy.final \in Nat /\ x.phyPos \in Nat
  BY <1>1, Parts
<1>3. size <= Len(d) /\ x.begin <= size BY DEF Client
<1>4. e \in Seq(Byte) /\ Len(e) = size /\ \A k \in 0..size - 1 : e[k + 1] = d[k + 1]
  BY <1>1, <1>2, <1>3, CutFacts
<1> HIDE DEF e
<1>5. x.seekable /\ x.phy.final <= x.begin /\ x.end = Inf /\ x.begin <= MaxSize
  BY <1>1 DEF Limits
<1>6. x.phyPos = x.phy.pos /\ x.phySize = Len(x.phy.data) BY <1>1 DEF Holds
<1>7. \A k \in 0..size - 1 :
         IF IsCached(x, k) THEN d[k + 1] = CacheByte(x, k)
         ELSE k < x.phySize /\ d[k + 1] = x.phy.data[k + 1]
  BY <1>1, <1>2, <1>3 DEF Holds
<1>8. ASSUME size <= x.cachedPos \/ x.cachedSize = 0
      PROVE  size <= x.phySize
  BY <1>2, <1>8, <1>7 DEF IsCached
<1>9. CASE size <= x.cachedPos \/ x.cachedSize = 0
  <2>1. y = [x EXCEPT !.cachedSize = 0, !.cachedPos = size] BY <1>9 DEF IsDropped
  <2>2. /\ y \in Cache /\ y.cachedSize = 0 /\ y.cachedPos = size /\ y.hres = "ok"
        /\ y.begin = x.begin /\ y.end = x.end /\ y.virtPos = x.virtPos
        /\ y.seekable = x.seekable /\ y.phy = x.phy /\ y.phyPos = x.phyPos
        /\ y.phySize = x.phySize
    BY <1>1, <1>2, <2>1 DEF Cache
  <2>3. Below(y, o) BY <1>1, <2>2 DEF Below
  <2>4. Limits(y) BY <1>5, <2>2 DEF Limits
  <2>5. Holds(y, e) BY <1>2, <1>9, <2>2, <1>4, <1>6, <1>7 DEF IsCached, CachedEnd, Holds
  <2>6. 0 <= CacheSize /\ size <= MaxSize BY <1>1, <1>2, <1>3, Sizes
  <2>7. Shortened(y, e, o)
    BY <1>1, <1>3, <1>4, <1>8, <1>9, <2>2, <2>3, <2>4, <2>5, <2>6 DEF Shortened
  <2> QED BY <1>4, <2>2, <2>7 DEF e
<1>10. CASE ~(size <= x.cachedPos \/ x.cachedSize = 0) /\ HeldInside(x, size)
  <2>1. y = [x EXCEPT !.cachedSize = size - x.cachedPos] BY <1>10 DEF IsDropped
  <2>0. size - x.cachedPos \in Nat /\ size - x.cachedPos <= x.cachedSize /\ size > x.cachedPos
    BY <1>2, <1>10 DEF HeldInside
  <2>2. /\ y \in Cache /\ y.cachedSize = size - x.cachedPos /\ y.cachedPos = x.cachedPos
        /\ y.hres = "ok" /\ y.cache = x.cache
        /\ y.begin = x.begin /\ y.end = x.end /\ y.virtPos = x.virtPos
        /\ y.seekable = x.seekable /\ y.phy = x.phy /\ y.phyPos = x.phyPos
        /\ y.phySize = x.phySize
    BY <1>1, <2>0, <2>1 DEF Cache
  <2>3. Below(y, o) BY <1>1, <2>2 DEF Below
  <2>4. Limits(y) BY <1>2, <1>10, <1>1, <1>5, <2>2 DEF Limits
  <2>5. CachedEnd(y) = size BY <1>2, <2>2 DEF CachedEnd
  <2>6. Holds(y, e)
    <3>1. ASSUME NEW k \in 0..size - 1
          PROVE  /\ IsCached(y, k) <=> IsCached(x, k)
                 /\ CacheByte(y, k) = CacheByte(x, k)
      <4>1. k < size /\ size <= CachedEnd(x) /\ k \in Nat
        BY <1>2, <1>10 DEF HeldInside
      <4>2. k < CachedEnd(x) /\ k < CachedEnd(y)
        BY <1>2, <2>5, <4>1
      <4> QED
        BY <2>2, <4>2 DEF IsCached, CacheByte
    <3>2. CachedEnd(y) <= Len(e)
      BY <1>2, <1>4, <2>5
    <3> QED
      BY <1>4, <1>6, <1>7, <2>2, <3>1, <3>2 DEF Holds
  <2>7. y.cachedSize <= CacheSize /\ size <= MaxSize /\ y.cachedSize # 0
    BY <1>1, <1>2, <1>3, <2>2, Sizes, <2>0, SMTT(30)
  <2>8. size <= y.phySize \/ y.phySize < size BY <1>2, <2>2
  <2>9. Shortened(y, e, o)
    BY <1>1, <1>3, <1>4, <2>2, <2>3, <2>4, <2>6, <2>7, <2>8 DEF Shortened
  <2> QED BY <1>4, <1>10, <2>2, <2>9 DEF e
<1>11. CASE ~(size <= x.cachedPos \/ x.cachedSize = 0) /\ ~HeldInside(x, size)
  <2>1. y \in FlushFromCache(x, x.cachedSize) BY <1>11 DEF IsDropped, FlushCache
  <2>2. SmallerOf(x.cachedSize, x.cachedSize) = x.cachedSize BY DEF SmallerOf
  <2>3. /\ Sound(y, d, o)
        /\ y.hres = "ok" => ClientFields(y) = ClientFields(x) /\ y.cachedSize = x.cachedSize - x.cachedSize
    BY <1>2, <2>1, <2>2, FlushSound
  <2>4. CASE y.hres # "ok" BY <2>3, <2>4
  <2>5. CASE y.hres = "ok"
    <3>1. /\ y.cachedSize = 0 /\ y.begin = x.begin /\ y.end = x.end /\ y.virtPos = x.virtPos
          /\ y.phySize = Len(d)
      BY <1>2, <2>3, <2>5, CallsFields, NothingCached
    <3>2. y \in Cache /\ Below(y, o) /\ Limits(y) /\ Holds(y, d) BY <2>3, <2>5 DEF Sound
    <3>3. Holds(y, e)
      <4>1. y.cachedPos \in Nat /\ y.phyPos = y.phy.pos /\ y.phySize = Len(y.phy.data)
        BY <3>2, Parts DEF Holds
      <4>2. ASSUME NEW k \in 0..Len(e) - 1
            PROVE  ~IsCached(y, k) /\ k < y.phySize /\ e[k + 1] = y.phy.data[k + 1]
        <5>1. k \in 0..Len(d) - 1 /\ k \in 0..size - 1 /\ k < Len(d) BY <1>4, <1>1, <1>2, <1>3
        <5>2. ~IsCached(y, k) BY <3>1, <4>1, <5>1 DEF IsCached, CachedEnd
        <5>3. d[k + 1] = y.phy.data[k + 1] BY <3>2, <5>1, <5>2 DEF Holds
        <5> QED BY <1>4, <3>1, <5>1, <5>2, <5>3
      <4> QED BY <3>1, <4>1, <4>2 DEF Holds
    <3>4. 0 <= CacheSize /\ size <= MaxSize BY <1>1, <1>2, <1>3, Sizes
    <3>5. Shortened(y, e, o) BY <1>1, <1>3, <1>4, <2>5, <3>1, <3>2, <3>3, <3>4 DEF Shortened
    <3> QED BY <1>4, <2>5, <3>1, <3>5 DEF e
  <2> QED BY <2>4, <2>5
<1> QED BY <1>9, <1>10, <1>11

LEMMA FinalGrows ==
    ASSUME NEW f \in Nat, NEW p \in Nat, NEW l \in Nat
    PROVE  LET g == Larger(f, SmallerOf(p, l)) IN
           g = f \/ (f <= g /\ g <= l /\ g <= p)
  BY DEF Larger, SmallerOf

(* The stream below is cut.  No part of it that is final goes. *)
LEMMA CutSound ==
    ASSUME NEW d, NEW o, NEW x, Shortened(x, d, o), NEW size, size = Len(d),
           size < x.phySize, NEW y, IsCut(x, size, y)
    PROVE  /\ Sound(y, d, o)
           /\ y.hres = "ok" => ClientFields(y) = ClientFields(x)
<1>1. /\ x \in Cache /\ d \in Seq(Byte) /\ o \in Phy /\ size \in Nat
      /\ x.hres = "ok" /\ x.cachedSize <= CacheSize
      /\ Below(x, o) /\ Limits(x) /\ Holds(x, d)
      /\ x.begin # x.end /\ x.begin <= size /\ size <= MaxSize
  BY DEF Shortened
<1>2. /\ x.cachedSize \in Nat /\ x.cachedPos \in Nat /\ x.begin \in Nat /\ x.end \in Nat
      /\ x.phySize \in Nat /\ x.phyPos \in Nat /\ x.phy.final \in Nat /\ o.final \in Nat
      /\ Len(x.phy.data) \in Nat /\ MaxSize \in Nat /\ Inf \in Nat /\ MaxSize < Inf
  BY <1>1, Parts, Sizes DEF Phy
<1>3. /\ x.seekable /\ x.phy.final <= x.begin /\ x.end = Inf /\ x.begin <= MaxSize
      /\ x.cachedSize > 0 => x.phy.final <= x.cachedPos
  BY <1>1 DEF Limits
<1>4. /\ x.phyPos = x.phy.pos /\ x.phySize = Len(x.phy.data)
      /\ x.cachedSize > 0 => CachedEnd(x) <= size
      /\ \A pos \in 0..size - 1 :
            IF IsCached(x, pos) THEN d[pos + 1] = CacheByte(x, pos)
            ELSE pos < x.phySize /\ d[pos + 1] = x.phy.data[pos + 1]
  BY <1>1 DEF Holds
<1>5. PICK a \in SeekPhy(x, size) :
         IF a.hres = "ok"
         THEN \E b \in (IF a.cachedSize # 0
                        THEN PhySetRestriction(a, Min({a.begin, a.cachedPos}), Inf)
                        ELSE PhySetRestriction(a, a.begin, a.end)) :
                 IF b.hres = "ok" THEN y \in PhySetSize(b, size) ELSE y = b
         ELSE y = a
  BY DEF IsCut
<1>6. CASE a = Failed(x)
  <2>1. a.hres = "error" BY <1>1, <1>6 DEF Failed, Cache
  <2>2. y = a BY <1>5, <2>1
  <2> QED BY <1>1, <1>6, <2>1, <2>2, Failing
<1>7. CASE /\ a \in Cache /\ ClientFields(a) = ClientFields(x) /\ a.hres = x.hres
           /\ a.cachedPos = x.cachedPos /\ a.cachedSize = x.cachedSize
           /\ a.phyPos = size /\ a.phySize = x.phySize /\ a.phy.pos = size
           /\ a.phy.data = x.phy.data /\ a.phy.begin = x.phy.begin
           /\ a.phy.final = x.phy.final /\ a.phy.atEnd = x.phy.atEnd
  <2> DEFINE lb == IF x.cachedSize # 0 THEN Min({x.begin, x.cachedPos}) ELSE x.begin
  <2>1. PICK b \in PhySetRestriction(a, lb, Inf) :
           IF b.hres = "ok" THEN y \in PhySetSize(b, size) ELSE y = b
    BY <1>1, <1>3, <1>5, <1>7, CallsFields
  <2>2. lb \in Nat /\ lb <= x.begin /\ (x.cachedSize # 0 => lb <= x.cachedPos)
    <3>1. Min({x.begin, x.cachedPos}) = IF x.begin <= x.cachedPos THEN x.begin ELSE x.cachedPos
      BY <1>2, MinTwo
    <3> QED BY <1>2, <3>1
  <2> HIDE DEF lb
  <2>3. lb # Inf /\ a.seekable BY <1>2, <1>3, <1>7, <2>2, CallsFields
  <2>4. Below(a, o) /\ a.phy.atEnd /\ x.phy.final <= x.phySize BY <1>1, <1>7, <1>4 DEF Below
  <2>5. CASE b = Failed(a)
    <3>1. b.hres = "error" BY <1>7, <2>5 DEF Failed, Cache
    <3>2. y = b BY <2>1, <3>1
    <3> QED BY <1>1, <1>7, <2>4, <2>5, <3>1, <3>2, Failing
  <2>6. CASE /\ a.seekable /\ b \in Cache /\ ClientFields(b) = ClientFields(a) /\ b.hres = a.hres
             /\ b.cachedPos = a.cachedPos /\ b.cachedSize = a.cachedSize
             /\ b.phyPos = a.phyPos /\ b.phySize = a.phySize
             /\ b.phy.data = a.phy.data /\ b.phy.pos = a.phy.pos
             /\ b.phy.begin = (IF lb = Inf THEN Inf ELSE lb)
             /\ b.phy.final = Larger(a.phy.final, SmallerOf(Len(a.phy.data), b.phy.begin))
             /\ b.phy.atEnd = (a.phy.atEnd /\ (lb = Inf => a.phy.pos = Len(a.phy.data)))
    <3>1. b.phy.atEnd BY <2>3, <2>4, <2>6, Zenon
    <3>2. b.phy.final = Larger(x.phy.final, SmallerOf(x.phySize, lb)) /\ b.phy.final \in Nat
      BY <1>4, <1>7, <2>3, <2>6, Parts
    <3>3. /\ x.phy.final <= b.phy.final /\ b.phy.final <= x.begin
          /\ b.phy.final <= x.phySize /\ b.phy.final <= size
          /\ x.cachedSize # 0 => b.phy.final <= x.cachedPos
      <4>1. b.phy.final = x.phy.final \/ (x.phy.final <= b.phy.final /\ b.phy.final <= lb
                                          /\ b.phy.final <= x.phySize)
        BY <1>2, <2>2, <3>2, FinalGrows
      <4>2. /\ x.phy.final <= b.phy.final /\ b.phy.final <= x.begin /\ b.phy.final <= x.phySize
            /\ x.cachedSize # 0 => b.phy.final <= x.cachedPos
        BY <1>2, <1>3, <2>2, <2>4, <3>2, <4>1
      <4> QED BY <1>1, <1>2, <3>2, <4>2
    <3>4. Below(b, o)
      <4>1. /\ o.final <= x.phy.final
            /\ \A k \in 1..o.final : x.phy.data[k] = o.data[k]
        BY <1>1 DEF Below
      <4>2. b.phy.final <= Len(b.phy.data) /\ o.final <= b.phy.final
        BY <1>2, <1>4, <1>7, <2>6, <3>2, <3>3, <4>1
      <4> QED BY <1>7, <2>6, <3>1, <4>1, <4>2 DEF Below
    <3>5. y \in PhySetSize(b, size) BY <1>1, <1>7, <2>1, <2>6
    <3>6. CASE y = Failed(b)
      <4>1. y.hres = "error" BY <2>6, <3>6 DEF Failed, Cache
      <4> QED BY <1>1, <2>6, <3>4, <3>6, <4>1, Failing
    <3>7. CASE /\ y \in Cache /\ ClientFields(y) = ClientFields(b) /\ y.hres = b.hres
               /\ y.cachedPos = b.cachedPos /\ y.cachedSize = b.cachedSize
               /\ y.phyPos = b.phyPos /\ y.phy.pos = b.phy.pos
               /\ y.phySize = size /\ y.phySize = Len(y.phy.data)
               /\ \A k \in 1..size : y.phy.data[k] = b.phy.data[k]
               /\ y.phy.begin = b.phy.begin /\ y.phy.atEnd = b.phy.atEnd
               /\ y.phy.final = b.phy.final
      <4>1. /\ ClientFields(y) = ClientFields(x) /\ y.hres = "ok" /\ y.cachedPos = x.cachedPos
            /\ y.cachedSize = x.cachedSize /\ y.phyPos = size /\ y.phy.pos = size
            /\ \A k \in 1..size : y.phy.data[k] = x.phy.data[k]
        BY <1>1, <1>7, <2>6, <3>7
      <4>2. Below(y, o) BY <3>3, <3>4, <1>1, <1>2, <3>2, <4>1, <3>7, <3>1, SMTT(30) DEF Below
      <4>3. y.begin = x.begin /\ y.end = x.end /\ y.seekable = x.seekable /\ y.cache = x.cache
        BY <4>1, CallsFields
      <4>4. Limits(y) BY <1>1, <1>2, <1>3, <3>3, <3>7, <4>1, <4>3 DEF Limits
      <4>5. Holds(y, d)
        BY <4>1, <1>1, <3>7, <4>3, <1>4 DEF CachedEnd, IsCached, CacheByte, Holds
      <4>6. Sound(y, d, o) BY <1>1, <3>7, <4>1, <4>2, <4>4, <4>5 DEF Sound
      <4> QED BY <4>1, <4>6
    <3>8. size <= Len(b.phy.data) BY <1>1, <1>2, <1>4, <1>7, <2>6
    <3> QED BY <1>1, <2>6, <3>5, <3>6, <3>7, <3>8, SizeOutcome
  <2>7. ~(~a.seekable /\ b = a) BY <2>3
  <2> QED BY <1>2, <1>7, <2>1, <2>2, <2>5, <2>6, <2>7, RestrictOutcome, SMTT(30)
<1> QED BY <1>1, <1>3, <1>4, <1>5, <1>6, <1>7, SeekOutcome

CutTo(x, e, o, y) ==
    /\ Sound(y, e, o)
    /\ y.hres = "ok" => Client(y, e) /\ y.begin = x.begin /\ y.end = x.end

LEMMA SetSizeSound ==
    ASSUME NEW d, NEW o, NEW x, Sound(x, d, o), x.hres = "ok", Client(x, d),
           x.begin # x.end, NEW y \in SetSizeCall(x, x.virtPos)
    PROVE  CutTo(x, SubSeq(d, 1, x.virtPos), o, y)
<1> USE DEF CutTo
<1> DEFINE size == x.virtPos
           e == SubSeq(d, 1, size)
<1>1. PICK a : /\ IsDropped(x, size, a)
               /\ IF a.hres = "ok"
                  THEN LET b == Sized(a, size) IN
                       IF b.hres = "ok"
                       THEN IF size = b.phySize \/ (HeldInside(x, size) /\ b.phySize <= size)
                            THEN y = b ELSE IsCut(b, size, y)
                       ELSE y = b
                  ELSE y = a
  BY SetSizeCases DEF IsSetSize
<1>2. /\ a.hres # "ok" => Sound(a, d, o)
      /\ a.hres = "ok" =>
           /\ Shortened(a, e, o)
           /\ a.cachedSize # 0 => HeldInside(x, size)
           /\ a.begin = x.begin /\ a.end = x.end /\ a.virtPos = size
           /\ Len(e) = size
  <2>1. IsDropped(x, size, a) BY <1>1
  <2>2. size = x.virtPos OBVIOUS
  <2>3. Shortens(x, d, o, size, a) BY <2>1, <2>2, DroppedSound
  <2> QED BY <2>3 DEF Shortens
<1>3. CASE a.hres # "ok"
  BY Parts, CutFacts, <1>1, <1>3, <1>2, ErrorSound DEF Sound, Client, e, size
<1>4. CASE a.hres = "ok"
  <2> DEFINE b == Sized(a, size)
  <2>1. /\ Shortened(a, e, o) /\ (a.cachedSize # 0 => HeldInside(x, size))
        /\ a.begin = x.begin /\ a.end = x.end /\ a.virtPos = size /\ Len(e) = size
    BY <1>2, <1>4
  <2>2. a \in Cache /\ size \in Nat BY <2>1, Parts DEF Shortened
  <2> HIDE DEF e
  <2>3. /\ b \in Cache /\ b.virtSize = size /\ b.hres = a.hres /\ b.cachedSize = a.cachedSize
        /\ b.cachedPos = a.cachedPos /\ b.virtPos = a.virtPos /\ b.phyPos = a.phyPos
        /\ b.phySize = a.phySize /\ b.begin = a.begin /\ b.end = a.end
        /\ b.cache = a.cache /\ b.seekable = a.seekable /\ b.phy = a.phy
    BY <2>2 DEF Sized, Cache
  <2>4. IF size = b.phySize \/ (HeldInside(x, size) /\ b.phySize <= size)
        THEN y = b ELSE IsCut(b, size, y)
    BY <1>1, <1>4, <2>3
  <2> HIDE DEF b
  <2>5. CachedEnd(b) = CachedEnd(a) BY <2>3 DEF CachedEnd
  <2>6. /\ Below(a, o) /\ Limits(a) /\ Holds(a, e)
        /\ e \in Seq(Byte) /\ o \in Phy /\ a.cachedSize <= CacheSize
        /\ a.begin # a.end /\ a.begin <= Len(e) /\ Len(e) <= MaxSize
        /\ Len(e) <= a.phySize \/ (a.cachedSize # 0 /\ a.phySize < Len(e))
    BY <2>1 DEF Shortened
  <2>7. Below(b, o) BY <2>3, <2>6 DEF Below
  <2>8. Limits(b) BY <2>3, <2>6 DEF Limits
  <2>9. Holds(b, e) BY <2>3, <2>5, <2>6 DEF Holds, IsCached, CacheByte
  <2>10. Client(b, e) BY <2>1, <2>2, <2>3, <2>6 DEF Client
  <2>11. CASE size = b.phySize \/ (HeldInside(x, size) /\ b.phySize <= size)
    BY <2>4, <2>11, <2>1, <2>2, <1>4, <2>3, <2>6, <2>7, <2>8, <2>9, <2>10 DEF Sound, e
  <2>12. CASE ~(size = b.phySize \/ (HeldInside(x, size) /\ b.phySize <= size))
    <3>1. IsCut(b, size, y) BY <2>4, <2>12
    <3>2. b.phySize \in Nat BY <2>3, Parts
    <3>3. size < b.phySize BY <2>1, <2>2, <2>3, <2>6, <2>12, <3>2
    <3>4. Shortened(b, e, o) BY <1>4, <2>1, <2>3, <2>6, <2>7, <2>8, <2>9 DEF Shortened
    <3>5. /\ Sound(y, e, o)
          /\ y.hres = "ok" => ClientFields(y) = ClientFields(b)
      BY <2>1, <3>1, <3>3, <3>4, CutSound
    <3>6. ASSUME y.hres = "ok" PROVE Client(y, e) /\ y.begin = x.begin /\ y.end = x.end
      BY <2>1, <2>3, <2>10, <3>5, <3>6, ClientKept, CallsFields
    <3> QED BY <3>5, <3>6 DEF e
  <2> QED BY <2>11, <2>12
<1> QED BY <1>3, <1>4

-----------------------------------------------------------------------------
(* SetRestriction, and what every call leaves.                             *)

Restricting(x, b, e) == [x EXCEPT !.begin = b, !.end = e]

LEMMA RestrictionSound ==
    ASSUME NEW d, NEW o, NEW x, Sound(x, d, o), x.hres = "ok", Client(x, d),
           x.virtPos = Len(d), NEW b, NEW e,
           (b = 0 /\ e = 0) \/ (b = x.virtPos /\ e = Inf /\ x.seekable),
           NEW y \in FlushNonRestrictedBlocks(Restricting(x, b, e))
    PROVE  /\ Sound(y, d, o)
           /\ y.hres = "ok" => Client(y, d) /\ y.begin = b /\ y.end = e
<1> DEFINE z == [x EXCEPT !.begin = b, !.end = e]
<1>1. /\ x \in Cache /\ d \in Seq(Byte) /\ o \in Phy /\ Len(d) \in Nat
      /\ Limits(x) /\ Holds(x, d) /\ Below(x, o) /\ x.cachedSize <= CacheSize
      /\ x.phySize <= Len(d) /\ Len(d) <= MaxSize
  BY DEF Sound
<1>2. b \in Nat /\ e \in Nat /\ MaxSize < Inf /\ MaxSize \in Nat /\ Inf \in Nat BY <1>1, Sizes
<1>3. /\ z \in Cache /\ z.hres = x.hres /\ z.cachedSize = x.cachedSize
      /\ z.cachedPos = x.cachedPos /\ z.virtPos = x.virtPos /\ z.virtSize = x.virtSize
      /\ z.phyPos = x.phyPos /\ z.phySize = x.phySize /\ z.begin = b /\ z.end = e
      /\ z.cache = x.cache /\ z.seekable = x.seekable /\ z.phy = x.phy
  BY <1>1, <1>2 DEF Cache
<1>4. y \in FlushNonRestrictedBlocks(z) BY DEF Restricting
<1> HIDE DEF z
<1>5. Below(z, o) BY <1>1, <1>3 DEF Below
<1>6. Limits(z) BY <1>1, Parts, <1>2, <1>3 DEF Below, Holds, Limits
<1>7. CachedEnd(z) = CachedEnd(x) BY <1>3 DEF CachedEnd
<1>8. Holds(z, d) BY <1>1, <1>3, <1>7 DEF Holds, IsCached, CacheByte
<1>9. Sound(z, d, o) BY <1>1, <1>3, <1>5, <1>6, <1>8 DEF Sound
<1>10. Client(z, d) BY <1>1, <1>3 DEF Client
<1>11. Flushes(z, y, d, o) BY <1>3, <1>4, <1>9, LoopSound
<1> QED BY <1>3, <1>10, <1>11, ClientKept, CallsFields DEF Flushes

LEMMA CleanIs ==
    ASSUME NEW x \in Cache
    PROVE  LET y == Clean(x) IN
           /\ y \in Cache /\ y.hres = x.hres /\ y.cachedSize = x.cachedSize
           /\ y.cachedPos = x.cachedPos /\ y.virtPos = x.virtPos /\ y.virtSize = x.virtSize
           /\ y.phyPos = x.phyPos /\ y.phySize = x.phySize /\ y.begin = x.begin
           /\ y.end = x.end /\ y.seekable = x.seekable /\ y.phy = x.phy
           /\ \A k \in 0..CacheSize - 1 :
                 (k - x.cachedPos) % CacheSize < x.cachedSize => y.cache[k] = x.cache[k]
<1> DEFINE cache == [k \in 0..CacheSize - 1 |->
                       IF (k - x.cachedPos) % CacheSize < x.cachedSize
                       THEN x.cache[k] ELSE None]
           y == [x EXCEPT !.cache = cache]
<1>1. x.cache \in [0..CacheSize - 1 -> Byte] /\ None \in Byte BY Parts DEF None, Byte
<1>2. cache \in [0..CacheSize - 1 -> Byte] BY <1>1
<1>3. Clean(x) = y
  <2>1. DOMAIN x.cache = 0..CacheSize - 1 BY <1>1
  <2> QED BY <2>1 DEF Clean
<1>4. \A k \in 0..CacheSize - 1 :
         (k - x.cachedPos) % CacheSize < x.cachedSize => cache[k] = x.cache[k]
  OBVIOUS
<1> HIDE DEF cache
<1>5. /\ y \in Cache /\ y.hres = x.hres /\ y.cachedSize = x.cachedSize
      /\ y.cachedPos = x.cachedPos /\ y.virtPos = x.virtPos /\ y.virtSize = x.virtSize
      /\ y.phyPos = x.phyPos /\ y.phySize = x.phySize /\ y.begin = x.begin
      /\ y.end = x.end /\ y.seekable = x.seekable /\ y.phy = x.phy /\ y.cache = cache
  BY <1>2 DEF Cache
<1> HIDE DEF y
<1> QED BY <1>3, <1>4, <1>5

(* The fields of the calls but for the cache's memory. *)
SameFields(x, y) ==
    /\ y.hres = x.hres /\ y.virtPos = x.virtPos /\ y.virtSize = x.virtSize
    /\ y.begin = x.begin /\ y.end = x.end /\ y.phy = x.phy

LEMMA CleanSound ==
    ASSUME NEW d, NEW o, NEW x, Sound(x, d, o)
    PROVE  Sound(Clean(x), d, o) /\ SameFields(x, Clean(x))
<1> DEFINE y == Clean(x)
<1>1. /\ x \in Cache /\ d \in Seq(Byte) /\ o \in Phy /\ Len(d) \in Nat
      /\ Below(x, o) /\ x.cachedSize <= CacheSize /\ x.hres \in {"ok", "error"}
  BY DEF Sound
<1>2. /\ y \in Cache /\ y.hres = x.hres /\ y.cachedSize = x.cachedSize
      /\ y.cachedPos = x.cachedPos /\ y.virtPos = x.virtPos /\ y.virtSize = x.virtSize
      /\ y.phyPos = x.phyPos /\ y.phySize = x.phySize /\ y.begin = x.begin
      /\ y.end = x.end /\ y.seekable = x.seekable /\ y.phy = x.phy
      /\ \A k \in 0..CacheSize - 1 :
            (k - x.cachedPos) % CacheSize < x.cachedSize => y.cache[k] = x.cache[k]
  BY <1>1, CleanIs
<1> HIDE DEF y
<1>3. Below(y, o) BY <1>1, <1>2 DEF Below
<1>4. CASE x.hres = "ok"
  <2>1. Limits(x) /\ Holds(x, d) /\ x.phySize <= Len(d) /\ Len(d) <= MaxSize BY <1>4 DEF Sound
  <2>2. Limits(y) BY <1>2, <2>1 DEF Limits
  <2>3. CachedEnd(y) = CachedEnd(x) BY <1>2 DEF CachedEnd
  <2>4. ASSUME NEW pos \in Nat, IsCached(x, pos)
        PROVE  CacheByte(y, pos) = CacheByte(x, pos)
    <3>1. /\ x.cachedPos \in Nat /\ x.cachedSize \in Nat /\ CacheSize \in Nat \ {0}
          /\ CachedEnd(x) = x.cachedPos + x.cachedSize
      BY <1>1, Parts, Sizes
    <3>2. /\ x.cachedPos <= pos /\ pos - x.cachedPos < x.cachedSize
          /\ pos - x.cachedPos < CacheSize /\ -CacheSize <= pos - x.cachedPos
      BY <2>4, <3>1, <1>1 DEF IsCached
    <3>3. ((pos % CacheSize) - x.cachedPos) % CacheSize = pos - x.cachedPos
      <4>1. /\ pos \in Int /\ x.cachedPos \in Int /\ CacheSize \in Nat \ {0}
            /\ -CacheSize <= pos - x.cachedPos /\ pos - x.cachedPos < CacheSize
        BY <3>1, <3>2
      <4>2. ((pos % CacheSize) - x.cachedPos) % CacheSize
              = IF x.cachedPos <= pos THEN pos - x.cachedPos
                ELSE pos - x.cachedPos + CacheSize
        BY <4>1, Distance
      <4> QED BY <3>2, <4>2
    <3>4. pos % CacheSize \in 0..CacheSize - 1 BY CacheIndex
    <3> QED BY <1>2, <3>2, <3>3, <3>4 DEF CacheByte
  <2>5. \A pos \in 0..Len(d) - 1 : IsCached(y, pos) <=> IsCached(x, pos)
    BY <1>2, <2>3 DEF IsCached
  <2>6. Holds(y, d) BY <1>1, <1>2, <2>1, <2>3, <2>4, <2>5 DEF Holds
  <2> QED BY <1>1, <1>2, <1>3, <1>4, <2>1, <2>2, <2>6 DEF Sound, SameFields, y
<1>5. CASE x.hres # "ok" BY <1>1, <1>2, <1>3, <1>5 DEF Sound, SameFields, y
<1> QED BY <1>4, <1>5

LEMMA SelfSound ==
    \A d, o, y : Sound(y, d, o) => Sound(y, d, y.phy)
  BY Parts DEF Sound, Below

-----------------------------------------------------------------------------
(* The inductive invariant.                                                *)

Files == [pc : {"open", "flushed"}, data : Seq(Byte), begin : Nat]

(* What is true of the stream and the client's file between two calls. *)
Kept(x, f, o) ==
    /\ f \in Files
    /\ Sound(x, f.data, o)
    /\ x.hres = "ok" => /\ Client(x, f.data)
                        /\ f.begin = IF x.begin = x.end THEN Inf ELSE x.begin
                        /\ f.pc = "flushed" => x.phy.data = f.data

CacheInv == Kept(s, file, s.phy)

LEMMA KeptAfter ==
    ASSUME NEW x, NEW y, NEW f, NEW o, f \in Files, Sound(y, f.data, o), x = Clean(y),
           y.hres = "ok" => /\ Client(y, f.data)
                            /\ f.begin = IF y.begin = y.end THEN Inf ELSE y.begin
                            /\ f.pc = "flushed" => y.phy.data = f.data
    PROVE  Kept(x, f, o)
  BY CleanSound DEF SameFields, Client, Kept

(* The client is restricted when the stream is. *)
LEMMA RestrictedIs ==
    ASSUME CacheInv, s.hres = "ok"
    PROVE  /\ Restricted <=> s.begin # s.end
           /\ file.begin = IF s.begin = s.end THEN Inf ELSE s.begin
           /\ s.begin # s.end => s.begin \in Nat /\ s.begin <= MaxSize /\ s.end = Inf
                                 /\ s.seekable
           /\ s.begin = s.end => s.begin = 0
  BY Parts, Sizes DEF CacheInv, Kept, Sound, Limits, Restricted

LEMMA InitInv == CacheInit => CacheInv
<1> SUFFICES ASSUME CacheInit PROVE CacheInv
  OBVIOUS
<1>1. PICK seekable \in Seekable :
      s = [hres |-> "ok", cachedSize |-> 0, cachedPos |-> 0, virtPos |-> 0,
           virtSize |-> 0, phyPos |-> 0, phySize |-> 0, begin |-> 0, end |-> 0,
           cache |-> [k \in 0..CacheSize - 1 |-> None], seekable |-> seekable,
           phy |-> [data |-> <<>>, pos |-> 0, begin |-> Inf, final |-> 0,
                    atEnd |-> TRUE]]
  BY DEF CacheInit
<1>2. seekable \in BOOLEAN /\ Inf \in Nat /\ MaxSize \in Nat /\ CacheSize \in Nat
  BY CacheAssumption, Sizes
<1>3. /\ file = [pc |-> "open", data |-> <<>>, begin |-> Inf]
  BY DEF CacheInit
<1>4. <<>> \in Seq(Byte) /\ Len(<<>>) = 0 /\ None \in Byte
  BY DEF None, Byte
<1>5. /\ s.hres = "ok" /\ s.cachedSize = 0 /\ s.cachedPos = 0 /\ s.virtPos = 0
      /\ s.virtSize = 0 /\ s.phyPos = 0 /\ s.phySize = 0 /\ s.begin = 0 /\ s.end = 0
      /\ s.seekable = seekable /\ s.phy.data = <<>> /\ s.phy.pos = 0
      /\ s.phy.begin = Inf /\ s.phy.final = 0 /\ s.phy.atEnd = TRUE
  BY <1>1
<1>6. s.phy \in Phy
  BY <1>1, <1>2, <1>4 DEF Phy
<1>7. [k \in 0..CacheSize - 1 |-> None] \in [0..CacheSize - 1 -> Byte]
  BY <1>4
<1>8. s \in Cache
  BY <1>1, <1>2, <1>6, <1>7 DEF Cache
<1>9. Below(s, s.phy)
  BY <1>4, <1>5 DEF Below
<1>10. Limits(s)
  BY <1>5 DEF Limits
<1>11. Holds(s, <<>>)
  BY <1>4, <1>5 DEF Holds
<1>12. Sound(s, <<>>, s.phy)
  BY <1>2, <1>4, <1>5, <1>6, <1>8, <1>9, <1>10, <1>11 DEF Sound
<1>13. Client(s, <<>>)
  BY <1>4, <1>5 DEF Client
<1>14. file \in Files /\ file.data = <<>> /\ file.begin = Inf /\ file.pc = "open"
  BY <1>2, <1>3, <1>4 DEF Files
<1> QED
  BY <1>5, <1>12, <1>13, <1>14 DEF CacheInv, Kept

LEMMA Facts ==
    ASSUME CacheInv
    PROVE  /\ file \in Files /\ file.data \in Seq(Byte) /\ Len(file.data) \in Nat
           /\ file.begin \in Nat /\ Sound(s, file.data, s.phy) /\ s \in Cache
           /\ s.virtPos \in Nat
           /\ s.hres = "ok" => /\ Client(s, file.data) /\ s.virtPos <= Len(file.data)
                               /\ Len(file.data) <= MaxSize
  BY Parts DEF CacheInv, Kept, Sound, Files, Client

LEMMA StepWrite ==
    ASSUME CacheInv, Write
    PROVE  Kept(s', file', s.phy)
<1> DEFINE n == s'.virtPos - s.virtPos
           e == Put(file.data, s.virtPos, NewBytes(s.virtPos, n))
<1>1. /\ file \in Files /\ file.data \in Seq(Byte) /\ Sound(s, file.data, s.phy)
      /\ s.virtPos \in Nat /\ s.hres = "ok" /\ file.pc = "open" /\ Client(s, file.data)
  BY Facts DEF Write, Usable
<1>2. PICK size \in 1..Min({MaxClientWrite, MaxSize - s.virtPos}) : Becomes(CallWrite(s, size))
  BY DEF Write
<1>3. size \in Nat \ {0} /\ s.virtPos + size <= MaxSize BY CacheAssumption, <1>1, MinTwo, <1>2
<1>4. PICK y \in CallWrite(s, size) : s' = Clean(y) BY <1>2 DEF Becomes
<1>5. LET k == y.virtPos - s.virtPos
          f == Put(file.data, s.virtPos, NewBytes(s.virtPos, k))
      IN  /\ Sound(y, f, s.phy)
          /\ y.hres = "ok" => Client(y, f) /\ y.begin = s.begin /\ y.end = s.end
  BY <1>1, <1>3, WriteSound
<1>6. s'.virtPos = y.virtPos BY <1>4, <1>5, CleanSound DEF SameFields
<1>7. /\ Sound(y, e, s.phy)
      /\ y.hres = "ok" => Client(y, e) /\ y.begin = s.begin /\ y.end = s.end
  BY <1>5, <1>6
<1>8. file' = [file EXCEPT !.data = e] BY DEF Write
<1> HIDE DEF e
<1>9. file' \in Files /\ file'.data = e /\ file'.begin = file.begin /\ file'.pc = "open"
  BY <1>7, <1>1, <1>8 DEF Sound, Files
<1>10. file.begin = IF s.begin = s.end THEN Inf ELSE s.begin BY <1>1, RestrictedIs
<1> QED BY <1>4, <1>7, <1>9, <1>10, KeptAfter

LEMMA StepSeek ==
    ASSUME CacheInv, Seek
    PROVE  Kept(s', file', s.phy)
<1>1. /\ file \in Files /\ file.data \in Seq(Byte) /\ Sound(s, file.data, s.phy)
      /\ Len(file.data) \in Nat /\ file.begin \in Nat
      /\ s.hres = "ok" /\ file.pc = "open" /\ Client(s, file.data) /\ file' = file
  BY Facts DEF Seek, Usable
<1>2. PICK pos \in file.begin..Len(file.data) : s' = [s EXCEPT !.virtPos = pos] BY DEF Seek
<1>3. s.begin # s.end /\ file.begin = s.begin BY <1>1, RestrictedIs DEF Seek
<1>4. pos \in Nat /\ s.begin <= pos /\ pos <= Len(file.data) BY <1>1, <1>2, <1>3
<1>5. /\ s \in Cache /\ s.phy \in Phy /\ Limits(s) /\ Holds(s, file.data) /\ Below(s, s.phy)
      /\ s.cachedSize <= CacheSize
      /\ s.phySize <= Len(file.data) /\ Len(file.data) <= MaxSize
  BY <1>1 DEF Sound
<1>6. /\ s' \in Cache /\ s'.hres = s.hres /\ s'.cachedSize = s.cachedSize
      /\ s'.cachedPos = s.cachedPos /\ s'.virtPos = pos /\ s'.virtSize = s.virtSize
      /\ s'.phyPos = s.phyPos /\ s'.phySize = s.phySize /\ s'.begin = s.begin
      /\ s'.end = s.end /\ s'.cache = s.cache /\ s'.seekable = s.seekable
      /\ s'.phy = s.phy
  BY <1>2, <1>4, <1>5 DEF Cache
<1>7. Below(s', s.phy) BY <1>5, <1>6 DEF Below
<1>8. Limits(s') BY <1>5, <1>6 DEF Limits
<1>9. CachedEnd(s') = CachedEnd(s) BY <1>6 DEF CachedEnd
<1>10. Holds(s', file.data) BY <1>5, <1>6, <1>9 DEF Holds, IsCached, CacheByte
<1>11. Sound(s', file.data, s.phy) BY <1>1, <1>5, <1>6, <1>7, <1>8, <1>10 DEF Sound
<1>12. Client(s', file.data) BY <1>1, <1>3, <1>4, <1>6 DEF Client
<1> QED BY <1>1, <1>3, <1>6, <1>11, <1>12 DEF Kept

LEMMA StepSetSize ==
    ASSUME CacheInv, SetSize
    PROVE  Kept(s', file', s.phy)
<1> DEFINE e == SubSeq(file.data, 1, s.virtPos)
<1>1. /\ file \in Files /\ file.data \in Seq(Byte) /\ Sound(s, file.data, s.phy)
      /\ s.hres = "ok" /\ file.pc = "open" /\ Client(s, file.data)
  BY Facts DEF SetSize, Usable
<1>2. PICK y \in SetSizeCall(s, s.virtPos) : s' = Clean(y) BY DEF SetSize, Becomes
<1>3. s.begin # s.end /\ file.begin = IF s.begin = s.end THEN Inf ELSE s.begin
  BY <1>1, RestrictedIs DEF SetSize
<1>4. /\ Sound(y, e, s.phy)
      /\ y.hres = "ok" => Client(y, e) /\ y.begin = s.begin /\ y.end = s.end
  <2>1. CutTo(s, SubSeq(file.data, 1, s.virtPos), s.phy, y) BY <1>1, <1>2, <1>3, SetSizeSound
  <2> QED BY <2>1 DEF CutTo
<1>5. file' = [file EXCEPT !.data = e] BY DEF SetSize
<1> HIDE DEF e
<1>6. file' \in Files /\ file'.data = e /\ file'.begin = file.begin /\ file'.pc = "open"
  BY <1>4, <1>1, <1>5 DEF Sound, Files
<1> QED BY <1>2, <1>3, <1>4, <1>6, KeptAfter

LEMMA StepRestriction ==
    ASSUME CacheInv, SetRestrictionFromCurrent \/ ClearRestriction
    PROVE  Kept(s', file', s.phy)
<1>1. /\ file \in Files /\ file.data \in Seq(Byte) /\ Sound(s, file.data, s.phy)
      /\ s.virtPos \in Nat /\ s.hres = "ok" /\ file.pc = "open" /\ Client(s, file.data)
      /\ s.virtPos = Len(file.data) /\ Len(file.data) <= MaxSize
  BY Facts DEF SetRestrictionFromCurrent, ClearRestriction, Usable, AtEnd
<1>2. Inf \in Nat /\ MaxSize \in Nat /\ MaxSize < Inf BY Sizes
<1>3. CASE SetRestrictionFromCurrent
  <2>1. PICK y \in FlushNonRestrictedBlocks(Restricting(s, s.virtPos, Inf)) : s' = Clean(y)
    BY <1>3 DEF SetRestrictionFromCurrent, Becomes, Restricting
  <2>6. s.seekable BY <1>3 DEF SetRestrictionFromCurrent
  <2>2. /\ Sound(y, file.data, s.phy)
        /\ y.hres = "ok" => Client(y, file.data) /\ y.begin = s.virtPos /\ y.end = Inf
    BY <1>1, <2>1, <2>6, RestrictionSound
  <2>3. file' = [file EXCEPT !.begin = s.virtPos] BY <1>3 DEF SetRestrictionFromCurrent
  <2>4. /\ file' \in Files /\ file'.data = file.data /\ file'.begin = s.virtPos
        /\ file'.pc = "open"
    BY <1>1, <2>3 DEF Files
  <2>5. s.virtPos # Inf BY <1>1, <1>2
  <2> QED BY <2>1, <2>2, <2>4, <2>5, KeptAfter
<1>4. CASE ClearRestriction
  <2>1. PICK y \in FlushNonRestrictedBlocks(Restricting(s, 0, 0)) : s' = Clean(y)
    BY <1>4 DEF ClearRestriction, Becomes, Restricting
  <2>2. /\ Sound(y, file.data, s.phy)
        /\ y.hres = "ok" => Client(y, file.data) /\ y.begin = 0 /\ y.end = 0
    BY <1>1, <2>1, RestrictionSound
  <2>3. file' = [file EXCEPT !.begin = Inf] BY <1>4 DEF ClearRestriction
  <2>4. /\ file' \in Files /\ file'.data = file.data /\ file'.begin = Inf
        /\ file'.pc = "open"
    BY <1>1, <1>2, <2>3 DEF Files
  <2> QED BY <2>1, <2>2, <2>4, KeptAfter
<1> QED BY <1>3, <1>4

LEMMA StepFinalFlush ==
    ASSUME CacheInv, FinalFlush
    PROVE  Kept(s', file', s.phy)
<1>1. /\ file \in Files /\ file.data \in Seq(Byte) /\ Sound(s, file.data, s.phy)
      /\ s.hres = "ok" => Client(s, file.data)
  BY Facts
<1>2. file' = [file EXCEPT !.pc = "flushed"] BY DEF FinalFlush
<1>3. /\ file' \in Files /\ file'.data = file.data /\ file'.begin = file.begin
      /\ file'.pc = "flushed"
  BY <1>1, <1>2 DEF Files
<1>4. CASE s.hres = "ok"
  <2>1. ~Restricted BY <1>4 DEF FinalFlush
  <2>2. s.begin = s.end /\ file.begin = Inf BY <1>4, <2>1, RestrictedIs
  <2>3. PICK y \in FinalFlushCall(s) : s' = Clean(y) BY <1>4 DEF FinalFlush, Becomes
  <2>4. /\ Sound(y, file.data, s.phy)
        /\ y.hres = "ok" => /\ Client(y, file.data) /\ y.phy.data = file.data
                            /\ y.begin = s.begin /\ y.end = s.end
    BY <1>1, <1>4, <2>2, <2>3, FinalFlushSound
  <2> QED BY <1>3, <2>2, <2>3, <2>4, KeptAfter
<1>5. CASE s.hres # "ok" BY <1>5, <1>1, <1>3 DEF FinalFlush, Kept
<1> QED BY <1>4, <1>5

LEMMA StepKept ==
    ASSUME CacheInv, [CacheNext]_cacheVars
    PROVE  Kept(s', file', s.phy)
  BY StepWrite, StepSeek, StepSetSize, StepRestriction, StepFinalFlush DEF Flushed, cacheVars,
    CacheInv, CacheNext

LEMMA StepInv == CacheInv /\ [CacheNext]_cacheVars => CacheInv'
  BY StepKept, SelfSound DEF Kept, CacheInv

(* Between two calls of the client the cache and the stream below it are   *)
(* in order, and the client stands where COutArchive would.                *)
THEOREM Invariance == CacheSpec => []CacheInv
<1> QED BY InitInv, StepInv, PTL DEF CacheSpec

(* Nothing the client has written is lost or misplaced: each byte is in    *)
(* the cache or in the stream below, through wraps, rewritten headers and  *)
(* cuts, and after FinalFlush the stream below is the whole file;          *)
(* the stream is never asked for what it cannot do (_hres is S_OK or an    *)
(* error of the stream below).  For every size of the cache and the file.  *)
THEOREM CacheHoldsFile == CacheSpec => []FileIntact
<1>1. CacheInv => FileIntact
  <2> SUFFICES ASSUME CacheInv PROVE FileIntact OBVIOUS
  <2>1. /\ s \in Cache /\ s.hres \in {"ok", "error"} /\ s.cachedSize <= CacheSize
        /\ s.hres = "ok" => Holds(s, file.data) /\ Client(s, file.data)
        /\ s.hres = "ok" => (file.pc = "flushed" => s.phy.data = file.data)
    BY DEF CacheInv, Kept, Sound
  <2>2. s.cachedSize \in 0..CacheSize BY <2>1, Parts, Sizes
  <2>3. ASSUME s.hres = "ok"
        PROVE  /\ s.virtSize = Len(file.data)
               /\ s.phyPos = s.phy.pos /\ s.phySize = Len(s.phy.data)
               /\ \A pos \in 0..Len(file.data) - 1 :
                     file.data[pos + 1] = IF Cached(pos) THEN CacheByte(s, pos)
                                          ELSE s.phy.data[pos + 1]
    BY <2>1, <2>3 DEF Holds, Client, Cached, IsCached
  <2> QED BY <2>1, <2>2, <2>3 DEF FileIntact
<1> QED BY <1>1, Invariance, PTL

(* What CCacheOutStream has let the stream below finalize, by the regions  *)
(* that SetRestriction_ForWrite tells it, is never written again or cut by *)
(* a later call, and restrictions are lifted only at the end of the file.  *)
THEOREM FinalKept == CacheSpec => FinalStays
<1>1. CacheInv /\ [CacheNext]_cacheVars =>
        [ /\ SubSeq(s.phy.data, 1, s.phy.final) = SubSeq(s'.phy.data, 1, s.phy.final)
          /\ s'.phy.atEnd ]_cacheVars
  <2> SUFFICES ASSUME CacheInv, [CacheNext]_cacheVars
               PROVE  /\ SubSeq(s.phy.data, 1, s.phy.final)
                           = SubSeq(s'.phy.data, 1, s.phy.final)
                      /\ s'.phy.atEnd
    OBVIOUS
  <2>1. Kept(s', file', s.phy) BY StepKept
  <2>2. s' \in Cache /\ Below(s', s.phy) /\ s \in Cache /\ Below(s, s.phy)
    BY <2>1 DEF Kept, Sound, CacheInv
  <2>3. /\ s.phy.data \in Seq(Byte) /\ s'.phy.data \in Seq(Byte) /\ s.phy.final \in Nat
        /\ s'.phy.final \in Nat /\ Len(s.phy.data) \in Nat /\ Len(s'.phy.data) \in Nat
    BY <2>2, Parts
  <2> DEFINE n == s.phy.final
             a == s.phy.data
             b == s'.phy.data
  <2>4. /\ n <= Len(a) /\ n <= Len(b) /\ s'.phy.atEnd
        /\ \A k \in 1..n : b[k] = a[k]
    BY <2>2, <2>3 DEF Below
  <2>5. a \in Seq(Byte) /\ b \in Seq(Byte) /\ n \in Nat BY <2>3
  <2> HIDE DEF a, b, n
  <2>6. n \in 0..Len(a) /\ n \in 0..Len(b) BY <2>4, <2>5
  <2>7. /\ SubSeq(a, 1, n) \in Seq(Byte) /\ Len(SubSeq(a, 1, n)) = n
        /\ \A k \in 1..n : SubSeq(a, 1, n)[k] = a[k]
    BY <2>5, <2>6, CutFacts
  <2>8. /\ SubSeq(b, 1, n) \in Seq(Byte) /\ Len(SubSeq(b, 1, n)) = n
        /\ \A k \in 1..n : SubSeq(b, 1, n)[k] = b[k]
    BY <2>5, <2>6, CutFacts
  <2>9. SubSeq(a, 1, n) = SubSeq(b, 1, n) BY <2>4, <2>7, <2>8
  <2> QED BY <2>4, <2>9 DEF a, b, n
<1> QED BY <1>1, Invariance, PTL DEF CacheSpec, FinalStays

=============================================================================
