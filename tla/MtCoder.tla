------------------------------ MODULE MtCoder ------------------------------
(***************************************************************************)
(* CMtCoder (C/MtCoder.c, MtCoder.h): the multithreading engine of the     *)
(* LZMA2 and XZ encoders, built without MTCODER_USE_WRITE_THREAD.          *)
(*                                                                         *)
(* MtCoder_Code cuts the input into blocks.  Every coder thread reads a    *)
(* block, encodes it into an out buffer, and whichever thread has finished *)
(* the block that is next in the output writes it, together with all the   *)
(* finished blocks behind it.  The parts are tied together by              *)
(*   readEvent        a token: its holder reads and starts the next thread *)
(*   blocksSemaphore  bounds the blocks between reading and writing        *)
(*   cs               guards the list of free out buffers, ReadyBlocks and *)
(*                    writeIndex (-1 while some thread is the writer)      *)
(*   numFinishedThreads, finishedEvent   tell MtCoder_Code that the last   *)
(*                    thread has left ThreadFunc2.                         *)
(*                                                                         *)
(* A block of input is its number 1..NumInput; the last one is the one     *)
(* read with finished = True.  An out buffer holds the number of the block *)
(* encoded into it, so the output is a sequence of block numbers.          *)
(* A section between Enter and Leave of a critical section is one step.    *)
(***************************************************************************)
EXTENDS Integers, Sequences, FiniteSets, SyncObjects

CONSTANTS
    NumThreads,      \* numThreadsMax
    NumBlocksMax,    \* numBlocksMax: NumThreads + NumThreads / 8 + 1, up to + 3
    BLOCKS_MAX,      \* MTCODER_BLOCKS_MAX, the length of freeBlockList
    NumInput,        \* reads until the end of the input
    ExpectedBlocks,  \* expectedDataSize, as the number of reads; 0 = unknown
    MaxCalls,        \* calls of MtCoder_Code on one object
    SettledReuse,    \* the object is used again only after all its threads
                     \* are back in Event_Wait(&t->startEvent)
    Faults           \* what may fail: "read", "code", "write", "create"

ASSUME MtCoderAssumption ==
    /\ NumThreads \in Nat \ {0}
    /\ NumBlocksMax \in Nat \ {0}
    /\ BLOCKS_MAX \in Nat
    /\ NumBlocksMax <= BLOCKS_MAX
    /\ NumInput \in Nat \ {0}
    /\ ExpectedBlocks \in Nat
    /\ MaxCalls \in Nat \ {0}
    /\ SettledReuse \in BOOLEAN
    /\ Faults \subseteq {"read", "code", "write", "create"}

Threads == 0..NumThreads - 1
Slots == 0..NumBlocksMax - 1       \* indexes of blocks[] and ReadyBlocks[]
Bufs == 0..BLOCKS_MAX - 1          \* out buffers
None == -1                         \* (unsigned)(int)-1

VARIABLES
    \* CMtCoderThread: thread, stop, startEvent
    created, stop, startEvent,
    readEvent, blocksSemaphore, finishedEvent,
    \* owned by the holder of the readEvent token
    stopReading, readRes, readProcessed, blockIndex, numStartedThreads,
    \* guarded by cs
    freeBlockHead, freeBlockList, ReadyBlocks, writeIndex,
    progressRes,           \* mtProgress.res, guarded by mtProgress.cs
    writeRes,              \* owned by the writer
    numFinishedThreads,    \* changed by InterlockedIncrement
    blocks,                \* blocks[]: res, bufIndex, finished
    outBuf,                \* block number encoded in each out buffer
    pc,                    \* where each thread is
    loc,                   \* locals of its ThreadFunc and ThreadFunc2
    mpc, mi, mres, calls,  \* MtCoder_Code, MtCoder_Free and their caller
    written                \* history: what the Write callback has received

threadVars == <<created, stop, startEvent>>
tokenVars == <<stopReading, readRes, readProcessed, blockIndex,
               numStartedThreads>>
csVars == <<freeBlockHead, freeBlockList, ReadyBlocks, writeIndex>>
finishVars == <<numFinishedThreads, finishedEvent>>
outVars == <<outBuf, writeRes, written>>
mainVars == <<mpc, mi, mres, calls>>
vars == <<threadVars, readEvent, blocksSemaphore, tokenVars, csVars,
          progressRes, finishVars, blocks, outVars, pc, loc, mainVars>>

EmptyBlock == [res |-> "ok", bufIndex |-> None, finished |-> FALSE]

(* bi, res, bufIndex, finished are the code's; wi only while it is needed; *)
(* block is the number of the block in the thread's hands.                 *)
EmptyLocals == [bi |-> 0, wi |-> 0, res |-> "ok", bufIndex |-> None,
                finished |-> FALSE, isReady |-> FALSE, block |-> 0,
                numFinished |-> 0]

InitFreeList == [b \in Bufs |-> IF b = BLOCKS_MAX - 1 THEN None ELSE b + 1]

(* MtCoder_Construct. *)
Init ==
    /\ created = [t \in Threads |-> FALSE]
    /\ stop = [t \in Threads |-> FALSE]
    /\ startEvent = [t \in Threads |-> FALSE]
    /\ readEvent = FALSE /\ finishedEvent = FALSE /\ blocksSemaphore = 0
    /\ stopReading = FALSE /\ readRes = "ok" /\ readProcessed = 0
    /\ blockIndex = 0 /\ numStartedThreads = 0 /\ numFinishedThreads = 0
    /\ freeBlockHead = 0 /\ freeBlockList = InitFreeList
    /\ ReadyBlocks = [s \in Slots |-> FALSE] /\ writeIndex = 0
    /\ progressRes = "ok" /\ writeRes = "ok"
    /\ blocks = [s \in Slots |-> EmptyBlock]
    /\ outBuf = [b \in Bufs |-> 0]
    /\ pc = [t \in Threads |-> "none"]
    /\ loc = [t \in Threads |-> EmptyLocals]
    /\ mpc = "idle" /\ mi = 0 /\ mres = "ok" /\ calls = 0
    /\ written = <<>>

-----------------------------------------------------------------------------
Goto(t, place) == pc' = [pc EXCEPT ![t] = place]

(* MtProgress_SetError: the first error is kept. *)
SetError(r) == progressRes' = IF progressRes = "ok" THEN r ELSE progressRes

(* Faulty: the ring of slots is one too long. *)
NextSlot_Late(s) == IF s + 1 > NumBlocksMax THEN 0 ELSE s + 1
NextSlot(s) == IF s + 1 >= NumBlocksMax THEN 0 ELSE s + 1

(* MtCoderThread_CreateAndStart, when nothing fails: thread t is created   *)
(* unless it sleeps in ThreadFunc already, and is let into ThreadFunc2.    *)
CreateAndStart(t) ==
    /\ startEvent' = [startEvent EXCEPT ![t] = TRUE]
    /\ stop' = [stop EXCEPT ![t] = FALSE]
    /\ created' = [created EXCEPT ![t] = TRUE]

CreateCanFail(t) == "create" \in Faults /\ ~created[t]

(* Where thread t is after CreateAndStart(t). *)
Started(t) == IF created[t] THEN pc[t] ELSE "start"

-----------------------------------------------------------------------------
(* Coder thread: ThreadFunc and ThreadFunc2.                               *)

(* Event_Wait(&t->startEvent) returns. *)
ThreadStart(t) ==
    /\ pc[t] = "start"
    /\ Event_CanWait(startEvent[t])
    /\ startEvent' = [startEvent EXCEPT ![t] = Event_Wait(FALSE, @)]
    /\ Goto(t, IF stop[t] THEN "dead" ELSE "readWait")
    /\ UNCHANGED <<created, stop, readEvent, blocksSemaphore, tokenVars, csVars,
                   progressRes, finishVars, blocks, outVars, loc, mainVars>>

(* Faulty: readEvent is a manual-reset event. *)
TokenAfterWait_Manual == Event_Wait(TRUE, readEvent)

(* A thread that finds reading stopped hands the token on. *)
TokenAfterWait ==
    IF stopReading THEN Event_Set(readEvent) ELSE Event_Wait(FALSE, readEvent)

(* Event_Wait(&readEvent) returns; the thread reads or leaves ThreadFunc2. *)
ReadWait(t) ==
    /\ pc[t] = "readWait"
    /\ Event_CanWait(readEvent)
    /\ readEvent' = TokenAfterWait
    /\ Goto(t, IF stopReading THEN "count" ELSE "read")
    /\ loc' = [loc EXCEPT ![t] = EmptyLocals]
    /\ UNCHANGED <<threadVars, blocksSemaphore, tokenVars, csVars, progressRes,
                   finishVars, blocks, outVars, mainVars>>

(* MtProgress_GetError, then the read.  After an error of some thread      *)
(* nothing is read, but the thread still takes a block from the semaphore. *)
Read(t) ==
    /\ pc[t] = "read"
    /\ \/ /\ progressRes # "ok"
          /\ loc' = [loc EXCEPT ![t].res = progressRes, ![t].finished = TRUE]
          /\ Goto(t, "semWait")
          /\ UNCHANGED <<readProcessed, readRes>>
       \/ /\ progressRes = "ok"
          /\ readProcessed' = readProcessed + 1
          /\ loc' = [loc EXCEPT ![t].block = readProcessed + 1,
                                ![t].finished = (readProcessed + 1 >= NumInput)]
          /\ Goto(t, "semWait")
          /\ UNCHANGED readRes
       \/ /\ progressRes = "ok"
          /\ "read" \in Faults         \* read error, or no memory for inBuf
          /\ readRes' = "read"
          /\ loc' = [loc EXCEPT ![t].res = "read", ![t].finished = TRUE]
          /\ Goto(t, "readErr")
          /\ UNCHANGED readProcessed
    /\ UNCHANGED <<threadVars, readEvent, blocksSemaphore, stopReading,
                   blockIndex, numStartedThreads, csVars, progressRes,
                   finishVars, blocks, outVars, mainVars>>

(* MtProgress_SetError after a failed read. *)
ReadErr(t) ==
    /\ pc[t] = "readErr"
    /\ SetError("read")
    /\ Goto(t, "semWait")
    /\ UNCHANGED <<threadVars, readEvent, blocksSemaphore, tokenVars, csVars,
                   finishVars, blocks, outVars, loc, mainVars>>

(* Semaphore_Wait(&blocksSemaphore) returns, still with the token held;    *)
(* the thread takes the next slot of the ring.                             *)
SemWait(t) ==
    /\ pc[t] = "semWait"
    /\ Semaphore_CanWait(blocksSemaphore)
    /\ blocksSemaphore' = Semaphore_Wait(blocksSemaphore)
    /\ loc' = [loc EXCEPT ![t].bi = blockIndex]
    /\ blockIndex' = NextSlot(blockIndex)
    /\ Goto(t, "decide")
    /\ UNCHANGED <<threadVars, readEvent, stopReading, readRes, readProcessed,
                   numStartedThreads, csVars, progressRes, finishVars, blocks,
                   outVars, mainVars>>

WantsThread == /\ numStartedThreads < NumThreads
               /\ ExpectedBlocks # readProcessed

(* The second MtProgress_GetError, and whether to start one more thread. *)
Decide(t) ==
    /\ pc[t] = "decide"
    /\ LET r == IF loc[t].res = "ok" THEN progressRes ELSE loc[t].res
           last == loc[t].finished \/ r # "ok"
       IN
        /\ loc' = [loc EXCEPT ![t].res = r, ![t].finished = last]
        /\ Goto(t, IF ~last /\ WantsThread THEN "create" ELSE "release")
    /\ UNCHANGED <<threadVars, readEvent, blocksSemaphore, tokenVars, csVars,
                   progressRes, finishVars, blocks, outVars, mainVars>>

(* MtCoderThread_CreateAndStart(&threads[numStartedThreads]). *)
CreateNext(t) ==
    /\ pc[t] = "create"
    /\ LET n == numStartedThreads IN
        \/ /\ CreateAndStart(n)
           /\ numStartedThreads' = n + 1
           /\ pc' = [pc EXCEPT ![t] = "release", ![n] = Started(n)]
           /\ UNCHANGED <<loc, progressRes>>
        \/ /\ CreateCanFail(n)
           /\ loc' = [loc EXCEPT ![t].res = "create", ![t].finished = TRUE]
           /\ SetError("create")
           /\ Goto(t, "release")
           /\ UNCHANGED <<threadVars, numStartedThreads>>
    /\ UNCHANGED <<readEvent, blocksSemaphore, stopReading, readRes,
                   readProcessed, blockIndex, csVars, finishVars, blocks,
                   outVars, mainVars>>

(* stopReading, then Event_Set(&readEvent): the token goes on. *)
Release(t) ==
    /\ pc[t] = "release"
    /\ stopReading' = (stopReading \/ loc[t].finished)
    /\ readEvent' = Event_Set(readEvent)
    /\ Goto(t, IF loc[t].res = "ok" THEN "pop" ELSE "store")
    /\ UNCHANGED <<threadVars, blocksSemaphore, readRes, readProcessed,
                   blockIndex, numStartedThreads, csVars, progressRes,
                   finishVars, blocks, outVars, loc, mainVars>>

(* Faulty: the buffer stays in the list. *)
HeadAfterPop_Same(b) == b
HeadAfterPop(b) == freeBlockList[b]

(* Under cs: the first free out buffer is taken. *)
Pop(t) ==
    /\ pc[t] = "pop"
    /\ loc' = [loc EXCEPT ![t].bufIndex = freeBlockHead]
    /\ freeBlockHead' = HeadAfterPop(freeBlockHead)
    /\ Goto(t, "code")
    /\ UNCHANGED <<threadVars, readEvent, blocksSemaphore, tokenVars,
                   freeBlockList, ReadyBlocks, writeIndex, progressRes,
                   finishVars, blocks, outVars, mainVars>>

(* The Code callback.  An error of the coder, or of the progress callback  *)
(* it reports to, leaves no block in the buffer and is published.          *)
Code(t) ==
    /\ pc[t] = "code"
    /\ \/ /\ outBuf' = [outBuf EXCEPT ![loc[t].bufIndex] = loc[t].block]
          /\ UNCHANGED <<loc, progressRes>>
       \/ /\ "code" \in Faults
          /\ outBuf' = [outBuf EXCEPT ![loc[t].bufIndex] = 0]
          /\ loc' = [loc EXCEPT ![t].res = "code"]
          /\ SetError("code")
    /\ Goto(t, "store")
    /\ UNCHANGED <<threadVars, readEvent, blocksSemaphore, tokenVars, csVars,
                   finishVars, blocks, writeRes, written, mainVars>>

(* blocks[bi] = res, bufIndex, finished. *)
Store(t) ==
    /\ pc[t] = "store"
    /\ blocks' = [blocks EXCEPT ![loc[t].bi] =
                    [res |-> loc[t].res, bufIndex |-> loc[t].bufIndex,
                     finished |-> loc[t].finished]]
    /\ Goto(t, "claim")
    /\ UNCHANGED <<threadVars, readEvent, blocksSemaphore, tokenVars, csVars,
                   progressRes, finishVars, outVars, loc, mainVars>>

(* Where a thread goes that is done with a block: it reads another one, or *)
(* leaves ThreadFunc2 after the last block or an error.                    *)
Continue(r, last) == IF r # "ok" \/ last THEN "count" ELSE "readWait"

(* Faulty: the writer does not take writeIndex away. *)
IndexOfWriter_Kept(s) == s
IndexOfWriter(s) == None

(* Under cs: a thread whose block is the next in the output becomes the    *)
(* writer, any other leaves its block in ReadyBlocks for the writer.       *)
Claim(t) ==
    /\ pc[t] = "claim"
    /\ \/ /\ writeIndex = loc[t].bi
          /\ writeIndex' = IndexOfWriter(writeIndex)
          /\ loc' = [loc EXCEPT ![t].wi = loc[t].bi,
                        ![t].res = IF writeRes # "ok" THEN writeRes ELSE @]
          /\ Goto(t, "write")
          /\ UNCHANGED ReadyBlocks
       \/ /\ writeIndex # loc[t].bi
          /\ ReadyBlocks' = [ReadyBlocks EXCEPT ![loc[t].bi] = TRUE]
          /\ Goto(t, Continue(loc[t].res, loc[t].finished))
          /\ UNCHANGED <<writeIndex, loc>>
    /\ UNCHANGED <<threadVars, readEvent, blocksSemaphore, tokenVars,
                   freeBlockHead, freeBlockList, progressRes, finishVars,
                   blocks, outVars, mainVars>>

MustWrite(t) == loc[t].res = "ok" /\ loc[t].bufIndex # None

(* The Write callback, unless an error came before; then ++wi. *)
Write(t) ==
    /\ pc[t] = "write"
    /\ \/ /\ ~MustWrite(t)
          /\ loc' = [loc EXCEPT ![t].wi = NextSlot(@)]
          /\ UNCHANGED <<written, writeRes, progressRes>>
       \/ /\ MustWrite(t)
          /\ written' = Append(written, outBuf[loc[t].bufIndex])
          /\ loc' = [loc EXCEPT ![t].wi = NextSlot(@)]
          /\ UNCHANGED <<writeRes, progressRes>>
       \/ /\ MustWrite(t)
          /\ "write" \in Faults
          /\ writeRes' = "write"
          /\ SetError("write")
          /\ loc' = [loc EXCEPT ![t].wi = NextSlot(@), ![t].res = "write"]
          /\ UNCHANGED written
    /\ Goto(t, "return")
    /\ UNCHANGED <<threadVars, readEvent, blocksSemaphore, tokenVars, csVars,
                   finishVars, blocks, outBuf, mainVars>>

(* Under cs: the out buffer is free again; either the next block is ready  *)
(* and this thread stays the writer, or writeIndex waits for that block.   *)
Return(t) ==
    /\ pc[t] = "return"
    /\ LET b == loc[t].bufIndex
           w == loc[t].wi
       IN
        /\ IF b # None
             THEN /\ freeBlockList' = [freeBlockList EXCEPT ![b] = freeBlockHead]
                  /\ freeBlockHead' = b
             ELSE UNCHANGED <<freeBlockList, freeBlockHead>>
        /\ loc' = [loc EXCEPT ![t].isReady = ReadyBlocks[w]]
        /\ ReadyBlocks' = [ReadyBlocks EXCEPT ![w] = FALSE]
        /\ writeIndex' = IF ReadyBlocks[w] THEN writeIndex ELSE w
    /\ Goto(t, "post")
    /\ UNCHANGED <<threadVars, readEvent, blocksSemaphore, tokenVars,
                   progressRes, finishVars, blocks, outVars, mainVars>>

(* Semaphore_Release1(&blocksSemaphore). *)
Post(t) ==
    /\ pc[t] = "post"
    /\ blocksSemaphore' = Semaphore_ReleaseN(blocksSemaphore, NumBlocksMax, 1)
    /\ Goto(t, IF loc[t].isReady THEN "load"
               ELSE Continue(loc[t].res, loc[t].finished))
    /\ UNCHANGED <<threadVars, readEvent, tokenVars, csVars, progressRes,
                   finishVars, blocks, outVars, loc, mainVars>>

(* Faulty: the error of the block is not looked at. *)
ResultWithBlock_Own(r, b) == r

(* The error of the writing, else that of the block. *)
ResultWithBlock(r, b) == IF r = "ok" THEN b.res ELSE r

(* The writer goes on with blocks[wi]. *)
Load(t) ==
    /\ pc[t] = "load"
    /\ LET b == blocks[loc[t].wi] IN
        loc' = [loc EXCEPT ![t].res = ResultWithBlock(@, b),
                           ![t].bufIndex = b.bufIndex,
                           ![t].finished = b.finished]
    /\ Goto(t, "write")
    /\ UNCHANGED <<threadVars, readEvent, blocksSemaphore, tokenVars, csVars,
                   progressRes, finishVars, blocks, outVars, mainVars>>

(* ThreadFunc2 has returned: InterlockedIncrement(&numFinishedThreads). *)
Count(t) ==
    /\ pc[t] = "count"
    /\ numFinishedThreads' = numFinishedThreads + 1
    /\ loc' = [loc EXCEPT ![t] = [EmptyLocals EXCEPT
                                    !.numFinished = numFinishedThreads + 1]]
    /\ Goto(t, "compare")
    /\ UNCHANGED <<threadVars, readEvent, blocksSemaphore, tokenVars, csVars,
                   progressRes, finishedEvent, blocks, outVars, mainVars>>

(* Faulty: compared with the limit instead of the started threads. *)
IsLastThread_Limit(n) == n = NumThreads
(* Faulty: the first thread to finish speaks for all. *)
IsLastThread_Any(n) == n >= 1

(* numFinished == mtc->numStartedThreads, read without a lock. *)
IsLastThread(n) == n = numStartedThreads

(* The last thread sets finishedEvent; back to Event_Wait(&startEvent). *)
Compare(t) ==
    /\ pc[t] = "compare"
    /\ finishedEvent' = IF IsLastThread(loc[t].numFinished)
                        THEN Event_Set(finishedEvent) ELSE finishedEvent
    /\ loc' = [loc EXCEPT ![t] = EmptyLocals]
    /\ Goto(t, "start")
    /\ UNCHANGED <<threadVars, readEvent, blocksSemaphore, tokenVars, csVars,
                   progressRes, numFinishedThreads, blocks, outVars, mainVars>>

Thread(t) ==
    \/ ThreadStart(t) \/ ReadWait(t) \/ Read(t) \/ ReadErr(t) \/ SemWait(t)
    \/ Decide(t) \/ CreateNext(t) \/ Release(t) \/ Pop(t) \/ Code(t)
    \/ Store(t) \/ Claim(t) \/ Write(t) \/ Return(t) \/ Post(t) \/ Load(t)
    \/ Count(t) \/ Compare(t)

-----------------------------------------------------------------------------
(* The caller's thread: MtCoder_Code, MtCoder_Free.                        *)

(* All threads that exist sleep in Event_Wait(&t->startEvent). *)
Settled == \A t \in Threads : pc[t] \in {"none", "start"} /\ ~startEvent[t]

BlocksInFlight == NumBlocksMax

(* MtCoder_Code: the initialization of a call. *)
CallCode ==
    /\ mpc = "idle" /\ calls < MaxCalls
    /\ SettledReuse => Settled
    /\ calls' = calls + 1
    /\ readRes' = "ok" /\ progressRes' = "ok" /\ writeRes' = "ok"
    /\ finishedEvent' = Event_Reset(finishedEvent)
    /\ readEvent' = Event_Reset(readEvent)
    /\ blocksSemaphore' = BlocksInFlight
    /\ freeBlockList' = InitFreeList /\ freeBlockHead' = 0
    /\ readProcessed' = 0 /\ blockIndex' = 0 /\ stopReading' = FALSE
    /\ writeIndex' = 0 /\ ReadyBlocks' = [s \in Slots |-> FALSE]
    /\ numFinishedThreads' = 0 /\ numStartedThreads' = 0
    /\ written' = <<>> /\ mres' = "ok"
    /\ mpc' = "create"
    /\ UNCHANGED <<threadVars, blocks, outBuf, pc, loc, mi>>

(* The thread for the first block; without it the call fails at once. *)
CreateFirst ==
    /\ mpc = "create"
    /\ numStartedThreads' = 1
    /\ \/ /\ CreateAndStart(0)
          /\ pc' = [pc EXCEPT ![0] = Started(0)]
          /\ mpc' = "go"
          /\ UNCHANGED mres
       \/ /\ CreateCanFail(0)
          /\ mres' = "create"
          /\ mpc' = "idle"
          /\ UNCHANGED <<threadVars, pc>>
    /\ UNCHANGED <<readEvent, blocksSemaphore, stopReading, readRes,
                   readProcessed, blockIndex, csVars, progressRes, finishVars,
                   blocks, outVars, loc, mi, calls>>

(* Event_Set(&readEvent): the token appears. *)
Go ==
    /\ mpc = "go"
    /\ readEvent' = Event_Set(readEvent)
    /\ mpc' = "wait"
    /\ UNCHANGED <<threadVars, blocksSemaphore, tokenVars, csVars, progressRes,
                   finishVars, blocks, outVars, pc, loc, mi, mres, calls>>

(* Event_Wait(&finishedEvent) returns. *)
WaitFinished ==
    /\ mpc = "wait"
    /\ Event_CanWait(finishedEvent)
    /\ finishedEvent' = Event_Wait(FALSE, finishedEvent)
    /\ mpc' = "combine"
    /\ UNCHANGED <<threadVars, readEvent, blocksSemaphore, tokenVars, csVars,
                   progressRes, numFinishedThreads, blocks, outVars, pc, loc,
                   mi, mres, calls>>

(* Faulty: errors of the Code callback are not asked for. *)
FinalResult_NoProgress == IF readRes # "ok" THEN readRes ELSE writeRes

FinalResult ==
    IF readRes # "ok" THEN readRes
    ELSE IF progressRes # "ok" THEN progressRes
    ELSE writeRes

(* The result of MtCoder_Code; after an error the object is emptied. *)
Combine ==
    /\ mpc = "combine"
    /\ mres' = FinalResult
    /\ mpc' = IF FinalResult = "ok" THEN "idle" ELSE "free"
    /\ mi' = 0
    /\ UNCHANGED <<threadVars, readEvent, blocksSemaphore, tokenVars, csVars,
                   progressRes, finishVars, blocks, outVars, pc, loc, calls>>

(* The owner destroys the object: MtCoder_Destruct. *)
Destruct ==
    /\ mpc = "idle" /\ calls > 0
    /\ calls' = MaxCalls + 1
    /\ mpc' = "free" /\ mi' = 0
    /\ UNCHANGED <<threadVars, readEvent, blocksSemaphore, tokenVars, csVars,
                   progressRes, finishVars, blocks, outVars, pc, loc, mres>>

(* MtCoder_Free, MtCoderThread_Destruct(&threads[mi]): ask it to stop ... *)
FreeSignal ==
    /\ mpc = "free" /\ mi < NumThreads
    /\ IF created[mi]
         THEN /\ stop' = [stop EXCEPT ![mi] = TRUE]
              /\ startEvent' = [startEvent EXCEPT ![mi] = TRUE]
              /\ mpc' = "join"
              /\ UNCHANGED mi
         ELSE /\ mi' = mi + 1
              /\ UNCHANGED <<stop, startEvent, mpc>>
    /\ UNCHANGED <<created, readEvent, blocksSemaphore, tokenVars, csVars,
                   progressRes, finishVars, blocks, outVars, pc, loc, mres,
                   calls>>

(* ... and Thread_Wait_Close returns. *)
FreeJoin ==
    /\ mpc = "join"
    /\ pc[mi] = "dead"
    /\ created' = [created EXCEPT ![mi] = FALSE]
    /\ startEvent' = [startEvent EXCEPT ![mi] = FALSE]
    /\ Goto(mi, "none")
    /\ mi' = mi + 1
    /\ mpc' = "free"
    /\ UNCHANGED <<stop, readEvent, blocksSemaphore, tokenVars, csVars,
                   progressRes, finishVars, blocks, outVars, loc, mres, calls>>

(* All threads are gone; the events are closed. *)
FreeEnd ==
    /\ mpc = "free" /\ mi = NumThreads
    /\ readEvent' = FALSE /\ finishedEvent' = FALSE
    /\ mi' = 0
    /\ mpc' = IF calls > MaxCalls THEN "destroyed" ELSE "idle"
    /\ UNCHANGED <<threadVars, blocksSemaphore, tokenVars, csVars, progressRes,
                   numFinishedThreads, blocks, outVars, pc, loc, mres, calls>>

(* After MtCoder_Destruct nothing happens any more. *)
Destroyed == mpc = "destroyed" /\ UNCHANGED vars

Main ==
    \/ CallCode \/ CreateFirst \/ Go \/ WaitFinished \/ Combine
    \/ Destruct \/ FreeSignal \/ FreeJoin \/ FreeEnd

Next == (\E t \in Threads : Thread(t)) \/ Main \/ Destroyed

Spec == Init /\ [][Next]_vars

(* Threads run whenever they can, and so does the caller inside a call;    *)
(* the owner need not call again nor destroy the object.                   *)
Fairness ==
    /\ \A t \in Threads : WF_vars(Thread(t))
    /\ WF_vars(CreateFirst \/ Go \/ WaitFinished \/ Combine \/ FreeSignal
               \/ FreeJoin \/ FreeEnd)

FairSpec == Spec /\ Fairness

-----------------------------------------------------------------------------
Places == {"none", "start", "readWait", "read", "readErr", "semWait", "decide",
           "create", "release", "pop", "code", "store", "claim", "write",
           "return", "post", "load", "count", "compare", "dead"}
MainPlaces == {"idle", "create", "go", "wait", "combine", "free", "join",
               "destroyed"}
Results == {"ok", "read", "code", "write", "create"}
Locals == [bi : Slots, wi : Slots, res : Results, bufIndex : Bufs \cup {None},
           finished : BOOLEAN, isReady : BOOLEAN, block : Nat,
           numFinished : 0..NumThreads]

TypeOK ==
    /\ created \in [Threads -> BOOLEAN]
    /\ stop \in [Threads -> BOOLEAN]
    /\ startEvent \in [Threads -> BOOLEAN]
    /\ readEvent \in BOOLEAN /\ finishedEvent \in BOOLEAN
    /\ stopReading \in BOOLEAN
    /\ blocksSemaphore \in 0..NumBlocksMax
    /\ readRes \in Results /\ progressRes \in Results
    /\ writeRes \in Results /\ mres \in Results
    /\ readProcessed \in Nat
    /\ blockIndex \in Slots
    /\ numStartedThreads \in 0..NumThreads
    /\ numFinishedThreads \in 0..NumThreads
    /\ freeBlockHead \in Bufs \cup {None}
    /\ freeBlockList \in [Bufs -> Bufs \cup {None}]
    /\ ReadyBlocks \in [Slots -> BOOLEAN]
    /\ writeIndex \in Slots \cup {None}
    /\ blocks \in [Slots -> [res : Results, bufIndex : Bufs \cup {None},
                             finished : BOOLEAN]]
    /\ outBuf \in [Bufs -> Nat]
    /\ pc \in [Threads -> Places]
    /\ loc \in [Threads -> Locals]
    /\ mpc \in MainPlaces
    /\ mi \in 0..NumThreads
    /\ calls \in 0..MaxCalls + 1
    /\ written \in Seq(Nat)

HasToken(t) == pc[t] \in {"read", "readErr", "semWait", "decide", "create",
                          "release"}

(* Reading, blockIndex, numStartedThreads and stopReading have no lock of  *)
(* their own: at most one thread holds the readEvent token, and while one  *)
(* does the event is not signaled.                                         *)
OneToken ==
    /\ \A t, u \in Threads : HasToken(t) /\ HasToken(u) => t = u
    /\ (\E t \in Threads : HasToken(t)) => ~readEvent

IsWriter(t) == \/ pc[t] \in {"write", "return", "load"}
               \/ pc[t] = "post" /\ loc[t].isReady

(* The Write callback and writeRes have no lock either: there is never     *)
(* more than one writer, and writeIndex is -1 exactly while there is one,  *)
(* so that the writer cannot miss a block that becomes ready meanwhile.    *)
OneWriter ==
    /\ \A t, u \in Threads : IsWriter(t) /\ IsWriter(u) => t = u
    /\ (writeIndex = None) <=> \E t \in Threads : IsWriter(t)

(* Reading and writing are done by turns, each by one thread at a time.    *)
TurnsExclusive == OneToken /\ OneWriter

(* The slots of the ring between SemWait and Post, as far as their owner   *)
(* still uses blocks[] or ReadyBlocks[] of the slot.                       *)
HasSlot(t) == pc[t] \in {"decide", "create", "release", "pop", "code",
                         "store", "claim"}

SlotsExclusive ==
    \A t \in Threads : HasSlot(t) =>
        /\ ~ReadyBlocks[loc[t].bi]
        /\ \A u \in Threads : HasSlot(u) /\ loc[u].bi = loc[t].bi => u = t
        /\ \A u \in Threads :
              (pc[u] = "load" \/ (pc[u] = "post" /\ loc[u].isReady)) =>
                  loc[u].wi # loc[t].bi

(* The out buffers a thread works on, and those that wait for the writer.  *)
HeldBuf(t) ==
    IF pc[t] \in {"code", "store", "claim", "write", "return"}
    THEN {loc[t].bufIndex} \ {None}
    ELSE IF pc[t] = "load" \/ (pc[t] = "post" /\ loc[t].isReady)
    THEN {blocks[loc[t].wi].bufIndex} \ {None}
    ELSE {}
ReadyBuf(s) == IF ReadyBlocks[s] THEN {blocks[s].bufIndex} \ {None} ELSE {}

(* The free list from its head on: what every set must hold that holds the *)
(* head and, with a buffer, the next one.                                  *)
HoldsList(S) == /\ freeBlockHead \in S \cup {None}
                /\ \A b \in S : freeBlockList[b] \in S \cup {None}
FreeBufs == {b \in Bufs : \A S \in SUBSET Bufs : HoldsList(S) => b \in S}

InCall == mpc \in {"create", "go", "wait", "combine"}

BuffersExclusive ==
    /\ \A t, u \in Threads : HeldBuf(t) \cap HeldBuf(u) # {} => t = u
    /\ \A r, s \in Slots : ReadyBuf(r) \cap ReadyBuf(s) # {} => r = s
    /\ LET held == UNION {HeldBuf(t) : t \in Threads}
           ready == UNION {ReadyBuf(s) : s \in Slots}
       IN  /\ held \cap ready = {}
           /\ InCall => FreeBufs = Bufs \ (held \cup ready)

MemoryBounded ==
    \A t \in Threads : \A b \in HeldBuf(t) : b < NumBlocksMax

(* The semaphore alone keeps the threads apart: a slot of the ring is used *)
(* by one block at a time, so that no thread gets a slot while another one *)
(* fills it, while it waits for the writer, or while the writer has still  *)
(* to look at it.  An out buffer has one owner (the free list, one thread, *)
(* or one block that waits to be written) and none is lost; and although   *)
(* the free list has BLOCKS_MAX entries, only the first numBlocksMax       *)
(* buffers are ever handed to the callback, which allocates them.          *)
ResourcesExclusive == SlotsExclusive /\ BuffersExclusive /\ MemoryBounded

InThreadFunc2(t) == pc[t] \notin {"none", "start", "compare", "dead"}

NobodyLeftBehind ==
    mpc \in {"combine", "idle", "free", "join", "destroyed"} =>
        \A t \in Threads : ~InThreadFunc2(t)

(* MtCoder_Code returns SZ_OK only if every block has been encoded and     *)
(* written (Lzma2Enc.h: "SZ_OK - OK").                                     *)
OkMeansAllWritten ==
    (mpc = "idle" /\ calls > 0 /\ mres = "ok") =>
        written = [i \in 1..NumInput |-> i]

(* MtCoder_Code goes on after Event_Wait(&finishedEvent) only when no      *)
(* thread is left in ThreadFunc2, where it could still use the caller's    *)
(* streams and callbacks; and then SZ_OK means that all is written.        *)
CallComplete == NobodyLeftBehind /\ OkMeansAllWritten

(* Every call of MtCoder_Code returns, whatever fails in it: the token and *)
(* the semaphore never leave all threads waiting for one another.          *)
CodeReturns == (mpc = "create") ~> (mpc \in {"idle", "destroyed"})

(* What MtCoder_Code promises, whichever threads do the work. *)
Job == INSTANCE EncodeJob WITH
           busy   <- InCall,
           failed <- progressRes # "ok",
           result <- mres

(* The engine implements a sequential encoder that writes block after      *)
(* block and says truthfully how that went.                                *)
ImplementsJob == Job!Spec
=============================================================================
