------------------------------ MODULE LzFindMt ------------------------------
(***************************************************************************)
(* The multithreaded match finder of the LZMA encoder (C/LzFindMt.c), with *)
(* the input window it shares (C/LzFind.c).                                *)
(*                                                                         *)
(* Three threads form a pipeline: HASH reads the input into the window and *)
(* looks up hash heads, BT searches its binary trees, LZ, the encoder,     *)
(* consumes the matches.  Two CMtSync objects connect them:                *)
(*   "hash"   worker HASH, user BT      "bt"   worker BT, user LZ          *)
(* A worker fills the blocks of a ring (freeSemaphore, filledSemaphore);   *)
(* the user holds one filled block at a time, and the lock cs with it:     *)
(* when HASH has to move the window it takes both locks, so that nobody    *)
(* looks at the window meanwhile.  A worker is started by canStart, told   *)
(* to pause by stopWriting and confirms with wasStopped; BT passes a stop  *)
(* on to HASH.                                                             *)
(*                                                                         *)
(* Positions are byte counts from the start of the input; their            *)
(* normalization and the hash tables and trees are left out.  A block is   *)
(* its first position, the number of positions it has an entry for, and    *)
(* the number of available bytes it states.                                *)
(***************************************************************************)
EXTENDS Integers, SyncObjects

CONSTANTS
    NumInput,        \* bytes of input
    HashBlockSize,   \* kMtHashBlockSize: a block is 2 numbers + 1 per position
    HashNumBlocks,   \* kMtHashNumBlocks
    BtBlockSize,     \* kMtBtBlockSize
    BtNumBlocks,     \* kMtBtNumBlocks
    NumHashBytes,    \* numHashBytes
    MatchMaxLen,     \* matchMaxLen
    HistorySize,     \* historySize, with the caller's keepAddBufferBefore
    BlockSize,       \* blockSize: the size of the window
    DirectInputs,    \* values of directInput: is the input in memory already
    MaxJobs,         \* inputs encoded with one object
    Faults           \* what may fail: "read", "bt", "create"

(* The least that MatchFinder_Create and GetBlockSize ensure. *)
KeepSizeBefore ==
    HistorySize + HashNumBlocks * HashBlockSize + BtNumBlocks * BtBlockSize + 1
KeepSizeAfter ==
    LET k == MatchMaxLen + HashBlockSize
    IN  IF k < NumHashBytes THEN NumHashBytes ELSE k

ASSUME LzFindMtAssumption ==
    /\ {NumInput, HashNumBlocks, BtNumBlocks, NumHashBytes, MatchMaxLen,
        HistorySize, MaxJobs} \subseteq Nat \ {0}
    /\ HashBlockSize \in Nat /\ HashBlockSize > 2
    /\ BtBlockSize \in Nat /\ BtBlockSize > 4 * MatchMaxLen
    /\ 2 * MatchMaxLen >= NumHashBytes - 1
    /\ BlockSize \in Nat /\ BlockSize > KeepSizeBefore + KeepSizeAfter
    /\ DirectInputs \subseteq BOOLEAN /\ DirectInputs # {}
    /\ Faults \subseteq {"read", "bt", "create"}

Syncs == {"hash", "bt"}
NumBlocks(s) == IF s = "hash" THEN HashNumBlocks ELSE BtNumBlocks

VARIABLES
    \* CMtSync
    created, needStart, stopWriting, exit, canStart, wasStopped,
    freeSemaphore, filledSemaphore,
    cs,                  \* who is in the critical section
    csWasEntered,
    numProcessedBlocks,  \* modulo the number of blocks, as it is used
    blockIndex,          \* the worker's, also modulo
    mf,                  \* CMatchFinder, used by HASH
    hashBuf, btBuf,      \* the blocks
    btData,              \* CMatchFinderMt: the part of BT
    lzData,              \* CMatchFinderMt: the part of LZ
    hash, bt, lz,        \* where the threads are
    jobs

startVars == <<needStart, exit, canStart>>
stopVars == <<stopWriting, wasStopped>>
lockVars == <<cs, csWasEntered>>
ringVars == <<freeSemaphore, filledSemaphore, numProcessedBlocks>>
vars == <<created, startVars, stopVars, ringVars, lockVars, blockIndex, mf,
          hashBuf, btBuf, btData, lzData, hash, bt, lz, jobs>>

EmptyBlock == [first |-> 0, num |-> 0, avail |-> 0, bad |-> FALSE]

(* MatchFinder_Init_4; buffer is an index into the window. *)
InitMf(direct) == [pos |-> 0, streamPos |-> 0, buffer |-> 0, ended |-> FALSE,
                   result |-> "ok", directInput |-> direct]
(* left: entries not yet used of the block in hand. *)
InitBtData == [pos |-> 0, buffer |-> 0, left |-> 0, hashNumAvail |-> 0,
               failure |-> FALSE]
InitLzData == [pos |-> 0, buffer |-> 0, left |-> 0, btNumAvail |-> 0,
               failure |-> FALSE]

(* MatchFinderMt_Construct, with what MtSync_Create will set. *)
Init ==
    /\ created = [s \in Syncs |-> FALSE]
    /\ needStart = [s \in Syncs |-> TRUE]
    /\ stopWriting = [s \in Syncs |-> FALSE]
    /\ exit = [s \in Syncs |-> TRUE]
    /\ canStart = [s \in Syncs |-> FALSE]
    /\ wasStopped = [s \in Syncs |-> FALSE]
    /\ freeSemaphore = [s \in Syncs |-> 0]
    /\ filledSemaphore = [s \in Syncs |-> 0]
    /\ cs = [s \in Syncs |-> "none"]
    /\ csWasEntered = [s \in Syncs |-> FALSE]
    /\ numProcessedBlocks = [s \in Syncs |-> 0]
    /\ blockIndex = [s \in Syncs |-> 0]
    /\ mf = InitMf(FALSE)
    /\ hashBuf = [i \in 0..HashNumBlocks - 1 |-> EmptyBlock]
    /\ btBuf = [i \in 0..BtNumBlocks - 1 |-> EmptyBlock]
    /\ btData = InitBtData /\ lzData = InitLzData
    /\ hash = "none" /\ bt = "none" /\ lz = "none"
    /\ jobs = 0

-----------------------------------------------------------------------------
(* CMtSync, as its user and its worker call it.                            *)

Lock(s, who) ==
    /\ cs[s] = "none"
    /\ cs' = [cs EXCEPT ![s] = who]
    /\ csWasEntered' = [csWasEntered EXCEPT ![s] = TRUE]

Unlock(s) ==
    /\ cs' = [cs EXCEPT ![s] = "none"]
    /\ csWasEntered' = [csWasEntered EXCEPT ![s] = FALSE]

Release(semaphore, s) ==
    [semaphore EXCEPT ![s] = Semaphore_ReleaseN(@, NumBlocks(s), 1)]

(* Faulty: one block more than there is. *)
NextIndex_Long(index, s) == [index EXCEPT ![s] = (@ + 1) % (NumBlocks(s) + 1)]

NextIndex(index, s) == [index EXCEPT ![s] = (@ + 1) % NumBlocks(s)]

(* The block in the user's hand. *)
Block(s) == (numProcessedBlocks[s] + NumBlocks(s) - 1) % NumBlocks(s)

(* MtSync_GetNextBlock up to its wait, when the worker runs: the user      *)
(* gives its block and the lock back ...                                   *)
FreeBlock(s) ==
    /\ ~needStart[s]
    /\ Unlock(s)
    /\ numProcessedBlocks' = NextIndex(numProcessedBlocks, s)
    /\ freeSemaphore' = Release(freeSemaphore, s)
    /\ UNCHANGED <<startVars, stopVars, filledSemaphore>>

(* ... and when it does not: the worker is started. *)
StartWorker(s) ==
    /\ needStart[s]
    /\ numProcessedBlocks' = [numProcessedBlocks EXCEPT ![s] = 1 % NumBlocks(s)]
    /\ needStart' = [needStart EXCEPT ![s] = FALSE]
    /\ stopWriting' = [stopWriting EXCEPT ![s] = FALSE]
    /\ exit' = [exit EXCEPT ![s] = FALSE]
    /\ wasStopped' = [wasStopped EXCEPT ![s] = Event_Reset(@)]
    /\ canStart' = [canStart EXCEPT ![s] = Event_Set(@)]
    /\ UNCHANGED <<freeSemaphore, filledSemaphore, lockVars>>

(* Semaphore_Wait(&filledSemaphore). *)
WaitFilled(s) ==
    /\ Semaphore_CanWait(filledSemaphore[s])
    /\ filledSemaphore' = [filledSemaphore EXCEPT ![s] = Semaphore_Wait(@)]

(* MtSync_StopWriting in three steps: unlock and tell; ...                 *)
StopWriting(s) ==
    /\ IF csWasEntered[s] THEN Unlock(s) ELSE UNCHANGED lockVars
    /\ stopWriting' = [stopWriting EXCEPT ![s] = TRUE]

(* Faulty: nothing is freed, and a worker without free blocks sleeps on.   *)
PostStop_None(s) == freeSemaphore' = freeSemaphore

(* free the block in hand, so that the worker looks at stopWriting; ...    *)
PostStop(s) == freeSemaphore' = Release(freeSemaphore, s)

(* and wait for the confirmation.                                          *)
WaitStopped(s) ==
    /\ Event_CanWait(wasStopped[s])
    /\ wasStopped' = [wasStopped EXCEPT ![s] = Event_Wait(FALSE, @)]
    /\ needStart' = [needStart EXCEPT ![s] = TRUE]

(* Event_Wait(&canStart) returns. *)
WaitStart(s) ==
    /\ Event_CanWait(canStart[s])
    /\ canStart' = [canStart EXCEPT ![s] = Event_Wait(FALSE, @)]

(* Semaphore_Wait(&freeSemaphore). *)
WaitFree(s) ==
    /\ Semaphore_CanWait(freeSemaphore[s])
    /\ freeSemaphore' = [freeSemaphore EXCEPT ![s] = Semaphore_Wait(@)]

-----------------------------------------------------------------------------
(* The input window, in HASH's hands.                                      *)

Avail(m) == m.streamPos - m.pos

(* MatchFinder_NeedMove. *)
NeedMove == /\ ~mf.directInput /\ ~mf.ended /\ mf.result = "ok"
            /\ BlockSize - mf.buffer <= KeepSizeAfter

(* Faulty: only the history of HASH itself is kept. *)
MoveOffset_NoLag == mf.buffer - HistorySize - 1

(* MatchFinder_MoveBlock, but for the rounding of the offset. *)
MoveOffset == mf.buffer - KeepSizeBefore

(* MatchFinder_ReadIfRequired: what mf may be afterwards.  ReadBlock reads *)
(* until there are more than KeepSizeAfter bytes, the window is full, the  *)
(* stream ends (a read of 0 bytes) or fails.                               *)
AfterRead(m) ==
    LET full == m.pos + BlockSize - m.buffer
        enough == m.pos + KeepSizeAfter + 1
        Readable == {n \in m.streamPos..NumInput : n <= full}
        Unfinished == {n \in Readable : n < enough /\ n < full}
    IN
    IF m.ended \/ m.result # "ok" \/ Avail(m) > KeepSizeAfter THEN {m}
    ELSE IF m.directInput
    THEN {[m EXCEPT !.streamPos = NumInput, !.ended = TRUE]}
    ELSE {[m EXCEPT !.streamPos = n] : n \in Readable \ Unfinished}
         \cup {[m EXCEPT !.streamPos = n, !.ended = TRUE] :
                  n \in Unfinished \cap {NumInput}}
         \cup {[m EXCEPT !.streamPos = n, !.result = "read"] :
                  n \in {k \in Unfinished : "read" \in Faults}}

-----------------------------------------------------------------------------
(* HASH: HashThreadFunc.                                                   *)

HashStart ==
    /\ hash = "start"
    /\ WaitStart("hash")
    /\ hash' = IF exit["hash"] THEN "dead" ELSE "loop"
    /\ blockIndex' = [blockIndex EXCEPT !["hash"] = 0]
    /\ UNCHANGED <<created, needStart, exit, stopVars, ringVars, lockVars, mf,
                   hashBuf, btBuf, btData, lzData, bt, lz, jobs>>

(* Both locks, that of LZ first. *)
HashEnterBt ==
    /\ hash = "loop" /\ NeedMove
    /\ cs["bt"] = "none"
    /\ cs' = [cs EXCEPT !["bt"] = "hash"]
    /\ hash' = "enterHash"
    /\ UNCHANGED <<created, startVars, stopVars, ringVars, csWasEntered,
                   blockIndex, mf, hashBuf, btBuf, btData, lzData, bt, lz, jobs>>

HashEnterHash ==
    /\ hash = "enterHash"
    /\ cs["hash"] = "none"
    /\ cs' = [cs EXCEPT !["hash"] = "hash"]
    /\ hash' = "move"
    /\ UNCHANGED <<created, startVars, stopVars, ringVars, csWasEntered,
                   blockIndex, mf, hashBuf, btBuf, btData, lzData, bt, lz, jobs>>

(* The window and the pointers of the others into it are moved. *)
HashMove ==
    /\ hash = "move"
    /\ mf' = [mf EXCEPT !.buffer = @ - MoveOffset]
    /\ btData' = [btData EXCEPT !.buffer = @ - MoveOffset]
    /\ lzData' = [lzData EXCEPT !.buffer = @ - MoveOffset]
    /\ cs' = [s \in Syncs |-> "none"]
    /\ hash' = "loop"
    /\ UNCHANGED <<created, startVars, stopVars, ringVars, csWasEntered,
                   blockIndex, hashBuf, btBuf, bt, lz, jobs>>

(* A free block, or the order to stop. *)
HashWaitFree ==
    /\ hash = "loop" /\ ~NeedMove
    /\ WaitFree("hash")
    /\ IF ~exit["hash"] /\ stopWriting["hash"]
         THEN wasStopped' = [wasStopped EXCEPT !["hash"] = Event_Set(@)]
         ELSE UNCHANGED wasStopped
    /\ hash' = IF exit["hash"] THEN "dead"
               ELSE IF stopWriting["hash"] THEN "start" ELSE "fill"
    /\ UNCHANGED <<created, startVars, stopWriting, filledSemaphore,
                   numProcessedBlocks, lockVars, blockIndex, mf, hashBuf, btBuf,
                   btData, lzData, bt, lz, jobs>>

(* The heads of the next positions.  Near the end of the input there are   *)
(* too few bytes to hash; then HASH moves on over all of them.             *)
HashFill ==
    /\ hash = "fill"
    /\ \E m \in AfterRead(mf) :
        LET ends == Avail(m) < NumHashBytes
            most == Avail(m) - NumHashBytes + 1
            heads == IF ends THEN 0
                     ELSE IF most > HashBlockSize - 2 THEN HashBlockSize - 2
                     ELSE most
            num == IF ends THEN Avail(m) ELSE heads
        IN  /\ hashBuf' = [hashBuf EXCEPT ![blockIndex["hash"]] =
                             [EmptyBlock EXCEPT !.first = m.pos, !.num = heads,
                                                !.avail = Avail(m)]]
            /\ mf' = [m EXCEPT !.pos = @ + num, !.buffer = @ + num]
    /\ blockIndex' = NextIndex(blockIndex, "hash")
    /\ filledSemaphore' = Release(filledSemaphore, "hash")
    /\ hash' = "loop"
    /\ UNCHANGED <<created, startVars, stopVars, freeSemaphore,
                   numProcessedBlocks, lockVars, btBuf, btData, lzData, bt, lz,
                   jobs>>

Hash == HashStart \/ HashEnterBt \/ HashEnterHash \/ HashMove
        \/ HashWaitFree \/ HashFill

-----------------------------------------------------------------------------
(* BT: BtThreadFunc, BtFillBlock, BtGetMatches.                            *)

BtStart ==
    /\ bt = "start"
    /\ WaitStart("bt")
    /\ bt' = IF exit["bt"] THEN "dead" ELSE "loop"
    /\ blockIndex' = [blockIndex EXCEPT !["bt"] = 0]
    /\ UNCHANGED <<created, needStart, exit, stopVars, ringVars, lockVars, mf,
                   hashBuf, btBuf, btData, lzData, hash, lz, jobs>>

BtWaitFree ==
    /\ bt = "loop"
    /\ WaitFree("bt")
    /\ bt' = IF stopWriting["bt"] THEN "stop" ELSE "fill"
    /\ UNCHANGED <<created, startVars, stopVars, filledSemaphore,
                   numProcessedBlocks, lockVars, blockIndex, mf, hashBuf, btBuf,
                   btData, lzData, hash, lz, jobs>>

(* Faulty: a block is begun without the lock. *)
LockBeforeFill_None == UNCHANGED lockVars

(* BtFillBlock takes the lock of the hash block it has in hand. *)
LockBeforeFill == IF needStart["hash"] THEN UNCHANGED lockVars
                  ELSE Lock("hash", "bt")

(* The states a block d is begun with; after a failure it stays bad. *)
BtFill ==
    /\ bt = "fill"
    /\ LockBeforeFill
    /\ btBuf' = [btBuf EXCEPT ![blockIndex["bt"]] =
                   [first |-> btData.pos, num |-> 0,
                    avail |-> btData.hashNumAvail, bad |-> btData.failure]]
    /\ bt' = IF btData.failure THEN "filled" ELSE "get"
    /\ UNCHANGED <<created, startVars, stopVars, ringVars, blockIndex, mf,
                   hashBuf, btData, lzData, hash, lz, jobs>>

BtLimit == BtBlockSize - 2 * MatchMaxLen - 2   \* the most positions in a block

(* BtGetMatches finds the matches of one position, as many as there may    *)
(* be: the block may be full after any position.                           *)
BtMatch ==
    /\ bt = "get" /\ btData.left > 0
    /\ LET i == blockIndex["bt"] IN
        \/ /\ btBuf' = [btBuf EXCEPT ![i].num = @ + 1]
           /\ btData' = [btData EXCEPT !.pos = @ + 1, !.buffer = @ + 1,
                                       !.left = @ - 1, !.hashNumAvail = @ - 1]
           /\ bt' \in {"filled"} \cup
                      (IF btBuf[i].num + 1 < BtLimit THEN {"get"} ELSE {})
        \/ /\ "bt" \in Faults
           /\ btBuf' = [btBuf EXCEPT ![i].bad = TRUE]
           /\ btData' = [btData EXCEPT !.failure = TRUE]
           /\ bt' = "filled"
    /\ UNCHANGED <<created, startVars, stopVars, ringVars, lockVars, blockIndex,
                   mf, hashBuf, lzData, hash, lz, jobs>>

(* MtSync_GetNextBlock(&hashSync), up to its wait. *)
BtNextBlock ==
    /\ bt = "get" /\ btData.left = 0
    /\ FreeBlock("hash") \/ StartWorker("hash")
    /\ bt' = "waitFilled"
    /\ UNCHANGED <<created, filledSemaphore, blockIndex, mf, hashBuf, btBuf,
                   btData, lzData, hash, lz, jobs>>

BtWaitFilled ==
    /\ bt = "waitFilled"
    /\ WaitFilled("hash")
    /\ bt' = "lock"
    /\ UNCHANGED <<created, startVars, stopVars, freeSemaphore,
                   numProcessedBlocks, lockVars, blockIndex, mf, hashBuf, btBuf,
                   btData, lzData, hash, lz, jobs>>

(* Faulty: what was available before the new hash block is not counted. *)
AvailWithBlock_Only(d, h) == h.avail
AvailWithBlock(d, h) == d.num + h.avail

(* The hash block is in hand.  A block with too few available bytes is the *)
(* end of the input: they get entries without matches, but BT's own        *)
(* position stays.                                                         *)
BtTakeBlock ==
    /\ bt = "lock"
    /\ Lock("hash", "bt")
    /\ LET h == hashBuf[Block("hash")]
           i == blockIndex["bt"]
           d == btBuf[i]
           ends == h.avail < NumHashBytes
       IN
        /\ btData' = [btData EXCEPT !.left = h.num,
                        !.hashNumAvail = IF ends THEN 0 ELSE h.avail]
        /\ btBuf' = [btBuf EXCEPT
                       ![i].avail = AvailWithBlock(d, h),
                       ![i].num = IF ends THEN @ + h.avail ELSE @]
        /\ bt' = IF ends THEN "filled" ELSE "get"
    /\ UNCHANGED <<created, startVars, stopVars, ringVars, blockIndex, mf,
                   hashBuf, lzData, hash, lz, jobs>>

(* BtFillBlock unlocks, the block is LZ's. *)
BtFilled ==
    /\ bt = "filled"
    /\ Unlock("hash")
    /\ filledSemaphore' = Release(filledSemaphore, "bt")
    /\ blockIndex' = NextIndex(blockIndex, "bt")
    /\ bt' = IF exit["bt"] THEN "dead" ELSE "loop"
    /\ UNCHANGED <<created, startVars, stopVars, freeSemaphore,
                   numProcessedBlocks, mf, hashBuf, btBuf, btData, lzData, hash,
                   lz, jobs>>

(* Faulty: HASH is left running. *)
BtStop_Alone ==
    /\ bt = "stop"
    /\ wasStopped' = [wasStopped EXCEPT !["bt"] = Event_Set(@)]
    /\ bt' = "start"
    /\ UNCHANGED <<created, startVars, stopWriting, ringVars, lockVars,
                   blockIndex, mf, hashBuf, btBuf, btData, lzData, hash, lz, jobs>>

(* BT is told to stop; so is HASH, if it was ever started. *)
BtStop ==
    /\ bt = "stop"
    /\ \/ /\ needStart["hash"]
          /\ wasStopped' = [wasStopped EXCEPT !["bt"] = Event_Set(@)]
          /\ bt' = "start"
          /\ UNCHANGED <<stopWriting, lockVars>>
       \/ /\ ~needStart["hash"]
          /\ StopWriting("hash")
          /\ bt' = "stopPost"
          /\ UNCHANGED wasStopped
    /\ UNCHANGED <<created, startVars, ringVars, blockIndex, mf, hashBuf, btBuf,
                   btData, lzData, hash, lz, jobs>>

BtStopPost ==
    /\ bt = "stopPost"
    /\ PostStop("hash")
    /\ bt' = "stopWait"
    /\ UNCHANGED <<created, startVars, stopVars, filledSemaphore,
                   numProcessedBlocks, lockVars, blockIndex, mf, hashBuf, btBuf,
                   btData, lzData, hash, lz, jobs>>

(* HASH has stopped, and BT confirms its own stop. *)
BtStopWait ==
    /\ bt = "stopWait"
    /\ Event_CanWait(wasStopped["hash"])
    /\ needStart' = [needStart EXCEPT !["hash"] = TRUE]
    /\ wasStopped' = [wasStopped EXCEPT !["hash"] = Event_Wait(FALSE, @),
                                        !["bt"] = Event_Set(@)]
    /\ bt' = "start"
    /\ UNCHANGED <<created, exit, canStart, stopWriting, ringVars, lockVars,
                   blockIndex, mf, hashBuf, btBuf, btData, lzData, hash, lz, jobs>>

Bt == BtStart \/ BtWaitFree \/ BtFill \/ BtMatch \/ BtNextBlock
      \/ BtWaitFilled \/ BtTakeBlock \/ BtFilled \/ BtStop \/ BtStopPost
      \/ BtStopWait

-----------------------------------------------------------------------------
(* LZ: the encoder's thread and its calls of the match finder.             *)

(* MatchFinderMt_Create: HASH, then BT.  After a failure the object can be *)
(* tried again or destroyed; what has been created stays.                  *)
LzCreate ==
    /\ lz = "none" /\ jobs < MaxJobs
    /\ \E ok \in {Syncs} \cup
               (IF "create" \in Faults THEN {{}, {"hash"}} ELSE {}) :
        /\ created' = [s \in Syncs |-> created[s] \/ s \in ok]
        /\ hash' = IF "hash" \in ok /\ ~created["hash"] THEN "start" ELSE hash
        /\ bt' = IF "bt" \in ok THEN "start" ELSE bt
        /\ lz' = IF ok = Syncs THEN "idle" ELSE "none"
    /\ UNCHANGED <<startVars, stopVars, ringVars, lockVars, blockIndex, mf,
                   hashBuf, btBuf, btData, lzData, jobs>>

(* Faulty: one free block more than there is. *)
FreeAtInit_OneMore == [s \in Syncs |-> NumBlocks(s) + 1]
FreeAtInit == [s \in Syncs |-> NumBlocks(s)]

(* Faulty: blocks of the last input are still counted. *)
FilledAtInit_Kept == filledSemaphore
FilledAtInit == [s \in Syncs |-> 0]

(* MatchFinderMt_InitMt (MtSync_Init accepts it) and MatchFinderMt_Init,   *)
(* with no lock: both workers have to be asleep.                           *)
LzInit ==
    /\ lz = "idle" /\ jobs < MaxJobs
    /\ \A s \in Syncs : needStart[s] /\ ~csWasEntered[s]
    /\ freeSemaphore' = FreeAtInit
    /\ filledSemaphore' = FilledAtInit
    /\ \E direct \in DirectInputs : mf' = InitMf(direct)
    /\ btData' = InitBtData /\ lzData' = InitLzData
    /\ jobs' = jobs + 1
    /\ lz' = "ready"
    /\ UNCHANGED <<created, startVars, stopVars, numProcessedBlocks, lockVars,
                   blockIndex, hashBuf, btBuf, hash, bt>>

(* GetNumAvailableBytes when the block is used up; after a failure it      *)
(* makes up entries without matches.                                       *)
LzNextBlock ==
    /\ lz = "ready" /\ lzData.left = 0 /\ ~lzData.failure
    /\ FreeBlock("bt") \/ StartWorker("bt")
    /\ lz' = "waitFilled"
    /\ UNCHANGED <<created, filledSemaphore, blockIndex, mf, hashBuf, btBuf,
                   btData, lzData, hash, bt, jobs>>

LzAfterFailure ==
    /\ lz = "ready" /\ lzData.left = 0 /\ lzData.failure
    /\ lzData' = [lzData EXCEPT !.left = 1]
    /\ lz' = IF lzData.btNumAvail = 0 THEN "end" ELSE "ready"
    /\ UNCHANGED <<created, startVars, stopVars, ringVars, lockVars, blockIndex,
                   mf, hashBuf, btBuf, btData, hash, bt, jobs>>

LzWaitFilled ==
    /\ lz = "waitFilled"
    /\ WaitFilled("bt")
    /\ lz' = "lock"
    /\ UNCHANGED <<created, startVars, stopVars, freeSemaphore,
                   numProcessedBlocks, lockVars, blockIndex, mf, hashBuf, btBuf,
                   btData, lzData, hash, bt, jobs>>

(* The block is in hand; with nothing available the encoder stops.         *)
LzTakeBlock ==
    /\ lz = "lock"
    /\ Lock("bt", "lz")
    /\ LET d == btBuf[Block("bt")] IN
        /\ lzData' = [lzData EXCEPT !.left = IF d.bad THEN 1 ELSE d.num,
                                    !.btNumAvail = d.avail,
                                    !.failure = d.bad]
        /\ lz' = IF d.avail = 0 THEN "end" ELSE "ready"
    /\ UNCHANGED <<created, startVars, stopVars, ringVars, blockIndex, mf,
                   hashBuf, btBuf, btData, hash, bt, jobs>>

(* GetMatches, or one position of Skip. *)
LzConsume ==
    /\ lz = "ready" /\ lzData.left > 0
    /\ lzData' = [lzData EXCEPT !.pos = @ + 1, !.buffer = @ + 1,
                                !.left = @ - 1, !.btNumAvail = @ - 1]
    /\ lz' = IF lzData.left > 1 /\ lzData.btNumAvail = 1 THEN "end" ELSE "ready"
    /\ UNCHANGED <<created, startVars, stopVars, ringVars, lockVars, blockIndex,
                   mf, hashBuf, btBuf, btData, hash, bt, jobs>>

(* MatchFinderMt_ReleaseStream, at the end or after any error of the       *)
(* encoder.                                                                *)
LzStop ==
    /\ lz \in {"ready", "end"}
    /\ \/ needStart["bt"] /\ lz' = "idle" /\ UNCHANGED <<stopWriting, lockVars>>
       \/ ~needStart["bt"] /\ lz' = "stopPost" /\ StopWriting("bt")
    /\ UNCHANGED <<created, startVars, wasStopped, ringVars, blockIndex, mf,
                   hashBuf, btBuf, btData, lzData, hash, bt, jobs>>

LzStopPost ==
    /\ lz = "stopPost"
    /\ PostStop("bt")
    /\ lz' = "stopWait"
    /\ UNCHANGED <<created, startVars, stopVars, filledSemaphore,
                   numProcessedBlocks, lockVars, blockIndex, mf, hashBuf, btBuf,
                   btData, lzData, hash, bt, jobs>>

LzStopWait ==
    /\ lz = "stopWait"
    /\ WaitStopped("bt")
    /\ lz' = "idle"
    /\ UNCHANGED <<created, exit, canStart, stopWriting, ringVars, lockVars,
                   blockIndex, mf, hashBuf, btBuf, btData, lzData, hash, bt, jobs>>

(* MatchFinderMt_Destruct on stopped workers: MtSync_Destruct(&btSync),    *)
(* then of hashSync.                                                       *)
SendExit(s) ==
    /\ exit' = [exit EXCEPT ![s] = TRUE]
    /\ canStart' = [canStart EXCEPT ![s] = Event_Set(@)]
    /\ UNCHANGED <<created, needStart, stopVars, ringVars, lockVars, blockIndex,
                   mf, hashBuf, btBuf, btData, lzData, hash, bt, jobs>>

LzExitBt ==
    /\ lz \in {"none", "idle"} /\ created["bt"]
    /\ lz' = "joinBt"
    /\ SendExit("bt")

LzExitHash ==
    /\ \/ lz = "joinBt" /\ bt = "dead"
       \/ lz = "none" /\ created["hash"] /\ ~created["bt"]
    /\ lz' = "joinHash"
    /\ SendExit("hash")

LzJoined ==
    /\ lz = "joinHash" /\ hash = "dead"
    /\ lz' = "dead"
    /\ UNCHANGED <<created, startVars, stopVars, ringVars, lockVars, blockIndex,
                   mf, hashBuf, btBuf, btData, lzData, hash, bt, jobs>>

(* After MatchFinderMt_Destruct, or without any thread, nothing happens.   *)
Destroyed ==
    /\ lz = "dead" \/ (lz = "none" /\ ~created["hash"])
    /\ UNCHANGED vars

LzStep == LzNextBlock \/ LzAfterFailure \/ LzWaitFilled \/ LzTakeBlock
          \/ LzConsume \/ LzStopPost \/ LzStopWait
          \/ (lz = "end" /\ LzStop) \/ (lz = "joinBt" /\ LzExitHash) \/ LzJoined

Lz == LzCreate \/ LzInit \/ LzNextBlock \/ LzAfterFailure \/ LzWaitFilled
      \/ LzTakeBlock \/ LzConsume \/ LzStop \/ LzStopPost \/ LzStopWait
      \/ LzExitBt \/ LzExitHash \/ LzJoined

Next == Hash \/ Bt \/ Lz \/ Destroyed

Spec == Init /\ [][Next]_vars

(* The workers always run; the encoder goes on with what it has begun.     *)
Fairness == WF_vars(Hash) /\ WF_vars(Bt) /\ WF_vars(LzStep)

FairSpec == Spec /\ Fairness

-----------------------------------------------------------------------------
TypeOK ==
    /\ \A flag \in {created, needStart, stopWriting, exit, canStart, wasStopped,
                    csWasEntered} : flag \in [Syncs -> BOOLEAN]
    /\ \A s \in Syncs : /\ freeSemaphore[s] \in 0..NumBlocks(s)
                        /\ filledSemaphore[s] \in 0..NumBlocks(s)
                        /\ numProcessedBlocks[s] \in 0..NumBlocks(s) - 1
                        /\ blockIndex[s] \in 0..NumBlocks(s) - 1
    /\ cs \in [Syncs -> {"none", "lz", "bt", "hash"}]
    /\ mf \in [pos : 0..NumInput, streamPos : 0..NumInput,
               buffer : 0..BlockSize + NumInput, ended : BOOLEAN,
               result : {"ok", "read"}, directInput : BOOLEAN]
    /\ hashBuf \in [0..HashNumBlocks - 1 ->
                     [first : Nat, num : Nat, avail : Nat, bad : BOOLEAN]]
    /\ btBuf \in [0..BtNumBlocks - 1 ->
                   [first : Nat, num : Nat, avail : Nat, bad : BOOLEAN]]
    /\ btData \in [pos : Nat, buffer : Int, left : Nat, hashNumAvail : Nat,
                   failure : BOOLEAN]
    /\ lzData \in [pos : Nat, buffer : Int, left : Nat, btNumAvail : Nat,
                   failure : BOOLEAN]
    /\ hash \in {"none", "start", "loop", "enterHash", "move", "fill", "dead"}
    /\ bt \in {"none", "start", "loop", "fill", "get", "waitFilled", "lock",
               "filled", "stop", "stopPost", "stopWait", "dead"}
    /\ lz \in {"none", "idle", "ready", "end", "waitFilled", "lock", "stopPost",
               "stopWait", "joinBt", "joinHash", "dead"}
    /\ jobs \in 0..MaxJobs

(* Who may look at the window or at a block of the other side now. *)
LzHolds == ~needStart["bt"] /\ lz \in {"ready", "end"}
BtHolds == ~needStart["hash"] /\ bt \in {"get", "filled"}

WindowStill == hash = "move" => ~LzHolds /\ ~BtHolds

BlocksExclusive ==
    /\ (LzHolds /\ bt \in {"get", "waitFilled", "lock", "filled"})
          => blockIndex["bt"] # Block("bt")
    /\ (BtHolds /\ hash = "fill") => blockIndex["hash"] # Block("hash")

PostsFit ==
    /\ ((lz = "ready" /\ ~needStart["bt"]) \/ lz = "stopPost")
          => freeSemaphore["bt"] < BtNumBlocks
    /\ ((bt = "get" /\ ~needStart["hash"]) \/ bt = "stopPost")
          => freeSemaphore["hash"] < HashNumBlocks
    /\ bt = "filled" => filledSemaphore["bt"] < BtNumBlocks
    /\ hash = "fill" => filledSemaphore["hash"] < HashNumBlocks

EntriesInStep ==
    /\ (LzHolds /\ lzData.left > 0 /\ ~lzData.failure) =>
          LET d == btBuf[Block("bt")] IN d.first + d.num - lzData.left = lzData.pos
    /\ (BtHolds /\ btData.left > 0 /\ ~btData.failure) =>
          LET h == hashBuf[Block("hash")]
          IN  h.first + h.num - btData.left = btData.pos

WindowStart == mf.pos - mf.buffer
WindowCovers ==
    /\ LzHolds => /\ lzData.buffer = lzData.pos - WindowStart
                  /\ lzData.buffer >= HistorySize \/ WindowStart = 0
                  /\ lzData.pos + lzData.btNumAvail <= mf.streamPos
    /\ (BtHolds /\ btData.left > 0) =>
                  /\ btData.buffer = btData.pos - WindowStart
                  /\ btData.buffer >= HistorySize \/ WindowStart = 0
                  /\ btData.pos + btData.hashNumAvail <= mf.streamPos
    /\ ~mf.directInput => mf.streamPos - WindowStart <= BlockSize

(* HASH moves the window only while neither LZ nor BT looks at it.  Their  *)
(* pointers survive the moves, and what they may look at is in the window: *)
(* history back from their positions, although HASH is ahead of them, and  *)
(* the bytes promised forward.                                             *)
WindowValid == WindowStill /\ WindowCovers

StoppedIsAsleep ==
    lz = "idle" => /\ hash = "start" /\ bt = "start"
                   /\ \A s \in Syncs : /\ needStart[s] /\ ~csWasEntered[s]
                                       /\ cs[s] = "none"
                                       /\ ~canStart[s] /\ ~wasStopped[s]

(* Every position gets its own matches: a worker never writes into the     *)
(* block that its user has in hand, and the entries that LZ and BT have in *)
(* hand belong to their next positions, whatever was stopped and restarted *)
(* before.                                                                 *)
InStep == BlocksExclusive /\ EntriesInStep

(* ReleaseStream and Destruct return only when both workers are asleep,    *)
(* for MatchFinderMt_Init and the destruction of the locks need no lock;   *)
(* every post counts ("check semaphore count !!!" in MtSync_StopWriting):  *)
(* no semaphore is at its limit when it is released; and the window is     *)
(* moved under both locks.                                                 *)
StopsClean == StoppedIsAsleep /\ PostsFit /\ WindowStill

(* The matches promised by the single-threaded interface: see MatchFinder. *)
Finder == INSTANCE MatchFinder WITH
              phase  <- IF lz \in {"ready", "waitFilled", "lock"} THEN "open"
                        ELSE IF lz = "end" THEN "end" ELSE "closed",
              pos    <- lzData.pos,
              avail  <- lzData.btNumAvail,
              failed <- mf.result # "ok" \/ lzData.failure

(* For the encoder the pipeline is a match finder like the one without     *)
(* threads: promised bytes stay promised, and the end of the input is told *)
(* at its end or after an error that CheckErrors finds.                    *)
ImplementsFinder == Finder!Spec

BlockArrives == (lz = "waitFilled") ~> (lz \in {"ready", "end"})
StopReturns == (lz = "stopPost") ~> (lz = "idle")
DestructReturns == (lz \in {"joinBt", "joinHash"}) ~> (lz = "dead")

(* A block the encoder waits for arrives, a stop is confirmed and the      *)
(* threads can be joined, whatever the three of them do meanwhile.         *)
CallsReturn == BlockArrives /\ StopReturns /\ DestructReturns
=============================================================================
