---------------------------- MODULE StreamBinder ----------------------------
(***************************************************************************)
(* CStreamBinder (CPP/7zip/Common/StreamBinder.cpp/.h): the pipe between   *)
(* two coder threads.  The writing coder lends the reading coder a pointer *)
(* into its own buffer and sleeps in Write() until the buffer is consumed  *)
(* or the reader goes away.  Nothing is copied into the binder, so both    *)
(* threads touch _buf, _bufSize and the lent memory with no lock at all:   *)
(* the auto-reset event _canRead_Event and the semaphore                   *)
(* _canWrite_Semaphore are all that keeps them apart.                      *)
(*                                                                         *)
(* Data is abstracted to positions: byte k of the stream is the number k,  *)
(* a buffer is the position _buf it starts at, so "which bytes arrived, in *)
(* which order" is kept and their values are not.                          *)
(***************************************************************************)
EXTENDS Naturals, SyncObjects

CONSTANTS StreamLen,   \* bytes the writing coder has to send in one session
          MaxWrite,    \* largest size argument of Write
          MaxRead      \* largest size argument of Read

ASSUME BinderAssumption ==
    /\ StreamLen \in Nat
    /\ MaxWrite \in Nat \ {0}
    /\ MaxRead \in Nat \ {0}

VARIABLES
    buf,                 \* _buf, as a stream position; NULL is 0
    bufSize,             \* _bufSize
    waitWrite,           \* _waitWrite
    readingWasClosed2,   \* _readingWasClosed2
    ProcessedSize,       \* ProcessedSize
    canRead,             \* _canRead_Event
    canWrite,            \* _canWrite_Semaphore
    rpc, rsize,          \* reader thread: where it is, size argument of Read
    rEof,                \* the last Read returned 0 bytes for a size # 0
    rClosed,             \* ~CBinderInStream has run
    wpc, wsize,          \* writer thread: where it is, size argument of Write
    wPos,                \* sum of the *processedSize its Writes reported
    wRes                 \* result of the last Write: none, ok or cut

binderVars == <<buf, bufSize, waitWrite, readingWasClosed2, ProcessedSize,
                canRead, canWrite>>
readerVars == <<rpc, rsize, rEof, rClosed>>
writerVars == <<wpc, wsize, wPos, wRes>>
vars == <<binderVars, readerVars, writerVars>>

NULL == 0

(* Faulty: no room for the two posts of CloseRead_CallOnce. *)
kSemaphoreMaxCount_Two == 2

(* OptCreateInit(0, 3) in Create_ReInit. *)
kSemaphoreMaxCount == 3

Lesser(a, b) == IF a < b THEN a ELSE b

(* Both streams have just been created and Create_ReInit() has run. *)
Init ==
    /\ buf = NULL /\ bufSize = 0
    /\ waitWrite = TRUE
    /\ readingWasClosed2 = FALSE
    /\ ProcessedSize = 0
    /\ canRead = FALSE
    /\ canWrite = 0
    /\ rpc = "idle" /\ rsize = 0 /\ rEof = FALSE /\ rClosed = FALSE
    /\ wpc = "idle" /\ wsize = 0 /\ wPos = 0 /\ wRes = "none"

-----------------------------------------------------------------------------
(* Reader thread: CStreamBinder::Read and CloseRead_CallOnce.              *)

(* Read(data, size): the call, up to the wait for a lent buffer. *)
ReadCall(size) ==
    /\ rpc = "idle" /\ ~rClosed
    /\ rsize' = size
    /\ rpc' = IF waitWrite THEN "lock" ELSE "copy"
    /\ UNCHANGED <<binderVars, rEof, rClosed, writerVars>>

(* _canRead_Event.Lock() returns. *)
ReadLock ==
    /\ rpc = "lock"
    /\ Event_CanWait(canRead)
    /\ canRead' = Event_Wait(FALSE, canRead)
    /\ waitWrite' = FALSE
    /\ rpc' = "copy"
    /\ UNCHANGED <<buf, bufSize, readingWasClosed2, ProcessedSize, canWrite,
                   rsize, rEof, rClosed, writerVars>>

(* Faulty: size is not limited to _bufSize. *)
ReadCopy_NoClamp ==
    /\ rpc = "copy"
    /\ buf' = buf + rsize
    /\ bufSize' = bufSize - rsize
    /\ ProcessedSize' = ProcessedSize + rsize
    /\ rEof' = FALSE
    /\ waitWrite' = (bufSize = rsize)
    /\ rpc' = IF bufSize = rsize THEN "release" ELSE "idle"
    /\ UNCHANGED <<readingWasClosed2, canRead, canWrite, rsize, rClosed,
                   writerVars>>

(* Faulty: _buf is not advanced. *)
ReadCopy_SameBuf ==
    /\ rpc = "copy"
    /\ LET n == Lesser(rsize, bufSize)
           emptied == n # 0 /\ bufSize = n
       IN
        /\ buf' = buf
        /\ bufSize' = bufSize - n
        /\ ProcessedSize' = ProcessedSize + n
        /\ rEof' = (n = 0)
        /\ waitWrite' = (waitWrite \/ emptied)
        /\ rpc' = IF emptied THEN "release" ELSE "idle"
    /\ UNCHANGED <<readingWasClosed2, canRead, canWrite, rsize, rClosed,
                   writerVars>>

(* Faulty: the writer is woken by any read, the reader goes on reading. *)
ReadCopy_EarlyWake ==
    /\ rpc = "copy"
    /\ LET n == Lesser(rsize, bufSize)
           emptied == n # 0 /\ bufSize = n
       IN
        /\ buf' = IF n = 0 THEN buf ELSE buf + n
        /\ bufSize' = bufSize - n
        /\ ProcessedSize' = ProcessedSize + n
        /\ rEof' = (n = 0)
        /\ waitWrite' = (waitWrite \/ emptied)
        /\ rpc' = IF n # 0 THEN "release" ELSE "idle"
    /\ UNCHANGED <<readingWasClosed2, canRead, canWrite, rsize, rClosed,
                   writerVars>>

(* memcpy out of the writer's buffer and the bookkeeping after it; Read    *)
(* returns here unless it has just emptied the buffer.                     *)
ReadCopy ==
    /\ rpc = "copy"
    /\ LET n == Lesser(rsize, bufSize)
           emptied == n # 0 /\ bufSize = n
       IN
        /\ buf' = IF n = 0 THEN buf ELSE buf + n
        /\ bufSize' = bufSize - n
        /\ ProcessedSize' = ProcessedSize + n
        /\ rEof' = (n = 0)
        /\ waitWrite' = (waitWrite \/ emptied)
        /\ rpc' = IF emptied THEN "release" ELSE "idle"
    /\ UNCHANGED <<readingWasClosed2, canRead, canWrite, rsize, rClosed,
                   writerVars>>

(* Faulty: posts twice. *)
ReadRelease_Two ==
    /\ rpc = "release"
    /\ canWrite' = Semaphore_ReleaseN(canWrite, kSemaphoreMaxCount, 2)
    /\ rpc' = "idle"
    /\ UNCHANGED <<buf, bufSize, waitWrite, readingWasClosed2, ProcessedSize,
                   canRead, rsize, rEof, rClosed, writerVars>>

(* _canWrite_Semaphore.Release(); Read returns. *)
ReadRelease ==
    /\ rpc = "release"
    /\ canWrite' = Semaphore_ReleaseN(canWrite, kSemaphoreMaxCount, 1)
    /\ rpc' = "idle"
    /\ UNCHANGED <<buf, bufSize, waitWrite, readingWasClosed2, ProcessedSize,
                   canRead, rsize, rEof, rClosed, writerVars>>

(* The reading coder releases its stream (~CBinderInStream): one post wakes *)
(* a Write that was partly read, the other one stops the next Write.        *)
CloseRead_CallOnce ==
    /\ rpc = "idle" /\ ~rClosed
    /\ canWrite' = Semaphore_ReleaseN(canWrite, kSemaphoreMaxCount, 2)
    /\ rClosed' = TRUE
    /\ UNCHANGED <<buf, bufSize, waitWrite, readingWasClosed2, ProcessedSize,
                   canRead, rpc, rsize, rEof, writerVars>>

-----------------------------------------------------------------------------
(* Writer thread: CStreamBinder::Write and CloseWrite.                     *)

(* Write(data, size), size # 0, reading not yet known to be closed. *)
WriteCall(size) ==
    /\ wpc = "idle"
    /\ ~readingWasClosed2
    /\ wPos + size <= StreamLen
    /\ wsize' = size
    /\ wpc' = "store"
    /\ UNCHANGED <<binderVars, readerVars, wPos, wRes>>

(* Write(data, size) again after reading was found closed. *)
WriteCallCut(size) ==
    /\ wpc = "idle"
    /\ readingWasClosed2
    /\ wPos + size <= StreamLen
    /\ wsize' = size
    /\ wRes' = "cut"
    /\ UNCHANGED <<binderVars, readerVars, wpc, wPos>>

(* _buf = data; _bufSize = size. *)
WriteStore ==
    /\ wpc = "store"
    /\ buf' = wPos
    /\ bufSize' = wsize
    /\ wpc' = "set"
    /\ UNCHANGED <<waitWrite, readingWasClosed2, ProcessedSize, canRead,
                   canWrite, readerVars, wsize, wPos, wRes>>

(* _canRead_Event.Set(). *)
WriteSet ==
    /\ wpc = "set"
    /\ canRead' = Event_Set(canRead)
    /\ wpc' = "lock"
    /\ UNCHANGED <<buf, bufSize, waitWrite, readingWasClosed2, ProcessedSize,
                   canWrite, readerVars, wsize, wPos, wRes>>

(* _canWrite_Semaphore.Lock() returns. *)
WriteLock ==
    /\ wpc = "lock"
    /\ Semaphore_CanWait(canWrite)
    /\ canWrite' = Semaphore_Wait(canWrite)
    /\ wpc' = "finish"
    /\ UNCHANGED <<buf, bufSize, waitWrite, readingWasClosed2, ProcessedSize,
                   canRead, readerVars, wsize, wPos, wRes>>

(* Faulty: a buffer that was read in part counts as cut at once. *)
WriteFinish_CutPartial ==
    /\ wpc = "finish"
    /\ wPos' = wPos + (wsize - bufSize)
    /\ wRes' = IF bufSize = 0 THEN "ok" ELSE "cut"
    /\ readingWasClosed2' = (bufSize # 0)
    /\ wpc' = "idle"
    /\ UNCHANGED <<buf, bufSize, waitWrite, ProcessedSize, canRead, canWrite,
                   readerVars, wsize>>

(* size -= _bufSize: what was read is reported; if that is nothing, the    *)
(* wake-up came from CloseRead_CallOnce and writing is cut.                *)
WriteFinish ==
    /\ wpc = "finish"
    /\ LET done == wsize - bufSize IN
        /\ wPos' = wPos + done
        /\ wRes' = IF done # 0 THEN "ok" ELSE "cut"
        /\ readingWasClosed2' = (done = 0)
    /\ wpc' = "idle"
    /\ UNCHANGED <<buf, bufSize, waitWrite, ProcessedSize, canRead, canWrite,
                   readerVars, wsize>>

(* CloseWrite (~CBinderOutStream): _buf = NULL; _bufSize = 0 ... *)
CloseWriteStore ==
    /\ wpc = "idle"
    /\ buf' = NULL
    /\ bufSize' = 0
    /\ wpc' = "closing"
    /\ UNCHANGED <<waitWrite, readingWasClosed2, ProcessedSize, canRead,
                   canWrite, readerVars, wsize, wPos, wRes>>

(* Faulty: no event at the end of the stream. *)
CloseWriteSet_Forgotten ==
    /\ wpc = "closing"
    /\ wpc' = "closed"
    /\ UNCHANGED <<binderVars, readerVars, wsize, wPos, wRes>>

(* ... and _canRead_Event.Set(), which the reader takes as end of stream. *)
CloseWriteSet ==
    /\ wpc = "closing"
    /\ canRead' = Event_Set(canRead)
    /\ wpc' = "closed"
    /\ UNCHANGED <<buf, bufSize, waitWrite, readingWasClosed2, ProcessedSize,
                   canWrite, readerVars, wsize, wPos, wRes>>

-----------------------------------------------------------------------------
(* Create_ReInit() between two sessions: CMixerMT::Code has waited for all *)
(* coder threads, so both streams are released.                            *)

Create_ReInit ==
    /\ rClosed /\ wpc = "closed"
    /\ buf' = NULL /\ bufSize' = 0
    /\ waitWrite' = TRUE
    /\ readingWasClosed2' = FALSE
    /\ ProcessedSize' = 0
    /\ canRead' = Event_Reset(canRead)
    /\ canWrite' = 0
    /\ rpc' = "idle" /\ rsize' = 0 /\ rEof' = FALSE /\ rClosed' = FALSE
    /\ wpc' = "idle" /\ wsize' = 0 /\ wPos' = 0 /\ wRes' = "none"

Reader ==
    \/ \E size \in 1..MaxRead : ReadCall(size)
    \/ ReadLock \/ ReadCopy \/ ReadRelease
    \/ CloseRead_CallOnce

Writer ==
    \/ \E size \in 1..MaxWrite : WriteCall(size) \/ WriteCallCut(size)
    \/ WriteStore \/ WriteSet \/ WriteLock \/ WriteFinish
    \/ CloseWriteStore \/ CloseWriteSet

Next == Reader \/ Writer \/ Create_ReInit

Spec == Init /\ [][Next]_vars

(***************************************************************************)
(* A thread inside a call goes on when it can.  A coder is free to call    *)
(* Read or Write or not, but its Code() ends some day and CReleaser then   *)
(* drops its streams: a coder that is outside a call again and again does  *)
(* close its end (strong fairness; the closing is enabled only there).     *)
(***************************************************************************)
Fairness ==
    /\ WF_vars(ReadLock) /\ WF_vars(ReadCopy) /\ WF_vars(ReadRelease)
    /\ WF_vars(WriteStore) /\ WF_vars(WriteSet) /\ WF_vars(WriteLock)
    /\ WF_vars(WriteFinish) /\ WF_vars(CloseWriteSet)
    /\ SF_vars(CloseRead_CallOnce) /\ SF_vars(CloseWriteStore)

FairSpec == Spec /\ Fairness

-----------------------------------------------------------------------------
FlagsOK ==
    /\ waitWrite \in BOOLEAN
    /\ readingWasClosed2 \in BOOLEAN
    /\ canRead \in BOOLEAN
    /\ rEof \in BOOLEAN
    /\ rClosed \in BOOLEAN

CountersOK ==
    /\ buf \in 0..StreamLen
    /\ bufSize \in 0..MaxWrite
    /\ ProcessedSize \in 0..StreamLen
    /\ canWrite \in 0..kSemaphoreMaxCount
    /\ rsize \in 0..MaxRead
    /\ wsize \in 0..MaxWrite
    /\ wPos \in 0..StreamLen

PlacesOK ==
    /\ rpc \in {"idle", "lock", "copy", "release"}
    /\ wpc \in {"idle", "store", "set", "lock", "finish", "closing", "closed"}
    /\ wRes \in {"none", "ok", "cut"}

(* Types of all variables; also the counters stay within the stream, the   *)
(* caller's sizes and the semaphore's maximum.                             *)
TypeOK == FlagsOK /\ CountersOK /\ PlacesOK

(* While Read copies out of the lent buffer, Write is asleep in its        *)
(* semaphore (or the writer has gone): the unlocked _buf, _bufSize and the *)
(* memory behind them are never used by both threads at once.              *)
LentBufferStable == rpc = "copy" => wpc \in {"lock", "closed"}

(* The bytes Read is about to copy are the ones that follow what it copied *)
(* before: each byte of the stream is delivered once and in order.         *)
ReadsInOrder == (rpc = "copy" /\ bufSize > 0) => buf = ProcessedSize

(* Between two Writes the writing coder has been told exactly how much the *)
(* other coder read, also when reading stopped in the middle of a buffer.  *)
ReportedIsRead ==
    wpc \in {"idle", "store", "closing", "closed"} => wPos = ProcessedSize

CutOnlyAfterLastData ==
    wRes = "cut" => rClosed /\ ProcessedSize = wPos

EofOnlyAtEnd ==
    rEof => wpc = "closed" /\ ProcessedSize = wPos

(* StreamBinder.h: "writer thread always will detect closing of reading in *)
(* latest iteration after all data processing iterations".  Write answers  *)
(* k_My_HRESULT_WritingWasCut only when the reader has gone and everything *)
(* it read has been reported by earlier Writes.  StreamBinder.cpp:         *)
(* "(_canRead_Event && _bufSize == 0) means that stream is finished": Read *)
(* answers 0 bytes only when the writer has closed and all that was        *)
(* written has been read.                                                  *)
TruthfulEnds == CutOnlyAfterLastData /\ EofOnlyAtEnd

(* The results of Release() are ignored, so a refused post would be lost:  *)
(* every post a reader can make next still fits under the maximum count.   *)
PostsFit ==
    /\ rpc = "release" => canWrite + 1 <= kSemaphoreMaxCount
    /\ (rpc = "idle" /\ ~rClosed) => canWrite + 2 <= kSemaphoreMaxCount

WriteReturns == (wpc = "lock") ~> (wpc = "idle")

ReadReturns == (rpc = "lock") ~> (rpc = "idle")

(* A Write that sleeps returns, whether the reader reads on or goes away;  *)
(* so does a Read, whether the writer writes on or goes away.              *)
CallsReturn == WriteReturns /\ ReadReturns

(* What the binder promises, without its buffer, event and semaphore.      *)
Pipe == INSTANCE BytePipe WITH
            taken  <- ProcessedSize,
            acked  <- wPos,
            asked  <- IF wpc \in {"store", "set", "lock", "finish"}
                      THEN wsize ELSE 0,
            cut    <- wRes = "cut",
            eof    <- rEof,
            rOpen  <- ~rClosed,
            wOpen  <- wpc \notin {"closing", "closed"}

(* The binder implements the abstract byte pipe: every step of the two     *)
(* threads is a step of the pipe or leaves the pipe as it is.              *)
ImplementsPipe == Pipe!Spec
=============================================================================
