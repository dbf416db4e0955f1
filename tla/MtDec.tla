------------------------------- MODULE MtDec -------------------------------
(***************************************************************************)
(* CMtDec (C/MtDec.c), the multithreading engine of the LZMA2 and XZ       *)
(* decoders, as Lzma2DecMt_Decode (C/Lzma2DecMt.c) uses it: the callbacks  *)
(* Parse, PreCode, Code and Write, and the single-thread decoding that     *)
(* takes over when there is no memory, no thread, or a block too big.      *)
(*                                                                         *)
(* The threads form a ring through which two tokens go round:              *)
(*   canRead   its holder reads and parses one block of the input, hands   *)
(*             the bytes behind it to the next thread in the cross block,  *)
(*             and passes the token on;                                    *)
(*   canWrite  follows it; its holder writes the block it has decoded.     *)
(* A thread that finds a reason to stop keeps the read token ("finish");   *)
(* when the write token reaches it, all threads before it are done, and it *)
(* starts the ring again with thread 0 or ends the call.  Thread 0 is the  *)
(* caller's own thread.                                                    *)
(*                                                                         *)
(* The input is a sequence of units, numbered from 1; a block is its last  *)
(* unit and a kind.  The end mark is the last unit of the last block; the  *)
(* end of any other block shows when the first unit of the next is parsed. *)
(* A link of an input buffer holds up to InBufSize units.  Output counts   *)
(* whole blocks: what is written of a damaged block is left out.  The      *)
(* merging of small blocks and a given output size are not modelled.       *)
(***************************************************************************)
EXTENDS Integers, Sequences, SequencesExt, FiniteSets, SyncObjects

CONSTANTS
    NumThreads,     \* numThreadsMax
    InBufSize,      \* inBufSize, in units
    Inputs,         \* sequences of blocks [end, kind]; a block is
                    \*   "ok", "bad" (does not decode), "junk" (does not
                    \*   parse) or "big" (more than outBlockMax)
    Extra,          \* units that may follow the end mark
    MaxCalls,       \* calls of Lzma2DecMt_Decode on one object
    Faults,         \* what may fail: "read", "write", "progress",
                    \*   "alloc" (a link or the cross block), "create",
                    \*   "mem" (the output buffer), "memST" (what
                    \*   single-thread decoding needs)
    MaxFaults       \* failures in one call

Kinds == {"ok", "bad", "junk", "big"}

(* The last unit of the first b blocks. *)
End(blocks, b) == IF b = 0 THEN 0 ELSE blocks[b].end

ASSUME MtDecAssumption ==
    /\ NumThreads \in Nat \ {0, 1}
    /\ InBufSize \in Nat \ {0}
    /\ \A blocks \in Inputs :
          /\ blocks \in Seq([end : Nat, kind : Kinds])
          /\ blocks # <<>>
          /\ \A b \in 1..Len(blocks) : End(blocks, b - 1) < End(blocks, b)
    /\ Extra \in Nat /\ MaxCalls \in Nat \ {0} /\ MaxFaults \in Nat
    /\ Faults \subseteq
          {"read", "write", "progress", "alloc", "create", "mem", "memST"}

Threads == 0..NumThreads - 1

VARIABLES
    p,     \* the fields of CMtDec and its mtProgress, and the input's position
    th,    \* CMtDecThread, the locals of its MtDec_ThreadFunc2 and its coder
    job    \* the call: its input, its place, what it has written and returned

vars == <<p, th, job>>

-----------------------------------------------------------------------------
(* The input.                                                              *)

BlockEnd(b) == End(job.blocks, b)
BlockStart(b) == BlockEnd(b - 1) + 1
BlockSize(b) == BlockEnd(b) - BlockEnd(b - 1)
LastBlock == Len(job.blocks)
Kind(b) == job.blocks[b].kind

(* The block a unit belongs to; 0 when it belongs to none. *)
BlockOf(unit) ==
    LET ending == {b \in 1..LastBlock : unit <= BlockEnd(b)} IN
    IF unit = 0 \/ ending = {} THEN 0 ELSE CHOOSE b \in ending : b - 1 \notin ending

Units(from, to) == [i \in 1..(to - from + 1) |-> from + i - 1]

(* The blocks that can be decoded from an input that ends at limit. *)
Reach(blocks, limit) ==
    LET whole == {b \in 1..Len(blocks) : End(blocks, b) <= limit}
        good == {b \in whole : \A c \in 1..b : blocks[c].kind \in {"ok", "big"}}
    IN  Cardinality(good)

-----------------------------------------------------------------------------
NoLocals ==
    [blockIndex |-> 0, block |-> 0, state |-> "continue", link |-> 0,
     finish |-> FALSE, needCode |-> FALSE, needWrite |-> FALSE,
     isAllocError |-> FALSE, overflow |-> FALSE, threadingError |-> FALSE,
     res |-> "ok", wasInterrupted |-> FALSE, codeRes |-> "ok", codePos |-> 0,
     nextThread |-> 0, inPrev |-> 0]

Thread_Construct == [pc |-> "none", canRead |-> FALSE, canWrite |-> FALSE,
                     inBuf |-> <<>>, inDataSize_Start |-> 0, inDataSize |-> 0,
                     loc |-> NoLocals]

MtDec_Construct ==
    [blockIndex |-> 1, isAllocError |-> FALSE, overflow |-> FALSE,
     threadingError |-> FALSE, readWasFinished |-> FALSE, readRes |-> "ok",
     interruptIndex |-> 0,       \* 0: needInterrupt = False
     wasInterrupted |-> FALSE, cross |-> <<>>, crossBlock |-> FALSE,
     filledThreadStart |-> 0, numFilledThreads |-> 0, numStartedThreads |-> 0,
     numStartedThreads_Limit |-> NumThreads, exitThread |-> FALSE,
     progressRes |-> "ok", readPos |-> 0, inProcessed |-> 0]

Init ==
    /\ p = MtDec_Construct
    /\ th = [t \in Threads |-> Thread_Construct]
    /\ job = [pc |-> "idle", calls |-> 0, blocks |-> <<>>, limit |-> 0,
              data |-> <<>>, emitted |-> <<>>, res |-> "ok", hit |-> {}, i |-> 0]

CanFail(fault) == fault \in Faults \ job.hit /\ Cardinality(job.hit) < MaxFaults
Failed(fault) == job' = [job EXCEPT !.hit = @ \cup {fault}]

(* What mtProgress.res can be after the progress callback; it is called    *)
(* only while there is no error.                                           *)
AfterProgress ==
    {p.progressRes} \cup IF p.progressRes = "ok" /\ CanFail("progress")
                         THEN {"progress"} ELSE {}
Hits(progressRes) ==
    IF progressRes # p.progressRes THEN job.hit \cup {"progress"} ELSE job.hit

(* Faulty: an error in a later block stops the earlier ones too. *)
Interrupted_All(index) == p.interruptIndex # 0
Interrupted(index) == p.interruptIndex # 0 /\ index > p.interruptIndex

(* MtDec_Interrupt: the earliest block with an error counts. *)
Interrupt(index) ==
    IF p.interruptIndex = 0 \/ index < p.interruptIndex
    THEN index ELSE p.interruptIndex

-----------------------------------------------------------------------------
(* MtDec_ThreadFunc2: reading and parsing, with the read token.            *)

(* Event_Wait(&t->canRead) returns. *)
ReadWait(t) ==
    /\ th[t].pc = "wait" /\ Event_CanWait(th[t].canRead)
    /\ IF p.exitThread
       THEN /\ th' = [th EXCEPT ![t].pc = "ret", ![t].canRead = FALSE]
            /\ UNCHANGED <<p, job>>
       ELSE \E pr \in AfterProgress :
            LET wi == Interrupted(p.blockIndex) IN
            /\ p' = [p EXCEPT !.blockIndex = @ + 1, !.progressRes = pr]
            /\ job' = [job EXCEPT !.hit = Hits(pr)]
            /\ th' = [th EXCEPT ![t] = [th[t] EXCEPT
                        !.pc = IF pr = "ok" /\ ~wi THEN "fill" ELSE "pass",
                        !.canRead = Event_Wait(FALSE, @),
                        !.inDataSize = 0, !.inDataSize_Start = 0,
                        !.inBuf = [k \in 1..Len(@) |-> <<>>],
                        !.loc = [NoLocals EXCEPT
                                   !.blockIndex = p.blockIndex, !.res = pr,
                                   !.wasInterrupted = wi,
                                   !.finish = p.readWasFinished]]]

(* No memory for another link. *)
AllocFails(t) ==
    /\ th[t].pc = "fill"
    /\ th[t].loc.link = Len(th[t].inBuf) /\ CanFail("alloc")
    /\ Failed("alloc")
    /\ th' = [th EXCEPT ![t].pc = "pass", ![t].loc.finish = TRUE,
                        ![t].loc.isAllocError = TRUE]
    /\ UNCHANGED p

PutLink(inBuf, k, data) ==
    IF k > Len(inBuf) THEN Append(inBuf, data) ELSE [inBuf EXCEPT ![k] = data]

(* Lzma2DecMt_MtCallback_Parse, for the block b the data belongs to: the   *)
(* state, and how many units belong to the block.                          *)
Parse(b, data) ==
    LET e == BlockEnd(b)
        ending == b # 0 /\ Contains(data, e)
        state == IF ending /\ Kind(b) = "big" THEN "overflow"
                 ELSE IF ending /\ (Kind(b) = "junk" \/ b = LastBlock) THEN "end"
                 ELSE IF b # 0 /\ Contains(data, e + 1) THEN "new"
                 ELSE "continue"
    IN  [state |-> state,
         srcSize |-> IF state \in {"end", "new"} THEN e - data[1] + 1
                     ELSE Len(data)]

(* One link has been filled with data and is parsed; finish says whether   *)
(* the input ended here.  fromCross: the data comes from the cross block.  *)
ParseLink(t, data, finish, fromCross, q) ==
    LET T == th[t]
        k == T.loc.link + 1
        first == k = 1
        b == IF T.loc.block # 0 THEN T.loc.block
             ELSE IF data = <<>> THEN 0 ELSE BlockOf(data[1])
        parse == Parse(b, data)
        n == parse.srcSize
        done == parse.state # "continue" \/ finish
        partial == n # Len(data)
        rest == SubSeq(data, n + 1, Len(data))
        L == [T.loc EXCEPT !.link = k, !.block = b, !.state = parse.state,
                           !.needWrite = TRUE]
        Keep(link, size, start, loc, pc) ==
            th' = [th EXCEPT ![t] = [T EXCEPT
                     !.pc = pc, !.inBuf = PutLink(@, k, link),
                     !.inDataSize = T.inDataSize + size,
                     !.inDataSize_Start = IF first THEN start ELSE @,
                     !.loc = loc]]
        all == Len(data)
    IN
    \/ /\ parse.state = "overflow"
       /\ Keep(data, all, all,
               [L EXCEPT !.finish = TRUE, !.overflow = TRUE], "pass")
       /\ p' = [q EXCEPT !.cross = <<>>]
       /\ UNCHANGED job
    \/ /\ parse.state # "overflow" /\ ~done
       /\ Keep(data, all, all,
               [L EXCEPT !.finish = finish,
                         !.inPrev = IF fromCross THEN 0 ELSE T.inDataSize + all],
               "fill")
       /\ p' = [q EXCEPT !.cross = <<>>]
       /\ UNCHANGED job
    \/ /\ parse.state # "overflow" /\ done /\ ~partial
       /\ Keep(data, all, all,
               [L EXCEPT !.finish = finish \/ parse.state = "end",
                         !.needCode = TRUE], "pass")
       /\ p' = [q EXCEPT !.cross = <<>>]
       /\ UNCHANGED job
    \/ /\ parse.state = "end" /\ partial       \* the rest is afterEndData
       /\ Keep(IF fromCross THEN SubSeq(data, 1, n) ELSE data, n, n,
               [L EXCEPT !.finish = TRUE, !.needCode = TRUE], "pass")
       /\ p' = IF fromCross THEN [q EXCEPT !.cross = rest] ELSE q
       /\ UNCHANGED job
    \/ /\ parse.state = "new"                  \* the rest goes to the next one
       /\ Keep(IF fromCross THEN SubSeq(data, 1, n) ELSE data, n, n,
               [L EXCEPT !.finish = FALSE, !.needCode = TRUE], "pass")
       /\ p' = [q EXCEPT !.cross = rest, !.crossBlock = TRUE]
       /\ UNCHANGED job
    \/ /\ parse.state = "new" /\ ~fromCross /\ ~p.crossBlock
       /\ CanFail("alloc") /\ Failed("alloc")
       /\ Keep(data, all, all,
               [L EXCEPT !.finish = TRUE, !.needCode = TRUE,
                         !.isAllocError = TRUE], "pass")
       /\ p' = q

(* The first link of a block takes what the thread before has left over. *)
FillFromCross(t) ==
    /\ th[t].pc = "fill" /\ th[t].loc.link = 0 /\ p.cross # <<>>
    /\ ParseLink(t, p.cross, th[t].loc.finish, TRUE, p)

(* Any other link is read, and what has come since the last report is      *)
(* reported.  "we want to decode all data before error": a failed read     *)
(* only ends the input.                                                    *)
Read(t) ==
    /\ th[t].pc = "fill" /\ (th[t].loc.link = 0 => p.cross = <<>>)
    /\ LET left == job.limit - p.readPos
           full == IF left > InBufSize THEN InBufSize ELSE left
           k == th[t].loc.link + 1
           reports == th[t].inDataSize + full > th[t].loc.inPrev
       IN
       \/ \E pr \in (IF reports THEN AfterProgress ELSE {p.progressRes}) :
          LET data == Units(p.readPos + 1, p.readPos + full)
              finish == full # InBufSize
              wi == Interrupted(th[t].loc.blockIndex)
              q == [p EXCEPT !.readPos = @ + full, !.progressRes = pr,
                             !.readWasFinished = @ \/ finish]
          IN
          \/ /\ reports => pr = "ok" /\ ~wi
             /\ ParseLink(t, data, finish, FALSE, q)
          \/ /\ reports /\ (pr # "ok" \/ wi)
             /\ p' = q
             /\ job' = [job EXCEPT !.hit = Hits(pr)]
             /\ th' = [th EXCEPT ![t] = [th[t] EXCEPT
                         !.pc = "pass", !.inBuf = PutLink(@, k, data),
                         !.inDataSize = @ + full,
                         !.inDataSize_Start = IF k = 1 THEN full ELSE @,
                         !.loc = [th[t].loc EXCEPT !.res = pr, !.finish = finish,
                                           !.wasInterrupted = wi]]]
       \/ /\ CanFail("read")       \* with less than a full buffer
          /\ \E got \in 0..full : got < InBufSize /\ job' = [job EXCEPT
                !.hit = @ \cup {"read"}, !.limit = p.readPos + got]
          /\ p' = [p EXCEPT !.readRes = "read", !.readWasFinished = TRUE]
          /\ th' = [th EXCEPT ![t].loc.finish = TRUE,
                              ![t].inBuf = PutLink(@, k, <<>>)]

(* Faulty: the ring is taken to have all the threads it may get. *)
NextIndex_Limit(i, started) == IF i + 1 >= NumThreads THEN 0 ELSE i + 1
NextIndex(i, started) == IF i + 1 >= started THEN 0 ELSE i + 1

(* Lzma2DecMt_MtCallback_PreCode: no data at all, or no memory. *)
PreCode(b) ==
    IF b = 0 THEN {"data"} ELSE {"ok"} \cup IF CanFail("mem") THEN {"mem"} ELSE {}

(* The thread itself afterwards: the read token has been passed on, or it  *)
(* is kept, also because there is no second thread ("alone").              *)
Own(t, codeRes, token, next) ==
    LET L == th[t].loc
        res == IF L.res = "ok" THEN p.progressRes ELSE L.res
        wi == L.wasInterrupted \/ Interrupted(L.blockIndex)
        needCode == L.needCode /\ codeRes = "ok" /\ token # "alone"
    IN  [th[t] EXCEPT
           !.pc = IF res = "ok" /\ needCode THEN "code" ELSE "write",
           !.loc = [L EXCEPT !.res = res, !.wasInterrupted = wi,
                      !.codeRes = codeRes, !.needCode = needCode,
                      !.finish = (token # "passed"),
                      !.threadingError = (token = "alone"),
                      !.nextThread = next, !.link = 0]]

(* Event_Set on an event of a thread; MtDecThread_CreateAndStart.          *)
SetRead(f, next) == [f EXCEPT ![next].canRead = Event_Set(@)]
SetWrite(f, next) == [f EXCEPT ![next].canWrite = Event_Set(@)]
Created(f, n) == [f EXCEPT ![n] = [f[n] EXCEPT !.pc = "wait", !.canWrite = FALSE,
                                               !.canRead = FALSE]]

(* MtDec_GetError_Spec, PreCode, MtDecThread_CreateAndStart for one more   *)
(* thread, and Event_Set(&nextThread->canRead) unless finish.              *)
Pass(t) ==
    /\ th[t].pc = "pass"
    /\ LET L == th[t].loc
           res == IF L.res = "ok" THEN p.progressRes ELSE L.res
           wi == L.wasInterrupted \/ Interrupted(L.blockIndex)
           n == p.numStartedThreads
       IN
       \E codeRes \in IF res = "ok" /\ L.needCode /\ ~wi
                      THEN PreCode(L.block) ELSE {"ok"} :
       LET finish == L.finish \/ codeRes # "ok" \/ res # "ok" \/ wi
           oneMore == ~finish /\ n < p.numStartedThreads_Limit
           Hits2 == IF codeRes = "mem" THEN job.hit \cup {"mem"} ELSE job.hit
           Goes(next) == [th EXCEPT ![t] = Own(t, codeRes, "passed", next)]
       IN
       \/ /\ finish
          /\ th' = [th EXCEPT ![t] = Own(t, codeRes, "kept", 0)]
          /\ job' = [job EXCEPT !.hit = Hits2]
          /\ UNCHANGED p
       \/ /\ oneMore                           \* the next thread is a new one
          /\ p' = [p EXCEPT !.numStartedThreads = n + 1]
          /\ LET next == NextIndex(t, n + 1) IN
             th' = SetRead(Created(Goes(next), n), next)
          /\ UNCHANGED job
       \/ /\ ~finish /\ ~oneMore
          /\ LET next == NextIndex(t, n) IN th' = SetRead(Goes(next), next)
          /\ UNCHANGED <<p, job>>
       \/ /\ oneMore /\ th[n].pc = "none" /\ CanFail("create")
          /\ Failed("create")
          /\ IF n = 1
             THEN /\ th' = [th EXCEPT ![t] = Own(t, codeRes, "alone", 0)]
                  /\ UNCHANGED p
             ELSE /\ p' = [p EXCEPT !.numStartedThreads_Limit = n]
                  /\ LET next == NextIndex(t, n) IN th' = SetRead(Goes(next), next)

-----------------------------------------------------------------------------
(* Decoding, without a token.                                              *)

(* Lzma2DecMt_MtCallback_Code for one link; then the progress is reported. *)
Code(t) ==
    /\ th[t].pc = "code" /\ ~th[t].loc.wasInterrupted
    /\ LET T == th[t]
           L == T.loc
           k == L.link + 1
           rem == T.inDataSize - L.codePos
           inSize == IF k = 1 THEN T.inDataSize_Start
                     ELSE IF rem < InBufSize THEN rem ELSE InBufSize
           data == SubSeq(T.inBuf[k], 1, inSize)
           e == BlockEnd(L.block)
           finished == L.state \in {"new", "end"} /\ Kind(L.block) # "junk"
           fails == \/ Contains(data, e) /\ Kind(L.block) \in {"bad", "junk"}
                    \/ finished /\ Contains(data, e + 1)
           stop == \/ finished /\ Contains(data, e)
                   \/ L.codePos + inSize = T.inDataSize
           Did(pc, M) == [T EXCEPT !.pc = pc, !.loc = [M EXCEPT
                             !.link = k, !.codePos = @ + inSize]]
       IN
       \/ /\ fails
          /\ p' = [p EXCEPT !.interruptIndex = Interrupt(L.blockIndex)]
          /\ th' = [th EXCEPT ![t] = Did("write", [L EXCEPT !.codeRes = "data"])]
          /\ UNCHANGED job
       \/ /\ ~fails /\ stop
          /\ th' = [th EXCEPT ![t] = Did("write", L)]
          /\ UNCHANGED <<p, job>>
       \/ /\ ~fails /\ ~stop
          /\ \E pr \in AfterProgress :
             LET wi == Interrupted(L.blockIndex) IN
             /\ p' = [p EXCEPT !.progressRes = pr]
             /\ job' = [job EXCEPT !.hit = Hits(pr)]
             /\ th' = [th EXCEPT ![t] =
                   Did(IF pr = "ok" /\ ~wi THEN "code" ELSE "write",
                       [L EXCEPT !.res = pr, !.wasInterrupted = wi])]

(* An interruption noticed after the parsing skips PreCode but not Code:   *)
(* the decoder runs unprepared, with either result.                        *)
CodeUnprepared(t) ==
    /\ th[t].pc = "code" /\ th[t].loc.wasInterrupted
    /\ \/ /\ th' = [th EXCEPT ![t].pc = "write"]
          /\ UNCHANGED p
       \/ /\ th' = [th EXCEPT ![t].pc = "write", ![t].loc.codeRes = "data"]
          /\ p' = [p EXCEPT !.interruptIndex = Interrupt(th[t].loc.blockIndex)]
    /\ UNCHANGED job

-----------------------------------------------------------------------------
(* Writing, with the write token.                                          *)

(* Lzma2DecMt_MtCallback_Write: after the end of the data, or where no     *)
(* parsing was possible, there is nothing to go on with.                   *)
NeedContinue(state) == state \notin {"overflow", "end"}

(* Faulty: a block is kept only if something is wrong with it itself. *)
MustKeep_Own(L, res, interrupted) ==
    ~L.needCode \/ res # "ok" \/ L.codeRes # "ok"

(* The input of a block that was not written is kept for MtDec_Read. *)
MustKeep(L, res, interrupted) ==
    \/ ~L.needCode \/ res # "ok" \/ L.codeRes # "ok"
    \/ interrupted \/ p.numFilledThreads # 0

(* Faulty: the ring is started again while it still runs. *)
Restarts_Early(finish, needContinue) == needContinue
(* After the last block of a run the ring starts again with thread 0. *)
Restarts(finish, needContinue) == finish /\ needContinue

(* Faulty: the call ends as soon as a block cannot be written. *)
Ends_Early(finish, needContinue) == ~needContinue
(* Only the thread that kept the read token may end the call. *)
Ends(finish, needContinue) == finish /\ ~needContinue

Write(t) ==
    /\ th[t].pc = "write" /\ Event_CanWait(th[t].canWrite)
    /\ LET T == th[t]
           L == T.loc
           wi == p.wasInterrupted \/ L.wasInterrupted
           fresh == ~p.wasInterrupted
           noMemory == fresh /\ (L.isAllocError \/ L.codeRes = "mem")
           terr == fresh /\ L.threadingError
           overflow == fresh /\ L.overflow
           writable == ~wi /\ ~noMemory /\ ~terr /\ ~overflow
           whole == /\ L.block # 0 /\ L.codeRes = "ok"
                    /\ L.codePos = BlockSize(L.block)
       IN
       \E pr \in (IF L.needCode THEN AfterProgress ELSE {p.progressRes}) :
       LET before == IF L.needCode THEN pr ELSE L.res
           toStream == L.needWrite /\ before = "ok" /\ writable
       IN
       \E res \in IF ~L.needWrite THEN {before}
                  ELSE {"ok"} \cup
                       IF toStream /\ L.codePos # 0 /\ CanFail("write")
                       THEN {"write"} ELSE {} :
       LET needContinue == IF ~L.needWrite THEN ~L.finish
                           ELSE toStream /\ res = "ok" /\ NeedContinue(L.state)
           interrupted == \/ wi \/ terr \/ noMemory \/ overflow
                          \/ L.codeRes # "ok" \/ (L.needWrite /\ res # "ok")
           keep == ~toStream /\ MustKeep(L, res, interrupted)
           counts == keep /\ (T.inDataSize # 0 \/ ~L.finish)
           ends == Ends(L.finish, needContinue)
           own == [T EXCEPT
                     !.pc = IF ends /\ t = 0 THEN "ret" ELSE "wait",
                     !.canWrite = Event_Wait(FALSE, @), !.loc = NoLocals,
                     !.inDataSize = IF counts THEN @ ELSE 0,
                     !.inDataSize_Start = IF counts THEN @ ELSE 0,
                     !.inBuf = IF counts THEN @ ELSE [k \in 1..Len(@) |-> <<>>]]
       IN
       /\ p' = [p EXCEPT
                  !.progressRes = pr,
                  !.wasInterrupted = (p.wasInterrupted \/ terr \/ noMemory
                       \/ overflow \/ L.codeRes # "ok" \/ (L.needWrite /\ res # "ok")),
                  !.isAllocError = @ \/ noMemory,
                  !.threadingError = @ \/ terr,
                  !.overflow = @ \/ overflow,
                  !.inProcessed = IF toStream THEN @ + L.codePos ELSE @,
                  !.interruptIndex =
                      IF L.needWrite /\ (res # "ok" \/ (~needContinue /\ ~L.finish))
                      THEN Interrupt(L.blockIndex) ELSE @,
                  !.filledThreadStart =
                      IF keep /\ p.numFilledThreads = 0 THEN t ELSE @,
                  !.numFilledThreads = IF counts THEN @ + 1 ELSE @,
                  !.exitThread = @ \/ (ends /\ t # 0)]
       /\ job' = [job EXCEPT
                    !.hit = Hits(pr) \cup ({res} \cap {"write"}),
                    !.emitted = IF toStream /\ res = "ok" /\ whole
                                THEN Append(@, L.block) ELSE @]
       /\ LET waits == [th EXCEPT ![t] = own] IN
          th' = IF ends THEN IF t = 0 THEN waits ELSE SetRead(waits, 0)
                ELSE IF Restarts(L.finish, needContinue)
                THEN SetRead(SetWrite(waits, 0), 0)
                ELSE SetWrite(waits, L.nextThread)

Thread(t) ==
    \/ ReadWait(t) \/ AllocFails(t) \/ FillFromCross(t) \/ Read(t) \/ Pass(t)
    \/ Code(t) \/ CodeUnprepared(t) \/ Write(t)

-----------------------------------------------------------------------------
(* The caller: Lzma2DecMt_Decode.                                          *)

(* MtDec_Code prepares a call and starts thread 0. *)
CallCode(blocks, limit) ==
    /\ job.pc = "idle" /\ job.calls < MaxCalls
    /\ job' = [job EXCEPT !.pc = "mt", !.calls = @ + 1, !.blocks = blocks,
                 !.limit = limit, !.data = <<>>, !.emitted = <<>>, !.res = "ok",
                 !.hit = {}, !.i = 0]
    /\ p' = [MtDec_Construct EXCEPT !.numStartedThreads = 1,
                                    !.crossBlock = p.crossBlock]
    /\ th' = [t \in Threads |-> [th[t] EXCEPT
                !.pc = IF t = 0 THEN "wait" ELSE @,
                !.canRead = (t = 0) \/ @, !.canWrite = (t = 0) \/ @,
                !.inDataSize = 0, !.inDataSize_Start = 0,
                !.inBuf = [k \in 1..Len(@) |-> <<>>]]]

Return(res) == [job EXCEPT !.pc = "idle", !.res = res]

GoesOnSingle == p.isAllocError \/ p.threadingError \/ p.overflow

(* Thread 0 has returned: the result, or single-thread decoding. *)
Joined ==
    /\ job.pc = "mt" /\ th[0].pc = "ret"
    /\ th' = [th EXCEPT ![0].pc = "none"]
    /\ job' = IF p.progressRes # "ok" THEN Return(p.progressRes)
              ELSE IF GoesOnSingle THEN [job EXCEPT !.pc = "prepare"]
              ELSE Return(p.readRes)
    /\ UNCHANGED p

(* MtDec_PrepareRead frees every input buffer that holds nothing; then     *)
(* Lzma2Dec_Prepare_ST needs memory of its own.                            *)
PrepareRead ==
    /\ job.pc = "prepare"
    /\ LET start == p.filledThreadStart
           offset(t) == IF t >= start THEN t - start
                        ELSE t + p.numStartedThreads - start
       IN
        th' = [t \in Threads |->
                 IF t > p.numStartedThreads \/ p.numFilledThreads <= offset(t)
                 THEN [th[t] EXCEPT !.inBuf = <<>>] ELSE th[t]]
    /\ p' = [p EXCEPT !.crossBlock = @ /\ p.cross # <<>>]
    /\ \/ job' = [job EXCEPT !.pc = IF p.numFilledThreads # 0 \/ p.cross # <<>>
                                    THEN "mtRead" ELSE "st"]
       \/ /\ CanFail("memST")
          /\ job' = [Return("mem") EXCEPT !.hit = @ \cup {"memST"}]

(* Faulty: the index of the next filled thread does not wrap. *)
NextFilled_NoWrap(t) == t + 1
NextFilled(t) == IF t + 1 = p.numStartedThreads THEN 0 ELSE t + 1

(* MtDec_Read: the next link of the first filled thread ... *)
MtRead ==
    /\ job.pc = "mtRead" /\ p.numFilledThreads # 0
    /\ LET t == p.filledThreadStart
           T == th[t]
           inBuf == IF job.i # 0 THEN Tail(T.inBuf) ELSE T.inBuf
           lim == IF T.inDataSize_Start # 0 THEN T.inDataSize_Start
                  ELSE IF T.inDataSize < InBufSize THEN T.inDataSize
                  ELSE InBufSize
           spent == job.i # 0 /\ T.inDataSize = 0
       IN
        /\ th' = [th EXCEPT ![t] = [T EXCEPT
                    !.inBuf = IF spent THEN <<>> ELSE inBuf,
                    !.inDataSize_Start = 0,
                    !.inDataSize = IF spent THEN 0 ELSE @ - lim]]
        /\ p' = IF ~spent THEN p ELSE
                [p EXCEPT !.numFilledThreads = @ - 1,
                          !.filledThreadStart = NextFilled(@)]
        /\ job' = IF spent THEN [job EXCEPT !.i = 0]
                  ELSE [job EXCEPT !.i = lim,
                                   !.data = @ \o SubSeq(inBuf[1], 1, lim)]

(* ... and at last what is left in the cross block. *)
MtReadCross ==
    /\ job.pc = "mtRead" /\ p.numFilledThreads = 0
    /\ job' = [job EXCEPT !.pc = "st", !.data = @ \o p.cross, !.i = 0]
    /\ p' = [p EXCEPT !.cross = <<>>, !.crossBlock = FALSE]
    /\ UNCHANGED th

NextBlock == IF job.data = <<>> THEN 0 ELSE BlockOf(job.data[1])
HasNextBlock ==
    /\ NextBlock # 0
    /\ LET units == Units(BlockStart(NextBlock), BlockEnd(NextBlock)) IN
       IsPrefix(units, job.data)

AllDecoded == Len(job.emitted) = LastBlock

(* Lzma2Dec_Decode_ST: a block decoded and written, by one thread ... *)
StBlock ==
    /\ job.pc = "st" /\ HasNextBlock
    /\ LET b == NextBlock
           next == [job EXCEPT !.emitted = Append(@, b),
                               !.data = SubSeq(@, BlockSize(b) + 1, Len(@))]
       IN
       \/ /\ Kind(b) \in {"bad", "junk"}
          /\ job' = Return("data")
       \/ /\ Kind(b) \in {"ok", "big"}
          /\ job' = next
    /\ UNCHANGED <<p, th>>

(* ... or a part of a block, whatever comes of the rest of it: the part    *)
(* cannot be written, or the progress callback, asked after any part but   *)
(* the last one of the stream, stops the decoding ...                      *)
StStops ==
    /\ job.pc = "st" /\ ~AllDecoded
    /\ \E fault \in {"write", "progress"} :
          /\ NextBlock # 0 \/ (fault = "progress" /\ job.emitted # <<>>)
          /\ CanFail(fault)
          /\ job' = [Return(fault) EXCEPT !.hit = @ \cup {fault}]
    /\ UNCHANGED <<p, th>>

(* ... or more of the stream read ... *)
StRead ==
    /\ job.pc = "st" /\ ~HasNextBlock /\ ~AllDecoded /\ ~p.readWasFinished
    /\ \/ /\ job' = [job EXCEPT !.data = @ \o Units(p.readPos + 1, job.limit)]
          /\ p' = [p EXCEPT !.readPos = job.limit, !.readWasFinished = TRUE]
       \/ /\ CanFail("read")
          /\ \E end \in p.readPos..job.limit :
              job' = [job EXCEPT !.data = @ \o Units(p.readPos + 1, end),
                                 !.limit = end, !.hit = @ \cup {"read"}]
          /\ p' = [p EXCEPT !.readPos = job'.limit, !.readWasFinished = TRUE,
                            !.readRes = "read"]
    /\ UNCHANGED th

(* ... or the end mark found, or the end of the stream before it. *)
StEnd ==
    /\ job.pc = "st" /\ ~HasNextBlock /\ (AllDecoded \/ p.readWasFinished)
    /\ job' = Return(IF p.readRes # "ok" \/ AllDecoded THEN p.readRes ELSE "eof")
    /\ UNCHANGED <<p, th>>

(* Lzma2DecMt_Destroy, MtDec_Free: exitThread, then thread after thread is *)
(* woken and joined.                                                       *)
Destruct ==
    /\ job.pc = "idle"
    /\ p' = [p EXCEPT !.exitThread = TRUE]
    /\ job' = [job EXCEPT !.pc = "free", !.i = 0]
    /\ UNCHANGED th

CloseThread ==
    /\ job.pc = "free" /\ job.i < NumThreads
    /\ LET u == job.i IN
       \/ /\ th[u].pc \in {"none", "ret"}
          /\ th' = [th EXCEPT ![u] = Thread_Construct]
          /\ job' = [job EXCEPT !.i = u + 1]
       \/ /\ th[u].pc \notin {"none", "ret"}
          /\ ~th[u].canRead
          /\ th' = [th EXCEPT ![u].canWrite = Event_Set(@),
                              ![u].canRead = Event_Set(@)]
          /\ UNCHANGED job
    /\ UNCHANGED p

Destroyed == job.pc = "free" /\ job.i = NumThreads /\ UNCHANGED vars

Caller == \/ Joined \/ PrepareRead \/ MtRead \/ MtReadCross
          \/ StBlock \/ StStops \/ StRead \/ StEnd \/ CloseThread

Next ==
    \/ \E t \in Threads : Thread(t)
    \/ \E blocks \in Inputs : \E limit \in 0..End(blocks, Len(blocks)) + Extra :
          CallCode(blocks, limit)
    \/ Caller \/ Destruct \/ Destroyed

Spec == Init /\ [][Next]_vars

(* Threads run whenever they can; so does the caller, once it has called.  *)
FairSpec == Spec /\ (\A t \in Threads : WF_vars(Thread(t))) /\ WF_vars(Caller)

-----------------------------------------------------------------------------
Results == {"ok", "read", "progress", "write", "data", "eof", "mem"}

TypeOK ==
    /\ \A t \in Threads :
          LET T == th[t] IN
          /\ T.pc \in {"none", "wait", "fill", "pass", "code", "write", "ret"}
          /\ T.canRead \in BOOLEAN /\ T.canWrite \in BOOLEAN
          /\ T.inDataSize_Start \in 0..InBufSize
          /\ T.inDataSize >= T.inDataSize_Start
          /\ T.loc.nextThread \in Threads
          /\ T.loc.block \in 0..LastBlock
    /\ p.numStartedThreads \in 0..NumThreads
    /\ p.numFilledThreads \in 0..p.numStartedThreads
    /\ p.filledThreadStart \in Threads
    /\ Len(p.cross) <= InBufSize
    /\ p.readPos <= job.limit
    /\ job.res \in Results /\ job.hit \subseteq Faults

InMt == job.pc = "mt"
Reading(t) == th[t].pc \in {"fill", "pass"}

(* MtDec.c: "each call of Event_Set(&nextThread->canRead) must be followed *)
(* by call of Event_Set(&nextThread->canWrite)".  While the threads run    *)
(* there is never more than one read token and one write token, so that    *)
(* the cross block, the input stream and the output stream need no lock.   *)
TokensUnique ==
    InMt => /\ Cardinality({t \in Threads : th[t].canRead})
                 + Cardinality({t \in Threads : Reading(t)}) <= 1
            /\ Cardinality({t \in Threads : th[t].canWrite}) <= 1

QuietWhenDone ==
    (job.pc \in {"prepare", "mtRead", "st", "idle"}
        \/ (InMt /\ th[0].pc = "ret")) =>
      \A t \in Threads : /\ th[t].pc \in {"none", "wait", "ret"}
                         /\ ~th[t].canRead /\ ~th[t].canWrite

(* Where parsing, by whomever, comes to its end. *)
ParseEnd ==
    LET stops == {b \in 1..LastBlock : Kind(b) = "junk" \/ b = LastBlock}
    IN  BlockEnd(CHOOSE b \in stops : \A c \in stops : b <= c)

RestComplete ==
    job.pc = "st" =>
        LET first == BlockEnd(Len(job.emitted)) + 1
            last == IF p.readPos < ParseEnd THEN p.readPos ELSE ParseEnd
        IN  IsPrefix(Units(first, last), job.data)

(* When the call goes on without the threads, all of them wait for canRead *)
(* with no event pending ("There are no threads waiting canWrite in normal *)
(* cases"): the next call, or MtDec_Free, finds nothing half done.  And    *)
(* what single-thread decoding gets from MtDec_Read, followed by the rest  *)
(* of the stream, is the input from the first block that was not written:  *)
(* of what the threads have read nothing is lost, repeated or misplaced,   *)
(* except units behind the end of the compressed data.                     *)
HandoverClean == QuietWhenDone /\ RestComplete

Busy == job.pc \notin {"idle", "free"}
Alone == job.pc \in {"prepare", "mtRead", "st"}
Halted == job.hit \cap {"write", "progress", "memST"} # {}

(* What Lzma2DecMt_Decode promises. *)
Job == INSTANCE DecodeJob WITH
           busy       <- Busy,
           reach      <- Reach(job.blocks, job.limit),
           complete   <- Reach(job.blocks, job.limit) = Len(job.blocks),
           readFailed <- "read" \in job.hit,
           alone      <- Alone,
           stopped    <- Halted,
           emitted    <- job.emitted,
           result     <- job.res

(* The engine writes what one thread would write: every block before the   *)
(* first error of the input, whatever the threads find in later blocks or  *)
(* run out of, and it returns an error only if there is a cause.           *)
ImplementsJob == Job!Spec

(* Lzma2DecMt.h:36: "SZ_ERROR_WRITE - ISeqOutStream write callback error": *)
(* a call in which the output stream has failed does not return SZ_OK.     *)
WriteErrorReported ==
    (job.pc = "idle" /\ "write" \in job.hit) => job.res # "ok"

(* Every call returns, and the object can be destroyed. *)
CodeReturns == /\ InMt ~> (job.pc = "idle")
               /\ (job.pc = "free") ~> (job.i = NumThreads)
=============================================================================
