----------------------------- MODULE ZipUpdate -----------------------------
(***************************************************************************)
(* The multithreaded part of Update2 (Archive/Zip/ZipUpdate.cpp): several  *)
(* files are compressed at a time, each by a thread of its own, and the    *)
(* archive gets them in order.  A thread writes to its COutMemStream       *)
(* (Common/OutMemStream.cpp), which keeps the data in blocks of a shared   *)
(* pool (Common/MemBlocks.cpp) until the main thread reaches that file and *)
(* sends it to the real stream.  A thread that finishes early hands its    *)
(* blocks over to the main thread (refs) and starts another file.          *)
(*                                                                         *)
(* An update item is something the main thread writes by itself ("old":    *)
(* kept from the old archive; "dir"), a file, or a file the callback gives *)
(* no stream for ("skip").  A file has a size and the packed sizes of the  *)
(* passes CAddCommon::Compress makes over it: when a method does not make  *)
(* it smaller, the data is written once more with the next method, from    *)
(* the start of the stream.  Sizes are in units; a unit of packed data is  *)
(* <<item, pass, number>>, a header or a copied item is one unit.          *)
(*                                                                         *)
(* The output stream below COutArchive is a file: CacheStream shows what   *)
(* lies between.  Headers with Zip64 or AES fields, the descriptor that    *)
(* ZipCrypto asks for on its own, and Update2St are not modelled.          *)
(***************************************************************************)
EXTENDS Integers, Sequences, SequencesExt, FiniteSets, FiniteSetsExt, SyncObjects

CONSTANTS
    NumThreads,     \* numThreads
    BlockCounts,    \* blocks AllocateSpaceAlways may get, 0 included
    BlockSize,      \* kBlockSize, in units
    Updates,        \* sequences of update items
    OutSeqModes,    \* outSeqMode: the output cannot be rewritten
    SizeModulus,    \* 2^64, the width of the progress counters
    Faults,         \* what may fail: "stream" (GetStream), "code" (a coder),
                    \*   "cancel" (a callback), "write", "create" (a thread)
    MaxFaults

Kinds == {"old", "dir", "file", "skip"}

ASSUME ZipAssumption ==
    /\ NumThreads \in Nat \ {0} /\ BlockSize \in Nat \ {0}
    /\ BlockCounts \subseteq Nat /\ OutSeqModes \subseteq BOOLEAN
    /\ SizeModulus \in Nat \ {0} /\ MaxFaults \in Nat
    /\ Faults \subseteq {"stream", "code", "cancel", "write", "create"}
    /\ \A items \in Updates :
          /\ items \in Seq([kind : Kinds, size : Nat, passes : Seq(Nat)])
          /\ \A i \in DOMAIN items : items[i].kind = "file" =>
                /\ items[i].passes # <<>>
                /\ \A p \in 1..Len(items[i].passes) - 1 :
                      items[i].passes[p] >= items[i].size

Threads == 0..NumThreads - 1

VARIABLES
    m,       \* the locals of Update2: the main thread
    th,      \* CThreadInfo and the place in WaitAndCode
    out,     \* OutStreamSpec of each thread: COutMemStream
    pool,    \* memManager: blocks in the free list, and its semaphore
    refs,    \* refs.Refs: what is kept for each item
    mtSem,   \* CMtSem: the semaphore and the list of finished threads
    arc,     \* COutArchive and the file below it
    prog,    \* CMtCompressProgressMixer
    hit      \* failures so far

vars == <<m, th, out, pool, refs, mtSem, arc, prog, hit>>

Items == m.updates
NumItems == Len(Items)
Item(i) == Items[i]

CanFail(fault) == fault \in Faults \ hit /\ Cardinality(hit) < MaxFaults
Fail(fault) == hit' = hit \cup {fault}

-----------------------------------------------------------------------------
(* COutArchive, and the stream it writes to: a file with a position, which *)
(* keeps the first error (CCacheOutStream::_hres).                         *)

Put(data, pos, units) ==
    SubSeq(data, 1, pos) \o units \o SubSeq(data, pos + Len(units) + 1, Len(data))

Written(a, units) ==
    [a EXCEPT !.data = Put(@, a.pos, units), !.pos = @ + Len(units)]

(* The outcomes of a write: it may fail now, and does once it has failed. *)
WriteFails == IF arc.failed THEN {TRUE}
              ELSE IF CanFail("write") THEN BOOLEAN ELSE {FALSE}
WriteHits(fails) == hit' = IF fails THEN hit \cup {"write"} ELSE hit

Header(i, state) == <<i, state>>

(* m_CurPos moves with what COutArchive writes itself; MoveCurPos and      *)
(* WriteLocalHeader_Replace account for what went around it.               *)
WriteLocalHeader(a, i, state) ==
    [Written(a, <<Header(i, state)>>) EXCEPT !.headerPos = a.curPos,
                                             !.curPos = @ + 1]

WriteLocalHeader_Replace(a, i, descriptor, packSize) ==
    LET next == a.headerPos + 1 + packSize IN
    IF descriptor
    THEN [Written(a, <<<<i, "descriptor">>>>) EXCEPT !.curPos = next + 1]
    ELSE [a EXCEPT !.data = Put(@, a.headerPos, <<Header(i, "final")>>),
                   !.pos = next, !.curPos = next]

-----------------------------------------------------------------------------
(* CMemBlockManagerMt and COutMemStream.                                   *)

(* Faulty: without the lockMode argument. *)
FreeBlocks_NoRelease(q, n) == [q EXCEPT !.free = @ + n]
(* FreeBlock puts the block back before it releases the semaphore: between *)
(* the two nobody can miss the block, so n blocks are freed in one step.   *)
FreeBlocks(q, n) ==
    [q EXCEPT !.free = @ + n,
              !.sem = Semaphore_ReleaseN(@, IF q.total = 0 THEN 1 ELSE q.total, n)]

Room(o) == o.blocks * BlockSize

(* Free: the blocks go, TotalSize = 0; their old content means nothing.    *)
(* Faulty: the size stays.                                                 *)
Freed_KeepTotal(o) == [o EXCEPT !.blocks = 0, !.data = <<>>]
Freed(o) == [o EXCEPT !.blocks = 0, !.data = <<>>, !.total = 0]

COutMemStream == [pos |-> 0, blocks |-> 0, data |-> <<>>, total |-> 0,
                  realMode |-> FALSE, unlockSent |-> FALSE,
                  stopEvent |-> FALSE, realEvent |-> FALSE, base |-> 0]

(* Faulty: an event that the last file did not need stays set. *)
InitStream_KeepEvent(o) ==
    [Freed(o) EXCEPT !.unlockSent = FALSE, !.realMode = FALSE, !.pos = 0]
InitStream(o) ==
    [Freed(o) EXCEPT !.realEvent = Event_Reset(@), !.unlockSent = FALSE,
                     !.realMode = FALSE, !.pos = 0]

Content(o) == SubSeq(o.data, 1, o.total)
BlocksFor(size) == (size + BlockSize - 1) \div BlockSize

(* Faulty: the thread learns of its stream but is not woken. *)
SetRealStreamMode_Quiet(o, offset) == [o EXCEPT !.base = offset, !.unlockSent = TRUE]
SetRealStreamMode(o, offset) ==
    [o EXCEPT !.base = offset, !.unlockSent = TRUE, !.realEvent = Event_Set(@)]

-----------------------------------------------------------------------------
(* CMtCompressProgressMixer: totals are sums of differences, modulo 2^64.  *)

SetRatioInfo(t, inSize) ==
    prog' = [prog EXCEPT
               !.total = (@ + inSize - prog.inSizes[t]) % SizeModulus,
               !.inSizes[t] = inSize]

(* Faulty: the next file starts from the size of the last one. *)
Reinit_Kept(t) == prog' = prog
Reinit(t) == prog' = [prog EXCEPT !.inSizes[t] = 0]

-----------------------------------------------------------------------------
CThreadInfo == [pc |-> "none", isFree |-> TRUE, exitThread |-> FALSE,
                compressEvent |-> FALSE, item |-> 0, res |-> "ok",
                pass |-> 1, n |-> 0, packSize |-> 0]

CMemBlocks2 == [skip |-> FALSE, finished |-> FALSE, blocks |-> 0,
                data |-> <<>>, packSize |-> 0]

Init ==
    /\ \E items \in Updates, outSeqMode \in OutSeqModes :
        /\ m = [pc |-> "setup", updates |-> items, outSeqMode |-> outSeqMode,
                itemIndex |-> 1, mtItemIndex |-> 1, lastReal |-> 0,
                threadIndices |-> <<>>, res |-> "ok", closing |-> 0]
        /\ refs = [i \in 1..Len(items) |-> CMemBlocks2]
    /\ \E blocks \in BlockCounts :
          pool = [total |-> blocks, free |-> blocks, sem |-> blocks]
    /\ th = [t \in Threads |-> CThreadInfo]
    /\ out = [t \in Threads |-> COutMemStream]
    /\ mtSem = [count |-> 0, list |-> <<>>]
    /\ arc = [data |-> <<>>, pos |-> 0, curPos |-> 0, headerPos |-> 0,
              failed |-> FALSE]
    /\ prog = [total |-> 0, inSizes |-> [t \in Threads |-> 0]]
    /\ hit = {}

-----------------------------------------------------------------------------
(* CThreadInfo::WaitAndCode, with the parts of CAddCommon::Compress and    *)
(* COutMemStream that other threads can notice.                            *)

Size(t) == Item(th[t].item).passes[th[t].pass]

(* Passes over the data: one when the output cannot go back. *)
NumPasses(t) == IF m.outSeqMode THEN 1 ELSE Len(Item(th[t].item).passes)

Coding(t) == th[t].pc = "code" /\ th[t].n < Size(t)
Unit(t) == <<th[t].item, th[t].pass, th[t].n + 1>>

(* A unit has been written; the coder reports how far it has read. *)
Advance(t) ==
    /\ th' = [th EXCEPT ![t].n = @ + 1, ![t].pc = "code"]
    /\ SetRatioInfo(t, Min({th[t].n + 1, Item(th[t].item).size}))

Finished(t, res) ==
    th' = [th EXCEPT ![t].pc = "push", ![t].res = res]

(* CompressEvent.Lock() returns. *)
Wake(t) ==
    /\ th[t].pc = "wait" /\ Event_CanWait(th[t].compressEvent)
    /\ th' = [th EXCEPT ![t] = [@ EXCEPT
                 !.compressEvent = Event_Wait(FALSE, @),
                 !.pc = IF th[t].exitThread THEN "exit" ELSE "code",
                 !.pass = 1, !.n = 0]]
    /\ UNCHANGED <<m, out, pool, refs, mtSem, arc, prog, hit>>

(* Write into a block the stream has. *)
WriteMem(t) ==
    LET o == out[t] IN
    /\ Coding(t) /\ ~o.realMode /\ o.pos < Room(o)
    /\ out' = [out EXCEPT ![t].data = Put(@, o.pos, <<Unit(t)>>),
                          ![t].pos = @ + 1,
                          ![t].total = Max({@, o.pos + 1})]
    /\ Advance(t)
    /\ UNCHANGED <<m, pool, refs, mtSem, arc, hit>>

(* WaitForMultiObj_Any_Infinite: the first object that is signaled. *)
NeedsBlock(t) == Coding(t) /\ ~out[t].realMode /\ out[t].pos = Room(out[t])

WaitStop(t) ==
    /\ NeedsBlock(t) /\ Event_CanWait(out[t].stopEvent)
    /\ out' = [out EXCEPT ![t].stopEvent = Event_Wait(FALSE, @)]
    /\ Finished(t, "abort")
    /\ UNCHANGED <<m, pool, refs, mtSem, arc, prog, hit>>

(* The blocks go to the real stream, the new data behind them. *)
WaitReal(t) ==
    LET o == out[t] IN
    /\ NeedsBlock(t) /\ ~o.stopEvent /\ Event_CanWait(o.realEvent)
    /\ \E fails \in WriteFails :
        /\ WriteHits(fails)
        /\ IF fails
           THEN /\ arc' = [arc EXCEPT !.failed = TRUE]
                /\ out' = [out EXCEPT ![t].realEvent = FALSE, ![t].realMode = TRUE]
                /\ Finished(t, "write")
                /\ UNCHANGED <<pool, prog>>
           ELSE /\ arc' = Written(arc, Content(o) \o <<Unit(t)>>)
                /\ out' = [out EXCEPT ![t] = [Freed(o) EXCEPT
                              !.realEvent = Event_Wait(FALSE, @), !.realMode = TRUE]]
                /\ pool' = FreeBlocks(pool, o.blocks)
                /\ Advance(t)
    /\ UNCHANGED <<m, refs, mtSem>>

WaitBlock(t) ==
    /\ NeedsBlock(t) /\ ~out[t].stopEvent /\ ~out[t].realEvent
    /\ Semaphore_CanWait(pool.sem)
    /\ pool' = [pool EXCEPT !.sem = Semaphore_Wait(@)]
    /\ th' = [th EXCEPT ![t].pc = "alloc"]
    /\ UNCHANGED <<m, out, refs, mtSem, arc, prog, hit>>

(* AllocateBlock: E_FAIL when the free list is empty. *)
AllocateBlock(t) ==
    /\ th[t].pc = "alloc"
    /\ IF pool.free = 0
       THEN Finished(t, "fail") /\ UNCHANGED <<out, pool>>
       ELSE /\ pool' = [pool EXCEPT !.free = @ - 1]
            /\ out' = [out EXCEPT ![t].blocks = @ + 1]
            /\ th' = [th EXCEPT ![t].pc = "code"]
    /\ UNCHANGED <<m, refs, mtSem, arc, prog, hit>>

(* Write in real stream mode. *)
WriteReal(t) ==
    /\ Coding(t) /\ out[t].realMode
    /\ \E fails \in WriteFails :
        /\ WriteHits(fails)
        /\ IF fails
           THEN /\ arc' = [arc EXCEPT !.failed = TRUE]
                /\ Finished(t, "write") /\ UNCHANGED prog
           ELSE /\ arc' = Written(arc, <<Unit(t)>>)
                /\ Advance(t)
    /\ UNCHANGED <<m, out, pool, refs, mtSem>>

(* The coder fails, or a progress callback asks it to stop. *)
CodeFails(t) ==
    /\ Coding(t)
    /\ \E fault \in {"code", "cancel"} :
          CanFail(fault) /\ Fail(fault) /\ Finished(t, fault)
    /\ UNCHANGED <<m, out, pool, refs, mtSem, arc, prog>>

(* The end of a pass: the size is the position of the stream.  Another     *)
(* pass starts it again; after the last one the sizes are reported.        *)
EndPass(t) ==
    LET o == out[t]
        size == IF o.realMode THEN arc.pos - o.base ELSE o.pos
        again == th[t].pass < NumPasses(t)
    IN
    /\ th[t].pc = "code" /\ th[t].n = Size(t)
    /\ IF again
       THEN /\ th' = [th EXCEPT ![t].pass = @ + 1, ![t].n = 0, ![t].packSize = size]
            /\ IF o.realMode
               THEN /\ arc' = [arc EXCEPT !.pos = o.base,
                                          !.data = SubSeq(@, 1, o.base)]
                    /\ UNCHANGED out
               ELSE /\ out' = [out EXCEPT ![t].pos = 0, ![t].total = 0]
                    /\ UNCHANGED arc
            /\ UNCHANGED <<prog, hit>>
       ELSE /\ SetRatioInfo(t, Item(th[t].item).size)
            /\ \E res \in {"ok"} \cup IF CanFail("cancel") THEN {"cancel"} ELSE {} :
                /\ th' = [th EXCEPT ![t].pc = "push", ![t].res = res,
                                    ![t].packSize = size]
                /\ hit' = hit \cup ({res} \ {"ok"})
            /\ UNCHANGED <<out, arc>>
    /\ UNCHANGED <<m, pool, refs, mtSem>>

(* CMtSem::ReleaseItem: into the list, then the semaphore. *)
PushItem(t) ==
    /\ th[t].pc = "push"
    /\ mtSem' = [mtSem EXCEPT !.list = <<t>> \o @]
    /\ th' = [th EXCEPT ![t].pc = "post"]
    /\ UNCHANGED <<m, out, pool, refs, arc, prog, hit>>

PostItem(t) ==
    /\ th[t].pc = "post"
    /\ mtSem' = [mtSem EXCEPT !.count = Semaphore_ReleaseN(@, NumThreads, 1)]
    /\ th' = [th EXCEPT ![t].pc = "wait"]
    /\ UNCHANGED <<m, out, pool, refs, arc, prog, hit>>

Thread(t) ==
    \/ Wake(t) \/ WriteMem(t) \/ WaitStop(t) \/ WaitReal(t) \/ WaitBlock(t)
    \/ AllocateBlock(t) \/ WriteReal(t) \/ EndPass(t) \/ PushItem(t) \/ PostItem(t)

-----------------------------------------------------------------------------
(* Update2.                                                                *)

(* An error return, or an exception: the destructors are next. *)
Leave(res) == m' = [m EXCEPT !.pc = "close", !.res = res, !.closing = 0]

(* Threads 0..n-1 are created; the next one cannot be. *)
Setup ==
    /\ m.pc = "setup"
    /\ \E n \in 0..NumThreads :
        /\ th' = [t \in Threads |->
                    IF t < n THEN [CThreadInfo EXCEPT !.pc = "wait"] ELSE CThreadInfo]
        /\ IF n = NumThreads
           THEN m' = [m EXCEPT !.pc = "loop"] /\ UNCHANGED hit
           ELSE CanFail("create") /\ Fail("create") /\ Leave("create")
    /\ UNCHANGED <<out, pool, refs, mtSem, arc, prog>>

LooksAhead == /\ Len(m.threadIndices) < NumThreads
              /\ m.mtItemIndex <= NumItems

AtLoop == m.pc = "loop" /\ m.itemIndex <= NumItems

(* The next item is not for a thread. *)
PassOver ==
    /\ AtLoop /\ LooksAhead /\ Item(m.mtItemIndex).kind \in {"old", "dir"}
    /\ m' = [m EXCEPT !.mtItemIndex = @ + 1]
    /\ UNCHANGED <<th, out, pool, refs, mtSem, arc, prog, hit>>

(* GetStream: S_FALSE, or an error. *)
NoStream ==
    /\ AtLoop /\ LooksAhead
    /\ \/ /\ Item(m.mtItemIndex).kind = "skip"
          /\ refs' = [refs EXCEPT ![m.mtItemIndex].skip = TRUE]
          /\ m' = [m EXCEPT !.mtItemIndex = @ + 1]
          /\ UNCHANGED hit
       \/ /\ Item(m.mtItemIndex).kind \in {"file", "skip"}
          /\ CanFail("stream") /\ Fail("stream") /\ Leave("stream")
          /\ UNCHANGED refs
    /\ UNCHANGED <<th, out, pool, mtSem, arc, prog>>

(* A file is given to the first free thread. *)
StartFile ==
    LET i == m.mtItemIndex
        free == {t \in Threads : th[t].isFree}
    IN
    /\ AtLoop /\ LooksAhead /\ Item(i).kind = "file"
    /\ IF free = {}
       THEN Leave("fail") /\ UNCHANGED <<th, out, pool, prog>>
       ELSE LET k == Min(free) IN
            /\ th' = [th EXCEPT ![k] = [@ EXCEPT
                         !.isFree = FALSE, !.item = i,
                         !.compressEvent = Event_Set(@)]]
            /\ out' = [out EXCEPT ![k] = InitStream(@)]
            /\ pool' = FreeBlocks(pool, out[k].blocks)
            /\ Reinit(k)
            /\ m' = [m EXCEPT !.mtItemIndex = @ + 1,
                              !.threadIndices = Append(@, k)]
    /\ UNCHANGED <<refs, mtSem, arc, hit>>

NextItem == m' = [m EXCEPT !.itemIndex = @ + 1, !.pc = "loop"]

Current(kind) == AtLoop /\ ~LooksAhead /\ Item(m.itemIndex).kind = kind
OtherThings == <<th, out, pool, mtSem, prog>>

SkipItem ==
    /\ AtLoop /\ ~LooksAhead /\ refs[m.itemIndex].skip
    /\ NextItem
    /\ UNCHANGED <<OtherThings, refs, arc, hit>>

(* WriteDirHeader; UpdateItemOldData. *)
OwnItem ==
    /\ Current("dir") \/ Current("old")
    /\ \E fails \in WriteFails :
        /\ WriteHits(fails)
        /\ IF fails
           THEN arc' = [arc EXCEPT !.failed = TRUE] /\ Leave("write")
           ELSE /\ NextItem
                /\ arc' = IF Current("dir")
                          THEN WriteLocalHeader(arc, m.itemIndex, "final")
                          ELSE [Written(arc, <<<<m.itemIndex, "old">>>>)
                                  EXCEPT !.curPos = @ + 1]
    /\ UNCHANGED <<OtherThings, refs>>

(* A file whose thread has finished before.  The result of WriteToStream   *)
(* is ignored; the stream remembers it.                                    *)
FinishedItem ==
    LET i == m.itemIndex
        r == refs[i]
        header == WriteLocalHeader(arc, i, "final")
        copied == Written(header, r.data)
    IN
    /\ Current("file") /\ r.finished
    /\ \/ /\ ~arc.failed
          /\ arc' = IF m.outSeqMode
                    THEN WriteLocalHeader_Replace(copied, i, TRUE, r.packSize)
                    ELSE [copied EXCEPT !.curPos = @ + r.packSize]
          /\ refs' = [refs EXCEPT ![i].blocks = 0, ![i].data = <<>>]
          /\ pool' = FreeBlocks(pool, r.blocks)
          /\ m' = [m EXCEPT !.itemIndex = @ + 1, !.lastReal = i]
          /\ UNCHANGED hit
       \/ /\ TRUE \in WriteFails
          /\ WriteHits(TRUE)
          /\ arc' = [arc EXCEPT !.failed = TRUE]
          /\ \/ Leave("write") /\ UNCHANGED <<pool, refs>>
             \/ /\ ~arc.failed /\ ~m.outSeqMode
                /\ refs' = [refs EXCEPT ![i].blocks = 0, ![i].data = <<>>]
                /\ pool' = FreeBlocks(pool, r.blocks)
                /\ m' = [m EXCEPT !.itemIndex = @ + 1, !.lastReal = i]
    /\ UNCHANGED <<th, out, mtSem, prog>>

(* A file that is still being compressed: its header is written with what  *)
(* is known, and its thread gets the real stream.                          *)
FrontItem ==
    LET i == m.itemIndex
        front == Head(m.threadIndices)
        opens == m.lastReal < i
        a == IF opens THEN WriteLocalHeader(arc, i, "preliminary") ELSE arc
        fails == IF opens THEN WriteFails ELSE {FALSE}
    IN
    /\ Current("file") /\ ~refs[i].finished
    /\ \E f \in fails :
        /\ WriteHits(f)
        /\ IF f
           THEN arc' = [arc EXCEPT !.failed = TRUE] /\ Leave("write") /\ UNCHANGED out
           ELSE /\ m' = [m EXCEPT !.pc = "lock", !.lastReal = i]
                /\ IF out[front].unlockSent
                   THEN UNCHANGED out /\ arc' = a
                   ELSE /\ out' = [out EXCEPT ![front] = SetRealStreamMode(@, a.curPos)]
                        /\ arc' = [a EXCEPT !.pos = a.curPos]
    /\ UNCHANGED <<th, pool, refs, mtSem, prog>>

(* mtSem.Semaphore.Lock(). *)
Lock ==
    /\ m.pc = "lock" /\ Semaphore_CanWait(mtSem.count)
    /\ mtSem' = [mtSem EXCEPT !.count = Semaphore_Wait(@)]
    /\ m' = [m EXCEPT !.pc = "take"]
    /\ UNCHANGED <<th, out, pool, refs, arc, prog, hit>>

(* GetFreeItem: the last that has finished.  Its file is the current one,  *)
(* whose data is complete now, or a later one, whose data is detached.     *)
Take ==
    LET ti == Head(mtSem.list)
        t == SelectInSeq(m.threadIndices, LAMBDA k : k = ti)
        o == out[ti]
        i == th[ti].item
        taken == [th EXCEPT ![ti].isFree = TRUE]
        rest == RemoveAt(m.threadIndices, t)
    IN
    /\ m.pc = "take"
    /\ IF mtSem.list = <<>>
       THEN Leave("fail") /\ UNCHANGED <<th, out, pool, refs, mtSem, arc, hit>>
       ELSE
       /\ mtSem' = [mtSem EXCEPT !.list = Tail(@)]
       /\ th' = taken
       /\ CASE th[ti].res # "ok" ->
               Leave(th[ti].res) /\ UNCHANGED <<out, pool, refs, arc, hit>>
            [] th[ti].res = "ok" /\ (t = 0 \/ (t = 1 /\ i # m.itemIndex)) ->
               Leave("fail") /\ UNCHANGED <<out, pool, refs, arc, hit>>
            [] th[ti].res = "ok" /\ t = 1 /\ i = m.itemIndex ->
               /\ \E fails \in WriteFails :
                   /\ WriteHits(fails)
                   /\ IF fails
                      THEN /\ arc' = [arc EXCEPT !.failed = TRUE] /\ Leave("write")
                           /\ UNCHANGED <<out, pool>>
                      ELSE /\ arc' = WriteLocalHeader_Replace(
                                        Written(arc, Content(o)), i,
                                        m.outSeqMode, th[ti].packSize)
                           /\ out' = [out EXCEPT ![ti] = [Freed(@) EXCEPT !.base = 0]]
                           /\ pool' = FreeBlocks(pool, o.blocks)
                           /\ m' = [m EXCEPT !.pc = "loop", !.threadIndices = rest,
                                             !.itemIndex = @ + 1]
               /\ UNCHANGED refs
            [] OTHER ->
               /\ refs' = [refs EXCEPT ![i] = [@ EXCEPT
                              !.finished = TRUE, !.data = Content(o),
                              !.blocks = Min({o.blocks, BlocksFor(o.total)}),
                              !.packSize = th[ti].packSize]]
               /\ out' = [out EXCEPT ![ti] = Freed(@)]
               /\ pool' = FreeBlocks(pool, o.blocks - refs'[i].blocks)
               /\ m' = [m EXCEPT !.pc = "loop", !.threadIndices = rest]
               /\ UNCHANGED <<arc, hit>>
    /\ UNCHANGED prog

(* After the last item: the central directory, the last progress call,     *)
(* and, when the destructors have run, FinalFlush.                         *)
WriteCentralDir ==
    /\ m.pc = "loop" /\ m.itemIndex > NumItems
    /\ \/ \E fails \in WriteFails :
            /\ WriteHits(fails)
            /\ IF fails
               THEN arc' = [arc EXCEPT !.failed = TRUE] /\ Leave("write")
               ELSE arc' = Written(arc, <<<<0, "central">>>>) /\ Leave("ok")
       \/ CanFail("cancel") /\ Fail("cancel") /\ Leave("cancel") /\ UNCHANGED arc
    /\ UNCHANGED <<OtherThings, refs>>

(* CThreads::~CThreads: thread after thread is stopped and joined. *)
StopWait ==
    LET t == m.closing IN
    /\ m.pc = "close" /\ t < NumThreads
    /\ th' = [th EXCEPT ![t].exitThread = TRUE,
                        ![t].compressEvent = Event_Set(@)]
    /\ out' = [out EXCEPT ![t].stopEvent = Event_Set(@)]
    /\ m' = [m EXCEPT !.pc = "join"]
    /\ UNCHANGED <<pool, refs, mtSem, arc, prog, hit>>

Close ==
    /\ m.pc = "join" /\ th[m.closing].pc \in {"none", "exit"}
    /\ m' = [m EXCEPT !.pc = "close", !.closing = @ + 1]
    /\ UNCHANGED <<th, out, pool, refs, mtSem, arc, prog, hit>>

StreamBlocks == SumFunction([t \in Threads |-> out[t].blocks])
KeptBlocks == SumFunction([i \in DOMAIN refs |-> refs[i].blocks])

(* ~COutMemStream for every thread, ~CMemRefs, and the return of Update. *)
Return ==
    /\ m.pc = "close" /\ m.closing = NumThreads
    /\ out' = [t \in Threads |-> Freed(out[t])]
    /\ refs' = [i \in DOMAIN refs |-> [refs[i] EXCEPT !.blocks = 0, !.data = <<>>]]
    /\ pool' = FreeBlocks(pool, StreamBlocks + KeptBlocks)
    /\ m' = [m EXCEPT !.pc = "done"]
    /\ UNCHANGED <<th, mtSem, arc, prog, hit>>

Returned == m.pc = "done" /\ UNCHANGED vars

Main ==
    \/ Setup \/ PassOver \/ NoStream \/ StartFile \/ SkipItem \/ OwnItem
    \/ FinishedItem \/ FrontItem \/ Lock \/ Take \/ WriteCentralDir
    \/ StopWait \/ Close \/ Return

Next == Main \/ Returned \/ \E t \in Threads : Thread(t) \/ CodeFails(t)

Spec == Init /\ [][Next]_vars

(* The main thread and the others run whenever they can; no coder has to   *)
(* fail, least of all to get a thread out of a wait.                       *)
FairSpec == Spec /\ WF_vars(Main) /\ \A t \in Threads : WF_vars(Thread(t))

-----------------------------------------------------------------------------
Results == {"ok", "stream", "code", "cancel", "write", "create", "abort", "fail"}

TypeOK ==
    /\ m.pc \in {"setup", "loop", "lock", "take", "close", "join", "done"}
    /\ m.itemIndex \in 1..NumItems + 1 /\ m.mtItemIndex \in 1..NumItems + 1
    /\ IsInjective(m.threadIndices) /\ ToSet(m.threadIndices) \subseteq Threads
    /\ m.res \in Results /\ hit \subseteq Faults
    /\ \A t \in Threads :
          /\ th[t].pc \in {"none", "wait", "code", "alloc", "push", "post", "exit"}
          /\ th[t].res \in Results /\ th[t].item \in 0..NumItems
          /\ th[t].packSize \in Nat
          /\ 0 <= out[t].pos /\ out[t].total <= Room(out[t])
    /\ IsInjective(mtSem.list) /\ mtSem.count <= Len(mtSem.list)
    /\ 0 <= arc.pos /\ arc.pos <= Len(arc.data)

(* Every block has one owner: the free list, a stream, or a finished item. *)
(* The semaphore never promises a block that is not there, so that         *)
(* AllocateBlock finds one, and at the end all blocks are free again.      *)
BlocksKept ==
    /\ pool.free + StreamBlocks + KeptBlocks = pool.total
    /\ pool.sem + Cardinality({t \in Threads : th[t].pc = "alloc"}) = pool.free
    /\ m.pc = "done" => pool.free = pool.total

PassUnits(i, p, n) == [k \in 1..n |-> <<i, p, k>>]
LastPass(i) == IF m.outSeqMode THEN 1 ELSE Len(Item(i).passes)

(* What an item looks like in the archive when it is complete. *)
Entry(i) ==
    CASE Item(i).kind = "skip" -> <<>>
      [] Item(i).kind = "old" -> <<<<i, "old">>>>
      [] Item(i).kind = "dir" -> <<Header(i, "final")>>
      [] Item(i).kind = "file" ->
            LET p == LastPass(i)
                packed == PassUnits(i, p, Item(i).passes[p])
            IN  IF m.outSeqMode
                THEN <<Header(i, "preliminary")>> \o packed \o <<<<i, "descriptor">>>>
                ELSE <<Header(i, "final")>> \o packed

(* With a descriptor the header of a file is not rewritten; whether it was *)
(* written before or after the data then makes no difference.              *)
Sealed(unit) ==
    IF m.outSeqMode /\ Len(unit) = 2 /\ unit[2] = "final"
    THEN Header(unit[1], "preliminary") ELSE unit

EntriesUpTo(n) == FlattenSeq([i \in 1..n |-> Entry(i)])

(* A file's header is written and its data is being written. *)
Open == m.itemIndex <= NumItems /\ m.lastReal = m.itemIndex
FrontThread == Head(m.threadIndices)

SameArchive(a, b) ==
    [k \in DOMAIN a |-> Sealed(a[k])] = [k \in DOMAIN b |-> Sealed(b[k])]

(* While nothing has failed, the archive is the complete entries of the    *)
(* items before the current one and, when that is open, its preliminary    *)
(* header with data of its own thread behind it: no thread writes to the   *)
(* archive early, twice, late, or into another item's entry.  The call     *)
(* returns S_OK with all entries and the central directory, or one of the  *)
(* failures there have been; E_FAIL for a broken order of things is never  *)
(* returned, and no thread is left behind.                                 *)
ArchiveInOrder ==
    /\ m.pc \in {"loop", "lock", "take"} /\ ~arc.failed =>
         LET before == EntriesUpTo(m.itemIndex - 1)
             base == Len(before) + 1
         IN
         IF Open
         THEN LET f == FrontThread
                  behind == SubSeq(arc.data, base + 1, Len(arc.data))
                  T == th[f]
              IN /\ T.item = m.itemIndex /\ arc.headerPos = base - 1
                 /\ SameArchive(SubSeq(arc.data, 1, base),
                       before \o <<Header(m.itemIndex, "preliminary")>>)
                 /\ behind = IF out[f].realMode
                             THEN PassUnits(T.item, T.pass, T.n) ELSE <<>>
         ELSE SameArchive(arc.data, before) /\ arc.curPos = arc.pos
                /\ arc.pos = Len(before)
    /\ m.pc = "done" =>
         /\ m.res = "ok" =>
               SameArchive(arc.data, EntriesUpTo(NumItems) \o <<<<0, "central">>>>)
         /\ IF hit = {} THEN m.res = "ok" ELSE m.res \in hit
         /\ \A t \in Threads : th[t].pc \in {"none", "exit"}

(* ProgressMt.cpp: the total the callback sees is the sizes of all files   *)
(* that are done and what has been read of those at work, although a pass  *)
(* that is repeated makes it go back and a slot serves many files.         *)
ProgressExact ==
    LET InWork(i) == \E t \in Threads : th[t].item = i
        done == {i \in 1..m.mtItemIndex - 1 : Item(i).kind = "file" /\ ~InWork(i)}
    IN  prog.total =
          (SumFunction(prog.inSizes)
             + SumFunctionOnSet([i \in done |-> Item(i).size], done)) % SizeModulus

(* Update2 always comes to its end: a thread without a block is given the  *)
(* archive, or is waiting for one that is, or is told to stop.             *)
UpdateReturns == <>(m.pc = "done")
=============================================================================
