--------------------------- MODULE MtDec_proofs ----------------------------
(***************************************************************************)
(* The multithreaded decoder, for any number of threads, any size of the   *)
(* buffers, any inputs and any failures: there is one read token and one   *)
(* write token (TokensUnique of MtDec), the threads leave nothing half done *)
(* and no part of the input behind (HandoverClean), and the output is what *)
(* one thread would write (ImplementsJob).                                 *)
(*                                                                         *)
(* MtDec_steps_proofs defines the invariant Inv and proves the steps of the *)
(* caller; here are those of the threads, one lemma per step and under it  *)
(* one for each part of Inv that the step disturbs, and the theorems.      *)
(***************************************************************************)
EXTENDS MtDec_steps_proofs

-----------------------------------------------------------------------------
(* What a thread's step leaves alone.                                      *)

ThreadBounds(t) ==
    LET T == th[t] IN
    /\ T.inDataSize_Start <= InBufSize
    /\ T.inDataSize_Start <= T.inDataSize
    /\ T.loc.block <= LastBlock
    /\ ~Reads(t) /\ ~Works(t) => T.loc = NoLocals
    /\ T.pc = "fill" => T.loc.link <= Len(T.inBuf)
    /\ T.pc = "fill" /\ T.loc.link > 0 => p.cross = <<>>

CrossBounds ==
    /\ p.readPos <= job.limit
    /\ Len(p.cross) <= InBufSize
    /\ Len(p.cross) <= p.readPos
    /\ Holds(p.cross, p.readPos - Len(p.cross) + 1)

(* What the buffer of a thread holds has not changed, nor what it does. *)
SameThread(u) ==
    /\ th'[u].inBuf = th[u].inBuf /\ th'[u].inDataSize = th[u].inDataSize
    /\ th'[u].inDataSize_Start = th[u].inDataSize_Start
    /\ th'[u].loc = th[u].loc
    /\ th'[u].pc = th[u].pc \/ (Idle(u) /\ th'[u].pc = "wait")

LEMMA SameThreadDoes ==
    ASSUME NEW u, SameThread(u)
    PROVE  /\ Reads(u)' <=> Reads(u)
           /\ Works(u)' <=> Works(u)
           /\ Closes(u)' <=> Closes(u)
           /\ Works(u) \/ Reads(u) => th'[u].pc = th[u].pc
           /\ th'[u].pc = "fill" <=> th[u].pc = "fill"
BY DEF SameThread, Reads, Works, Closes, Idle

(* One thread does something. *)
LEMMA BoundsStay ==
    ASSUME Bounds, NEW t \in Threads, job.pc = "mt", job'.pc = "mt", job'.blocks = job.blocks,
           \A u \in Threads \ {t} : SameThread(u),
           p'.cross = p.cross \/ \A u \in Threads \ {t} : ~Reads(u),
           CrossBounds', ThreadBounds(t)'
    PROVE  Bounds'
<1>1. LastBlock' = LastBlock
  BY DEF LastBlock
<1>2. ASSUME NEW u \in Threads PROVE ThreadBounds(u)'
  <2>1. CASE u = t
    BY <2>1
  <2>2. CASE u # t
    <3>1. SameThread(u)
      BY <2>2
    <3>2. /\ Reads(u)' <=> Reads(u)
          /\ Works(u)' <=> Works(u)
          /\ th'[u].pc = "fill" <=> th[u].pc = "fill"
      BY <3>1, SameThreadDoes
    <3>3. ThreadBounds(u)
      BY DEF Bounds, ThreadBounds
    <3>4. th[u].pc = "fill" => p'.cross = p.cross
      BY <2>2 DEF Reads
    <3> QED
      BY <3>1, <3>2, <3>3, <3>4, <1>1 DEF ThreadBounds, SameThread
  <2> QED
    BY <2>1, <2>2
<1>3. job'.blocks \in Inputs
  BY DEF Bounds
<1> QED
  BY <1>2, <1>3 DEF Bounds, ThreadBounds, CrossBounds

(* What is left in the cross block is left there. *)
LEMMA CrossStays ==
    ASSUME Bounds, SameInput
    PROVE  CrossBounds'
BY DEF Bounds, CrossBounds, SameInput, Holds

(* Only a fault other than "read" and "write", or an error of progress. *)
LEMMA HitsStay ==
    ASSUME Typed, Typed', Bounds, Hits_Known, job.pc = "mt", SameCall,
           Progress \/ \E f \in {"alloc", "mem", "create"} : Fails(f),
           p'.wasInterrupted = p.wasInterrupted,
           p'.readRes = p.readRes, p.readWasFinished => p'.readWasFinished,
           p.readPos <= p'.readPos
    PROVE  Hits_Known'
<1>1. job'.pc = "mt" /\ job'.emitted = job.emitted /\ job'.blocks = job.blocks BY DEF SameCall
<1>2. /\ "progress" \in job'.hit <=> p'.progressRes # "ok"
      /\ "read" \in job'.hit <=> "read" \in job.hit
      /\ "write" \in job'.hit <=> "write" \in job.hit
      /\ "memST" \notin job'.hit
  BY DEF Progress, Fails, Hits_Known
<1>3. InOrder'
  <2>1. InOrder /\ BlockEnd(Written) \in Nat BY Place
  <2>2. Written' = Written /\ LastBlock' = LastBlock /\ BlockEnd(Written)' = BlockEnd(Written)
        /\ \A b : Kind(b)' = Kind(b)
    BY <1>1 DEF Written, LastBlock, BlockEnd, Kind
  <2>3. p.readPos \in Nat /\ p'.readPos \in Nat BY DEF Typed, MtDecRecs
  <2>4. BlockEnd(Written)' <= p'.readPos BY <2>1, <2>2, <2>3 DEF InOrder
  <2> QED BY <2>1, <2>2, <2>4, <1>1 DEF InOrder
<1> QED BY <1>1, <1>2, <1>3 DEF Hits_Known, GoesOnSingle

(* An error stays one, and an interruption can only come earlier. *)
ErrorsStay ==
    /\ p.progressRes # "ok" => p'.progressRes # "ok"
    /\ p.interruptIndex # 0 => p'.interruptIndex # 0 /\ p'.interruptIndex <= p.interruptIndex

LEMMA OthersRules ==
    ASSUME Typed, Typed', NEW u \in Threads, SameThread(u), ErrorsStay, LocalRules(u)
    PROVE  LocalRules(u)'
<1>1. /\ Reads(u)' <=> Reads(u)
      /\ Works(u)' <=> Works(u)
      /\ th'[u].loc = th[u].loc
      /\ th'[u].pc = th[u].pc \/ (Idle(u) /\ th'[u].pc = "wait")
  BY SameThreadDoes DEF SameThread
<1>2. /\ th'[u].pc = "fill" <=> th[u].pc = "fill"
      /\ th'[u].pc = "code" <=> th[u].pc = "code"
  BY <1>1 DEF Idle
<1>3. Stops(th[u].loc)' <=> Stops(th[u].loc) BY <1>1 DEF Stops
<1>4. p.interruptIndex \in Nat /\ p'.interruptIndex \in Nat /\ th[u].loc.blockIndex \in Nat
  BY DEF Typed, MtDecRecs, ThreadRecs, Locals
<1> QED BY <1>1, <1>2, <1>3, <1>4 DEF LocalRules, ErrorsStay

(* The piece of a thread that does nothing in this step. *)
LEMMA OthersPiece ==
    ASSUME Typed, Typed', NEW u \in Threads, SameThread(u), Works(u) \/ Reads(u),
           \/ SameInput
           \/ /\ Works(u) /\ ~th[u].loc.finish
              /\ job'.limit <= job.limit /\ p.readPos <= p'.readPos,
           job'.blocks = job.blocks,
           NEW b \in Nat, BlockEnd(b) \in Nat, NEW s \in Nat, Piece(u, b, s)
    PROVE  Piece(u, b, s)'
<1>1. /\ th'[u].pc = th[u].pc /\ th'[u].inBuf = th[u].inBuf
      /\ th'[u].inDataSize = th[u].inDataSize
      /\ th'[u].inDataSize_Start = th[u].inDataSize_Start
      /\ th'[u].loc = th[u].loc
  BY SameThreadDoes DEF SameThread
<1>2. /\ LastBlock' = LastBlock /\ BlockEnd(b)' = BlockEnd(b) /\ Kind(b)' = Kind(b)
      /\ LastParsed(b)' = LastParsed(b) /\ Works(u)' = Works(u)
      /\ \A x : LastParsed(x)' = LastParsed(x) /\ BlockEnd(x)' = BlockEnd(x)
      /\ Stops(th[u].loc)' = Stops(th[u].loc)
  BY <1>1 DEF LastBlock, BlockEnd, Kind, LastParsed, Works, Stops
<1>3. CASE SameInput
  <2>1. /\ p'.readPos = p.readPos /\ p'.cross = p.cross /\ job'.limit = job.limit
        /\ p'.readWasFinished = p.readWasFinished
    BY <1>3 DEF SameInput
  <2>2. Drained' = Drained
    BY <2>1 DEF Drained
  <2>3. \A x : Continues(x)' = Continues(x)
    BY <2>1 DEF Continues
  <2>4. \A x : Follows(x)' <=> Follows(x)
    BY <1>1, <1>2, <2>1, <2>3, Zenon DEF Follows
  <2>5. Filling(u, b, s)' <=> Filling(u, b, s)
    BY <1>1, <1>2, <2>1, <2>3, Zenon DEF Filling
  <2>6. Taken(u, b, s + th[u].inDataSize)' <=> Taken(u, b, s + th[u].inDataSize)
    <3>1. Ending(u, b, s + th[u].inDataSize)' <=> Ending(u, b, s + th[u].inDataSize)
      BY <1>1, <1>2, <2>1, <2>2, Zenon DEF Ending
    <3> QED
      BY <1>1, <1>2, <2>4, <3>1, Zenon DEF Taken
  <2>7. Passing(u, s + th[u].inDataSize)' <=> Passing(u, s + th[u].inDataSize)
    BY <1>1, <2>1, <2>3, Zenon DEF Passing
  <2>8. (Coding(u, b, s)' <=> Coding(u, b, s)) /\ (Coded(u, b, s)' <=> Coded(u, b, s))
    BY <1>1, <1>2, <2>1, Zenon DEF Coding, Coded
  <2>9. Parted(u, b)' <=> Parted(u, b)
    BY <1>1, <1>2, <2>1, Zenon DEF Parted
  <2> QED
    BY <1>1, <1>2, <2>5, <2>6, <2>7, <2>8, <2>9, Zenon DEF Piece
<1>4. CASE /\ Works(u) /\ ~th[u].loc.finish
           /\ job'.limit <= job.limit /\ p.readPos <= p'.readPos
  <2>1. th[u].pc # "fill" /\ th[u].pc # "pass" BY <1>4 DEF Works
  <2>2. job.limit < s => job'.limit < s BY <1>4 DEF Typed, JobRecs
  <2>3. Taken(u, b, s + th[u].inDataSize) => Taken(u, b, s + th[u].inDataSize)'
    BY <1>1, <1>2, <1>4 DEF Ending, Taken
  <2>4. Coding(u, b, s) => Coding(u, b, s)' BY <1>1, <1>2, Zenon DEF Coding
  <2>5. Coded(u, b, s) => Coded(u, b, s)' BY <1>1, <1>2, <2>2, Zenon DEF Coded
  <2>6. Parted(u, b) => Parted(u, b)'
    <3>1. p.readPos \in Nat /\ p'.readPos \in Nat BY DEF Typed, MtDecRecs
    <3>2. BlockEnd(b) <= p.readPos => BlockEnd(b)' <= p'.readPos BY <3>1, <1>2, <1>4
    <3> QED BY <3>2, <1>1, <1>2, <1>4, Zenon DEF Parted
  <2> QED BY <1>1, <1>2, <2>1, <2>3, <2>4, <2>5, <2>6, Zenon DEF Piece
<1> QED BY <1>3, <1>4

-----------------------------------------------------------------------------
(* Event_Wait on canRead.                                                  *)

LEMMA OthersFlow ==
    ASSUME Typed, Typed', job.blocks \in Inputs, NEW u \in Threads, SameThread(u),
           Works(u) \/ Reads(u),
           \/ SameInput
           \/ /\ Works(u) /\ ~th[u].loc.finish
              /\ job'.limit <= job.limit /\ p.readPos <= p'.readPos,
           job'.blocks = job.blocks,
           NEW b \in Nat \ {0}, Piece(u, b, BlockStart(b))
    PROVE  Piece(u, b, BlockStart(b))'
  BY BlockFacts, OthersPiece DEF Piece, BlockStart, BlockEnd

(* A piece of which nothing has been read. *)
LEMMA EmptyPiece ==
    ASSUME Typed', job.blocks \in Inputs, job'.blocks = job.blocks,
           NEW t \in Threads, NEW b \in 1..LastBlock, NEW s \in Nat,
           s <= BlockEnd(b), th'[t].pc = "fill", Continues(s)',
           th'[t].inDataSize = 0, th'[t].inDataSize_Start = 0, th'[t].loc.block = 0,
           th'[t].loc.state = "continue", th'[t].loc.link = 0,
           th'[t].loc.finish => p'.readWasFinished /\ p'.readPos = job'.limit,
           p'.readWasFinished => th'[t].loc.finish
    PROVE  Piece(t, b, s)'
<1>0. BlockEnd(b) \in Nat /\ b \in Nat /\ b <= LastBlock /\ job'.limit \in Nat /\ InBufSize > 0
      /\ InBufSize \in Nat /\ LastBlock' = LastBlock /\ BlockEnd(b)' = BlockEnd(b)
  BY BlockFacts, Numbers DEF Typed, JobRecs, LastBlock, BlockEnd
<1>1. LinksHold(th'[t].inBuf, 0, 0, s)
  <2>1. ASSUME NEW j \in Nat \ {0} PROVE ~(LinkStart(0, j) < 0)
    <3>1. LinkStart(0, j) \in Nat BY LinkLine
    <3> QED BY <3>1
  <2> QED BY <2>1 DEF LinksHold
<1>2. Filling(t, b, s)' BY <1>0 DEF Filling
<1> QED BY <1>0, <1>1, <1>2 DEF Piece, Works

LEMMA ReadWaitInv ==
    ASSUME Inv, NEW t \in Threads, ReadWait(t), ~p.exitThread
    PROVE  Inv'
<1>1. Typed /\ Bounds /\ Hits_Known /\ FilledOK BY DEF Inv
<1>2. Typed' /\ ReadWaitStep(t) BY <1>1, ReadWaitMoves
<1>3. th[t].pc = "wait" /\ th[t].canRead BY <1>2 DEF ReadWaitStep
<1>4. /\ t \in 0..Started - 1 /\ job.pc = "mt" /\ th[0].pc # "ret"
      /\ \E w \in 0..Started - 1, k \in 0..Started, B \in 1..p.blockIndex :
            Turn(w, k, B)
  BY <1>3, InRuns
<1>5. PICK w \in 0..Started - 1, k \in 0..Started, B \in 1..p.blockIndex :
            Turn(w, k, B)
  BY <1>4
<1>6. Started \in Nat /\ p.blockIndex \in Nat /\ w \in Nat /\ k \in Nat /\ B \in Nat
  BY <1>1 DEF Typed, MtDecRecs, Started
<1>7. Ring(w, k, B) /\ Rules(w, k, B) BY <1>5 DEF Turn
<1>8. /\ Ring(w, k, B)' /\ k < Started /\ Offset(w, t) = k /\ Reads(t)'
      /\ p.blockIndex = B + k /\ \A u \in Threads : ~Reads(u)
  BY <1>1, <1>2, <1>6, <1>7, <1>4, RingRead
<1>9. HasRead(t) /\ ~Works(t) /\ ~Reads(t) BY <1>3 DEF HasRead, Works, Reads
<1>10. \A u \in Threads : (HasRead(u) => u = t) /\ ~Closes(u)
  BY <1>1, <1>4, <1>6, <1>7, <1>9, Holder
<1> DEFINE M == th'[t].loc
<1>11. /\ M.blockIndex = p.blockIndex /\ M.res = p'.progressRes
       /\ M.wasInterrupted = Interrupted(p.blockIndex) /\ M.finish = p.readWasFinished
       /\ M.block = 0 /\ M.state = "continue" /\ M.link = 0 /\ ~M.needCode /\ ~M.needWrite
       /\ ~M.isAllocError /\ ~M.overflow /\ ~M.threadingError /\ M.codeRes = "ok"
       /\ M.codePos = 0
  BY <1>2 DEF ReadWaitStep, NoLocals
<1>12. /\ th'[t].pc = IF p'.progressRes = "ok" /\ ~M.wasInterrupted THEN "fill" ELSE "pass"
       /\ th'[t].inDataSize = 0 /\ th'[t].inDataSize_Start = 0
       /\ th'[t].inBuf = <<>> <=> th[t].inBuf = <<>>
       /\ ~th'[t].canRead
       /\ p'.blockIndex = p.blockIndex + 1 /\ p'.exitThread = p.exitThread
       /\ p'.interruptIndex = p.interruptIndex
       /\ p'.numStartedThreads = p.numStartedThreads
       /\ Progress /\ SameStops /\ SameInput /\ SameCall /\ OnlyThread(t)
  BY <1>2, Zenon DEF ReadWaitStep
<1>13. /\ job'.pc = "mt" /\ job'.blocks = job.blocks /\ job'.emitted = job.emitted
       /\ Started' = Started /\ Written' = Written /\ LastBlock' = LastBlock
       /\ job'.limit = job.limit
  BY <1>4, <1>12 DEF SameCall, SameInput, Started, Written, LastBlock
<1>14. \A u \in Threads \ {t} : SameThread(u) /\ th'[u] = th[u]
  BY <1>12 DEF OnlyThread, SameThread
<1>15. Bounds'
  <2>1. CrossBounds' BY <1>1, <1>12, CrossStays
  <2>2. ThreadBounds(t)'
    <3>1. LastBlock' \in Nat /\ InBufSize \in Nat BY <1>1, <1>4, <1>13, Place, Numbers
    <3>2. Len(th'[t].inBuf) \in Nat BY <1>2 DEF Typed, ThreadRecs
    <3> QED BY <3>1, <3>2, <1>8, <1>11, <1>12 DEF ThreadBounds
  <2>3. p'.cross = p.cross BY <1>12 DEF SameInput
  <2> QED BY <2>1, <2>2, <2>3, <1>1, <1>4, <1>13, <1>14, BoundsStay
<1>16. Hits_Known'
  <2>1. /\ p'.wasInterrupted = p.wasInterrupted /\ p'.readRes = p.readRes
        /\ p'.readPos = p.readPos /\ p'.readWasFinished = p.readWasFinished
    BY <1>12 DEF SameStops, SameInput
  <2>2. p.readPos <= p'.readPos BY <1>1, <2>1 DEF Typed, MtDecRecs
  <2> QED BY <2>1, <2>2, <1>1, <1>2, <1>4, <1>12, HitsStay
<1>17. FilledOK' BY <1>1, <1>12, <1>13 DEF FilledOK, SameStops
<1>18. /\ p.progressRes \in {"ok", "progress"} /\ p'.progressRes \in {"ok", "progress"}
       /\ p.progressRes # "ok" => p'.progressRes # "ok"
       /\ p.interruptIndex \in Nat
  BY <1>1, <1>2, <1>12 DEF Typed, MtDecRecs, Progress
<1>19. ErrorsStay BY <1>12, <1>18 DEF ErrorsStay
<1>20. Fresh' => Fresh BY <1>12, <1>18 DEF Fresh, SameStops
<1>21. Interrupted(p.blockIndex) => p.interruptIndex # 0 /\ p.interruptIndex < p.blockIndex
  BY <1>6, <1>18 DEF Interrupted
<1>22. Rules(w, k, B)'
  <2>1. ~GoesOnSingle' BY <1>7, <1>12 DEF Rules, GoesOnSingle, SameStops
  <2>2. ASSUME NEW u \in 0..Started - 1 PROVE LocalRules(u)'
    <3>1. u \in Threads BY <1>1, <1>7, <1>6, InRingType
    <3>2. CASE u = t
      BY <3>2, <1>8, <1>9, <1>11, <1>12, <1>21 DEF LocalRules, Stops, Works, Reads
    <3>3. CASE u # t BY <1>7, <3>1, <3>3, <1>1, <1>2, <1>14, <1>19, OthersRules DEF Rules
    <3> QED BY <3>2, <3>3
  <2>3. ASSUME p'.interruptIndex # 0, Fresh'
        PROVE  \E u \in 0..Started' - 1 :
                  /\ Works(u)' /\ th'[u].loc.blockIndex = p'.interruptIndex
                  /\ th'[u].loc.codeRes = "data"
    BY <2>3, <1>7, <1>12, <1>20, <1>1, <1>6, <1>9, InRingType, <1>13, <1>14 DEF Rules, Works
  <2>4. ASSUME p'.numFilledThreads > 0
        PROVE  /\ ~Fresh' /\ p'.interruptIndex # 0 /\ p'.interruptIndex < B
               /\ \/ p'.numFilledThreads + k <= Started'
                  \/ /\ p'.numFilledThreads + k = Started' + 1
                     /\ \E u \in 0..Started' - 1 : Closes(u)' /\ th'[u].inDataSize = 0
               /\ \A u \in 0..Started' - 1 : Reads(u)' =>
                    \/ p'.numFilledThreads + k < Started'
                    \/ th'[u].pc = "pass" /\ th'[u].inDataSize = 0
    <3>1. p'.numFilledThreads = p.numFilledThreads BY <1>12 DEF SameStops
    <3>2. /\ ~Fresh /\ p.interruptIndex # 0 /\ p.interruptIndex < B
          /\ \/ p.numFilledThreads + k <= Started
             \/ \E u \in 0..Started - 1 : Closes(u)
      BY <2>4, <3>1, <1>7 DEF Rules
    <3>3. p.numFilledThreads + k <= Started BY <3>2, <1>1, <1>6, <1>7, <1>10, InRingType
    <3>4. Interrupted(p.blockIndex) BY <3>2, <1>6, <1>8, <1>18 DEF Interrupted
    <3>5. ASSUME NEW u \in 0..Started' - 1, Reads(u)'
          PROVE th'[u].pc = "pass" /\ th'[u].inDataSize = 0
      BY <1>1, <1>6, <1>7, <1>13, InRingType, <3>5, <1>8, <1>14, <3>4, <1>11, <1>12 DEF Reads
    <3> QED BY <3>1, <3>2, <3>3, <3>5, <1>12, <1>13, <1>20
  <2> QED BY <2>1, <2>2, <2>3, <2>4, <1>13 DEF Rules
<1>23. ASSUME Fresh' PROVE Flows(w, k)' \/ NoMore(w, k)'
  <2>0. Fresh /\ p'.progressRes = "ok" /\ p.progressRes = "ok" BY <1>23, <1>20 DEF Fresh
  <2>1. /\ job.blocks \in Inputs
        /\ Written \in 0..LastBlock /\ LastBlock \in Nat \ {0}
        /\ \A b \in 0..LastBlock : BlockEnd(b) \in Nat
        /\ \A b \in 1..LastBlock : BlockEnd(b - 1) < BlockEnd(b)
    BY <1>1, <1>4, Place, BlockFacts
  <2>2. /\ \A x : Continues(x)' <=> Continues(x)
        /\ \A x : BlockEnd(x)' = BlockEnd(x) /\ BlockStart(x)' = BlockStart(x)
        /\ Drained' <=> Drained
        /\ p'.readWasFinished = p.readWasFinished /\ p'.readPos = p.readPos
        /\ \A u : Offset(w, u)' = Offset(w, u)
    BY <1>12, <1>13 DEF SameInput, Continues, BlockEnd, BlockStart, Drained, Offset, Started
  <2>3. \A u \in Threads : ~th'[u].canRead BY <1>10, <1>12, <1>14 DEF HasRead
  <2>4. th'[t].pc = "fill" \/ M.wasInterrupted BY <2>0, <1>12
  <2>5. CASE Flows(w, k)
    <3>1. /\ Written + 1 + k <= LastBlock
          /\ Continues(BlockStart(Written + 1 + k))
          /\ p.readWasFinished => p.readPos = job.limit
      BY <2>5, <1>3, <1>4 DEF Flows
    <3>2. ASSUME NEW u \in 0..Started' - 1, Works(u)' \/ Reads(u)', ~th'[u].loc.wasInterrupted
          PROVE  Piece(u, Written + 1 + Offset(w, u), BlockStart(Written + 1 + Offset(w, u)))'
      <4>0. u \in Threads /\ u \in 0..Started - 1 BY <1>1, <1>6, <1>7, <1>13, InRingType
      <4>1. PICK b \in Nat \ {0} : b = Written + 1 + Offset(w, u)
        BY <4>0, <1>1, <1>5, OffsetFacts, <2>1
      <4>2. (Written + 1 + Offset(w, u))' = b BY <4>1, <2>2, <1>13
      <4>3. CASE u = t
        <5>1. b \in 1..LastBlock /\ b = Written + 1 + k BY <4>1, <4>3, <3>1, <2>1, <1>6, <1>8
        <5>2. PICK s \in Nat : s = BlockStart(b) /\ s <= BlockEnd(b)
          BY <5>1, <2>1 DEF BlockStart
        <5>3. th'[t].pc = "fill" BY <3>2, <4>3, <2>4
        <5>4. BlockStart(b)' = s /\ Continues(s)' /\ BlockEnd(b)' = BlockEnd(b)
          BY <5>1, <5>2, <3>1, <2>2
        <5>5. job.blocks \in Inputs /\ b \in 1..LastBlock /\ s <= BlockEnd(b)
          BY <5>1, <5>2, <2>1
        <5>6. M.finish => p'.readWasFinished /\ p'.readPos = job'.limit
          BY <3>1, <2>2, <1>11, <1>13
        <5>8. p'.readWasFinished => M.finish BY <2>2, <1>11
        <5>7. Piece(t, b, s)'
          BY <5>3, <5>4, <5>5, <5>6, <5>8, <1>2, <1>11, <1>12, <1>13, EmptyPiece
        <5> QED BY <5>4, <5>7, <4>2, <4>3
      <4>4. CASE u # t
        <5>1. Works(u) \/ Reads(u)
          BY <4>0, <4>4, <3>2, <1>14, SameThreadDoes
        <5>2. Piece(u, b, BlockStart(b))
          BY <5>1, <4>0, <4>1, <4>4, <3>2, <2>5, <1>14 DEF Flows
        <5>3. Piece(u, b, BlockStart(b))'
          BY <5>1, <5>2, <4>0, <4>4, <2>1, <1>1, <1>2, <1>12, <1>13, <1>14, OthersFlow
        <5> QED
          BY <5>3, <4>2
      <4> QED BY <4>3, <4>4
    <3>3. p'.blockIndex > 1 BY <1>6, <1>12, <1>5
    <3>4. 0 \in Threads BY Numbers
    <3>5. CASE t = 0
      BY <3>5, <2>4, <1>8, <1>11, <3>2, <3>3, <2>3, <1>6, <1>7, <1>1, <1>13, InRingType DEF
         Flows
    <3>6. CASE t # 0
      <4>1. p.blockIndex > 1 BY <2>5, <1>5, <1>6, <1>8, <1>1, <1>4, OffsetFacts, <3>6 DEF Flows
      <4>2. th'[0] = th[0] /\ (Works(0)' <=> Works(0)) /\ (Reads(0)' <=> Reads(0))
        BY <3>4, <3>6, <1>14 DEF Works, Reads
      <4>3. /\ th[0].pc # "fill" =>
                 \/ th[0].inBuf # <<>>
                 \/ (Works(0) \/ Reads(0)) /\ (th[0].loc.isAllocError \/ th[0].loc.wasInterrupted)
            /\ th[0].pc = "fill" /\ th[0].loc.link > 0 => th[0].inBuf # <<>>
        BY <4>1, <2>5 DEF Flows
      <4> QED BY <3>2, <3>3, <4>2, <4>3, <2>3, <1>6, <1>7, <1>1, <1>13, InRingType DEF Flows
    <3> QED BY <3>5, <3>6
  <2>6. CASE NoMore(w, k)
    <3>1. /\ w = 0 /\ Drained /\ th[0].inBuf # <<>>
          /\ Written < LastBlock /\ job.limit < BlockEnd(Written + 1)
          /\ \A u \in 0..Started - 1 : HasRead(u) \/ Works(u) => u = 0
      BY <2>6 DEF NoMore
    <3>2. t = 0 /\ 0 \in Threads BY <3>1, <1>4, <1>9, Numbers
    <3>3. ~Interrupted(p.blockIndex) BY <2>0, <1>7, <3>1, <3>2, <1>9 DEF Rules, Interrupted
    <3>4. th'[0].pc = "fill" /\ ~M.wasInterrupted BY <3>2, <3>3, <2>0, <1>11, <1>12
    <3>5. PICK b \in 1..LastBlock : b = Written + 1 BY <3>1, <2>1
    <3>6. PICK s \in Nat : s = job.limit + 1 /\ s <= BlockEnd(b)
      BY <1>1, <2>1, <3>5, <3>1 DEF Typed, JobRecs
    <3>7. Continues(s) BY <3>6, <3>1, <1>1 DEF Continues, Drained, Typed, JobRecs
    <3>8. M.finish /\ p'.readWasFinished /\ p'.readPos = job'.limit
      BY <3>1, <1>11, <1>13, <2>2 DEF Drained
    <3>9. /\ job.blocks \in Inputs /\ b \in 1..LastBlock /\ s <= BlockEnd(b) /\ Continues(s)'
      BY <3>5, <3>6, <3>7, <2>1, <2>2
    <3>10. Piece(0, b, s)' BY <3>2, <3>4, <3>8, <3>9, <1>2, <1>11, <1>12, <1>13, EmptyPiece
    <3>11. ASSUME NEW u \in 0..Started' - 1, HasRead(u)' \/ Works(u)' PROVE u = 0
      BY <1>1, <1>6, <1>7, <1>13, InRingType, <3>11, <1>14, <3>1, <3>2 DEF HasRead, Works, Reads
    <3>12. (Written + 1)' = b /\ (job.limit + 1)' = s /\ BlockEnd(Written + 1)' = BlockEnd(Written + 1)
           /\ (Written < LastBlock)' /\ (job.limit < BlockEnd(Written + 1))'
      BY <3>1, <3>5, <3>6, <2>2, <1>13
    <3>13. th'[0].inBuf # <<>> BY <3>1, <3>2, <1>12
    <3>14. NoMore(w, k)'
      BY <3>1, <3>2, <3>4, <3>8, <3>10, <3>11, <3>12, <3>13, <2>2, <1>11 DEF NoMore, Works
    <3> QED BY <3>14
  <2> QED BY <2>0, <2>5, <2>6, <1>5 DEF Turn
<1>24. p'.progressRes # "ok" \/ "write" \in job'.hit \/ Fresh' \/ Complete'
  BY <1>5, <1>12, <1>13, <1>18 DEF Turn, Fresh, SameStops, Complete, BlockEnd, Kind, Progress
<1>25. Turn(w, k, B)' BY <1>8, <1>22, <1>23, <1>24 DEF Turn
<1>26. B \in 1..p'.blockIndex /\ w \in 0..Started' - 1 /\ k \in 0..Started'
  BY <1>5, <1>6, <1>12, <1>13
<1>27. ~p'.exitThread /\ th'[0].pc # "ret" BY Numbers, <1>4, <1>12, <1>14
<1> QED BY <1>2, <1>13, <1>15, <1>16, <1>17, <1>25, <1>26, <1>27, RunsOn

-----------------------------------------------------------------------------
(* Reading: no memory, interruption, errors, and whole links.              *)

(* A thread goes on reading its block, or has come to its end. *)
LEMMA FillInv ==
    ASSUME Inv, Typed', NEW t \in Threads, FillStep(t),
           CrossBounds', ThreadBounds(t)', LocalRules(t)', Hits_Known',
           p.progressRes # "ok" => p'.progressRes # "ok",
           job'.limit <= job.limit, job.hit \subseteq job'.hit, p.readPos <= p'.readPos,
           \/ th'[t].inBuf # <<>>
           \/ th'[t].pc = "pass" /\ th'[t].loc.isAllocError,
           \A b \in 1..LastBlock, s \in Nat :
              Fresh' /\ Piece(t, b, s) /\ BlockStart(b) <= s /\ ~th'[t].loc.wasInterrupted
                 => Piece(t, b, s)',
           \A b \in 1..LastBlock :
              Fresh' /\ Piece(t, b, job.limit + 1) /\ Drained /\ th[t].loc.finish
              /\ th[t].inBuf # <<>> /\ p.interruptIndex = 0
                 => /\ Drained' /\ job'.limit = job.limit /\ th'[t].loc.finish
                    /\ ~th'[t].loc.isAllocError /\ ~th'[t].loc.wasInterrupted
    PROVE  Inv'
<1>1. Typed /\ Bounds /\ Hits_Known /\ FilledOK BY DEF Inv
<1>2. /\ th[t].pc = "fill" /\ th'[t].pc \in {"fill", "pass"} /\ OnlyThread(t)
      /\ th'[t].canRead = th[t].canRead /\ th'[t].canWrite = th[t].canWrite
      /\ th'[t].loc.blockIndex = th[t].loc.blockIndex
      /\ SameTokens /\ SameStops /\ SameCall
      /\ p'.interruptIndex = p.interruptIndex
  BY DEF FillStep
<1>3. Reads(t) /\ Reads(t)' /\ ~Works(t) /\ ~Works(t)' /\ HasRead(t)
  BY <1>2 DEF Reads, Works, HasRead
<1>4. /\ t \in 0..Started - 1 /\ job.pc = "mt" /\ ~p.exitThread /\ th[0].pc # "ret"
      /\ \E w \in 0..Started - 1, k \in 0..Started, B \in 1..p.blockIndex :
            Turn(w, k, B)
  BY <1>3, InRuns
<1>5. PICK w \in 0..Started - 1, k \in 0..Started, B \in 1..p.blockIndex :
            Turn(w, k, B)
  BY <1>4
<1>6. Started \in Nat /\ p.blockIndex \in Nat /\ w \in Nat /\ k \in Nat /\ B \in Nat
  BY <1>1 DEF Typed, MtDecRecs, Started
<1>7. Ring(w, k, B) /\ Rules(w, k, B) BY <1>5 DEF Turn
<1>8. Ring(w, k, B)' BY <1>1, <1>2, <1>3, <1>4, <1>6, <1>7, RingStays
<1>9. /\ k < Started /\ Offset(w, t) = k
      /\ \A u \in Threads : (HasRead(u) => u = t) /\ ~Closes(u)
  BY <1>1, <1>3, <1>4, <1>6, <1>7, Holder
<1>10. 0..Started - 1 \subseteq Threads /\ 0 \in Threads
  BY <1>1, <1>6, <1>7, InRingType, Numbers
<1>11. ~th[t].canRead BY <1>3, <1>4, <1>7 DEF Ring, InRing
<1>12. \A u \in Threads : ~th'[u].canRead BY <1>2, <1>9, <1>11 DEF OnlyThread, HasRead
<1>13. /\ job'.pc = "mt" /\ job'.blocks = job.blocks /\ job'.emitted = job.emitted
       /\ Started' = Started /\ Written' = Written /\ LastBlock' = LastBlock
       /\ p'.blockIndex = p.blockIndex /\ p'.exitThread = p.exitThread
  BY <1>2, <1>4 DEF SameCall, SameTokens, Started, Written, LastBlock
<1>14. \A u \in Threads \ {t} : SameThread(u) /\ th'[u] = th[u] /\ ~Reads(u)
  BY <1>2, <1>9 DEF OnlyThread, SameThread, HasRead
<1>15. Bounds' BY <1>1, <1>4, <1>13, <1>14, BoundsStay
<1>16. FilledOK' BY <1>1, <1>2, <1>13 DEF FilledOK, SameStops
<1>17. ErrorsStay BY <1>1, <1>2, SMTT(30) DEF ErrorsStay, Typed, MtDecRecs
<1>18. p'.progressRes \in {"ok", "progress"} /\ p.progressRes \in {"ok", "progress"}
  BY <1>1 DEF Typed, MtDecRecs
<1>19. Fresh' => Fresh BY <1>2, <1>18 DEF Fresh, SameStops
<1>20. Rules(w, k, B)'
  <2>1. ~GoesOnSingle' BY <1>2, <1>7 DEF Rules, GoesOnSingle, SameStops
  <2>2. ASSUME NEW u \in 0..Started - 1 PROVE LocalRules(u)'
    BY <1>10, <1>7, <1>1, <1>14, <1>17, OthersRules DEF Rules
  <2>3. ASSUME p'.interruptIndex # 0, Fresh'
        PROVE  \E u \in 0..Started' - 1 :
                  /\ Works(u)' /\ th'[u].loc.blockIndex = p'.interruptIndex
                  /\ th'[u].loc.codeRes = "data"
    BY <2>3, <1>2, <1>7, <1>19, <1>3, <1>10, <1>13, <1>14 DEF Rules, Works
  <2>4. ASSUME p'.numFilledThreads > 0
        PROVE  /\ ~Fresh' /\ p'.interruptIndex # 0 /\ p'.interruptIndex < B
               /\ \/ p'.numFilledThreads + k <= Started'
                  \/ /\ p'.numFilledThreads + k = Started' + 1
                     /\ \E u \in 0..Started' - 1 : Closes(u)' /\ th'[u].inDataSize = 0
               /\ \A u \in 0..Started' - 1 : Reads(u)' =>
                    \/ p'.numFilledThreads + k < Started'
                    \/ th'[u].pc = "pass" /\ th'[u].inDataSize = 0
    <3>1. p'.numFilledThreads = p.numFilledThreads BY <1>2 DEF SameStops
    <3>2. /\ ~Fresh /\ p.interruptIndex # 0 /\ p.interruptIndex < B
          /\ \A u \in 0..Started - 1 : Reads(u) =>
                \/ p.numFilledThreads + k < Started
                \/ th[u].pc = "pass"
      BY <2>4, <3>1, <1>7 DEF Rules
    <3>3. p.numFilledThreads + k < Started BY <3>2, <1>2, <1>3, <1>4
    <3>4. p.numFilledThreads \in Nat BY <1>1 DEF Typed, MtDecRecs
    <3>5. p.numFilledThreads + k <= Started BY <3>3, <3>4, <1>6
    <3> QED BY <3>1, <3>2, <3>3, <3>5, <1>2, <1>13, <1>19
  <2> QED BY <2>1, <2>2, <2>3, <2>4, <1>13 DEF Rules
<1>21. ASSUME Fresh' PROVE Flows(w, k)' \/ NoMore(w, k)'
  <2>0. Fresh BY <1>19, <1>21
  <2>1. /\ job.blocks \in Inputs
        /\ Written \in 0..LastBlock /\ LastBlock \in Nat \ {0}
        /\ BlockStart(Written + 1) = BlockEnd(Written) + 1
        /\ \A b \in 0..LastBlock : BlockEnd(b) \in Nat
    BY <1>1, <1>4, Place
  <2>2. \A u : Offset(w, u)' = Offset(w, u) BY <1>13 DEF Offset
  <2>3. \A x : BlockEnd(x)' = BlockEnd(x) /\ BlockStart(x)' = BlockStart(x)
    BY <1>13 DEF BlockEnd, BlockStart
  <2>4. LocalRules(t) BY <1>4, <1>7 DEF Rules
  <2>5. ~th[t].loc.wasInterrupted BY <2>4, <1>2 DEF LocalRules
  <2>6. CASE Flows(w, k)
    <3>1. ASSUME NEW u \in 0..Started' - 1, Works(u)' \/ Reads(u)', ~th'[u].loc.wasInterrupted
          PROVE  Piece(u, Written + 1 + Offset(w, u), BlockStart(Written + 1 + Offset(w, u)))'
      <4>0. u \in Threads /\ u \in 0..Started - 1 BY <1>10, <1>13
      <4>1. PICK b \in Nat \ {0} : b = Written + 1 + Offset(w, u)
        <5>1. Offset(w, u) \in Nat BY <4>0, <1>1, <1>5, OffsetFacts
        <5> QED BY <5>1, <2>1
      <4>2. (Written + 1 + Offset(w, u))' = b BY <4>1, <2>2, <1>13
      <4>3. CASE u = t
        <5>1. Piece(t, b, BlockStart(b)) BY <4>0, <4>1, <4>3, <2>5, <2>6, <1>3 DEF Flows
        <5>2. b \in 1..LastBlock BY <5>1, <2>1 DEF Piece
        <5>3. PICK s \in Nat : s = BlockStart(b) BY <5>2, <2>1 DEF BlockStart
        <5>4. Piece(t, b, s) /\ BlockStart(b) <= s BY <5>1, <5>3
        <5>5. Piece(t, b, s)' BY <5>2, <5>4, <3>1, <4>3, <1>21
        <5> QED BY <5>5, <5>3, <4>2, <4>3, <2>3
      <4>4. CASE u # t
        <5>1. Works(u) \/ Reads(u)
          BY <4>0, <4>4, <3>1, <1>14, SameThreadDoes
        <5>2. Works(u) /\ ~th[u].loc.finish
          BY <5>1, <4>0, <4>4, <1>9, <1>14 DEF Closes
        <5>3. Piece(u, b, BlockStart(b))
          BY <5>1, <4>0, <4>1, <4>4, <3>1, <2>6, <1>14 DEF Flows
        <5>4. Piece(u, b, BlockStart(b))'
          BY <5>1, <5>2, <5>3, <4>0, <4>4, <2>1, <1>1, <1>13, <1>14, OthersFlow
        <5> QED
          BY <5>4, <4>2
      <4> QED BY <4>3, <4>4
    <3>2. p'.blockIndex = 1 => w = 0 BY <2>6, <1>13 DEF Flows
    <3>3. \A u \in 0..Started' - 1 : ~th'[u].canRead BY <1>10, <1>12, <1>13
    <3>5. CASE t = 0 BY <3>1, <3>2, <3>3, <3>5, <1>3 DEF Flows
    <3>6. CASE t # 0
      BY <1>10, <3>6, <1>14, <2>6, <3>1, <3>2, <3>3, <1>13 DEF Works, Reads, Flows
    <3> QED BY <3>5, <3>6
  <2>7. CASE NoMore(w, k)
    <3>1. /\ w = 0 /\ Drained /\ th[0].inBuf # <<>>
          /\ Written < LastBlock /\ job.limit < BlockEnd(Written + 1)
          /\ \A u \in 0..Started - 1 : HasRead(u) \/ Works(u) => u = 0
          /\ Reads(0) \/ Works(0) => th[0].loc.finish /\ Piece(0, Written + 1, job.limit + 1)
      BY <2>7 DEF NoMore
    <3>2. t = 0 BY <3>1, <1>3, <1>4
    <3>3. p.interruptIndex = 0 BY <2>0, <1>7, <3>1, <3>2, <1>3 DEF Rules
    <3>5. PICK b \in 1..LastBlock : b = Written + 1 BY <3>1, <2>1
    <3>6. PICK s \in Nat : s = job.limit + 1 /\ BlockStart(b) <= s
      <4>1. job.limit \in Nat /\ BlockStart(b) = BlockEnd(Written) + 1 /\ BlockEnd(Written) \in Nat
        BY <1>1, <2>1, <3>5 DEF Typed, JobRecs
      <4>2. BlockEnd(Written) <= job.limit BY <1>1, <1>4, <3>1 DEF Hits_Known, InOrder, Drained
      <4> QED BY <4>1, <4>2
    <3>7. Piece(t, b, job.limit + 1) /\ th[t].loc.finish /\ th[t].inBuf # <<>>
      BY <3>1, <3>2, <3>5, <1>3
    <3>8. /\ Drained' /\ job'.limit = job.limit /\ th'[t].loc.finish
          /\ ~th'[t].loc.isAllocError /\ ~th'[t].loc.wasInterrupted
      BY <3>1, <3>3, <3>7, <1>21
    <3>9. Piece(t, b, s) BY <3>6, <3>7
    <3>10. Piece(t, b, s)' BY <3>6, <3>8, <3>9, <1>21
    <3>11. ASSUME NEW u \in 0..Started' - 1, HasRead(u)' \/ Works(u)' PROVE u = 0
      BY <1>10, <1>13, <3>11, <1>14, <3>1, <3>2 DEF HasRead, Works, Reads
    <3>12. (Written + 1)' = b /\ (job.limit + 1)' = s
           /\ (Written < LastBlock)' /\ (job.limit < BlockEnd(Written + 1))'
      BY <3>1, <3>5, <3>6, <3>8, <2>3, <1>13
    <3>13. th'[0].inBuf # <<>> BY <3>2, <3>8
    <3>14. NoMore(w, k)' BY <3>1, <3>2, <3>8, <3>10, <3>11, <3>12, <3>13, <1>3 DEF NoMore
    <3> QED BY <3>14
  <2> QED BY <2>0, <2>6, <2>7, <1>5 DEF Turn
<1>22. p'.progressRes # "ok" \/ "write" \in job'.hit \/ Fresh' \/ Complete'
  <2>1. p.progressRes # "ok" \/ "write" \in job.hit \/ Fresh \/ Complete BY <1>5 DEF Turn
  <2>2. Fresh => p'.progressRes # "ok" \/ Fresh' BY <1>2 DEF Fresh, SameStops
  <2>3. Complete => Complete'
    <3>1. BlockEnd(Written + 1)' = BlockEnd(Written + 1) /\ Kind(Written + 1)' = Kind(Written + 1)
      BY <1>13 DEF BlockEnd, Kind
    <3>2. Written = LastBlock \/ BlockEnd(Written + 1) \in Nat BY <1>1, <1>4, Place
    <3>3. job.limit \in Nat /\ job'.limit \in Nat BY <1>1 DEF Typed, JobRecs
    <3> QED BY <3>1, <3>2, <3>3, <1>13 DEF Complete
  <2> QED BY <2>1, <2>2, <2>3
<1>23. Turn(w, k, B)' BY <1>8, <1>20, <1>21, <1>22 DEF Turn
<1>24. B \in 1..p'.blockIndex /\ w \in 0..Started' - 1 /\ k \in 0..Started'
  BY <1>5, <1>6, <1>13
<1>25. ~p'.exitThread /\ th'[0].pc # "ret" BY <1>10, <1>2, <1>4, <1>13, <1>14
<1> QED BY <1>13, <1>15, <1>16, <1>23, <1>24, <1>25, RunsOn

LEMMA FillingFacts ==
    ASSUME Inv, NEW t \in Threads, th[t].pc = "fill"
    PROVE  /\ Typed /\ Bounds /\ Hits_Known /\ job.pc = "mt" /\ job.blocks \in Inputs
           /\ LocalRules(t) /\ Reads(t) /\ p.readPos <= job.limit
           /\ th[t].loc.codeRes = "ok" /\ ~th[t].loc.threadingError /\ th[t].loc.codePos = 0
           /\ th[t].loc.res = "ok" /\ ~th[t].loc.wasInterrupted /\ ~th[t].loc.needCode
           /\ ~th[t].loc.isAllocError /\ ~th[t].loc.overflow
           /\ th[t].loc.link \in 0..Len(th[t].inBuf)
           /\ th[t].inBuf \in Seq(Seq(Nat)) /\ Len(th[t].inBuf) \in Nat
           /\ th[t].loc.link > 0 => p.cross = <<>>
<1>1. Typed /\ Bounds /\ Hits_Known BY DEF Inv
<1>2. Reads(t) BY DEF Reads
<1>3. /\ t \in 0..Started - 1 /\ job.pc = "mt"
      /\ \E w \in 0..Started - 1, k \in 0..Started, B \in 1..p.blockIndex :
            Turn(w, k, B)
  BY <1>2, InRuns
<1>4. LocalRules(t) BY <1>3 DEF Turn, Rules
<1>5. th[t].loc.link \in Nat /\ th[t].inBuf \in Seq(Seq(Nat))
  BY <1>1 DEF Typed, ThreadRecs, Locals
<1>6. Len(th[t].inBuf) \in Nat BY <1>5
<1>7. th[t].loc.link <= Len(th[t].inBuf) /\ (th[t].loc.link > 0 => p.cross = <<>>)
  BY <1>1 DEF Bounds
<1>8. job.blocks \in Inputs /\ p.readPos <= job.limit BY <1>1, <1>3 DEF Bounds
<1> QED BY <1>1, <1>2, <1>3, <1>4, <1>5, <1>6, <1>7, <1>8 DEF LocalRules

LEMMA AllocInv ==
    ASSUME Inv, NEW t \in Threads, AllocFails(t)
    PROVE  Inv'
<1>0. th[t].pc = "fill" /\ th[t].loc.link = Len(th[t].inBuf) BY DEF AllocFails
<1>1. /\ Typed /\ Bounds /\ Hits_Known /\ job.pc = "mt"
      /\ th[t].loc.codeRes = "ok" /\ ~th[t].loc.threadingError /\ th[t].loc.codePos = 0
      /\ th[t].loc.res = "ok" /\ ~th[t].loc.wasInterrupted
  BY <1>0, FillingFacts
<1>2. Typed' /\ AllocStep(t) BY <1>1, AllocMoves
<1> DEFINE T == th[t]
           U == th'[t]
           L == T.loc
           M == U.loc
<1>3. /\ FillStep(t) /\ SameInput /\ Fails("alloc")
      /\ U.pc = "pass" /\ U.inBuf = T.inBuf
      /\ U.inDataSize = T.inDataSize /\ U.inDataSize_Start = T.inDataSize_Start
      /\ SameRun(L, M) /\ M.link = L.link /\ M.block = L.block /\ M.state = L.state
      /\ M.finish = TRUE /\ M.isAllocError = TRUE
  BY <1>2, Zenon DEF AllocStep
<1>4. SameCall /\ SameStops /\ p'.interruptIndex = p.interruptIndex BY <1>3 DEF FillStep
<1>5. /\ p'.readPos = p.readPos /\ p'.cross = p.cross /\ p'.readRes = p.readRes
      /\ p'.readWasFinished = p.readWasFinished /\ job'.limit = job.limit
      /\ p.readPos \in Nat /\ job.limit \in Nat
      /\ p'.progressRes = p.progressRes /\ job.hit \subseteq job'.hit
      /\ job'.blocks = job.blocks
      /\ p'.wasInterrupted = p.wasInterrupted
  BY <1>1, <1>3, <1>4 DEF SameInput, Fails, Typed, MtDecRecs, JobRecs, SameCall, SameStops
<1>6. CrossBounds' BY <1>1, <1>3, CrossStays
<1>7. LastBlock' = LastBlock BY <1>5 DEF LastBlock
<1>8. ThreadBounds(t)' BY <1>1, <1>3, <1>7 DEF ThreadBounds, Bounds, Reads
<1>9. M.codeRes = "ok" /\ ~M.threadingError /\ M.codePos = 0 /\ M.res = "ok" /\ ~M.wasInterrupted
  BY <1>1, <1>3 DEF SameRun
<1>10. LocalRules(t)' BY <1>3, <1>9 DEF LocalRules, Reads, Works
<1>11. Hits_Known' BY <1>5, <1>1, <1>2, <1>3, <1>4, HitsStay
<1>12. ASSUME NEW b \in 1..LastBlock, NEW s \in Nat, Piece(t, b, s)
       PROVE  Piece(t, b, s)'
  <2>1. BlockEnd(b)' = BlockEnd(b)
    BY <1>5 DEF BlockEnd
  <2>2. Continues(s + T.inDataSize)
    BY <1>0, <1>12 DEF Piece, Filling
  <2>3. Follows(s + T.inDataSize)'
    BY <2>2, <1>3, <1>5 DEF Follows, Continues
  <2>4. Taken(t, b, s + T.inDataSize)'
    BY <2>3, <1>3 DEF Taken
  <2> QED
    BY <1>12, <2>1, <2>4, <1>3, <1>7 DEF Piece, Works
<1>13. ASSUME NEW b \in 1..LastBlock, Piece(t, b, job.limit + 1), Drained, th[t].inBuf # <<>>
       PROVE  FALSE
  BY <1>0, <1>13, <1>1, <1>5, EmptySeq DEF Piece, Typed, ThreadRecs, Locals, Filling, Continues,
     Drained
<1>141. p.readPos <= p'.readPos BY <1>5
<1>14. job'.limit <= job.limit /\ (p.progressRes # "ok" => p'.progressRes # "ok") BY <1>5
<1>15. th'[t].pc = "pass" /\ th'[t].loc.isAllocError BY <1>3
<1>16. \A b \in 1..LastBlock, s \in Nat :
          Fresh' /\ Piece(t, b, s) /\ BlockStart(b) <= s /\ ~th'[t].loc.wasInterrupted
             => Piece(t, b, s)'
  BY <1>12
<1>17. \A b \in 1..LastBlock :
          Fresh' /\ Piece(t, b, job.limit + 1) /\ Drained /\ th[t].loc.finish
          /\ th[t].inBuf # <<>> /\ p.interruptIndex = 0
             => /\ Drained' /\ job'.limit = job.limit /\ th'[t].loc.finish
                /\ ~th'[t].loc.isAllocError /\ ~th'[t].loc.wasInterrupted
  BY <1>13
<1> HIDE DEF T, U, L, M
<1> QED
  BY <1>2, <1>3, <1>5, <1>6, <1>8, <1>10, <1>11, <1>14, <1>141, <1>15, <1>16, <1>17, FillInv

(* The cross block is empty when the stream is read. *)
LEMMA HaltInv ==
    ASSUME Inv, NEW t \in Threads, Typed', HaltStep(t)
    PROVE  Inv'
<1> DEFINE T == th[t]
           U == th'[t]
           L == T.loc
           M == U.loc
           k == L.link + 1
           data == Units(p.readPos + 1, p.readPos + Full)
<1>1. /\ FillStep(t) /\ Progress
      /\ (L.link = 0 => p.cross = <<>>)
      /\ p'.readPos = p.readPos + Full
      /\ p'.readWasFinished = (p.readWasFinished \/ Full # InBufSize)
      /\ p'.readRes = p.readRes /\ p'.cross = p.cross /\ job'.limit = job.limit
      /\ U.pc = "pass" /\ U.inBuf = PutLink(T.inBuf, k, data)
      /\ U.inDataSize = T.inDataSize + Full
      /\ U.inDataSize_Start = IF k = 1 THEN Full ELSE T.inDataSize_Start
      /\ M = [L EXCEPT !.res = p'.progressRes, !.finish = Full # InBufSize,
                     !.wasInterrupted = Interrupted(L.blockIndex)]
      /\ p'.progressRes # "ok" \/ Interrupted(L.blockIndex)
  BY Zenon DEF HaltStep
<1>2. /\ th[t].pc = "fill" /\ SameCall /\ SameStops /\ p'.interruptIndex = p.interruptIndex
  BY <1>1 DEF FillStep
<1>3. /\ Typed /\ Bounds /\ Hits_Known /\ job.pc = "mt" /\ p.readPos <= job.limit
      /\ L.codeRes = "ok" /\ ~L.threadingError /\ L.codePos = 0
      /\ ~L.needCode /\ ~L.isAllocError /\ ~L.overflow
      /\ L.link \in 0..Len(T.inBuf) /\ T.inBuf \in Seq(Seq(Nat)) /\ Len(T.inBuf) \in Nat
      /\ L.link > 0 => p.cross = <<>>
  BY <1>2, FillingFacts
<1>4. /\ Full \in 0..InBufSize /\ p.readPos + Full <= job.limit /\ data \in Seq(Nat)
  BY <1>3, FullFacts
<1>5. /\ p.readPos \in Nat /\ job.limit \in Nat /\ InBufSize \in Nat /\ L \in Locals
      /\ T.inDataSize \in Nat /\ T.inDataSize_Start \in Nat /\ p.interruptIndex \in Nat
  BY <1>3, Numbers DEF Typed, MtDecRecs, JobRecs, ThreadRecs
<1>6. p.cross = <<>> BY <1>1, <1>3
<1>7. CrossBounds' BY EmptySeq, <1>1, <1>4, <1>5, <1>6 DEF CrossBounds, Holds
<1>8. job'.blocks = job.blocks /\ LastBlock' = LastBlock /\ p'.wasInterrupted = p.wasInterrupted
      /\ job.hit \subseteq job'.hit
  BY <1>1, <1>2 DEF SameCall, LastBlock, SameStops, Progress
<1>9. /\ M.res = p'.progressRes /\ M.wasInterrupted = Interrupted(L.blockIndex)
      /\ M.block = L.block /\ M.blockIndex = L.blockIndex
      /\ M.codeRes = "ok" /\ ~M.threadingError /\ M.codePos = 0
      /\ ~M.needCode /\ ~M.isAllocError /\ ~M.overflow
  <2> HIDE DEF M
  <2> QED BY <1>1, <1>3, <1>5 DEF Locals
<1>10. ThreadBounds(t)'
  <2>1. L.block <= LastBlock /\ T.inDataSize_Start <= InBufSize /\ T.inDataSize_Start <= T.inDataSize
    BY <1>3 DEF Bounds
  <2>2. U.inDataSize_Start <= InBufSize /\ U.inDataSize_Start <= U.inDataSize
    BY <2>1, <1>1, <1>4, <1>5, SMTT(30)
  <2> QED BY <2>1, <2>2, <1>1, <1>8, <1>9 DEF ThreadBounds, Reads
<1>11. Interrupted(L.blockIndex) => p.interruptIndex # 0 /\ p.interruptIndex < L.blockIndex
  BY <1>5 DEF Interrupted, Locals
<1>12. LocalRules(t)' BY <1>1, <1>2, <1>9, <1>11 DEF LocalRules, Reads, Works, Stops
<1>13. Hits_Known'
  <2>1. p.readPos <= p'.readPos BY <1>1, <1>4, <1>5
  <2>2. p.readWasFinished => p'.readWasFinished BY <1>1
  <2> QED BY <2>1, <2>2, <1>1, <1>2, <1>3, <1>8, HitsStay
<1>14. U.inBuf # <<>>
  <2>1. Len(U.inBuf) >= k /\ k > 0 /\ U.inBuf \in Seq(Seq(Nat))
    <3>1. k \in 1..Len(T.inBuf) + 1 BY <1>3
    <3> QED BY <3>1, <1>1, <1>3, <1>4, PutLinkFacts
  <2> QED BY <2>1, <1>3, EmptySeq
<1>15. Fresh' => M.wasInterrupted BY <1>1, <1>9 DEF Fresh
<1>16. Drained => Full = 0 BY <1>5 DEF Drained, Full
<1>17. p.progressRes # "ok" => p'.progressRes # "ok" BY <1>1 DEF Progress
<1>18. job'.limit <= job.limit /\ p.readPos <= p'.readPos BY <1>1, <1>4, <1>5
<1>19. \A b \in 1..LastBlock, s \in Nat :
          Fresh' /\ Piece(t, b, s) /\ BlockStart(b) <= s /\ ~th'[t].loc.wasInterrupted
             => Piece(t, b, s)'
  BY <1>15, <1>1, Zenon
<1>20. \A b \in 1..LastBlock :
          Fresh' /\ Piece(t, b, job.limit + 1) /\ Drained /\ th[t].loc.finish
          /\ th[t].inBuf # <<>> /\ p.interruptIndex = 0
             => /\ Drained' /\ job'.limit = job.limit /\ th'[t].loc.finish
                /\ ~th'[t].loc.isAllocError /\ ~th'[t].loc.wasInterrupted
  <2> SUFFICES ASSUME Drained, p.interruptIndex = 0
               PROVE  Drained' /\ M.finish /\ ~M.wasInterrupted
    BY <1>1, <1>9
  <2>1. Full = 0 BY <1>16
  <2>2. Full # InBufSize BY <2>1, Numbers
  <2>3. M.finish BY <1>1, <1>5, <2>2 DEF Locals
  <2>4. ~M.wasInterrupted BY <1>9 DEF Interrupted
  <2>5. Drained'
    <3>1. p'.cross = <<>> BY <1>1, <1>6
    <3>2. job'.limit = job.limit /\ p'.readPos = p.readPos + Full BY <1>1
    <3>3. p'.readPos = job'.limit BY <3>2, <2>1, <1>5 DEF Drained
    <3>4. p'.readWasFinished BY <1>1, Zenon DEF Drained
    <3> QED BY <3>1, <3>3, <3>4 DEF Drained
  <2> QED BY <2>3, <2>4, <2>5
<1>21. th'[t].inBuf # <<>> BY <1>14
<1>22. FillStep(t) BY <1>1
<1> HIDE DEF T, U, L, M, k, data
<1> QED BY <1>22, <1>7, <1>8, <1>10, <1>12, <1>13, <1>17, <1>18, <1>19, <1>20, <1>21, FillInv

(* An empty link behind the last one changes nothing. *)
LEMMA EmptyLink ==
    ASSUME NEW inBuf \in Seq(Seq(Nat)), NEW k \in 1..Len(inBuf) + 1, NEW first \in Nat,
           NEW total \in Nat, NEW s \in Int, LinksHold(inBuf, first, total, s),
           LinkStart(first, k) >= total
    PROVE  LinksHold(PutLink(inBuf, k, <<>>), first, total, s)
<1>0. <<>> \in Seq(Nat) /\ k \in Nat \ {0} /\ Len(inBuf) \in Nat OBVIOUS
<1> DEFINE new == PutLink(inBuf, k, <<>>)
<1>1. /\ new \in Seq(Seq(Nat)) /\ Len(new) >= Len(inBuf)
      /\ \A j \in 1..Len(inBuf) : j # k => new[j] = inBuf[j]
  BY <1>0, PutLinkFacts
<1>2. Len(new) \in Nat /\ LinkStart(first, k) \in Nat BY <1>0, <1>1, LinkLine
<1> HIDE DEF new
<1>3. ASSUME NEW j \in Nat \ {0}, LinkStart(first, j) < total
      PROVE  /\ j <= Len(new)
             /\ LinkSize(first, total, j) <= Len(new[j])
             /\ \A i \in 1..LinkSize(first, total, j) :
                   new[j][i] = s + LinkStart(first, j) + i - 1
  <2>1. j # k BY <1>2, <1>3
  <2>2. /\ j <= Len(inBuf)
        /\ LinkSize(first, total, j) <= Len(inBuf[j])
        /\ \A i \in 1..LinkSize(first, total, j) :
              inBuf[j][i] = s + LinkStart(first, j) + i - 1
    BY <1>3 DEF LinksHold
  <2>3. new[j] = inBuf[j] /\ j <= Len(new) BY <2>1, <2>2, <1>0, <1>1, <1>2
  <2> QED BY <2>2, <2>3
<1>4. total > 0 => first > 0 BY DEF LinksHold
<1> QED BY <1>3, <1>4 DEF LinksHold, new

(* The input stream fails: the thread goes on, but reads no more. *)
LEMMA ReadErrorInv ==
    ASSUME Inv, NEW t \in Threads, Typed', ReadErrorStep(t)
    PROVE  Inv'
<1> DEFINE T == th[t]
           U == th'[t]
           L == T.loc
           M == U.loc
           k == L.link + 1
<1>1. /\ FillStep(t) /\ p'.progressRes = p.progressRes
      /\ L.link = 0 => p.cross = <<>>
      /\ p'.readPos = p.readPos /\ p'.cross = p.cross
      /\ p'.readWasFinished /\ p'.readRes = "read"
      /\ job'.limit \in p.readPos..job.limit /\ job'.limit - p.readPos < InBufSize
      /\ job'.hit = job.hit \cup {"read"} /\ "read" \notin job.hit
      /\ U.pc = "fill" /\ U.inBuf = PutLink(T.inBuf, k, <<>>)
      /\ U.inDataSize = T.inDataSize /\ U.inDataSize_Start = T.inDataSize_Start
      /\ M = [L EXCEPT !.finish = TRUE]
  BY Zenon DEF ReadErrorStep
<1>2. /\ th[t].pc = "fill" /\ SameCall /\ SameStops /\ p'.interruptIndex = p.interruptIndex
  BY <1>1 DEF FillStep
<1>3. /\ Typed /\ Bounds /\ Hits_Known /\ job.pc = "mt" /\ p.readPos <= job.limit
      /\ LocalRules(t) /\ job.blocks \in Inputs
      /\ ~L.isAllocError /\ ~L.wasInterrupted /\ ~L.overflow
      /\ L.link \in 0..Len(T.inBuf) /\ T.inBuf \in Seq(Seq(Nat)) /\ Len(T.inBuf) \in Nat
      /\ L.link > 0 => p.cross = <<>>
  BY <1>2, FillingFacts
<1>4. /\ p.readPos \in Nat /\ job.limit \in Nat /\ InBufSize \in Nat /\ L \in Locals
      /\ T.inDataSize \in Nat /\ T.inDataSize_Start \in Nat /\ L.link \in Nat
      /\ job'.limit \in Nat
  BY <1>3, Numbers DEF Typed, MtDecRecs, JobRecs, ThreadRecs, Locals
<1>5. p.cross = <<>> BY <1>1, <1>3, <1>4
<1>6. /\ M.link = L.link /\ M.block = L.block /\ M.state = L.state /\ M.finish = TRUE
      /\ M.blockIndex = L.blockIndex /\ M.res = L.res /\ M.wasInterrupted = L.wasInterrupted
      /\ M.codeRes = L.codeRes /\ M.threadingError = L.threadingError
      /\ M.codePos = L.codePos /\ M.needCode = L.needCode /\ M.needWrite = L.needWrite
      /\ M.isAllocError = L.isAllocError /\ M.overflow = L.overflow
  <2> HIDE DEF M
  <2> QED BY <1>1, <1>4 DEF Locals
<1>7. CrossBounds' BY EmptySeq, <1>1, <1>4, <1>5 DEF CrossBounds, Holds
<1>8. job'.blocks = job.blocks /\ LastBlock' = LastBlock /\ job'.pc = "mt"
      /\ job'.emitted = job.emitted /\ p'.wasInterrupted = p.wasInterrupted
      /\ job.hit \subseteq job'.hit
  BY <1>1, <1>2, <1>3 DEF SameCall, LastBlock, SameStops
<1>9. /\ U.inBuf \in Seq(Seq(Nat)) /\ Len(U.inBuf) >= Len(T.inBuf) /\ Len(U.inBuf) >= k
      /\ k \in 1..Len(T.inBuf) + 1
  <2>1. k \in 1..Len(T.inBuf) + 1 BY <1>3
  <2>2. <<>> \in Seq(Nat) OBVIOUS
  <2> HIDE DEF k
  <2>3. /\ PutLink(T.inBuf, k, <<>>) \in Seq(Seq(Nat))
        /\ Len(PutLink(T.inBuf, k, <<>>)) >= Len(T.inBuf)
        /\ Len(PutLink(T.inBuf, k, <<>>)) >= k
    BY <2>1, <2>2, <1>3, PutLinkFacts
  <2> QED BY <2>1, <2>3, <1>1
<1>10. ThreadBounds(t)' BY <1>3, <1>9, <1>6, <1>1, <1>5, <1>8 DEF Bounds, ThreadBounds, Reads
<1>11. LocalRules(t)' BY <1>1, <1>2, <1>3, <1>6 DEF LocalRules, Reads, Works, Stops
<1>12. Hits_Known'
  BY <1>1, <1>3, <1>8 DEF Hits_Known, InOrder, Written, LastBlock, Kind, BlockEnd
<1>13. U.inBuf # <<>> BY <1>9, EmptySeq
<1>14. ASSUME NEW b \in 1..LastBlock, NEW s \in Nat, Piece(t, b, s)
       PROVE  Piece(t, b, s)'
  <2>1. BlockEnd(b)' = BlockEnd(b) /\ Kind(b)' = Kind(b)
        /\ LastParsed(b)' = LastParsed(b)
    BY <1>8 DEF BlockEnd, Kind, LastParsed
  <2>2. Filling(t, b, s) /\ LinksHold(T.inBuf, T.inDataSize_Start, T.inDataSize, s)
    BY <1>2, <1>14 DEF Piece
  <2>3. LinkStart(T.inDataSize_Start, k) >= T.inDataSize
    <3>1. CASE L.link = 0 BY <2>2, <3>1 DEF Filling, LinkStart
    <3>2. CASE L.link > 0 BY <2>2, <3>2, <1>4 DEF Filling
    <3> QED BY <3>1, <3>2, <1>4
  <2>4. LinksHold(U.inBuf, U.inDataSize_Start, U.inDataSize, s)
    <3> HIDE DEF k
    <3>1. s \in Int OBVIOUS
    <3>2. LinksHold(PutLink(T.inBuf, k, <<>>), T.inDataSize_Start, T.inDataSize, s)
      BY <2>2, <2>3, <3>1, <1>3, <1>4, <1>9, EmptyLink
    <3> QED BY <3>2, <1>1
  <2>5. Filling(t, b, s)'
    BY <1>3, <1>4, <1>9, <2>2, <1>1, <2>1, <1>5, <1>6, SMTT(30) DEF Filling, Continues
  <2> QED BY <2>1, <2>4, <2>5, <1>1, <1>6, <1>8, <1>14 DEF Piece, Works
<1>15. \A b \in 1..LastBlock, s \in Nat :
          Fresh' /\ Piece(t, b, s) /\ BlockStart(b) <= s /\ ~th'[t].loc.wasInterrupted
             => Piece(t, b, s)'
  BY <1>14
<1>16. Drained => Drained' /\ job'.limit = job.limit BY <1>1, <1>4 DEF Drained
<1>17. \A b \in 1..LastBlock :
          Fresh' /\ Piece(t, b, job.limit + 1) /\ Drained /\ th[t].loc.finish
          /\ th[t].inBuf # <<>> /\ p.interruptIndex = 0
             => /\ Drained' /\ job'.limit = job.limit /\ th'[t].loc.finish
                /\ ~th'[t].loc.isAllocError /\ ~th'[t].loc.wasInterrupted
  BY <1>3, <1>6, <1>16
<1>18. job'.limit <= job.limit /\ p.readPos <= p'.readPos BY <1>1, <1>4
<1>19. p.progressRes # "ok" => p'.progressRes # "ok" BY <1>1
<1>20. FillStep(t) /\ th'[t].inBuf # <<>> BY <1>1, <1>13
<1> HIDE DEF T, U, L, M, k
<1> QED BY <1>20, <1>7, <1>8, <1>10, <1>11, <1>12, <1>15, <1>17, <1>18, <1>19, FillInv

(* Links begin in order. *)
LEMMA LinkOrder ==
    ASSUME NEW first \in Nat, NEW j \in Nat \ {0}, NEW k \in Nat \ {0}, j <= k
    PROVE  LinkStart(first, j) <= LinkStart(first, k)
  BY Numbers, LinkLine DEF LinkStart

(* Another link behind those that are full. *)
LEMMA LinksGrow ==
    ASSUME NEW inBuf \in Seq(Seq(Nat)), NEW k \in 1..Len(inBuf) + 1, NEW first \in Nat,
           NEW n \in Nat, NEW s \in Int, LinksHold(inBuf, first, n, s),
           n = LinkStart(first, k), k > 1 => n > 0,
           NEW link \in Seq(Nat), NEW size \in Nat, size <= Len(link), size <= InBufSize,
           Holds(link, s + n)
    PROVE  LinksHold(PutLink(inBuf, k, link), IF k = 1 THEN size ELSE first, n + size, s)
<1>0. k \in Nat \ {0} /\ Len(inBuf) \in Nat /\ InBufSize \in Nat /\ Len(link) \in Nat
  BY Numbers
<1> DEFINE new == PutLink(inBuf, k, link)
           f == IF k = 1 THEN size ELSE first
<1>1. /\ new \in Seq(Seq(Nat)) /\ Len(new) >= Len(inBuf) /\ Len(new) >= k /\ new[k] = link
      /\ \A j \in 1..Len(inBuf) : j # k => new[j] = inBuf[j]
  BY <1>0, PutLinkFacts
<1>2. Len(new) \in Nat /\ f \in Nat /\ (f = first \/ k = 1) BY <1>1
<1>3. k = 1 => n = 0 /\ f = size BY <1>0, LinkLine
<1>4. k > 1 => f = first OBVIOUS
<1> HIDE DEF new, f
<1>5. LinkStart(f, k) = n BY <1>2, <1>3, <1>0, <1>4 DEF LinkStart
<1>6. LinkStart(f, k + 1) = n + IF k = 1 THEN f ELSE InBufSize
  <2>1. LinkStart(f, k + 1) = LinkStart(f, k) + IF k = 1 THEN f ELSE InBufSize
    BY <1>0, <1>2, LinkLine
  <2> QED BY <2>1, <1>5
<1>7. ASSUME NEW j \in Nat \ {0}, LinkStart(f, j) < n + size
      PROVE  /\ j <= Len(new)
             /\ LinkSize(f, n + size, j) <= Len(new[j])
             /\ \A i \in 1..LinkSize(f, n + size, j) :
                   new[j][i] = s + LinkStart(f, j) + i - 1
  <2>0. LinkStart(f, j) \in Nat BY <1>2, LinkLine
  <2>1. j <= k
    <3>1. ASSUME j > k PROVE FALSE
      <4>1. k + 1 <= j /\ k + 1 \in Nat \ {0} BY <1>0, <3>1
      <4>2. LinkStart(f, k + 1) <= LinkStart(f, j) BY <4>1, <1>2, LinkOrder
      <4>3. n + size <= LinkStart(f, k + 1) BY <1>3, <1>6, <1>0
      <4>4. LinkStart(f, k + 1) \in Nat BY <4>1, <1>2, LinkLine
      <4> QED BY <4>2, <4>3, <4>4, <1>7, <2>0
    <3> QED BY <3>1, <1>0
  <2>2. CASE j = k
    <3>1. LinkSize(f, n + size, j) = size BY <2>2, <1>5, <1>0, <1>2, <1>3, SMTT(30) DEF LinkSize
    <3>2. \A i \in 1..size : link[i] = (s + n) + i - 1 BY <1>0 DEF Holds
    <3> QED BY <3>1, <3>2, <2>2, <1>0, <1>1, <1>2, <1>5
  <2>3. CASE j < k
    <3>1. f = first /\ k > 1 BY <2>3, <1>0, <1>4
    <3>2. LinkStart(first, j + 1) <= n /\ LinkStart(first, j + 1) =
             LinkStart(first, j) + IF j = 1 THEN first ELSE InBufSize
      <4>1. j + 1 \in Nat \ {0} /\ j + 1 <= k BY <2>3, <1>0
      <4>2. LinkStart(first, j + 1) <= LinkStart(first, k) BY <4>1, <1>0, LinkOrder
      <4> QED BY <4>2, LinkLine
    <3>3. PICK full \in Nat : full = IF j = 1 THEN first ELSE InBufSize BY <1>0
    <3>4. PICK a \in Nat : a = LinkStart(first, j) BY <2>0, <3>1
    <3>5. a + full <= n BY <3>2, <3>3, <3>4
    <3>6. first > 0 /\ InBufSize > 0
      <4>1. n > 0 BY <3>1
      <4> QED BY <4>1, Numbers DEF LinksHold
    <3>7. full > 0 BY <3>3, <3>6
    <3>8. a < n BY <3>5, <3>7
    <3>9. LinkSize(first, n, j) = full /\ LinkSize(f, n + size, j) = full
      <4>1. ~(n - a < full) /\ ~((n + size) - a < full) BY <3>5
      <4> QED BY <4>1, <3>1, <3>3, <3>4 DEF LinkSize
    <3>10. /\ j <= Len(inBuf) /\ full <= Len(inBuf[j])
           /\ \A i \in 1..full : inBuf[j][i] = s + a + i - 1
      BY <3>4, <3>8, <3>9 DEF LinksHold
    <3>11. new[j] = inBuf[j] /\ j <= Len(new) BY <3>10, <2>3, <1>0, <1>1, <1>2
    <3> QED BY <3>1, <3>4, <3>9, <3>10, <3>11
  <2> QED BY <2>1, <2>2, <2>3, <1>0, SMTT(30)
<1>8. n + size > 0 => f > 0 BY <1>3, <1>0, <1>4 DEF LinksHold
<1>9. LinksHold(new, f, n + size, s) BY <1>7, <1>8 DEF LinksHold
<1> QED BY <1>9 DEF new, f

(* A link of a thread's input is filled with data, from unit a on. *)
Links(t, data, a, finish, fromCross) ==
    /\ LinkStep(t, data, a, finish, fromCross, Block(t, data))
    /\ data \in Seq(Nat) /\ Holds(data, a) /\ Len(data) <= InBufSize
    /\ a + Len(data) = p'.readPos + 1 /\ a + Len(p.cross) = p.readPos + 1
    /\ p'.readPos <= job.limit /\ p.readPos <= p'.readPos
    /\ p.readWasFinished => p'.readWasFinished
    /\ fromCross \/ p.cross = <<>>
    /\ ~finish => data # <<>> /\ (th[t].loc.link > 0 => Len(data) = InBufSize)
    /\ \A b \in 1..LastBlock, s \in Nat :
          Filling(t, b, s) => /\ finish => p'.readWasFinished /\ p'.readPos = job.limit
                              /\ p'.readWasFinished => p'.readPos = job.limit
    /\ Drained => data = <<>> /\ finish /\ p'.readWasFinished /\ p'.readPos = job.limit

(* What that changes. *)
LinkKnown(t, data, a) ==
    LET T == th[t]
            U == th'[t]
            M == U.loc
            k == T.loc.link + 1
            size == U.inDataSize - T.inDataSize
        IN
        /\ Block(t, data) \in 0..LastBlock
        /\ k \in Nat /\ k > 0 /\ k \in 1..Len(T.inBuf) + 1
        /\ T.inDataSize \in Nat /\ U.inDataSize \in Nat
        /\ Len(data) \in Nat /\ Len(p'.cross) \in Nat
        /\ size \in 0..Len(data)
        /\ U.inBuf \in Seq(Seq(Nat)) /\ Len(U.inBuf) \in Nat /\ k <= Len(U.inBuf)
        /\ \E link \in Seq(Nat) : /\ U.inBuf = PutLink(T.inBuf, k, link)
                                  /\ size <= Len(link) /\ Holds(link, a)
        /\ U.inDataSize_Start = IF k = 1 THEN size ELSE T.inDataSize_Start
        /\ M.link = k /\ M.block = Block(t, data)
        /\ M.state \in {"continue", "new", "end", "overflow"}
        /\ M.state # "end" /\ ~M.isAllocError =>
              Len(p'.cross) = Len(data) - size /\ Holds(p'.cross, a + size)
        /\ M.isAllocError => p'.cross = <<>>
        /\ \/ p'.cross = <<>>
           \/ Len(p'.cross) = Len(data) - size /\ Holds(p'.cross, a + size)
        /\ M.state = "continue" \/ M.state = "overflow" \/ M.isAllocError => size = Len(data)
        /\ M.state = "continue" \/ M.state = "overflow" => p'.cross = <<>>

LEMMA LinkFacts ==
    ASSUME Inv, Typed', NEW t \in Threads, NEW data, NEW a \in Nat,
           NEW finish \in BOOLEAN, NEW fromCross \in BOOLEAN,
           Links(t, data, a, finish, fromCross)
    PROVE  LinkKnown(t, data, a)
<1> DEFINE T == th[t]
           U == th'[t]
           M == U.loc
           k == T.loc.link + 1
           size == U.inDataSize - T.inDataSize
           b == Block(t, data)
<1>1. /\ LinkStep(t, data, a, finish, fromCross, b)
      /\ data \in Seq(Nat) /\ (fromCross \/ p.cross = <<>>)
  BY DEF Links
<1>2. FillStep(t) /\ ParsedLink(t, data, a, finish, fromCross, p.cross, b) BY <1>1 DEF LinkStep
<1>3. th[t].pc = "fill" BY <1>2 DEF FillStep
<1>4. /\ Typed /\ Bounds /\ job.blocks \in Inputs
      /\ T.loc.link \in 0..Len(T.inBuf) /\ T.inBuf \in Seq(Seq(Nat)) /\ Len(T.inBuf) \in Nat
  BY <1>3, FillingFacts
<1>5. /\ T.inDataSize \in Nat /\ T.loc.block \in Nat /\ T.loc.link \in Nat
      /\ U.inDataSize \in Nat /\ U.inBuf \in Seq(Seq(Nat)) /\ p'.cross \in Seq(Nat)
      /\ M.state \in {"continue", "new", "end", "overflow"}
  BY <1>4 DEF Typed, ThreadRecs, Locals, MtDecRecs
<1>6. Len(data) \in Nat /\ Len(p'.cross) \in Nat /\ Len(U.inBuf) \in Nat BY <1>1, <1>5
<1>7. k \in Nat /\ k > 0 /\ k \in 1..Len(T.inBuf) + 1 BY <1>4, <1>5, SMTT(30)
<1>8. b \in 0..LastBlock
  <2>1. LastBlock \in Nat \ {0} BY <1>4, BlockFacts
  <2>2. T.loc.block <= LastBlock BY <1>4 DEF Bounds
  <2>3. CASE T.loc.block # 0 BY <2>1, <2>2, <2>3, <1>5 DEF Block
  <2>4. CASE T.loc.block = 0 /\ data = <<>> BY <2>1, <2>4 DEF Block
  <2>5. CASE T.loc.block = 0 /\ data # <<>>
    <3>1. data[1] \in Nat BY <1>1, <2>5
    <3>2. BlockOf(data[1]) \in 0..LastBlock BY <1>4, <3>1, BlockOfFacts, SMTT(30)
    <3> QED BY <2>5, <3>2 DEF Block
  <2> QED BY <2>3, <2>4, <2>5
<1>9. /\ size \in 0..Len(data)
      /\ \E link \in Seq(Nat) : /\ U.inBuf = PutLink(T.inBuf, k, link)
                                /\ size <= Len(link) /\ Holds(link, a)
      /\ U.inDataSize_Start = IF k = 1 THEN size ELSE T.inDataSize_Start
      /\ M.link = k /\ M.block = b
      /\ M.isAllocError => M.state = "new" /\ ~fromCross
      /\ M.overflow <=> M.state = "overflow"
      /\ size = IF M.state \in {"new", "end"} /\ ~M.isAllocError
                THEN BlockEnd(b) - a + 1 ELSE Len(data)
      /\ \/ /\ Len(p'.cross) = Len(data) - size /\ Holds(p'.cross, a + size) /\ ~M.isAllocError
         \/ (M.state = "end" \/ M.isAllocError) /\ ~fromCross /\ p'.cross = p.cross
  BY <1>2, Zenon DEF ParsedLink
<1>10. k <= Len(U.inBuf)
  <2>1. PICK link \in Seq(Nat) : U.inBuf = PutLink(T.inBuf, k, link) BY <1>9
  <2> HIDE DEF k
  <2>2. Len(PutLink(T.inBuf, k, link)) >= k BY <1>4, <1>7, PutLinkFacts
  <2> QED BY <2>1, <2>2, <1>6, <1>7
<1> HIDE DEF T, U, M, k, size, b
<1>11. M.state = "continue" \/ M.state = "overflow" \/ M.isAllocError => size = Len(data)
  BY <1>9
<1>12. M.state = "continue" \/ M.state = "overflow" => p'.cross = <<>>
  BY <1>6, <1>9, <1>11, <1>5, EmptySeq
<1>13. /\ M.state # "end" /\ ~M.isAllocError =>
             Len(p'.cross) = Len(data) - size /\ Holds(p'.cross, a + size)
       /\ M.isAllocError => p'.cross = <<>>
       /\ \/ p'.cross = <<>>
          \/ Len(p'.cross) = Len(data) - size /\ Holds(p'.cross, a + size)
  BY <1>1, <1>9
<1> QED
  BY <1>5, <1>6, <1>7, <1>8, <1>9, <1>10, <1>11, <1>12, <1>13 DEF LinkKnown, T, U, M, k, size, b

(* A parsed link belongs to the block the thread reads, and ends with it. *)
LEMMA LinkPiece ==
    ASSUME Inv, Typed', NEW t \in Threads, NEW data, NEW a \in Nat,
           NEW finish \in BOOLEAN, NEW fromCross \in BOOLEAN,
           Links(t, data, a, finish, fromCross),
           NEW b \in 1..LastBlock, NEW s \in Nat, Piece(t, b, s), BlockStart(b) <= s
    PROVE  Piece(t, b, s)'
<1> DEFINE T == th[t]
           U == th'[t]
           L == T.loc
           M == U.loc
           k == L.link + 1
           b0 == Block(t, data)
<1>1. /\ LinkStep(t, data, a, finish, fromCross, b0)
      /\ data \in Seq(Nat) /\ Holds(data, a) /\ Len(data) <= InBufSize
      /\ a + Len(data) = p'.readPos + 1 /\ a + Len(p.cross) = p.readPos + 1
      /\ fromCross \/ p.cross = <<>>
      /\ ~finish => data # <<>> /\ (L.link > 0 => Len(data) = InBufSize)
      /\ Filling(t, b, s) /\ finish => p'.readWasFinished /\ p'.readPos = job.limit
  BY DEF Links
<1>52. Filling(t, b, s) => (p'.readWasFinished => p'.readPos = job.limit) BY DEF Links
<1>2. /\ FillStep(t) /\ ParsedLink(t, data, a, finish, fromCross, p.cross, b0)
      /\ job'.limit = job.limit
  BY <1>1 DEF LinkStep
<1>3. th[t].pc = "fill" /\ job'.blocks = job.blocks /\ U.pc \in {"fill", "pass"}
  BY <1>2 DEF FillStep, SameCall
<1>4. /\ Typed /\ Bounds /\ job.blocks \in Inputs
      /\ L.link \in 0..Len(T.inBuf) /\ T.inBuf \in Seq(Seq(Nat)) /\ Len(T.inBuf) \in Nat
  BY <1>3, FillingFacts
<1>5. /\ LastBlock \in Nat /\ LastBlock' = LastBlock /\ BlockEnd(b) \in Nat
      /\ BlockEnd(b)' = BlockEnd(b) /\ Kind(b)' = Kind(b) /\ LastParsed(b)' = LastParsed(b)
      /\ b - 1 \in 0..LastBlock /\ b - 1 # LastBlock /\ BlockEnd(b - 1) \in Nat
  BY <1>4, BlockFacts, <1>3 DEF LastBlock, BlockEnd, Kind, LastParsed
<1>50. LinkKnown(t, data, a) BY LinkFacts
<1>6. PICK e \in Nat, n \in Nat, n2 \in Nat, size \in Nat, d \in Nat, c2 \in Nat :
         /\ e = BlockEnd(b) /\ n = T.inDataSize /\ n2 = U.inDataSize
         /\ size = n2 - n /\ d = Len(data) /\ c2 = Len(p'.cross) /\ size <= d
         /\ n2 = n + size
  <2>1. /\ T.inDataSize \in Nat /\ U.inDataSize \in Nat /\ Len(data) \in Nat
        /\ Len(p'.cross) \in Nat /\ U.inDataSize - T.inDataSize \in 0..Len(data)
    BY <1>50 DEF LinkKnown
  <2>2. U.inDataSize - T.inDataSize \in Nat /\ U.inDataSize - T.inDataSize <= Len(data)
        /\ U.inDataSize = T.inDataSize + (U.inDataSize - T.inDataSize)
    BY <2>1
  <2> HIDE DEF T, U
  <2> QED BY <2>1, <2>2, <1>5
<1>7. /\ b0 \in 0..LastBlock /\ k \in Nat /\ k > 0 /\ k \in 1..Len(T.inBuf) + 1
      /\ Len(U.inBuf) \in Nat /\ k <= Len(U.inBuf)
      /\ U.inDataSize_Start = IF k = 1 THEN size ELSE T.inDataSize_Start
      /\ M.link = k /\ M.block = b0
      /\ M.state \in {"continue", "new", "end", "overflow"}
      /\ M.state # "end" /\ ~M.isAllocError => c2 = d - size
      /\ M.isAllocError => p'.cross = <<>>
      /\ p'.cross = <<>> \/ c2 = d - size
      /\ M.state = "continue" \/ M.state = "overflow" \/ M.isAllocError => size = d
      /\ M.state = "continue" \/ M.state = "overflow" => p'.cross = <<>>
  <2>1. /\ b0 \in 0..LastBlock /\ k \in Nat /\ k > 0 /\ k \in 1..Len(T.inBuf) + 1
        /\ Len(U.inBuf) \in Nat /\ k <= Len(U.inBuf)
        /\ U.inDataSize_Start = IF k = 1 THEN U.inDataSize - T.inDataSize ELSE T.inDataSize_Start
        /\ M.link = k /\ M.block = b0
        /\ M.state \in {"continue", "new", "end", "overflow"}
        /\ M.state # "end" /\ ~M.isAllocError => Len(p'.cross) = Len(data) - (U.inDataSize - T.inDataSize)
        /\ M.isAllocError => p'.cross = <<>>
        /\ p'.cross = <<>> \/ Len(p'.cross) = Len(data) - (U.inDataSize - T.inDataSize)
        /\ M.state = "continue" \/ M.state = "overflow" \/ M.isAllocError =>
              U.inDataSize - T.inDataSize = Len(data)
        /\ M.state = "continue" \/ M.state = "overflow" => p'.cross = <<>>
    BY <1>50, Zenon DEF LinkKnown
  <2>2. U.inDataSize - T.inDataSize = size /\ Len(data) = d /\ Len(p'.cross) = c2 BY <1>6
  <2> HIDE DEF T, U, M, k, b0
  <2> QED BY <2>1, <2>2
<1>8. PICK link \in Seq(Nat) : /\ U.inBuf = PutLink(T.inBuf, k, link)
                               /\ size <= Len(link) /\ Holds(link, a)
  BY <1>50, <1>6 DEF LinkKnown
<1>9. /\ M.needWrite
      /\ M.overflow <=> M.state = "overflow"
      /\ U.pc = "fill" <=> M.state = "continue" /\ ~finish
      /\ U.pc = "fill" => ~M.finish /\ ~M.needCode
      /\ M.state \in {"overflow", "end"} => M.finish
      /\ M.state = "continue" => M.finish = finish
      /\ M.state = "new" => M.finish = M.isAllocError
      /\ M.isAllocError => M.state = "new" /\ ~fromCross
      /\ U.pc = "pass" => (M.needCode <=> ~M.overflow)
  BY <1>2, Zenon DEF ParsedLink
<1>10. /\ Filling(t, b, s) /\ s <= e /\ L.block = IF n = 0 THEN 0 ELSE b
       /\ LinksHold(T.inBuf, T.inDataSize_Start, n, s)
  BY <1>3, <1>6 DEF Piece
<1>11. /\ Continues(s + n) /\ s + n <= e + 1
       /\ s + n = e + 1 => ~LastParsed(b) /\ Kind(b) # "big"
       /\ L.link = 0 => n = 0
       /\ L.link > 0 => n > 0 /\ n = LinkStart(T.inDataSize_Start, k)
  BY <1>10, <1>6 DEF Filling
<1>12. PICK r2 \in Nat : r2 = p'.readPos BY DEF Typed, MtDecRecs
<1>13. a = s + n
  <2>1. p.readPos \in Nat /\ Len(p.cross) \in Nat BY <1>4 DEF Typed, MtDecRecs
  <2> QED
    <3>1. a + Len(p.cross) = p.readPos + 1 BY <1>1
    <3>2. (s + n) + Len(p.cross) = p.readPos + 1 BY <1>11 DEF Continues
    <3>3. PICK x \in Nat, y \in Nat : x = Len(p.cross) /\ y = p.readPos BY <2>1
    <3>4. a + x = y + 1 /\ (s + n) + x = y + 1 BY <3>1, <3>2, <3>3
    <3> QED BY <3>4
<1>14. a + d = r2 + 1 /\ d <= InBufSize /\ (d = 0 <=> data = <<>>)
  BY <1>1, <1>6, <1>12, EmptySeq
<1>15. b0 = b \/ (b0 = 0 /\ n = 0 /\ d = 0)
  <2>1. CASE n # 0 BY <2>1, <1>10 DEF Block
  <2>2. CASE n = 0 /\ d = 0 BY <2>2, <1>10, <1>14 DEF Block
  <2>3. CASE n = 0 /\ d # 0
    <3>1. data # <<>> /\ data[1] = a BY <2>3, <1>1, <1>6, <1>14, SMTT(30) DEF Holds
    <3>2. b0 = BlockOf(a) BY <3>1, <2>3, <1>10 DEF Block
    <3>3. a = s /\ BlockEnd(b - 1) < a /\ a <= BlockEnd((b - 1) + 1)
      BY <2>3, <1>5, <1>6, <1>10, <1>13 DEF BlockStart
    <3>4. BlockOf(a) = (b - 1) + 1 BY <3>3, <1>4, <1>5, UnitInBlock
    <3> QED BY <3>2, <3>4
  <2> QED BY <2>1, <2>2, <2>3
<1>16. p'.cross = <<>> => c2 = 0 BY <1>6, EmptySeq
<1>17. LinksHold(U.inBuf, U.inDataSize_Start, n2, s)
  <2>1. n = LinkStart(T.inDataSize_Start, k) /\ (k > 1 => n > 0) BY <1>11, <1>4 DEF LinkStart
  <2>2. size <= InBufSize /\ InBufSize \in Nat BY <1>6, <1>14, Numbers
  <2>3. T.inDataSize_Start \in Nat BY <1>4 DEF Typed, ThreadRecs
  <2>4. Holds(link, s + n) /\ s \in Int BY <1>8, <1>13
  <2> HIDE DEF k, T
  <2>5. LinksHold(PutLink(T.inBuf, k, link), IF k = 1 THEN size ELSE T.inDataSize_Start, n + size, s)
    BY <2>1, <2>2, <2>3, <2>4, <1>4, <1>7, <1>8, <1>10, LinksGrow
  <2> QED BY <2>5, <1>6, <1>7, <1>8
<1>51. PICK pos \in Nat : pos = s + n2 OBVIOUS
<1>18. pos = a + size BY <1>6, <1>13, <1>51, SMTT(30)
<1>19. ASSUME b0 = b
       PROVE  /\ M.state = "overflow" <=> (a <= e /\ e < a + d) /\ Kind(b) = "big"
              /\ M.state = "end" <=> (a <= e /\ e < a + d) /\ Kind(b) # "big" /\ LastParsed(b)
              /\ M.state = "new" <=> /\ a <= e + 1 /\ e + 1 < a + d
                                     /\ ~((a <= e /\ e < a + d) /\ (Kind(b) = "big" \/ LastParsed(b)))
              /\ M.state \in {"new", "end"} /\ ~M.isAllocError => size = e - a + 1
  <2>1. b # 0 OBVIOUS
  <2>2. /\ M.state = "overflow" <=> (b0 # 0 /\ a <= BlockEnd(b0) /\ BlockEnd(b0) < a + Len(data)) /\ Kind(b0) = "big"
        /\ M.state = "end" <=> (b0 # 0 /\ a <= BlockEnd(b0) /\ BlockEnd(b0) < a + Len(data)) /\ Kind(b0) # "big" /\ LastParsed(b0)
        /\ M.state = "new" <=> /\ b0 # 0 /\ a <= BlockEnd(b0) + 1 /\ BlockEnd(b0) + 1 < a + Len(data)
                           /\ ~((b0 # 0 /\ a <= BlockEnd(b0) /\ BlockEnd(b0) < a + Len(data)) /\ (Kind(b0) = "big" \/ LastParsed(b0)))
        /\ U.inDataSize - T.inDataSize = IF M.state \in {"new", "end"} /\ ~M.isAllocError
              THEN BlockEnd(b0) - a + 1 ELSE Len(data)
    BY <1>2, Zenon DEF ParsedLink
  <2>3. BlockEnd(b0) = e /\ Kind(b0) = Kind(b) /\ (LastParsed(b0) <=> LastParsed(b)) /\ Len(data) = d
        /\ b0 # 0 /\ U.inDataSize - T.inDataSize = size
    BY <2>1, <1>6, <1>19
  <2> HIDE DEF U, M, T, b0
  <2> QED BY <2>2, <2>3, Zenon
<1> HIDE DEF b0, k
<1>20. M.finish /\ M.state # "overflow" => finish \/ M.state = "end" \/ M.isAllocError
  BY <1>7, <1>9
<1>21. M.state = "continue" /\ M.finish => p'.readWasFinished /\ p'.readPos = job'.limit /\ p'.cross = <<>>
  BY <1>1, <1>2, <1>7, <1>9, <1>10
<1>22. M.state # "end" => c2 = d - size BY <1>7, <1>16
<1>23. M.state # "end" => pos + c2 = r2 + 1 BY <1>14, <1>18, <1>22
<1>24. CASE b0 = 0
  <2>1. b0 # b /\ n = 0 /\ d = 0 /\ finish BY <1>1, <1>14, <1>15, <1>24
  <2>2. M.state = "continue" BY <1>2, <1>7, <1>24 DEF ParsedLink
  <2>3. /\ M.finish /\ ~M.overflow /\ ~M.isAllocError /\ U.pc = "pass" /\ M.needCode
    BY <2>1, <2>2, <1>3, <1>9
  <2>4. n2 = 0 /\ pos = s /\ pos = r2 + 1
    <3>1. size = 0 BY <2>1, <1>6
    <3> QED BY <1>6, <1>14, <3>1, <2>1, <1>13, <1>18, <1>51
  <2>5. Continues(pos)' BY <2>2, <1>6, <1>12, <1>23 DEF Continues
  <2>6. Ending(t, b, pos)'
    BY <2>1, <2>2, <2>3, <2>4, <1>5, <1>6, <1>10, <1>11, <1>12, <1>21 DEF Ending, Drained
  <2>7. Taken(t, b, pos)' BY <2>3, <2>5, <2>6, <1>9 DEF Taken, Follows
  <2>8. Passing(t, pos)' BY <2>2, <2>3 DEF Passing
  <2> QED
    BY <1>51, <2>3, <2>4, <2>7, <2>8, <1>5, <1>6, <1>7, <1>10, <1>17, <1>24 DEF Piece, Works
<1>25. CASE b0 = b
  <2>0. /\ M.state = "overflow" <=> (a <= e /\ e < a + d) /\ Kind(b) = "big"
        /\ M.state = "end" <=> (a <= e /\ e < a + d) /\ Kind(b) # "big" /\ LastParsed(b)
        /\ M.state = "new" <=> /\ a <= e + 1 /\ e + 1 < a + d
                               /\ ~((a <= e /\ e < a + d) /\ (Kind(b) = "big" \/ LastParsed(b)))
        /\ M.state \in {"new", "end"} /\ ~M.isAllocError => size = e - a + 1
    BY <1>19, <1>25
  <2>1. n2 # 0
    <3>1. CASE n # 0 BY <3>1, <1>6
    <3>2. CASE n = 0
      <4>1. d # 0 BY <3>2, <1>10, <1>14, <1>25 DEF Block, b0
      <4>2. a <= e BY <3>2, <1>10, <1>13
      <4>3. size # 0 BY <4>1, <4>2, <2>0, <1>7
      <4> QED BY <4>3, <1>6
    <3> QED BY <3>1, <3>2
  <2>2. a <= e + 1 /\ (a = e + 1 => ~LastParsed(b) /\ Kind(b) # "big") BY <1>11, <1>13
  <2>3. ASSUME Taken(t, b, pos)', U.pc # "fill", U.pc = "pass" /\ ~M.isAllocError /\ ~M.overflow => Passing(t, pos)'
        PROVE  Piece(t, b, s)'
    BY <1>51, <2>1, <2>3, <1>3, <1>5, <1>6, <1>7, <1>10, <1>17, <1>25 DEF Piece, Works
  <2>4. CASE M.state = "overflow"
    <3>1. M.finish /\ M.overflow /\ U.pc = "pass" /\ ~M.needCode BY <2>4, <1>3, <1>9
    <3>2. Continues(pos)' BY <2>4, <1>6, <1>12, <1>23 DEF Continues
    <3>3. e < pos /\ Kind(b) = "big" BY <2>0, <2>4, <1>7, <1>18
    <3>4. Taken(t, b, pos)' BY <3>1, <3>2, <3>3, <1>5, <1>6, <1>9 DEF Taken, Follows
    <3> QED BY <2>3, <3>1, <3>4
  <2>5. CASE M.state = "end"
    <3>1. M.finish /\ ~M.overflow /\ ~M.isAllocError /\ U.pc = "pass" /\ M.needCode
      BY <2>5, <1>3, <1>9
    <3>2. pos = e + 1 /\ pos <= r2 + 1 BY <2>0, <2>5, <3>1, <1>14, <1>18
    <3>3. Follows(pos)'
      <4>1. CASE c2 = d - size
        <5>1. pos + c2 = r2 + 1
          BY <4>1, <1>14, <1>18
        <5> QED
          BY <5>1, <1>6, <1>12 DEF Follows, Continues
      <4>2. CASE p'.cross = <<>>
        <5>1. LastParsed(b)' /\ pos = BlockEnd(b)' + 1 /\ b \in (1..LastBlock)'
          BY <2>0, <2>5, <3>2, <1>5, <1>6
        <5>2. pos <= p'.readPos + 1 BY <3>2, <1>12
        <5> QED BY <4>2, <5>1, <5>2 DEF Follows
      <4> QED BY <4>1, <4>2, <1>7
    <3>4. Ending(t, b, pos)' BY <2>0, <2>5, <3>1, <3>2, <1>5, <1>6 DEF Ending
    <3>5. Taken(t, b, pos)' /\ Passing(t, pos)'
      BY <2>5, <3>1, <3>3, <3>4, <1>9 DEF Taken, Passing
    <3> QED BY <2>3, <3>1, <3>5
  <2>6. CASE M.state = "new" /\ M.isAllocError
    <3>1. M.finish /\ ~M.overflow /\ U.pc = "pass" BY <2>6, <1>3, <1>9
    <3>2. Continues(pos)' BY <2>6, <1>6, <1>12, <1>23 DEF Continues
    <3>3. Taken(t, b, pos)' BY <2>6, <3>1, <3>2, <1>9 DEF Taken, Follows
    <3> QED BY <2>3, <2>6, <3>1, <3>3
  <2>7. CASE M.state = "new" /\ ~M.isAllocError
    <3>1. ~M.finish /\ ~M.overflow /\ U.pc = "pass" /\ M.needCode BY <2>7, <1>3, <1>9
    <3>2. Continues(pos)' BY <2>7, <1>6, <1>12, <1>23 DEF Continues
    <3>3. pos = e + 1 /\ ~LastParsed(b) /\ Kind(b) # "big" BY <2>0, <2>2, <2>7, <1>18
    <3>4. Ending(t, b, pos)' BY <2>7, <3>3, <1>5, <1>6 DEF Ending
    <3>5. Taken(t, b, pos)' /\ Passing(t, pos)'
      BY <2>7, <3>1, <3>2, <3>4, <1>2, <1>9, <1>10, <1>52 DEF Taken, Passing
    <3> QED BY <2>3, <3>1, <3>5
  <2>8. CASE M.state = "continue"
    <3>1. ~M.overflow /\ ~M.isAllocError /\ p'.cross = <<>> /\ size = d /\ M.finish = finish
      BY <2>8, <1>7, <1>9
    <3>2. pos = r2 + 1 /\ pos <= e + 1 /\ (pos = e + 1 => ~LastParsed(b) /\ Kind(b) # "big")
      <4>1. pos = r2 + 1 /\ pos = a + d
        BY <3>1, <1>14, <1>18
      <4>2. pos <= e + 1
        BY <4>1, <2>0, <2>2, <2>8
      <4>3. pos = e + 1 => ~LastParsed(b) /\ Kind(b) # "big"
        BY <4>1, <2>0, <2>2, <2>8
      <4> QED
        BY <4>1, <4>2, <4>3
    <3>3. Continues(pos)' BY <2>8, <1>6, <1>12, <1>23 DEF Continues
    <3>4. CASE finish
      <4>1. M.finish /\ U.pc = "pass" /\ M.needCode BY <2>8, <3>1, <3>4, <1>3, <1>9
      <4>2. Ending(t, b, pos)'
        BY <2>8, <3>1, <3>2, <4>1, <1>5, <1>6, <1>12, <1>21 DEF Ending, Drained
      <4>3. Taken(t, b, pos)' /\ Passing(t, pos)'
        BY <2>8, <3>1, <3>3, <4>1, <4>2, <1>9 DEF Taken, Passing, Follows
      <4> QED BY <2>3, <4>1, <4>3
    <3>5. CASE ~finish
      <4>1. U.pc = "fill" /\ ~M.finish BY <2>8, <3>5, <1>9
      <4>2. n2 = LinkStart(U.inDataSize_Start, k + 1)
        <5>1. U.inDataSize_Start \in Nat BY DEF Typed, ThreadRecs
        <5>2. LinkStart(U.inDataSize_Start, k + 1) =
                LinkStart(U.inDataSize_Start, k) + IF k = 1 THEN U.inDataSize_Start ELSE InBufSize
          <6>1. k \in Nat \ {0} BY <1>7
          <6> HIDE DEF U
          <6> QED BY <5>1, <6>1, LinkLine
        <5>3. CASE k = 1
          <6>1. n = 0 BY <5>3, <1>4, <1>11 DEF k
          <6>2. LinkStart(U.inDataSize_Start, k) = 0 /\ U.inDataSize_Start = size
            BY <5>3, <1>7 DEF LinkStart
          <6> QED BY <5>2, <5>3, <6>1, <6>2, <1>6
        <5>4. CASE k # 1
          <6>1. L.link > 0 BY <5>4, <1>4 DEF k
          <6>2. U.inDataSize_Start = T.inDataSize_Start /\ n = LinkStart(T.inDataSize_Start, k)
            BY <5>4, <6>1, <1>7, <1>11
          <6>3. d = InBufSize BY <6>1, <3>5, <1>1, <1>6
          <6> QED BY <5>2, <5>4, <6>2, <6>3, <3>1, <1>6
        <5> QED BY <5>3, <5>4
      <4>3. Filling(t, b, s)'
        <5>1. n2 > 0 BY <2>1
        <5> QED
          <6>1. Continues(s + T.inDataSize)' /\ s + U.inDataSize <= BlockEnd(b)' + 1
                /\ (s + U.inDataSize = BlockEnd(b)' + 1 => ~LastParsed(b)' /\ Kind(b)' # "big")
            BY <1>51, <1>5, <1>6, <3>3, <3>2
          <6>2. M.link # 0 /\ U.inDataSize > 0 /\ M.link <= Len(U.inBuf)
                /\ U.inDataSize = LinkStart(U.inDataSize_Start, M.link + 1)
            BY <4>2, <5>1, <1>6, <1>7
          <6> QED BY <2>8, <4>1, <6>1, <6>2, <1>2, <1>10, <1>52 DEF Filling
      <4> QED BY <2>1, <3>1, <4>1, <4>3, <1>5, <1>6, <1>7, <1>10, <1>17, <1>25 DEF Piece, Works
    <3> QED BY <3>4, <3>5
  <2> QED BY <2>4, <2>5, <2>6, <2>7, <2>8, <1>7
<1> QED BY <1>15, <1>24, <1>25

LEMMA LinkInv ==
    ASSUME Inv, Typed', NEW t \in Threads, NEW data, NEW a \in Nat,
           NEW finish \in BOOLEAN, NEW fromCross \in BOOLEAN,
           Links(t, data, a, finish, fromCross)
    PROVE  Inv'
<1> DEFINE T == th[t]
           U == th'[t]
           L == T.loc
           M == U.loc
           k == L.link + 1
           b0 == Block(t, data)
<1>1. /\ LinkStep(t, data, a, finish, fromCross, b0)
      /\ data \in Seq(Nat) /\ Len(data) <= InBufSize
      /\ a + Len(data) = p'.readPos + 1
      /\ p'.readPos <= job.limit /\ p.readPos <= p'.readPos
      /\ p.readWasFinished => p'.readWasFinished
      /\ Drained => data = <<>> /\ finish /\ p'.readWasFinished /\ p'.readPos = job.limit
  BY DEF Links
<1>2. /\ FillStep(t) /\ ParsedLink(t, data, a, finish, fromCross, p.cross, b0)
      /\ job'.limit = job.limit /\ Fails("alloc") /\ p'.readRes = p.readRes
  BY <1>1 DEF LinkStep
<1>3. /\ th[t].pc = "fill" /\ job'.blocks = job.blocks /\ U.pc \in {"fill", "pass"}
      /\ SameCall /\ SameStops /\ p'.wasInterrupted = p.wasInterrupted
  BY <1>2 DEF FillStep, SameCall, SameStops
<1>4. /\ Typed /\ Bounds /\ Hits_Known /\ job.pc = "mt" /\ job.blocks \in Inputs
      /\ L.codeRes = "ok" /\ ~L.threadingError /\ L.codePos = 0
      /\ L.res = "ok" /\ ~L.wasInterrupted
      /\ L.link > 0 => p.cross = <<>>
  BY <1>3, FillingFacts
<1>5. LastBlock' = LastBlock BY <1>3 DEF LastBlock
<1>6. LinkKnown(t, data, a) BY LinkFacts
<1>7. PICK n \in Nat, n2 \in Nat, size \in Nat, d \in Nat, c2 \in Nat, r2 \in Nat :
         /\ n = T.inDataSize /\ n2 = U.inDataSize
         /\ size = n2 - n /\ d = Len(data) /\ c2 = Len(p'.cross) /\ size <= d
         /\ n2 = n + size /\ r2 = p'.readPos
  <2>1. /\ T.inDataSize \in Nat /\ U.inDataSize \in Nat /\ Len(data) \in Nat
        /\ Len(p'.cross) \in Nat /\ U.inDataSize - T.inDataSize \in 0..Len(data)
    BY <1>6 DEF LinkKnown
  <2>2. U.inDataSize - T.inDataSize \in Nat /\ U.inDataSize - T.inDataSize <= Len(data)
        /\ U.inDataSize = T.inDataSize + (U.inDataSize - T.inDataSize)
    BY <2>1
  <2>3. p'.readPos \in Nat BY DEF Typed, MtDecRecs
  <2> HIDE DEF T, U
  <2> QED BY <2>1, <2>2, <2>3
<1>8. /\ b0 \in 0..LastBlock /\ k \in Nat /\ k > 0
      /\ Len(U.inBuf) \in Nat /\ k <= Len(U.inBuf)
      /\ U.inDataSize_Start = IF k = 1 THEN size ELSE T.inDataSize_Start
      /\ M.link = k /\ M.block = b0
      /\ M.state \in {"continue", "new", "end", "overflow"}
      /\ M.isAllocError => p'.cross = <<>>
      /\ p'.cross = <<>> \/ (c2 = d - size /\ Holds(p'.cross, a + size))
      /\ M.state = "continue" => size = d /\ p'.cross = <<>>
  <2>1. /\ b0 \in 0..LastBlock /\ k \in Nat /\ k > 0
        /\ Len(U.inBuf) \in Nat /\ k <= Len(U.inBuf)
        /\ U.inDataSize_Start = IF k = 1 THEN U.inDataSize - T.inDataSize ELSE T.inDataSize_Start
        /\ M.link = k /\ M.block = b0
        /\ M.state \in {"continue", "new", "end", "overflow"}
        /\ M.isAllocError => p'.cross = <<>>
        /\ \/ p'.cross = <<>>
           \/ /\ Len(p'.cross) = Len(data) - (U.inDataSize - T.inDataSize)
              /\ Holds(p'.cross, a + (U.inDataSize - T.inDataSize))
        /\ M.state = "continue" => U.inDataSize - T.inDataSize = Len(data) /\ p'.cross = <<>>
    BY <1>6, Zenon DEF LinkKnown
  <2>2. U.inDataSize - T.inDataSize = size /\ Len(data) = d /\ Len(p'.cross) = c2 BY <1>7
  <2> HIDE DEF T, U, M, k, b0
  <2>3. p'.cross = <<>> \/ (c2 = d - size /\ Holds(p'.cross, a + size)) BY <2>1, <2>2
  <2>4. /\ U.inDataSize_Start = IF k = 1 THEN size ELSE T.inDataSize_Start
        /\ M.state = "continue" => size = d /\ p'.cross = <<>>
    BY <2>1, <2>2
  <2> QED BY <2>1, <2>3, <2>4, Zenon
<1>9. /\ SameRun(L, M) /\ M.needWrite
      /\ M.overflow <=> M.state = "overflow"
      /\ U.pc = "fill" <=> M.state = "continue" /\ ~finish
      /\ U.pc = "fill" => ~M.finish /\ ~M.needCode
      /\ M.state \in {"overflow", "end"} => M.finish
      /\ M.state = "continue" => M.finish = finish
      /\ M.state = "new" => M.finish = M.isAllocError
      /\ M.isAllocError => M.state = "new"
      /\ U.pc = "pass" => (M.needCode <=> ~M.overflow)
  BY <1>2, Zenon DEF ParsedLink
<1>10. M.codeRes = "ok" /\ ~M.threadingError /\ M.codePos = 0 /\ M.res = "ok" /\ ~M.wasInterrupted
  BY <1>4, <1>9 DEF SameRun
<1>11. a + d = r2 + 1 /\ d <= InBufSize /\ InBufSize \in Nat /\ (p'.cross = <<>> => c2 = 0)
  BY <1>1, <1>7, EmptySeq, Numbers
<1>12. CrossBounds'
  <2>1. r2 <= job.limit /\ c2 <= InBufSize /\ c2 <= r2
    <3>1. a >= 1
      <4>1. a + Len(p.cross) = p.readPos + 1 /\ Len(p.cross) <= p.readPos
        BY <1>4 DEF Links, Bounds
      <4>2. p.readPos \in Nat /\ Len(p.cross) \in Nat BY <1>4 DEF Typed, MtDecRecs
      <4> QED BY <4>1, <4>2
    <3> QED
      <4>1. c2 = 0 \/ c2 = d - size BY <1>8, <1>11
      <4>2. c2 <= d BY <4>1, <1>7
      <4>3. a + d = r2 + 1 /\ d <= InBufSize /\ InBufSize \in Nat BY <1>11
      <4>4. r2 <= job.limit BY <1>1, <1>7
      <4> QED BY <3>1, <4>2, <4>3, <4>4
  <2>2. Holds(p'.cross, r2 - c2 + 1)
    <3>1. CASE p'.cross = <<>> BY <3>1, EmptySeq DEF Holds
    <3>2. CASE c2 = d - size /\ Holds(p'.cross, a + size) BY <3>2, <1>11
    <3> QED BY <3>1, <3>2, <1>8
  <2> QED BY <2>1, <2>2, <1>2, <1>7 DEF CrossBounds, Holds
<1>13. ThreadBounds(t)'
  <2>1. /\ T.inDataSize_Start <= InBufSize /\ T.inDataSize_Start <= T.inDataSize
        /\ T.inDataSize_Start \in Nat
    BY <1>4 DEF Bounds, Typed, ThreadRecs
  <2>2. U.inDataSize_Start <= InBufSize /\ U.inDataSize_Start <= U.inDataSize
    <3>1. CASE k = 1
      <4>1. U.inDataSize_Start = size /\ U.inDataSize = n2 BY <3>1, <1>7, <1>8
      <4>2. size <= d /\ n2 = n + size /\ d <= InBufSize /\ InBufSize \in Nat BY <1>7, <1>11
      <4>3. size <= InBufSize /\ size <= n2 BY <4>2
      <4> QED BY <4>1, <4>3
    <3>2. CASE k # 1
      <4>1. U.inDataSize_Start = T.inDataSize_Start BY <3>2, <1>8
      <4> QED BY <4>1, <2>1, <1>7, SMTT(30)
    <3> QED BY <3>1, <3>2
  <2>3. M.block <= LastBlock BY <1>8
  <2>4. U.pc = "fill" => M.link <= Len(U.inBuf) /\ p'.cross = <<>> BY <1>8, <1>9
  <2> QED BY <2>2, <2>3, <2>4, <1>3, <1>5 DEF ThreadBounds, Reads
<1>14. LocalRules(t)' BY <1>8, <1>9, <1>10, <1>3 DEF Stops, LocalRules, Reads, Works
<1>15. Hits_Known' BY <1>1, <1>2, <1>3, <1>4, HitsStay
<1>16. th'[t].inBuf # <<>> BY <1>8, EmptySeq
<1>17. \A b \in 1..LastBlock, s \in Nat :
          Fresh' /\ Piece(t, b, s) /\ BlockStart(b) <= s /\ ~th'[t].loc.wasInterrupted
             => Piece(t, b, s)'
  BY LinkPiece
<1>18. ASSUME NEW b \in 1..LastBlock, Piece(t, b, job.limit + 1), Drained
       PROVE  Drained' /\ M.finish /\ ~M.isAllocError
  <2>1. data = <<>> /\ finish /\ p'.readWasFinished /\ p'.readPos = job.limit BY <1>1, <1>18
  <2>2. d = 0 /\ p.cross = <<>> /\ p.readPos = job.limit /\ p.readPos \in Nat
    BY <2>1, <1>4, <1>7, <1>18, EmptySeq DEF Drained, Typed, MtDecRecs
  <2>3. Filling(t, b, job.limit + 1) /\ (L.block = IF n = 0 THEN 0 ELSE b)
    BY <1>3, <1>7, <1>18 DEF Piece
  <2>4. n = 0 BY <2>3, <1>7, <2>2, EmptySeq DEF Filling, Continues
  <2>5. b0 = 0 BY <2>1, <2>3, <2>4 DEF Block
  <2>6. M.state = "continue" BY <1>2, <2>5, <1>8 DEF ParsedLink
  <2>7. M.finish /\ ~M.isAllocError /\ p'.cross = <<>> BY <2>1, <2>6, <1>8, <1>9
  <2> QED BY <2>1, <2>7, <1>2 DEF Drained
<1>19. \A b \in 1..LastBlock :
          Fresh' /\ Piece(t, b, job.limit + 1) /\ Drained /\ th[t].loc.finish
          /\ th[t].inBuf # <<>> /\ p.interruptIndex = 0
             => /\ Drained' /\ job'.limit = job.limit /\ th'[t].loc.finish
                /\ ~th'[t].loc.isAllocError /\ ~th'[t].loc.wasInterrupted
  BY <1>2, <1>10, <1>18
<1>20. job'.limit <= job.limit /\ job.hit \subseteq job'.hit
  BY <1>4, <1>2 DEF Typed, JobRecs, Fails
<1>21. /\ p.progressRes # "ok" => p'.progressRes # "ok"
       /\ p.readPos <= p'.readPos
  BY <1>1, <1>2 DEF Fails
<1> HIDE DEF T, U, L, M, k, b0
<1> QED BY <1>2, <1>12, <1>13, <1>14, <1>15, <1>16, <1>17, <1>19, <1>20, <1>21, FillInv

(* FillFromCross *)
LEMMA CrossInv ==
    ASSUME Inv, NEW t \in Threads, FillFromCross(t)
    PROVE  Inv'
<1>1. th[t].pc = "fill" BY DEF FillFromCross
<1>2. /\ Typed /\ Bounds /\ LocalRules(t) /\ job.blocks \in Inputs /\ p.readPos <= job.limit
  BY <1>1, FillingFacts
<1>3. Typed' /\ CrossStep(t) BY <1>2, FromCross
<1>4. PICK r \in Nat, c \in Nat \ {0}, a \in Nat : r = p.readPos /\ c = Len(p.cross) /\ a = r - c + 1
  BY <1>2, <1>3, EmptySeq, SMTT(30) DEF Typed, MtDecRecs, Bounds, CrossStep
<1> DEFINE finish == th[t].loc.finish
<1>5. /\ th[t].loc.link = 0 /\ p.cross # <<>>
      /\ p'.readPos = p.readPos /\ p'.readWasFinished = p.readWasFinished
      /\ LinkStep(t, p.cross, a, finish, TRUE, Block(t, p.cross))
  BY <1>3, <1>4 DEF CrossStep
<1>6. finish \in BOOLEAN /\ p.cross \in Seq(Nat)
  BY <1>2 DEF Typed, ThreadRecs, Locals, MtDecRecs
<1>7. /\ Holds(p.cross, a) /\ Len(p.cross) <= InBufSize BY <1>2, <1>4 DEF Bounds
<1>8. a + Len(p.cross) = p.readPos + 1 BY <1>4
<1>9. ASSUME NEW b \in 1..LastBlock, NEW s \in Nat, Filling(t, b, s)
      PROVE  /\ finish => p'.readWasFinished /\ p'.readPos = job.limit
             /\ p'.readWasFinished => p'.readPos = job.limit
  BY <1>5, <1>9 DEF Filling
<1>10. ~Drained BY <1>5 DEF Drained
<1>11. p'.readPos <= job.limit /\ p.readPos <= p'.readPos BY <1>2, <1>4, <1>5
<1>12. \A b \in 1..LastBlock, s \in Nat :
          Filling(t, b, s) => /\ finish => p'.readWasFinished /\ p'.readPos = job.limit
                              /\ p'.readWasFinished => p'.readPos = job.limit
  BY <1>9
<1>13. ~finish => p.cross # <<>> /\ (th[t].loc.link > 0 => Len(p.cross) = InBufSize) BY <1>5
<1> HIDE DEF finish
<1>14. Links(t, p.cross, a, finish, TRUE)
  <2>1. a + Len(p.cross) = p'.readPos + 1 BY <1>5, <1>8
  <2> QED BY <2>1, <1>5, <1>6, <1>7, <1>8, <1>10, <1>11, <1>12, <1>13 DEF Links
<1> QED BY <1>3, <1>6, <1>14, LinkInv

(* Read *)
LEMMA ReadInv ==
    ASSUME Inv, NEW t \in Threads, Read(t)
    PROVE  Inv'
<1>1. th[t].pc = "fill" BY DEF Read
<1>2. /\ Typed /\ Bounds /\ LocalRules(t) /\ job.blocks \in Inputs /\ p.readPos <= job.limit
      /\ th[t].loc.link > 0 => p.cross = <<>>
  BY <1>1, FillingFacts
<1>3. Typed' /\ (ReadStep(t) \/ HaltStep(t) \/ ReadErrorStep(t)) BY <1>2, ReadMoves
<1>4. CASE ReadStep(t)
  <2>1. PICK r \in Nat, f \in Nat, a \in Nat : r = p.readPos /\ f = Full /\ a = r + 1
    BY <1>2, FullFacts, Numbers, SMTT(30) DEF Typed, MtDecRecs
  <2> DEFINE data == Units(p.readPos + 1, p.readPos + Full)
             finish == Full # InBufSize
  <2>2. /\ th[t].loc.link = 0 => p.cross = <<>>
        /\ p'.readPos = r + f
        /\ p'.readWasFinished = (p.readWasFinished \/ finish)
        /\ LinkStep(t, data, a, finish, FALSE, Block(t, data))
    BY <1>4, <2>1 DEF ReadStep
  <2>3. /\ f <= InBufSize /\ r + f <= job.limit
        /\ finish => r + f = job.limit
        /\ data \in Seq(Nat) /\ Len(data) = f /\ Holds(data, a)
        /\ InBufSize \in Nat \ {0} /\ finish \in BOOLEAN
        /\ finish <=> f # InBufSize
    BY <1>2, FullFacts, Numbers, <2>1
  <2>4. p.cross = <<>> BY <1>2, <2>2 DEF Typed, ThreadRecs, Locals
  <2> HIDE DEF data, finish
  <2>5. a + Len(data) = p'.readPos + 1 /\ a + Len(p.cross) = p.readPos + 1
    BY <2>4, EmptySeq, <2>2, <2>3, <2>1
  <2>6. p'.readPos <= job.limit /\ p.readPos <= p'.readPos /\ Len(data) <= InBufSize
    BY <2>1, <2>2, <2>3
  <2>7. ~finish => data # <<>> /\ (th[t].loc.link > 0 => Len(data) = InBufSize)
    BY <2>3, EmptySeq
  <2>8. finish => p'.readWasFinished /\ p'.readPos = job.limit BY <2>2, <2>3
  <2>9. Drained => data = <<>> /\ finish /\ p'.readWasFinished /\ p'.readPos = job.limit
    BY <2>1, <2>3, EmptySeq, <2>8 DEF Drained
  <2>11. ASSUME NEW b \in 1..LastBlock, NEW s \in Nat, Filling(t, b, s), p'.readWasFinished
         PROVE  p'.readPos = job.limit
    <3>1. CASE finish BY <3>1, <2>8
    <3>2. CASE ~finish
      <4>1. p.readWasFinished /\ f = InBufSize BY <3>2, <2>2, <2>3, <2>11
      <4>2. job.limit \in Nat BY <1>2 DEF Typed, JobRecs
      <4>3. CASE th[t].loc.finish BY <4>1, <4>2, <4>3, <2>1, <2>3, <2>11 DEF Filling
      <4>4. CASE ~th[t].loc.finish BY <4>1, <4>4, <2>1, <2>11, <4>2, <2>3 DEF Filling
      <4> QED BY <4>3, <4>4
    <3> QED BY <3>1, <3>2
  <2>10. Links(t, data, a, finish, FALSE)
    <3>1. \A b \in 1..LastBlock, s \in Nat :
             Filling(t, b, s) => /\ finish => p'.readWasFinished /\ p'.readPos = job.limit
                                 /\ p'.readWasFinished => p'.readPos = job.limit
      BY <2>8, <2>11
    <3>2. p.readWasFinished => p'.readWasFinished BY <2>2
    <3> QED BY <3>1, <3>2, <2>2, <2>3, <2>4, <2>5, <2>6, <2>7, <2>9 DEF Links
  <2> QED BY <1>3, <2>3, <2>10, LinkInv
<1>5. CASE HaltStep(t) BY <1>3, <1>5, HaltInv
<1>6. CASE ReadErrorStep(t) BY <1>3, <1>6, ReadErrorInv
<1> QED BY <1>3, <1>4, <1>5, <1>6

-----------------------------------------------------------------------------
(* Decoding.                                                               *)

(* A thread goes on decoding its block, or has come to an end. *)
LEMMA DecodeInv ==
    ASSUME Inv, Typed', NEW t \in Threads, OnlyDecodes(t), Progress, LocalRules(t)',
           th'[t].loc.codeRes # "mem",
           th[t].loc.wasInterrupted => th'[t].loc.wasInterrupted,
           p.interruptIndex = 0 =>
              (th'[t].loc.wasInterrupted => th[t].loc.wasInterrupted),
           \/ p'.interruptIndex = p.interruptIndex
           \/ /\ p'.interruptIndex = Interrupt(th[t].loc.blockIndex)
              /\ th'[t].loc.codeRes = "data",
           \A b \in 1..LastBlock, s \in Nat :
              Fresh' /\ Piece(t, b, s) /\ BlockStart(b) <= s /\ ~th'[t].loc.wasInterrupted
                 => Piece(t, b, s)'
    PROVE  Inv'
<1>1. Typed /\ Bounds /\ Hits_Known /\ FilledOK BY DEF Inv
<1>2. /\ th[t].pc = "code" /\ th'[t].pc \in {"code", "write"} /\ OnlyThread(t)
      /\ th'[t].canRead = th[t].canRead /\ th'[t].canWrite = th[t].canWrite
      /\ th'[t].inBuf = th[t].inBuf /\ th'[t].inDataSize = th[t].inDataSize
      /\ th'[t].inDataSize_Start = th[t].inDataSize_Start
      /\ th'[t].loc.blockIndex = th[t].loc.blockIndex
      /\ th'[t].loc.block = th[t].loc.block
      /\ th'[t].loc.finish = th[t].loc.finish
      /\ th'[t].loc.isAllocError = th[t].loc.isAllocError
      /\ th'[t].loc.nextThread = th[t].loc.nextThread
      /\ SameTokens /\ SameStops /\ SameInput /\ SameCall
  BY DEF OnlyDecodes
<1>3. ~Reads(t) /\ ~Reads(t)' /\ Works(t) /\ Works(t)' /\ (Closes(t)' <=> Closes(t))
  BY <1>2 DEF Reads, Works, Closes
<1>4. /\ t \in 0..Started - 1 /\ job.pc = "mt" /\ ~p.exitThread /\ th[0].pc # "ret"
      /\ \E w \in 0..Started - 1, k \in 0..Started, B \in 1..p.blockIndex :
            Turn(w, k, B)
  BY <1>3, InRuns
<1>5. PICK w \in 0..Started - 1, k \in 0..Started, B \in 1..p.blockIndex :
            Turn(w, k, B)
  BY <1>4
<1>6. Started \in Nat /\ p.blockIndex \in Nat /\ w \in Nat /\ k \in Nat /\ B \in Nat
  BY <1>1 DEF Typed, MtDecRecs, Started
<1>7. Ring(w, k, B) /\ Rules(w, k, B) BY <1>5 DEF Turn
<1>8. Ring(w, k, B)' BY <1>1, <1>2, <1>3, <1>4, <1>6, <1>7, RingStays
<1>9. LocalRules(t) /\ th[t].loc.codeRes = "ok" BY <1>2, <1>4, <1>7 DEF Rules, LocalRules
<1>10. 0..Started - 1 \subseteq Threads /\ 0 \in Threads
  BY <1>1, <1>6, <1>7, InRingType, Numbers
<1>11. \A u \in Threads : SameThread(u) \/ u = t BY <1>2 DEF OnlyThread, SameThread
<1>12. \A u \in Threads : /\ th'[u].canRead = th[u].canRead /\ (Reads(u)' <=> Reads(u))
                           /\ (Works(u)' <=> Works(u)) /\ (Closes(u)' <=> Closes(u))
                           /\ th'[u].inDataSize = th[u].inDataSize
                           /\ th'[u].inBuf = th[u].inBuf
                           /\ (th'[u].pc = "fill" <=> th[u].pc = "fill")
                           /\ (th'[u].pc = "pass" <=> th[u].pc = "pass")
  BY <1>2, <1>3 DEF OnlyThread, Reads, Works, Closes
<1>13. /\ job'.pc = "mt" /\ job'.blocks = job.blocks /\ job'.emitted = job.emitted
       /\ Started' = Started /\ Written' = Written /\ LastBlock' = LastBlock
       /\ p'.blockIndex = p.blockIndex /\ p'.exitThread = p.exitThread
  BY <1>2, <1>4 DEF SameCall, SameTokens, Started, Written, LastBlock
<1>14. \A u \in Threads \ {t} : SameThread(u) /\ th'[u] = th[u]
  BY <1>2 DEF OnlyThread, SameThread
<1>15. Bounds' /\ Hits_Known'
  <2>1. CrossBounds' BY <1>1, <1>2, CrossStays
  <2>2. ThreadBounds(t)' BY <1>13, <1>1, <1>2, <1>3 DEF Bounds, ThreadBounds
  <2>3. Bounds' BY <1>1, <1>2, <1>4, <1>13, <1>14, <2>1, <2>2, BoundsStay DEF SameInput
  <2>4. p.readPos <= p'.readPos BY <1>1, <1>2 DEF SameInput, Typed, MtDecRecs
  <2>5. Hits_Known' BY <1>1, <1>2, <1>4, <2>4, HitsStay DEF SameInput, SameStops
  <2> QED BY <2>3, <2>5
<1>16. FilledOK' BY <1>1, <1>2, <1>13 DEF FilledOK, SameStops
<1>17. ErrorsStay
  <2>1. p.interruptIndex \in Nat /\ th[t].loc.blockIndex \in Nat /\ p'.interruptIndex \in Nat
    BY <1>1 DEF Typed, MtDecRecs, ThreadRecs, Locals
  <2>2. th[t].loc.blockIndex # 0
    <3>1. th[t].loc.blockIndex = B + Offset(w, t) BY <1>3, <1>4, <1>7 DEF Ring, InRing
    <3>2. Offset(w, t) \in Nat /\ B > 0
      BY <1>1, <1>4, <1>5, <1>6, <1>7, OffsetFacts, InRingType
    <3> QED BY <3>1, <3>2, <1>6
  <2>3. p.progressRes # "ok" => p'.progressRes # "ok" BY DEF Progress
  <2>4. p.interruptIndex # 0 => p'.interruptIndex # 0 /\ p'.interruptIndex <= p.interruptIndex
    BY <2>1, <2>2 DEF Interrupt
  <2> QED BY <2>3, <2>4 DEF ErrorsStay
<1>18. p'.progressRes \in {"ok", "progress"} /\ p.progressRes \in {"ok", "progress"}
  BY <1>1 DEF Typed, MtDecRecs
<1>19. Fresh' => Fresh BY <1>2, <1>17 DEF Fresh, SameStops, ErrorsStay
<1>20. Rules(w, k, B)'
  <2>1. ~GoesOnSingle' BY <1>2, <1>7 DEF Rules, GoesOnSingle, SameStops
  <2>2. ASSUME NEW u \in 0..Started - 1 PROVE LocalRules(u)'
    BY <1>10, <1>7, <1>1, <1>14, <1>17, OthersRules DEF Rules
  <2>3. ASSUME p'.interruptIndex # 0, Fresh'
        PROVE  \E u \in 0..Started' - 1 :
                  /\ Works(u)' /\ th'[u].loc.blockIndex = p'.interruptIndex
                  /\ th'[u].loc.codeRes = "data"
    <3>1. ASSUME p'.interruptIndex = p.interruptIndex
          PROVE  \E u \in 0..Started - 1 :
                    /\ Works(u)' /\ th'[u].loc.blockIndex = p'.interruptIndex
                    /\ th'[u].loc.codeRes = "data"
      <4>1. PICK u \in 0..Started - 1 :
                /\ Works(u) /\ th[u].loc.blockIndex = p.interruptIndex
                /\ th[u].loc.codeRes = "data"
        BY <2>3, <3>1, <1>7, <1>19 DEF Rules
      <4>2. u \in Threads \ {t}
        BY <4>1, <1>9, <1>10
      <4>3. th'[u] = th[u] /\ Works(u)'
        BY <4>1, <4>2, <1>12, <1>14
      <4> QED
        BY <4>1, <4>3, <3>1
    <3>2. ASSUME p'.interruptIndex # p.interruptIndex
          PROVE  \E u \in 0..Started - 1 :
                    /\ Works(u)' /\ th'[u].loc.blockIndex = p'.interruptIndex
                    /\ th'[u].loc.codeRes = "data"
      <4>1. p'.interruptIndex = th[t].loc.blockIndex /\ th'[t].loc.codeRes = "data"
        BY <3>2 DEF Interrupt
      <4> QED
        BY <4>1, <1>2, <1>3, <1>4
    <3> QED
      BY <3>1, <3>2, <1>13
  <2>4. ASSUME p'.numFilledThreads > 0
        PROVE  /\ ~Fresh' /\ p'.interruptIndex # 0 /\ p'.interruptIndex < B
               /\ \/ p'.numFilledThreads + k <= Started'
                  \/ /\ p'.numFilledThreads + k = Started' + 1
                     /\ \E u \in 0..Started' - 1 : Closes(u)' /\ th'[u].inDataSize = 0
               /\ \A u \in 0..Started' - 1 : Reads(u)' =>
                    \/ p'.numFilledThreads + k < Started'
                    \/ th'[u].pc = "pass" /\ th'[u].inDataSize = 0
    <3>1. p'.numFilledThreads = p.numFilledThreads BY <1>2 DEF SameStops
    <3>2. /\ ~Fresh /\ p.interruptIndex # 0 /\ p.interruptIndex < B
          /\ \/ p.numFilledThreads + k <= Started
             \/ /\ p.numFilledThreads + k = Started + 1
                /\ \E u \in 0..Started - 1 : Closes(u) /\ th[u].inDataSize = 0
          /\ \A u \in 0..Started - 1 : Reads(u) =>
                \/ p.numFilledThreads + k < Started
                \/ th[u].pc = "pass" /\ th[u].inDataSize = 0
      BY <2>4, <3>1, <1>7 DEF Rules
    <3>3. p'.interruptIndex # 0 /\ p'.interruptIndex < B
      BY <3>2, <1>1, <1>6, <1>17, SMTT(30) DEF ErrorsStay, Typed, MtDecRecs
    <3>4. \/ p'.numFilledThreads + k <= Started'
          \/ /\ p'.numFilledThreads + k = Started' + 1
             /\ \E u \in 0..Started' - 1 : Closes(u)' /\ th'[u].inDataSize = 0
      BY <3>1, <3>2, <1>10, <1>12, <1>13
    <3>5. \A u \in 0..Started' - 1 : Reads(u)' =>
                    \/ p'.numFilledThreads + k < Started'
                    \/ th'[u].pc = "pass" /\ th'[u].inDataSize = 0
      BY <3>1, <3>2, <1>10, <1>12, <1>13
    <3> QED BY <3>2, <3>3, <3>4, <3>5, <1>19
  <2> QED BY <2>1, <2>2, <2>3, <2>4, <1>13 DEF Rules
<1>21. ASSUME Fresh' PROVE Flows(w, k)' \/ NoMore(w, k)'
  <2>0. Fresh BY <1>19, <1>21
  <2>1. /\ job.blocks \in Inputs
        /\ Written \in 0..LastBlock /\ LastBlock \in Nat \ {0}
        /\ BlockStart(Written + 1) = BlockEnd(Written) + 1
        /\ \A b \in 0..LastBlock : BlockEnd(b) \in Nat
    BY <1>1, <1>4, Place
  <2>2. \A u : Offset(w, u)' = Offset(w, u) BY <1>13 DEF Offset
  <2>3. \A x : BlockEnd(x)' = BlockEnd(x) /\ BlockStart(x)' = BlockStart(x)
    BY <1>13 DEF BlockEnd, BlockStart
  <2>4. Drained' = Drained /\ job'.limit = job.limit /\ (\A x : Continues(x)' = Continues(x))
        /\ p'.readPos = p.readPos /\ p'.readWasFinished = p.readWasFinished
    BY <1>2 DEF SameInput, Drained, Continues
  <2>6. CASE Flows(w, k)
    <3>1. ASSUME NEW u \in 0..Started' - 1, Works(u)' \/ Reads(u)', ~th'[u].loc.wasInterrupted
          PROVE  Piece(u, Written + 1 + Offset(w, u), BlockStart(Written + 1 + Offset(w, u)))'
      <4>0. u \in Threads /\ u \in 0..Started - 1 BY <1>10, <1>13
      <4>1. PICK b \in Nat \ {0} : b = Written + 1 + Offset(w, u)
        BY <4>0, <1>1, <1>5, OffsetFacts, <2>1
      <4>2. (Written + 1 + Offset(w, u))' = b BY <4>1, <2>2, <1>13
      <4>3. CASE u = t
        <5>1. Piece(t, b, BlockStart(b)) BY <4>0, <4>1, <4>3, <3>1, <2>6, <1>3 DEF Flows
        <5>2. b \in 1..LastBlock BY <5>1, <2>1 DEF Piece
        <5>3. PICK s \in Nat : s = BlockStart(b) BY <5>2, <2>1 DEF BlockStart
        <5>4. Piece(t, b, s) /\ BlockStart(b) <= s BY <5>1, <5>3
        <5>5. Piece(t, b, s)' BY <5>2, <5>4, <3>1, <4>3, <1>21
        <5> QED BY <5>5, <5>3, <4>2, <4>3, <2>3
      <4>4. CASE u # t
        <5>1. Works(u) \/ Reads(u) BY <4>0, <4>4, <3>1, <1>14, SameThreadDoes
        <5>3. Piece(u, b, BlockStart(b)) BY <5>1, <4>0, <4>1, <4>4, <3>1, <2>6, <1>14 DEF Flows
        <5>4. Piece(u, b, BlockStart(b))'
          BY <5>1, <5>3, <4>0, <4>4, <2>1, <1>1, <1>2, <1>13, <1>14, OthersFlow
        <5> QED BY <5>4, <4>2
      <4> QED BY <4>3, <4>4
    <3>2. p'.blockIndex = 1 => w = 0 BY <2>6, <1>13 DEF Flows
    <3>3. \A u \in 0..Started' - 1 : th'[u].canRead =>
              /\ (Written + 1 + k <= LastBlock)'
              /\ Continues(BlockStart(Written + 1 + k))'
              /\ (p.readWasFinished => p.readPos = job.limit)'
      BY <2>6, <1>13, <2>3, <2>4, <1>10, <1>12 DEF Flows, Continues
    <3>4. /\ th'[0].inBuf = th[0].inBuf /\ (Works(0)' <=> Works(0)) /\ (Reads(0)' <=> Reads(0))
          /\ (th'[0].pc = "fill" <=> th[0].pc = "fill")
          /\ (th[0].loc.isAllocError => th'[0].loc.isAllocError)
          /\ (th[0].loc.wasInterrupted => th'[0].loc.wasInterrupted)
          /\ (th'[0].pc = "fill" => th'[0].loc = th[0].loc)
      BY <1>2, <1>10, <1>12, <1>14
    <3>5. p.blockIndex > 1 =>
              /\ th[0].pc # "fill" =>
                   \/ th[0].inBuf # <<>>
                   \/ (Works(0) \/ Reads(0)) /\ (th[0].loc.isAllocError \/ th[0].loc.wasInterrupted)
              /\ th[0].pc = "fill" /\ th[0].loc.link > 0 => th[0].inBuf # <<>>
      BY <2>6 DEF Flows
    <3>6. p'.blockIndex > 1 =>
              /\ th'[0].pc # "fill" =>
                   \/ th'[0].inBuf # <<>>
                   \/ (Works(0)' \/ Reads(0)') /\ (th'[0].loc.isAllocError \/ th'[0].loc.wasInterrupted)
              /\ th'[0].pc = "fill" /\ th'[0].loc.link > 0 => th'[0].inBuf # <<>>
      BY <3>4, <3>5, <1>13
    <3> QED BY <3>1, <3>2, <3>3, <3>6 DEF Flows
  <2>7. CASE NoMore(w, k)
    <3>1. /\ w = 0 /\ Drained /\ th[0].inBuf # <<>>
          /\ Written < LastBlock /\ job.limit < BlockEnd(Written + 1)
          /\ \A u \in 0..Started - 1 : HasRead(u) \/ Works(u) => u = 0
          /\ Reads(0) \/ Works(0) => /\ th[0].loc.finish /\ Piece(0, Written + 1, job.limit + 1)
                                     /\ ~th[0].loc.isAllocError /\ ~th[0].loc.wasInterrupted
      BY <2>7 DEF NoMore
    <3>2. t = 0 BY <3>1, <1>3, <1>4
    <3>3. p.interruptIndex = 0 BY <2>0, <1>7, <3>1, <3>2, <1>9 DEF Rules
    <3>5. PICK b \in 1..LastBlock : b = Written + 1 BY <3>1, <2>1
    <3>6. PICK s \in Nat : s = job.limit + 1 /\ BlockStart(b) <= s
      <4>1. job.limit \in Nat /\ BlockStart(b) = BlockEnd(Written) + 1 /\ BlockEnd(Written) \in Nat
        BY <1>1, <2>1, <3>5 DEF Typed, JobRecs
      <4>2. BlockEnd(Written) <= job.limit BY <1>1, <1>4, <3>1 DEF Hits_Known, InOrder, Drained
      <4> QED BY <4>1, <4>2
    <3>7. Piece(t, b, job.limit + 1) /\ th[t].loc.finish /\ th[t].inBuf # <<>>
      BY <3>1, <3>2, <3>5, <1>3
    <3>8. /\ Drained' /\ job'.limit = job.limit /\ th'[t].loc.finish
          /\ ~th'[t].loc.isAllocError /\ ~th'[t].loc.wasInterrupted
      BY <3>1, <3>2, <3>3, <1>2, <1>3, <2>4
    <3>9. Piece(t, b, s) BY <3>6, <3>7
    <3>10. Piece(t, b, s)' BY <3>6, <3>8, <3>9, <1>21
    <3>11. ASSUME NEW u \in 0..Started' - 1, HasRead(u)' \/ Works(u)' PROVE u = 0
      BY <1>10, <1>13, <3>11, <1>12, <3>1, <3>2 DEF HasRead
    <3>12. (Written + 1)' = b /\ (job.limit + 1)' = s
           /\ (Written < LastBlock)' /\ (job.limit < BlockEnd(Written + 1))'
      BY <3>1, <3>5, <3>6, <3>8, <2>3, <1>13
    <3>13. th'[0].inBuf # <<>> BY <3>1, <3>2, <1>2
    <3>15. ~th'[0].loc.threadingError BY <2>7, <1>3, <3>2 DEF NoMore, OnlyDecodes
    <3>16. th'[0].loc.codeRes # "mem" BY <3>2
    <3>14. NoMore(w, k)'
      BY <3>1, <3>2, <3>8, <3>10, <3>11, <3>12, <3>13, <3>15, <3>16 DEF NoMore
    <3> QED BY <3>14
  <2> QED BY <2>0, <2>6, <2>7, <1>5 DEF Turn
<1>22. p'.progressRes # "ok" \/ "write" \in job'.hit \/ Fresh' \/ Complete'
  <2>1. p.progressRes # "ok" \/ "write" \in job.hit \/ Fresh \/ Complete BY <1>5 DEF Turn
  <2>2. Fresh => p'.progressRes # "ok" \/ Fresh' BY <1>2 DEF Fresh, SameStops
  <2>3. Complete => Complete'
    BY <1>13, <1>1, <1>4, Place, <1>2 DEF BlockEnd, Kind, Typed, JobRecs, Complete, SameInput
  <2>4. /\ p.progressRes # "ok" => p'.progressRes # "ok"
        /\ "write" \in job.hit => "write" \in job'.hit
    BY DEF Progress
  <2> QED BY <2>1, <2>2, <2>3, <2>4
<1>23. Turn(w, k, B)' BY <1>8, <1>20, <1>21, <1>22 DEF Turn
<1>24. B \in 1..p'.blockIndex /\ w \in 0..Started' - 1 /\ k \in 0..Started'
  BY <1>5, <1>6, <1>13
<1>25. ~p'.exitThread /\ th'[0].pc # "ret" BY <1>10, <1>2, <1>4, <1>13, <1>14
<1> QED BY <1>13, <1>15, <1>16, <1>23, <1>24, <1>25, RunsOn

(* What Code gets of a piece: a run of units, up to the end of the piece   *)
(* or of a link.                                                           *)
LEMMA CodeDataFacts ==
    ASSUME Typed, Bounds, NEW t \in Threads, NEW b \in 1..LastBlock, NEW s \in Nat,
           Piece(t, b, s), th[t].pc = "code"
    PROVE  /\ InSize(t) \in Nat /\ th[t].loc.codePos \in Nat
           /\ th[t].loc.codePos + InSize(t) <= th[t].inDataSize
           /\ th[t].loc.block = b
           /\ \A u \in Int : Contains(CodeData(t), u) <=>
                 /\ s + th[t].loc.codePos <= u
                 /\ u < s + th[t].loc.codePos + InSize(t)
           /\ \/ th[t].loc.codePos + InSize(t) = th[t].inDataSize
              \/ th[t].loc.codePos + InSize(t) =
                    LinkStart(th[t].inDataSize_Start, th[t].loc.link + 1 + 1)
<1>1. InBufSize \in Nat /\ InBufSize > 0 BY Numbers
<1>2. PICK first \in Nat : first = th[t].inDataSize_Start BY DEF Typed, ThreadRecs
<1>3. PICK total \in Nat : total = th[t].inDataSize BY DEF Typed, ThreadRecs
<1>4. PICK j \in Nat \ {0} : j = th[t].loc.link + 1 BY DEF Typed, ThreadRecs, Locals
<1>5. th[t].inBuf \in Seq(Seq(Nat)) BY DEF Typed, ThreadRecs
<1>6. LinkStart(first, j) \in Nat BY LinkLine
<1>7. PICK x \in Nat : x = LinkStart(first, j) BY <1>6
<1>8. th[t].loc.codePos = x /\ x < total BY <1>2, <1>3, <1>4, <1>7 DEF Piece, Coding
<1>9. th[t].loc.block = b BY <1>3, <1>8 DEF Piece
<1>10. first <= total BY <1>2, <1>3 DEF Bounds
<1>11. j = 1 => x = 0 BY <1>7, LinkLine
<1>12. InSize(t) = LinkSize(first, total, j)
  BY <1>1, <1>2, <1>3, <1>4, <1>7, <1>8, <1>10, <1>11 DEF InSize, LinkSize
<1>13. InSize(t) \in Nat /\ x + InSize(t) <= total
  BY <1>1, <1>2, <1>3, <1>4, <1>8, <1>10, <1>11 DEF InSize
<1>14. PICK n \in Nat : n = InSize(t) BY <1>13
<1>15. LinksHold(th[t].inBuf, first, total, s) BY <1>2, <1>3 DEF Piece
<1>16. /\ j <= Len(th[t].inBuf) /\ n <= Len(th[t].inBuf[j])
       /\ \A i \in 1..n : th[t].inBuf[j][i] = s + x + i - 1
  BY <1>7, <1>8, <1>12, <1>14, <1>15 DEF LinksHold
<1>17. th[t].inBuf[j] \in Seq(Nat) BY <1>5, <1>16
<1>18. PICK link \in Seq(Nat) : link = th[t].inBuf[j] BY <1>17
<1>19. n <= Len(link) /\ \A i \in 1..n : link[i] = s + x + i - 1 BY <1>16, <1>18
<1>20. PICK d \in Seq(Nat) : d = SubSeq(link, 1, n)
  <2>1. \A i \in 1..n : link[i] \in Nat BY <1>14, <1>18, <1>19, SMTT(30)
  <2>2. SubSeq(link, 1, n) \in Seq(Nat) BY <2>1, <1>14, SubSeqProperties
  <2> QED BY <2>2
<1>21. Len(d) = n /\ \A i \in 1..n : d[i] = link[i] BY <1>14, <1>19, <1>20
<1>22. PICK a \in Nat : a = s + x BY <1>7
<1>23. Holds(d, a) BY <1>19, <1>21, <1>22 DEF Holds
<1>24. ASSUME NEW u \in Int PROVE Contains(d, u) <=> a <= u /\ u < a + n
  BY <1>21, <1>23, RunContains
<1>25. CodeData(t) = d BY <1>4, <1>14, <1>18, <1>20 DEF CodeData
<1>26. \/ x + n = total
       \/ x + n = LinkStart(first, j + 1)
  <2>1. LinkStart(first, j + 1) = x + IF j = 1 THEN first ELSE InBufSize BY <1>7, LinkLine
  <2> QED BY <2>1, <1>1, <1>2, <1>3, <1>4, <1>8, <1>14 DEF InSize
<1>27. \A u \in Int : Contains(CodeData(t), u) <=> s + x <= u /\ u < s + x + n
  BY <1>22, <1>24, <1>25
<1> QED BY <1>2, <1>3, <1>4, <1>8, <1>9, <1>13, <1>14, <1>26, <1>27

(* Decoding what a thread holds of a block, as far as it goes.             *)
LEMMA CodePiece ==
    ASSUME Typed, Typed', Bounds, NEW t \in Threads, CodeStep(t), LocalRules(t), LocalRules(t)',
           job.blocks \in Inputs,
           NEW b \in 1..LastBlock, NEW s \in Nat, Piece(t, b, s),
           Fresh', ~th'[t].loc.wasInterrupted
    PROVE  Piece(t, b, s)'
<1> DEFINE T == th[t]
           L == T.loc
           M == th'[t].loc
<1>1. /\ T.pc = "code" /\ th'[t].pc \in {"code", "write"}
      /\ th'[t].inBuf = T.inBuf /\ th'[t].inDataSize = T.inDataSize
      /\ th'[t].inDataSize_Start = T.inDataSize_Start
      /\ M.block = L.block /\ M.state = L.state
      /\ M.finish = L.finish /\ M.needCode = L.needCode /\ M.needWrite = L.needWrite
      /\ M.isAllocError = L.isAllocError /\ M.overflow = L.overflow
      /\ M.threadingError = L.threadingError
      /\ SameInput /\ SameCall
  BY DEF CodeStep, OnlyDecodes
<1>2. L.needCode /\ L.codeRes = "ok" /\ L.res = "ok" BY <1>1 DEF LocalRules
<1>3. /\ b <= LastBlock /\ s <= BlockEnd(b)
      /\ L.block = IF T.inDataSize = 0 THEN 0 ELSE b
      /\ LinksHold(T.inBuf, T.inDataSize_Start, T.inDataSize, s)
      /\ Taken(t, b, s + T.inDataSize) /\ Coding(t, b, s)
  BY <1>1 DEF Piece
<1>4. /\ LastBlock' = LastBlock /\ Works(t)' /\ Works(t)
      /\ \A x : BlockEnd(x)' = BlockEnd(x) /\ Kind(x)' = Kind(x) /\ LastParsed(x)' = LastParsed(x)
      /\ \A x : Continues(x)' = Continues(x)
      /\ Drained' = Drained
  BY <1>1 DEF SameCall, SameInput, LastBlock, Works, BlockEnd, Kind, LastParsed, Continues,
     Drained
<1>5. PICK n \in Nat : n = InSize(t) BY <1>1, CodeDataFacts
<1>6. PICK x \in Nat : x = L.codePos BY <1>1, CodeDataFacts
<1>7. PICK total \in Nat : total = T.inDataSize BY DEF Typed, ThreadRecs
<1>8. PICK e \in Nat : e = BlockEnd(b) BY BlockFacts
<1>9. /\ x + n <= total /\ x < total /\ L.block = b
      /\ \A u \in Int : Contains(CodeData(t), u) <=> s + x <= u /\ u < s + x + n
      /\ x + n = total \/ x + n = LinkStart(T.inDataSize_Start, L.link + 1 + 1)
      /\ M.codePos = x + n /\ M.link = L.link + 1
  BY <1>1, <1>5, <1>6, <1>7, CodeDataFacts, <1>3 DEF Coding, CodeStep
<1>10. /\ Contains(CodeData(t), e) <=> s + x <= e /\ e < s + x + n
       /\ Contains(CodeData(t), e + 1) <=> s + x <= e + 1 /\ e + 1 < s + x + n
  BY <1>9
<1>11. Taken(t, b, s + T.inDataSize)' BY <1>1, <1>4, <1>3 DEF Follows, SameInput, Ending, Taken
<1>12. ~L.isAllocError => /\ ~L.overflow
                          /\ s + total <= e + 1
                          /\ KnownEnd(L) => s + total = e + 1
                          /\ s + total = e + 1 => Kind(b) # "big"
  BY <1>2, <1>3, <1>7, <1>8 DEF Taken, Ending, KnownEnd
<1>13. ~CodeFails(t) /\ e < s + x + n => Kind(b) = "ok" \/ L.isAllocError
  BY <1>3, <1>6, <1>8, <1>9, <1>10, <1>12, BlockFacts DEF Coding, CodeFails, Kinds
<1>14. ASSUME th'[t].pc = "code" PROVE Coding(t, b, s)'
  BY <1>1, <1>14, <1>2, <1>5, <1>6, <1>7, <1>9, <1>13, <1>4, <1>8 DEF CodeStep, CodeStops,
     Coding
<1>15. ASSUME th'[t].pc = "write", ~Stops(M) PROVE Coded(t, b, s)'
  <2>0. ~L.isAllocError BY <1>1, <1>15 DEF Stops
  <2>1. CASE CodeFails(t) /\ M.codeRes = "data"
    BY <2>1, <1>4, <1>8, <1>9, <1>10, <2>0, <1>12 DEF Coded, CodeFails
  <2>2. CASE ~CodeFails(t) /\ CodeStops(t) /\ M.codeRes = "ok"
    BY <2>0, <1>10, <1>12, <1>9, <2>2, <1>5, <1>6, <1>7, <1>8, <1>1, <1>13, <1>4 DEF CodeStops,
       Coded
  <2>3. CASE M.res = p'.progressRes BY <2>3, <1>2, <1>15, <2>1, <2>2 DEF Fresh, CodeStep
  <2> QED BY <2>1, <2>2, <2>3, <1>2 DEF CodeStep
<1>16. LinksHold(T.inBuf, T.inDataSize_Start, T.inDataSize, s) BY <1>3
<1>17. Parted(t, b)' BY <1>4, <1>1, <1>2 DEF Piece, SameInput, Parted, Stops
<1> QED BY <1>1, <1>2, <1>3, <1>4, <1>11, <1>14, <1>15, <1>17, Zenon DEF Piece

LEMMA CodeInv ==
    ASSUME Inv, NEW t \in Threads, Code(t)
    PROVE  Inv'
<1>1. Typed /\ Bounds /\ Hits_Known BY DEF Inv
<1>2. Typed' /\ CodeStep(t) BY <1>1, CodeMoves
<1>3. OnlyDecodes(t) /\ th[t].pc = "code" /\ ~th[t].loc.wasInterrupted
  BY <1>2 DEF CodeStep, OnlyDecodes
<1>4. Works(t) BY <1>3 DEF Works
<1>5. /\ t \in 0..Started - 1 /\ job.pc = "mt"
      /\ \E w \in 0..Started - 1, k \in 0..Started, B \in 1..p.blockIndex :
            Turn(w, k, B)
  BY <1>4, InRuns
<1>6. LocalRules(t) BY <1>5 DEF Turn, Rules
<1>7. Progress BY <1>2 DEF CodeStep, Progress
<1>8. LocalRules(t)'
  <2>1. th[t].loc.needCode /\ th[t].loc.res = "ok" /\ th[t].loc.codeRes = "ok"
    BY <1>3, <1>6 DEF LocalRules
  <2>2. /\ th'[t].loc.needCode /\ Works(t)' /\ ~Reads(t)'
        /\ th'[t].pc # "fill"
    BY <1>3, <2>1 DEF OnlyDecodes, Works, Reads
  <2>3. Stops(th'[t].loc) => th'[t].loc.finish
    BY <1>2, <2>1, <1>3, <1>6 DEF CodeStep, OnlyDecodes, LocalRules, Stops
  <2>4. th'[t].loc.res # "ok" => p'.progressRes # "ok" BY <1>2, <2>1 DEF CodeStep
  <2>5. ~th'[t].loc.finish => th'[t].loc.needWrite
    BY <1>3, <1>4, <1>6 DEF OnlyDecodes, LocalRules
  <2>6. th'[t].pc = "code" => th'[t].loc.res = "ok" /\ th'[t].loc.codeRes = "ok"
    BY <1>2, <2>1 DEF CodeStep
  <2>7. th'[t].loc.wasInterrupted => p'.interruptIndex # 0 /\ p'.interruptIndex < th'[t].loc.blockIndex
    <3>1. ASSUME th'[t].loc.wasInterrupted
          PROVE  /\ Interrupted(th[t].loc.blockIndex) /\ p'.interruptIndex = p.interruptIndex
                 /\ th'[t].loc.blockIndex = th[t].loc.blockIndex
      BY <3>1, <1>2, <1>3 DEF CodeStep, OnlyDecodes
    <3>2. p.interruptIndex \in Nat /\ th[t].loc.blockIndex \in Nat
      BY <1>1 DEF Typed, MtDecRecs, ThreadRecs, Locals
    <3> QED BY <3>1, <3>2 DEF Interrupted
  <2> QED BY <2>2, <2>3, <2>4, <2>5, <2>6, <2>7 DEF LocalRules
<1>9. p.interruptIndex = 0 => (th'[t].loc.wasInterrupted => th[t].loc.wasInterrupted)
  BY <1>2 DEF CodeStep, Interrupted
<1>10. \/ p'.interruptIndex = p.interruptIndex
       \/ /\ p'.interruptIndex = Interrupt(th[t].loc.blockIndex)
          /\ th'[t].loc.codeRes = "data"
  BY <1>2 DEF CodeStep
<1>11. job.blocks \in Inputs BY <1>1, <1>5 DEF Bounds
<1>12. \A b \in 1..LastBlock, s \in Nat :
              Fresh' /\ Piece(t, b, s) /\ BlockStart(b) <= s /\ ~th'[t].loc.wasInterrupted
                 => Piece(t, b, s)'
  BY <1>1, <1>2, <1>6, <1>8, <1>11, CodePiece
<1>13. th'[t].loc.codeRes # "mem" BY <1>3, <1>6, <1>2 DEF LocalRules, CodeStep
<1> QED BY <1>2, <1>3, <1>7, <1>8, <1>9, <1>10, <1>12, <1>13, DecodeInv

LEMMA UnpreparedInv ==
    ASSUME Inv, NEW t \in Threads, CodeUnprepared(t)
    PROVE  Inv'
<1>1. Typed /\ Bounds /\ Hits_Known BY DEF Inv
<1>2. Typed' /\ UnpreparedStep(t) BY <1>1, UnpreparedMoves
<1>3. /\ OnlyDecodes(t) /\ th[t].pc = "code" /\ th[t].loc.wasInterrupted
      /\ th'[t].loc.wasInterrupted /\ th'[t].pc = "write"
  BY <1>2 DEF UnpreparedStep, OnlyDecodes
<1>4. Works(t) BY <1>3 DEF Works
<1>5. /\ t \in 0..Started - 1 /\ job.pc = "mt"
      /\ \E w \in 0..Started - 1, k \in 0..Started, B \in 1..p.blockIndex :
            Turn(w, k, B)
  BY <1>4, InRuns
<1>6. LocalRules(t) BY <1>5 DEF Turn, Rules
<1>7. Progress BY <1>2 DEF UnpreparedStep, Progress
<1>8. LocalRules(t)'
  <2>1. /\ th[t].loc.needCode /\ th[t].loc.res = "ok" /\ th[t].loc.codeRes = "ok"
        /\ p.interruptIndex # 0 /\ p.interruptIndex < th[t].loc.blockIndex
    BY <1>3, <1>6 DEF LocalRules
  <2>2. /\ th'[t].loc.needCode /\ Works(t)' /\ ~Reads(t)' /\ th'[t].loc.res = "ok"
    BY <1>2, <1>3, <2>1 DEF OnlyDecodes, Works, Reads, UnpreparedStep
  <2>3. Stops(th'[t].loc) => th'[t].loc.finish
    BY <1>2, <2>1, <1>3, <1>6 DEF UnpreparedStep, OnlyDecodes, LocalRules, Stops
  <2>5. ~th'[t].loc.finish => th'[t].loc.needWrite
    BY <1>3, <1>4, <1>6 DEF OnlyDecodes, LocalRules
  <2>7. p'.interruptIndex # 0 /\ p'.interruptIndex < th'[t].loc.blockIndex
    <3>1. \/ p'.interruptIndex = p.interruptIndex
          \/ p'.interruptIndex = Interrupt(th[t].loc.blockIndex)
      BY <1>2 DEF UnpreparedStep
    <3>2. p.interruptIndex \in Nat /\ th[t].loc.blockIndex \in Nat
      BY <1>1 DEF Typed, MtDecRecs, ThreadRecs, Locals
    <3> QED BY <3>1, <3>2, <2>1, <1>3 DEF Interrupt, OnlyDecodes
  <2> QED BY <1>3, <2>2, <2>3, <2>5, <2>7 DEF LocalRules
<1>10. \/ p'.interruptIndex = p.interruptIndex
       \/ /\ p'.interruptIndex = Interrupt(th[t].loc.blockIndex)
          /\ th'[t].loc.codeRes = "data"
  BY <1>2 DEF UnpreparedStep
<1>13. th'[t].loc.codeRes # "mem" BY <1>3, <1>6, <1>2 DEF LocalRules, UnpreparedStep
<1> QED BY <1>2, <1>3, <1>7, <1>8, <1>10, <1>13, DecodeInv

-----------------------------------------------------------------------------
(* Passing the read token on, or keeping it.                               *)

(* What holds of a thread that has come to the end of Pass. *)
LEMMA PassRules ==
    ASSUME Typed, Typed', NEW t \in Threads, LocalRules(t), PassEnds(t) \/ PassOn(t)
    PROVE  LocalRules(t)'
<1> DEFINE L == th[t].loc
           M == th'[t].loc
<1>1. PassBase(t) BY DEF PassEnds, PassOn
<1>2. /\ th[t].pc = "pass" /\ th'[t].pc \in {"code", "write"}
      /\ M.blockIndex = L.blockIndex /\ M.needWrite = L.needWrite
      /\ M.isAllocError = L.isAllocError /\ M.overflow = L.overflow /\ M.codePos = L.codePos
      /\ p'.interruptIndex = p.interruptIndex /\ p'.progressRes = p.progressRes
      /\ M.wasInterrupted = (L.wasInterrupted \/ Interrupted(L.blockIndex))
      /\ M.res = IF L.res = "ok" THEN p.progressRes ELSE L.res
      /\ M.needCode = (L.needCode /\ M.codeRes = "ok" /\ ~M.threadingError)
      /\ th'[t].pc = "code" => M.res = "ok" /\ M.needCode
  BY <1>1 DEF PassBase, Fails
<1>3. Reads(t) /\ Works(t)' /\ ~Reads(t)' /\ th'[t].pc # "fill" /\ th'[t].pc # "pass"
  BY <1>2 DEF Reads, Works
<1>4. L.codePos = 0 BY <1>3 DEF LocalRules
<1>5. p.interruptIndex \in Nat /\ L.blockIndex \in Nat
  BY DEF Typed, MtDecRecs, ThreadRecs, Locals
<1>6. M.res # "ok" => p'.progressRes # "ok" BY <1>2 DEF LocalRules
<1>7. M.wasInterrupted => p'.interruptIndex # 0 /\ p'.interruptIndex < M.blockIndex
  BY <1>2, <1>5 DEF LocalRules, Interrupted
<1>8. CASE M.finish BY <1>2, <1>3, <1>4, <1>6, <1>7, <1>8 DEF LocalRules
<1>9. CASE ~M.finish
  <2>1. /\ PassOn(t) /\ ~L.finish /\ M.codeRes = "ok" /\ M.res = "ok" /\ ~M.wasInterrupted
        /\ ~M.threadingError
    BY <1>9 DEF PassEnds, PassOn
  <2>2. ~Stops(M) BY <2>1, <1>2 DEF LocalRules, Stops
  <2>3. M.needWrite /\ M.needCode
    <3>1. L.res = "ok" /\ ~L.wasInterrupted BY <2>1, <1>2
    <3>2. L.needWrite /\ L.needCode BY <2>1, <3>1, <1>2 DEF LocalRules
    <3> QED BY <2>1, <3>2, <1>2
  <2> QED BY <2>1, <2>2, <2>3, <1>2, <1>3, <1>4, <1>6, <1>7 DEF LocalRules
<1> QED BY <1>8, <1>9

(* What it has read of the block it now decodes. *)
LEMMA PassPiece ==
    ASSUME Typed, Typed', NEW t \in Threads, LocalRules(t), LocalRules(t)',
           PassEnds(t) \/ PassOn(t), job.blocks \in Inputs,
           NEW b \in 1..LastBlock, NEW s \in Nat, Piece(t, b, s),
           Fresh', ~th'[t].loc.wasInterrupted
    PROVE  Piece(t, b, s)'
<1> DEFINE T == th[t]
           L == T.loc
           M == th'[t].loc
           wi == L.wasInterrupted \/ Interrupted(L.blockIndex)
           res == IF L.res = "ok" THEN p.progressRes ELSE L.res
<1>1. PassBase(t) BY DEF PassEnds, PassOn
<1>2. /\ T.pc = "pass" /\ th'[t].pc \in {"code", "write"}
      /\ th'[t].inBuf = T.inBuf /\ th'[t].inDataSize = T.inDataSize
      /\ th'[t].inDataSize_Start = T.inDataSize_Start
      /\ M.block = L.block /\ M.state = L.state /\ M.needWrite = L.needWrite
      /\ M.isAllocError = L.isAllocError /\ M.overflow = L.overflow /\ M.codePos = L.codePos
      /\ M.link = 0
      /\ SameInput /\ SameCall /\ p'.progressRes = p.progressRes
  BY <1>1 DEF PassBase, Fails
<1>3. /\ res = "ok" /\ L.needCode /\ ~wi => (L.block = 0 <=> M.codeRes = "data")
      /\ ~(res = "ok" /\ L.needCode /\ ~wi) => M.codeRes = "ok"
      /\ th'[t].pc = IF res = "ok" /\ M.needCode THEN "code" ELSE "write"
      /\ M.codeRes \in {"ok", "data", "mem"}
      /\ M.wasInterrupted = wi
      /\ M.needCode = (L.needCode /\ M.codeRes = "ok" /\ ~M.threadingError)
  BY <1>1 DEF PassBase
<1>30. /\ M.needCode <=> L.needCode /\ M.codeRes = "ok" /\ ~M.threadingError
       /\ M.wasInterrupted <=> wi
  BY <1>3 DEF Typed, ThreadRecs, Locals
<1>4. /\ LastBlock' = LastBlock /\ Works(t)'
      /\ \A x : BlockEnd(x)' = BlockEnd(x) /\ Kind(x)' = Kind(x) /\ LastParsed(x)' = LastParsed(x)
      /\ \A x : Continues(x)' = Continues(x)
      /\ Drained' = Drained
  BY <1>2 DEF SameCall, SameInput, LastBlock, Works, BlockEnd, Kind, LastParsed, Continues,
     Drained
<1>5. Reads(t) /\ L.codePos = 0 BY <1>2 DEF LocalRules, Reads
<1>6. res = "ok" /\ ~wi BY <1>2, <1>30 DEF Fresh, LocalRules
<1>7. /\ b <= LastBlock /\ s <= BlockEnd(b)
      /\ L.block = IF T.inDataSize = 0 THEN 0 ELSE b
      /\ LinksHold(T.inBuf, T.inDataSize_Start, T.inDataSize, s)
      /\ Taken(t, b, s + T.inDataSize)
      /\ ~L.isAllocError /\ ~L.overflow => Passing(t, s + T.inDataSize)
  BY <1>2 DEF Piece
<1>8. L.isAllocError \/ L.overflow => L.finish BY DEF LocalRules, Stops
<1>9. L.finish => M.finish BY DEF PassEnds, PassOn
<1>10. PICK n \in Nat, e \in Nat, y \in Nat, z \in Nat, pos \in Nat :
          /\ n = T.inDataSize /\ e = BlockEnd(b) /\ y = p.readPos /\ z = job.limit /\ pos = s + n
  <2>1. T.inDataSize \in Nat /\ p.readPos \in Nat /\ job.limit \in Nat /\ BlockEnd(b) \in Nat
    BY BlockFacts DEF Typed, ThreadRecs, MtDecRecs, JobRecs
  <2>2. s + T.inDataSize \in Nat BY <2>1
  <2> QED BY <2>1, <2>2
<1>11. pos = s + T.inDataSize BY <1>10
<1>12. Taken(t, b, pos) /\ (~L.isAllocError /\ ~L.overflow => Passing(t, pos)) BY <1>7, <1>11
<1>13. ~L.isAllocError /\ ~L.overflow => Ending(t, b, pos) /\ L.needCode
  BY <1>12 DEF Taken, Passing
<1>14. Taken(t, b, pos)'
  <2>1. Follows(pos) => Follows(pos)' BY <1>2, <1>4, Zenon DEF Follows, SameInput
  <2>2. Follows(pos) BY <1>12, <1>8, <1>13 DEF Taken, Ending, Passing, Follows
  <2>3. ~L.isAllocError /\ ~L.overflow => Ending(t, b, pos)'
    BY <1>2, <1>4, <1>9, <1>13 DEF Ending, SameInput
  <2>4. L.isAllocError => M.finish BY <1>8, <1>9
  <2>5. L.overflow => (M.finish /\ ~M.needCode) \/ L.isAllocError
    <3>1. ASSUME L.overflow, ~L.isAllocError PROVE ~L.needCode BY <3>1, <1>12 DEF Taken
    <3> QED BY <3>1, <1>3, <1>8, <1>9
  <2>6. L.overflow /\ ~L.isAllocError => Kind(b)' = "big" /\ BlockEnd(b)' < pos
    BY <1>4, <1>12 DEF Taken
  <2>7. M.needWrite \/ M.isAllocError BY <1>2, <1>12 DEF Taken
  <2> QED BY <2>1, <2>2, <2>3, <2>4, <2>5, <2>6, <2>7, <1>2 DEF Taken
<1>15. ~M.needCode => M.finish /\ (Stops(M) \/ M.codeRes = "data")
  BY <1>2, <1>4, <1>3, <1>30, <1>13 DEF LocalRules, Stops
<1>16. ASSUME th'[t].pc = "code" PROVE Coding(t, b, s)'
  BY <1>3, <1>30, <1>6, <1>16, <1>7, <1>2, <1>5, <1>10, <1>4 DEF LinkStart, Coding
<1>17. ASSUME th'[t].pc = "write", ~Stops(M) PROVE Coded(t, b, s)'
  <2>1. ~M.needCode /\ ~L.isAllocError /\ ~L.overflow /\ ~M.threadingError /\ M.codeRes # "mem"
    BY <1>2, <1>3, <1>6, <1>17 DEF Stops
  <2>2. M.codeRes = "data" /\ L.needCode BY <2>1, <1>3, <1>30, <1>13
  <2>3. L.block = 0 BY <2>2, <1>3, <1>6
  <2>4. n = 0 /\ pos = s BY <2>3, <1>7, <1>10
  <2>5. z < s BY <2>1, <1>13, <2>4, <1>7, <1>10 DEF Ending, Drained
  <2>6. th'[t].inDataSize = 0 /\ job'.limit < s BY <2>4, <2>5, <1>2, <1>10 DEF SameInput
  <2> QED BY <2>2, <2>6 DEF Coded
<1>19. Parted(t, b)'
  <2>1. ASSUME ~M.finish PROVE BlockEnd(b)' <= p'.readPos
    <3>1. L.state = "new" /\ pos = e + 1 /\ Continues(pos)
      BY <2>1, <1>8, <1>9, <1>12, <1>13, <1>10 DEF Ending, Passing
    <3>2. PICK c \in Nat : c = Len(p.cross) BY DEF Typed, MtDecRecs
    <3>3. e <= y BY <3>1, <3>2, <1>10 DEF Continues
    <3> QED BY <3>3, <1>2, <1>4, <1>10 DEF SameInput
  <2>2. ASSUME M.finish, M.state = "new" PROVE Stops(M) \/ M.codeRes # "ok"
    BY <1>2, <2>2, <1>12, <1>6, <1>30, <1>1 DEF Stops, Passing, PassEnds, PassOn, PassBase
  <2> QED BY <2>1, <2>2 DEF Parted
<1>18. Taken(t, b, s + th[t].inDataSize)' BY <1>2, <1>10, <1>14
<1> QED BY <1>2, <1>4, <1>7, <1>15, <1>16, <1>17, <1>18, <1>19, Zenon DEF Piece

(* A thread keeps the read token, or can do no more than the others. *)
LEMMA PassEndsInv ==
    ASSUME Inv, Typed', NEW t \in Threads, PassEnds(t)
    PROVE  Inv'
<1>1. Typed /\ Bounds /\ Hits_Known /\ FilledOK BY DEF Inv
<1> DEFINE T == th[t]
           L == T.loc
<1>2. /\ th[t].pc = "pass" /\ th'[t].pc \in {"code", "write"} /\ OnlyThread(t)
      /\ th'[t].canRead = th[t].canRead /\ th'[t].canWrite = th[t].canWrite
      /\ th'[t].inBuf = th[t].inBuf /\ th'[t].inDataSize = th[t].inDataSize
      /\ th'[t].inDataSize_Start = th[t].inDataSize_Start
      /\ th'[t].loc.blockIndex = th[t].loc.blockIndex
      /\ th'[t].loc.block = th[t].loc.block
      /\ th'[t].loc.finish
      /\ th'[t].loc.isAllocError = th[t].loc.isAllocError
      /\ th'[t].loc.wasInterrupted = (th[t].loc.wasInterrupted \/ Interrupted(th[t].loc.blockIndex))
      /\ SameTokens /\ SameStops /\ SameInput /\ SameCall
      /\ p'.interruptIndex = p.interruptIndex /\ p'.progressRes = p.progressRes
      /\ \E f \in {"mem", "create"} : Fails(f)
  BY DEF PassEnds, PassBase, Fails
<1>3. Reads(t) /\ ~Reads(t)' /\ ~Works(t) /\ Works(t)' /\ Closes(t)' /\ HasRead(t)
  BY <1>2 DEF Reads, Works, Closes, HasRead
<1>4. /\ t \in 0..Started - 1 /\ job.pc = "mt" /\ ~p.exitThread /\ th[0].pc # "ret"
      /\ \E w \in 0..Started - 1, k \in 0..Started, B \in 1..p.blockIndex :
            Turn(w, k, B)
  BY <1>3, InRuns
<1>5. PICK w \in 0..Started - 1, k \in 0..Started, B \in 1..p.blockIndex :
            Turn(w, k, B)
  BY <1>4
<1>6. Started \in Nat /\ p.blockIndex \in Nat /\ w \in Nat /\ k \in Nat /\ B \in Nat
  BY <1>1 DEF Typed, MtDecRecs, Started
<1>7. Ring(w, k, B) /\ Rules(w, k, B) BY <1>5 DEF Turn
<1>8. /\ Ring(w, k + 1, B)' /\ k < Started /\ Offset(w, t) = k
      /\ \A u \in Threads : Reads(u) => u = t
      /\ \A u \in Threads : ~Reads(u)' /\ (th'[u].canRead = th[u].canRead)
      /\ \A u \in Threads : ~th[u].canRead
  BY <1>1, <1>4, <1>6, <1>7, RingPass
<1>9. LocalRules(t) /\ LocalRules(t)' BY <1>4, <1>7, <1>1, PassRules DEF Rules
<1>10. 0..Started - 1 \subseteq Threads /\ 0 \in Threads
  BY <1>1, <1>6, <1>7, InRingType, Numbers
<1>11. \A u \in Threads : (HasRead(u) => u = t) /\ ~Closes(u)
  BY <1>1, <1>3, <1>4, <1>6, <1>7, Holder
<1>13. /\ job'.pc = "mt" /\ job'.blocks = job.blocks /\ job'.emitted = job.emitted
       /\ Started' = Started /\ Written' = Written /\ LastBlock' = LastBlock
       /\ p'.blockIndex = p.blockIndex /\ p'.exitThread = p.exitThread
  BY <1>2, <1>4 DEF SameCall, SameTokens, Started, Written, LastBlock
<1>14. \A u \in Threads \ {t} : SameThread(u) /\ th'[u] = th[u]
  BY <1>2 DEF OnlyThread, SameThread
<1>15. Bounds' /\ Hits_Known'
  <2>1. CrossBounds' BY <1>1, <1>2, CrossStays
  <2>2. ThreadBounds(t)' BY <1>13, <1>1, <1>2, <1>3 DEF Bounds, ThreadBounds
  <2>3. Bounds' BY <1>1, <1>2, <1>4, <1>13, <1>14, <2>1, <2>2, BoundsStay DEF SameInput
  <2>4. p.readPos <= p'.readPos BY <1>1, <1>2 DEF SameInput, Typed, MtDecRecs
  <2>6. \E f \in {"alloc", "mem", "create"} : Fails(f) BY <1>2
  <2>5. Hits_Known' BY <1>1, <1>2, <1>4, <2>4, <2>6, HitsStay DEF SameInput, SameStops
  <2> QED BY <2>3, <2>5
<1>16. FilledOK' BY <1>1, <1>2, <1>13 DEF FilledOK, SameStops
<1>17. ErrorsStay BY <1>1, <1>2, SMTT(30) DEF ErrorsStay, Typed, MtDecRecs
<1>18. p'.progressRes \in {"ok", "progress"} /\ p.progressRes \in {"ok", "progress"}
  BY <1>1 DEF Typed, MtDecRecs
<1>19. Fresh' => Fresh BY <1>2, <1>17 DEF Fresh, SameStops, ErrorsStay
<1>20. Rules(w, k + 1, B)'
  <2>1. ~GoesOnSingle' BY <1>2, <1>7 DEF Rules, GoesOnSingle, SameStops
  <2>2. ASSUME NEW u \in 0..Started - 1 PROVE LocalRules(u)'
    BY <1>10, <1>9, <1>7, <1>1, <1>14, <1>17, OthersRules DEF Rules
  <2>3. ASSUME p'.interruptIndex # 0, Fresh'
        PROVE  \E u \in 0..Started' - 1 :
                  /\ Works(u)' /\ th'[u].loc.blockIndex = p'.interruptIndex
                  /\ th'[u].loc.codeRes = "data"
    BY <2>3, <1>2, <1>7, <1>19, <1>3, <1>10, <1>13, <1>14 DEF Rules, Works
  <2>4. ASSUME p'.numFilledThreads > 0
        PROVE  /\ ~Fresh' /\ p'.interruptIndex # 0 /\ p'.interruptIndex < B
               /\ \/ p'.numFilledThreads + (k + 1) <= Started'
                  \/ /\ p'.numFilledThreads + (k + 1) = Started' + 1
                     /\ \E u \in 0..Started' - 1 : Closes(u)' /\ th'[u].inDataSize = 0
               /\ \A u \in 0..Started' - 1 : ~Reads(u)'
    <3>1. p'.numFilledThreads = p.numFilledThreads BY <1>2 DEF SameStops
    <3>2. /\ ~Fresh /\ p.interruptIndex # 0 /\ p.interruptIndex < B
          /\ \/ p.numFilledThreads + k <= Started
             \/ \E u \in 0..Started - 1 : Closes(u) /\ th[u].inDataSize = 0
          /\ \A u \in 0..Started - 1 : Reads(u) =>
                \/ p.numFilledThreads + k < Started
                \/ th[u].pc = "pass" /\ th[u].inDataSize = 0
      BY <2>4, <3>1, <1>7 DEF Rules
    <3>3. p.numFilledThreads + k <= Started BY <3>2, <1>10, <1>11
    <3>4. p.numFilledThreads \in Nat BY <1>1 DEF Typed, MtDecRecs
    <3>5. p.numFilledThreads + k < Started \/ th[t].inDataSize = 0 BY <3>2, <1>3, <1>4
    <3>6. \A u \in 0..Started' - 1 : ~Reads(u)' BY <1>8, <1>10, <1>13
    <3>7. CASE p.numFilledThreads + k < Started
      BY <3>4, <3>7, <1>6, <3>1, <3>2, <3>6, <1>2, <1>13, <1>19
    <3>8. CASE p.numFilledThreads + k = Started
      BY <3>4, <3>8, <1>6, <3>5, <1>2, <1>3, <1>4, <1>13, <3>1, <3>2, <3>6, <1>19
    <3> QED BY <3>3, <3>4, <3>7, <3>8, <1>6
  <2> QED BY <2>1, <2>2, <2>3, <2>4, <1>13 DEF Rules
<1>21. ASSUME Fresh' PROVE Flows(w, k + 1)' \/ NoMore(w, k + 1)'
  <2>0. Fresh BY <1>19, <1>21
  <2>1. /\ job.blocks \in Inputs
        /\ Written \in 0..LastBlock /\ LastBlock \in Nat \ {0}
        /\ BlockStart(Written + 1) = BlockEnd(Written) + 1
        /\ \A b \in 0..LastBlock : BlockEnd(b) \in Nat
    BY <1>1, <1>4, Place
  <2>2. \A u : Offset(w, u)' = Offset(w, u) BY <1>13 DEF Offset
  <2>3. \A x : BlockEnd(x)' = BlockEnd(x) /\ BlockStart(x)' = BlockStart(x)
    BY <1>13 DEF BlockEnd, BlockStart
  <2>4. Drained' = Drained /\ job'.limit = job.limit /\ (\A x : Continues(x)' = Continues(x))
        /\ p'.readPos = p.readPos /\ p'.readWasFinished = p.readWasFinished
    BY <1>2 DEF SameInput, Drained, Continues
  <2>6. CASE Flows(w, k)
    <3>1. ASSUME NEW u \in 0..Started' - 1, Works(u)' \/ Reads(u)', ~th'[u].loc.wasInterrupted
          PROVE  Piece(u, Written + 1 + Offset(w, u), BlockStart(Written + 1 + Offset(w, u)))'
      <4>0. u \in Threads /\ u \in 0..Started - 1 BY <1>10, <1>13
      <4>1. PICK b \in Nat \ {0} : b = Written + 1 + Offset(w, u)
        BY <4>0, <1>1, <1>5, OffsetFacts, <2>1
      <4>2. (Written + 1 + Offset(w, u))' = b BY <4>1, <2>2, <1>13
      <4>3. CASE u = t
        <5>1. Piece(t, b, BlockStart(b)) BY <4>0, <4>1, <4>3, <3>1, <2>6, <1>2, <1>3 DEF Flows
        <5>2. b \in 1..LastBlock BY <5>1, <2>1 DEF Piece
        <5>3. PICK s \in Nat : s = BlockStart(b) BY <5>2, <2>1 DEF BlockStart
        <5>4. Piece(t, b, s) /\ BlockStart(b) <= s BY <5>1, <5>3
        <5>5. Piece(t, b, s)' BY <5>2, <5>4, <3>1, <4>3, <1>1, <1>9, <1>21, <2>1, PassPiece
        <5> QED BY <5>5, <5>3, <4>2, <4>3, <2>3
      <4>4. CASE u # t
        <5>1. Works(u) \/ Reads(u) BY <4>0, <4>4, <3>1, <1>14, SameThreadDoes
        <5>3. Piece(u, b, BlockStart(b)) BY <5>1, <4>0, <4>1, <4>4, <3>1, <2>6, <1>14 DEF Flows
        <5>4. Piece(u, b, BlockStart(b))'
          BY <5>1, <5>3, <4>0, <4>4, <2>1, <1>1, <1>2, <1>13, <1>14, OthersFlow
        <5> QED BY <5>4, <4>2
      <4> QED BY <4>3, <4>4
    <3>2. p'.blockIndex = 1 => w = 0 BY <2>6, <1>13 DEF Flows
    <3>3. \A u \in 0..Started' - 1 : ~th'[u].canRead BY <1>8, <1>10, <1>13
    <3>4. /\ th'[0].inBuf = th[0].inBuf /\ th'[0].pc # "fill"
          /\ Works(0) \/ Reads(0) => Works(0)' \/ Reads(0)'
          /\ th[0].loc.isAllocError => th'[0].loc.isAllocError
          /\ th[0].loc.wasInterrupted => th'[0].loc.wasInterrupted
          /\ th[0].pc # "fill"
      <4>1. CASE t = 0 BY <4>1, <1>2, <1>3
      <4>2. CASE t # 0 BY <4>2, <1>8, <1>10, <1>14 DEF Reads, Works
      <4> QED BY <4>1, <4>2
    <3>5. p.blockIndex > 1 =>
              /\ th[0].pc # "fill" =>
                   \/ th[0].inBuf # <<>>
                   \/ (Works(0) \/ Reads(0)) /\ (th[0].loc.isAllocError \/ th[0].loc.wasInterrupted)
              /\ th[0].pc = "fill" /\ th[0].loc.link > 0 => th[0].inBuf # <<>>
      BY <2>6 DEF Flows
    <3>6. p'.blockIndex > 1 =>
              /\ th'[0].pc # "fill" =>
                   \/ th'[0].inBuf # <<>>
                   \/ (Works(0)' \/ Reads(0)') /\ (th'[0].loc.isAllocError \/ th'[0].loc.wasInterrupted)
              /\ th'[0].pc = "fill" /\ th'[0].loc.link > 0 => th'[0].inBuf # <<>>
      BY <3>4, <3>5, <1>13
    <3> QED BY <3>1, <3>2, <3>3, <3>6 DEF Flows
  <2>7. CASE NoMore(w, k)
    <3>1. /\ w = 0 /\ Drained /\ th[0].inBuf # <<>>
          /\ Written < LastBlock /\ job.limit < BlockEnd(Written + 1)
          /\ \A u \in 0..Started - 1 : HasRead(u) \/ Works(u) => u = 0
          /\ Reads(0) \/ Works(0) => /\ th[0].loc.finish /\ Piece(0, Written + 1, job.limit + 1)
                                     /\ ~th[0].loc.isAllocError /\ ~th[0].loc.wasInterrupted
      BY <2>7 DEF NoMore
    <3>2. t = 0 BY <3>1, <1>3, <1>4
    <3>3. p.interruptIndex = 0 BY <2>0, <1>7, <3>1, <3>2, <1>3 DEF Rules
    <3>5. PICK b \in 1..LastBlock : b = Written + 1 BY <3>1, <2>1
    <3>6. PICK s \in Nat : s = job.limit + 1 /\ BlockStart(b) <= s
      <4>1. job.limit \in Nat /\ BlockStart(b) = BlockEnd(Written) + 1 /\ BlockEnd(Written) \in Nat
        BY <1>1, <2>1, <3>5 DEF Typed, JobRecs
      <4>2. BlockEnd(Written) <= job.limit BY <1>1, <1>4, <3>1 DEF Hits_Known, InOrder, Drained
      <4> QED BY <4>1, <4>2
    <3>7. Piece(t, b, job.limit + 1) /\ th[t].loc.finish /\ th[t].inBuf # <<>>
      BY <3>1, <3>2, <3>5, <1>3
    <3>8. /\ Drained' /\ job'.limit = job.limit /\ th'[t].loc.finish
          /\ ~th'[t].loc.isAllocError /\ ~th'[t].loc.wasInterrupted
      BY <3>1, <3>2, <3>3, <1>2, <1>3, <2>4 DEF Interrupted
    <3>9. Piece(t, b, s) BY <3>6, <3>7
    <3>10. Piece(t, b, s)' BY <3>6, <3>8, <3>9, <1>1, <1>9, <1>21, <2>1, PassPiece
    <3>11. ASSUME NEW u \in 0..Started' - 1, HasRead(u)' \/ Works(u)' PROVE u = 0
      BY <1>10, <1>13, <3>11, <1>14, <3>1, <3>2 DEF HasRead, Works, Reads
    <3>12. (Written + 1)' = b /\ (job.limit + 1)' = s
           /\ (Written < LastBlock)' /\ (job.limit < BlockEnd(Written + 1))'
      BY <3>1, <3>5, <3>6, <3>8, <2>3, <1>13
    <3>13. th'[0].inBuf # <<>> BY <3>1, <3>2, <1>2
    <3>15. ~th'[0].loc.threadingError BY <3>2, <3>7 DEF PassEnds
    <3>16. th'[0].loc.codeRes # "mem"
      <4>1. T.inDataSize = 0 => L.block = 0 BY <3>7 DEF Piece
      <4>2. L.needCode => T.inDataSize = 0
        <5>1. ~L.isAllocError /\ L.needCode => Follows(s + T.inDataSize)
          BY <3>6, <3>7, <1>2 DEF Piece, Taken
        <5>2. T.inDataSize \in Nat /\ job.limit \in Nat /\ p.readPos = job.limit
              /\ p.cross = <<>>
          BY <1>1, <3>1 DEF Typed, ThreadRecs, JobRecs, Drained
        <5>3. ~L.isAllocError BY <3>1, <3>2, <1>3
        <5>4. Continues(s + T.inDataSize) => s + T.inDataSize = job.limit + 1
          BY <5>2, <3>6 DEF Continues
        <5>5. L.needCode => s + T.inDataSize <= job.limit + 1
          BY <5>1, <5>2, <5>3, <5>4, <3>6 DEF Follows
        <5> QED BY <5>2, <5>5, <3>6
      <4>3. th'[t].loc.codeRes = "ok" \/ (L.needCode /\ (L.block = 0 <=> th'[t].loc.codeRes = "data"))
        BY DEF PassEnds, PassBase
      <4> QED BY <4>1, <4>2, <4>3, <3>2
    <3>14. NoMore(w, k + 1)'
      BY <3>1, <3>2, <3>8, <3>10, <3>11, <3>12, <3>13, <3>15, <3>16 DEF NoMore
    <3> QED BY <3>14
  <2> QED BY <2>0, <2>6, <2>7, <1>5 DEF Turn
<1>22. p'.progressRes # "ok" \/ "write" \in job'.hit \/ Fresh' \/ Complete'
  <2>1. p.progressRes # "ok" \/ "write" \in job.hit \/ Fresh \/ Complete BY <1>5 DEF Turn
  <2>2. Fresh => p'.progressRes # "ok" \/ Fresh' BY <1>2 DEF Fresh, SameStops
  <2>3. Complete => Complete'
    BY <1>13, <1>1, <1>4, Place, <1>2 DEF BlockEnd, Kind, Typed, JobRecs, Complete, SameInput
  <2>4. "write" \in job.hit => "write" \in job'.hit BY <1>2 DEF Fails
  <2> QED BY <2>1, <2>2, <2>3, <2>4, <1>2
<1>23. Turn(w, k + 1, B)' BY <1>8, <1>20, <1>21, <1>22 DEF Turn
<1>24. B \in 1..p'.blockIndex /\ w \in 0..Started' - 1 /\ k + 1 \in 0..Started'
  BY <1>5, <1>6, <1>8, <1>13
<1>25. ~p'.exitThread /\ th'[0].pc # "ret" BY <1>10, <1>2, <1>4, <1>13, <1>14
<1> QED BY <1>13, <1>15, <1>16, <1>23, <1>24, <1>25, RunsOn

(* A thread that passes the read token on has parsed a whole block, and    *)
(* the next block begins where its own ends.                               *)
LEMMA WholeBlockRead ==
    ASSUME Typed, job.blocks \in Inputs, NEW t \in Threads, LocalRules(t), PassOn(t),
           NEW b \in 1..LastBlock, Piece(t, b, BlockStart(b))
    PROVE  /\ b + 1 <= LastBlock /\ Continues(BlockStart(b + 1))
           /\ p.readWasFinished => p.readPos = job.limit
<1> DEFINE T == th[t]
           L == T.loc
<1>1. T.pc = "pass" /\ ~L.finish BY DEF PassOn, PassBase
<1>2. ~L.isAllocError /\ ~L.overflow BY <1>1 DEF LocalRules, Stops
<1>3. PICK pos : pos = BlockStart(b) + T.inDataSize OBVIOUS
<1>4. Taken(t, b, pos) /\ Passing(t, pos) BY <1>1, <1>2, <1>3 DEF Piece
<1>5. Ending(t, b, pos) BY <1>2, <1>4 DEF Taken
<1>6. L.state = "new" /\ pos = BlockEnd(b) + 1 /\ ~LastParsed(b) BY <1>1, <1>5 DEF Ending
<1>7. Continues(pos) /\ (p.readWasFinished => p.readPos = job.limit) BY <1>4, <1>6 DEF Passing
<1>8. LastBlock \in Nat /\ b # LastBlock BY <1>6, BlockFacts DEF LastParsed
<1>9. BlockStart(b + 1) = pos BY <1>8, <1>6 DEF BlockStart
<1> QED BY <1>7, <1>8, <1>9

(* The ring after the read token has been passed on. *)
LEMMA RingPasses ==
    ASSUME Typed, Typed', Bounds, NEW w \in Nat, NEW k \in Nat, NEW B \in Nat, Ring(w, k, B),
           NEW t \in 0..Started - 1, PassOn(t)
    PROVE  /\ Ring(w, k + 1, B)' /\ k < Started /\ Offset(w, t) = k
           /\ Started' \in {Started, Started + 1}
           /\ Started' # Started => th[Started].loc = NoLocals
           /\ \A u \in 0..Started - 1 : Works(u) \/ u = t => Offset(w, u)' = Offset(w, u)
           /\ \A u \in Threads \ {t} : SameThread(u)
           /\ \A u \in Threads : Works(u)' => u \in 0..Started - 1
           /\ \A u \in Threads : ~Reads(u)'
<1>0. /\ Started \in Nat \ {0} /\ w \in 0..Started - 1 /\ k \in 0..Started /\ B > 0
      /\ p.numStartedThreads_Limit \in Nat /\ p.blockIndex \in Nat
      /\ 0..Started - 1 \subseteq Threads
  BY InRingType
<1>1. /\ k < Started /\ Offset(w, t) = k
      /\ \A u \in Threads : ~Reads(u)'
      /\ \A u \in Threads \ {t} : /\ Works(u)' <=> Works(u)
                                  /\ th'[u].pc = th[u].pc \/ (u = Started /\ th'[u].pc = "wait")
  BY OnFacts
<1>2. \A u \in Threads : u >= Started => Idle(u) BY Zenon DEF Ring
<1>3. Ring(w, k + 1, B)' BY RingOn, RingGrows
<1>4. ASSUME Started' # Started
      PROVE  /\ Started' = Started + 1 /\ t = w + k
             /\ \A u \in Threads : Works(u) => w <= u /\ u < t
  BY <1>4, RingGrows
<1>5. Started' \in {Started, Started + 1} BY <1>4
<1>6. Started' # Started => th[Started].loc = NoLocals
  <2>1. Started' \in 0..NumThreads BY DEF Typed, MtDecRecs, Started
  <2>2. ASSUME Started' # Started PROVE Started \in Threads BY <2>1, <2>2, <1>0, <1>4, Numbers
  <2>3. ASSUME Started' # Started PROVE Idle(Started) BY <2>2, <2>3, <1>0, <1>2
  <2> QED BY <2>2, <2>3 DEF Bounds, Idle, Reads, Works
<1>7. ASSUME NEW u \in 0..Started - 1, Works(u) \/ u = t PROVE Offset(w, u)' = Offset(w, u)
  <2>1. CASE Started' = Started BY <2>1 DEF Offset
  <2>2. CASE Started' # Started
    <3>1. u >= w BY <2>2, <1>0, <1>4, <1>7
    <3> QED BY <3>1 DEF Offset
  <2> QED BY <2>1, <2>2
<1>8. ASSUME NEW u \in Threads \ {t} PROVE SameThread(u)
  BY <1>0, <1>1, <1>2 DEF PassOn, SameThread
<1>9. ASSUME NEW u \in Threads, Works(u)' PROVE u \in 0..Started - 1
  BY <1>1, <1>9, Numbers, <1>2, <1>0 DEF Idle, Works
<1> QED BY <1>1, <1>3, <1>5, <1>6, <1>7, <1>8, <1>9

(* The thread after the one at k is in the ring too, be it new or not.      *)
LEMMA NextOffset ==
  ASSUME NEW s \in Nat, NEW s2 \in {s, s + 1}, NEW w \in 0..s - 1, NEW k \in Nat, k < s
  PROVE  w \in 0..s2 - 1 /\ k + 1 \in 0..s2
  OBVIOUS

(* The read token goes to the next thread. *)
LEMMA PassOnInv ==
    ASSUME Inv, Typed', NEW t \in Threads, t < Started, PassOn(t)
    PROVE  Inv'
<1>1. Typed /\ Bounds /\ Hits_Known /\ FilledOK BY DEF Inv
<1>2. PassBase(t) BY DEF PassOn
<1>3. /\ th[t].pc = "pass" /\ th'[t].pc \in {"code", "write"}
      /\ th'[t].canWrite = th[t].canWrite
      /\ th'[t].inBuf = th[t].inBuf /\ th'[t].inDataSize = th[t].inDataSize
      /\ th'[t].inDataSize_Start = th[t].inDataSize_Start
      /\ th'[t].loc.blockIndex = th[t].loc.blockIndex
      /\ th'[t].loc.block = th[t].loc.block
      /\ p'.blockIndex = p.blockIndex /\ p'.exitThread = p.exitThread
      /\ SameStops /\ SameInput /\ SameCall
      /\ p'.interruptIndex = p.interruptIndex /\ p'.progressRes = p.progressRes
      /\ \E f \in {"alloc", "mem", "create"} : Fails(f)
  BY <1>2 DEF PassBase, Fails
<1>4. Reads(t) /\ ~Reads(t)' /\ ~Works(t) /\ Works(t)' BY <1>3 DEF Reads, Works
<1>5. /\ t \in 0..Started - 1 /\ job.pc = "mt" /\ ~p.exitThread /\ th[0].pc # "ret"
      /\ \E w \in 0..Started - 1, k \in 0..Started, B \in 1..p.blockIndex :
            Turn(w, k, B)
  BY <1>4, InRuns
<1>6. PICK w \in 0..Started - 1, k \in 0..Started, B \in 1..p.blockIndex :
            Turn(w, k, B)
  BY <1>5
<1>7. Started \in Nat /\ p.blockIndex \in Nat /\ w \in Nat /\ k \in Nat /\ B \in Nat
  BY <1>1 DEF Typed, MtDecRecs, Started
<1>8. Ring(w, k, B) /\ Rules(w, k, B) BY <1>6 DEF Turn
<1>9. /\ Ring(w, k + 1, B)' /\ k < Started /\ Offset(w, t) = k
      /\ Started' \in {Started, Started + 1}
      /\ Started' # Started => th[Started].loc = NoLocals
      /\ \A u \in 0..Started - 1 : Works(u) \/ u = t => Offset(w, u)' = Offset(w, u)
      /\ \A u \in Threads \ {t} : SameThread(u)
      /\ \A u \in Threads : Works(u)' => u \in 0..Started - 1
      /\ \A u \in Threads : ~Reads(u)'
  BY <1>1, <1>5, <1>7, <1>8, RingPasses, Zenon
<1>10. 0..Started - 1 \subseteq Threads /\ 0 \in Threads /\ 0..Started' - 1 \subseteq Threads
  <2>1. Started' \in 0..NumThreads BY DEF Typed, MtDecRecs, Started
  <2>2. 0..Started - 1 \subseteq Threads BY <1>1, <1>7, <1>8, InRingType
  <2>4. PICK n \in 0..NumThreads : n = Started' BY <2>1
  <2>5. 0..n - 1 \subseteq Threads BY Numbers
  <2>3. 0..Started' - 1 \subseteq Threads /\ 0 \in Threads BY <2>4, <2>5, Numbers
  <2> QED BY <2>2, <2>3
<1>26. (Started' = Started \/ Started' = Started + 1) /\ Started \in Nat BY <1>7, <1>9
<1>11. LocalRules(t) /\ LocalRules(t)' BY <1>5, <1>8, <1>1, PassRules DEF Rules
<1>13. /\ job'.pc = "mt" /\ job'.blocks = job.blocks /\ job'.emitted = job.emitted
       /\ Written' = Written /\ LastBlock' = LastBlock
  BY <1>3, <1>5 DEF SameCall, Written, LastBlock
<1>14. \A u \in Threads \ {t} : SameThread(u) BY <1>9
<1>15. Bounds' /\ Hits_Known'
  <2>1. CrossBounds' BY <1>1, <1>3, CrossStays
  <2>2. ThreadBounds(t)' BY <1>13, <1>1, <1>3, <1>4 DEF Bounds, ThreadBounds
  <2>3. Bounds' BY <1>1, <1>3, <1>5, <1>13, <1>14, <2>1, <2>2, BoundsStay DEF SameInput
  <2>4. p.readPos <= p'.readPos BY <1>1, <1>3 DEF SameInput, Typed, MtDecRecs
  <2>5. Hits_Known' BY <1>1, <1>3, <1>5, <2>4, HitsStay DEF SameInput, SameStops
  <2> QED BY <2>3, <2>5
<1>16. FilledOK'
  <2>1. p.numFilledThreads \in Nat /\ p.filledThreadStart \in Nat
    BY <1>1, Numbers DEF Typed, MtDecRecs
  <2>2. p'.numFilledThreads = p.numFilledThreads /\ p'.filledThreadStart = p.filledThreadStart
    BY <1>3 DEF SameStops
  <2>3. Started' \in Nat /\ Started <= Started' BY <1>7, <1>9
  <2> QED BY <2>1, <2>2, <2>3, <1>1, <1>7 DEF FilledOK
<1>17. ErrorsStay BY <1>1, <1>3 DEF ErrorsStay, Typed, MtDecRecs
<1>19. Fresh' => Fresh BY <1>3 DEF Fresh, SameStops
<1>20. Rules(w, k + 1, B)'
  <2>1. ~GoesOnSingle' BY <1>3, <1>8 DEF Rules, GoesOnSingle, SameStops
  <2>2. ASSUME NEW u \in 0..Started' - 1 PROVE LocalRules(u)'
    <3>1. u \in Threads BY <1>10
    <3>2. CASE u = t BY <3>2, <1>11
    <3>3. CASE u # t
      <4>1. LocalRules(u)
        <5>1. CASE u \in 0..Started - 1
          BY <5>1, <1>8 DEF Rules
        <5>2. CASE u = Started /\ Started' # Started
          <6>1. th[u].loc = NoLocals
            BY <5>2, <1>9
          <6>2. u \notin 0..Started - 1 /\ u \in Nat
            BY <5>2, <1>7
          <6>4. \A v \in Threads : v >= Started => Idle(v)
            BY <1>8, Zenon DEF Ring
          <6>3. Idle(u)
            BY <6>4, <3>1, <5>2, <1>7
          <6> QED
            BY <6>1, <6>3 DEF LocalRules, NoLocals, Idle, Reads, Works, Stops
        <5> QED
          BY <5>1, <5>2, <2>2, <1>26
      <4> QED BY <4>1, <3>1, <3>3, <1>1, <1>14, <1>17, OthersRules
    <3> QED BY <3>2, <3>3
  <2>3. ASSUME p'.interruptIndex # 0, Fresh'
        PROVE  \E u \in 0..Started' - 1 :
                  /\ Works(u)' /\ th'[u].loc.blockIndex = p'.interruptIndex
                  /\ th'[u].loc.codeRes = "data"
    BY <2>3, <1>3, <1>8, <1>19, <1>4, <1>10, <1>14, SameThreadDoes, <1>26 DEF Rules, SameThread
  <2>4. p.numFilledThreads = 0
    <3>1. ASSUME p.numFilledThreads > 0 PROVE FALSE
      <4>1. p.interruptIndex # 0 /\ p.interruptIndex < B BY <3>1, <1>8 DEF Rules
      <4>2. th[t].loc.blockIndex = B + k BY <1>4, <1>5, <1>8, <1>9 DEF Ring, InRing
      <4>3. p.interruptIndex \in Nat /\ B + k > p.interruptIndex
        BY <4>1, <1>1, <1>7, SMTT(30) DEF Typed, MtDecRecs
      <4>4. ~Interrupted(th[t].loc.blockIndex)
        <5>1. ~th'[t].loc.wasInterrupted BY DEF PassOn
        <5>2. th'[t].loc.wasInterrupted
                 = (th[t].loc.wasInterrupted \/ Interrupted(th[t].loc.blockIndex))
          BY <1>2 DEF PassBase
        <5> QED BY <5>1, <5>2
      <4> QED BY <4>1, <4>2, <4>3, <4>4 DEF Interrupted
    <3>2. p.numFilledThreads \in Nat BY <1>1 DEF Typed, MtDecRecs
    <3> QED BY <3>1, <3>2
  <2>5. ~(p'.numFilledThreads > 0) BY <2>4, <1>3 DEF SameStops
  <2> QED BY <2>1, <2>2, <2>3, <2>5 DEF Rules
<1>21. ASSUME Fresh' PROVE Flows(w, k + 1)'
  <2>0. Fresh BY <1>19, <1>21
  <2>1. /\ job.blocks \in Inputs
        /\ Written \in 0..LastBlock /\ LastBlock \in Nat \ {0}
        /\ BlockStart(Written + 1) = BlockEnd(Written) + 1
        /\ \A b \in 0..LastBlock : BlockEnd(b) \in Nat
    BY <1>1, <1>5, Place
  <2>3. \A x : BlockEnd(x)' = BlockEnd(x) /\ BlockStart(x)' = BlockStart(x)
    BY <1>13 DEF BlockEnd, BlockStart
  <2>4. (\A x : Continues(x)' = Continues(x)) /\ job'.limit = job.limit
        /\ p'.readPos = p.readPos /\ p'.readWasFinished = p.readWasFinished
    BY <1>3 DEF SameInput, Continues
  <2>5. Flows(w, k)
    <3>1. ~NoMore(w, k) BY <1>4, <1>5 DEF NoMore, HasRead, PassOn
    <3> QED BY <2>0, <3>1, <1>6 DEF Turn
  <2>6. ~th'[t].loc.wasInterrupted /\ ~th[t].loc.wasInterrupted /\ ~th[t].loc.isAllocError
    <3>1. ~th'[t].loc.wasInterrupted /\ ~th[t].loc.finish BY DEF PassOn
    <3>2. ~th[t].loc.wasInterrupted BY <3>1, <1>2 DEF PassBase
    <3> QED BY <3>1, <3>2, <1>11 DEF LocalRules, Stops
  <2>7. Piece(t, Written + 1 + k, BlockStart(Written + 1 + k))
    BY <2>5, <2>6, <1>4, <1>5, <1>9 DEF Flows
  <2>8. PICK c \in 1..LastBlock : c = Written + 1 + k BY <2>1, <2>7, <1>7 DEF Piece
  <2>9. /\ c + 1 <= LastBlock /\ Continues(BlockStart(c + 1))
        /\ p.readWasFinished => p.readPos = job.limit
    BY <2>1, <2>7, <2>8, <1>1, <1>11, WholeBlockRead
  <2>10. ASSUME NEW u \in 0..Started' - 1, Works(u)' \/ Reads(u)', ~th'[u].loc.wasInterrupted
         PROVE  Piece(u, Written + 1 + Offset(w, u), BlockStart(Written + 1 + Offset(w, u)))'
    <3>0. u \in Threads /\ Works(u)' /\ u \in 0..Started - 1 BY <2>10, <1>9, <1>10
    <3>1. u = t \/ Works(u) BY <3>0, <1>14, SameThreadDoes
    <3>2. Offset(w, u)' = Offset(w, u) BY <3>0, <3>1, <1>9
    <3>3. PICK b \in Nat \ {0} : b = Written + 1 + Offset(w, u)
      BY <3>0, <1>1, <1>6, OffsetFacts, <2>1
    <3>4. (Written + 1 + Offset(w, u))' = b BY <3>2, <3>3, <1>13
    <3>5. CASE u = t
      BY <2>7, <2>8, <3>3, <3>5, <1>9, <2>1, <2>6, <1>1, <1>11, <1>21, PassPiece, <3>4, <2>3 DEF
         BlockStart
    <3>6. CASE u # t
      <4>1. SameThread(u) /\ Works(u)
        BY <3>0, <3>1, <3>6, <1>14
      <4>2. ~th[u].loc.wasInterrupted
        BY <4>1, <2>10 DEF SameThread
      <4>3. Piece(u, b, BlockStart(b))
        BY <4>1, <4>2, <3>0, <3>3, <2>5 DEF Flows
      <4>4. Piece(u, b, BlockStart(b))'
        BY <4>1, <4>3, <3>0, <2>1, <1>1, <1>3, <1>13, OthersFlow
      <4> QED
        BY <4>4, <3>4
    <3> QED BY <3>5, <3>6
  <2>11. p'.blockIndex = 1 => w = 0 BY <2>5, <1>3 DEF Flows
  <2>12. ASSUME NEW u \in 0..Started' - 1, th'[u].canRead
         PROVE  /\ (Written + 1 + (k + 1) <= LastBlock)'
                /\ Continues(BlockStart(Written + 1 + (k + 1)))'
                /\ p'.readWasFinished => p'.readPos = job'.limit
    BY <2>1, <2>8, <1>7, <1>13, <2>3, <2>4, <2>9
  <2>13. /\ th'[0].inBuf = th[0].inBuf /\ th'[0].pc # "fill"
         /\ Works(0) \/ Reads(0) => Works(0)' \/ Reads(0)'
         /\ th[0].loc.isAllocError => th'[0].loc.isAllocError
         /\ th[0].loc.wasInterrupted => th'[0].loc.wasInterrupted
         /\ th[0].pc # "fill"
    BY <2>6, <1>3, <1>4, <1>10, <1>14, SameThreadDoes, <1>9 DEF SameThread, Reads
  <2>14. p.blockIndex > 1 =>
            /\ th[0].pc # "fill" =>
                 \/ th[0].inBuf # <<>>
                 \/ (Works(0) \/ Reads(0)) /\ (th[0].loc.isAllocError \/ th[0].loc.wasInterrupted)
            /\ th[0].pc = "fill" /\ th[0].loc.link > 0 => th[0].inBuf # <<>>
    BY <2>5 DEF Flows
  <2>15. p'.blockIndex > 1 =>
            /\ th'[0].pc # "fill" =>
                 \/ th'[0].inBuf # <<>>
                 \/ (Works(0)' \/ Reads(0)') /\ (th'[0].loc.isAllocError \/ th'[0].loc.wasInterrupted)
            /\ th'[0].pc = "fill" /\ th'[0].loc.link > 0 => th'[0].inBuf # <<>>
    BY <2>13, <2>14, <1>3
  <2> QED BY <2>10, <2>11, <2>12, <2>15 DEF Flows
<1>22. p'.progressRes # "ok" \/ "write" \in job'.hit \/ Fresh' \/ Complete'
  BY <1>6, <1>3, <1>13 DEF Turn, Fresh, SameStops, BlockEnd, Kind, Complete, SameInput, Fails
<1>23. Turn(w, k + 1, B)' BY <1>9, <1>20, <1>21, <1>22 DEF Turn
<1>24. B \in 1..p'.blockIndex /\ w \in 0..Started' - 1 /\ k + 1 \in 0..Started'
  <2>1. p'.blockIndex = p.blockIndex BY <1>3
  <2>2. k < Started /\ Started' \in {Started, Started + 1} BY <1>9
  <2> QED BY <2>1, <2>2, <1>6, <1>7, NextOffset
<1>25. ~p'.exitThread /\ th'[0].pc # "ret" BY <1>3, <1>5, <1>10, <1>14 DEF SameThread
<1> QED BY <1>13, <1>15, <1>16, <1>23, <1>24, <1>25, RunsOn

LEMMA PassInv ==
    ASSUME Inv, NEW t \in Threads, Pass(t)
    PROVE  Inv'
<1>1. Reads(t) BY DEF Pass, Reads
<1>2. /\ t \in 0..Started - 1 /\ Typed
      /\ \E w \in 0..Started - 1, k \in 0..Started, B \in 1..p.blockIndex :
            Turn(w, k, B)
  BY <1>1, InRuns DEF Inv
<1>3. \A u \in Threads : u >= Started => Idle(u) BY <1>2, Zenon DEF Turn, Ring
<1>4. t < Started BY <1>2 DEF Typed, MtDecRecs, Started
<1>5. Typed' /\ (PassEnds(t) \/ PassOn(t)) BY <1>2, <1>3, <1>4, PassMoves
<1> QED BY <1>4, <1>5, PassEndsInv, PassOnInv

-----------------------------------------------------------------------------
(* Writing: the block of the writer.                                       *)

(* A thread writes while the threads run. *)
Writing(t, pr, res, w, k, B) ==
    /\ Typed /\ Typed' /\ Bounds /\ Hits_Known /\ FilledOK /\ job.pc = "mt"
    /\ w \in 0..Started - 1 /\ k \in 0..Started /\ B \in 1..p.blockIndex
    /\ Turn(w, k, B) /\ t \in 0..Started - 1
    /\ pr \in {"ok", "progress"} /\ res \in {"ok", "progress", "write"}
    /\ WriteStep(t, pr, res)

LEMMA WriterFacts ==
    ASSUME NEW t, NEW pr, NEW res, NEW w, NEW k, NEW B, Writing(t, pr, res, w, k, B)
    PROVE  /\ Started \in Nat \ {0} /\ w \in Nat /\ k \in Nat /\ B \in Nat \ {0}
           /\ 0..Started - 1 \subseteq Threads /\ 0 \in Threads /\ 0 \in 0..Started - 1
           /\ p.blockIndex \in Nat
           /\ t \in Threads /\ t = w /\ k > 0 /\ Works(t) /\ Offset(w, t) = 0
           /\ th[t].pc = "write" /\ th[t].loc.blockIndex = B
           /\ LocalRules(t)
           /\ Started' = Started
<1>1. Typed /\ Typed' /\ t \in 0..Started - 1 /\ w \in 0..Started - 1 /\ k \in 0..Started
      /\ B \in 1..p.blockIndex /\ Ring(w, k, B) /\ Rules(w, k, B) /\ WriteStep(t, pr, res)
  BY DEF Writing, Turn
<1>2. Started \in Nat /\ p.blockIndex \in Nat BY <1>1 DEF Typed, MtDecRecs, Started
<1>3. w \in Nat /\ k \in Nat /\ B \in Nat \ {0} BY <1>1, <1>2
<1>4. Started # 0 /\ 0..Started - 1 \subseteq Threads BY <1>1, <1>3, InRingType
<1>5. t = w /\ k > 0 /\ Works(t) /\ Started' = Started BY <1>1, <1>3, WriteFacts
<1>6. Offset(w, t) = 0 /\ InRing(w, k, B, t) BY <1>1, <1>5, OffsetFacts DEF Ring
<1>7. th[t].loc.blockIndex = B BY <1>3, <1>5, <1>6 DEF InRing
<1>8. th[t].pc = "write" /\ LocalRules(t) BY <1>1 DEF WriteStep, Rules
<1>9. 0 \in 0..Started - 1 BY <1>2, <1>4
<1> QED BY <1>1, <1>2, <1>3, <1>4, <1>5, <1>6, <1>7, <1>8, <1>9

(* A thread that writes knows whether it can. *)
LEMMA WriterTypes ==
    ASSUME NEW t, NEW pr, NEW res, NEW w, NEW k, NEW B, Writing(t, pr, res, w, k, B)
    PROVE  /\ ToStream(t, pr) \in BOOLEAN /\ Interrupts(t, res) \in BOOLEAN
           /\ GoesOn(t, pr, res) \in BOOLEAN /\ Keeps(t, pr, res) \in BOOLEAN
           /\ Counts(t, pr, res) \in BOOLEAN /\ EndsRun(t, pr, res) \in BOOLEAN
           /\ Restarting(t, pr, res) \in BOOLEAN /\ Reports(t, pr, res) \in BOOLEAN
           /\ p.wasInterrupted \in BOOLEAN /\ GoesOnSingle \in BOOLEAN
           /\ p.progressRes \in {"ok", "progress"}
           /\ p.interruptIndex \in Nat /\ p.numFilledThreads \in Nat
           /\ th[t].loc \in Locals
<1>1. t \in Threads /\ Typed BY WriterFacts DEF Writing
<1>2. p.wasInterrupted \in BOOLEAN /\ p.progressRes \in {"ok", "progress"}
      /\ p.interruptIndex \in Nat /\ p.numFilledThreads \in Nat
      /\ p.isAllocError \in BOOLEAN /\ p.overflow \in BOOLEAN /\ p.threadingError \in BOOLEAN
  BY <1>1 DEF Typed, MtDecRecs
<1>3. /\ th[t].loc.needCode \in BOOLEAN /\ th[t].loc.needWrite \in BOOLEAN
      /\ th[t].loc.finish \in BOOLEAN /\ NoMemory(t) \in BOOLEAN
      /\ NoThreads(t) \in BOOLEAN /\ TooBig(t) \in BOOLEAN /\ Stopped(t) \in BOOLEAN
  BY <1>1, WriteBooleans
<1>4. ToStream(t, pr) \in BOOLEAN BY <1>3 DEF ToStream, Writable
<1>5. Interrupts(t, res) \in BOOLEAN BY <1>2, <1>3 DEF Interrupts
<1>6. GoesOn(t, pr, res) \in BOOLEAN BY <1>3, <1>4 DEF GoesOn, NeedContinue
<1>7. Keeps(t, pr, res) \in BOOLEAN BY <1>3, <1>4 DEF Keeps, MustKeep
<1>8. EndsRun(t, pr, res) \in BOOLEAN /\ Restarting(t, pr, res) \in BOOLEAN
  BY <1>3, <1>6 DEF EndsRun, Restarting, Ends, Restarts
<1>9. Counts(t, pr, res) \in BOOLEAN BY <1>3, <1>7 DEF Counts
<1>10. Reports(t, pr, res) \in BOOLEAN BY <1>3, <1>6 DEF Reports
<1>11. th[t].loc \in Locals BY <1>1 DEF Typed, ThreadRecs
<1> QED BY <1>2, <1>4, <1>5, <1>6, <1>7, <1>8, <1>9, <1>10, <1>11 DEF GoesOnSingle

(* As long as nothing has stopped the writing, the writer has no error of  *)
(* an earlier block and no input is kept.                                  *)
LEMMA FreshWriter ==
    ASSUME NEW t, NEW pr, NEW res, NEW w, NEW k, NEW B, Writing(t, pr, res, w, k, B), Fresh
    PROVE  /\ p.numFilledThreads = 0 /\ ~th[t].loc.wasInterrupted /\ th[t].loc.res = "ok"
           /\ p.progressRes = "ok" /\ ~p.wasInterrupted /\ "write" \notin job.hit
           /\ NoMemory(t) <=> th[t].loc.isAllocError \/ th[t].loc.codeRes = "mem"
           /\ NoThreads(t) <=> th[t].loc.threadingError
           /\ TooBig(t) <=> th[t].loc.overflow
           /\ ToStream(t, pr) <=> /\ th[t].loc.needWrite /\ ~Stops(th[t].loc)
                                  /\ th[t].loc.needCode => pr = "ok"
<1>1. Rules(w, k, B) /\ Ring(w, k, B) /\ LocalRules(t) /\ th[t].loc.blockIndex = B
      /\ Hits_Known /\ job.pc = "mt" /\ Typed /\ t \in Threads
  BY WriterFacts DEF Writing, Turn
<1>2. p.numFilledThreads \in Nat /\ p.interruptIndex \in Nat /\ B \in Nat /\ Started \in Nat
  BY WriterTypes, WriterFacts
<1>3. p.numFilledThreads = 0 BY <1>1, <1>2 DEF Rules
<1>4. p.progressRes = "ok" /\ ~p.wasInterrupted BY DEF Fresh
<1>5. th[t].loc.res = "ok" BY <1>1, <1>4 DEF LocalRules
<1>6. ~th[t].loc.wasInterrupted
  <2>1. SUFFICES ASSUME th[t].loc.wasInterrupted PROVE FALSE OBVIOUS
  <2>2. p.interruptIndex # 0 /\ p.interruptIndex < B BY <2>1, <1>1 DEF LocalRules
  <2>3. PICK u \in 0..Started - 1 : Works(u) /\ th[u].loc.blockIndex = p.interruptIndex
    BY <2>2, <1>1 DEF Rules
  <2>4. InRing(w, k, B, u) /\ Offset(w, u) \in 0..Started - 1
    BY <2>3, <1>1, OffsetFacts DEF Ring
  <2>5. p.interruptIndex = B + Offset(w, u) BY <2>3, <2>4 DEF InRing
  <2> QED BY <2>2, <2>4, <2>5, <1>2
<1>7. "write" \notin job.hit BY <1>1, <1>4 DEF Hits_Known
<1>8. NoMemory(t) <=> th[t].loc.isAllocError \/ th[t].loc.codeRes = "mem" BY <1>4 DEF NoMemory
<1>9. NoThreads(t) <=> th[t].loc.threadingError BY <1>4 DEF NoThreads
<1>10. TooBig(t) <=> th[t].loc.overflow BY <1>4 DEF TooBig
<1>11. ~Stopped(t) BY <1>4, <1>6 DEF Stopped
<1>12. Before(t, pr) = "ok" <=> (th[t].loc.needCode => pr = "ok") BY <1>5 DEF Before
<1>13. Writable(t) <=> ~Stops(th[t].loc) BY <1>8, <1>9, <1>10, <1>11 DEF Writable, Stops
<1>14. ToStream(t, pr) <=> /\ th[t].loc.needWrite /\ ~Stops(th[t].loc)
                           /\ th[t].loc.needCode => pr = "ok"
  BY <1>12, <1>13 DEF ToStream
<1> QED BY <1>3, <1>4, <1>5, <1>6, <1>7, <1>8, <1>9, <1>10, <1>14

(* What the writer has read of the next block, as long as nothing has      *)
(* stopped the writing.                                                    *)
LEMMA WriterPiece ==
    ASSUME NEW t, NEW pr, NEW res, NEW w, NEW k, NEW B, Writing(t, pr, res, w, k, B), Fresh
    PROVE  /\ Written + 1 \in 1..LastBlock
           /\ \E s \in Nat :
                 /\ Piece(t, Written + 1, s)
                 /\ \/ Flows(w, k) /\ s = BlockStart(Written + 1)
                    \/ /\ NoMore(w, k) /\ t = 0 /\ s = job.limit + 1
                       /\ th[t].loc.finish /\ ~th[t].loc.isAllocError
                       /\ ~th[t].loc.threadingError /\ th[t].loc.codeRes # "mem"
<1>1. /\ Typed /\ Works(t) /\ Offset(w, t) = 0 /\ t \in 0..Started - 1
      /\ Written \in 0..LastBlock /\ LastBlock \in Nat \ {0}
      /\ BlockEnd(Written) \in Nat /\ BlockStart(Written + 1) = BlockEnd(Written) + 1
      /\ ~th[t].loc.wasInterrupted
  BY Place, WriterFacts, FreshWriter DEF Writing
<1>2. Flows(w, k) \/ NoMore(w, k) BY DEF Writing, Turn
<1>3. CASE Flows(w, k) BY <1>1, <1>3 DEF Flows, Piece
<1>4. CASE NoMore(w, k)
  <2>1. t = 0 /\ Written < LastBlock BY <1>1, <1>4 DEF NoMore
  <2>2. /\ Piece(t, Written + 1, job.limit + 1) /\ th[t].loc.finish /\ ~th[t].loc.isAllocError
        /\ ~th[t].loc.threadingError /\ th[t].loc.codeRes # "mem"
    BY <1>1, <1>4, <2>1 DEF NoMore
  <2>3. job.limit + 1 \in Nat BY <1>1 DEF Typed, JobRecs
  <2> QED BY <2>1, <2>2, <2>3, <1>1, <1>4
<1> QED BY <1>2, <1>3, <1>4

(* It has nothing more to decode: what it has read is what it can write.   *)
LEMMA WriterCoded ==
    ASSUME NEW t, NEW pr, NEW res, NEW w, NEW k, NEW B, Writing(t, pr, res, w, k, B), Fresh,
           ToStream(t, pr), th[t].loc.codeRes = "ok",
           NEW b \in 1..LastBlock, NEW s \in Nat, Piece(t, b, s),
           NEW n \in Nat, n = th[t].inDataSize
    PROVE  /\ th[t].loc.needCode /\ pr = "ok" /\ th[t].loc.codePos = n
           /\ th[t].loc.block = IF n = 0 THEN 0 ELSE b
           /\ Ending(t, b, s + n) /\ (th[t].loc.finish => Follows(s + n))
           /\ BlockEnd(b) < s + n => Kind(b) = "ok"
           /\ Parted(t, b)
  BY WriterFacts, FreshWriter DEF Piece, Taken, Stops, Coded

(* A whole block is written only in its turn, and has been read.           *)
LEMMA WriterEmits ==
    ASSUME NEW t, NEW pr, NEW res, NEW w, NEW k, NEW B, Writing(t, pr, res, w, k, B),
           ToStream(t, pr), WholeBlock(t)
    PROVE  /\ Fresh /\ Flows(w, k) /\ th[t].loc.codeRes = "ok"
           /\ Written + 1 \in 1..LastBlock
           /\ th[t].loc.block = Written + 1 /\ Kind(Written + 1) = "ok"
           /\ BlockEnd(Written + 1) <= p.readPos
           /\ BlockStart(Written + 1) + th[t].inDataSize = BlockEnd(Written + 1) + 1
<1>1. /\ Typed /\ Bounds /\ job.pc = "mt" /\ job.blocks \in Inputs /\ t \in Threads /\ LocalRules(t)
      /\ WriteJob(t, pr, res)
  BY WriterFacts, Place DEF Writing, WriteStep
<1>2. LastBlock \in Nat \ {0} /\ \A b \in 0..LastBlock : BlockEnd(b) \in Nat
  BY <1>1, BlockFacts
<1>3. th[t].loc.block \in 1..LastBlock BY <1>1, WriteBooleans, <1>2 DEF Bounds, WholeBlock
<1>4. BlockSize(th[t].loc.block) > 0 BY <1>3, <1>1, BlockFacts, <1>2 DEF BlockSize
<1>5. th[t].loc.codePos # 0 /\ th[t].loc.codeRes = "ok" BY <1>4 DEF WholeBlock
<1>6. th[t].loc.needCode BY <1>1, <1>5 DEF LocalRules
<1>7. Fresh BY <1>6, <1>1 DEF ToStream, Before, WriteJob, Writable, Stopped, Fresh
<1>8. PICK b \in 1..LastBlock : b = Written + 1 BY <1>7, WriterPiece
<1>9. PICK s \in Nat :
         /\ Piece(t, b, s)
         /\ \/ Flows(w, k) /\ s = BlockStart(b)
            \/ NoMore(w, k) /\ s = job.limit + 1 /\ th[t].loc.finish
  BY <1>7, <1>8, WriterPiece
<1>10. PICK n \in Nat : n = th[t].inDataSize BY <1>1 DEF Typed, ThreadRecs
<1>11. /\ th[t].loc.codePos = n /\ th[t].loc.block = IF n = 0 THEN 0 ELSE b
       /\ (th[t].loc.finish => Follows(s + n))
       /\ BlockEnd(b) < s + n => Kind(b) = "ok"
       /\ Parted(t, b)
  BY <1>5, <1>7, <1>9, <1>10, WriterCoded
<1>12. n > 0 /\ th[t].loc.block = b /\ n = BlockSize(b)
  <2>1. th[t].loc.codePos = n /\ th[t].loc.block = IF n = 0 THEN 0 ELSE b BY <1>11
  <2>2. n # 0 BY <2>1, <1>5
  <2>3. th[t].loc.block = b BY <2>1, <2>2
  <2>4. th[t].loc.codePos = BlockSize(th[t].loc.block) BY DEF WholeBlock
  <2> QED BY <2>1, <2>2, <2>3, <2>4
<1>13. PICK e \in Nat, y \in Nat, c \in Nat, z \in Nat :
          e = BlockEnd(b) /\ y = p.readPos /\ c = Len(p.cross) /\ z = job.limit
  BY <1>1, <1>2, SMTT(30) DEF Typed, MtDecRecs, JobRecs
<1>14. Follows(s + n) => s + n <= y + 1 BY <1>13 DEF Follows, Continues
<1>15. ~NoMore(w, k) \/ (Flows(w, k) /\ s = BlockStart(b))
  BY <1>9, <1>13, <1>11, <1>14, <1>12 DEF NoMore, Drained
<1>16. Flows(w, k) /\ s = BlockStart(b) BY <1>9, <1>15
<1>17. s + n = e + 1 BY <1>2, <1>12, <1>13, <1>16 DEF BlockStart, BlockSize
<1>18. Kind(b) = "ok" BY <1>11, <1>13, <1>17
<1>19. e <= y BY <1>11, <1>13, <1>14, <1>17 DEF Parted
<1> QED BY <1>5, <1>7, <1>8, <1>10, <1>12, <1>13, <1>16, <1>17, <1>18, <1>19

(* What a thread that writes leaves alone.                                 *)
LEMMA WriterLeaves ==
    ASSUME NEW t, NEW pr, NEW res, NEW w, NEW k, NEW B, Writing(t, pr, res, w, k, B)
    PROVE  /\ job'.pc = "mt" /\ job'.blocks = job.blocks /\ job.blocks \in Inputs
           /\ LastBlock' = LastBlock /\ SameInput
           /\ \A b : BlockEnd(b)' = BlockEnd(b) /\ BlockStart(b)' = BlockStart(b)
           /\ \A b : Kind(b)' = Kind(b)
           /\ \A b : LastParsed(b)' <=> LastParsed(b)
           /\ \A x : Continues(x)' <=> Continues(x)
           /\ \A x : Follows(x)' <=> Follows(x)
           /\ Drained' <=> Drained
           /\ \A u \in Threads \ {t} : SameThread(u)
           /\ ErrorsStay
           /\ th'[t].loc = NoLocals /\ th'[t].pc \in {"wait", "ret"}
           /\ th'[t].inBuf = <<>> <=> th[t].inBuf = <<>>
<1>1. WriteStep(t, pr, res) /\ Typed /\ Typed' /\ t \in Threads /\ job.pc = "mt" /\ Bounds
  BY WriterFacts DEF Writing
<1>2. /\ job'.pc = "mt" /\ job'.blocks = job.blocks /\ SameInput /\ job.blocks \in Inputs
  BY <1>1 DEF WriteStep, WriteJob, Bounds
<1>3. LastBlock' = LastBlock BY <1>2 DEF LastBlock
<1>4. \A b : BlockEnd(b)' = BlockEnd(b) /\ BlockStart(b)' = BlockStart(b)
  BY <1>2 DEF BlockEnd, BlockStart
<1>5. \A b : Kind(b)' = Kind(b) BY <1>2 DEF Kind
<1>6. \A b : LastParsed(b)' <=> LastParsed(b) BY <1>3, <1>5, Zenon DEF LastParsed
<1>7. /\ p'.readPos = p.readPos /\ p'.cross = p.cross
      /\ p'.readWasFinished = p.readWasFinished /\ job'.limit = job.limit
  BY <1>2 DEF SameInput
<1>8. \A x : Continues(x)' <=> Continues(x) BY <1>7 DEF Continues
<1>9. \A x : Follows(x)' <=> Follows(x) BY <1>3, <1>4, <1>6, <1>7, <1>8, Zenon DEF Follows
<1>10. Drained' <=> Drained BY <1>7 DEF Drained
<1>11. WriteThreads(t, pr, res) /\ WriteP(t, pr, res) /\ WriteJob(t, pr, res)
  BY <1>1 DEF WriteStep
<1>12. \A u \in Threads \ {t} : SameThread(u) BY <1>11 DEF WriteThreads, SameThread
<1>13. /\ th'[t].loc = NoLocals /\ th'[t].pc \in {"wait", "ret"}
       /\ th'[t].inBuf = <<>> <=> th[t].inBuf = <<>>
  BY <1>11 DEF WriteThreads
<1>14. ErrorsStay
  BY <1>11, WriterFacts, WriterTypes DEF WriteP, WriteJob, Interrupt, ErrorsStay
<1> QED BY <1>2, <1>3, <1>4, <1>5, <1>6, <1>8, <1>9, <1>10, <1>12, <1>13, <1>14

LEMMA WriterRules ==
    ASSUME NEW t, NEW pr, NEW res, NEW w, NEW k, NEW B, Writing(t, pr, res, w, k, B)
    PROVE  \A u \in 0..Started - 1 : LocalRules(u)'
<1>1. Typed /\ Typed' /\ t \in Threads /\ Rules(w, k, B) /\ 0..Started - 1 \subseteq Threads
  BY WriterFacts DEF Writing, Turn
<1>2. /\ \A u \in Threads \ {t} : SameThread(u)
      /\ ErrorsStay
      /\ th'[t].loc = NoLocals /\ th'[t].pc \in {"wait", "ret"}
  BY WriterLeaves
<1>3. ASSUME NEW u \in 0..Started - 1 PROVE LocalRules(u)'
  BY <1>1, <1>2, OthersRules DEF Rules, LocalRules, NoLocals, Reads, Works, Stops
<1> QED BY <1>3

(* Whole blocks are written in order, each in its turn.                    *)
LEMMA WriterOrder ==
    ASSUME NEW t, NEW pr, NEW res, NEW w, NEW k, NEW B, Writing(t, pr, res, w, k, B)
    PROVE  /\ ToStream(t, pr) /\ res = "ok" /\ WholeBlock(t) => Written' = Written + 1
           /\ ~(ToStream(t, pr) /\ res = "ok" /\ WholeBlock(t)) => Written' = Written
           /\ InOrder'
<1>1. Typed /\ Typed' /\ Bounds /\ Hits_Known /\ job.pc = "mt" /\ WriteJob(t, pr, res)
  BY DEF Writing, WriteStep
<1>2. InOrder /\ Written \in 0..LastBlock /\ BlockEnd(Written) \in Nat /\ LastBlock \in Nat
      /\ job.emitted \in Seq(Nat)
  BY <1>1, Place DEF Typed, JobRecs
<1>3. /\ LastBlock' = LastBlock /\ SameInput
      /\ \A b : BlockEnd(b)' = BlockEnd(b) /\ Kind(b)' = Kind(b)
  BY WriterLeaves
<1>4. p'.readPos = p.readPos BY <1>3 DEF SameInput
<1>5. CASE ToStream(t, pr) /\ res = "ok" /\ WholeBlock(t)
  <2>1. /\ Written + 1 \in 1..LastBlock
        /\ th[t].loc.block = Written + 1 /\ Kind(Written + 1) = "ok"
        /\ BlockEnd(Written + 1) <= p.readPos
    BY <1>5, WriterEmits
  <2>2. job'.emitted = Append(job.emitted, th[t].loc.block)
    BY <1>1, <1>5 DEF WriteJob
  <2>3. PICK n \in Nat : n = Written
    BY <1>2
  <2>4. Len(job.emitted) = n
    BY <2>3 DEF Written
  <2>5. Written' = n + 1
    BY <2>2, <2>4, <1>2 DEF Written
  <2>6. job.emitted = [i \in 1..n |-> i]
    BY <1>2, <2>3 DEF InOrder
  <2>7. Append(job.emitted, n + 1) = [i \in 1..n + 1 |-> i]
    BY <1>2, <2>4, <2>6
  <2>8. job'.emitted = [i \in 1..Written' |-> i]
    BY <2>1, <2>2, <2>3, <2>5, <2>7
  <2>9. ASSUME NEW b \in 1..n + 1 PROVE Kind(b)' \in {"ok", "big"}
    <3>1. CASE b = n + 1
      BY <3>1, <2>1, <2>3, <1>3
    <3>2. CASE b # n + 1
      <4>1. b \in 1..Written
        BY <3>2, <2>3
      <4> QED
        BY <4>1, <1>2, <1>3 DEF InOrder
    <3> QED
      BY <3>1, <3>2
  <2>10. n + 1 <= LastBlock' /\ BlockEnd(n + 1)' <= p'.readPos
    BY <2>1, <2>3, <1>3, <1>4
  <2> QED
    BY <1>5, <2>3, <2>5, <2>8, <2>9, <2>10 DEF InOrder
<1>6. CASE ~(ToStream(t, pr) /\ res = "ok" /\ WholeBlock(t))
  <2>1. job'.emitted = job.emitted
    BY <1>1, <1>6 DEF WriteJob
  <2>2. Written' = Written
    BY <2>1 DEF Written
  <2> QED
    BY <1>6, <2>1, <2>2, <1>2, <1>3, <1>4 DEF InOrder
<1> QED BY <1>5, <1>6

LEMMA WriterBounds ==
    ASSUME NEW t, NEW pr, NEW res, NEW w, NEW k, NEW B, Writing(t, pr, res, w, k, B)
    PROVE  Bounds' /\ Hits_Known'
<1>1. Typed /\ Typed' /\ Bounds /\ Hits_Known /\ job.pc = "mt"
      /\ WriteStep(t, pr, res) /\ t \in Threads
  BY WriterFacts DEF Writing
<1>2. /\ WriteThreads(t, pr, res) /\ WriteP(t, pr, res) /\ WriteJob(t, pr, res) /\ SameInput
  BY <1>1 DEF WriteStep
<1>3. /\ job'.pc = "mt" /\ job'.blocks = job.blocks /\ LastBlock' = LastBlock
      /\ \A u \in Threads \ {t} : SameThread(u)
      /\ th'[t].loc = NoLocals /\ th'[t].pc \in {"wait", "ret"}
  BY WriterLeaves
<1>4. LastBlock \in Nat BY <1>1, Place
<1>5. ThreadBounds(t)'
  BY <1>1, <1>2, Numbers, <1>3, <1>4 DEF Bounds, WriteThreads, ThreadBounds, NoLocals
<1>6. CrossBounds' /\ p'.cross = p.cross BY <1>1, <1>2, CrossStays DEF SameInput
<1>7. Bounds' BY <1>1, <1>3, <1>5, <1>6, BoundsStay
<1>8. InOrder' BY WriterOrder
<1>9. /\ "progress" \in job.hit <=> p.progressRes # "ok"
      /\ "read" \in job.hit <=> p.readRes # "ok"
      /\ "write" \in job.hit => p.wasInterrupted
      /\ "read" \in job.hit => p.readWasFinished
  BY <1>1 DEF Hits_Known
<1>10. "progress" \in job'.hit <=> p'.progressRes # "ok" BY <1>2, <1>9 DEF WriteJob, WriteP
<1>11. "read" \in job'.hit <=> "read" \in job.hit BY <1>2 DEF WriteJob
<1>12. "write" \in job'.hit => p'.wasInterrupted
  <2>1. p'.wasInterrupted = Interrupts(t, res) BY <1>2 DEF WriteP
  <2>2. "write" \in job'.hit => "write" \in job.hit \/ res = "write" BY <1>2 DEF WriteJob
  <2>3. res = "write" => th[t].loc.needWrite
    BY <1>2, <1>1, WriteBooleans DEF WriteJob, Before, Writing
  <2> QED BY <2>1, <2>2, <2>3, <1>9 DEF Interrupts
<1>13. "memST" \notin job'.hit BY <1>1, <1>2 DEF Hits_Known, WriteJob
<1>14. Hits_Known'
  BY <1>2, <1>3, <1>8, <1>9, <1>10, <1>11, <1>12, <1>13 DEF Hits_Known, SameInput
<1> QED BY <1>7, <1>14

-----------------------------------------------------------------------------
(* Writing: errors, and what is kept for one thread.                       *)

(* What a thread that writes makes of the errors.                          *)
LEMMA WriterErrors ==
    ASSUME NEW t, NEW pr, NEW res, NEW w, NEW k, NEW B, Writing(t, pr, res, w, k, B)
    PROVE  /\ p'.progressRes = pr /\ (p'.wasInterrupted <=> Interrupts(t, res))
           /\ pr = "ok" => p.progressRes = "ok"
           /\ pr # "ok" => p'.progressRes # "ok"
           /\ Fresh' => Fresh /\ pr = "ok"
           /\ GoesOnSingle' <=> NoMemory(t) \/ NoThreads(t) \/ TooBig(t)
           /\ "write" \in job'.hit <=> "write" \in job.hit \/ res = "write"
           /\ res = "write" => th[t].loc.needWrite /\ ToStream(t, pr)
           /\ Complete /\ Written' = Written => Complete'
<1>1. Typed /\ t \in Threads /\ WriteP(t, pr, res) /\ WriteJob(t, pr, res) /\ ~GoesOnSingle
      /\ pr \in {"ok", "progress"}
  BY WriterFacts DEF Writing, WriteStep, Turn, Rules
<1>2. /\ p'.progressRes = pr /\ p'.wasInterrupted = Interrupts(t, res)
      /\ p'.isAllocError = (p.isAllocError \/ NoMemory(t))
      /\ p'.threadingError = (p.threadingError \/ NoThreads(t))
      /\ p'.overflow = (p.overflow \/ TooBig(t))
  BY <1>1 DEF WriteP
<1>3. pr = "ok" => p.progressRes = "ok" BY <1>1 DEF WriteJob
<1>4. Fresh' => Fresh /\ pr = "ok" BY <1>2, <1>3 DEF Fresh, Interrupts
<1>5. GoesOnSingle' <=> NoMemory(t) \/ NoThreads(t) \/ TooBig(t)
  <2>1. ~p.isAllocError /\ ~p.threadingError /\ ~p.overflow BY <1>1 DEF GoesOnSingle
  <2> QED BY <2>1, <1>2 DEF GoesOnSingle
<1>6. "write" \in job'.hit <=> "write" \in job.hit \/ res = "write" BY <1>1 DEF WriteJob
<1>7. res = "write" => th[t].loc.needWrite /\ ToStream(t, pr)
  BY <1>1, WriteBooleans DEF Before, WriteJob
<1>8. Complete /\ Written' = Written => Complete' BY WriterLeaves DEF SameInput, Complete
<1> QED BY <1>1, <1>2, <1>3, <1>4, <1>5, <1>6, <1>7, <1>8

(* Once the writing has stopped, the reason stays.                         *)
LEMMA WriterStopped ==
    ASSUME NEW t, NEW pr, NEW res, NEW w, NEW k, NEW B, Writing(t, pr, res, w, k, B), ~Fresh
    PROVE  /\ Written' = Written /\ ~Fresh'
           /\ p'.progressRes # "ok" \/ "write" \in job'.hit \/ Complete'
  BY WriterEmits, WriterOrder, WriterErrors DEF Writing, Turn

(* A block that does not decode is the last one written of.                *)
LEMMA WriterData ==
    ASSUME NEW t, NEW pr, NEW res, NEW w, NEW k, NEW B, Writing(t, pr, res, w, k, B), Fresh,
           ~Stops(th[t].loc), th[t].loc.codeRes # "ok"
    PROVE  Written' = Written /\ Complete'
<1>1. Written' = Written BY WriterOrder DEF WholeBlock
<1>2. th[t].loc.codeRes = "data" BY WriterTypes DEF Stops, Locals
<1>3. PICK b \in 1..LastBlock, s \in Nat : b = Written + 1 /\ Piece(t, b, s) BY WriterPiece
<1>4. Coded(t, b, s) /\ s <= BlockEnd(b) BY <1>3, WriterFacts DEF Piece
<1>5. \/ Kind(b) \in {"bad", "junk"}
      \/ job.limit < s
  BY <1>2, <1>4 DEF Coded
<1>6. BlockEnd(b) \in Nat /\ job.limit \in Nat
  <2>1. \A c \in 0..LastBlock : BlockEnd(c) \in Nat BY Place DEF Writing
  <2>2. LastBlock \in Nat BY Place DEF Writing
  <2>3. b \in 0..LastBlock BY <2>2
  <2> QED BY <2>1, <2>3 DEF Writing, Typed, JobRecs
<1>7. Complete BY <1>3, <1>4, <1>5, <1>6 DEF Complete
<1> QED BY <1>1, <1>7, WriterErrors

(* What becomes of a block when nothing is wrong.                          *)
LEMMA WriterWhole ==
    ASSUME NEW t, NEW pr, NEW res, NEW w, NEW k, NEW B, Writing(t, pr, res, w, k, B), Fresh,
           pr = "ok", res # "write", ~Stops(th[t].loc), th[t].loc.codeRes = "ok",
           NEW b, b = Written + 1
    PROVE  /\ th[t].loc.needWrite /\ ToStream(t, pr) /\ res = "ok"
           /\ b \in 1..LastBlock
           /\ \/ /\ th[t].loc.finish /\ ~GoesOn(t, pr, res) /\ Written' = b /\ b = LastBlock
              \/ /\ ~th[t].loc.finish /\ GoesOn(t, pr, res) /\ Written' = b /\ Flows(w, k)
              \/ /\ th[t].loc.finish /\ GoesOn(t, pr, res) /\ Written' = b /\ Flows(w, k)
                 /\ b < LastBlock /\ Drained /\ BlockEnd(b) = p.readPos
              \/ /\ th[t].loc.finish /\ GoesOn(t, pr, res) /\ Written' = Written
                 /\ Flows(w, k) \/ NoMore(w, k)
                 /\ Drained /\ job.limit < BlockEnd(b)
<1>1. /\ Typed /\ t \in Threads /\ th[t].pc = "write" /\ Works(t) /\ WriteJob(t, pr, res)
      /\ \A c \in 0..LastBlock : BlockEnd(c) \in Nat
      /\ LastBlock \in Nat /\ Written \in 0..LastBlock
      /\ BlockStart(Written + 1) = BlockEnd(Written) + 1
  BY Place, WriterFacts DEF Writing, WriteStep
<1>2. b \in 1..LastBlock BY WriterPiece
<1>3. PICK s \in Nat :
         /\ Piece(t, b, s)
         /\ \/ Flows(w, k) /\ s = BlockStart(b)
            \/ NoMore(w, k) /\ s = job.limit + 1 /\ th[t].loc.finish
  BY WriterPiece
<1>4. PICK n \in Nat : n = th[t].inDataSize BY <1>1 DEF Typed, ThreadRecs
<1>5. Taken(t, b, s + n) /\ s <= BlockEnd(b) BY <1>1, <1>3, <1>4 DEF Piece
<1>6. th[t].loc.needWrite BY <1>5 DEF Taken, Stops
<1>7. ToStream(t, pr) BY <1>6, FreshWriter
<1>8. res = "ok" BY <1>1, <1>6 DEF WriteJob
<1>9. /\ th[t].loc.codePos = n /\ th[t].loc.block = IF n = 0 THEN 0 ELSE b
      /\ Ending(t, b, s + n) /\ (th[t].loc.finish => Follows(s + n))
      /\ BlockEnd(b) < s + n => Kind(b) = "ok"
      /\ Parted(t, b)
  BY <1>2, <1>3, <1>4, <1>7, WriterCoded
<1>10. PICK e \in Nat, y \in Nat, z \in Nat, a \in Nat :
          e = BlockEnd(b) /\ y = p.readPos /\ z = job.limit /\ a = BlockEnd(Written)
  <2>1. BlockEnd(b) \in Nat /\ BlockEnd(Written) \in Nat BY <1>1, <1>2
  <2> QED BY <2>1, <1>1 DEF Typed, MtDecRecs, JobRecs
<1>11. Follows(s + n) => s + n <= y + 1
  <2>1. PICK c \in Nat : c = Len(p.cross) BY <1>1 DEF Typed, MtDecRecs
  <2>2. Follows(s + n) => s + n + c = y + 1 \/ s + n <= y + 1
    BY <2>1, <1>10 DEF Follows, Continues
  <2> QED BY <2>2
<1>12. NoMore(w, k) => y = z /\ Written < LastBlock BY <1>10 DEF NoMore, Drained
<1>13. b - 1 = Written BY <1>1
<1>14. BlockSize(b) = e - a BY <1>10, <1>13 DEF BlockSize
<1>15. Flows(w, k) /\ s = BlockStart(b) => s = a + 1 BY <1>1, <1>10
<1>16. ASSUME s + n = e + 1
       PROVE  /\ Flows(w, k) /\ WholeBlock(t) /\ Written' = b
  <2>1. Flows(w, k) /\ s = BlockStart(b)
    <3>1. ASSUME NoMore(w, k), s = job.limit + 1, th[t].loc.finish PROVE FALSE
      <4>1. y = z /\ s = z + 1
        BY <3>1, <1>10, <1>12
      <4>2. Follows(s + n)
        BY <3>1, <1>9
      <4>3. s + n <= y + 1
        BY <4>2, <1>11
      <4>4. s <= e
        BY <1>5, <1>10
      <4> QED
        BY <4>1, <4>3, <4>4, <1>16
    <3> QED
      BY <3>1, <1>3
  <2>2. s = a + 1 /\ s <= e
    BY <2>1, <1>5, <1>10, <1>15
  <2>3. n = e - a /\ n # 0
    BY <2>2, <1>16
  <2>4. th[t].loc.block = b /\ b # 0 /\ th[t].loc.codePos = BlockSize(b)
    BY <2>3, <1>2, <1>9, <1>14
  <2>5. WholeBlock(t)
    BY <2>4 DEF WholeBlock
  <2>6. Written' = Written + 1
    BY <2>5, <1>7, <1>8, WriterOrder
  <2> QED
    BY <2>1, <2>5, <2>6
<1>17. GoesOn(t, pr, res) <=> NeedContinue(th[t].loc.state)
  BY <1>6, <1>7, <1>8, WriterTypes DEF NeedContinue, GoesOn
<1>18. CASE th[t].loc.state = "end"
  BY <1>9, <1>10, <1>18, <1>17, <1>2, <1>6, <1>7, <1>8, <1>16 DEF Ending, LastParsed,
     NeedContinue
<1>19. CASE th[t].loc.state = "new"
  BY <1>9, <1>10, <1>19, <1>17, <1>2, <1>6, <1>7, <1>8, <1>16 DEF Ending, Parted, NeedContinue
<1>20. CASE th[t].loc.state = "continue"
  <2>1. th[t].loc.finish /\ Drained /\ s + n = y + 1 /\ s + n <= e + 1
        /\ (s + n = e + 1 => ~LastParsed(b))
    BY <1>9, <1>10, <1>20 DEF Ending
  <2>2. GoesOn(t, pr, res) BY <1>17, <1>20 DEF NeedContinue
  <2>3. CASE s + n = e + 1
    BY <2>1, <2>3, <1>1, <1>2, <2>2, <1>6, <1>7, <1>8, <1>10, <1>16 DEF LastParsed
  <2>4. CASE s + n # e + 1
    <3>1. y < e /\ y = z BY <2>1, <2>4, <1>10 DEF Drained
    <3>2. ~WholeBlock(t) BY <1>9, <1>14, <2>4, <1>15, <1>10, <3>1, <2>1, <1>3 DEF WholeBlock
    <3>3. Written' = Written BY <3>2, WriterOrder
    <3>4. Flows(w, k) \/ NoMore(w, k) BY <1>3
    <3>5. job.limit < BlockEnd(b) BY <3>1, <1>10
    <3> QED BY <2>1, <2>2, <3>3, <3>4, <3>5, <1>2, <1>6, <1>7, <1>8
  <2> QED BY <2>3, <2>4
<1> QED BY <1>9, <1>18, <1>19, <1>20 DEF Ending

(* The block that one thread will decode is kept, and all that follows.    *)
LEMMA WriterKept ==
    ASSUME NEW t, NEW pr, NEW res, NEW w, NEW k, NEW B, Writing(t, pr, res, w, k, B), Fresh,
           NothingRead, pr = "ok", Stops(th[t].loc)
    PROVE  /\ GoesOnSingle' /\ Kept' /\ job'.data = <<>> /\ job'.i = 0
           /\ "write" \notin job'.hit
<1>1. /\ Typed /\ t \in Threads /\ th[t].pc = "write" /\ LocalRules(t) /\ t \in Nat
      /\ WriteJob(t, pr, res) /\ WriteP(t, pr, res) /\ WriteThreads(t, pr, res)
      /\ job.pc = "mt" /\ job.data = <<>> /\ job.i = 0
  BY WriterFacts, Numbers DEF Writing, WriteStep, NothingRead
<1>2. /\ LastBlock \in Nat /\ Written \in 0..LastBlock
      /\ BlockEnd(Written) \in Nat /\ BlockStart(Written + 1) = BlockEnd(Written) + 1
      /\ \A c \in 0..LastBlock : BlockEnd(c) \in Nat
  BY Place DEF Writing
<1>3. th[t].loc.finish BY <1>1 DEF LocalRules
<1>4. ~ToStream(t, pr) /\ (NoMemory(t) \/ NoThreads(t) \/ TooBig(t)) /\ p.numFilledThreads = 0
      /\ "write" \notin job.hit
  BY FreshWriter DEF Stops
<1>5. PICK b \in 1..LastBlock : b = Written + 1 BY WriterPiece
<1>6. PICK s \in Nat :
         /\ Piece(t, b, s)
         /\ \/ Flows(w, k) /\ s = BlockStart(b)
            \/ /\ NoMore(w, k) /\ s = job.limit + 1 /\ ~th[t].loc.isAllocError
               /\ ~th[t].loc.threadingError /\ th[t].loc.codeRes # "mem"
  BY <1>5, WriterPiece
<1>7. PICK n \in Nat : n = th[t].inDataSize BY <1>1 DEF Typed, ThreadRecs
<1>8. /\ Taken(t, b, s + n) /\ s <= BlockEnd(b)
      /\ LinksHold(th[t].inBuf, th[t].inDataSize_Start, n, s)
  BY <1>1, <1>6, <1>7 DEF Piece
<1>9. Follows(s + n) BY <1>3, <1>8 DEF Taken
<1>10. PICK e \in Nat, y \in Nat, z \in Nat, c \in Nat :
          e = BlockEnd(b) /\ y = p.readPos /\ z = job.limit /\ c = Len(p.cross)
  <2>1. BlockEnd(b) \in Nat BY <1>2
  <2> QED BY <2>1, <1>1 DEF Typed, MtDecRecs, JobRecs
<1>11. s + n <= y + 1
  <2>1. s + n + c = y + 1 \/ s + n <= y + 1 BY <1>9, <1>10 DEF Follows, Continues
  <2> QED BY <2>1
<1>12. Flows(w, k) /\ s = BlockStart(b)
  BY <1>8, <1>10, <1>11, <1>6 DEF Stops, Taken, NoMore, Drained
<1>13. GoesOnSingle' /\ "write" \notin job'.hit BY <1>4, WriterErrors
<1>14. job'.data = <<>> /\ job'.i = 0 BY <1>1 DEF WriteJob
<1>15. Written' = Written BY <1>4, WriterOrder
<1>16. Keeps(t, pr, res) BY <1>4 DEF Keeps, MustKeep
<1>17. Counts(t, pr, res) <=> n # 0 BY <1>3, <1>7, <1>16 DEF Counts
<1>18. p'.filledThreadStart = t /\ p'.numFilledThreads = IF n # 0 THEN 1 ELSE 0
  BY <1>1, <1>4, <1>16, <1>17 DEF WriteP
<1>19. BlockStart(Written + 1)' = s BY <1>5, <1>12, <1>15, WriterLeaves
<1>20. (BlockStart(Written + 1) + Len(job.data))' = s BY <1>14, <1>19
<1>21. Holds(job'.data, s) BY <1>14 DEF Holds
<1>22. Kept'
  <2>1. CASE n = 0 BY <2>1, <1>9, WriterLeaves, <1>18, <1>14, <1>19, <1>20, <1>21 DEF Kept
  <2>2. CASE n # 0
    <3>1. Follows(s + n)' BY <1>9, WriterLeaves
    <3>2. p'.numFilledThreads = 1 /\ p'.filledThreadStart = t BY <2>2, <1>18
    <3>3. /\ th'[t].inDataSize = n /\ th'[t].inDataSize_Start = th[t].inDataSize_Start
          /\ th'[t].inBuf = th[t].inBuf
      BY <2>2, <1>1, <1>7, <1>17 DEF WriteThreads
    <3>4. th'[t].inDataSize_Start # 0
      BY <2>2, <1>1, <1>8, <3>3 DEF LinksHold, Typed, ThreadRecs
    <3>5. LinksHold(th'[t].inBuf, th'[t].inDataSize_Start, n, s) BY <3>3, <1>8
    <3> QED BY <2>2, <3>1, <3>2, <3>3, <3>4, <3>5, <1>14, <1>19, <1>20, <1>21 DEF Kept
  <2> QED BY <2>1, <2>2
<1> QED BY <1>13, <1>14, <1>22

(* The kept input stays within the ring.                                   *)
LEMMA WriterFilled ==
    ASSUME NEW t, NEW pr, NEW res, NEW w, NEW k, NEW B, Writing(t, pr, res, w, k, B)
    PROVE  FilledOK'
<1>1. /\ Typed /\ t \in Threads /\ t \in 0..Started - 1 /\ Started \in Nat \ {0}
      /\ Started' = Started /\ k \in 0..Started /\ k > 0 /\ k \in Nat
      /\ w \in 0..Started - 1 /\ Offset(w, t) = 0
      /\ WriteP(t, pr, res) /\ Ring(w, k, B) /\ Rules(w, k, B) /\ FilledOK
      /\ p.numFilledThreads \in Nat
  BY WriterFacts, WriterTypes DEF Writing, WriteStep, Turn
<1>2. p'.filledThreadStart < Started \/ p'.filledThreadStart = 0 BY <1>1 DEF WriteP, FilledOK
<1>3. p'.numFilledThreads <= Started
  <2>1. CASE ~Counts(t, pr, res) BY <2>1, <1>1 DEF WriteP, FilledOK
  <2>2. CASE Counts(t, pr, res)
    <3>1. p'.numFilledThreads = p.numFilledThreads + 1 BY <2>2, <1>1 DEF WriteP
    <3>2. CASE p.numFilledThreads = 0 BY <3>1, <3>2, <1>1
    <3>3. CASE p.numFilledThreads > 0 /\ p.numFilledThreads + k <= Started BY <3>1, <3>3, <1>1
    <3>4. CASE /\ p.numFilledThreads + k = Started + 1
               /\ \E u \in 0..Started - 1 : Closes(u) /\ th[u].inDataSize = 0
      <4>1. PICK u \in 0..Started - 1 : Closes(u) /\ th[u].inDataSize = 0 BY <3>4
      <4>2. InRing(w, k, B, u) BY <1>1 DEF Ring
      <4>3. Offset(w, u) = k - 1 BY <4>1, <4>2 DEF InRing
      <4>4. u # t BY <4>1, <2>2 DEF Closes, Counts
      <4>5. Offset(w, u) # 0 BY <4>4, <1>1, OffsetFacts, WriterFacts
      <4> QED BY <3>1, <3>4, <4>3, <4>5, <1>1
    <3>5. p.numFilledThreads > 0 =>
             \/ p.numFilledThreads + k <= Started
             \/ /\ p.numFilledThreads + k = Started + 1
                /\ \E u \in 0..Started - 1 : Closes(u) /\ th[u].inDataSize = 0
      BY <1>1 DEF Rules
    <3> QED BY <3>2, <3>3, <3>4, <3>5, <1>1
  <2> QED BY <2>1, <2>2
<1> QED BY <1>1, <1>2, <1>3 DEF FilledOK

-----------------------------------------------------------------------------
(* Writing: the turn of the next thread.                                   *)

(* The next thread may write: the errors, and what is kept.                *)
LEMMA WriterNextRules ==
    ASSUME NEW t, NEW pr, NEW res, NEW w, NEW k, NEW B, Writing(t, pr, res, w, k, B),
           ~th[t].loc.finish, NEW next \in Nat
    PROVE  Rules(next, k - 1, B + 1)'
<1>1. /\ Typed /\ Typed' /\ t \in Threads /\ t \in 0..Started - 1 /\ Started \in Nat \ {0}
      /\ Started' = Started /\ k \in 0..Started /\ k > 0 /\ k \in Nat /\ B \in Nat \ {0}
      /\ w \in Nat /\ w \in 0..Started - 1 /\ Offset(w, t) = 0
      /\ WriteP(t, pr, res) /\ WriteStep(t, pr, res) /\ Ring(w, k, B) /\ Rules(w, k, B)
      /\ p.numFilledThreads \in Nat /\ p.interruptIndex \in Nat
      /\ th[t].loc.blockIndex = B /\ LocalRules(t) /\ Works(t)
      /\ 0..Started - 1 \subseteq Threads
  BY WriterFacts, WriterTypes DEF Writing, WriteStep, Turn
<1>2. th[t].loc.needWrite /\ th[t].loc.needCode /\ ~Stops(th[t].loc) BY <1>1 DEF LocalRules
<1>3. ~GoesOnSingle' BY <1>2, WriterErrors DEF NoMemory, NoThreads, TooBig, Stops
<1>4. \A u \in 0..Started' - 1 : LocalRules(u)' BY <1>1, WriterRules
<1>5. \A u \in Threads \ {t} : SameThread(u) BY WriterLeaves
<1>6. /\ p'.interruptIndex = IF Reports(t, pr, res) THEN Interrupt(B) ELSE p.interruptIndex
      /\ p'.numFilledThreads = IF Counts(t, pr, res) THEN p.numFilledThreads + 1
                               ELSE p.numFilledThreads
  BY <1>1 DEF WriteP
<1>7. Interrupt(B) \in 1..B /\ (p.interruptIndex # 0 => Interrupt(B) <= p.interruptIndex)
  BY <1>1 DEF Interrupt
<1>8. ASSUME p'.interruptIndex # 0, Fresh'
      PROVE  \E u \in 0..Started' - 1 :
                /\ Works(u)' /\ th'[u].loc.blockIndex = p'.interruptIndex
                /\ th'[u].loc.codeRes = "data"
  BY <1>8, WriterErrors, <1>2, <1>1, WriterWhole, <1>6, <1>5, SameThreadDoes DEF Fresh,
     Interrupts, Reports, Rules, SameThread
<1>9. ASSUME NEW u \in 0..Started - 1, Closes(u)
      PROVE  Closes(u)' /\ th'[u].inDataSize = th[u].inDataSize /\ Offset(w, u) = k - 1 /\ u # t
  BY <1>1, <1>9, <1>5, SameThreadDoes DEF Closes, Ring, SameThread, InRing
<1>10. ASSUME NEW u \in 0..Started - 1, Reads(u)'
       PROVE  /\ Reads(u) /\ th'[u].pc = th[u].pc /\ th'[u].inDataSize = th[u].inDataSize
              /\ k < Started
  BY <1>10, WriterLeaves, <1>1, <1>5, SameThreadDoes, Holder DEF Reads, Works, HasRead,
     SameThread
<1>11. \/ p.numFilledThreads = 0
       \/ /\ ~Fresh
          /\ p.interruptIndex # 0 /\ p.interruptIndex < B
          /\ \/ p.numFilledThreads + k <= Started
             \/ /\ p.numFilledThreads + k = Started + 1
                /\ \E u \in 0..Started - 1 : Closes(u) /\ th[u].inDataSize = 0
          /\ \A u \in 0..Started - 1 : Reads(u) =>
                \/ p.numFilledThreads + k < Started
                \/ th[u].pc = "pass" /\ th[u].inDataSize = 0
  BY <1>1 DEF Rules
<1>12. CASE Counts(t, pr, res)
  <2>1. ~ToStream(t, pr) /\ Reports(t, pr, res)
    BY <1>2, <1>12, <1>1 DEF Counts, Keeps, Reports, GoesOn
  <2>2. ~Fresh'
    BY <2>1, <1>2, WriterErrors, FreshWriter
  <2>3. p'.interruptIndex # 0 /\ p'.interruptIndex < B + 1
    BY <2>1, <1>1, <1>6, <1>7
  <2>4. p'.numFilledThreads = p.numFilledThreads + 1
    BY <1>6, <1>12
  <2>5. \/ p'.numFilledThreads + (k - 1) <= Started'
        \/ /\ p'.numFilledThreads + (k - 1) = Started' + 1
           /\ \E u \in 0..Started' - 1 : Closes(u)' /\ th'[u].inDataSize = 0
    <3>1. p'.numFilledThreads + (k - 1) = p.numFilledThreads + k
      BY <2>4, <1>1
    <3>2. CASE p.numFilledThreads = 0 \/ p.numFilledThreads + k <= Started
      BY <3>1, <3>2, <1>1
    <3>3. CASE /\ p.numFilledThreads + k = Started + 1
               /\ \E u \in 0..Started - 1 : Closes(u) /\ th[u].inDataSize = 0
      <4>1. PICK u \in 0..Started - 1 : Closes(u) /\ th[u].inDataSize = 0
        BY <3>3
      <4>2. Closes(u)' /\ th'[u].inDataSize = 0
        BY <4>1, <1>9
      <4> QED
        BY <4>2, <3>1, <3>3, <1>1
    <3> QED
      BY <3>2, <3>3, <1>11
  <2>6. ASSUME NEW u \in 0..Started' - 1, Reads(u)'
        PROVE  \/ p'.numFilledThreads + (k - 1) < Started'
               \/ th'[u].pc = "pass" /\ th'[u].inDataSize = 0
    <3>1. u \in 0..Started - 1
      BY <1>1
    <3>2. Reads(u) /\ th'[u].pc = th[u].pc /\ th'[u].inDataSize = th[u].inDataSize /\ k < Started
      BY <3>1, <2>6, <1>10
    <3>3. p'.numFilledThreads + (k - 1) = p.numFilledThreads + k
      BY <2>4, <1>1
    <3> QED
      BY <3>1, <3>2, <3>3, <1>1, <1>11
  <2> QED
    BY <2>2, <2>3, <2>5, <2>6, <1>3, <1>4 DEF Rules
<1>13. CASE ~Counts(t, pr, res)
  <2>1. p'.numFilledThreads = p.numFilledThreads
    BY <1>6, <1>13
  <2>2. CASE p.numFilledThreads = 0
    <3>1. ~(p'.numFilledThreads > 0)
      BY <2>1, <2>2
    <3> QED
      BY <3>1, <1>3, <1>4, <1>8 DEF Rules
  <2>3. CASE p.numFilledThreads # 0
    <3>1. ~Fresh'
      BY <2>3, <1>11, WriterErrors
    <3>2. p'.interruptIndex # 0 /\ p'.interruptIndex < B + 1
      BY <2>3, <1>1, <1>6, <1>7, <1>11
    <3>3. p'.numFilledThreads + (k - 1) <= Started'
      BY <2>1, <2>3, <1>1, <1>11
    <3>4. ASSUME NEW u \in 0..Started' - 1, Reads(u)'
          PROVE  \/ p'.numFilledThreads + (k - 1) < Started'
                 \/ th'[u].pc = "pass" /\ th'[u].inDataSize = 0
      <4>1. u \in 0..Started - 1
        BY <1>1
      <4>2. Reads(u) /\ th'[u].pc = th[u].pc /\ th'[u].inDataSize = th[u].inDataSize /\ k < Started
        BY <4>1, <3>4, <1>10
      <4> QED
        BY <4>1, <4>2, <2>1, <2>3, <1>1, <1>11
    <3> QED
      BY <3>1, <3>2, <3>3, <3>4, <1>3, <1>4 DEF Rules
  <2> QED
    BY <2>2, <2>3
<1> QED BY <1>12, <1>13

(* The ring starts again: the errors, and what is kept.                    *)
LEMMA WriterFirstRules ==
    ASSUME NEW t, NEW pr, NEW res, NEW w, NEW k, NEW B, Writing(t, pr, res, w, k, B),
           Restarting(t, pr, res), NEW b \in Nat, b = p.blockIndex
    PROVE  Rules(0, 0, b)'
<1>1. /\ Typed /\ Typed' /\ t \in Threads /\ t \in 0..Started - 1 /\ Started \in Nat \ {0}
      /\ Started' = Started /\ k \in Nat /\ B \in Nat \ {0} /\ w \in Nat
      /\ WriteP(t, pr, res) /\ WriteStep(t, pr, res) /\ Ring(w, k, B) /\ Rules(w, k, B)
      /\ p.numFilledThreads \in Nat /\ p.interruptIndex \in Nat
      /\ 0..Started - 1 \subseteq Threads
  BY WriterFacts, WriterTypes DEF Writing, WriteStep, Turn
<1>2. th[t].loc.finish /\ GoesOn(t, pr, res) BY <1>1, WriteBooleans DEF Restarting, Restarts
<1>3. th[t].loc.needWrite /\ ToStream(t, pr) /\ res = "ok" BY <1>2 DEF GoesOn
<1>4. /\ b = B + 1
      /\ \A u \in Threads \ {t} : Idle(u) /\ ~Works(u) /\ ~Reads(u)
      /\ \A u \in Threads : ~th[u].canRead /\ ~Works(u)' /\ ~Reads(u)'
  BY <1>1, <1>2, RingCloses
<1>5. ~GoesOnSingle' BY <1>3, WriterErrors DEF ToStream, Writable
<1>6. \A u \in 0..Started' - 1 : LocalRules(u)' BY <1>1, WriterRules
<1>7. p'.interruptIndex = p.interruptIndex /\ p'.numFilledThreads = p.numFilledThreads
  BY <1>1, <1>2, <1>3 DEF WriteP, Reports, Counts, Keeps
<1>8. ASSUME p'.interruptIndex # 0, Fresh' PROVE FALSE
  BY <1>8, WriterErrors, <1>1, <1>7, <1>4 DEF Fresh, Rules, Interrupts
<1>9. ASSUME p'.numFilledThreads > 0
      PROVE  /\ ~Fresh'
             /\ p'.interruptIndex # 0 /\ p'.interruptIndex < b
             /\ p'.numFilledThreads + 0 <= Started'
  BY <1>1, <1>7, <1>9, WriterErrors, <1>4 DEF Rules, Writing, FilledOK
<1>10. \A u \in 0..Started' - 1 : ~Reads(u)' BY <1>1, <1>4
<1> QED BY <1>5, <1>6, <1>8, <1>9, <1>10 DEF Rules

(* A block has been written, and the next thread has the one behind it.    *)
LEMMA WriterFlows ==
    ASSUME NEW t, NEW pr, NEW res, NEW w, NEW k, NEW B, Writing(t, pr, res, w, k, B),
           ~th[t].loc.finish, Fresh', NEW next \in Nat, next = NextIndex(t, Started)
    PROVE  Flows(next, k - 1)'
<1>1. /\ Typed /\ Typed' /\ t \in Threads /\ t \in 0..Started - 1 /\ Started \in Nat \ {0}
      /\ Started' = Started /\ k \in 0..Started /\ k > 0 /\ k \in Nat /\ B \in Nat \ {0}
      /\ w \in Nat /\ w \in 0..Started - 1 /\ Offset(w, t) = 0 /\ t = w
      /\ WriteP(t, pr, res) /\ WriteStep(t, pr, res) /\ Ring(w, k, B)
      /\ LocalRules(t) /\ Works(t) /\ p.blockIndex \in Nat
      /\ 0..Started - 1 \subseteq Threads /\ 0 \in Threads
  BY WriterFacts, WriterTypes DEF Writing, WriteStep, Turn
<1>2. Fresh /\ pr = "ok" /\ ~Interrupts(t, res) /\ ~Stops(th[t].loc)
  BY WriterErrors, <1>1 DEF Fresh, LocalRules
<1>3. th[t].loc.codeRes = "ok" /\ res # "write" BY <1>2, WriterErrors DEF Interrupts
<1>4. PICK b : b = Written + 1 OBVIOUS
<1>5. Written' = b /\ Flows(w, k) /\ b \in 1..LastBlock BY <1>2, <1>3, <1>4, WriterWhole
<1>6. /\ Ring(next, k - 1, B + 1)'
      /\ next \in 0..Started - 1 /\ next # t
      /\ \A u \in 0..Started - 1 : u # t => Offset(next, u) = Offset(w, u) - 1
      /\ \A u \in Threads : th'[u].canRead <=> th[u].canRead
  BY <1>1, RingNext
<1>7. /\ job'.blocks = job.blocks /\ job.blocks \in Inputs /\ SameInput
      /\ LastBlock' = LastBlock
      /\ \A x : BlockEnd(x)' = BlockEnd(x) /\ BlockStart(x)' = BlockStart(x)
      /\ \A x : Continues(x)' <=> Continues(x)
      /\ \A u \in Threads \ {t} : SameThread(u)
      /\ th'[t].loc = NoLocals /\ th'[t].pc \in {"wait", "ret"}
      /\ th'[t].inBuf = <<>> <=> th[t].inBuf = <<>>
  BY WriterLeaves
<1>8. /\ p'.readPos = p.readPos /\ p'.readWasFinished = p.readWasFinished
      /\ job'.limit = job.limit /\ p'.blockIndex = p.blockIndex
  BY <1>1, <1>7 DEF SameInput, WriteP
<1>9. ~Works(t)' /\ ~Reads(t)' BY <1>7 DEF Works, Reads
<1>10. \A u \in 0..Started - 1 : Offset(next, u)' = Offset(next, u) BY <1>1 DEF Offset
<1>11. ASSUME NEW u \in 0..Started' - 1, Works(u)' \/ Reads(u)', ~th'[u].loc.wasInterrupted
       PROVE  Piece(u, Written + 1 + Offset(next, u), BlockStart(Written + 1 + Offset(next, u)))'
  <2>1. u \in 0..Started - 1 /\ u \in Threads /\ u # t BY <1>1, <1>9, <1>11
  <2>2. SameThread(u) BY <2>1, <1>7
  <2>3. (Works(u) \/ Reads(u)) /\ ~th[u].loc.wasInterrupted
    BY <2>2, <1>11, SameThreadDoes DEF SameThread
  <2>4. Offset(w, u) \in Nat /\ Offset(next, u)' = Offset(w, u) - 1
    BY <2>1, <1>1, OffsetFacts, <1>6, <1>10
  <2>5. PICK c \in Nat \ {0} : c = Written + 1 + Offset(w, u) BY <2>4, <1>4, <1>5
  <2>6. (Written + 1 + Offset(next, u))' = c BY <2>4, <2>5, <1>4, <1>5
  <2>7. Piece(u, c, BlockStart(c)) BY <2>1, <2>3, <2>5, <1>5 DEF Flows
  <2>8. Piece(u, c, BlockStart(c))' BY <2>1, <2>2, <2>3, <2>7, <1>1, <1>7, OthersFlow
  <2> QED BY <2>6, <2>8
<1>12. ASSUME NEW u \in 0..Started' - 1, th'[u].canRead
       PROVE  /\ (Written + 1 + (k - 1) <= LastBlock)'
              /\ Continues(BlockStart(Written + 1 + (k - 1)))'
              /\ p'.readWasFinished => p'.readPos = job'.limit
  BY <1>1, <1>6, <1>12, <1>4, <1>5, <1>7, <1>8 DEF Flows
<1>13. p'.blockIndex > 1 BY <1>1, <1>8 DEF Ring
<1>14. /\ th'[0].pc # "fill" =>
            \/ th'[0].inBuf # <<>>
            \/ (Works(0)' \/ Reads(0)') /\ (th'[0].loc.isAllocError \/ th'[0].loc.wasInterrupted)
       /\ th'[0].pc = "fill" /\ th'[0].loc.link > 0 => th'[0].inBuf # <<>>
  BY <1>5, <1>8, <1>13, <1>2, WriterFacts, FreshWriter, <1>7, <1>1, SameThreadDoes DEF Flows,
     Stops, SameThread
<1>15. ~(p'.blockIndex = 1) BY <1>1, <1>8, <1>13
<1> QED BY <1>11, <1>12, <1>14, <1>15 DEF Flows

(* The ring has started again.                                             *)
LEMMA WriterFirst ==
    ASSUME NEW t, NEW pr, NEW res, NEW w, NEW k, NEW B, Writing(t, pr, res, w, k, B),
           Restarting(t, pr, res), Fresh'
    PROVE  Flows(0, 0)' \/ NoMore(0, 0)'
<1>1. /\ Typed /\ Typed' /\ t \in Threads /\ t \in 0..Started - 1 /\ Started \in Nat \ {0}
      /\ Started' = Started /\ k \in Nat /\ B \in Nat \ {0} /\ w \in Nat
      /\ WriteP(t, pr, res) /\ WriteStep(t, pr, res) /\ Ring(w, k, B)
      /\ Works(t) /\ p.blockIndex \in Nat
      /\ 0..Started - 1 \subseteq Threads /\ 0 \in Threads
  BY WriterFacts, WriterTypes DEF Writing, WriteStep, Turn
<1>2. th[t].loc.finish /\ GoesOn(t, pr, res) BY <1>1, WriteBooleans DEF Restarting, Restarts
<1>3. Fresh /\ pr = "ok" /\ ~Interrupts(t, res) /\ ~Stops(th[t].loc)
  BY WriterErrors, <1>2, FreshWriter DEF Fresh, GoesOn
<1>4. th[t].loc.codeRes = "ok" /\ res # "write" BY <1>3, WriterErrors DEF Interrupts
<1>5. PICK b : b = Written + 1 OBVIOUS
<1>6. /\ b \in 1..LastBlock /\ Drained
      /\ \/ Written' = b /\ b < LastBlock /\ BlockEnd(b) = p.readPos /\ Flows(w, k)
         \/ /\ Written' = Written /\ job.limit < BlockEnd(b)
            /\ Flows(w, k) \/ NoMore(w, k)
  BY <1>2, <1>3, <1>4, <1>5, WriterWhole
<1>7. /\ job'.blocks = job.blocks /\ job.blocks \in Inputs /\ SameInput
      /\ LastBlock' = LastBlock
      /\ \A x : BlockEnd(x)' = BlockEnd(x) /\ BlockStart(x)' = BlockStart(x)
      /\ \A x : Continues(x)' <=> Continues(x)
      /\ \A u \in Threads \ {t} : SameThread(u)
      /\ th'[t].inBuf = <<>> <=> th[t].inBuf = <<>>
      /\ Drained' <=> Drained
  BY WriterLeaves
<1>8. /\ p'.readPos = p.readPos /\ p'.readWasFinished = p.readWasFinished
      /\ job'.limit = job.limit /\ p'.blockIndex = p.blockIndex /\ p'.cross = p.cross
  BY <1>1, <1>7 DEF SameInput, WriteP
<1>9. PICK i \in Nat : i = p.blockIndex BY <1>1
<1>10. /\ i = B + 1
       /\ \A u \in Threads \ {t} : Idle(u) /\ ~Works(u) /\ ~Reads(u)
       /\ \A u \in Threads : ~th[u].canRead /\ ~Works(u)' /\ ~Reads(u)'
       /\ Ring(0, 0, i)'
  BY <1>1, <1>2, <1>9, RingCloses
<1>11. th'[0].inBuf # <<>> /\ th'[0].pc # "fill"
  BY <1>1, <1>9, <1>10, <1>3, FreshWriter, <1>6, <1>7 DEF NoMore, Works, Reads, Flows, Stops,
     SameThread
<1>12. \A u \in 0..Started' - 1 : ~Works(u)' /\ ~Reads(u)' BY <1>1, <1>10
<1>13. CASE Written' = b /\ b < LastBlock /\ BlockEnd(b) = p.readPos
  <2>1. PICK c \in Nat : c = b + 1 BY <1>6
  <2>2. (Written + 1 + 0)' = c BY <2>1, <1>13, <1>6
  <2>3. BlockStart(c) = p.readPos + 1 BY <2>1, <1>6, <1>13 DEF BlockStart
  <2>4. p.readPos \in Nat /\ p.cross = <<>> /\ p.readPos = job.limit
    BY <1>1, <1>6 DEF Drained, Typed, MtDecRecs
  <2>5. Continues(p.readPos + 1) BY <2>4 DEF Continues
  <2>6. PICK x : x = BlockStart(c) OBVIOUS
  <2>7. BlockStart(Written + 1 + 0)' = x BY <2>2, <2>6, <1>7
  <2>8. Continues(x)' BY <2>3, <2>5, <2>6, <1>7
  <2>9. c <= LastBlock' /\ p'.readPos = job'.limit
    BY Place, <1>6, <1>13, <2>1, <1>7, <2>4, <1>8 DEF Writing
  <2>10. Flows(0, 0)' BY <2>2, <2>7, <2>8, <2>9, <1>11, <1>12 DEF Flows
  <2> QED BY <2>10
<1>14. CASE Written' = Written /\ job.limit < BlockEnd(b)
  <2>1. Written' < LastBlock' BY Place, <1>5, <1>6, <1>7, <1>14 DEF Writing
  <2>2. job'.limit < BlockEnd(Written + 1)' BY <1>5, <1>14, <1>7, <1>8
  <2>3. \A u \in 0..Started' - 1 : HasRead(u)' \/ Works(u)' => u = 0
    <3>1. \A u \in Threads : th'[u].canRead => u = 0 BY <1>1, <1>2, <1>10, WriteFacts
    <3> QED BY <3>1, <1>1, <1>12 DEF HasRead
  <2>4. ~Reads(0)' /\ ~Works(0)' BY <1>1, <1>10
  <2>5. Drained' BY <1>6, <1>7
  <2>6. NoMore(0, 0)' BY <2>1, <2>2, <2>3, <2>4, <2>5, <1>11 DEF NoMore
  <2> QED BY <2>6
<1> QED BY <1>6, <1>13, <1>14

(* The write token goes on, or back to thread 0.                           *)
LEMMA WriterTurn ==
    ASSUME NEW t, NEW pr, NEW res, NEW w, NEW k, NEW B, Writing(t, pr, res, w, k, B)
    PROVE  p'.progressRes # "ok" \/ "write" \in job'.hit \/ Fresh' \/ Complete'
           \/ Stops(th[t].loc)
  BY WriterStopped, WriterErrors, WriterData, WriterWhole, FreshWriter DEF Interrupts, Stops,
    Fresh

(* The call ends: everything is at rest, and it is known why.              *)
LEMMA WriterEnds ==
    ASSUME NEW t, NEW pr, NEW res, NEW w, NEW k, NEW B, Writing(t, pr, res, w, k, B),
           NothingRead, ~p.exitThread, EndsRun(t, pr, res)
    PROVE  AfterRing' /\ AfterTurn' /\ ~Runs'
<1>1. /\ Typed /\ Typed' /\ t \in Threads /\ t \in 0..Started - 1 /\ Started \in Nat \ {0}
      /\ k \in Nat /\ B \in Nat \ {0} /\ w \in Nat
      /\ WriteP(t, pr, res) /\ WriteStep(t, pr, res) /\ WriteThreads(t, pr, res)
      /\ Ring(w, k, B) /\ p.blockIndex \in Nat /\ LocalRules(t)
      /\ 0..Started - 1 \subseteq Threads /\ 0 \in Threads /\ 0 \in 0..Started - 1
  BY WriterFacts DEF Writing, WriteStep, Turn
<1>2. th[t].loc.finish /\ ~GoesOn(t, pr, res) /\ ~Restarting(t, pr, res)
  BY <1>1, WriteBooleans, WriterTypes DEF EndsRun, Ends, Restarting, Restarts
<1>3. PICK i \in Nat : i = p.blockIndex BY <1>1
<1>4. /\ \A u \in Threads \ {t} : Idle(u) /\ ~Works(u) /\ ~Reads(u)
      /\ \A u \in Threads : ~th[u].canRead
  BY <1>1, <1>2, <1>3, RingCloses
<1>5. job'.pc = "mt" /\ \A u \in Threads \ {t} : SameThread(u) BY WriterLeaves
<1>6. ASSUME NEW u \in Threads
      PROVE  (th'[u].canRead <=> u = 0 /\ t # 0) /\ ~th'[u].canWrite
  BY <1>1, <1>2, <1>4, WriteFacts
<1>7. th'[t].pc = IF t = 0 THEN "ret" ELSE "wait" BY <1>1 DEF WriteThreads
<1>8. ASSUME NEW u \in Threads \ {0} PROVE Idle(u)'
  BY <1>7, <1>4, <1>5, <1>6 DEF SameThread, Idle
<1>9. p'.exitThread <=> t # 0 BY <1>1 DEF WriteP
<1>10. \/ th'[0].pc = "wait" /\ th'[0].canRead /\ p'.exitThread
       \/ th'[0].pc = "ret" /\ ~th'[0].canRead
  BY <1>1, <1>6, <1>7, <1>4, <1>5, <1>9 DEF Ring, InRing, Idle, SameThread
<1>11. AfterRing' BY <1>1, <1>5, <1>6, <1>8, <1>10 DEF AfterRing
<1>12. ~Runs' BY <1>10 DEF Runs
<1>13. \/ p'.progressRes # "ok"
       \/ GoesOnSingle' /\ Kept' /\ job'.data = <<>> /\ job'.i = 0 /\ "write" \notin job'.hit
       \/ ~GoesOnSingle' /\ ("write" \in job'.hit \/ Complete')
  <2>1. CASE pr # "ok"
    BY <2>1, WriterErrors
  <2>2. CASE pr = "ok" /\ ~Fresh
    <3>1. p.wasInterrupted
      BY <2>2, WriterErrors DEF Fresh
    <3>2. ~GoesOnSingle'
      BY <3>1, WriterErrors DEF NoMemory, NoThreads, TooBig
    <3> QED
      BY <2>2, <3>2, WriterStopped
  <2>3. CASE pr = "ok" /\ Fresh /\ Stops(th[t].loc)
    BY <2>3, WriterKept
  <2>4. CASE pr = "ok" /\ Fresh /\ ~Stops(th[t].loc)
    <3>1. ~GoesOnSingle'
      BY <2>4, WriterErrors, FreshWriter DEF Stops
    <3>2. CASE res = "write"
      BY <3>1, <3>2, WriterErrors
    <3>3. CASE th[t].loc.codeRes # "ok"
      BY <2>4, <3>1, <3>3, WriterData
    <3>4. CASE res # "write" /\ th[t].loc.codeRes = "ok"
      <4>1. PICK b : b = Written + 1
        OBVIOUS
      <4>2. Written' = b /\ b = LastBlock
        BY <2>4, <3>4, <4>1, <1>2, WriterWhole
      <4>3. LastBlock' = LastBlock
        BY WriterLeaves
      <4> QED
        BY <3>1, <4>2, <4>3 DEF Complete
    <3> QED
      BY <3>2, <3>3, <3>4
  <2> QED
    BY <2>1, <2>2, <2>3, <2>4
<1>14. AfterTurn' BY <1>5, <1>13 DEF AfterTurn
<1> QED BY <1>11, <1>12, <1>14

LEMMA WriteInv ==
    ASSUME Inv, NothingRead, NEW t \in Threads, Write(t)
    PROVE  Inv'
<1>1. Typed /\ Bounds /\ Hits_Known /\ FilledOK BY DEF Inv
<1>2. Works(t) BY DEF Write, Works
<1>3. /\ t \in 0..Started - 1 /\ job.pc = "mt" /\ ~p.exitThread /\ th[0].pc # "ret"
      /\ \E w \in 0..Started - 1, k \in 0..Started, B \in 1..p.blockIndex :
            Turn(w, k, B)
  BY <1>2, InRuns
<1>4. PICK w \in 0..Started - 1, k \in 0..Started, B \in 1..p.blockIndex :
            Turn(w, k, B)
  BY <1>3
<1>5. /\ Typed'
      /\ \E pr \in {"ok", "progress"}, res \in {"ok", "progress", "write"} :
            WriteStep(t, pr, res)
  BY <1>1, WriteMoves
<1>6. PICK pr \in {"ok", "progress"}, res \in {"ok", "progress", "write"} :
            WriteStep(t, pr, res)
  BY <1>5
<1>7. Writing(t, pr, res, w, k, B) BY <1>1, <1>3, <1>4, <1>5, <1>6 DEF Writing
<1>8. /\ Started \in Nat \ {0} /\ Started' = Started /\ w \in Nat /\ k \in Nat \ {0}
      /\ B \in Nat \ {0} /\ p.blockIndex \in Nat /\ p'.blockIndex = p.blockIndex
      /\ Ring(w, k, B) /\ LocalRules(t)
      /\ 0 \in Threads /\ 0 \in 0..Started - 1
  BY <1>6, <1>4, <1>7, WriterFacts DEF WriteStep, WriteP, Turn
<1>9. Bounds' /\ Hits_Known' /\ FilledOK' /\ job'.pc = "mt"
  BY <1>7, WriterBounds, WriterFilled, WriterLeaves
<1>10. ASSUME EndsRun(t, pr, res) PROVE Inv'
  BY <1>3, <1>5, <1>7, <1>9, <1>10, WriterEnds DEF Inv
<1>11. ASSUME ~EndsRun(t, pr, res)
       PROVE  ~p'.exitThread /\ th'[0].pc # "ret"
  <2>1. ~p'.exitThread BY <1>3, <1>6, <1>11 DEF WriteStep, WriteP
  <2>2. CASE t = 0 BY <2>2, <1>6, <1>11, <2>1 DEF WriteStep, WriteThreads
  <2>3. CASE t # 0 BY <2>3, <1>7, <1>8, WriterLeaves, <2>1, <1>3 DEF SameThread
  <2> QED BY <2>2, <2>3
<1>12. CASE ~th[t].loc.finish
  <2>1. ~EndsRun(t, pr, res) /\ ~Stops(th[t].loc) BY <1>8, <1>12 DEF EndsRun, Ends, LocalRules
  <2>2. PICK next \in Nat : next = NextIndex(t, Started) BY <1>1, <1>3, <1>8, OffsetFacts
  <2>3. Ring(next, k - 1, B + 1)' /\ next \in 0..Started - 1
    BY <1>1, <1>3, <1>5, <1>6, <1>8, <1>12, <2>2, RingNext
  <2>4. Rules(next, k - 1, B + 1)' BY <1>7, <1>12, WriterNextRules
  <2>5. Fresh' => Flows(next, k - 1)' BY <1>7, <1>12, <2>2, WriterFlows
  <2>6. p'.progressRes # "ok" \/ "write" \in job'.hit \/ Fresh' \/ Complete'
    BY <1>7, <2>1, WriterTurn
  <2>7. Turn(next, k - 1, B + 1)' BY <2>3, <2>4, <2>5, <2>6 DEF Turn
  <2>8. next \in 0..Started' - 1 /\ k - 1 \in 0..Started' /\ B + 1 \in 1..p'.blockIndex
    BY <1>8, <2>3, <1>4 DEF Ring
  <2> QED BY <2>1, <2>7, <2>8, <1>5, <1>9, <1>11, RunsOn
<1>13. CASE th[t].loc.finish /\ ~EndsRun(t, pr, res)
  <2>1. Restarting(t, pr, res) BY <1>1, <1>3, <1>5, <1>6, <1>8, <1>13, WriteFacts
  <2>2. PICK b \in Nat : b = p.blockIndex BY <1>8
  <2>3. Ring(0, 0, b)' /\ b = B + 1
    BY <1>1, <1>3, <1>5, <1>6, <1>8, <1>13, <2>1, <2>2, RingCloses
  <2>4. Rules(0, 0, b)' BY <1>7, <2>1, <2>2, WriterFirstRules
  <2>5. Fresh' => Flows(0, 0)' \/ NoMore(0, 0)' BY <1>7, <2>1, WriterFirst
  <2>6. p'.progressRes # "ok" \/ "write" \in job'.hit \/ Fresh' \/ Complete'
    BY <1>7, WriterStopped, <1>8, <1>13, <2>1, <1>1, WriteBooleans, FreshWriter, WriterTurn DEF
       Restarting, Restarts, GoesOn
  <2>7. Turn(0, 0, b)' BY <2>3, <2>4, <2>5, <2>6 DEF Turn
  <2>8. 0 \in 0..Started' - 1 /\ 0 \in 0..Started' /\ b \in 1..p'.blockIndex
    BY <2>3, <1>8, <2>2
  <2> QED BY <2>7, <2>8, <1>5, <1>9, <1>11, <1>13, RunsOn
<1> QED BY <1>10, <1>12, <1>13

-----------------------------------------------------------------------------
(* The invariant.                                                          *)

(* The place of the call. *)
SamePlace == job'.pc = job.pc /\ job'.data = job.data /\ job'.i = job.i

LEMMA PlaceKept ==
    ASSUME Typed,
           \/ job' = job
           \/ \E hit : job' = [job EXCEPT !.hit = hit]
           \/ \E hit, limit : job' = [job EXCEPT !.hit = hit, !.limit = limit]
           \/ \E hit, emitted : job' = [job EXCEPT !.hit = hit, !.emitted = emitted]
    PROVE  SamePlace
  BY DEF Typed, JobRecs, SamePlace

(* The threads leave the place of the call alone. *)
LEMMA ThreadPlace ==
    ASSUME Typed, NEW t \in Threads, Thread(t)
    PROVE  SamePlace
<1>1. CASE ReadWait(t) BY <1>1, PlaceKept, Zenon DEF ReadWait
<1>2. CASE AllocFails(t) BY <1>2, PlaceKept, Zenon DEF AllocFails, Failed
<1>3. ASSUME NEW data, NEW finish, NEW fromCross, NEW q,
             ParseLink(t, data, finish, fromCross, q)
      PROVE  SamePlace
  <2>1. job' = job \/ Failed("alloc") BY <1>3, Zenon DEF ParseLink
  <2> QED BY <2>1, PlaceKept, Zenon DEF Failed
<1>4. CASE FillFromCross(t) BY <1>3, <1>4, Zenon DEF FillFromCross
<1>5. CASE Read(t)
  <2>1. \/ \E data, finish, q : ParseLink(t, data, finish, FALSE, q)
        \/ \E pr : job' = [job EXCEPT !.hit = Hits(pr)]
        \/ \E hit, limit : job' = [job EXCEPT !.hit = hit, !.limit = limit]
    BY <1>5, Zenon DEF Read
  <2> QED BY <2>1, <1>3, PlaceKept, Zenon
<1>6. CASE Pass(t)
  <2>1. job' = job \/ (\E hit : job' = [job EXCEPT !.hit = hit]) \/ Failed("create")
    BY <1>6, Zenon DEF Pass
  <2> QED BY <2>1, PlaceKept, Zenon DEF Failed
<1>7. CASE Code(t) BY <1>7, CodeMoves DEF CodeStep, OnlyDecodes, SameCall, SamePlace
<1>8. CASE CodeUnprepared(t)
  BY <1>8, UnpreparedMoves DEF UnpreparedStep, OnlyDecodes, SameCall, SamePlace
<1>9. CASE Write(t) BY <1>9, WriteMoves DEF WriteStep, WriteJob, SamePlace
<1> QED BY <1>1, <1>2, <1>4, <1>5, <1>6, <1>7, <1>8, <1>9 DEF Thread

(* MtDec_Read begins only when the threads are done. *)
LEMMA NothingReadKept ==
    ASSUME Typed, NothingRead, [Next]_vars
    PROVE  NothingRead'
<1>1. ASSUME NEW t \in Threads, Thread(t) PROVE NothingRead'
  BY <1>1, ThreadPlace DEF NothingRead, SamePlace
<1>2. ASSUME NEW blocks \in Inputs,
             NEW limit \in 0..End(blocks, Len(blocks)) + Extra, CallCode(blocks, limit)
      PROVE  NothingRead'
  <2>1. job \in JobRecs BY DEF Typed
  <2> QED BY <1>2, <2>1 DEF CallCode, NothingRead, JobRecs
<1>3. CASE Caller
  <2>1. job \in JobRecs BY DEF Typed
  <2>2. CASE Joined BY <2>1, <2>2 DEF Joined, Return, NothingRead, JobRecs
  <2>3. CASE PrepareRead
    BY <2>3, PrepareMoves DEF PrepareStep, PreparesST, NoMemoryST, JobMoves, NothingRead
  <2>4. CASE MtRead BY <2>4, <2>1 DEF MtRead, NothingRead, JobRecs
  <2>5. CASE MtReadCross BY <2>1, <2>5 DEF MtReadCross, NothingRead, JobRecs
  <2>6. CASE StBlock
    <3>1. /\ job.pc = "st"
          /\ \/ \E emitted, data : job' = [job EXCEPT !.emitted = emitted, !.data = data]
             \/ job' = Return("data")
      BY <2>6, Zenon DEF StBlock
    <3> QED BY <2>1, <3>1 DEF Return, NothingRead, JobRecs
  <2>7. CASE StRead
    <3>1. job.pc = "st" BY <2>7 DEF StRead
    <3>2. CASE job' = [job EXCEPT !.data = @ \o Units(p.readPos + 1, job.limit)]
      BY <2>1, <3>1, <3>2 DEF NothingRead, JobRecs
    <3>3. ASSUME NEW end,
                 job' = [job EXCEPT !.data = @ \o Units(p.readPos + 1, end),
                                    !.limit = end, !.hit = @ \cup {"read"}]
          PROVE  NothingRead'
      BY <2>1, <3>1, <3>3 DEF NothingRead, JobRecs
    <3> QED BY <2>7, <3>2, <3>3, Zenon DEF StRead
  <2>8. CASE StEnd BY <2>1, <2>8 DEF StEnd, Return, NothingRead, JobRecs
  <2>9. CASE CloseThread BY <2>1, <2>9 DEF CloseThread, NothingRead, JobRecs
  <2>10. CASE StStops
    <3>1. \E f, hit : job' = [Return(f) EXCEPT !.hit = hit] BY <2>10, Zenon DEF StStops
    <3> QED BY <2>1, <3>1 DEF Return, NothingRead, JobRecs
  <2> QED BY <1>3, <2>2, <2>3, <2>4, <2>5, <2>6, <2>7, <2>8, <2>9, <2>10 DEF Caller
<1>4. CASE Destruct BY <1>4 DEF Destruct, NothingRead, Typed, JobRecs
<1>5. CASE UNCHANGED vars BY <1>5 DEF vars, NothingRead
<1> QED BY <1>1, <1>2, <1>3, <1>4, <1>5 DEF Next, Destroyed

(* Nothing changes. *)
LEMMA Unchanged ==
    ASSUME Inv, UNCHANGED vars
    PROVE  Inv'
<1>1. p' = p /\ th' = th /\ job' = job BY DEF vars
<1>2. LastBlock' = LastBlock /\ Started' = Started /\ Written' = Written
  BY <1>1 DEF LastBlock, Started, Written
<1>3. \A b : BlockEnd(b)' = BlockEnd(b) /\ BlockStart(b)' = BlockStart(b) /\ Kind(b)' = Kind(b)
  BY <1>1 DEF BlockEnd, BlockStart, Kind
<1>4. \A t : (Reads(t) <=> Reads(t)') /\ (Works(t) <=> Works(t)') /\ (Idle(t) <=> Idle(t)')
            /\ (HasRead(t) <=> HasRead(t)') /\ (Closes(t) <=> Closes(t)')
  BY <1>1 DEF Reads, Works, Idle, HasRead, Closes
<1>5. Typed' BY <1>1 DEF Inv, Typed
<1>6. Bounds' BY <1>1, <1>2, <1>4 DEF Inv, Bounds
<1>7. (InMt <=> InMt') /\ (Runs <=> Runs') /\ (Ended <=> Ended') /\ (GoesOnSingle <=> GoesOnSingle')
  BY <1>1 DEF InMt, Runs, Ended, GoesOnSingle
<1>8. AfterRing' BY <1>1, <1>4, <1>7 DEF Inv, AfterRing
<1>9. InOrder <=> InOrder' BY <1>1, <1>2, <1>3 DEF InOrder
<1>10. Hits_Known' BY <1>1, <1>7, <1>9 DEF Inv, Hits_Known
<1>11. \A x : (Continues(x) <=> Continues(x)') /\ (LastParsed(x) <=> LastParsed(x)')
  BY <1>1, <1>2, <1>3 DEF Continues, LastParsed
<1>12. \A x : Follows(x) <=> Follows(x)' BY <1>1, <1>2, <1>3, <1>11 DEF Follows
<1>13. Kept <=> Kept' BY <1>1, <1>2, <1>3, <1>12, Zenon DEF Kept
<1>14. Single <=> Single' BY <1>1, <1>2, <1>3, <1>11, Zenon DEF Single
<1>15. Complete <=> Complete' BY <1>1, <1>2, <1>3 DEF Complete
<1>16. AfterTurn' BY <1>1, <1>7, <1>13, <1>14, <1>15 DEF Inv, AfterTurn
<1>17. FilledOK' BY <1>1, <1>2 DEF Inv, FilledOK
<1>18. ASSUME NEW w, NEW k, NEW B, Turn(w, k, B) PROVE Turn(w, k, B)'
  <2>1. \A t : Offset(w, t) = Offset(w, t)'
    BY <1>2 DEF Offset
  <2>2. \A t : InRing(w, k, B, t) <=> InRing(w, k, B, t)'
    BY <1>1 DEF InRing, Offset, Started, Reads, Works, HasRead, Closes
  <2>3. Ring(w, k, B) <=> Ring(w, k, B)'
    BY <1>1, <1>2, <1>4, <2>2, Zenon DEF Ring
  <2>4. (Fresh <=> Fresh') /\ \A L : (Stops(L) <=> Stops(L)')
    BY <1>1 DEF Fresh, Stops
  <2>5. \A t : LocalRules(t) <=> LocalRules(t)'
    BY <1>1 DEF LocalRules, Reads, Works, Stops
  <2>6. Rules(w, k, B) <=> Rules(w, k, B)'
    BY <1>1, <1>2, <1>4, <1>7, <2>4, <2>5, Zenon DEF Rules
  <2>7. Drained <=> Drained'
    BY <1>1 DEF Drained
  <2>8. \A t, b, s : Filling(t, b, s) <=> Filling(t, b, s)'
    BY <1>1 DEF Filling, Continues, BlockEnd, LastParsed, Kind, LastBlock
  <2>9. \A t, b, s : Ending(t, b, s) <=> Ending(t, b, s)'
    BY <1>1 DEF Ending, BlockEnd, LastParsed, Kind, LastBlock, Drained
  <2>10. \A t, b, s : Taken(t, b, s) <=> Taken(t, b, s)'
    BY <1>1, <1>3, <1>12, <2>9, ZenonT(40) DEF Taken
  <2>11. \A t, s : Passing(t, s) <=> Passing(t, s)'
    BY <1>1, <1>11, Zenon DEF Passing
  <2>12. \A t, b, s : Coding(t, b, s) <=> Coding(t, b, s)'
    BY <1>1, <1>3, Zenon DEF Coding
  <2>13. \A t, b, s : Coded(t, b, s) <=> Coded(t, b, s)'
    BY <1>1, <1>3, Zenon DEF Coded
  <2>14. \A t, b : Parted(t, b) <=> Parted(t, b)'
    BY <1>1, <1>3, <2>4, Zenon DEF Parted
  <2>15. \A t, b, s : Piece(t, b, s) <=> Piece(t, b, s)'
    <3> SUFFICES ASSUME NEW t, NEW b, NEW s PROVE Piece(t, b, s) <=> Piece(t, b, s)'
      OBVIOUS
    <3> QED
      BY <1>1, <1>2, <1>3, <1>4, <2>4, <2>8, <2>10, <2>11, <2>12, <2>13, <2>14 DEF Piece
  <2>16. Flows(w, k) <=> Flows(w, k)'
    BY <1>1, <1>2, <1>3, <1>4, <1>11, <2>1, <2>15, Zenon DEF Flows
  <2>17. NoMore(w, k) <=> NoMore(w, k)'
    BY <1>1, <1>2, <1>3, <1>4, <2>7, <2>15, Zenon DEF NoMore
  <2> QED
    BY <1>1, <1>15, <1>18, <2>3, <2>4, <2>6, <2>16, <2>17, Zenon DEF Turn
<1> QED BY <1>1, <1>2, <1>5, <1>6, <1>7, <1>8, <1>10, <1>16, <1>17, <1>18 DEF Inv

(* Every step keeps the invariant. *)
LEMMA InvStep ==
    ASSUME Inv, NothingRead, [Next]_vars
    PROVE  Inv' /\ NothingRead'
<1>1. NothingRead'
  BY NothingReadKept DEF Inv
<1> SUFFICES Inv'
  BY <1>1
<1>2. ASSUME NEW t \in Threads, Thread(t) PROVE Inv'
  <2>1. CASE ReadWait(t)
    BY <2>1, ReadWaitInv, ExitWaitInv
  <2>2. CASE AllocFails(t)
    BY <2>2, AllocInv
  <2>3. CASE FillFromCross(t)
    BY <2>3, CrossInv
  <2>4. CASE Read(t)
    BY <2>4, ReadInv
  <2>5. CASE Pass(t)
    BY <2>5, PassInv
  <2>6. CASE Code(t)
    BY <2>6, CodeInv
  <2>7. CASE CodeUnprepared(t)
    BY <2>7, UnpreparedInv
  <2>8. CASE Write(t)
    BY <2>8, WriteInv
  <2> QED
    BY <1>2, <2>1, <2>2, <2>3, <2>4, <2>5, <2>6, <2>7, <2>8 DEF Thread
<1>3. ASSUME NEW blocks \in Inputs,
             NEW limit \in 0..End(blocks, Len(blocks)) + Extra, CallCode(blocks, limit)
      PROVE  Inv'
  BY <1>3, CallInv
<1>4. CASE Caller
  <2>1. CASE Joined
    BY <2>1, JoinedInv
  <2>2. CASE PrepareRead
    BY <2>2, PrepareReadInv
  <2>3. CASE MtRead
    BY <2>3, MtReadInv
  <2>4. CASE MtReadCross
    BY <2>4, MtReadCrossInv
  <2>5. CASE StBlock
    BY <2>5, StBlockInv
  <2>6. CASE StRead
    BY <2>6, StReadInv
  <2>7. CASE StEnd
    BY <2>7, StEndInv
  <2>8. CASE CloseThread
    BY <2>8, CloseThreadInv
  <2>9. CASE StStops
    BY <2>9, StStopsInv
  <2> QED
    BY <1>4, <2>1, <2>2, <2>3, <2>4, <2>5, <2>6, <2>7, <2>8, <2>9 DEF Caller
<1>5. CASE Destruct
  BY <1>5, DestructInv
<1>6. CASE UNCHANGED vars
  BY <1>6, Unchanged
<1> QED
  BY <1>2, <1>3, <1>4, <1>5, <1>6 DEF Next, Destroyed

(* In every reachable state the threads form the ring that Inv describes.  *)
THEOREM InvHolds == Spec => [](Inv /\ NothingRead)
<1>1. Init => Inv /\ NothingRead BY InitInv DEF Init, NothingRead
<1>2. (Inv /\ NothingRead) /\ [Next]_vars => (Inv /\ NothingRead)' BY InvStep
<1> QED BY <1>1, <1>2, PTL DEF Spec

(* The fields of the engine, of its threads and of the call keep their     *)
(* types; in particular there are never more filled threads than threads,  *)
(* and the cross block holds at most one buffer.                           *)
THEOREM TypesKept == Spec => []TypeOK
<1>1. Inv => TypeOK
  <2> SUFFICES ASSUME Inv PROVE TypeOK OBVIOUS
  <2>1. p \in MtDecRecs /\ th \in [Threads -> ThreadRecs] /\ job \in JobRecs /\ Bounds /\ FilledOK
    BY DEF Inv, Typed
  <2>2. InBufSize \in Nat BY Numbers
  <2>3. LastBlock \in Nat BY <2>1, BlockFacts DEF JobRecs, LastBlock
  <2>4. ASSUME NEW t \in Threads
        PROVE  LET T == th[t] IN
               /\ T.pc \in {"none", "wait", "fill", "pass", "code", "write", "ret"}
               /\ T.canRead \in BOOLEAN /\ T.canWrite \in BOOLEAN
               /\ T.inDataSize_Start \in 0..InBufSize
               /\ T.inDataSize >= T.inDataSize_Start
               /\ T.loc.nextThread \in Threads
               /\ T.loc.block \in 0..LastBlock
    <3>1. th[t] \in ThreadRecs BY <2>1
    <3>2. th[t].loc \in Locals BY <3>1 DEF ThreadRecs
    <3>3. /\ th[t].inDataSize_Start <= InBufSize
          /\ th[t].inDataSize_Start <= th[t].inDataSize
          /\ th[t].loc.block <= LastBlock
      BY <2>1 DEF Bounds
    <3>4. /\ th[t].pc \in {"none", "wait", "fill", "pass", "code", "write", "ret"}
          /\ th[t].canRead \in BOOLEAN /\ th[t].canWrite \in BOOLEAN
          /\ th[t].inDataSize_Start \in Nat /\ th[t].inDataSize \in Nat
      BY <3>1 DEF ThreadRecs
    <3>5. th[t].loc.nextThread \in Threads /\ th[t].loc.block \in Nat BY <3>2 DEF Locals
    <3> QED BY <2>2, <2>3, <3>3, <3>4, <3>5
  <2>5. /\ p.numStartedThreads \in 0..NumThreads
        /\ p.numFilledThreads \in 0..p.numStartedThreads
        /\ p.filledThreadStart \in Threads
    BY Numbers, <2>1 DEF MtDecRecs, FilledOK, Started
  <2>6. Len(p.cross) <= InBufSize /\ p.readPos <= job.limit BY <2>1 DEF Bounds
  <2>7. job.res \in Results /\ job.hit \subseteq Faults BY <2>1 DEF JobRecs
  <2> QED BY <2>4, <2>5, <2>6, <2>7 DEF TypeOK
<1> QED BY <1>1, InvHolds, PTL

LEMMA AtMostOne ==
    ASSUME NEW S, NEW x, S \subseteq {x}
    PROVE  Cardinality(S) <= 1 /\ Cardinality(S) \in Nat
  BY FS_EmptySet, FS_Singleton

(* One read token and one write token, whatever the number of threads.     *)
THEOREM TokensKept == Spec => []TokensUnique
<1>1. Inv => TokensUnique
  <2> SUFFICES ASSUME Inv, InMt PROVE
           /\ Cardinality({t \in Threads : th[t].canRead})
                 + Cardinality({t \in Threads : Reading(t)}) <= 1
           /\ Cardinality({t \in Threads : th[t].canWrite}) <= 1
    BY DEF TokensUnique
  <2>1. Typed /\ AfterRing BY DEF Inv
  <2>2. PICK r \in Threads, w \in Threads :
           /\ \A t \in Threads : th[t].canRead \/ Reading(t) => t = r
           /\ th[r].canRead => ~Reading(r)
           /\ \A t \in Threads : th[t].canWrite => t = w
    <3>1. CASE Ended BY Numbers, <2>1, <3>1 DEF AfterRing, Idle, Reading
    <3>2. CASE ~Ended
      <4>1. Runs BY <3>2 DEF Runs, Ended
      <4>2. PICK w \in 0..Started - 1, k \in 0..Started, B \in 1..p.blockIndex : Ring(w, k, B)
        BY <4>1 DEF Inv, Turn
      <4>3. /\ Started \in Nat /\ p.blockIndex \in Nat /\ 0..Started - 1 \subseteq Threads
            /\ \A t \in Threads : t \in Nat
        BY <2>1, <4>2, InRingType, Numbers
      <4>4. \A t \in Threads : t >= Started => Idle(t) BY <4>2, Zenon DEF Ring
      <4>5. \A t \in 0..Started - 1 : InRing(w, k, B, t) BY <4>2, Zenon DEF Ring
      <4>6. \A t \in Threads : Reading(t) <=> Reads(t) BY DEF Reading, Reads
      <4>7. \A t \in Threads : th[t].canWrite => t = w BY <4>4, <4>3, <4>5 DEF Idle, InRing
      <4>8. ASSUME NEW r \in Threads, HasRead(r)
            PROVE  /\ \A t \in Threads : HasRead(t) => t = r
                   /\ th[r].canRead => ~Reads(r)
        <5>1. ~(r >= Started) BY <4>4, <4>8 DEF Idle, HasRead, Reads
        <5>2. r \in 0..Started - 1 BY <4>3, <5>1
        <5>3. InRing(w, k, B, r) BY <4>5, <5>2
        <5>4. th[r].canRead => ~Reads(r) BY <5>3 DEF InRing
        <5>5. \A t \in 0..Started - 1 : HasRead(t) => Offset(w, t) = Offset(w, r)
          BY <4>5, <4>8, <5>3 DEF InRing
        <5>6. \A t \in Threads : HasRead(t) => ~(t >= Started) BY <4>4 DEF Idle, HasRead, Reads
        <5>7. \A t \in Threads : HasRead(t) => t \in 0..Started - 1 BY <4>3, <5>6
        <5>8. \A t \in 0..Started - 1 : Offset(w, t) = Offset(w, r) => t = r
          BY <2>1, <5>2, OffsetFacts
        <5> QED BY <5>4, <5>5, <5>7, <5>8
      <4>9. w \in Threads BY <4>3
      <4>10. CASE \E r \in Threads : HasRead(r) BY <4>6, <4>7, <4>8, <4>9, <4>10 DEF HasRead
      <4>11. CASE ~\E r \in Threads : HasRead(r) BY <4>6, <4>7, <4>9, <4>11 DEF HasRead
      <4> QED BY <4>10, <4>11
    <3> QED BY <3>1, <3>2
  <2> DEFINE R == {t \in Threads : th[t].canRead}
             S == {t \in Threads : Reading(t)}
             W == {t \in Threads : th[t].canWrite}
  <2>3. R \subseteq {r} /\ S \subseteq {r} /\ W \subseteq {w} /\ (R = {} \/ S = {}) BY <2>2
  <2> HIDE DEF R, S, W
  <2>4. /\ Cardinality(R) <= 1 /\ Cardinality(R) \in Nat
        /\ Cardinality(S) <= 1 /\ Cardinality(S) \in Nat
        /\ Cardinality(W) <= 1
    BY <2>3, AtMostOne
  <2>5. Cardinality(R) = 0 \/ Cardinality(S) = 0 BY <2>3, FS_EmptySet
  <2>6. Cardinality(R) + Cardinality(S) <= 1 /\ Cardinality(W) <= 1 BY <2>4, <2>5
  <2> QED BY <2>6 DEF R, S, W
<1> QED BY <1>1, InvHolds, PTL

-----------------------------------------------------------------------------
(* From the threads to one thread.                                         *)

(* A run of units is a prefix of any data that begins like it. *)
LEMMA RunIsPrefix ==
    ASSUME NEW a \in Nat, NEW z \in Int, NEW data \in Seq(Nat),
           z < a + Len(data),
           \A i \in 1..Len(data) : a + i - 1 <= z => data[i] = a + i - 1
    PROVE  IsPrefix(Units(a, z), data)
<1> DEFINE n == IF z - a + 1 < 0 THEN 0 ELSE z - a + 1
           run == [i \in 1..n |-> a + i - 1]
<1>1. n \in Nat /\ 1..(z - a + 1) = 1..n OBVIOUS
<1>2. Units(a, z) = run BY <1>1 DEF Units
<1>3. Len(data) \in Nat /\ n <= Len(data) OBVIOUS
<1>4. \A i \in 1..n : a + i - 1 <= z OBVIOUS
<1>5. \A i \in 1..n : data[i] = a + i - 1 BY <1>1, <1>3, <1>4
<1> HIDE DEF n
<1>6. run \in Seq(Nat) /\ Len(run) = n /\ \A i \in 1..n : run[i] = a + i - 1 BY <1>1
<1> HIDE DEF run
<1>7. /\ SubSeq(run, 1, n) \in Seq(Nat) /\ Len(SubSeq(run, 1, n)) = n
      /\ \A i \in 1..n : SubSeq(run, 1, n)[i] = run[i]
  BY <1>1, <1>6, SubSeqProperties
<1>8. /\ SubSeq(data, 1, n) \in Seq(Nat) /\ Len(SubSeq(data, 1, n)) = n
      /\ \A i \in 1..n : SubSeq(data, 1, n)[i] = data[i]
  BY <1>1, <1>3, SubSeqProperties
<1>9. SubSeq(run, 1, n) = SubSeq(data, 1, n) BY <1>5, <1>6, <1>7, <1>8, SeqEqual
<1> QED BY <1>2, <1>3, <1>6, <1>9 DEF IsPrefix

(* Parsing stops at the first block that is junk or the last. *)
LEMMA ParseEndFacts ==
    ASSUME job.blocks \in Inputs
    PROVE  /\ ParseEnd \in Nat
           /\ \A b \in 1..LastBlock : LastParsed(b) => ParseEnd <= BlockEnd(b)
<1>1. LastBlock \in Nat \ {0} /\ \A b \in 0..LastBlock : BlockEnd(b) \in Nat BY BlockFacts
<1> DEFINE stops == {b \in 1..LastBlock : Kind(b) = "junk" \/ b = LastBlock}
           m == CHOOSE b \in stops : \A c \in stops : b <= c
<1>2. stops \in SUBSET Nat /\ LastBlock \in stops BY <1>1
<1>3. \E b \in stops : \A c \in stops : b <= c
  <2> HIDE DEF stops
  <2> QED BY <1>2, LeastNumber
<1>4. m \in stops /\ \A c \in stops : m <= c BY <1>3
<1>5. ParseEnd = BlockEnd(m) BY DEF ParseEnd
<1> HIDE DEF m
<1>6. m \in 1..LastBlock BY <1>4
<1>7. ASSUME NEW b \in 1..LastBlock, LastParsed(b) PROVE ParseEnd <= BlockEnd(b)
  BY <1>7, <1>4, <1>6, <1>5, EndsIncrease DEF LastParsed
<1> QED BY <1>1, <1>5, <1>6, <1>7

LEMMA RestKept ==
    ASSUME Inv
    PROVE  RestComplete
<1> SUFFICES ASSUME job.pc = "st" PROVE
       LET first == BlockEnd(Len(job.emitted)) + 1
           last == IF p.readPos < ParseEnd THEN p.readPos ELSE ParseEnd
       IN  IsPrefix(Units(first, last), job.data)
  BY DEF RestComplete
<1> DEFINE pos == BlockStart(Written + 1)
           last == IF p.readPos < ParseEnd THEN p.readPos ELSE ParseEnd
<1>1. Typed /\ job.blocks \in Inputs /\ InOrder /\ Single /\ p.cross = <<>>
  BY DEF Inv, Bounds, Hits_Known, AfterTurn
<1>2. ParseEnd \in Nat /\ \A b \in 1..LastBlock : LastParsed(b) => ParseEnd <= BlockEnd(b)
  BY <1>1, ParseEndFacts
<1>3. LastBlock \in Nat \ {0} /\ \A b \in 0..LastBlock : BlockEnd(b) \in Nat
  BY <1>1, BlockFacts
<1>4. job.data \in Seq(Nat) /\ p.readPos \in Nat /\ Written \in Nat /\ Written <= LastBlock
  BY <1>1 DEF Typed, JobRecs, MtDecRecs, InOrder, Written
<1>5. pos = BlockEnd(Written) + 1 /\ Written + 1 - 1 = Written BY <1>4 DEF BlockStart
<1>6. pos \in Nat /\ pos = BlockEnd(Len(job.emitted)) + 1 BY <1>3, <1>4, <1>5 DEF Written
<1>7. last \in Nat /\ last <= p.readPos /\ last <= ParseEnd BY <1>2, <1>4
<1>8. Len(job.data) \in Nat BY <1>4
<1>9. IsPrefix(Units(pos, last), job.data)
  <2>1. CASE Holds(job.data, pos) /\ Continues(pos + Len(job.data))
    <3>1. pos + Len(job.data) = p.readPos + 1 BY <2>1, <1>1, <1>6, <1>8 DEF Continues
    <3>2. \A i \in 1..Len(job.data) : job.data[i] = pos + i - 1 BY <2>1 DEF Holds
    <3> HIDE DEF pos, last
    <3>3. last < pos + Len(job.data) BY <1>4, <1>6, <1>7, <1>8, <3>1
    <3> QED BY <1>4, <1>6, <1>7, <3>2, <3>3, RunIsPrefix
  <2>2. CASE \E b \in 1..LastBlock :
                /\ LastParsed(b) /\ BlockEnd(b) <= p.readPos
                /\ Written < b \/ b = LastBlock
                /\ pos + Len(job.data) > BlockEnd(b)
                /\ \A i \in 1..Len(job.data) :
                      pos + i - 1 <= BlockEnd(b) => job.data[i] = pos + i - 1
    <3>1. PICK b \in 1..LastBlock :
                /\ LastParsed(b)
                /\ pos + Len(job.data) > BlockEnd(b)
                /\ \A i \in 1..Len(job.data) :
                      pos + i - 1 <= BlockEnd(b) => job.data[i] = pos + i - 1
      BY <2>2
    <3>2. ParseEnd <= BlockEnd(b) /\ BlockEnd(b) \in Nat BY <1>2, <1>3, <3>1
    <3> HIDE DEF pos, last
    <3>3. last < pos + Len(job.data) /\ last <= BlockEnd(b)
      BY <1>2, <1>6, <1>7, <1>8, <3>1, <3>2
    <3>4. \A i \in 1..Len(job.data) : pos + i - 1 <= last => job.data[i] = pos + i - 1
      BY <1>6, <1>7, <3>2, <3>3, <3>1
    <3>5. pos \in Nat /\ last \in Int /\ job.data \in Seq(Nat) /\ last < pos + Len(job.data)
      BY <1>4, <1>6, <1>7, <3>3
    <3> QED BY <3>4, <3>5, RunIsPrefix, Zenon
  <2> QED BY <1>1, <2>1, <2>2, Zenon DEF Single
<1> QED BY <1>6, <1>9

(* When the threads are done, nothing is left half done for the next call, *)
(* and one thread finds the input where the writing has stopped.           *)
THEOREM HandoverKept == Spec => []HandoverClean
<1>1. Inv => HandoverClean
  BY RestKept DEF Inv, QuietWhenDone, AfterRing, Idle, Ended, HandoverClean
<1> QED BY <1>1, InvHolds, PTL

-----------------------------------------------------------------------------
(* The end of the input has been taken when the threads are done.          *)

(* When the input has ended but is not yet taken to its end, somebody is   *)
(* about to take the rest: the one for whom the read has failed.           *)
TakesRest(t) ==
    /\ th[t].pc = "fill" /\ th[t].loc.link < Len(th[t].inBuf)
    /\ th[t].loc.link = 0 => p.cross = <<>>
EndRead ==
    p.readWasFinished /\ p.readPos # job.limit =>
        /\ job.limit - p.readPos < InBufSize
        /\ \E t \in Threads : TakesRest(t)

(* The readers go on with what they do. *)
ReadersStay ==
    \A u \in Threads : th[u].pc = "fill" =>
        th'[u].pc = "fill" /\ th'[u].loc = th[u].loc /\ th'[u].inBuf = th[u].inBuf

LEMMA OneReader ==
    ASSUME Inv, NEW t \in Threads, NEW u \in Threads, Reads(t), Reads(u)
    PROVE  u = t
<1>1. /\ Typed /\ t \in 0..Started - 1
      /\ \E w \in 0..Started - 1, k \in 0..Started, B \in 1..p.blockIndex : Turn(w, k, B)
  BY InRuns DEF Inv
<1>2. PICK w \in 0..Started - 1, k \in 0..Started, B \in 1..p.blockIndex : Ring(w, k, B)
  BY <1>1 DEF Turn
<1>3. Started \in Nat /\ p.blockIndex \in Nat BY <1>1 DEF Typed, MtDecRecs, Started
<1>4. w \in Nat /\ k \in Nat /\ B \in Nat BY <1>2, <1>3
<1>5. HasRead(t) /\ ~Works(t) /\ HasRead(u) BY DEF HasRead, Reads, Works
<1> QED BY <1>1, <1>2, <1>4, <1>5, Holder

LEMMA RestStays ==
    ASSUME EndRead, SameInput, ReadersStay
    PROVE  EndRead'
  BY DEF EndRead, SameInput, TakesRest, ReadersStay

(* A thread that does not fill its buffer leaves the input to the others.  *)
LEMMA OthersRead ==
    ASSUME Inv, NEW t \in Threads,
           ReadWait(t) \/ Pass(t) \/ Code(t) \/ CodeUnprepared(t) \/ Write(t)
    PROVE  SameInput /\ ReadersStay
<1>1. Typed BY DEF Inv
<1>2. ASSUME OnlyThread(t), th[t].pc # "fill" PROVE ReadersStay
  BY <1>2 DEF OnlyThread, ReadersStay
<1>3. CASE ReadWait(t)
  <2>1. CASE p.exitThread BY <1>3, <2>1, <1>1, <1>2 DEF ReadWait, Typed, SameInput, OnlyThread
  <2>2. CASE ~p.exitThread BY <1>1, <1>2, <1>3, <2>2, ReadWaitMoves DEF ReadWaitStep
  <2> QED BY <2>1, <2>2
<1>4. CASE Pass(t)
  <2>1. Reads(t) BY <1>4 DEF Pass, Reads
  <2>2. /\ t \in 0..Started - 1
        /\ \E w \in 0..Started - 1, k \in 0..Started, B \in 1..p.blockIndex : Turn(w, k, B)
    BY <2>1, InRuns
  <2>3. \A u \in Threads : u >= Started => Idle(u) BY <2>2, Zenon DEF Turn, Ring
  <2>4. t < Started /\ Started \in Nat BY <1>1, <2>2 DEF Typed, MtDecRecs, Started
  <2>5. PassEnds(t) \/ PassOn(t) BY <1>1, <1>4, <2>3, <2>4, PassMoves
  <2>6. CASE PassEnds(t) BY <1>2, <2>6 DEF PassEnds, PassBase
  <2>7. CASE PassOn(t) BY <2>7, <2>3, <2>4 DEF PassOn, PassBase, Idle, ReadersStay
  <2> QED BY <2>5, <2>6, <2>7
<1>5. CASE Code(t) BY <1>1, <1>2, <1>5, CodeMoves DEF CodeStep, OnlyDecodes
<1>6. CASE CodeUnprepared(t)
  BY <1>1, <1>2, <1>6, UnpreparedMoves DEF UnpreparedStep, OnlyDecodes
<1>7. CASE Write(t) BY <1>1, <1>7, WriteMoves DEF WriteStep, WriteThreads, ReadersStay
<1> QED BY <1>3, <1>4, <1>5, <1>6, <1>7

LEMMA ReadersRest ==
    ASSUME Inv, EndRead, NEW t \in Threads, AllocFails(t) \/ FillFromCross(t) \/ Read(t)
    PROVE  EndRead'
<1>1. th[t].pc = "fill" /\ Reads(t) BY DEF AllocFails, FillFromCross, Read, Reads
<1>2. /\ Typed /\ Bounds /\ LocalRules(t) /\ job.blocks \in Inputs /\ p.readPos <= job.limit
  BY <1>1, FillingFacts
<1>3. p.readWasFinished /\ p.readPos # job.limit => TakesRest(t) /\ job.limit - p.readPos < InBufSize
  BY <1>1, OneReader DEF EndRead, TakesRest, Reads
<1>4. p.readPos \in Nat /\ job.limit \in Nat /\ InBufSize \in Nat \ {0}
  BY <1>2, Numbers DEF Typed, MtDecRecs, JobRecs
<1>5. CASE AllocFails(t)
  <2>1. th[t].loc.link = Len(th[t].inBuf) /\ Len(th[t].inBuf) \in Nat
    BY <1>2, <1>5 DEF AllocFails, Typed, ThreadRecs
  <2>2. ~TakesRest(t) BY <2>1 DEF TakesRest
  <2>3. SameInput BY <1>2, <1>5, AllocMoves DEF AllocStep
  <2> QED BY <1>3, <2>2, <2>3 DEF EndRead, SameInput
<1>6. CASE FillFromCross(t)
  <2>1. CrossStep(t) BY <1>2, <1>6, FromCross
  <2>2. ~TakesRest(t) BY <2>1 DEF CrossStep, TakesRest
  <2>3. p'.readPos = p.readPos /\ p'.readWasFinished = p.readWasFinished /\ job'.limit = job.limit
    BY <2>1 DEF CrossStep, LinkStep
  <2> QED BY <1>3, <2>2, <2>3 DEF EndRead
<1>7. CASE Read(t)
  <2>1. ReadStep(t) \/ HaltStep(t) \/ ReadErrorStep(t) BY <1>2, <1>7, ReadMoves
  <2>2. /\ Full \in 0..InBufSize /\ (Full # InBufSize => p.readPos + Full = job.limit)
        /\ p.readWasFinished => Full # InBufSize
    BY <1>2, FullFacts, <1>4, <1>3 DEF Full
  <2>3. CASE ReadStep(t) \/ HaltStep(t)
    <3>1. /\ p'.readPos = p.readPos + Full /\ job'.limit = job.limit
          /\ p'.readWasFinished = (p.readWasFinished \/ Full # InBufSize)
      BY <2>3 DEF ReadStep, HaltStep, LinkStep
    <3> QED BY <2>2, <3>1 DEF EndRead
  <2>4. CASE ReadErrorStep(t)
    <3> DEFINE U == th'[t]
               T == th[t]
               k == T.loc.link + 1
    <3>1. /\ p'.cross = p.cross /\ (T.loc.link = 0 => p.cross = <<>>)
          /\ p'.readPos = p.readPos /\ job'.limit - p.readPos < InBufSize
          /\ U.pc = "fill" /\ U.inBuf = PutLink(T.inBuf, k, <<>>)
          /\ U.loc = [T.loc EXCEPT !.finish = TRUE]
      BY <2>4 DEF ReadErrorStep
    <3>2. T \in ThreadRecs BY <1>2 DEF Typed
    <3>3. T.loc \in Locals /\ T.inBuf \in Seq(Seq(Nat)) /\ T.loc.link <= Len(T.inBuf)
      BY <1>1, <1>2, <3>2 DEF ThreadRecs, Bounds
    <3>4. U.loc.link = T.loc.link /\ T.loc.link \in Nat BY <3>1, <3>3 DEF Locals
    <3>5. Len(T.inBuf) \in Nat /\ \E data \in Seq(Nat) : data = <<>>
      <4>1. Len(T.inBuf) \in Nat BY <3>3
      <4>2. <<>> \in Seq(Nat) OBVIOUS
      <4>3. \E data \in Seq(Nat) : data = <<>> BY <4>2, Zenon
      <4> QED BY <4>1, <4>3
    <3>6. k \in 1..Len(T.inBuf) + 1 BY <3>3, <3>4, <3>5
    <3> HIDE DEF k
    <3>7. PICK data \in Seq(Nat) : U.inBuf = PutLink(T.inBuf, k, data) BY <3>1, <3>5
    <3>8. PutLink(T.inBuf, k, data) \in Seq(Seq(Nat)) /\ Len(PutLink(T.inBuf, k, data)) >= k
      BY <3>3, <3>6, PutLinkFacts
    <3>9. U.loc.link < Len(U.inBuf) BY <3>4, <3>7, <3>8 DEF k
    <3>10. TakesRest(t)' BY <3>1, <3>4, <3>9 DEF TakesRest
    <3> QED BY <3>1, <3>10 DEF EndRead
  <2> QED BY <2>1, <2>3, <2>4
<1> QED BY <1>5, <1>6, <1>7

LEMMA EndReadKept ==
    ASSUME Inv, EndRead, [Next]_vars
    PROVE  EndRead'
<1>1. Typed /\ AfterRing BY DEF Inv
<1>2. job \in JobRecs /\ p \in MtDecRecs /\ th \in [Threads -> ThreadRecs] BY <1>1 DEF Typed
<1>3. ASSUME \A t \in Threads : th[t].pc # "fill",
             p'.readWasFinished = p.readWasFinished, p'.readPos = p.readPos,
             job'.limit = job.limit
      PROVE  EndRead'
  BY <1>3 DEF EndRead, TakesRest
<1>4. job.pc \notin {"mt"} \/ Ended => \A t \in Threads : th[t].pc # "fill"
  <2>1. CASE Ended BY <1>1, <2>1 DEF AfterRing, Idle
  <2>2. CASE job.pc # "mt" BY <1>1, <1>2, <2>2 DEF AfterRing, Idle, JobRecs
  <2> QED BY <2>1, <2>2
<1>5. ASSUME NEW t \in Threads, Thread(t) PROVE EndRead'
  BY <1>5, OthersRead, RestStays, ReadersRest DEF Thread
<1>6. ASSUME NEW blocks \in Inputs,
             NEW limit \in 0..End(blocks, Len(blocks)) + Extra, CallCode(blocks, limit)
      PROVE  EndRead'
  BY <1>1, <1>6, CallMoves DEF CallStep, EndRead
<1>7. CASE Caller
  <2>1. CASE Joined
    BY <2>1, <1>1, JoinedMoves, <1>3, <1>4 DEF Joined, Ended, InMt, JoinedStep, JobMoves
  <2>2. CASE PrepareRead
    BY <1>1, <1>3, <1>4, <2>2, PrepareMoves
       DEF PrepareStep, PreparesST, NoMemoryST, JobMoves, SameInput
  <2>3. CASE MtRead BY <2>3, <1>2, <1>3, <1>4 DEF MtRead, JobRecs, MtDecRecs
  <2>4. CASE MtReadCross BY <1>2, <2>4, <1>3, <1>4 DEF MtReadCross, JobRecs, MtDecRecs
  <2>5. CASE StBlock
    <3>1. /\ job.pc = "st" /\ p' = p
          /\ \/ \E emitted, data : job' = [job EXCEPT !.emitted = emitted, !.data = data]
             \/ job' = Return("data")
      BY <2>5, Zenon DEF StBlock
    <3>2. job'.limit = job.limit BY <1>2, <3>1 DEF Return, JobRecs
    <3> QED BY <1>3, <1>4, <3>1, <3>2
  <2>6. CASE StRead
    <3>1. p'.readPos = job'.limit BY <1>2, <2>6 DEF StRead, JobRecs, MtDecRecs
    <3> QED BY <3>1 DEF EndRead
  <2>7. CASE StEnd BY <1>2, <1>3, <1>4, <2>7 DEF StEnd, Return, JobRecs
  <2>8. CASE CloseThread BY <1>2, <1>3, <1>4, <2>8 DEF CloseThread, JobRecs
  <2>9. CASE StStops
    <3>1. /\ job.pc = "st" /\ p' = p /\ th' = th
          /\ \E f, hit : job' = [Return(f) EXCEPT !.hit = hit]
      BY <2>9, Zenon DEF StStops
    <3>2. job'.limit = job.limit BY <1>2, <3>1 DEF Return, JobRecs
    <3> QED BY <1>3, <1>4, <3>1, <3>2
  <2> QED BY <1>7, <2>1, <2>2, <2>3, <2>4, <2>5, <2>6, <2>7, <2>8, <2>9 DEF Caller
<1>8. CASE Destruct BY <1>2, <1>3, <1>4, <1>8 DEF Destruct, MtDecRecs, JobRecs
<1>9. CASE UNCHANGED vars BY <1>9, RestStays DEF vars, SameInput, ReadersStay
<1> QED BY <1>5, <1>6, <1>7, <1>8, <1>9 DEF Next, Destroyed

-----------------------------------------------------------------------------
(* The promise of DecodeJob.                                               *)

(* The blocks that can be decoded are the first ones of the input.         *)
LEMMA ReachType ==
    ASSUME NEW blocks, Len(blocks) \in Nat, NEW limit
    PROVE  Reach(blocks, limit) \in Nat /\ Reach(blocks, limit) <= Len(blocks)
<1> DEFINE whole == {b \in 1..Len(blocks) : End(blocks, b) <= limit}
           good == {b \in whole : \A c \in 1..b : blocks[c].kind \in {"ok", "big"}}
<1>1. Reach(blocks, limit) = Cardinality(good) BY DEF Reach
<1>2. good \in SUBSET (1..Len(blocks)) OBVIOUS
<1> HIDE DEF good
<1>3. IsFiniteSet(1..Len(blocks)) /\ Cardinality(1..Len(blocks)) = Len(blocks)
  BY FS_Interval, SMTT(30)
<1>4. IsFiniteSet(good) /\ Cardinality(good) <= Cardinality(1..Len(blocks))
  BY <1>2, <1>3, FS_Subset
<1>5. Cardinality(good) \in Nat BY <1>4, FS_CardinalityType
<1> QED BY <1>1, <1>3, <1>4, <1>5

(* An input that ends earlier has no more of them.                         *)
LEMMA ReachShrinks ==
    ASSUME job.blocks \in Inputs, NEW limit \in Nat, NEW less \in Nat, less <= limit
    PROVE  Reach(job.blocks, less) <= Reach(job.blocks, limit)
<1> DEFINE good(z) == {b \in {b \in 1..LastBlock : BlockEnd(b) <= z} :
                          \A c \in 1..b : Kind(c) \in {"ok", "big"}}
<1>1. ASSUME NEW z PROVE Reach(job.blocks, z) = Cardinality(good(z))
  BY DEF Reach, LastBlock, BlockEnd, Kind
<1>2. LastBlock \in Nat /\ \A b \in 0..LastBlock : BlockEnd(b) \in Nat BY BlockFacts
<1>3. \A b \in 1..LastBlock : BlockEnd(b) <= less => BlockEnd(b) <= limit BY <1>2
<1>4. good(less) \in SUBSET good(limit) /\ good(limit) \in SUBSET (1..LastBlock) BY <1>3
<1> HIDE DEF good
<1>5. IsFiniteSet(1..LastBlock) BY <1>2, FS_Interval
<1>6. IsFiniteSet(good(limit)) BY <1>4, <1>5, FS_Subset
<1>7. Cardinality(good(less)) <= Cardinality(good(limit)) BY <1>4, <1>6, FS_Subset
<1> QED BY <1>1, <1>7

(* If the first n blocks are there and can be decoded, so far it reaches.  *)
LEMMA ReachAtLeast ==
    ASSUME job.blocks \in Inputs, NEW limit \in Nat, NEW n \in 0..LastBlock,
           BlockEnd(n) <= limit, \A b \in 1..n : Kind(b) \in {"ok", "big"}
    PROVE  n <= Reach(job.blocks, limit)
<1> DEFINE good == {b \in {b \in 1..LastBlock : BlockEnd(b) <= limit} :
                          \A c \in 1..b : Kind(c) \in {"ok", "big"}}
<1>1. Reach(job.blocks, limit) = Cardinality(good) BY DEF Reach, LastBlock, BlockEnd, Kind
<1>2. LastBlock \in Nat /\ \A b \in 0..LastBlock : BlockEnd(b) \in Nat BY BlockFacts
<1>3. ASSUME NEW b \in 1..n PROVE b \in good BY <1>2, EndsIncrease
<1>4. 1..n \in SUBSET good /\ good \in SUBSET (1..LastBlock) BY <1>3
<1> HIDE DEF good
<1>5. IsFiniteSet(1..LastBlock) BY <1>2, FS_Interval
<1>8. n \in Nat BY <1>2
<1>9. Cardinality(1..n) = n BY <1>8, FS_Interval
<1>6. IsFiniteSet(good) BY <1>4, <1>5, FS_Subset
<1>7. Cardinality(1..n) <= Cardinality(good) BY <1>4, <1>6, FS_Subset
<1> QED BY <1>1, <1>9, <1>7

(* It does not reach over a block that cannot be decoded.                  *)
LEMMA ReachAtMost ==
    ASSUME job.blocks \in Inputs, NEW limit \in Nat, NEW n \in 0..LastBlock,
           \/ n = LastBlock
           \/ BlockEnd(n + 1) > limit
           \/ Kind(n + 1) \in {"bad", "junk"}
    PROVE  Reach(job.blocks, limit) <= n
<1> DEFINE good == {b \in {b \in 1..LastBlock : BlockEnd(b) <= limit} :
                          \A c \in 1..b : Kind(c) \in {"ok", "big"}}
<1>1. Reach(job.blocks, limit) = Cardinality(good) BY DEF Reach, LastBlock, BlockEnd, Kind
<1>2. LastBlock \in Nat /\ \A b \in 0..LastBlock : BlockEnd(b) \in Nat BY BlockFacts
<1>3. ASSUME NEW b \in good PROVE b \in 1..n BY <1>2, EndsIncrease
<1>4. good \in SUBSET (1..n) BY <1>3
<1> HIDE DEF good
<1>5. IsFiniteSet(1..n) /\ Cardinality(1..n) = n BY <1>2, FS_Interval
<1>6. Cardinality(good) <= Cardinality(1..n) BY <1>4, <1>5, FS_Subset
<1> QED BY <1>1, <1>5, <1>6

(* What has been written can be decoded; and it is all when it is complete. *)
LEMMA WrittenReach ==
    ASSUME Inv, job.pc \notin {"idle", "free"}
    PROVE  /\ Written \in 0..LastBlock /\ LastBlock \in Nat
           /\ Reach(job.blocks, job.limit) \in Nat
           /\ Reach(job.blocks, job.limit) <= LastBlock
           /\ Written <= Reach(job.blocks, job.limit)
           /\ Complete => Reach(job.blocks, job.limit) = Written
<1>1. /\ Typed /\ Bounds /\ Hits_Known BY DEF Inv
<1>2. /\ job.blocks \in Inputs /\ InOrder /\ Written \in 0..LastBlock /\ LastBlock \in Nat \ {0}
      /\ BlockEnd(Written) \in Nat
  BY <1>1, Place
<1>3. job.limit \in Nat /\ p.readPos \in Nat /\ p.readPos <= job.limit
  BY <1>1 DEF Typed, JobRecs, MtDecRecs, Bounds
<1>4. BlockEnd(Written) <= job.limit BY <1>2, <1>3 DEF InOrder
<1>5. \A b \in 1..Written : Kind(b) \in {"ok", "big"} BY <1>2 DEF InOrder
<1>6. Written <= Reach(job.blocks, job.limit) BY <1>2, <1>3, <1>4, <1>5, ReachAtLeast
<1>7. Reach(job.blocks, job.limit) \in Nat /\ Reach(job.blocks, job.limit) <= LastBlock
  BY <1>2, ReachType DEF LastBlock
<1>8. ASSUME Complete PROVE Reach(job.blocks, job.limit) <= Written
  BY <1>2, <1>3, <1>8, ReachAtMost DEF Complete
<1> QED BY <1>2, <1>6, <1>7, <1>8

(* How the steps look to the one who has called. *)
SameJob == /\ (Busy <=> Busy') /\ (Alone <=> Alone') /\ job'.blocks = job.blocks
           /\ job'.emitted = job.emitted /\ job'.res = job.res
SameRead == "read" \in job'.hit <=> "read" \in job.hit

LEMMA HitsOnly ==
    ASSUME SameJob, SameRead, job'.limit = job.limit, job.hit \subseteq job'.hit,
           Busy \/ job'.hit = job.hit
    PROVE  Job!Next \/ UNCHANGED Job!jobVars
<1>1. (Busy' = Busy) /\ (Alone' = Alone) BY DEF SameJob, Busy, Alone
<1>2. (("read" \in job.hit)' = ("read" \in job.hit)) BY DEF SameRead
<1>3. Reach(job.blocks, job.limit)' = Reach(job.blocks, job.limit) BY DEF SameJob, Reach
<1>4. CASE Halted' <=> Halted
  <2>1. Halted' = Halted BY <1>4 DEF Halted
  <2> QED BY <1>1, <1>2, <1>3, <2>1 DEF SameJob, Job!jobVars
<1>5. CASE ~(Halted' <=> Halted)
  <2>1. ~Halted /\ Halted' /\ Busy BY <1>5 DEF Halted
  <2> QED BY <1>1, <1>2, <1>3, <2>1 DEF SameJob, Job!Stop, Job!Next
<1> QED BY <1>4, <1>5

LEMMA ReadFailing ==
    ASSUME Inv, Busy, SameJob, job'.limit \in p.readPos..job.limit,
           job'.hit = job.hit \cup {"read"}, "read" \notin job.hit
    PROVE  Job!ReadFails
<1>1. /\ Typed /\ Bounds /\ Hits_Known /\ job.pc \notin {"idle", "free"} BY DEF Inv, Busy
<1>2. /\ job.blocks \in Inputs /\ InOrder /\ Written \in 0..LastBlock /\ LastBlock \in Nat \ {0}
      /\ \A b \in 0..LastBlock : BlockEnd(b) \in Nat
  BY <1>1, Place
<1>3. /\ job.limit \in Nat /\ p.readPos \in Nat /\ job'.limit \in Nat
      /\ job'.limit <= job.limit /\ p.readPos <= job'.limit
  BY <1>1 DEF Typed, JobRecs, MtDecRecs
<1> DEFINE r == Reach(job.blocks, job.limit)
           q == Reach(job.blocks, job'.limit)
<1>4. /\ r \in Nat /\ q \in Nat /\ r <= LastBlock BY <1>2, ReachType DEF LastBlock
<1>5. q <= r BY <1>2, <1>3, ReachShrinks
<1>6. Written <= q BY <1>2, <1>3, ReachAtLeast DEF InOrder
<1>7. Reach(job.blocks, job.limit)' = q /\ Len(job.blocks)' = LastBlock /\ Len(job.blocks) = LastBlock
  BY DEF SameJob, LastBlock, Reach
<1>8. q \in Len(job.emitted)..r BY <1>2, <1>4, <1>5, <1>6 DEF Written
<1>9. (q = LastBlock) \in {r = LastBlock, FALSE}
  <2> HIDE DEF q, r
  <2>1. q = LastBlock => r = LastBlock BY <1>2, <1>4, <1>5
  <2> QED BY <2>1
<1>10. Busy' /\ "read" \in job'.hit /\ Halted' = Halted BY DEF SameJob, Busy, Halted
<1>11. Busy' = Busy /\ Alone' = Alone BY <1>10 DEF Busy, SameJob, Alone
<1> HIDE DEF q, r
<1>12. /\ Reach(job.blocks, job.limit)' \in Len(job.emitted)..Reach(job.blocks, job.limit)
       /\ (Reach(job.blocks, job.limit) = Len(job.blocks))'
             \in {Reach(job.blocks, job.limit) = Len(job.blocks), FALSE}
  BY <1>7, <1>8, <1>9 DEF r
<1> QED BY <1>10, <1>11, <1>12 DEF Job!ReadFails, SameJob

LEMMA Returning ==
    ASSUME Inv, Busy, ~Busy', job'.blocks = job.blocks, job'.limit = job.limit,
           job'.emitted = job.emitted, job.hit \subseteq job'.hit, SameRead,
           Halted' \/ Complete,
           job'.res = "ok" => "read" \notin job.hit /\ (Alone => Written = LastBlock),
           job'.res # "ok" => "read" \in job.hit \/ Halted' \/ Written # LastBlock
    PROVE  Job!Return
<1>1. Busy /\ ~Busy' /\ ~Alone' BY DEF Busy, Alone
<1>2. Halted => Halted' BY DEF Halted
<1>3. /\ Written \in 0..LastBlock /\ LastBlock \in Nat
      /\ Reach(job.blocks, job.limit) \in Nat
      /\ Reach(job.blocks, job.limit) <= LastBlock
      /\ Written <= Reach(job.blocks, job.limit)
      /\ Complete => Reach(job.blocks, job.limit) = Written
  BY WrittenReach DEF Busy
<1>4. Reach(job.blocks, job.limit)' = Reach(job.blocks, job.limit) BY DEF Reach
<1>5. (("read" \in job.hit)' = ("read" \in job.hit)) BY DEF SameRead
<1>6. Written = Len(job.emitted) /\ LastBlock = Len(job.blocks) BY DEF Written, LastBlock
<1>7. Halted' \/ Len(job.emitted) = Reach(job.blocks, job.limit) BY <1>3, <1>6
<1>8. job'.res = "ok" =>
          /\ "read" \notin job.hit
          /\ (Alone => Reach(job.blocks, job.limit) = Len(job.blocks))
  BY <1>3, <1>6
<1>9. job'.res # "ok" => \/ "read" \in job.hit \/ Halted'
                         \/ Reach(job.blocks, job.limit) # Len(job.blocks)
  BY <1>3, <1>6
<1>10. (Reach(job.blocks, job.limit) = Len(job.blocks))'
          = (Reach(job.blocks, job.limit) = Len(job.blocks))
  BY <1>4
<1> QED BY <1>1, <1>2, <1>4, <1>5, <1>7, <1>8, <1>9, <1>10 DEF Job!Return

LEMMA Emitting ==
    ASSUME Inv, Busy, (Busy <=> Busy'), (Alone <=> Alone'),
           job'.blocks = job.blocks, job'.limit = job.limit,
           job'.res = job.res, SameRead, ~Halted, ~Halted',
           job'.emitted = Append(job.emitted, Written + 1),
           Written < LastBlock, BlockEnd(Written + 1) <= p.readPos,
           Kind(Written + 1) \in {"ok", "big"}
    PROVE  Job!Emit
<1>1. /\ Typed /\ Bounds /\ Hits_Known /\ job.pc \notin {"idle", "free"} BY DEF Inv, Busy
<1>2. /\ job.blocks \in Inputs /\ InOrder /\ Written \in 0..LastBlock /\ LastBlock \in Nat \ {0}
      /\ \A b \in 0..LastBlock : BlockEnd(b) \in Nat
  BY <1>1, Place
<1>3. /\ job.limit \in Nat /\ p.readPos \in Nat /\ p.readPos <= job.limit
  BY <1>1 DEF Typed, JobRecs, MtDecRecs, Bounds
<1>4. Written + 1 \in 0..LastBlock BY <1>2
<1>5. BlockEnd(Written + 1) \in Nat BY <1>2, <1>4
<1>6. BlockEnd(Written + 1) <= job.limit BY <1>3, <1>5
<1>7. \A b \in 1..Written + 1 : Kind(b) \in {"ok", "big"} BY <1>2 DEF InOrder
<1>8. Written + 1 <= Reach(job.blocks, job.limit) BY <1>2, <1>3, <1>4, <1>6, <1>7, ReachAtLeast
<1>9. Reach(job.blocks, job.limit) \in Nat BY <1>2, ReachType DEF LastBlock
<1>10. Len(job.emitted) < Reach(job.blocks, job.limit) BY <1>2, <1>8, <1>9 DEF Written
<1>11. /\ Reach(job.blocks, job.limit)' = Reach(job.blocks, job.limit)
       /\ (Reach(job.blocks, job.limit) = Len(job.blocks))'
            = (Reach(job.blocks, job.limit) = Len(job.blocks))
  BY DEF Reach
<1>12. /\ (("read" \in job.hit)' = ("read" \in job.hit))
       /\ Busy' = Busy /\ Alone' = Alone
  BY DEF SameRead, Busy, Alone
<1>13. Halted' = Halted BY DEF Halted
<1> QED BY <1>10, <1>11, <1>12, <1>13 DEF Job!Emit, Halted, Written

(* What a thread does, other than writing or finding that a read fails.    *)
LEMMA ThreadHits ==
    ASSUME Typed, InMt, SameCall, job'.limit = job.limit,
           Progress \/ job'.hit = job.hit \/ \E f \in {"alloc", "mem", "create"} : Fails(f)
    PROVE  Job!Next \/ UNCHANGED Job!jobVars
  BY HitsOnly DEF Progress, Fails, SameRead, SameJob, SameCall, Busy, Alone, InMt

LEMMA ThreadOfJob ==
    ASSUME Inv, NEW t \in Threads, Thread(t)
    PROVE  Job!Next \/ UNCHANGED Job!jobVars
<1>1. Typed /\ Bounds /\ Hits_Known /\ FilledOK BY DEF Inv
<1>2. CASE ReadWait(t)
  <2>1. CASE p.exitThread BY <1>2, <2>1, HitsOnly DEF ReadWait, SameJob, SameRead, Busy, Alone
  <2>2. CASE ~p.exitThread
    BY <1>1, <1>2, <2>2, ReadWaitMoves, InRuns, ThreadHits DEF ReadWaitStep, InMt, SameInput
  <2> QED BY <2>1, <2>2
<1>3. CASE AllocFails(t) \/ FillFromCross(t) \/ Read(t)
  <2>1. th[t].pc = "fill" BY <1>3 DEF AllocFails, FillFromCross, Read
  <2>2. /\ LocalRules(t) /\ job.blocks \in Inputs /\ p.readPos <= job.limit /\ job.pc = "mt"
    BY <2>1, FillingFacts
  <2>3. InMt /\ Busy BY <2>2 DEF InMt, Busy
  <2>4. CASE AllocFails(t)
    BY <1>1, <2>3, <2>4, AllocMoves, ThreadHits DEF AllocStep, FillStep, SameInput
  <2>5. CASE FillFromCross(t)
    <3>1. CrossStep(t) BY <1>1, <2>2, <2>5, FromCross
    <3>2. SameCall /\ job'.limit = job.limit /\ Fails("alloc")
      BY <3>1 DEF CrossStep, LinkStep, FillStep
    <3> QED BY <1>1, <2>3, <3>2, ThreadHits
  <2>6. CASE Read(t)
    <3>1. ReadStep(t) \/ HaltStep(t) \/ ReadErrorStep(t) BY <1>1, <2>2, <2>6, ReadMoves
    <3>2. CASE ReadStep(t) BY <3>2, <1>1, <2>3, ThreadHits DEF ReadStep, LinkStep, FillStep
    <3>3. CASE HaltStep(t) BY <1>1, <2>3, <3>3, ThreadHits DEF HaltStep, FillStep
    <3>4. CASE ReadErrorStep(t)
      BY <3>4, <2>3, ReadFailing DEF ReadErrorStep, FillStep, SameCall, SameJob, Busy, Alone,
         Job!Next
    <3> QED BY <3>1, <3>2, <3>3, <3>4
  <2> QED BY <1>3, <2>4, <2>5, <2>6
<1>4. CASE Pass(t)
  <2>1. Reads(t) BY <1>4 DEF Pass, Reads
  <2>2. /\ InMt /\ t \in 0..Started - 1
        /\ \E w \in 0..Started - 1, k \in 0..Started, B \in 1..p.blockIndex : Turn(w, k, B)
    BY <2>1, InRuns DEF InMt
  <2>3. \A u \in Threads : u >= Started => Idle(u) BY <2>2, Zenon DEF Turn, Ring
  <2>4. t < Started BY <1>1, <2>2 DEF Typed, MtDecRecs, Started
  <2>5. PassBase(t) BY <1>1, <1>4, <2>3, <2>4, PassMoves DEF PassEnds, PassOn
  <2>6. SameCall /\ job'.limit = job.limit /\ \E f \in {"mem", "create"} : Fails(f)
    BY <2>5 DEF PassBase, SameInput
  <2> QED BY <1>1, <2>2, <2>6, ThreadHits
<1>5. CASE Code(t) \/ CodeUnprepared(t)
  <2>1. Works(t) BY <1>5 DEF Code, CodeUnprepared, Works
  <2>2. InMt BY <2>1, InRuns DEF InMt
  <2>3. CodeStep(t) \/ UnpreparedStep(t) BY <1>1, <1>5, CodeMoves, UnpreparedMoves
  <2>4. OnlyDecodes(t) /\ (job'.hit = job.hit \/ Progress) BY <2>3 DEF CodeStep, UnpreparedStep
  <2>5. SameCall /\ job'.limit = job.limit BY <2>4 DEF OnlyDecodes, SameInput
  <2> QED BY <1>1, <2>2, <2>4, <2>5, ThreadHits
<1>6. CASE Write(t)
  <2>1. Works(t) BY <1>6 DEF Write, Works
  <2>2. /\ t \in 0..Started - 1 /\ job.pc = "mt"
        /\ \E w \in 0..Started - 1, k \in 0..Started, B \in 1..p.blockIndex : Turn(w, k, B)
    BY <2>1, InRuns
  <2>3. PICK w \in 0..Started - 1, k \in 0..Started, B \in 1..p.blockIndex : Turn(w, k, B)
    BY <2>2
  <2>4. PICK pr \in {"ok", "progress"}, res \in {"ok", "progress", "write"} : WriteStep(t, pr, res)
    BY <1>1, <1>6, WriteMoves
  <2>5. Typed' BY <1>1, <1>6, WriteMoves
  <2>6. Writing(t, pr, res, w, k, B) BY <1>1, <2>2, <2>3, <2>4, <2>5 DEF Writing
  <2>7. /\ job.hit \subseteq job'.hit /\ job'.hit \subseteq job.hit \cup {"progress", "write"}
        /\ "progress" \in job'.hit <=> "progress" \in job.hit \/ pr # p.progressRes
        /\ "write" \in job'.hit <=> "write" \in job.hit \/ res = "write"
        /\ job'.pc = job.pc /\ job'.blocks = job.blocks /\ job'.res = job.res
        /\ job'.limit = job.limit
    BY <2>4 DEF WriteStep, WriteJob, SameInput
  <2>8. SameRead /\ Busy /\ (Busy <=> Busy') /\ (Alone <=> Alone')
    BY <2>2, <2>7 DEF SameRead, Busy, Alone
  <2>9. CASE ToStream(t, pr) /\ res = "ok" /\ WholeBlock(t)
    <3>1. /\ Fresh /\ Written + 1 \in 1..LastBlock
          /\ th[t].loc.block = Written + 1 /\ Kind(Written + 1) = "ok"
          /\ BlockEnd(Written + 1) <= p.readPos
      BY <2>6, <2>9, WriterEmits
    <3>2. job'.emitted = Append(job.emitted, Written + 1)
      BY <2>4, <2>9, <3>1 DEF WriteStep, WriteJob
    <3>3. th[t].loc.needCode
      <4>1. th[t].loc.codeRes = "ok"
        BY <2>6, <2>9, WriterEmits
      <4>2. Writable(t) /\ ~Stopped(t) /\ ~NoMemory(t) /\ ~NoThreads(t) /\ ~TooBig(t)
        BY <2>9 DEF ToStream, Writable
      <4>3. ~Stops(th[t].loc)
        BY <4>2 DEF Stops, Stopped, NoMemory, NoThreads, TooBig
      <4>4. PICK s \in Nat : Piece(t, Written + 1, s)
        BY <2>6, <3>1, WriterPiece
      <4>5. th[t].pc = "write"
        BY <2>6, WriterFacts
      <4> QED
        BY <2>1, <4>1, <4>3, <4>4, <4>5 DEF Piece
    <3>4. pr = "ok" /\ p.progressRes = "ok" /\ ~p.wasInterrupted
      BY <2>9, <3>1, <3>3 DEF ToStream, Before, Fresh
    <3>5. "progress" \notin job.hit /\ "write" \notin job.hit /\ "memST" \notin job.hit
      BY <1>1, <2>2, <3>4 DEF Hits_Known
    <3>6. ~Halted /\ ~Halted' BY <2>7, <2>9, <3>4, <3>5 DEF Halted
    <3>7. Written < LastBlock BY <1>1, <2>2, Place, <3>1
    <3>8. Job!Emit BY <2>7, <2>8, <3>1, <3>2, <3>6, <3>7, Emitting
    <3> QED BY <3>8 DEF Job!Next
  <2>10. CASE ~(ToStream(t, pr) /\ res = "ok" /\ WholeBlock(t))
    BY <2>4, <2>10, <2>7, <2>8, HitsOnly DEF WriteStep, WriteJob, SameJob
  <2> QED BY <2>9, <2>10
<1> QED BY <1>2, <1>3, <1>4, <1>5, <1>6 DEF Thread

(* The next block is there if its units are.                               *)
LEMMA BlockIsNext ==
    ASSUME Inv, job.pc = "st", Written < LastBlock,
           BlockEnd(Written + 1) < BlockStart(Written + 1) + Len(job.data),
           \A i \in 1..Len(job.data) :
              BlockStart(Written + 1) + i - 1 <= BlockEnd(Written + 1) =>
                 job.data[i] = BlockStart(Written + 1) + i - 1
    PROVE  HasNextBlock
<1>1. /\ Typed /\ Bounds /\ Hits_Known BY DEF Inv
<1>2. /\ job.blocks \in Inputs /\ Written \in 0..LastBlock /\ LastBlock \in Nat \ {0}
      /\ BlockEnd(Written) \in Nat /\ BlockStart(Written + 1) = BlockEnd(Written) + 1
      /\ \A b \in 0..LastBlock : BlockEnd(b) \in Nat
  BY <1>1, Place
<1>3. PICK n \in Nat : n = Written BY <1>2
<1>4. n + 1 \in 1..LastBlock /\ n + 1 \in 0..LastBlock /\ (n + 1) - 1 = n /\ n \in 0..LastBlock
  BY <1>2, <1>3
<1>5. BlockEnd(n) < BlockEnd(n + 1) /\ BlockEnd(n + 1) \in Nat /\ BlockEnd(n) \in Nat
  BY <1>2, <1>4, BlockFacts
<1>6. PICK s \in Nat, e \in Nat : s = BlockStart(n + 1) /\ e = BlockEnd(n + 1)
  BY <1>2, <1>3, <1>5
<1>7. s = BlockEnd(n) + 1 /\ s <= e BY <1>2, <1>3, <1>5, <1>6
<1>8. /\ e < s + Len(job.data)
      /\ \A i \in 1..Len(job.data) : s + i - 1 <= e => job.data[i] = s + i - 1
  BY <1>3, <1>6
<1>9. job.data \in Seq(Nat) BY <1>1 DEF Typed, JobRecs
<1>10. Len(job.data) \in Nat BY <1>9
<1>11. 1 \in 1..Len(job.data) /\ s + 1 - 1 <= e /\ s + 1 - 1 = s BY <1>7, <1>8, <1>10
<1>12. job.data[1] = s /\ job.data # <<>> BY <1>8, <1>11, <1>9, EmptySeq
<1>13. BlockOf(s) = n + 1 BY <1>2, <1>3, <1>5, <1>6, <1>7, <1>4, UnitInBlock
<1>14. NextBlock = n + 1 /\ n + 1 # 0 BY <1>4, <1>12, <1>13 DEF NextBlock
<1>15. IsPrefix(Units(s, e), job.data) BY <1>8, <1>9, RunIsPrefix
<1> QED BY <1>6, <1>14, <1>15 DEF HasNextBlock

LEMMA NothingLeft ==
    ASSUME Inv, EndRead, job.pc = "st", ~HasNextBlock, AllDecoded \/ p.readWasFinished
    PROVE  Complete
<1>1. /\ Typed /\ Bounds /\ Hits_Known /\ AfterRing /\ Single /\ p.cross = <<>>
  BY DEF Inv, AfterTurn, Bounds
<1>2. /\ job.blocks \in Inputs /\ Written \in 0..LastBlock /\ LastBlock \in Nat \ {0}
      /\ BlockEnd(Written) \in Nat /\ BlockStart(Written + 1) = BlockEnd(Written) + 1
      /\ \A b \in 0..LastBlock : BlockEnd(b) \in Nat
  BY <1>1, Place
<1> SUFFICES ASSUME Written < LastBlock, ~(BlockEnd(Written + 1) > job.limit) PROVE FALSE
  BY <1>2 DEF Complete
<1>3. Written + 1 \in 1..LastBlock /\ Written + 1 \in 0..LastBlock BY <1>2
<1>4. BlockEnd(Written + 1) \in Nat BY <1>2, <1>3
<1>5. p.readWasFinished BY <1>2 DEF AllDecoded, Written, LastBlock
<1>6. \A t \in Threads : th[t].pc # "fill" BY <1>1 DEF AfterRing, Idle
<1>7. p.readPos = job.limit BY <1>5, <1>6 DEF EndRead, TakesRest
<1>8. p.readPos \in Nat /\ BlockEnd(Written + 1) <= p.readPos /\ job.data \in Seq(Nat)
  BY <1>1, <1>4, <1>7 DEF Typed, MtDecRecs, JobRecs
<1>9. PICK s \in Nat, e \in Nat, n \in Nat :
         s = BlockStart(Written + 1) /\ e = BlockEnd(Written + 1) /\ n = Len(job.data)
  BY <1>2, <1>4, <1>8
<1>10. CASE Holds(job.data, s) /\ Continues(s + n)
  BY <1>10, <1>1, <1>8, <1>9, BlockIsNext DEF Continues, Holds
<1>11. CASE \E b \in 1..LastBlock :
                /\ Written < b \/ b = LastBlock
                /\ s + n > BlockEnd(b)
                /\ \A i \in 1..Len(job.data) :
                      s + i - 1 <= BlockEnd(b) => job.data[i] = s + i - 1
  <2>1. PICK b \in 1..LastBlock :
                /\ Written < b \/ b = LastBlock
                /\ s + n > BlockEnd(b)
                /\ \A i \in 1..Len(job.data) :
                      s + i - 1 <= BlockEnd(b) => job.data[i] = s + i - 1
    BY <1>11
  <2>2. Written + 1 \in 0..LastBlock /\ b \in (Written + 1)..LastBlock /\ b \in 0..LastBlock
    BY <1>2, <1>3, <2>1
  <2>3. e <= BlockEnd(b) /\ BlockEnd(b) \in Nat BY <1>2, <1>9, <2>2, EndsIncrease
  <2>4. e < s + n BY <2>1, <2>3
  <2>5. \A i \in 1..Len(job.data) : s + i - 1 <= e => job.data[i] = s + i - 1 BY <2>3, <2>1
  <2> QED BY <1>9, <2>4, <2>5, BlockIsNext
<1>12. \/ Holds(job.data, s) /\ Continues(s + n)
       \/ \E b \in 1..LastBlock :
                /\ Written < b \/ b = LastBlock
                /\ s + n > BlockEnd(b)
                /\ \A i \in 1..Len(job.data) :
                      s + i - 1 <= BlockEnd(b) => job.data[i] = s + i - 1
  BY <1>1, <1>9 DEF Single
<1> QED BY <1>10, <1>11, <1>12

(* What the caller's thread does without the others.                       *)
LEMMA CallerOfJob ==
    ASSUME Inv, EndRead, Caller
    PROVE  Job!Next \/ UNCHANGED Job!jobVars
<1>1. Typed /\ Bounds /\ Hits_Known /\ AfterTurn /\ AfterRing BY DEF Inv
<1>2. /\ job \in JobRecs /\ p \in MtDecRecs
      /\ p.progressRes \in {"ok", "progress"} /\ p.readRes \in {"ok", "read"}
  BY <1>1 DEF Typed, MtDecRecs
<1>3. CASE Joined
  <2>1. JoinedStep BY <1>1, <1>3, JoinedMoves
  <2>2. InMt /\ Busy /\ Ended BY <2>1 DEF JoinedStep, InMt, Ended, Busy
  <2>3. /\ job'.blocks = job.blocks /\ job'.limit = job.limit /\ job'.hit = job.hit
        /\ job'.emitted = job.emitted
    BY <2>1 DEF JoinedStep, JobMoves
  <2>4. SameRead /\ (Halted' <=> Halted) BY <2>3 DEF SameRead, Halted
  <2>5. /\ "progress" \in job.hit <=> p.progressRes # "ok"
        /\ "read" \in job.hit <=> p.readRes # "ok"
    BY <1>1, <2>2 DEF Hits_Known, InMt
  <2>6. CASE p.progressRes = "ok" /\ GoesOnSingle /\ JobMoves("prepare", job.res)
    <3>1. Busy' /\ ~Alone /\ Alone' /\ job'.res = job.res
      BY <2>2, <2>6 DEF JobMoves, Busy, InMt, Alone
    <3>2. Busy' = Busy /\ Halted' = Halted BY <2>2, <2>3, <3>1 DEF Busy, Halted
    <3>3. Reach(job.blocks, job.limit)' = Reach(job.blocks, job.limit) BY <2>3 DEF Reach
    <3>4. Job!GoOnAlone BY <2>2, <2>3, <3>1, <3>2, <3>3 DEF Job!GoOnAlone
    <3> QED BY <3>4 DEF Job!Next
  <2>7. CASE p.progressRes # "ok" /\ JobMoves("idle", p.progressRes)
    BY <2>7, <2>4, <2>5, <2>2, <2>3, Returning DEF JobMoves, Busy, Halted, Job!Next
  <2>8. CASE p.progressRes = "ok" /\ ~GoesOnSingle /\ JobMoves("idle", p.readRes)
    <3>1. ~Alone BY <2>2 DEF InMt, Alone
    <3> QED
      BY <3>1, <2>8, <1>1, <2>2, <2>4, <2>3, <2>5, Returning DEF JobMoves, Busy, AfterTurn,
         Halted, Job!Next
  <2> QED BY <2>1, <2>6, <2>7, <2>8 DEF JoinedStep
<1>4. CASE PrepareRead
  <2>1. job.pc = "prepare" /\ (PreparesST \/ NoMemoryST) /\ Busy /\ Alone
    BY <1>1, <1>4, PrepareMoves DEF PrepareStep, Busy, Alone
  <2>2. CASE PreparesST
    BY <2>1, <2>2, HitsOnly DEF PreparesST, JobMoves, SameJob, SameRead, Busy, Alone
  <2>3. CASE NoMemoryST
    <3>1. ~Busy' /\ Halted' /\ SameRead /\ job.hit \subseteq job'.hit /\ job'.res # "ok"
      BY <2>3 DEF NoMemoryST, Busy, Halted, SameRead
    <3>2. job'.blocks = job.blocks /\ job'.limit = job.limit /\ job'.emitted = job.emitted
      BY <2>3 DEF NoMemoryST
    <3>3. Job!Return BY <2>1, <3>1, <3>2, Returning
    <3> QED BY <3>3 DEF Job!Next
  <2> QED BY <2>1, <2>2, <2>3
<1>5. CASE MtRead \/ MtReadCross
  <2>1. /\ job.pc = "mtRead" /\ job'.pc \in {"mtRead", "st"} /\ job'.blocks = job.blocks
        /\ job'.limit = job.limit /\ job'.hit = job.hit /\ job'.emitted = job.emitted
        /\ job'.res = job.res
    <3>1. CASE MtRead BY <3>1, <1>2 DEF MtRead, JobRecs
    <3>2. CASE MtReadCross BY <1>2, <3>2 DEF MtReadCross, JobRecs
    <3> QED BY <1>5, <3>1, <3>2
  <2> QED BY <2>1, HitsOnly DEF SameJob, SameRead, Busy, Alone
<1>6. ASSUME job.pc = "st" PROVE Busy /\ ~Halted /\ ("read" \in job.hit <=> p.readRes # "ok")
  BY <1>1, <1>6 DEF Busy, Halted, Hits_Known
<1>7. CASE StBlock
  <2>1. /\ job.pc = "st" /\ HasNextBlock
        /\ \/ Kind(NextBlock) \in {"bad", "junk"} /\ job' = Return("data")
           \/ /\ Kind(NextBlock) \in {"ok", "big"}
              /\ job' = [job EXCEPT !.emitted = Append(@, NextBlock),
                           !.data = SubSeq(@, BlockSize(NextBlock) + 1, Len(@))]
    BY <1>7, Zenon DEF StBlock
  <2>2. Single BY <1>1, <2>1 DEF AfterTurn
  <2>3. /\ NextBlock = Written + 1 /\ Written < LastBlock
        /\ BlockEnd(Written + 1) <= p.readPos
    BY <1>1, <2>1, <2>2, NextIsNext
  <2>4. Busy /\ ~Halted BY <1>6, <2>1
  <2>5. CASE Kind(NextBlock) \in {"bad", "junk"} /\ job' = Return("data")
    BY <1>2, <2>5, <2>3, <1>1, <2>1, Place, <2>4, Returning DEF Return, JobRecs, Busy, SameRead,
       Complete, Job!Next
  <2>6. CASE /\ Kind(NextBlock) \in {"ok", "big"}
             /\ job' = [job EXCEPT !.emitted = Append(@, NextBlock),
                           !.data = SubSeq(@, BlockSize(NextBlock) + 1, Len(@))]
    BY <1>2, <2>1, <2>6, <2>4, <2>3, Emitting
       DEF JobRecs, Busy, Alone, SameRead, Halted, Job!Next
  <2> QED BY <2>1, <2>5, <2>6
<1>11. CASE StStops
  <2>1. PICK fault \in {"write", "progress"} :
           job' = [Return(fault) EXCEPT !.hit = @ \cup {fault}]
    BY <1>11, Zenon DEF StStops
  <2>2. Busy BY <1>6, <1>11 DEF StStops
  <2>3. /\ job'.pc = "idle" /\ job'.res = fault /\ job'.hit = job.hit \cup {fault}
        /\ job'.blocks = job.blocks /\ job'.limit = job.limit /\ job'.emitted = job.emitted
    BY <1>2, <2>1 DEF Return, JobRecs
  <2>4. ~Busy' /\ Halted' /\ SameRead /\ job.hit \subseteq job'.hit /\ job'.res # "ok"
    BY <2>1, <2>3 DEF Busy, Halted, SameRead
  <2>5. Job!Return BY <2>2, <2>3, <2>4, Returning
  <2> QED BY <2>5 DEF Job!Next
<1>8. CASE StRead
  <2>1. job.pc = "st" /\ Busy BY <1>6, <1>8 DEF StRead
  <2>2. CASE job' = [job EXCEPT !.data = @ \o Units(p.readPos + 1, job.limit)]
    BY <1>2, <2>2, HitsOnly DEF JobRecs, SameJob, SameRead, Busy, Alone
  <2>3. ASSUME CanFail("read"), NEW end \in p.readPos..job.limit,
               job' = [job EXCEPT !.data = @ \o Units(p.readPos + 1, end),
                                  !.limit = end, !.hit = @ \cup {"read"}]
        PROVE  Job!Next
    BY <1>2, <2>3, <2>1, ReadFailing DEF JobRecs, SameJob, Busy, Alone, CanFail, Job!Next
  <2> QED BY <1>8, <2>2, <2>3, Zenon DEF StRead
<1>9. CASE StEnd
  <2> DEFINE r == IF p.readRes # "ok" \/ AllDecoded THEN p.readRes ELSE "eof"
  <2>1. /\ job.pc = "st" /\ ~HasNextBlock /\ (AllDecoded \/ p.readWasFinished)
        /\ job' = Return(r)
    BY <1>9 DEF StEnd
  <2>2. Complete BY <2>1, NothingLeft
  <2>3. Busy /\ ("read" \in job.hit <=> p.readRes # "ok") BY <1>6, <2>1
  <2>4. AllDecoded <=> Written = LastBlock BY DEF AllDecoded, Written, LastBlock
  <2>5. /\ job'.pc = "idle" /\ job'.res = r /\ job'.blocks = job.blocks
        /\ job'.limit = job.limit /\ job'.hit = job.hit /\ job'.emitted = job.emitted
    BY <1>2, <2>1 DEF Return, JobRecs
  <2>6. ~Busy' /\ SameRead BY <2>5 DEF Busy, SameRead
  <2>7. r = "ok" => "read" \notin job.hit /\ Written = LastBlock BY <2>3, <2>4
  <2>8. r # "ok" => "read" \in job.hit \/ Written # LastBlock BY <2>3, <2>4
  <2> HIDE DEF r
  <2>9. Job!Return BY <2>2, <2>3, <2>5, <2>6, <2>7, <2>8, Returning
  <2> QED BY <2>9 DEF Job!Next
<1>10. CASE CloseThread
  BY <1>2, <1>10, HitsOnly DEF CloseThread, JobRecs, SameJob, SameRead, Busy, Alone
<1> QED BY <1>3, <1>4, <1>5, <1>7, <1>8, <1>9, <1>10, <1>11 DEF Caller

LEMMA InitOfJob == Init => Job!Init
  BY ReachType DEF Init, Job!Init, Busy, Halted, Alone

LEMMA StepOfJob ==
    ASSUME Inv, EndRead, [Next]_vars
    PROVE  Job!Next \/ UNCHANGED Job!jobVars
<1>1. Typed /\ job \in JobRecs BY DEF Inv, Typed
<1>2. ASSUME NEW t \in Threads, Thread(t) PROVE Job!Next \/ UNCHANGED Job!jobVars
  BY <1>2, ThreadOfJob
<1>3. ASSUME NEW blocks \in Inputs,
             NEW limit \in 0..End(blocks, Len(blocks)) + Extra, CallCode(blocks, limit)
      PROVE  Job!Next \/ UNCHANGED Job!jobVars
  <2>1. /\ job.pc = "idle" /\ job'.pc = "mt" /\ job'.blocks = blocks /\ job'.limit = limit
        /\ job'.emitted = <<>> /\ job'.hit = {} /\ job'.res = "ok"
    BY <1>1, <1>3 DEF CallCode, JobRecs
  <2>2. Len(blocks) \in Nat BY MtDecAssumption DEF MtDecAssumption
  <2>3. Reach(blocks, limit) \in Nat BY <2>2, ReachType
  <2>4. Reach(job.blocks, job.limit)' = Reach(blocks, limit) BY <2>1 DEF Reach
  <2>5. ~Busy /\ Busy' /\ ~Alone' /\ ~Halted' BY <2>1 DEF Busy, Alone, Halted
  <2>6. Job!Start BY <2>1, <2>3, <2>4, <2>5 DEF Job!Start
  <2> QED BY <2>6 DEF Job!Next
<1>4. CASE Caller BY <1>4, CallerOfJob
<1>5. CASE Destruct BY <1>1, <1>5, HitsOnly DEF Destruct, JobRecs, SameJob, SameRead, Busy, Alone
<1>6. CASE UNCHANGED vars BY <1>6, HitsOnly DEF vars, SameJob, SameRead, Busy, Alone
<1> QED BY <1>2, <1>3, <1>4, <1>5, <1>6 DEF Next, Destroyed

(* The output is that of one thread: for every input, number of threads,   *)
(* size of buffer and choice of failures, what Lzma2DecMt_Decode writes is *)
(* the blocks of the input in order, none left out, up to the first error  *)
(* of the input, unless the output, the progress callback or the lack of   *)
(* memory for one thread stops it.  It returns an error only if there was  *)
(* one.  It does not return SZ_OK after a read that has failed, nor, when  *)
(* one thread decodes the rest, over an input that is damaged or cut off;  *)
(* when the ring ends the call it may (Lzma2DecMt.c:931-936).              *)
THEOREM WritesLikeOneThread == Spec => ImplementsJob
<1>1. Init => Inv /\ NothingRead /\ EndRead
  BY InitInv DEF Init, NothingRead, EndRead, MtDec_Construct
<1>2. Inv /\ NothingRead /\ EndRead /\ [Next]_vars => (Inv /\ NothingRead /\ EndRead)'
  BY InvStep, EndReadKept
<1>3. Inv /\ EndRead /\ [Next]_vars => [Job!Next]_(Job!jobVars) BY StepOfJob
<1> QED
  BY <1>1, <1>2, <1>3, InitOfJob, PTL DEF Spec, ImplementsJob, Job!Spec

=============================================================================
