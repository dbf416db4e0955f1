------------------------ MODULE MtDec_steps_proofs -------------------------
(***************************************************************************)
(* The invariant of MtDec, and the first half of the proof that every      *)
(* step keeps it.                                                          *)
(*                                                                         *)
(* Inv has a part for each place the call can be in.  While the threads    *)
(* run (Turn) there are a writer w, a number k of threads that work on     *)
(* blocks behind it, and the index B of the block the writer has: Ring     *)
(* says where the tokens are, Rules what the errors and interruptions of   *)
(* the threads mean, and Flows that the pieces of input the threads hold   *)
(* follow one another from the first block that is not written to the      *)
(* position of the input stream.  When the threads are done, AfterTurn     *)
(* says that what they have kept, what is in the cross block and what is   *)
(* unread is the rest of the input (Kept, then Single).                    *)
(*                                                                         *)
(* This module holds the lemmas about the input and the links of a buffer, *)
(* what each step does to the fields that Inv speaks of (..Moves), the     *)
(* steps of the caller, and how the ring moves on.                         *)
(***************************************************************************)
EXTENDS MtDec, FiniteSetTheorems, SequenceTheorems, WellFoundedInduction, TLAPS

-----------------------------------------------------------------------------
(* Numbers.                                                                *)

(* A nonempty set of natural numbers has a least element. *)
LEMMA LeastNumber ==
    ASSUME NEW T \in SUBSET Nat, T # {}
    PROVE  \E x \in T : \A y \in T : x <= y
<1>1. IsWellFoundedOn(OpToRel(<, Nat), Nat) BY NatLessThanWellFounded
<1>2. PICK x \in T : \A y \in T : <<y, x>> \notin OpToRel(<, Nat) BY <1>1, WFMin
<1>3. \A y \in T : ~(y < x) BY <1>2 DEF OpToRel
<1>4. T \subseteq Nat OBVIOUS
<1>5. ASSUME NEW y \in T PROVE x <= y BY <1>3, <1>4
<1> QED BY <1>5

-----------------------------------------------------------------------------
(* Types.                                                                  *)

Locals ==
    [blockIndex : Nat, block : Nat, state : {"continue", "new", "end", "overflow"},
     link : Nat, finish : BOOLEAN, needCode : BOOLEAN, needWrite : BOOLEAN,
     isAllocError : BOOLEAN, overflow : BOOLEAN, threadingError : BOOLEAN,
     res : {"ok", "progress"}, wasInterrupted : BOOLEAN,
     codeRes : {"ok", "data", "mem"}, codePos : Int, nextThread : Threads,
     inPrev : Nat]

ThreadRecs ==
    [pc : {"none", "wait", "fill", "pass", "code", "write", "ret"},
     canRead : BOOLEAN, canWrite : BOOLEAN, inBuf : Seq(Seq(Nat)),
     inDataSize_Start : Nat, inDataSize : Nat, loc : Locals]

MtDecRecs ==
    [blockIndex : Nat, isAllocError : BOOLEAN, overflow : BOOLEAN,
     threadingError : BOOLEAN, readWasFinished : BOOLEAN, readRes : {"ok", "read"},
     interruptIndex : Nat, wasInterrupted : BOOLEAN, cross : Seq(Nat),
     crossBlock : BOOLEAN, filledThreadStart : Threads, numFilledThreads : Nat,
     numStartedThreads : 0..NumThreads, numStartedThreads_Limit : 0..NumThreads,
     exitThread : BOOLEAN, progressRes : {"ok", "progress"}, readPos : Nat,
     inProcessed : Int]

JobRecs ==
    [pc : {"idle", "mt", "prepare", "mtRead", "st", "free"}, calls : Nat,
     blocks : Inputs \cup {<<>>}, limit : Nat, data : Seq(Nat),
     emitted : Seq(Nat), res : Results, hit : SUBSET Faults, i : Nat]

Typed == p \in MtDecRecs /\ th \in [Threads -> ThreadRecs] /\ job \in JobRecs

Started == p.numStartedThreads

Reads(t) == th[t].pc \in {"fill", "pass"}
Works(t) == th[t].pc \in {"code", "write"}

(* The sequence holds the units from a on. *)
Holds(s, a) == \A i \in 1..Len(s) : s[i] = a + i - 1

Bounds ==
    /\ \A t \in Threads :
          LET T == th[t] IN
          /\ T.inDataSize_Start <= InBufSize
          /\ T.inDataSize_Start <= T.inDataSize
          /\ T.loc.block <= LastBlock
          /\ ~Reads(t) /\ ~Works(t) => T.loc = NoLocals
          /\ T.pc = "fill" => T.loc.link <= Len(T.inBuf)
          /\ T.pc = "fill" /\ T.loc.link > 0 => p.cross = <<>>
    /\ job.pc = "st" => p.cross = <<>>
    /\ job.pc \notin {"idle", "free"} => job.blocks \in Inputs
    /\ p.readPos <= job.limit
    /\ Len(p.cross) <= InBufSize
    /\ Len(p.cross) <= p.readPos
    /\ Holds(p.cross, p.readPos - Len(p.cross) + 1)

-----------------------------------------------------------------------------
(* The tokens.                                                             *)

Offset(w, t) == IF t >= w THEN t - w ELSE t + Started - w
HasRead(t) == th[t].canRead \/ Reads(t)
Closes(t) == Works(t) /\ th[t].loc.finish
Idle(t) == th[t].pc \in {"none", "wait"} /\ ~th[t].canRead /\ ~th[t].canWrite

InRing(w, k, B, t) ==
    /\ th[t].pc \in {"wait", "fill", "pass", "code", "write"}
    /\ Works(t) <=> Offset(w, t) < k
    /\ th[t].canWrite <=> t = w
    /\ th[t].canRead => ~Reads(t)
    /\ HasRead(t) => /\ Offset(w, t) = IF k = Started THEN 0 ELSE k
                     /\ Started < p.numStartedThreads_Limit => w + k < Started
    /\ Works(t) /\ ~th[t].loc.finish => th[t].loc.nextThread = NextIndex(t, Started)
    /\ Closes(t) => Offset(w, t) = k - 1 /\ \A u \in 0..Started - 1 : ~HasRead(u)
    /\ Works(t) \/ Reads(t) => th[t].loc.blockIndex = B + Offset(w, t)

Ring(w, k, B) ==
    /\ w \in 0..Started - 1 /\ k \in 0..Started /\ B \in Nat \ {0}
    /\ p.numStartedThreads_Limit >= 2 /\ Started <= p.numStartedThreads_Limit
    /\ Started < p.numStartedThreads_Limit => w + k <= Started
    /\ p.blockIndex = B + k + IF \E t \in 0..Started - 1 : Reads(t) THEN 1 ELSE 0
    /\ \E t \in 0..Started - 1 : HasRead(t) \/ Closes(t)
    /\ \A t \in Threads : t >= Started => Idle(t)
    /\ \A t \in 0..Started - 1 : InRing(w, k, B, t)

(* The threads run; or thread 0 is about to return, or has. *)
Runs == InMt /\ ~p.exitThread /\ th[0].pc # "ret"
Ended == InMt /\ (p.exitThread \/ th[0].pc = "ret")

AfterRing ==
    /\ Ended => /\ \/ th[0].pc = "wait" /\ th[0].canRead /\ p.exitThread
                   \/ th[0].pc = "ret" /\ ~th[0].canRead
                /\ ~th[0].canWrite
                /\ \A t \in Threads \ {0} : Idle(t)
    /\ job.pc \in {"idle", "prepare", "mtRead", "st"} =>
          th[0].pc = "none" /\ \A t \in Threads : Idle(t)
    /\ job.pc = "free" =>
          /\ p.exitThread
          /\ \A t \in Threads : th[t].pc \in {"none", "wait", "ret"}

-----------------------------------------------------------------------------
(* Errors and interruption.                                                *)

(* Nothing has stopped the writing. *)
Fresh == ~p.wasInterrupted /\ p.progressRes = "ok"

Stops(L) == L.isAllocError \/ L.overflow \/ L.threadingError \/ L.codeRes = "mem"

LocalRules(t) ==
    LET L == th[t].loc IN
    /\ Reads(t) => /\ L.codeRes = "ok" /\ ~L.threadingError /\ L.codePos = 0
    /\ th[t].pc = "fill" => /\ L.res = "ok" /\ ~L.wasInterrupted /\ ~L.needCode
                            /\ ~L.isAllocError /\ ~L.overflow
                            /\ L.needWrite <=> L.link > 0
    /\ Stops(L) => L.finish
    /\ L.res # "ok" => p.progressRes # "ok"
    /\ Works(t) /\ (L.wasInterrupted \/ L.res # "ok") => L.finish \/ L.needCode
    /\ Works(t) /\ ~L.finish => L.needWrite /\ L.needCode
    /\ th[t].pc = "code" => L.needCode /\ L.res = "ok" /\ L.codeRes = "ok"
    /\ L.codePos # 0 => L.needCode
    /\ L.wasInterrupted => p.interruptIndex # 0 /\ p.interruptIndex < L.blockIndex
    /\ th[t].pc = "pass" /\ ~L.finish /\ ~L.wasInterrupted /\ L.res = "ok" =>
          L.needWrite /\ L.needCode

Rules(w, k, B) ==
    /\ ~GoesOnSingle
    /\ \A t \in 0..Started - 1 : LocalRules(t)
    /\ p.interruptIndex # 0 /\ Fresh =>
          \E t \in 0..Started - 1 :
              /\ Works(t) /\ th[t].loc.blockIndex = p.interruptIndex
              /\ th[t].loc.codeRes = "data"
    /\ p.numFilledThreads > 0 =>
          /\ ~Fresh
          /\ p.interruptIndex # 0 /\ p.interruptIndex < B
          /\ \/ p.numFilledThreads + k <= Started
             \/ /\ p.numFilledThreads + k = Started + 1
                /\ \E t \in 0..Started - 1 : Closes(t) /\ th[t].inDataSize = 0
          /\ \A t \in 0..Started - 1 : Reads(t) =>
                \/ p.numFilledThreads + k < Started
                \/ th[t].pc = "pass" /\ th[t].inDataSize = 0

-----------------------------------------------------------------------------
(* The input.                                                              *)

(* Where link j begins in the input of a thread. *)
LinkStart(first, j) == IF j = 1 THEN 0 ELSE first + (j - 2) * InBufSize
LinkSize(first, total, j) ==
    LET full == IF j = 1 THEN first ELSE InBufSize
        left == total - LinkStart(first, j)
    IN  IF left < full THEN left ELSE full

(* The links hold total units from s on, with first units in the first.    *)
LinksHold(inBuf, first, total, s) ==
    /\ total > 0 => first > 0
    /\ \A j \in Nat \ {0} : LinkStart(first, j) < total =>
          /\ j <= Len(inBuf)
          /\ LinkSize(first, total, j) <= Len(inBuf[j])
          /\ \A i \in 1..LinkSize(first, total, j) :
                inBuf[j][i] = s + LinkStart(first, j) + i - 1

Written == Len(job.emitted)
InOrder ==
    /\ job.emitted = [i \in 1..Written |-> i]
    /\ Written <= LastBlock
    /\ \A b \in 1..Written : Kind(b) \in {"ok", "big"}
    /\ BlockEnd(Written) <= p.readPos

(* No further block can be decoded. *)
Complete ==
    \/ Written = LastBlock
    \/ BlockEnd(Written + 1) > job.limit
    \/ Kind(Written + 1) \in {"bad", "junk"}

LastParsed(b) == b = LastBlock \/ Kind(b) = "junk"

(* The input up to before pos has been taken, and the rest follows. *)
Continues(pos) == pos + Len(p.cross) = p.readPos + 1

(* All data before pos is in buffers that are kept; what is left follows, *)
(* or is behind the end of the compressed data.                            *)
Follows(pos) ==
    \/ Continues(pos)
    \/ /\ p.cross = <<>> /\ pos <= p.readPos + 1
       /\ \E b \in 1..LastBlock : LastParsed(b) /\ pos = BlockEnd(b) + 1

(* The rest of the input has been read. *)
Drained == p.readWasFinished /\ p.readPos = job.limit /\ p.cross = <<>>

(* A thread that is still reading block b, whose data begins with unit s. *)
Filling(t, b, s) ==
    LET T == th[t]
        L == T.loc
        pos == s + T.inDataSize
        e == BlockEnd(b)
    IN
    /\ Continues(pos) /\ pos <= e + 1 /\ L.state = "continue"
    /\ pos = e + 1 => ~LastParsed(b) /\ Kind(b) # "big"
    /\ L.link = 0 => T.inDataSize = 0
    /\ L.link > 0 => /\ T.inDataSize > 0 /\ L.link <= Len(T.inBuf)
                     /\ T.inDataSize = LinkStart(T.inDataSize_Start, L.link + 1)
    /\ L.finish => /\ p.readWasFinished
                   /\ p.readPos = job.limit \/ p.cross = <<>>
                   /\ job.limit - p.readPos < InBufSize
    /\ ~L.finish /\ p.readWasFinished => p.readPos = job.limit

(* One that has come to the end of the block, or of the input. *)
Ending(t, b, pos) ==
    LET L == th[t].loc
        e == BlockEnd(b)
    IN
    \/ /\ L.state = "end" /\ L.finish /\ pos = e + 1
       /\ Kind(b) # "big" /\ LastParsed(b)
    \/ /\ L.state = "new" /\ pos = e + 1
       /\ Kind(b) # "big" /\ ~LastParsed(b)
    \/ /\ L.state = "continue" /\ L.finish /\ Drained
       /\ pos = p.readPos + 1 /\ pos <= e + 1
       /\ pos = e + 1 => ~LastParsed(b) /\ Kind(b) # "big"

(* One that has read what it will read. *)
Taken(t, b, pos) ==
    LET L == th[t].loc IN
    /\ L.finish => Follows(pos)
    /\ L.needWrite \/ L.isAllocError
    /\ \/ L.isAllocError /\ L.finish
       \/ /\ L.overflow /\ L.finish /\ Kind(b) = "big"
          /\ BlockEnd(b) < pos /\ ~L.needCode
       \/ ~L.isAllocError /\ ~L.overflow /\ Ending(t, b, pos)

(* One that has yet to pass the read token on. *)
Passing(t, pos) ==
    LET L == th[t].loc IN
    /\ L.needCode
    /\ L.state = "new" => /\ ~L.finish /\ Continues(pos)
                          /\ p.readWasFinished => p.readPos = job.limit

Coding(t, b, s) ==
    LET T == th[t]
        L == T.loc
    IN
    /\ L.codePos = LinkStart(T.inDataSize_Start, L.link + 1)
    /\ L.codePos < T.inDataSize
    /\ BlockEnd(b) < s + L.codePos => Kind(b) = "ok" \/ L.isAllocError

Coded(t, b, s) ==
    LET T == th[t]
        L == T.loc
    IN
    /\ L.codeRes = "data" => \/ Kind(b) \in {"bad", "junk"}
                             \/ T.inDataSize = 0 /\ job.limit < s
    /\ L.codeRes = "ok" => /\ L.codePos = T.inDataSize
                           /\ BlockEnd(b) < s + T.inDataSize => Kind(b) = "ok"

(* One that has parted with the read token has read all of its block; one  *)
(* that has kept it after a whole block had a reason.                      *)
Parted(t, b) ==
    LET L == th[t].loc IN
    /\ ~L.finish => BlockEnd(b) <= p.readPos
    /\ L.finish /\ L.state = "new" => Stops(L) \/ L.codeRes # "ok"

(* What a thread has read of block b, from unit s on. *)
Piece(t, b, s) ==
    LET T == th[t]
        L == T.loc
        pos == s + T.inDataSize
    IN
    /\ b <= LastBlock /\ s <= BlockEnd(b)
    /\ L.block = IF T.inDataSize = 0 THEN 0 ELSE b
    /\ LinksHold(T.inBuf, T.inDataSize_Start, T.inDataSize, s)
    /\ T.pc = "fill" => Filling(t, b, s)
    /\ T.pc # "fill" => Taken(t, b, pos)
    /\ T.pc = "pass" /\ ~L.isAllocError /\ ~L.overflow => Passing(t, pos)
    /\ Works(t) /\ ~L.needCode => L.finish /\ (Stops(L) \/ L.codeRes = "data")
    /\ Works(t) => Parted(t, b)
    /\ T.pc = "code" => Coding(t, b, s)
    /\ T.pc = "write" /\ ~Stops(L) => Coded(t, b, s)

(* The writer is at block Written + 1, the next in the ring at the blocks  *)
(* behind it.                                                              *)
Flows(w, k) ==
    /\ \A t \in 0..Started - 1 :
          (Works(t) \/ Reads(t)) /\ ~th[t].loc.wasInterrupted =>
              LET b == Written + 1 + Offset(w, t) IN Piece(t, b, BlockStart(b))
    /\ \A t \in 0..Started - 1 : th[t].canRead =>
          /\ Written + 1 + k <= LastBlock
          /\ Continues(BlockStart(Written + 1 + k))
          /\ p.readWasFinished => p.readPos = job.limit
    /\ p.blockIndex = 1 => w = 0
    /\ p.blockIndex > 1 /\ th[0].pc # "fill" =>
          \/ th[0].inBuf # <<>>
          \/ (Works(0) \/ Reads(0)) /\ (th[0].loc.isAllocError \/ th[0].loc.wasInterrupted)
    /\ p.blockIndex > 1 /\ th[0].pc = "fill" /\ th[0].loc.link > 0 => th[0].inBuf # <<>>

(* The ring has started again after the end of the input. *)
NoMore(w, k) ==
    /\ w = 0 /\ Drained /\ th[0].inBuf # <<>>
    /\ Written < LastBlock /\ job.limit < BlockEnd(Written + 1)
    /\ \A t \in 0..Started - 1 : HasRead(t) \/ Works(t) => t = 0
    /\ Reads(0) \/ Works(0) =>
          /\ th[0].loc.finish
          /\ Piece(0, Written + 1, job.limit + 1) /\ ~th[0].loc.isAllocError /\ ~th[0].loc.wasInterrupted
    /\ Works(0) => ~th[0].loc.threadingError /\ th[0].loc.codeRes # "mem"

Turn(w, k, B) ==
    /\ Ring(w, k, B) /\ Rules(w, k, B)
    /\ Fresh => Flows(w, k) \/ NoMore(w, k)
    /\ p.progressRes # "ok" \/ "write" \in job.hit \/ Fresh \/ Complete

-----------------------------------------------------------------------------
(* From the threads to one thread.                                         *)

Kept ==
    LET T == th[p.filledThreadStart]
        pos == BlockStart(Written + 1) + Len(job.data)
        inBuf == IF job.i # 0 THEN Tail(T.inBuf) ELSE T.inBuf
        first == IF T.inDataSize_Start # 0 THEN T.inDataSize_Start
                 ELSE IF T.inDataSize < InBufSize THEN T.inDataSize ELSE InBufSize
    IN
    /\ p.numFilledThreads \in {0, 1}
    /\ Holds(job.data, BlockStart(Written + 1))
    /\ p.numFilledThreads = 0 => Follows(pos) /\ job.i = 0
    /\ p.numFilledThreads = 1 =>
          /\ Follows(pos + T.inDataSize)
          /\ job.i = 0 => T.inDataSize > 0
          /\ job.i # 0 => T.inDataSize_Start = 0 /\ T.inBuf # <<>>
          /\ LinksHold(inBuf, first, T.inDataSize, pos)

Single ==
    LET pos == BlockStart(Written + 1) IN
    \/ Holds(job.data, pos) /\ Continues(pos + Len(job.data))
    \/ /\ pos <= BlockEnd(LastBlock) + 1
       /\ pos + Len(job.data) <= p.readPos + 1
       /\ \A i \in 1..Len(job.data) : job.data[i] >= pos + i - 1
       /\ \E b \in 1..LastBlock :
             /\ LastParsed(b) /\ BlockEnd(b) <= p.readPos
             /\ Written < b \/ b = LastBlock
             /\ pos + Len(job.data) > BlockEnd(b)
             /\ \A i \in 1..Len(job.data) :
                   pos + i - 1 <= BlockEnd(b) => job.data[i] = pos + i - 1

Hits_Known ==
    job.pc \notin {"idle", "free"} =>
        /\ "progress" \in job.hit <=> p.progressRes # "ok"
        /\ "read" \in job.hit <=> p.readRes # "ok"
        /\ InOrder
        /\ job.pc # "st" => ("write" \in job.hit => p.wasInterrupted)
        /\ job.pc \in {"prepare", "mtRead", "st"} =>
             job.hit \cap {"write", "progress"} = {} /\ GoesOnSingle
        /\ "read" \in job.hit => p.readWasFinished
        /\ "memST" \notin job.hit

AfterTurn ==
    /\ Ended =>
         \/ p.progressRes # "ok"
         \/ GoesOnSingle /\ Kept /\ job.data = <<>> /\ job.i = 0 /\ "write" \notin job.hit
         \/ ~GoesOnSingle /\ ("write" \in job.hit \/ Complete)
    /\ job.pc \in {"prepare", "mtRead"} => Kept
    /\ job.pc \in {"prepare"} => job.data = <<>> /\ job.i = 0
    /\ job.pc = "mtRead" => (p.numFilledThreads = 0 \/ job.i = 0 \/ job.data # <<>>)
    /\ job.pc = "st" => Single

FilledOK == p.numFilledThreads <= Started /\ (p.filledThreadStart < Started \/ p.filledThreadStart = 0)

(* MtDec_Read has not begun. *)
NothingRead == job.pc = "mt" => job.data = <<>> /\ job.i = 0

Inv ==
    /\ Typed /\ Bounds /\ AfterRing /\ Hits_Known /\ AfterTurn /\ FilledOK
    /\ Runs => \E w \in 0..Started - 1, k \in 0..Started, B \in 1..p.blockIndex :
                    Turn(w, k, B)

-----------------------------------------------------------------------------
(* The input: blocks, and runs of units.                                   *)

(* The numbers of the constants. *)
LEMMA Numbers ==
    /\ NumThreads \in Nat /\ NumThreads >= 2
    /\ InBufSize \in Nat /\ InBufSize > 0
    /\ Threads = 0..NumThreads - 1 /\ 0 \in Threads
  BY MtDecAssumption DEF MtDecAssumption, Threads

(* The blocks of the input end one after the other. *)
LEMMA BlockFacts ==
    ASSUME job.blocks \in Inputs
    PROVE  /\ LastBlock \in Nat \ {0}
           /\ \A b \in 0..LastBlock : BlockEnd(b) \in Nat
           /\ \A b \in 1..LastBlock : BlockEnd(b - 1) < BlockEnd(b) /\ Kind(b) \in Kinds
           /\ BlockEnd(0) = 0
<1> DEFINE blocks == job.blocks
<1> DEFINE S == [end : Nat, kind : Kinds]
<1> HIDE DEF blocks
<1>0. blocks \in Inputs BY DEF blocks
<1>1. /\ blocks \in Seq(S) /\ blocks # <<>>
      /\ \A b \in 1..Len(blocks) : End(blocks, b - 1) < End(blocks, b)
  BY <1>0, MtDecAssumption DEF MtDecAssumption
<1> HIDE DEF S
<1>2. Len(blocks) \in Nat \ {0} /\ \A b \in 1..Len(blocks) : blocks[b] \in S
  BY <1>1, EmptySeq, ElementOfSeq
<1>3. \A b \in 1..Len(blocks) : blocks[b].end \in Nat /\ blocks[b].kind \in Kinds BY <1>2 DEF S
<1>4. \A b \in 0..Len(blocks) : End(blocks, b) \in Nat BY <1>2, <1>3 DEF End
<1>5. /\ Len(blocks) \in Nat \ {0}
      /\ \A b \in 0..Len(blocks) : End(blocks, b) \in Nat
      /\ \A b \in 1..Len(blocks) : End(blocks, b - 1) < End(blocks, b) /\ blocks[b].kind \in Kinds
      /\ End(blocks, 0) = 0
  BY <1>1, <1>2, <1>3, <1>4 DEF End
<1> QED BY <1>5 DEF blocks, LastBlock, BlockEnd, Kind

(* Induction over the blocks, by the least counterexample. *)
LEMMA EndsIncrease ==
    ASSUME job.blocks \in Inputs, NEW b \in 0..LastBlock, NEW c \in b..LastBlock
    PROVE  /\ BlockEnd(b) <= BlockEnd(c)
           /\ b < c => BlockEnd(b) < BlockEnd(c)
<1>0. /\ LastBlock \in Nat \ {0} /\ \A x \in 0..LastBlock : BlockEnd(x) \in Nat
      /\ \A x \in 1..LastBlock : BlockEnd(x - 1) < BlockEnd(x)
  BY BlockFacts
<1> DEFINE Bad == {x \in Nat : x > b /\ x <= LastBlock /\ ~(BlockEnd(b) < BlockEnd(x))}
<1>1. Bad = {}
  <2> SUFFICES ASSUME Bad # {} PROVE FALSE OBVIOUS
  <2>0. Bad \in SUBSET Nat OBVIOUS
  <2>1. PICK x \in Bad : \A y \in Bad : x <= y BY <2>0, LeastNumber
  <2>2. x - 1 \notin Bad /\ x - 1 \in 0..LastBlock /\ x \in 1..LastBlock BY <2>1, <1>0
  <2>3. x - 1 = b \/ BlockEnd(b) < BlockEnd(x - 1) BY <2>1, <2>2
  <2>4. BlockEnd(x - 1) < BlockEnd(x) /\ BlockEnd(x) \in Nat /\ BlockEnd(x - 1) \in Nat /\ BlockEnd(b) \in Nat
    BY <1>0, <2>2
  <2> QED BY <2>1, <2>3, <2>4, <2>2
<1>2. c = b \/ (c \in Nat /\ c > b /\ c <= LastBlock) BY <1>0
<1>3. c > b => BlockEnd(b) < BlockEnd(c) BY <1>1, <1>2, <1>0
<1> QED BY <1>2, <1>3, <1>0

(* The block of a unit. *)
LEMMA BlockOfFacts ==
    ASSUME job.blocks \in Inputs, NEW u \in Int
    PROVE  /\ BlockOf(u) \in 0..LastBlock
           /\ BlockOf(u) = 0 <=> u = 0 \/ u > BlockEnd(LastBlock)
           /\ BlockOf(u) # 0 => u <= BlockEnd(BlockOf(u))
           /\ BlockOf(u) > 1 => BlockEnd(BlockOf(u) - 1) < u
<1>0. /\ LastBlock \in Nat \ {0} /\ \A x \in 0..LastBlock : BlockEnd(x) \in Nat BY BlockFacts
<1> DEFINE ending == {b \in 1..LastBlock : u <= BlockEnd(b)}
<1>1. CASE u = 0 \/ ending = {} BY <1>1, <1>0 DEF BlockOf
<1>2. CASE ~(u = 0 \/ ending = {})
  <2>0. ending \in SUBSET Nat BY <1>0
  <2>1. PICK x \in ending : \A y \in ending : x <= y BY <2>0, <1>2, LeastNumber
  <2>2. x - 1 \notin ending BY <2>0, <2>1
  <2>3. \E b \in ending : b - 1 \notin ending BY <2>1, <2>2
  <2>4. BlockOf(u) = CHOOSE b \in ending : b - 1 \notin ending BY <1>2 DEF BlockOf
  <2> DEFINE c == CHOOSE b \in ending : b - 1 \notin ending
  <2>5. c \in ending /\ c - 1 \notin ending BY <2>3
  <2> HIDE DEF c
  <2>6. c \in 1..LastBlock /\ u <= BlockEnd(c) /\ (c > 1 => BlockEnd(c - 1) < u) BY <2>5, <1>0
  <2>7. ~(u > BlockEnd(LastBlock)) BY <2>6, <1>0, EndsIncrease
  <2> QED BY <2>4, <2>6, <2>7, <1>2, <1>0 DEF c
<1> QED BY <1>1, <1>2

(* What a run of units contains. *)
LEMMA RunContains ==
    ASSUME NEW data \in Seq(Nat), NEW a \in Nat, Holds(data, a), NEW x \in Int
    PROVE  Contains(data, x) <=> a <= x /\ x < a + Len(data)
<1>1. Len(data) \in Nat OBVIOUS
<1>2. Contains(data, x) => a <= x /\ x < a + Len(data) BY <1>1 DEF Contains, Holds
<1>3. ASSUME a <= x, x < a + Len(data) PROVE Contains(data, x)
  <2>1. x - a + 1 \in 1..Len(data) /\ data[x - a + 1] = x BY <1>1, <1>3 DEF Holds
  <2> QED BY <2>1 DEF Contains
<1> QED BY <1>2, <1>3

(* Units(from, to) is a run. *)
LEMMA UnitsRun ==
    ASSUME NEW from \in Nat, NEW to \in Nat, from <= to + 1
    PROVE  /\ Units(from, to) \in Seq(Nat)
           /\ Len(Units(from, to)) = to - from + 1
           /\ Holds(Units(from, to), from)
<1> DEFINE m == to - from + 1
<1>0. m \in Nat OBVIOUS
<1>1. Units(from, to) = [i \in 1..m |-> from + i - 1] BY DEF Units
<1> HIDE DEF m
<1>2. [i \in 1..m |-> from + i - 1] \in Seq(Nat) /\ Len([i \in 1..m |-> from + i - 1]) = m
  BY <1>0
<1>3. \A i \in 1..m : [j \in 1..m |-> from + j - 1][i] = from + i - 1 OBVIOUS
<1> QED BY <1>1, <1>2, <1>3 DEF Holds, m

(* Parts of a run. *)
LEMMA RunParts ==
    ASSUME NEW data \in Seq(Nat), NEW a \in Int, Holds(data, a), NEW n \in 0..Len(data)
    PROVE  /\ SubSeq(data, 1, n) \in Seq(Nat) /\ Len(SubSeq(data, 1, n)) = n
           /\ Holds(SubSeq(data, 1, n), a)
           /\ SubSeq(data, n + 1, Len(data)) \in Seq(Nat)
           /\ Len(SubSeq(data, n + 1, Len(data))) = Len(data) - n
           /\ Holds(SubSeq(data, n + 1, Len(data)), a + n)
  BY SubSeqProperties DEF Holds

(* A run followed by the next one. *)
LEMMA RunsJoin ==
    ASSUME NEW s \in Seq(Nat), NEW r \in Seq(Nat), NEW a \in Int,
           Holds(s, a), Holds(r, a + Len(s))
    PROVE  s \o r \in Seq(Nat) /\ Len(s \o r) = Len(s) + Len(r) /\ Holds(s \o r, a)
<1>1. /\ s \o r \in Seq(Nat) /\ Len(s \o r) = Len(s) + Len(r)
      /\ \A i \in 1..Len(s) + Len(r) : (s \o r)[i] = IF i <= Len(s) THEN s[i] ELSE r[i - Len(s)]
  BY ConcatProperties
<1>2. Len(s) \in Nat /\ Len(r) \in Nat
  OBVIOUS
<1> QED
  BY <1>1, <1>2 DEF Holds

-----------------------------------------------------------------------------
(* The links of an input buffer, and parsing them.                         *)

(* Putting a link into a buffer. *)
LEMMA PutLinkFacts ==
    ASSUME NEW inBuf \in Seq(Seq(Nat)), NEW k \in 1..Len(inBuf) + 1, NEW data \in Seq(Nat)
    PROVE  /\ PutLink(inBuf, k, data) \in Seq(Seq(Nat))
           /\ Len(PutLink(inBuf, k, data)) >= Len(inBuf)
           /\ Len(PutLink(inBuf, k, data)) >= k
           /\ PutLink(inBuf, k, data)[k] = data
           /\ \A j \in 1..Len(inBuf) : j # k => PutLink(inBuf, k, data)[j] = inBuf[j]
<1>0. Len(inBuf) \in Nat OBVIOUS
<1>1. CASE k > Len(inBuf)
  <2>1. k = Len(inBuf) + 1 /\ PutLink(inBuf, k, data) = Append(inBuf, data)
    BY <1>0, <1>1 DEF PutLink
  <2>2. /\ Append(inBuf, data) \in Seq(Seq(Nat)) /\ Len(Append(inBuf, data)) = Len(inBuf) + 1
        /\ Append(inBuf, data)[Len(inBuf) + 1] = data
        /\ \A j \in 1..Len(inBuf) : Append(inBuf, data)[j] = inBuf[j]
    BY <1>0
  <2> DEFINE s == Append(inBuf, data)
  <2> HIDE DEF s
  <2>3. PutLink(inBuf, k, data) = s /\ s \in Seq(Seq(Nat)) /\ Len(s) = Len(inBuf) + 1
        /\ s[k] = data /\ \A j \in 1..Len(inBuf) : s[j] = inBuf[j]
    BY <2>1, <2>2 DEF s
  <2> QED BY <2>1, <2>3, <1>0
<1>2. CASE k <= Len(inBuf) BY <1>0, <1>2, ExceptSeq DEF PutLink
<1> QED BY <1>0, <1>1, <1>2

(* Emptying the links. *)
LEMMA EmptyLinks ==
    ASSUME NEW inBuf \in Seq(Seq(Nat))
    PROVE  /\ [k \in 1..Len(inBuf) |-> <<>>] \in Seq(Seq(Nat))
           /\ Len([k \in 1..Len(inBuf) |-> <<>>]) = Len(inBuf)
           /\ [k \in 1..Len(inBuf) |-> <<>>] = <<>> <=> inBuf = <<>>
<1>0. Len(inBuf) \in Nat /\ (Len(inBuf) = 0 <=> inBuf = <<>>) BY EmptySeq
<1>1. <<>> \in Seq(Nat) OBVIOUS
<1> DEFINE m == Len(inBuf)
           f == [k \in 1..m |-> <<>>]
<1>2. f \in Seq(Seq(Nat)) /\ Len(f) = m BY <1>0, <1>1
<1> HIDE DEF f
<1>3. f = <<>> <=> Len(f) = 0 BY <1>2, EmptySeq
<1> QED BY <1>0, <1>2, <1>3 DEF f

LEMMA NoLocalsType == NoLocals \in Locals /\ Thread_Construct \in ThreadRecs
  BY Numbers DEF NoLocals, Locals, Thread_Construct, ThreadRecs

(* What the progress callback can leave. *)
LEMMA ProgressFacts ==
    ASSUME Typed, NEW pr \in AfterProgress
    PROVE  /\ pr \in {"ok", "progress"}
           /\ pr # p.progressRes => pr = "progress" /\ p.progressRes = "ok"
           /\ Hits(pr) \in SUBSET Faults
           /\ Hits(pr) \subseteq job.hit \cup {"progress"} /\ job.hit \subseteq Hits(pr)
           /\ pr = p.progressRes => Hits(pr) = job.hit
           /\ pr # p.progressRes => "progress" \in Hits(pr)
           /\ "progress" \in Hits(pr) <=> ("progress" \in job.hit \/ pr # p.progressRes)
  BY DEF Typed, MtDecRecs, JobRecs, AfterProgress, CanFail, Hits

LEMMA FaultIn ==
    ASSUME Typed, NEW f, CanFail(f)
    PROVE  f \in Faults /\ f \notin job.hit /\ job.hit \cup {f} \in SUBSET Faults
  BY DEF CanFail, Typed, JobRecs

(* What Parse says of a run of units. *)
LEMMA ParseFacts ==
    ASSUME job.blocks \in Inputs, NEW b \in 0..LastBlock, NEW data \in Seq(Nat),
           NEW a \in Nat, Holds(data, a)
    PROVE  LET P == Parse(b, data)
               e == BlockEnd(b)
               ending == b # 0 /\ a <= e /\ e < a + Len(data)
           IN
           /\ P.state \in {"continue", "new", "end", "overflow"}
           /\ P.srcSize \in 0..Len(data)
           /\ P.state \in {"new", "end"} => data # <<>> /\ b # 0 /\ P.srcSize = e - a + 1
           /\ P.state \in {"continue", "overflow"} => P.srcSize = Len(data)
           /\ P.state = "overflow" <=> ending /\ Kind(b) = "big"
           /\ P.state = "end" <=> ending /\ Kind(b) # "big" /\ LastParsed(b)
           /\ P.state = "new" <=> /\ b # 0 /\ a <= e + 1 /\ e + 1 < a + Len(data)
                                  /\ ~(ending /\ (Kind(b) = "big" \/ LastParsed(b)))
           /\ P.state = "new" => P.srcSize < Len(data)
<1> DEFINE e == BlockEnd(b)
           ending == b # 0 /\ Contains(data, e)
           state == IF ending /\ Kind(b) = "big" THEN "overflow"
                    ELSE IF ending /\ (Kind(b) = "junk" \/ b = LastBlock) THEN "end"
                    ELSE IF b # 0 /\ Contains(data, e + 1) THEN "new"
                    ELSE "continue"
           size == IF state \in {"end", "new"} THEN e - data[1] + 1 ELSE Len(data)
<1>0. e \in Nat /\ Len(data) \in Nat BY BlockFacts
<1> HIDE DEF e
<1>1. /\ Contains(data, e) <=> a <= e /\ e < a + Len(data)
      /\ Contains(data, e + 1) <=> a <= e + 1 /\ e + 1 < a + Len(data)
  BY <1>0, RunContains
<1>2. Parse(b, data).state = state /\ Parse(b, data).srcSize = size BY DEF Parse, e
<1>3. Len(data) > 0 => data[1] = a BY <1>0 DEF Holds
<1>4. data # <<>> <=> Len(data) > 0 BY EmptySeq, <1>0
<1>5. /\ state \in {"new", "end"} => Len(data) > 0 /\ b # 0 /\ e - a + 1 \in 0..Len(data)
      /\ state = "new" => e - a + 1 < Len(data)
  BY <1>0, <1>1
<1>6. /\ state \in {"continue", "new", "end", "overflow"}
      /\ state \in {"new", "end"} => size = e - a + 1
      /\ state \in {"continue", "overflow"} => size = Len(data)
  BY <1>3, <1>5
<1>7. /\ state = "overflow" <=> ending /\ Kind(b) = "big"
      /\ state = "end" <=> ending /\ Kind(b) # "big" /\ LastParsed(b)
      /\ state = "new" <=> /\ b # 0 /\ Contains(data, e + 1)
                           /\ ~(ending /\ (Kind(b) = "big" \/ LastParsed(b)))
  BY DEF LastParsed
<1> HIDE DEF state, size
<1>8. size \in 0..Len(data) BY <1>0, <1>5, <1>6
<1> QED BY <1>0, <1>1, <1>2, <1>4, <1>5, <1>6, <1>7, <1>8 DEF e

Block(t, data) == IF th[t].loc.block # 0 THEN th[t].loc.block
                  ELSE IF data = <<>> THEN 0 ELSE BlockOf(data[1])

(* What stays of a thread's locals while it reads. *)
SameRun(L, M) ==
    /\ M.blockIndex = L.blockIndex /\ M.res = L.res
    /\ M.wasInterrupted = L.wasInterrupted /\ M.threadingError = L.threadingError
    /\ M.codeRes = L.codeRes /\ M.codePos = L.codePos /\ M.nextThread = L.nextThread

(* What a parsed link changes: the first units of data, which begins with  *)
(* unit a, now belong to the thread's block b.                             *)
ParsedLink(t, data, a, finish, fromCross, before, b) ==
    LET T == th[t]
        U == th'[t]
        M == U.loc
        k == T.loc.link + 1
        e == BlockEnd(b)
        ending == b # 0 /\ a <= e /\ e < a + Len(data)
        size == U.inDataSize - T.inDataSize
        cross == p'.cross
    IN
    /\ U.pc \in {"fill", "pass"}
    /\ size \in 0..Len(data)
    /\ \E link \in Seq(Nat) : /\ U.inBuf = PutLink(T.inBuf, k, link)
                              /\ size <= Len(link) /\ Holds(link, a)
    /\ U.inDataSize_Start = IF k = 1 THEN size ELSE T.inDataSize_Start
    /\ SameRun(T.loc, M) /\ M.link = k /\ M.block = b /\ M.needWrite
    /\ M.overflow <=> M.state = "overflow"
    /\ U.pc = "fill" <=> M.state = "continue" /\ ~finish
    /\ U.pc = "fill" => ~M.finish /\ ~M.needCode
    /\ M.state \in {"overflow", "end"} => M.finish
    /\ M.state = "continue" => M.finish = finish
    /\ M.state = "new" => M.finish = M.isAllocError
    /\ M.isAllocError => M.state = "new" /\ ~fromCross
    /\ U.pc = "pass" => (M.needCode <=> ~M.overflow)
    /\ M.state = "overflow" <=> ending /\ Kind(b) = "big"
    /\ M.state = "end" <=> ending /\ Kind(b) # "big" /\ LastParsed(b)
    /\ M.state = "new" <=> /\ b # 0 /\ a <= e + 1 /\ e + 1 < a + Len(data)
                           /\ ~(ending /\ (Kind(b) = "big" \/ LastParsed(b)))
    /\ size = IF M.state \in {"new", "end"} /\ ~M.isAllocError
              THEN e - a + 1 ELSE Len(data)
    /\ \/ Len(cross) = Len(data) - size /\ Holds(cross, a + size) /\ ~M.isAllocError
       \/ (M.state = "end" \/ M.isAllocError) /\ ~fromCross /\ cross = before

Parsed(t, data, a, finish, fromCross, q, b) ==
    /\ ParsedLink(t, data, a, finish, fromCross, q.cross, b)
    /\ \A u \in Threads \ {t} : th'[u] = th[u]
    /\ th'[t].canRead = th[t].canRead /\ th'[t].canWrite = th[t].canWrite
    /\ p' = [q EXCEPT !.cross = p'.cross, !.crossBlock = p'.crossBlock]
    /\ \/ job' = job
       \/ CanFail("alloc") /\ job' = [job EXCEPT !.hit = @ \cup {"alloc"}]

(* Link k of a thread is filled. *)
KeepLink(t, k, link, size, start, M, pc) ==
    th' = [th EXCEPT ![t] = [th[t] EXCEPT
             !.pc = pc, !.inBuf = PutLink(@, k, link),
             !.inDataSize = th[t].inDataSize + size,
             !.inDataSize_Start = IF k = 1 THEN start ELSE @,
             !.loc = M]]

LEMMA KeepMoves ==
    ASSUME Typed, NEW t \in Threads, NEW k \in 1..Len(th[t].inBuf) + 1,
           NEW link \in Seq(Nat), NEW size \in Nat, NEW start \in Nat,
           NEW M \in Locals, NEW pc \in {"fill", "pass"},
           KeepLink(t, k, link, size, start, M, pc)
    PROVE  /\ th' \in [Threads -> ThreadRecs]
           /\ \A u \in Threads \ {t} : th'[u] = th[u]
           /\ th'[t].canRead = th[t].canRead /\ th'[t].canWrite = th[t].canWrite
           /\ th'[t].inBuf = PutLink(th[t].inBuf, k, link)
           /\ th'[t].inDataSize = th[t].inDataSize + size
           /\ th'[t].inDataSize_Start = IF k = 1 THEN start ELSE th[t].inDataSize_Start
           /\ th'[t].pc = pc /\ th'[t].loc = M
<1>1. th \in [Threads -> ThreadRecs] /\ th[t] \in ThreadRecs BY DEF Typed
<1> DEFINE T == th[t]
           b == PutLink(T.inBuf, k, link)
           s == IF k = 1 THEN start ELSE T.inDataSize_Start
           d == T.inDataSize + size
<1>2. b \in Seq(Seq(Nat)) /\ s \in Nat /\ d \in Nat
  <2>1. T.inBuf \in Seq(Seq(Nat)) /\ T.inDataSize_Start \in Nat /\ T.inDataSize \in Nat
    BY <1>1 DEF ThreadRecs
  <2>2. b \in Seq(Seq(Nat)) BY <2>1, PutLinkFacts
  <2> QED BY <2>1, <2>2
<1> DEFINE r == [T EXCEPT !.pc = pc, !.inBuf = b, !.inDataSize = d, !.inDataSize_Start = s, !.loc = M]
<1>3. th' = [th EXCEPT ![t] = r] BY DEF KeepLink
<1> HIDE DEF b, s, d
<1>4. T \in ThreadRecs BY <1>1
<1> HIDE DEF T
<1>5. r \in ThreadRecs BY <1>2, <1>4 DEF ThreadRecs
<1>6. /\ r.canRead = T.canRead /\ r.canWrite = T.canWrite
      /\ r.inBuf = b /\ r.inDataSize = d /\ r.inDataSize_Start = s
      /\ r.pc = pc /\ r.loc = M
  BY <1>4 DEF ThreadRecs
<1> HIDE DEF r
<1>7. th' \in [Threads -> ThreadRecs] /\ th'[t] = r /\ \A u \in Threads \ {t} : th'[u] = th[u]
  BY <1>1, <1>3, <1>5
<1> QED BY <1>6, <1>7 DEF b, s, d, T

LEMMA ParseLinkMoves ==
    ASSUME Typed, job.blocks \in Inputs, NEW t \in Threads, th[t].loc.block <= LastBlock,
           NEW data \in Seq(Nat), NEW a \in Nat, Holds(data, a),
           NEW finish \in BOOLEAN, NEW fromCross \in BOOLEAN, NEW q \in MtDecRecs,
           th[t].loc.link <= Len(th[t].inBuf),
           ~th[t].loc.needCode, ~th[t].loc.isAllocError, ~th[t].loc.overflow,
           ParseLink(t, data, finish, fromCross, q)
    PROVE  /\ Block(t, data) \in 0..LastBlock
           /\ th' \in [Threads -> ThreadRecs] /\ p' \in MtDecRecs
           /\ Parsed(t, data, a, finish, fromCross, q, Block(t, data))
<1> DEFINE T == th[t]
           k == T.loc.link + 1
           b == Block(t, data)
           P == Parse(b, data)
           n == P.srcSize
           done == P.state # "continue" \/ finish
           partial == n # Len(data)
           rest == SubSeq(data, n + 1, Len(data))
           all == Len(data)
           part == SubSeq(data, 1, n)
           prev == IF fromCross THEN 0 ELSE T.inDataSize + all
           L == [T.loc EXCEPT !.link = k, !.block = b, !.state = P.state,
                           !.needWrite = TRUE]
           Keep(link, size, start, loc, pc) ==
            th' = [th EXCEPT ![t] = [T EXCEPT
                     !.pc = pc, !.inBuf = PutLink(@, k, link),
                     !.inDataSize = T.inDataSize + size,
                     !.inDataSize_Start = IF k = 1 THEN start ELSE @,
                     !.loc = loc]]
           e == BlockEnd(b)
           ending == b # 0 /\ a <= e /\ e < a + Len(data)
<1>1. /\ T \in ThreadRecs /\ T.loc \in Locals /\ T.inBuf \in Seq(Seq(Nat)) /\ k \in Nat
      /\ LastBlock \in Nat /\ T.loc.block \in Nat /\ T.inDataSize \in Nat
      /\ k \in 1..Len(T.inBuf) + 1
      /\ T.inDataSize_Start \in Nat
  BY BlockFacts, SMTT(30) DEF Typed, ThreadRecs, Locals
<1>2. b \in 0..LastBlock
  <2>1. data # <<>> => data[1] \in Nat BY EmptySeq
  <2> QED
    <3>1. ASSUME data # <<>> PROVE BlockOf(data[1]) \in 0..LastBlock
      <4>1. data[1] \in Int BY <2>1, <3>1
      <4> QED BY <4>1, BlockOfFacts
    <3> QED BY <1>1, <3>1 DEF Block
<1>3. /\ P.state \in {"continue", "new", "end", "overflow"}
      /\ n \in 0..all
      /\ P.state \in {"new", "end"} => data # <<>> /\ b # 0 /\ n = e - a + 1
      /\ P.state \in {"continue", "overflow"} => n = all
      /\ P.state = "overflow" <=> ending /\ Kind(b) = "big"
      /\ P.state = "end" <=> ending /\ Kind(b) # "big" /\ LastParsed(b)
      /\ P.state = "new" <=> /\ b # 0 /\ a <= e + 1 /\ e + 1 < a + all
                             /\ ~(ending /\ (Kind(b) = "big" \/ LastParsed(b)))
      /\ P.state = "new" => n < all
  <2> HIDE DEF b
  <2> QED BY <1>2, ParseFacts
<1>4. /\ rest \in Seq(Nat) /\ Len(rest) = all - n /\ Holds(rest, a + n)
      /\ part \in Seq(Nat) /\ Len(part) = n /\ Holds(part, a)
  BY <1>3, RunParts, SMTT(30)
<1>5. <<>> \in Seq(Nat) /\ Len(<<>>) = 0 /\ Holds(<<>>, a + all) BY EmptySeq DEF Holds
<1>6. \/ /\ P.state = "overflow"
         /\ Keep(data, all, all, [L EXCEPT !.finish = TRUE, !.overflow = TRUE], "pass")
         /\ p' = [q EXCEPT !.cross = <<>>]
         /\ job' = job
      \/ /\ P.state # "overflow" /\ ~done
         /\ Keep(data, all, all, [L EXCEPT !.finish = finish, !.inPrev = prev], "fill")
         /\ p' = [q EXCEPT !.cross = <<>>]
         /\ job' = job
      \/ /\ P.state # "overflow" /\ done /\ ~partial
         /\ Keep(data, all, all,
               [L EXCEPT !.finish = finish \/ P.state = "end", !.needCode = TRUE], "pass")
         /\ p' = [q EXCEPT !.cross = <<>>]
         /\ job' = job
      \/ /\ P.state = "end" /\ partial
         /\ Keep(IF fromCross THEN part ELSE data, n, n,
               [L EXCEPT !.finish = TRUE, !.needCode = TRUE], "pass")
         /\ p' = IF fromCross THEN [q EXCEPT !.cross = rest] ELSE q
         /\ job' = job
      \/ /\ P.state = "new"
         /\ Keep(IF fromCross THEN part ELSE data, n, n,
               [L EXCEPT !.finish = FALSE, !.needCode = TRUE], "pass")
         /\ p' = [q EXCEPT !.cross = rest, !.crossBlock = TRUE]
         /\ job' = job
      \/ /\ P.state = "new" /\ ~fromCross /\ CanFail("alloc")
         /\ job' = [job EXCEPT !.hit = @ \cup {"alloc"}]
         /\ Keep(data, all, all,
               [L EXCEPT !.finish = TRUE, !.needCode = TRUE, !.isAllocError = TRUE], "pass")
         /\ p' = q
  BY DEF ParseLink, Block, Failed
<1> HIDE DEF b, P, rest, part, L
<1> DEFINE Res == /\ th' \in [Threads -> ThreadRecs] /\ p' \in MtDecRecs
                  /\ Parsed(t, data, a, finish, fromCross, q, b)
<1> DEFINE JobFits == \/ job' = job
                      \/ CanFail("alloc") /\ job' = [job EXCEPT !.hit = @ \cup {"alloc"}]
           Fits(link, size, M, pc, c) ==
             /\ size <= Len(link) /\ Holds(link, a)
             /\ SameRun(T.loc, M) /\ M.link = k /\ M.block = b /\ M.needWrite
             /\ M.state = P.state
             /\ M.overflow <=> M.state = "overflow"
             /\ pc = "fill" <=> M.state = "continue" /\ ~finish
             /\ pc = "fill" => ~M.finish /\ ~M.needCode
             /\ M.state \in {"overflow", "end"} => M.finish
             /\ M.state = "continue" => M.finish = finish
             /\ M.state = "new" => M.finish = M.isAllocError
             /\ M.isAllocError => M.state = "new" /\ ~fromCross
             /\ pc = "pass" => (M.needCode <=> ~M.overflow)
             /\ size = IF M.state \in {"new", "end"} /\ ~M.isAllocError
                       THEN e - a + 1 ELSE Len(data)
             /\ \/ Len(c) = Len(data) - size /\ Holds(c, a + size) /\ ~M.isAllocError
                \/ (M.state = "end" \/ M.isAllocError) /\ ~fromCross /\ c = q.cross
             /\ JobFits
           Sets(c, cb) == p' = [q EXCEPT !.cross = c, !.crossBlock = cb]
<1>7. ASSUME NEW link \in Seq(Nat), NEW size \in 0..all, NEW M \in Locals, NEW pc \in {"fill", "pass"},
             Keep(link, size, size, M, pc),
             NEW c \in Seq(Nat), NEW cb \in BOOLEAN, Sets(c, cb),
             Fits(link, size, M, pc, c)
      PROVE  Res
  <2>1. /\ th' \in [Threads -> ThreadRecs]
        /\ \A u \in Threads \ {t} : th'[u] = th[u]
        /\ th'[t].canRead = T.canRead /\ th'[t].canWrite = T.canWrite
        /\ th'[t].inBuf = PutLink(T.inBuf, k, link)
        /\ th'[t].inDataSize = T.inDataSize + size
        /\ th'[t].inDataSize_Start = IF k = 1 THEN size ELSE T.inDataSize_Start
        /\ th'[t].pc = pc /\ th'[t].loc = M
    <3>1. k \in 1..Len(th[t].inBuf) + 1 /\ size \in Nat BY <1>1, <1>7
    <3>2. KeepLink(t, k, link, size, size, M, pc) BY <1>7 DEF KeepLink
    <3> HIDE DEF k, Keep
    <3> QED BY <3>1, <3>2, KeepMoves
  <2>2. p' \in MtDecRecs /\ p'.cross = c /\ p'.crossBlock = cb BY <1>7 DEF MtDecRecs
  <2>3. th'[t].inDataSize - T.inDataSize = size BY <1>1, <2>1
  <2>4. p' = [q EXCEPT !.cross = p'.cross, !.crossBlock = p'.crossBlock] BY <1>7, <2>2 DEF Sets
  <2>5. Parsed(t, data, a, finish, fromCross, q, b)
    <3>1. /\ \A u \in Threads \ {t} : th'[u] = th[u]
          /\ th'[t].canRead = T.canRead /\ th'[t].canWrite = T.canWrite
          /\ th'[t].pc \in {"fill", "pass"}
          /\ size \in 0..Len(data)
          /\ \E s \in Seq(Nat) : /\ th'[t].inBuf = PutLink(T.inBuf, k, s)
                                 /\ size <= Len(s) /\ Holds(s, a)
          /\ th'[t].inDataSize_Start = IF k = 1 THEN size ELSE T.inDataSize_Start
      BY <1>7, <2>1
    <3>2. /\ M.overflow <=> M.state = "overflow"
          /\ pc = "fill" <=> M.state = "continue" /\ ~finish
          /\ pc = "fill" => ~M.finish /\ ~M.needCode
          /\ M.state \in {"overflow", "end"} => M.finish
          /\ M.state = "continue" => M.finish = finish
          /\ M.state = "new" => M.finish = M.isAllocError
          /\ M.isAllocError => M.state = "new" /\ ~fromCross
          /\ pc = "pass" => (M.needCode <=> ~M.overflow)
      BY <1>7
    <3>3. /\ M.state = "overflow" <=> ending /\ Kind(b) = "big"
          /\ M.state = "end" <=> ending /\ Kind(b) # "big" /\ LastParsed(b)
          /\ M.state = "new" <=> /\ b # 0 /\ a <= e + 1 /\ e + 1 < a + Len(data)
                                 /\ ~(ending /\ (Kind(b) = "big" \/ LastParsed(b)))
      BY <1>3, <1>7
    <3>4. /\ size = IF M.state \in {"new", "end"} /\ ~M.isAllocError THEN e - a + 1 ELSE Len(data)
          /\ \/ Len(c) = Len(data) - size /\ Holds(c, a + size) /\ ~M.isAllocError
             \/ (M.state = "end" \/ M.isAllocError) /\ ~fromCross /\ c = q.cross
      BY <1>7
    <3>5. SameRun(T.loc, M) /\ M.link = k /\ M.block = b /\ M.needWrite BY <1>7
    <3>6. th'[t].pc = pc /\ th'[t].loc = M /\ p'.cross = c BY <2>1, <2>2
    <3> QED BY <2>3, <3>1, <3>2, <3>3, <3>4, <3>5, <3>6, <1>7, <2>4 DEF ParsedLink, Parsed
  <2> QED BY <2>1, <2>2, <2>5
<1> HIDE DEF Res, Keep, Fits, Sets, JobFits
<1>8. L \in Locals /\ SameRun(T.loc, L) /\ L.link = k /\ L.block = b /\ L.needWrite
      /\ L.state = P.state /\ ~L.overflow /\ ~L.needCode /\ ~L.isAllocError
  <2>1. /\ P.state \in {"continue", "new", "end", "overflow"} /\ b \in Nat /\ k \in Nat
    BY <1>1, <1>2, <1>3
  <2>2. T.loc \in Locals /\ ~T.loc.overflow /\ ~T.loc.needCode /\ ~T.loc.isAllocError BY <1>1
  <2> HIDE DEF k, T
  <2>3. L \in Locals BY <2>1, <2>2 DEF Locals, L
  <2> QED BY <2>2, <2>3 DEF Locals, SameRun, L
<1>9. /\ q = [q EXCEPT !.cross = q.cross, !.crossBlock = q.crossBlock]
      /\ \A c \in Seq(Nat) : [q EXCEPT !.cross = c] = [q EXCEPT !.cross = c, !.crossBlock = q.crossBlock]
  BY DEF MtDecRecs
<1>90. q.cross \in Seq(Nat) /\ q.crossBlock \in BOOLEAN BY DEF MtDecRecs
<1>91. prev \in Nat BY <1>1
<1> HIDE DEF prev
<1>10. /\ all \in 0..all /\ n \in 0..all /\ all - n \in Nat /\ Len(data) = all /\ all - all = 0
       /\ all >= n
  BY <1>3
<1>11. ASSUME /\ P.state = "overflow"
              /\ Keep(data, all, all, [L EXCEPT !.finish = TRUE, !.overflow = TRUE], "pass")
              /\ p' = [q EXCEPT !.cross = <<>>]
              /\ job' = job
       PROVE  Res
  <2> DEFINE M == [L EXCEPT !.finish = TRUE, !.overflow = TRUE]
  <2>0. JobFits BY <1>11 DEF JobFits
  <2>1. /\ M \in Locals /\ SameRun(T.loc, M) /\ M.link = k /\ M.block = b /\ M.needWrite
        /\ M.state = P.state /\ M.overflow /\ M.finish /\ ~M.needCode /\ ~M.isAllocError
    BY <1>8 DEF Locals, SameRun
  <2>2. Keep(data, all, all, M, "pass") /\ Sets(<<>>, q.crossBlock)
    BY <1>9, <1>11, <1>5 DEF Sets
  <2> HIDE DEF M
  <2>4. Fits(data, all, M, "pass", <<>>)
    BY <1>3, <1>4, <1>5, <1>90, <1>10, <1>11, <2>0, <2>1 DEF Fits
  <2>5. all \in 0..all /\ M \in Locals /\ "pass" \in {"fill", "pass"}
        /\ <<>> \in Seq(Nat) /\ q.crossBlock \in BOOLEAN
    BY <1>4, <1>5, <1>90, <1>10, <2>1
  <2> QED BY <1>7, <2>2, <2>4, <2>5, Zenon
<1>12. ASSUME /\ P.state # "overflow" /\ ~done
              /\ Keep(data, all, all, [L EXCEPT !.finish = finish, !.inPrev = prev], "fill")
              /\ p' = [q EXCEPT !.cross = <<>>]
              /\ job' = job
       PROVE  Res
  <2> DEFINE M == [L EXCEPT !.finish = finish, !.inPrev = prev]
  <2>0. JobFits BY <1>12 DEF JobFits
  <2>1. /\ M \in Locals /\ SameRun(T.loc, M) /\ M.link = k /\ M.block = b /\ M.needWrite
        /\ M.state = P.state /\ ~M.overflow /\ M.finish = finish /\ ~M.needCode /\ ~M.isAllocError
    BY <1>8, <1>91 DEF Locals, SameRun
  <2>2. Keep(data, all, all, M, "fill") /\ Sets(<<>>, q.crossBlock)
    BY <1>9, <1>12, <1>5 DEF Sets
  <2> HIDE DEF M
  <2>4. Fits(data, all, M, "fill", <<>>)
    BY <1>3, <1>4, <1>5, <1>90, <1>10, <1>12, <2>0, <2>1 DEF Fits
  <2>5. all \in 0..all /\ M \in Locals /\ "fill" \in {"fill", "pass"}
        /\ <<>> \in Seq(Nat) /\ q.crossBlock \in BOOLEAN
    BY <1>4, <1>5, <1>90, <1>10, <2>1
  <2> QED BY <1>7, <2>2, <2>4, <2>5, Zenon
<1>13. ASSUME /\ P.state # "overflow" /\ done /\ ~partial
              /\ Keep(data, all, all,
                 [L EXCEPT !.finish = finish \/ P.state = "end", !.needCode = TRUE], "pass")
              /\ p' = [q EXCEPT !.cross = <<>>]
              /\ job' = job
       PROVE  Res
  <2> DEFINE M == [L EXCEPT !.finish = finish \/ P.state = "end", !.needCode = TRUE]
  <2>0. JobFits BY <1>13 DEF JobFits
  <2>1. /\ M \in Locals /\ SameRun(T.loc, M) /\ M.link = k /\ M.block = b /\ M.needWrite
        /\ M.state = P.state /\ ~M.overflow /\ M.finish = (finish \/ P.state = "end")
        /\ M.needCode /\ ~M.isAllocError
    BY <1>8 DEF Locals, SameRun
  <2>2. Keep(data, all, all, M, "pass") /\ Sets(<<>>, q.crossBlock)
    BY <1>9, <1>13, <1>5 DEF Sets
  <2>3. P.state # "new" /\ (P.state = "end" => all = e - a + 1) BY <1>3, <1>13
  <2> HIDE DEF M
  <2>4. Fits(data, all, M, "pass", <<>>)
    BY <1>3, <1>4, <1>5, <1>90, <1>10, <1>13, <2>0, <2>1, <2>3 DEF Fits
  <2>5. all \in 0..all /\ M \in Locals /\ "pass" \in {"fill", "pass"}
        /\ <<>> \in Seq(Nat) /\ q.crossBlock \in BOOLEAN
    BY <1>4, <1>5, <1>90, <1>10, <2>1, <2>3
  <2> QED BY <1>7, <2>2, <2>4, <2>5, Zenon
<1>14. ASSUME /\ P.state = "end" /\ partial
              /\ Keep(IF fromCross THEN part ELSE data, n, n,
                 [L EXCEPT !.finish = TRUE, !.needCode = TRUE], "pass")
              /\ p' = IF fromCross THEN [q EXCEPT !.cross = rest] ELSE q
              /\ job' = job
       PROVE  Res
  <2> DEFINE M == [L EXCEPT !.finish = TRUE, !.needCode = TRUE]
             link == IF fromCross THEN part ELSE data
             c == IF fromCross THEN rest ELSE q.cross
  <2>0. JobFits BY <1>14 DEF JobFits
  <2>1. /\ M \in Locals /\ SameRun(T.loc, M) /\ M.link = k /\ M.block = b /\ M.needWrite
        /\ M.state = P.state /\ ~M.overflow /\ M.finish /\ M.needCode /\ ~M.isAllocError
    BY <1>8 DEF Locals, SameRun
  <2>2. Keep(link, n, n, M, "pass") /\ Sets(c, q.crossBlock)
    <3>1. CASE fromCross BY <3>1, <1>4, <1>9, <1>14 DEF Sets
    <3>2. CASE ~fromCross BY <3>2, <1>9, <1>14 DEF Sets
    <3> QED BY <3>1, <3>2
  <2>3. /\ link \in Seq(Nat) /\ n <= Len(link) /\ Holds(link, a) /\ c \in Seq(Nat)
        /\ n = e - a + 1
        /\ \/ Len(c) = Len(data) - n /\ Holds(c, a + n)
           \/ ~fromCross /\ c = q.cross
    BY <1>3, <1>14, <1>4, <1>10, <1>90
  <2> HIDE DEF M, link, c
  <2>4. Fits(link, n, M, "pass", c)
    BY <1>3, <1>4, <1>5, <1>90, <1>10, <1>14, <2>0, <2>1, <2>3 DEF Fits
  <2>5. link \in Seq(Nat) /\ n \in 0..all /\ M \in Locals /\ "pass" \in {"fill", "pass"}
        /\ c \in Seq(Nat) /\ q.crossBlock \in BOOLEAN
    BY <1>4, <1>5, <1>90, <1>10, <2>1, <2>3
  <2> QED BY <1>7, <2>2, <2>4, <2>5, Zenon
<1>15. ASSUME /\ P.state = "new"
              /\ Keep(IF fromCross THEN part ELSE data, n, n,
                 [L EXCEPT !.finish = FALSE, !.needCode = TRUE], "pass")
              /\ p' = [q EXCEPT !.cross = rest, !.crossBlock = TRUE]
              /\ job' = job
       PROVE  Res
  <2> DEFINE M == [L EXCEPT !.finish = FALSE, !.needCode = TRUE]
             link == IF fromCross THEN part ELSE data
  <2>0. JobFits BY <1>15 DEF JobFits
  <2>1. /\ M \in Locals /\ SameRun(T.loc, M) /\ M.link = k /\ M.block = b /\ M.needWrite
        /\ M.state = P.state /\ ~M.overflow /\ M.finish = FALSE /\ M.needCode /\ M.isAllocError = FALSE
    BY <1>8 DEF Locals, SameRun
  <2>2. Keep(link, n, n, M, "pass") /\ Sets(rest, TRUE) BY <1>4, <1>9, <1>15 DEF Sets
  <2>3. /\ link \in Seq(Nat) /\ n <= Len(link) /\ Holds(link, a)
        /\ n = e - a + 1
    BY <1>3, <1>15, <1>4, <1>10, <1>90
  <2> HIDE DEF M, link
  <2>4. Fits(link, n, M, "pass", rest)
    BY <1>3, <1>4, <1>5, <1>90, <1>10, <1>15, <2>0, <2>1, <2>3 DEF Fits
  <2>5. link \in Seq(Nat) /\ n \in 0..all /\ M \in Locals /\ "pass" \in {"fill", "pass"}
        /\ rest \in Seq(Nat) /\ TRUE \in BOOLEAN
    BY <1>4, <1>5, <1>90, <1>10, <2>1, <2>3
  <2> QED BY <1>7, <2>2, <2>4, <2>5, Zenon
<1>16. ASSUME /\ P.state = "new" /\ ~fromCross /\ CanFail("alloc")
              /\ job' = [job EXCEPT !.hit = @ \cup {"alloc"}]
              /\ Keep(data, all, all,
                 [L EXCEPT !.finish = TRUE, !.needCode = TRUE, !.isAllocError = TRUE], "pass")
              /\ p' = q
       PROVE  Res
  <2> DEFINE M == [L EXCEPT !.finish = TRUE, !.needCode = TRUE, !.isAllocError = TRUE]
  <2>0. JobFits BY <1>16 DEF JobFits
  <2>1. /\ M \in Locals /\ SameRun(T.loc, M) /\ M.link = k /\ M.block = b /\ M.needWrite
        /\ M.state = P.state /\ ~M.overflow /\ M.finish = TRUE /\ M.needCode /\ M.isAllocError = TRUE
    BY <1>8 DEF Locals, SameRun
  <2>2. Keep(data, all, all, M, "pass") /\ Sets(q.cross, q.crossBlock) BY <1>9, <1>16 DEF Sets
  <2> HIDE DEF M
  <2>4. Fits(data, all, M, "pass", q.cross)
    <3>1. P.state = "new" /\ ~fromCross BY <1>16
    <3>2. all <= Len(data) /\ Holds(data, a) BY <1>10
    <3>3. SameRun(T.loc, M) /\ M.link = k /\ M.block = b /\ M.needWrite
             /\ M.state = P.state
      BY <2>1
    <3>4. /\ M.overflow <=> M.state = "overflow"
          /\ M.state \in {"overflow", "end"} => M.finish
          /\ M.state = "continue" => M.finish = finish
          /\ M.state = "new" => M.finish = M.isAllocError
          /\ M.isAllocError => M.state = "new" /\ ~fromCross
          /\ (M.needCode <=> ~M.overflow)
      BY <2>1, <3>1
    <3>5. all = IF M.state \in {"new", "end"} /\ ~M.isAllocError
                       THEN e - a + 1 ELSE Len(data)
      BY <2>1
    <3>6. (M.state = "end" \/ M.isAllocError) /\ ~fromCross /\ q.cross = q.cross BY <2>1, <3>1
    <3>7. M.state # "continue" BY <2>1, <3>1
    <3> QED BY <2>0, <3>2, <3>3, <3>4, <3>5, <3>6, <3>7 DEF Fits
  <2>5. all \in 0..all /\ M \in Locals /\ "pass" \in {"fill", "pass"}
        /\ q.cross \in Seq(Nat) /\ q.crossBlock \in BOOLEAN
    BY <1>4, <1>5, <1>90, <1>10, <2>1
  <2> QED BY <1>7, <2>2, <2>4, <2>5, Zenon
<1>17. Res BY <1>6, <1>11, <1>12, <1>13, <1>14, <1>15, <1>16
<1> QED BY <1>2, <1>17 DEF Res, b

-----------------------------------------------------------------------------
(* What each step of a thread does to the fields of Inv: reading.          *)

(* What a step leaves alone. *)
SameTokens == /\ p'.blockIndex = p.blockIndex /\ p'.exitThread = p.exitThread
              /\ p'.numStartedThreads = p.numStartedThreads
              /\ p'.numStartedThreads_Limit = p.numStartedThreads_Limit
SameStops == /\ p'.isAllocError = p.isAllocError /\ p'.overflow = p.overflow
             /\ p'.threadingError = p.threadingError
             /\ p'.wasInterrupted = p.wasInterrupted
             /\ p'.filledThreadStart = p.filledThreadStart
             /\ p'.numFilledThreads = p.numFilledThreads
SameInput == /\ p'.readPos = p.readPos /\ p'.cross = p.cross
             /\ p'.readWasFinished = p.readWasFinished /\ p'.readRes = p.readRes
             /\ job'.limit = job.limit
SameCall == /\ job'.pc = job.pc /\ job'.calls = job.calls /\ job'.blocks = job.blocks
            /\ job'.data = job.data /\ job'.emitted = job.emitted
            /\ job'.res = job.res /\ job'.i = job.i
OnlyThread(t) == \A u \in Threads \ {t} : th'[u] = th[u]

(* The progress callback has been called. *)
Progress == /\ p'.progressRes # p.progressRes =>
                  p'.progressRes = "progress" /\ p.progressRes = "ok"
            /\ job.hit \subseteq job'.hit
            /\ job'.hit \subseteq job.hit \cup {"progress"}
            /\ "progress" \in job'.hit <=>
                  "progress" \in job.hit \/ p'.progressRes # p.progressRes
(* Nothing is reported; f may fail. *)
Fails(f) == /\ p'.progressRes = p.progressRes
            /\ \/ job'.hit = job.hit
               \/ job'.hit = job.hit \cup {f} /\ f \in Faults /\ f \notin job.hit

LEMMA HitFacts ==
    ASSUME Typed, NEW hit \in SUBSET Faults, job' = [job EXCEPT !.hit = hit]
    PROVE  job' \in JobRecs /\ SameCall /\ job'.limit = job.limit /\ job'.hit = hit
  BY DEF Typed, JobRecs, SameCall

ReadWaitStep(t) ==
    LET T == th[t]
        U == th'[t]
        M == U.loc
    IN
    /\ T.pc = "wait" /\ T.canRead
    /\ OnlyThread(t)
    /\ U.pc = IF p'.progressRes = "ok" /\ ~M.wasInterrupted THEN "fill" ELSE "pass"
    /\ ~U.canRead /\ U.canWrite = T.canWrite
    /\ U.inDataSize = 0 /\ U.inDataSize_Start = 0
    /\ U.inBuf = <<>> <=> T.inBuf = <<>>
    /\ M = [NoLocals EXCEPT !.blockIndex = p.blockIndex, !.res = p'.progressRes,
              !.wasInterrupted = Interrupted(p.blockIndex), !.finish = p.readWasFinished]
    /\ p'.blockIndex = p.blockIndex + 1 /\ p'.exitThread = p.exitThread
    /\ p'.numStartedThreads = p.numStartedThreads
    /\ p'.numStartedThreads_Limit = p.numStartedThreads_Limit
    /\ p'.interruptIndex = p.interruptIndex
    /\ Progress /\ SameStops /\ SameInput /\ SameCall

LEMMA ReadWaitMoves ==
    ASSUME Typed, NEW t \in Threads, ReadWait(t), ~p.exitThread
    PROVE  Typed' /\ ReadWaitStep(t)
<1>1. PICK pr \in AfterProgress :
         LET wi == Interrupted(p.blockIndex) IN
            /\ p' = [p EXCEPT !.blockIndex = @ + 1, !.progressRes = pr]
            /\ job' = [job EXCEPT !.hit = Hits(pr)]
            /\ th' = [th EXCEPT ![t] = [th[t] EXCEPT
                        !.pc = IF pr = "ok" /\ ~wi THEN "fill" ELSE "pass",
                        !.canRead = Event_Wait(FALSE, @),
                        !.inDataSize = 0, !.inDataSize_Start = 0,
                        !.inBuf = [k \in 1..Len(@) |-> <<>>],
                        !.loc = [NoLocals EXCEPT
                                   !.blockIndex = p.blockIndex, !.res = pr,
                                   !.wasInterrupted = wi,
                                   !.finish = p.readWasFinished]]]
  BY DEF ReadWait
<1>2. th[t].pc = "wait" /\ th[t].canRead BY DEF ReadWait, Event_CanWait
<1>3. p \in MtDecRecs /\ th \in [Threads -> ThreadRecs] /\ job \in JobRecs BY DEF Typed
<1>4. /\ pr \in {"ok", "progress"} /\ Hits(pr) \in SUBSET Faults
      /\ pr # p.progressRes => pr = "progress" /\ p.progressRes = "ok"
      /\ Hits(pr) \subseteq job.hit \cup {"progress"} /\ job.hit \subseteq Hits(pr)
      /\ "progress" \in Hits(pr) <=> ("progress" \in job.hit \/ pr # p.progressRes)
  BY ProgressFacts
<1>5. job' \in JobRecs /\ SameCall /\ job'.limit = job.limit /\ job'.hit = Hits(pr)
  BY <1>1, <1>4, HitFacts
<1>6. /\ p' \in MtDecRecs /\ p'.progressRes = pr /\ p'.blockIndex = p.blockIndex + 1
      /\ p'.exitThread = p.exitThread
      /\ p'.numStartedThreads = p.numStartedThreads
      /\ p'.numStartedThreads_Limit = p.numStartedThreads_Limit
      /\ p'.interruptIndex = p.interruptIndex /\ SameStops
      /\ p'.readPos = p.readPos /\ p'.cross = p.cross
      /\ p'.readWasFinished = p.readWasFinished /\ p'.readRes = p.readRes
  <2>1. p.blockIndex + 1 \in Nat BY <1>3 DEF MtDecRecs
  <2> QED BY <1>1, <1>3, <1>4, <2>1 DEF MtDecRecs, SameStops
<1> DEFINE M == [NoLocals EXCEPT !.blockIndex = p.blockIndex, !.res = pr,
              !.wasInterrupted = Interrupted(p.blockIndex), !.finish = p.readWasFinished]
           T == th[t]
           inBuf == [k \in 1..Len(T.inBuf) |-> <<>>]
           pc == IF pr = "ok" /\ ~Interrupted(p.blockIndex) THEN "fill" ELSE "pass"
           r == [T EXCEPT !.pc = pc, !.canRead = FALSE, !.inDataSize = 0,
                    !.inDataSize_Start = 0, !.inBuf = inBuf, !.loc = M]
<1>7. M \in Locals /\ M.wasInterrupted = Interrupted(p.blockIndex)
  <2>1. p.blockIndex \in Nat /\ p.readWasFinished \in BOOLEAN
        /\ Interrupted(p.blockIndex) \in BOOLEAN
    BY <1>3 DEF MtDecRecs, Interrupted
  <2>2. NoLocals \in Locals BY NoLocalsType
  <2> QED BY <1>4, <2>1, <2>2 DEF Locals
<1>8. th' = [th EXCEPT ![t] = r] BY <1>1 DEF Event_Wait
<1>9. inBuf \in Seq(Seq(Nat)) /\ (inBuf = <<>> <=> T.inBuf = <<>>)
  <2>1. T.inBuf \in Seq(Seq(Nat)) BY <1>3 DEF ThreadRecs
  <2> QED BY <2>1, EmptyLinks
<1> HIDE DEF inBuf, M
<1>10. /\ r \in ThreadRecs /\ r.pc = pc /\ ~r.canRead /\ r.canWrite = T.canWrite
       /\ r.inDataSize = 0 /\ r.inDataSize_Start = 0 /\ r.inBuf = inBuf /\ r.loc = M
  BY <1>3, <1>7, <1>9 DEF ThreadRecs
<1> HIDE DEF r
<1>11. th' \in [Threads -> ThreadRecs] /\ th'[t] = r /\ OnlyThread(t)
  BY <1>3, <1>8, <1>10 DEF OnlyThread
<1>12. Progress BY <1>4, <1>5, <1>6 DEF Progress
<1>13. SameInput BY <1>5, <1>6 DEF SameInput
<1>14. th'[t].loc = [NoLocals EXCEPT !.blockIndex = p.blockIndex, !.res = p'.progressRes,
              !.wasInterrupted = Interrupted(p.blockIndex), !.finish = p.readWasFinished]
  BY <1>6, <1>10, <1>11 DEF M
<1>15. th'[t].pc = IF p'.progressRes = "ok" /\ ~th'[t].loc.wasInterrupted THEN "fill" ELSE "pass"
  BY <1>6, <1>7, <1>10, <1>11
<1>16. ReadWaitStep(t)
  BY <1>2, <1>5, <1>6, <1>9, <1>10, <1>11, <1>12, <1>13, <1>14, <1>15, Zenon DEF ReadWaitStep
<1> QED BY <1>5, <1>6, <1>11, <1>16 DEF Typed

(* A step of a thread that fills its buffer. *)
FillStep(t) ==
    /\ th[t].pc = "fill" /\ th'[t].pc \in {"fill", "pass"}
    /\ OnlyThread(t)
    /\ th'[t].canRead = th[t].canRead /\ th'[t].canWrite = th[t].canWrite
    /\ th'[t].loc.blockIndex = th[t].loc.blockIndex
    /\ SameTokens /\ SameStops /\ SameCall
    /\ p'.interruptIndex = p.interruptIndex

AllocStep(t) ==
    LET T == th[t]
        U == th'[t]
        L == T.loc
        M == U.loc
    IN
    /\ FillStep(t) /\ SameInput /\ Fails("alloc")
    /\ U.pc = "pass" /\ U.inBuf = T.inBuf
    /\ U.inDataSize = T.inDataSize /\ U.inDataSize_Start = T.inDataSize_Start
    /\ SameRun(L, M) /\ M.link = L.link /\ M.block = L.block /\ M.state = L.state
    /\ M.needWrite = L.needWrite /\ M.needCode = L.needCode /\ M.overflow = L.overflow
    /\ M.finish = TRUE /\ M.isAllocError = TRUE

LEMMA AllocMoves ==
    ASSUME Typed, NEW t \in Threads, AllocFails(t)
    PROVE  Typed' /\ AllocStep(t)
<1> DEFINE T == th[t]
           L == T.loc
           M == [L EXCEPT !.finish = TRUE, !.isAllocError = TRUE]
           r == [T EXCEPT !.pc = "pass", !.loc = M]
<1>1. p \in MtDecRecs /\ th \in [Threads -> ThreadRecs] /\ job \in JobRecs BY DEF Typed
<1>2. T \in ThreadRecs /\ L \in Locals BY <1>1 DEF ThreadRecs
<1>3. CanFail("alloc") /\ job' = [job EXCEPT !.hit = @ \cup {"alloc"}] /\ T.pc = "fill" /\ p' = p
  BY DEF AllocFails, Failed
<1>4. th' = [th EXCEPT ![t] = r] BY <1>1, <1>2 DEF AllocFails, ThreadRecs, Locals
<1>5. job.hit \cup {"alloc"} \in SUBSET Faults /\ "alloc" \in Faults /\ "alloc" \notin job.hit
  BY <1>3, FaultIn
<1>6. job' \in JobRecs /\ SameCall /\ job'.limit = job.limit /\ job'.hit = job.hit \cup {"alloc"}
  BY <1>3, <1>5, HitFacts
<1>7. /\ M \in Locals /\ SameRun(L, M) /\ M.link = L.link /\ M.block = L.block /\ M.state = L.state
      /\ M.needWrite = L.needWrite /\ M.needCode = L.needCode /\ M.overflow = L.overflow
      /\ M.finish = TRUE /\ M.isAllocError = TRUE
  BY <1>2 DEF Locals, SameRun
<1> HIDE DEF M
<1>8. /\ r \in ThreadRecs /\ r.pc = "pass" /\ r.inBuf = T.inBuf /\ r.loc = M
      /\ r.inDataSize = T.inDataSize /\ r.inDataSize_Start = T.inDataSize_Start
      /\ r.canRead = T.canRead /\ r.canWrite = T.canWrite
  BY <1>2, <1>7 DEF ThreadRecs
<1> HIDE DEF r
<1>9. th' \in [Threads -> ThreadRecs] /\ th'[t] = r /\ OnlyThread(t)
  BY <1>1, <1>4, <1>8 DEF OnlyThread
<1>10. SameTokens /\ SameStops /\ SameInput /\ Fails("alloc") /\ p'.interruptIndex = p.interruptIndex
  BY <1>3, <1>5, <1>6 DEF SameTokens, SameStops, SameInput, Fails
<1>11. FillStep(t) BY <1>3, <1>6, <1>7, <1>8, <1>9, <1>10 DEF FillStep, SameRun
<1>12. AllocStep(t) BY <1>7, <1>8, <1>9, <1>10, <1>11 DEF AllocStep
<1> QED BY <1>1, <1>3, <1>6, <1>9, <1>12 DEF Typed

(* A link has been taken and parsed. *)
LinkStep(t, data, a, finish, fromCross, b) ==
    /\ FillStep(t) /\ Fails("alloc") /\ p'.readRes = p.readRes /\ job'.limit = job.limit
    /\ ParsedLink(t, data, a, finish, fromCross, p.cross, b)

(* What is left over of the link before. *)
CrossStep(t) ==
    LET a == p.readPos - Len(p.cross) + 1 IN
    /\ th[t].loc.link = 0 /\ p.cross # <<>>
    /\ p'.readPos = p.readPos /\ p'.readWasFinished = p.readWasFinished
    /\ LinkStep(t, p.cross, a, th[t].loc.finish, TRUE, Block(t, p.cross))

LEMMA AllocOrNot ==
    ASSUME Typed, \/ job' = job
                  \/ CanFail("alloc") /\ job' = [job EXCEPT !.hit = @ \cup {"alloc"}]
    PROVE  /\ job' \in JobRecs /\ SameCall /\ job'.limit = job.limit
           /\ \/ job'.hit = job.hit
              \/ job'.hit = job.hit \cup {"alloc"} /\ "alloc" \in Faults /\ "alloc" \notin job.hit
  BY FaultIn, HitFacts DEF SameCall, Typed

LEMMA FromCross ==
    ASSUME Typed, job.blocks \in Inputs, Bounds, NEW t \in Threads, LocalRules(t),
           FillFromCross(t)
    PROVE  Typed' /\ CrossStep(t)
<1> DEFINE T == th[t]
           a == p.readPos - Len(p.cross) + 1
           b == Block(t, p.cross)
           finish == T.loc.finish
<1>1. p \in MtDecRecs /\ th \in [Threads -> ThreadRecs] /\ job \in JobRecs BY DEF Typed
<1>2. T \in ThreadRecs /\ T.loc \in Locals BY <1>1 DEF ThreadRecs
<1>3. /\ T.pc = "fill" /\ T.loc.link = 0 /\ p.cross # <<>>
      /\ ParseLink(t, p.cross, finish, TRUE, p)
  BY DEF FillFromCross
<1>4. /\ p.cross \in Seq(Nat) /\ p.readPos \in Nat /\ finish \in BOOLEAN
      /\ p.readPos - Len(p.cross) + 1 \in Nat
      /\ Holds(p.cross, p.readPos - Len(p.cross) + 1)
  <2>1. p.cross \in Seq(Nat) /\ p.readPos \in Nat BY <1>1 DEF MtDecRecs
  <2>2. Len(p.cross) \in Nat /\ Len(p.cross) <= p.readPos BY <2>1 DEF Bounds
  <2> QED BY <1>2, <2>1, <2>2 DEF Bounds, Locals
<1>5. /\ T.loc.block <= LastBlock /\ T.loc.link <= Len(T.inBuf)
      /\ ~T.loc.needCode /\ ~T.loc.isAllocError /\ ~T.loc.overflow
  BY <1>3 DEF Bounds, LocalRules
<1>6. /\ th' \in [Threads -> ThreadRecs] /\ p' \in MtDecRecs
      /\ Parsed(t, p.cross, a, finish, TRUE, p, b)
  <2> HIDE DEF a, b, finish
  <2>1. a \in Nat /\ Holds(p.cross, a) BY <1>4 DEF a
  <2>2. ParseLink(t, p.cross, finish, TRUE, p) BY <1>3
  <2> QED BY <1>1, <1>4, <1>5, <2>1, <2>2, ParseLinkMoves DEF b
<1> HIDE DEF a, b, finish
<1>7. p' = [p EXCEPT !.cross = p'.cross, !.crossBlock = p'.crossBlock] BY <1>6 DEF Parsed
<1>8. /\ SameTokens /\ SameStops /\ p'.interruptIndex = p.interruptIndex
      /\ p'.progressRes = p.progressRes /\ p'.readRes = p.readRes
      /\ p'.readPos = p.readPos /\ p'.readWasFinished = p.readWasFinished
  BY <1>1, <1>7 DEF MtDecRecs, SameTokens, SameStops
<1>9. \/ job' = job
      \/ CanFail("alloc") /\ job' = [job EXCEPT !.hit = @ \cup {"alloc"}]
  BY <1>6 DEF Parsed
<1>10. /\ job' \in JobRecs /\ SameCall /\ job'.limit = job.limit
       /\ \/ job'.hit = job.hit
          \/ job'.hit = job.hit \cup {"alloc"} /\ "alloc" \in Faults /\ "alloc" \notin job.hit
  BY <1>9, AllocOrNot
<1>11. Fails("alloc") BY <1>8, <1>10 DEF Fails
<1>12. FillStep(t)
  BY <1>6, <1>3, <1>8, <1>10 DEF Parsed, OnlyThread, ParsedLink, SameRun, FillStep
<1>13. LinkStep(t, p.cross, a, finish, TRUE, b)
  <2>1. Parsed(t, p.cross, a, finish, TRUE, p, b) BY <1>6
  <2>2. Fails("alloc") /\ FillStep(t) /\ p'.readRes = p.readRes /\ job'.limit = job.limit
    BY <1>8, <1>10, <1>11, <1>12
  <2> QED BY <2>1, <2>2, Zenon DEF LinkStep, Parsed
<1>14. CrossStep(t) BY <1>3, <1>8, <1>13 DEF CrossStep, a, b, finish
<1> QED BY <1>6, <1>10, <1>14 DEF Typed

(* How much the next read delivers. *)
Full == IF job.limit - p.readPos > InBufSize THEN InBufSize ELSE job.limit - p.readPos

(* A link has been read, and parsed ... *)
ReadStep(t) ==
    LET data == Units(p.readPos + 1, p.readPos + Full) IN
    /\ th[t].loc.link = 0 => p.cross = <<>>
    /\ p'.readPos = p.readPos + Full
    /\ p'.readWasFinished = (p.readWasFinished \/ Full # InBufSize)
    /\ LinkStep(t, data, p.readPos + 1, Full # InBufSize, FALSE, Block(t, data))

(* ... or the thread is stopped before that ... *)
HaltStep(t) ==
    LET T == th[t]
        U == th'[t]
        L == T.loc
        M == U.loc
        k == L.link + 1
    IN
    /\ FillStep(t) /\ Progress
    /\ L.link = 0 => p.cross = <<>>
    /\ p'.readPos = p.readPos + Full
    /\ p'.readWasFinished = (p.readWasFinished \/ Full # InBufSize)
    /\ p'.readRes = p.readRes /\ p'.cross = p.cross /\ job'.limit = job.limit
    /\ U.pc = "pass" /\ U.inBuf = PutLink(T.inBuf, k, Units(p.readPos + 1, p.readPos + Full))
    /\ U.inDataSize = T.inDataSize + Full
    /\ U.inDataSize_Start = IF k = 1 THEN Full ELSE T.inDataSize_Start
    /\ M = [L EXCEPT !.res = p'.progressRes, !.finish = Full # InBufSize,
                     !.wasInterrupted = Interrupted(L.blockIndex)]
    /\ p'.progressRes # "ok" \/ Interrupted(L.blockIndex)

(* ... or the input stream fails. *)
ReadErrorStep(t) ==
    LET T == th[t]
        U == th'[t]
        k == T.loc.link + 1
    IN
    /\ FillStep(t) /\ p'.progressRes = p.progressRes
    /\ T.loc.link = 0 => p.cross = <<>>
    /\ p'.readPos = p.readPos /\ p'.cross = p.cross
    /\ p'.readWasFinished /\ p'.readRes = "read"
    /\ job'.limit \in p.readPos..job.limit /\ job'.limit - p.readPos < InBufSize
    /\ job'.hit = job.hit \cup {"read"} /\ "read" \notin job.hit
    /\ U.pc = "fill" /\ U.inBuf = PutLink(T.inBuf, k, <<>>)
    /\ U.inDataSize = T.inDataSize /\ U.inDataSize_Start = T.inDataSize_Start
    /\ U.loc = [T.loc EXCEPT !.finish = TRUE]

LEMMA FullFacts ==
    ASSUME Typed, p.readPos <= job.limit
    PROVE  /\ Full \in 0..InBufSize /\ p.readPos + Full <= job.limit
           /\ Full # InBufSize => p.readPos + Full = job.limit
           /\ Units(p.readPos + 1, p.readPos + Full) \in Seq(Nat)
           /\ Len(Units(p.readPos + 1, p.readPos + Full)) = Full
           /\ Holds(Units(p.readPos + 1, p.readPos + Full), p.readPos + 1)
<1>1. p.readPos \in Nat /\ job.limit \in Nat /\ InBufSize \in Nat
  BY Numbers DEF Typed, MtDecRecs, JobRecs
<1>2. /\ Full \in 0..InBufSize /\ p.readPos + Full <= job.limit
      /\ Full # InBufSize => p.readPos + Full = job.limit
  BY <1>1 DEF Full
<1> DEFINE f == p.readPos + 1
           l == p.readPos + Full
<1>3. f \in Nat /\ l \in Nat /\ f <= l + 1 /\ l - f + 1 = Full BY <1>1, <1>2
<1> HIDE DEF f, l
<1>4. Units(f, l) \in Seq(Nat) /\ Len(Units(f, l)) = l - f + 1 /\ Holds(Units(f, l), f)
  BY <1>3, UnitsRun
<1> QED BY <1>2, <1>3, <1>4 DEF f, l

LEMMA ReadMoves ==
    ASSUME Typed, job.blocks \in Inputs, Bounds, NEW t \in Threads, LocalRules(t), Read(t)
    PROVE  Typed' /\ (ReadStep(t) \/ HaltStep(t) \/ ReadErrorStep(t))
<1> DEFINE T == th[t]
           L == T.loc
           k == L.link + 1
           data == Units(p.readPos + 1, p.readPos + Full)
           finish == Full # InBufSize
           wi == Interrupted(L.blockIndex)
           reports == T.inDataSize + Full > L.inPrev
           q(pr) == [p EXCEPT !.readPos = @ + Full, !.progressRes = pr,
                              !.readWasFinished = @ \/ finish]
<1>1. p \in MtDecRecs /\ th \in [Threads -> ThreadRecs] /\ job \in JobRecs BY DEF Typed
<1>2. T \in ThreadRecs /\ L \in Locals BY <1>1 DEF ThreadRecs
<1>3. T.pc = "fill" /\ (L.link = 0 => p.cross = <<>>) /\ p.readPos <= job.limit
  BY DEF Read, Bounds
<1>4. /\ Full \in 0..InBufSize /\ p.readPos + Full <= job.limit
      /\ data \in Seq(Nat) /\ Len(data) = Full /\ Holds(data, p.readPos + 1)
  BY <1>3, FullFacts
<1>5. /\ L.block <= LastBlock /\ L.link <= Len(T.inBuf)
      /\ ~L.needCode /\ ~L.isAllocError /\ ~L.overflow
  BY <1>3 DEF Bounds, LocalRules
<1> DEFINE Parses(pr) ==
             /\ reports => pr = "ok" /\ ~wi
             /\ ParseLink(t, data, finish, FALSE, q(pr))
           Halts(pr) ==
             /\ reports /\ (pr # "ok" \/ wi)
             /\ p' = q(pr)
             /\ job' = [job EXCEPT !.hit = Hits(pr)]
             /\ th' = [th EXCEPT ![t] = [th[t] EXCEPT
                           !.pc = "pass", !.inBuf = PutLink(@, k, data),
                           !.inDataSize = @ + Full,
                           !.inDataSize_Start = IF k = 1 THEN Full ELSE @,
                           !.loc = [th[t].loc EXCEPT !.res = pr, !.finish = finish,
                                             !.wasInterrupted = wi]]]
           Errs ==
             /\ CanFail("read")
             /\ \E got \in 0..Full : got < InBufSize /\ job' = [job EXCEPT
                   !.hit = @ \cup {"read"}, !.limit = p.readPos + got]
             /\ p' = [p EXCEPT !.readRes = "read", !.readWasFinished = TRUE]
             /\ th' = [th EXCEPT ![t].loc.finish = TRUE,
                                 ![t].inBuf = PutLink(@, k, <<>>)]
<1>6. \/ \E pr \in (IF reports THEN AfterProgress ELSE {p.progressRes}) :
            Parses(pr) \/ Halts(pr)
      \/ Errs
  BY Zenon DEF Read, Full
<1>7. /\ k \in 1..Len(T.inBuf) + 1 /\ T.inBuf \in Seq(Seq(Nat)) /\ T.inDataSize \in Nat
      /\ T.inDataSize_Start \in Nat /\ p.readPos \in Nat /\ p.readPos + 1 \in Nat
      /\ p.readPos + Full \in Nat /\ Full \in Nat /\ finish \in BOOLEAN
      /\ T.inDataSize + Full \in Nat
  <2>1. T.inBuf \in Seq(Seq(Nat)) /\ T.inDataSize \in Nat /\ T.inDataSize_Start \in Nat
    BY <1>2 DEF ThreadRecs
  <2>2. L.link \in Nat BY <1>2 DEF Locals
  <2>3. p.readPos \in Nat /\ InBufSize \in Nat BY <1>1, Numbers DEF MtDecRecs
  <2> QED
    <3>1. finish \in BOOLEAN OBVIOUS
    <3>2. Full \in 0..InBufSize BY <1>4
    <3>3. Len(T.inBuf) \in Nat /\ L.link <= Len(T.inBuf) BY <1>5, <2>1
    <3> HIDE DEF finish, Full, T
    <3>4. k \in 1..Len(T.inBuf) + 1 BY <2>2, <3>3
    <3>5. Full \in Nat /\ p.readPos + Full \in Nat /\ T.inDataSize + Full \in Nat
      BY <2>1, <2>3, <3>2
    <3> QED BY <2>1, <2>3, <3>1, <3>4, <3>5
<1> HIDE DEF data, Full, wi, reports
<1>8. \A pr \in {"ok", "progress"} :
         /\ q(pr) \in MtDecRecs /\ q(pr).cross = p.cross
         /\ q(pr).readPos = p.readPos + Full /\ q(pr).progressRes = pr
         /\ q(pr).readWasFinished = (p.readWasFinished \/ finish)
         /\ q(pr).readRes = p.readRes
  BY <1>1, <1>7, ZenonT(60) DEF MtDecRecs
<1>9. ASSUME NEW pr \in (IF reports THEN AfterProgress ELSE {p.progressRes}),
             Parses(pr)
      PROVE  Typed' /\ ReadStep(t)
  <2> DEFINE b == Block(t, data)
             a == p.readPos + 1
             s == q(pr)
  <2>1. pr = p.progressRes /\ pr \in {"ok", "progress"}
    BY <1>1, <1>9 DEF MtDecRecs, AfterProgress
  <2>2. s \in MtDecRecs /\ s.cross = p.cross /\ a \in Nat /\ Holds(data, a)
    BY <1>4, <1>7, <1>8, <2>1
  <2>3. ParseLink(t, data, finish, FALSE, s) BY <1>9
  <2> HIDE DEF s, a, b, finish
  <2>4. /\ th' \in [Threads -> ThreadRecs] /\ p' \in MtDecRecs
        /\ Parsed(t, data, a, finish, FALSE, s, b)
    <3>1. finish \in BOOLEAN BY <1>7
    <3> QED BY <1>4, <1>5, <2>2, <2>3, <3>1, ParseLinkMoves DEF b
  <2>5. p' = [s EXCEPT !.cross = p'.cross, !.crossBlock = p'.crossBlock]
    BY <2>4, Zenon DEF Parsed
  <2>6. \/ job' = job
        \/ CanFail("alloc") /\ job' = [job EXCEPT !.hit = @ \cup {"alloc"}]
    BY <2>4, Zenon DEF Parsed
  <2>7. /\ ParsedLink(t, data, a, finish, FALSE, p.cross, b)
        /\ OnlyThread(t) /\ th'[t].canRead = T.canRead /\ th'[t].canWrite = T.canWrite
    BY <2>2, <2>4, Zenon DEF Parsed, OnlyThread
  <2>8. /\ s.blockIndex = p.blockIndex /\ s.exitThread = p.exitThread
        /\ s.numStartedThreads = p.numStartedThreads
        /\ s.numStartedThreads_Limit = p.numStartedThreads_Limit
        /\ s.interruptIndex = p.interruptIndex
        /\ s.isAllocError = p.isAllocError /\ s.overflow = p.overflow
        /\ s.threadingError = p.threadingError
        /\ s.wasInterrupted = p.wasInterrupted
        /\ s.filledThreadStart = p.filledThreadStart
        /\ s.numFilledThreads = p.numFilledThreads
        /\ s.readPos = p.readPos + Full /\ s.progressRes = p.progressRes
        /\ s.readWasFinished = (p.readWasFinished \/ finish)
        /\ s.readRes = p.readRes
    BY <1>1, <2>1 DEF s, MtDecRecs
  <2>9. /\ SameTokens /\ SameStops /\ p'.interruptIndex = p.interruptIndex
        /\ p'.readPos = p.readPos + Full /\ p'.progressRes = p.progressRes
        /\ p'.readWasFinished = (p.readWasFinished \/ finish)
        /\ p'.readRes = p.readRes
    BY <2>2, <2>5, <2>8 DEF MtDecRecs, SameTokens, SameStops
  <2>10. /\ job' \in JobRecs /\ SameCall /\ job'.limit = job.limit
         /\ \/ job'.hit = job.hit
            \/ job'.hit = job.hit \cup {"alloc"} /\ "alloc" \in Faults /\ "alloc" \notin job.hit
    BY <2>6, AllocOrNot
  <2>11. Fails("alloc") BY <2>9, <2>10 DEF Fails
  <2>12. th'[t].pc \in {"fill", "pass"} /\ th'[t].loc.blockIndex = T.loc.blockIndex
    BY <2>7, Zenon DEF ParsedLink, SameRun
  <2>13. FillStep(t) BY <1>3, <2>7, <2>9, <2>10, <2>12 DEF FillStep
  <2>14. LinkStep(t, data, a, finish, FALSE, b)
    BY <2>7, <2>9, <2>10, <2>11, <2>13, Zenon DEF LinkStep
  <2>15. ReadStep(t) BY <1>3, <2>9, <2>14, Zenon DEF ReadStep, data, a, b, finish
  <2> QED BY <2>4, <2>10, <2>15 DEF Typed
<1>10. ASSUME NEW pr \in AfterProgress, Halts(pr)
      PROVE  Typed' /\ HaltStep(t)
  <2>1. /\ pr \in {"ok", "progress"} /\ Hits(pr) \in SUBSET Faults
        /\ pr # p.progressRes => pr = "progress" /\ p.progressRes = "ok"
        /\ Hits(pr) \subseteq job.hit \cup {"progress"} /\ job.hit \subseteq Hits(pr)
        /\ "progress" \in Hits(pr) <=> ("progress" \in job.hit \/ pr # p.progressRes)
    BY ProgressFacts
  <2>2. job' \in JobRecs /\ SameCall /\ job'.limit = job.limit /\ job'.hit = Hits(pr)
    BY <1>10, <2>1, HitFacts
  <2> DEFINE M == [L EXCEPT !.res = pr, !.finish = finish, !.wasInterrupted = wi]
  <2>3. M \in Locals
    <3>1. wi \in BOOLEAN /\ finish \in BOOLEAN BY DEF wi, Interrupted
    <3> HIDE DEF finish
    <3> QED BY <1>2, <2>1, <3>1 DEF Locals
  <2>4. M.blockIndex = L.blockIndex BY <1>2 DEF Locals
  <2>5. KeepLink(t, k, data, Full, Full, M, "pass") BY <1>10, Zenon DEF KeepLink
  <2>6. /\ th' \in [Threads -> ThreadRecs]
        /\ \A u \in Threads \ {t} : th'[u] = th[u]
        /\ th'[t].canRead = th[t].canRead /\ th'[t].canWrite = th[t].canWrite
        /\ th'[t].inBuf = PutLink(th[t].inBuf, k, data)
        /\ th'[t].inDataSize = th[t].inDataSize + Full
        /\ th'[t].inDataSize_Start = IF k = 1 THEN Full ELSE th[t].inDataSize_Start
        /\ th'[t].pc = "pass" /\ th'[t].loc = M
    <3> HIDE DEF M, k
    <3> QED BY <1>4, <1>7, <2>3, <2>5, KeepMoves
  <2>7. p' \in MtDecRecs /\ p'.progressRes = pr /\ p'.readPos = p.readPos + Full /\ p'.cross = p.cross
        /\ p'.readWasFinished = (p.readWasFinished \/ finish) /\ p'.readRes = p.readRes
    BY <1>8, <1>10, <2>1
  <2>8. SameTokens /\ SameStops /\ p'.interruptIndex = p.interruptIndex
    BY <1>1, <1>10 DEF MtDecRecs, SameTokens, SameStops
  <2>9. Progress BY <2>1, <2>2, <2>7 DEF Progress
  <2>10. FillStep(t) BY <1>3, <2>2, <2>4, <2>6, <2>8 DEF FillStep, OnlyThread
  <2>11. th'[t].loc = [L EXCEPT !.res = p'.progressRes, !.finish = Full # InBufSize,
                     !.wasInterrupted = Interrupted(L.blockIndex)]
    BY <2>6, <2>7 DEF wi
  <2>12. p'.progressRes # "ok" \/ Interrupted(L.blockIndex) BY <1>10, <2>7 DEF wi
  <2>13. HaltStep(t)
    BY <1>3, <1>10, <2>2, <2>6, <2>7, <2>9, <2>10, <2>11, <2>12, Zenon DEF HaltStep, data
  <2> QED BY <2>2, <2>6, <2>7, <2>13 DEF Typed
<1>11. ASSUME Errs
       PROVE  Typed' /\ ReadErrorStep(t)
  <2>0. PICK got \in 0..Full : got < InBufSize /\ job' = [job EXCEPT
                   !.hit = @ \cup {"read"}, !.limit = p.readPos + got]
    BY <1>11
  <2>1. "read" \in Faults /\ "read" \notin job.hit /\ job.hit \cup {"read"} \in SUBSET Faults
    BY <1>11, FaultIn
  <2>2. p.readPos + got \in Nat /\ p.readPos + got \in p.readPos..job.limit
        /\ p.readPos + got - p.readPos < InBufSize
    <3>1. job.limit \in Nat BY <1>1 DEF JobRecs
    <3> QED BY <1>4, <1>7, <2>0, <3>1, SMTT(30)
  <2>3. /\ job' \in JobRecs /\ SameCall /\ job'.limit = p.readPos + got
        /\ job'.hit = job.hit \cup {"read"}
    BY <1>1, <2>0, <2>1, <2>2 DEF JobRecs, SameCall
  <2>4. /\ p' \in MtDecRecs /\ SameTokens /\ SameStops /\ p'.interruptIndex = p.interruptIndex
        /\ p'.readPos = p.readPos /\ p'.cross = p.cross /\ p'.progressRes = p.progressRes
        /\ p'.readWasFinished /\ p'.readRes = "read"
    BY <1>1, <1>11 DEF MtDecRecs, SameTokens, SameStops
  <2> DEFINE M == [L EXCEPT !.finish = TRUE]
             inBuf == PutLink(T.inBuf, k, <<>>)
             r == [T EXCEPT !.loc = M, !.inBuf = inBuf]
  <2>5. M \in Locals /\ M.blockIndex = L.blockIndex BY <1>2 DEF Locals
  <2>6. inBuf \in Seq(Seq(Nat))
    <3>1. <<>> \in Seq(Nat) OBVIOUS
    <3> HIDE DEF k
    <3> QED BY <1>7, <3>1, PutLinkFacts
  <2>7. th' = [th EXCEPT ![t] = r] BY <1>1, <1>2, <1>11 DEF ThreadRecs, Locals
  <2> HIDE DEF M, inBuf
  <2>8. /\ r \in ThreadRecs /\ r.pc = T.pc /\ r.inBuf = inBuf /\ r.loc = M
        /\ r.inDataSize = T.inDataSize /\ r.inDataSize_Start = T.inDataSize_Start
        /\ r.canRead = T.canRead /\ r.canWrite = T.canWrite
    BY <1>2, <2>5, <2>6 DEF ThreadRecs
  <2> HIDE DEF r
  <2>9. th' \in [Threads -> ThreadRecs] /\ th'[t] = r /\ OnlyThread(t)
    BY <1>1, <2>7, <2>8 DEF OnlyThread
  <2>10. FillStep(t) BY <1>3, <2>3, <2>4, <2>5, <2>8, <2>9 DEF FillStep
  <2>11. ReadErrorStep(t)
    <3>1. th'[t].loc = [T.loc EXCEPT !.finish = TRUE] BY <2>8, <2>9, Zenon DEF M
    <3>2. /\ th'[t].pc = "fill" /\ th'[t].inBuf = PutLink(T.inBuf, k, <<>>)
          /\ th'[t].inDataSize = T.inDataSize /\ th'[t].inDataSize_Start = T.inDataSize_Start
      BY <1>3, <2>8, <2>9 DEF inBuf
    <3>3. job'.limit \in p.readPos..job.limit /\ job'.limit - p.readPos < InBufSize
      <4>1. p.readPos \in Nat /\ got \in Int /\ job.limit \in Nat
        BY <1>1, <1>4, <1>7 DEF JobRecs
      <4> QED BY <2>2, <2>3, <4>1
    <3> QED BY <1>3, <2>1, <2>3, <2>4, <2>10, <3>1, <3>2, <3>3, Zenon DEF ReadErrorStep
  <2> QED BY <2>3, <2>4, <2>9, <2>11 DEF Typed
<1> QED
  <2>1. ASSUME NEW pr \in (IF reports THEN AfterProgress ELSE {p.progressRes}) PROVE pr \in AfterProgress
    BY DEF AfterProgress
  <2> HIDE DEF Parses, Halts, Errs
  <2> QED BY <1>6, <1>9, <1>10, <1>11, <2>1, Zenon

-----------------------------------------------------------------------------
(* ... passing the read token on, ...                                      *)

(* What passing the read token on, or keeping it, makes of the thread. *)
PassBase(t) ==
    LET T == th[t]
        U == th'[t]
        L == T.loc
        M == U.loc
        res == IF L.res = "ok" THEN p.progressRes ELSE L.res
        wi == L.wasInterrupted \/ Interrupted(L.blockIndex)
    IN
    /\ T.pc = "pass" /\ U.pc = IF res = "ok" /\ M.needCode THEN "code" ELSE "write"
    /\ U.inBuf = T.inBuf /\ U.inDataSize = T.inDataSize
    /\ U.inDataSize_Start = T.inDataSize_Start /\ U.canWrite = T.canWrite
    /\ M.res = res /\ M.wasInterrupted = wi /\ M.blockIndex = L.blockIndex
    /\ M.block = L.block /\ M.state = L.state /\ M.needWrite = L.needWrite
    /\ M.isAllocError = L.isAllocError /\ M.overflow = L.overflow
    /\ M.codePos = L.codePos /\ M.link = 0
    /\ M.codeRes \in {"ok", "data", "mem"}
    /\ res = "ok" /\ L.needCode /\ ~wi => (L.block = 0 <=> M.codeRes = "data")
    /\ ~(res = "ok" /\ L.needCode /\ ~wi) => M.codeRes = "ok"
    /\ M.needCode = (L.needCode /\ M.codeRes = "ok" /\ ~M.threadingError)
    /\ p'.blockIndex = p.blockIndex /\ p'.exitThread = p.exitThread
    /\ p'.interruptIndex = p.interruptIndex
    /\ SameStops /\ SameInput /\ SameCall
    /\ \E f \in {"mem", "create"} : Fails(f)

PassEnds(t) ==
    LET T == th[t]
        M == th'[t].loc
    IN
    /\ PassBase(t) /\ OnlyThread(t) /\ SameTokens
    /\ th'[t].canRead = T.canRead
    /\ M.finish
    /\ \/ T.loc.finish \/ M.codeRes # "ok" \/ M.res # "ok" \/ M.wasInterrupted
       \/ M.threadingError
    /\ M.threadingError => ~T.loc.finish

PassOn(t) ==
    LET T == th[t]
        M == th'[t].loc
        next == NextIndex(t, p'.numStartedThreads)
    IN
    /\ PassBase(t)
    /\ ~T.loc.finish /\ ~M.finish /\ M.codeRes = "ok" /\ M.res = "ok" /\ ~M.wasInterrupted
    /\ ~M.threadingError /\ M.nextThread = next
    /\ \A u \in Threads : th'[u].canRead = (th[u].canRead \/ u = next)
    /\ \A u \in Threads \ {t} :
          /\ th'[u].canWrite = th[u].canWrite /\ th'[u].inBuf = th[u].inBuf
          /\ th'[u].inDataSize = th[u].inDataSize
          /\ th'[u].inDataSize_Start = th[u].inDataSize_Start
          /\ th'[u].loc = th[u].loc
          /\ th'[u].pc = IF u = Started /\ p'.numStartedThreads = Started + 1
                         THEN "wait" ELSE th[u].pc
    /\ \/ /\ Started < p.numStartedThreads_Limit
          /\ p'.numStartedThreads = Started + 1
          /\ p'.numStartedThreads_Limit = p.numStartedThreads_Limit
       \/ /\ Started >= p.numStartedThreads_Limit
          /\ p'.numStartedThreads = Started
          /\ p'.numStartedThreads_Limit = p.numStartedThreads_Limit
       \/ /\ Started < p.numStartedThreads_Limit /\ Started # 1
          /\ p'.numStartedThreads = Started
          /\ p'.numStartedThreads_Limit = Started

(* The thread itself after a step Pass. *)
Owned(t, U, codeRes, token) ==
    LET T == th[t]
        L == T.loc
        M == U.loc
        res == IF L.res = "ok" THEN p.progressRes ELSE L.res
        wi == L.wasInterrupted \/ Interrupted(L.blockIndex)
    IN
    /\ U.pc = IF res = "ok" /\ M.needCode THEN "code" ELSE "write"
    /\ U.inBuf = T.inBuf /\ U.inDataSize = T.inDataSize
    /\ U.inDataSize_Start = T.inDataSize_Start /\ U.canWrite = T.canWrite
    /\ M.res = res /\ M.wasInterrupted = wi /\ M.blockIndex = L.blockIndex
    /\ M.block = L.block /\ M.state = L.state /\ M.needWrite = L.needWrite
    /\ M.isAllocError = L.isAllocError /\ M.overflow = L.overflow
    /\ M.codePos = L.codePos /\ M.link = 0 /\ M.codeRes = codeRes
    /\ M.needCode = (L.needCode /\ codeRes = "ok" /\ token # "alone")
    /\ M.finish = (token # "passed") /\ M.threadingError = (token = "alone")

LEMMA OwnFacts ==
    ASSUME Typed, NEW t \in Threads, NEW codeRes \in {"ok", "data", "mem"},
           NEW token \in {"passed", "kept", "alone"}, NEW next \in Threads
    PROVE  LET U == Own(t, codeRes, token, next) IN
           /\ U \in ThreadRecs /\ Owned(t, U, codeRes, token)
           /\ U.canRead = th[t].canRead /\ U.loc.nextThread = next
<1> DEFINE T == th[t]
           L == T.loc
           res == IF L.res = "ok" THEN p.progressRes ELSE L.res
           wi == L.wasInterrupted \/ Interrupted(L.blockIndex)
           needCode == L.needCode /\ codeRes = "ok" /\ token # "alone"
           pc == IF res = "ok" /\ needCode THEN "code" ELSE "write"
           M == [L EXCEPT !.res = res, !.wasInterrupted = wi,
                      !.codeRes = codeRes, !.needCode = needCode,
                      !.finish = (token # "passed"), !.threadingError = (token = "alone"),
                      !.nextThread = next, !.link = 0]
           U == [T EXCEPT !.pc = pc, !.loc = M]
<1>1. T \in ThreadRecs BY DEF Typed
<1>2. L \in Locals BY <1>1 DEF ThreadRecs
<1>3. res \in {"ok", "progress"} /\ wi \in BOOLEAN /\ needCode \in BOOLEAN
      /\ pc \in {"code", "write"}
  BY <1>2 DEF Typed, MtDecRecs, Locals, Interrupted
<1>4. Own(t, codeRes, token, next) = U BY DEF Own
<1>30. pc = IF res = "ok" /\ needCode THEN "code" ELSE "write" OBVIOUS
<1>31. needCode = (L.needCode /\ codeRes = "ok" /\ token # "alone") OBVIOUS
<1> HIDE DEF T, L, res, wi, needCode, pc
<1> DEFINE keeps == token # "passed"
           alone == token = "alone"
<1>40. keeps \in BOOLEAN /\ alone \in BOOLEAN OBVIOUS
<1> HIDE DEF keeps, alone
<1>50. [L EXCEPT !.res = res, !.wasInterrupted = wi,
          !.codeRes = codeRes, !.needCode = needCode,
          !.finish = keeps, !.threadingError = alone,
          !.nextThread = next, !.link = 0] \in Locals
  BY <1>2, <1>3, <1>40 DEF Locals
<1>5. /\ M.res = res /\ M.wasInterrupted = wi /\ M.blockIndex = L.blockIndex
      /\ M.block = L.block /\ M.state = L.state /\ M.needWrite = L.needWrite
      /\ M.isAllocError = L.isAllocError /\ M.overflow = L.overflow
      /\ M.codePos = L.codePos /\ M.link = 0 /\ M.codeRes = codeRes
      /\ M.needCode = needCode /\ M.finish = (token # "passed")
      /\ M.threadingError = (token = "alone")
      /\ M.nextThread = next
  BY <1>2, <1>3 DEF Locals
<1>52. M \in Locals BY <1>50 DEF keeps, alone
<1> HIDE DEF M
<1>51. pc \in {"none", "wait", "fill", "pass", "code", "write", "ret"} BY <1>3
<1>6. /\ U \in ThreadRecs
      /\ U.pc = pc /\ U.inBuf = T.inBuf /\ U.inDataSize = T.inDataSize
      /\ U.inDataSize_Start = T.inDataSize_Start
      /\ U.canRead = T.canRead /\ U.canWrite = T.canWrite /\ U.loc = M
  <2>1. U \in ThreadRecs BY <1>1, <1>52, <1>51 DEF ThreadRecs
  <2>2. /\ U.pc = pc /\ U.inBuf = T.inBuf /\ U.inDataSize = T.inDataSize
        /\ U.inDataSize_Start = T.inDataSize_Start
        /\ U.canRead = T.canRead /\ U.canWrite = T.canWrite /\ U.loc = M
    BY <1>1 DEF ThreadRecs
  <2> QED BY <2>1, <2>2
<1> HIDE DEF U
<1>7. U.pc = IF res = "ok" /\ U.loc.needCode THEN "code" ELSE "write" BY <1>5, <1>6, <1>30
<1>8. Owned(t, U, codeRes, token) BY <1>5, <1>6, <1>7, <1>31, Zenon DEF Owned, T, L, res, wi
<1> QED BY <1>4, <1>5, <1>6, <1>8 DEF T

(* The ways a thread passes the read token on, or keeps it. *)
PassWay(t, codeRes) ==
    LET L == th[t].loc
        res == IF L.res = "ok" THEN p.progressRes ELSE L.res
        wi == L.wasInterrupted \/ Interrupted(L.blockIndex)
        n == Started
        finish == L.finish \/ codeRes # "ok" \/ res # "ok" \/ wi
        Goes(next) == [th EXCEPT ![t] = Own(t, codeRes, "passed", next)]
    IN
    \/ /\ finish
       /\ th' = [th EXCEPT ![t] = Own(t, codeRes, "kept", 0)]
       /\ job' = [job EXCEPT !.hit = IF codeRes = "mem" THEN job.hit \cup {"mem"} ELSE job.hit]
       /\ p' = p
    \/ /\ ~finish /\ n < p.numStartedThreads_Limit
       /\ p' = [p EXCEPT !.numStartedThreads = n + 1]
       /\ th' = SetRead(Created(Goes(NextIndex(t, n + 1)), n), NextIndex(t, n + 1))
       /\ job' = job
    \/ /\ ~finish /\ ~(n < p.numStartedThreads_Limit)
       /\ th' = SetRead(Goes(NextIndex(t, n)), NextIndex(t, n))
       /\ p' = p /\ job' = job
    \/ /\ ~finish /\ n < p.numStartedThreads_Limit
       /\ CanFail("create") /\ Failed("create") /\ n = 1
       /\ th' = [th EXCEPT ![t] = Own(t, codeRes, "alone", 0)]
       /\ p' = p
    \/ /\ ~finish /\ n < p.numStartedThreads_Limit
       /\ CanFail("create") /\ Failed("create") /\ n # 1
       /\ p' = [p EXCEPT !.numStartedThreads_Limit = n]
       /\ th' = SetRead(Goes(NextIndex(t, n)), NextIndex(t, n))

LEMMA PassCases ==
    ASSUME NEW t \in Threads, Pass(t)
    PROVE  LET L == th[t].loc
               res == IF L.res = "ok" THEN p.progressRes ELSE L.res
               wi == L.wasInterrupted \/ Interrupted(L.blockIndex)
           IN
           /\ th[t].pc = "pass"
           /\ \E codeRes \in IF res = "ok" /\ L.needCode /\ ~wi
                             THEN PreCode(L.block) ELSE {"ok"} : PassWay(t, codeRes)
  BY DEF Pass, PassWay, Started

(* What SetRead and Created do to the threads. *)
LEMMA SetReadFacts ==
    ASSUME NEW f \in [Threads -> ThreadRecs], NEW next \in Threads
    PROVE  LET g == SetRead(f, next) IN
           /\ g \in [Threads -> ThreadRecs]
           /\ \A u \in Threads :
                 /\ g[u].canRead = (f[u].canRead \/ u = next)
                 /\ g[u].pc = f[u].pc /\ g[u].canWrite = f[u].canWrite
                 /\ g[u].inBuf = f[u].inBuf /\ g[u].inDataSize = f[u].inDataSize
                 /\ g[u].inDataSize_Start = f[u].inDataSize_Start /\ g[u].loc = f[u].loc
<1> DEFINE g == [f EXCEPT ![next].canRead = TRUE]
<1>1. SetRead(f, next) = g BY DEF SetRead, Event_Set
<1>2. g[next] = [f[next] EXCEPT !.canRead = TRUE] /\ \A u \in Threads \ {next} : g[u] = f[u]
  OBVIOUS
<1>3. f[next] \in ThreadRecs OBVIOUS
<1>4. /\ g[next] \in ThreadRecs /\ g[next].canRead = TRUE
      /\ g[next].pc = f[next].pc /\ g[next].canWrite = f[next].canWrite
      /\ g[next].inBuf = f[next].inBuf /\ g[next].inDataSize = f[next].inDataSize
      /\ g[next].inDataSize_Start = f[next].inDataSize_Start /\ g[next].loc = f[next].loc
  <2> HIDE DEF g
  <2> QED BY <1>2, <1>3 DEF ThreadRecs
<1>5. g \in [Threads -> ThreadRecs] BY <1>2, <1>4
<1>6. \A u \in Threads : (f[u].canRead \in BOOLEAN) BY DEF ThreadRecs
<1> HIDE DEF g
<1> QED BY <1>1, <1>2, <1>4, <1>5, <1>6

LEMMA CreatedFacts ==
    ASSUME NEW f \in [Threads -> ThreadRecs], NEW n \in Threads
    PROVE  LET g == Created(f, n) IN
           /\ g \in [Threads -> ThreadRecs]
           /\ \A u \in Threads \ {n} : g[u] = f[u]
           /\ ~g[n].canRead /\ g[n].pc = "wait" /\ ~g[n].canWrite
           /\ g[n].inBuf = f[n].inBuf /\ g[n].inDataSize = f[n].inDataSize
           /\ g[n].inDataSize_Start = f[n].inDataSize_Start /\ g[n].loc = f[n].loc
<1> DEFINE R == [f[n] EXCEPT !.pc = "wait", !.canWrite = FALSE, !.canRead = FALSE]
<1>1. Created(f, n) = [f EXCEPT ![n] = R] BY DEF Created
<1>2. f[n] \in ThreadRecs OBVIOUS
<1>3. /\ R \in ThreadRecs
      /\ ~R.canRead /\ R.pc = "wait" /\ ~R.canWrite
      /\ R.inBuf = f[n].inBuf /\ R.inDataSize = f[n].inDataSize
      /\ R.inDataSize_Start = f[n].inDataSize_Start /\ R.loc = f[n].loc
  BY <1>2 DEF ThreadRecs
<1> HIDE DEF R
<1> QED BY <1>1, <1>3

LEMMA NextIndexIn ==
    ASSUME NEW t \in Threads, NEW n \in 0..NumThreads, t < n
    PROVE  NextIndex(t, n) \in Threads /\ NextIndex(t, n) < n
  BY Numbers DEF NextIndex, Threads

LEMMA PassMoves ==
    ASSUME Typed, NEW t \in Threads, t < Started,
           \A u \in Threads : u >= Started => Idle(u), Pass(t)
    PROVE  Typed' /\ (PassEnds(t) \/ PassOn(t))
<1> DEFINE T == th[t]
           L == T.loc
           res == IF L.res = "ok" THEN p.progressRes ELSE L.res
           wi == L.wasInterrupted \/ Interrupted(L.blockIndex)
           n == Started
<1>1. T.pc = "pass" /\ \E codeRes \in IF res = "ok" /\ L.needCode /\ ~wi
                             THEN PreCode(L.block) ELSE {"ok"} : PassWay(t, codeRes)
  BY PassCases
<1>2. p \in MtDecRecs /\ th \in [Threads -> ThreadRecs] /\ job \in JobRecs BY DEF Typed
<1>3. T \in ThreadRecs /\ L \in Locals BY <1>2 DEF ThreadRecs
<1>4. PICK codeRes \in IF res = "ok" /\ L.needCode /\ ~wi THEN PreCode(L.block) ELSE {"ok"} :
         PassWay(t, codeRes)
  BY <1>1
<1> DEFINE finish == L.finish \/ codeRes # "ok" \/ res # "ok" \/ wi
           Goes(next) == [th EXCEPT ![t] = Own(t, codeRes, "passed", next)]
<1>5. /\ codeRes \in {"ok", "data", "mem"}
      /\ res = "ok" /\ L.needCode /\ ~wi => (L.block = 0 <=> codeRes = "data")
      /\ ~(res = "ok" /\ L.needCode /\ ~wi) => codeRes = "ok"
      /\ codeRes = "mem" => CanFail("mem")
  BY <1>4 DEF PreCode
<1>6. /\ n \in 0..NumThreads /\ p.numStartedThreads_Limit \in 0..NumThreads
      /\ n < p.numStartedThreads_Limit => n \in Threads /\ n + 1 \in 0..NumThreads /\ t < n + 1
      /\ t \in Nat /\ t < n
  BY <1>2, Numbers DEF MtDecRecs, Started, Threads
<1>7. 0 \in Threads /\ L.needCode \in BOOLEAN BY <1>3, Numbers DEF Locals, Threads
<1>8. SameStops /\ p'.readPos = p.readPos /\ p'.cross = p.cross
         /\ p'.readWasFinished = p.readWasFinished /\ p'.readRes = p.readRes
         /\ p'.blockIndex = p.blockIndex /\ p'.exitThread = p.exitThread
         /\ p'.interruptIndex = p.interruptIndex
         /\ p'.progressRes = p.progressRes
         /\ p' \in MtDecRecs
  <2>1. \/ p' = p
        \/ n + 1 \in 0..NumThreads /\ p' = [p EXCEPT !.numStartedThreads = n + 1]
        \/ p' = [p EXCEPT !.numStartedThreads_Limit = n]
    BY <1>4, <1>6 DEF PassWay
  <2> QED BY <1>2, <1>6, <2>1, ZenonT(60) DEF MtDecRecs, SameStops
<1>9. /\ SameCall /\ job'.limit = job.limit /\ job' \in JobRecs
      /\ \E f \in {"mem", "create"} : Fails(f)
  <2>1. \/ job' = job
        \/ job' = [job EXCEPT !.hit = job.hit \cup {"mem"}] /\ CanFail("mem")
        \/ job' = [job EXCEPT !.hit = job.hit \cup {"create"}] /\ CanFail("create")
    BY <1>4, <1>2, <1>5 DEF PassWay, JobRecs, Failed
  <2>2. CASE job' = job BY <1>2, <1>8, <2>2 DEF SameCall, Fails
  <2>3. ASSUME NEW f \in {"mem", "create"}, job' = [job EXCEPT !.hit = job.hit \cup {f}], CanFail(f)
        PROVE  SameCall /\ job'.limit = job.limit /\ job' \in JobRecs /\ Fails(f)
    <3>1. f \in Faults /\ f \notin job.hit BY <2>3 DEF CanFail
    <3>2. job.hit \cup {f} \in SUBSET Faults BY <1>2, <3>1 DEF JobRecs
    <3> QED BY <1>8, <2>3, <3>1, <3>2, HitFacts DEF Fails
  <2> QED BY <2>1, <2>2, <2>3, Zenon
<1>10. SameInput BY <1>8, <1>9 DEF SameInput
<1>11. ASSUME NEW token \in {"passed", "kept", "alone"}, Owned(t, th'[t], codeRes, token)
       PROVE  PassBase(t)
  BY <1>1, <1>5, <1>8, <1>9, <1>10, <1>11 DEF PassBase, Owned
<1>13. ASSUME NEW token \in {"kept", "alone"}, p' = p,
              token = IF finish THEN "kept" ELSE "alone",
              th' = [th EXCEPT ![t] = Own(t, codeRes, token, 0)]
       PROVE  Typed' /\ PassEnds(t)
  <2> DEFINE U == Own(t, codeRes, token, 0)
  <2>1. U \in ThreadRecs /\ Owned(t, U, codeRes, token) /\ U.canRead = T.canRead
    BY <1>5, <1>7, OwnFacts
  <2>2. th' = [th EXCEPT ![t] = U] BY <1>13
  <2> HIDE DEF U
  <2>3. th'[t] = U /\ OnlyThread(t) /\ th' \in [Threads -> ThreadRecs]
    BY <1>2, <2>1, <2>2 DEF OnlyThread
  <2>4. PassBase(t) BY <1>11, <1>13, <2>1, <2>3
  <2>5. SameTokens BY <1>13 DEF SameTokens
  <2>6. th'[t].loc.finish /\ th'[t].loc.codeRes = codeRes /\ th'[t].loc.res = res
        /\ th'[t].loc.wasInterrupted = wi /\ th'[t].loc.threadingError = (token = "alone")
    BY <2>1, <2>3 DEF Owned
  <2>7. PassEnds(t) BY <1>13, <2>1, <2>3, <2>4, <2>5, <2>6 DEF PassEnds
  <2> QED BY <1>8, <1>9, <2>3, <2>7 DEF Typed
<1> DEFINE N == p'.numStartedThreads
           next == NextIndex(t, N)
<1>14. ASSUME ~finish, next \in Threads, N \in {n, n + 1},
              N = n + 1 => n \in Threads /\ Idle(n),
              th' = SetRead(IF N = n + 1 THEN Created(Goes(next), n) ELSE Goes(next), next),
              \/ /\ Started < p.numStartedThreads_Limit
                 /\ p'.numStartedThreads = Started + 1
                 /\ p'.numStartedThreads_Limit = p.numStartedThreads_Limit
              \/ /\ Started >= p.numStartedThreads_Limit
                 /\ p'.numStartedThreads = Started
                 /\ p'.numStartedThreads_Limit = p.numStartedThreads_Limit
              \/ /\ Started < p.numStartedThreads_Limit /\ Started # 1
                 /\ p'.numStartedThreads = Started
                 /\ p'.numStartedThreads_Limit = Started
       PROVE  Typed' /\ PassOn(t)
  <2> DEFINE U == Own(t, codeRes, "passed", next)
             f == Goes(next)
             g == IF N = n + 1 THEN Created(f, n) ELSE f
  <2>1. /\ U \in ThreadRecs /\ Owned(t, U, codeRes, "passed")
        /\ U.canRead = T.canRead /\ U.loc.nextThread = next
    BY <1>5, <1>14, OwnFacts
  <2>2. f = [th EXCEPT ![t] = U] OBVIOUS
  <2>3. th' = SetRead(g, next) BY <1>14, Zenon
  <2> HIDE DEF U, f
  <2>4. f \in [Threads -> ThreadRecs] /\ f[t] = U /\ \A u \in Threads \ {t} : f[u] = th[u]
    BY <1>2, <2>1, <2>2
  <2>5. N = n + 1 => n \in Threads /\ n # t /\ f[n] = th[n] /\ ~th[n].canRead /\ ~th[n].canWrite
    BY <1>6, <1>14, <2>4 DEF Idle
  <2>6. /\ g \in [Threads -> ThreadRecs] /\ g[t] = U
        /\ \A u \in Threads \ {t} :
              /\ g[u].canRead = th[u].canRead /\ g[u].canWrite = th[u].canWrite
              /\ g[u].inBuf = th[u].inBuf
              /\ g[u].inDataSize = th[u].inDataSize
              /\ g[u].inDataSize_Start = th[u].inDataSize_Start
              /\ g[u].loc = th[u].loc
              /\ g[u].pc = IF u = n /\ N = n + 1 THEN "wait" ELSE th[u].pc
    <3>1. CASE N = n + 1
      <4>1. n \in Threads BY <2>5, <3>1
      <4>2. /\ g \in [Threads -> ThreadRecs]
            /\ \A u \in Threads \ {n} : g[u] = f[u]
            /\ ~g[n].canRead /\ g[n].pc = "wait" /\ ~g[n].canWrite
            /\ g[n].inBuf = f[n].inBuf /\ g[n].inDataSize = f[n].inDataSize
            /\ g[n].inDataSize_Start = f[n].inDataSize_Start /\ g[n].loc = f[n].loc
        BY <2>4, <3>1, <4>1, CreatedFacts
      <4>3. g[n] \in ThreadRecs /\ th[n] \in ThreadRecs BY <1>2, <4>1, <4>2
      <4>4. g[n].canRead = th[n].canRead /\ g[n].canWrite = th[n].canWrite
        BY <2>5, <3>1, <4>2, <4>3 DEF ThreadRecs
      <4> HIDE DEF g
      <4> QED BY <2>4, <2>5, <3>1, <4>1, <4>2, <4>4
    <3>2. CASE N # n + 1 BY <3>2, <2>4
    <3> QED BY <3>1, <3>2
  <2>70. next \in Threads BY <1>14
  <2> HIDE DEF g, next
  <2>7. /\ th' \in [Threads -> ThreadRecs]
        /\ \A u \in Threads :
              /\ th'[u].canRead = (g[u].canRead \/ u = next)
              /\ th'[u].pc = g[u].pc /\ th'[u].canWrite = g[u].canWrite
              /\ th'[u].inBuf = g[u].inBuf /\ th'[u].inDataSize = g[u].inDataSize
              /\ th'[u].inDataSize_Start = g[u].inDataSize_Start /\ th'[u].loc = g[u].loc
    BY <2>3, <2>6, <2>70, SetReadFacts
  <2>8. Owned(t, th'[t], codeRes, "passed") /\ th'[t].loc.nextThread = next
    BY <2>1, <2>6, <2>7 DEF Owned
  <2>9. PassBase(t) BY <1>11, <2>8
  <2>10. /\ ~T.loc.finish /\ ~th'[t].loc.finish /\ th'[t].loc.codeRes = "ok" /\ th'[t].loc.res = "ok"
         /\ ~th'[t].loc.wasInterrupted /\ ~th'[t].loc.threadingError
    BY <1>14, <2>8 DEF Owned
  <2>11. \A u \in Threads : th'[u].canRead = (th[u].canRead \/ u = next) BY <2>1, <2>6, <2>7
  <2>12. \A u \in Threads \ {t} :
          /\ th'[u].canWrite = th[u].canWrite /\ th'[u].inBuf = th[u].inBuf
          /\ th'[u].inDataSize = th[u].inDataSize
          /\ th'[u].inDataSize_Start = th[u].inDataSize_Start
          /\ th'[u].loc = th[u].loc
          /\ th'[u].pc = IF u = Started /\ p'.numStartedThreads = Started + 1
                         THEN "wait" ELSE th[u].pc
    BY <2>6, <2>7
  <2>13. PassOn(t) BY <1>14, <2>8, <2>9, <2>10, <2>11, <2>12, Zenon DEF PassOn, next
  <2> QED BY <1>8, <1>9, <2>7, <2>13 DEF Typed
<1>20. CASE finish /\ th' = [th EXCEPT ![t] = Own(t, codeRes, "kept", 0)] /\ p' = p
  BY <1>13, <1>20
<1>21. CASE /\ ~finish /\ n < p.numStartedThreads_Limit
            /\ p' = [p EXCEPT !.numStartedThreads = n + 1]
            /\ th' = SetRead(Created(Goes(NextIndex(t, n + 1)), n), NextIndex(t, n + 1))
  BY <1>2, <1>21, <1>6, NextIndexIn, <1>14 DEF MtDecRecs
<1>22. CASE /\ ~finish /\ ~(n < p.numStartedThreads_Limit)
            /\ th' = SetRead(Goes(NextIndex(t, n)), NextIndex(t, n))
            /\ p' = p
  BY <1>6, <1>22, NextIndexIn, <1>14 DEF Started
<1>23. CASE /\ ~finish /\ n < p.numStartedThreads_Limit /\ p' = p
            /\ th' = [th EXCEPT ![t] = Own(t, codeRes, "alone", 0)]
  BY <1>13, <1>23
<1>24. CASE /\ ~finish /\ n < p.numStartedThreads_Limit /\ n # 1
            /\ p' = [p EXCEPT !.numStartedThreads_Limit = n]
            /\ th' = SetRead(Goes(NextIndex(t, n)), NextIndex(t, n))
  BY <1>2, <1>6, <1>24, NextIndexIn, <1>14 DEF MtDecRecs, Started
<1> QED BY <1>4, <1>20, <1>21, <1>22, <1>23, <1>24, Zenon DEF PassWay

-----------------------------------------------------------------------------
(* ... decoding, ...                                                       *)

(* A step without a token leaves all but pc, loc and the errors alone. *)
OnlyDecodes(t) ==
    LET T == th[t]
        U == th'[t]
        L == T.loc
        M == U.loc
    IN
    /\ T.pc = "code" /\ U.pc \in {"code", "write"}
    /\ U.inBuf = T.inBuf /\ U.inDataSize = T.inDataSize
    /\ U.inDataSize_Start = T.inDataSize_Start
    /\ U.canWrite = T.canWrite /\ U.canRead = T.canRead
    /\ M.blockIndex = L.blockIndex /\ M.block = L.block /\ M.state = L.state
    /\ M.finish = L.finish /\ M.needCode = L.needCode /\ M.needWrite = L.needWrite
    /\ M.isAllocError = L.isAllocError /\ M.overflow = L.overflow
    /\ M.threadingError = L.threadingError /\ M.nextThread = L.nextThread
    /\ OnlyThread(t) /\ SameTokens /\ SameStops /\ SameInput /\ SameCall

(* How much of the input one call of Code gets, and how it ends. *)
InSize(t) ==
    LET T == th[t]
        rem == T.inDataSize - T.loc.codePos
    IN  IF T.loc.link + 1 = 1 THEN T.inDataSize_Start
        ELSE IF rem < InBufSize THEN rem ELSE InBufSize
CodeData(t) == SubSeq(th[t].inBuf[th[t].loc.link + 1], 1, InSize(t))
KnownEnd(L) == L.state \in {"new", "end"} /\ Kind(L.block) # "junk"
CodeFails(t) ==
    LET L == th[t].loc IN
    \/ Contains(CodeData(t), BlockEnd(L.block)) /\ Kind(L.block) \in {"bad", "junk"}
    \/ KnownEnd(L) /\ Contains(CodeData(t), BlockEnd(L.block) + 1)
CodeStops(t) ==
    LET L == th[t].loc IN
    \/ KnownEnd(L) /\ Contains(CodeData(t), BlockEnd(L.block))
    \/ L.codePos + InSize(t) = th[t].inDataSize

CodeStep(t) ==
    LET T == th[t]
        U == th'[t]
        L == T.loc
        M == U.loc
    IN
    /\ OnlyDecodes(t) /\ ~L.wasInterrupted
    /\ M.link = L.link + 1 /\ M.codePos = L.codePos + InSize(t)
    /\ \/ /\ CodeFails(t) /\ U.pc = "write" /\ M.codeRes = "data"
          /\ M.res = L.res /\ ~M.wasInterrupted
          /\ p'.interruptIndex = Interrupt(L.blockIndex)
          /\ p'.progressRes = p.progressRes /\ job'.hit = job.hit
       \/ /\ ~CodeFails(t) /\ CodeStops(t) /\ U.pc = "write" /\ M.codeRes = L.codeRes
          /\ M.res = L.res /\ ~M.wasInterrupted
          /\ p'.interruptIndex = p.interruptIndex
          /\ p'.progressRes = p.progressRes /\ job'.hit = job.hit
       \/ /\ ~CodeFails(t) /\ ~CodeStops(t) /\ M.codeRes = L.codeRes
          /\ p'.interruptIndex = p.interruptIndex /\ Progress
          /\ M.res = p'.progressRes /\ M.wasInterrupted = Interrupted(L.blockIndex)
          /\ U.pc = IF M.res = "ok" /\ ~M.wasInterrupted THEN "code" ELSE "write"

UnpreparedStep(t) ==
    LET L == th[t].loc
        M == th'[t].loc
    IN
    /\ OnlyDecodes(t) /\ L.wasInterrupted /\ M.wasInterrupted
    /\ th'[t].pc = "write" /\ M.link = L.link /\ M.codePos = L.codePos
    /\ M.res = L.res /\ p'.progressRes = p.progressRes /\ job'.hit = job.hit
    /\ \/ M.codeRes = L.codeRes /\ p'.interruptIndex = p.interruptIndex
       \/ M.codeRes = "data" /\ p'.interruptIndex = Interrupt(L.blockIndex)

LEMMA LocMoves ==
    ASSUME Typed, NEW t \in Threads, NEW M \in Locals, NEW pc \in {"code", "write"},
           th' = [th EXCEPT ![t] = [th[t] EXCEPT !.pc = pc, !.loc = M]]
    PROVE  LET T == th[t]
               U == th'[t]
           IN
           /\ th' \in [Threads -> ThreadRecs] /\ OnlyThread(t)
           /\ U.pc = pc /\ U.loc = M /\ U.inBuf = T.inBuf /\ U.inDataSize = T.inDataSize
           /\ U.inDataSize_Start = T.inDataSize_Start
           /\ U.canWrite = T.canWrite /\ U.canRead = T.canRead
<1> DEFINE T == th[t]
           R == [T EXCEPT !.pc = pc, !.loc = M]
<1>1. th \in [Threads -> ThreadRecs] /\ T \in ThreadRecs BY DEF Typed
<1>2. R \in ThreadRecs BY <1>1 DEF ThreadRecs
<1>3. /\ R.pc = pc /\ R.loc = M /\ R.inBuf = T.inBuf /\ R.inDataSize = T.inDataSize
      /\ R.inDataSize_Start = T.inDataSize_Start
      /\ R.canWrite = T.canWrite /\ R.canRead = T.canRead
  BY <1>1 DEF ThreadRecs
<1>4. th' = [th EXCEPT ![t] = R] OBVIOUS
<1> HIDE DEF R
<1>5. th'[t] = R /\ th' \in [Threads -> ThreadRecs] /\ OnlyThread(t)
  BY <1>1, <1>2, <1>4 DEF OnlyThread
<1> QED BY <1>3, <1>5

LEMMA InterruptType ==
    ASSUME Typed, NEW i \in Nat
    PROVE  Interrupt(i) \in Nat /\ Interrupted(i) \in BOOLEAN
  BY DEF Typed, MtDecRecs, Interrupt, Interrupted

(* p and job in the steps that decode. *)
LEMMA InterruptMoves ==
    ASSUME Typed, NEW i \in Nat,
           \/ p' = [p EXCEPT !.interruptIndex = i] /\ job' = job
           \/ p' = p /\ job' = job /\ i = p.interruptIndex
    PROVE  /\ p' \in MtDecRecs /\ job' \in JobRecs
           /\ SameTokens /\ SameStops /\ SameInput /\ SameCall
           /\ p'.interruptIndex = i
           /\ p'.progressRes = p.progressRes /\ job'.hit = job.hit
<1>1. p \in MtDecRecs /\ job \in JobRecs BY DEF Typed
<1>2. /\ p' \in MtDecRecs /\ SameTokens /\ SameStops
      /\ p'.interruptIndex = i /\ p'.progressRes = p.progressRes
      /\ p'.readPos = p.readPos /\ p'.cross = p.cross
      /\ p'.readWasFinished = p.readWasFinished /\ p'.readRes = p.readRes
  BY <1>1 DEF MtDecRecs, SameTokens, SameStops
<1> QED BY <1>1, <1>2 DEF SameInput, SameCall

LEMMA ProgressMoves ==
    ASSUME Typed, NEW pr \in AfterProgress,
           p' = [p EXCEPT !.progressRes = pr], job' = [job EXCEPT !.hit = Hits(pr)]
    PROVE  /\ p' \in MtDecRecs /\ job' \in JobRecs /\ pr \in {"ok", "progress"}
           /\ SameTokens /\ SameStops /\ SameInput /\ SameCall
           /\ p'.interruptIndex = p.interruptIndex /\ p'.progressRes = pr /\ Progress
<1>1. p \in MtDecRecs /\ job \in JobRecs BY DEF Typed
<1>2. /\ pr \in {"ok", "progress"} /\ Hits(pr) \in SUBSET Faults
      /\ pr # p.progressRes => pr = "progress" /\ p.progressRes = "ok"
      /\ Hits(pr) \subseteq job.hit \cup {"progress"} /\ job.hit \subseteq Hits(pr)
      /\ "progress" \in Hits(pr) <=> ("progress" \in job.hit \/ pr # p.progressRes)
  BY ProgressFacts
<1>3. job' \in JobRecs /\ SameCall /\ job'.limit = job.limit /\ job'.hit = Hits(pr)
  BY <1>2, HitFacts
<1>4. /\ p' \in MtDecRecs /\ SameTokens /\ SameStops
      /\ p'.interruptIndex = p.interruptIndex /\ p'.progressRes = pr
      /\ p'.readPos = p.readPos /\ p'.cross = p.cross
      /\ p'.readWasFinished = p.readWasFinished /\ p'.readRes = p.readRes
  BY <1>1, <1>2 DEF MtDecRecs, SameTokens, SameStops
<1> QED BY <1>2, <1>3, <1>4 DEF SameInput, Progress

(* One link decoded, with the result codeRes. *)
Decoded(t, L) == [L EXCEPT !.link = th[t].loc.link + 1, !.codePos = L.codePos + InSize(t)]

LEMMA CodeCases ==
    ASSUME NEW t \in Threads, Code(t)
    PROVE  LET L == th[t].loc
               Did(pc, M) == [th[t] EXCEPT !.pc = pc, !.loc = Decoded(t, M)]
           IN
           /\ th[t].pc = "code" /\ ~L.wasInterrupted
           /\ \/ /\ CodeFails(t)
                 /\ p' = [p EXCEPT !.interruptIndex = Interrupt(L.blockIndex)]
                 /\ th' = [th EXCEPT ![t] = Did("write", [L EXCEPT !.codeRes = "data"])]
                 /\ job' = job
              \/ /\ ~CodeFails(t) /\ CodeStops(t)
                 /\ th' = [th EXCEPT ![t] = Did("write", L)]
                 /\ p' = p /\ job' = job
              \/ /\ ~CodeFails(t) /\ ~CodeStops(t)
                 /\ \E pr \in AfterProgress :
                       /\ p' = [p EXCEPT !.progressRes = pr]
                       /\ job' = [job EXCEPT !.hit = Hits(pr)]
                       /\ th' = [th EXCEPT ![t] =
                             Did(IF pr = "ok" /\ ~Interrupted(L.blockIndex) THEN "code" ELSE "write",
                                 [L EXCEPT !.res = pr, !.wasInterrupted = Interrupted(L.blockIndex)])]
  BY Zenon DEF Code, CodeFails, CodeStops, KnownEnd, CodeData, InSize, Decoded

LEMMA InSizeType ==
    ASSUME Typed, NEW t \in Threads
    PROVE  InSize(t) \in Int
<1>1. th[t] \in ThreadRecs BY DEF Typed
<1>2. th[t].inDataSize \in Nat /\ th[t].inDataSize_Start \in Nat /\ th[t].loc \in Locals
  BY <1>1 DEF ThreadRecs
<1>3. th[t].loc.codePos \in Int BY <1>2 DEF Locals
<1>4. th[t].inDataSize - th[t].loc.codePos \in Int /\ InBufSize \in Int BY <1>2, <1>3, Numbers
<1> QED BY <1>2, <1>4 DEF InSize

LEMMA DecodedFacts ==
    ASSUME Typed, NEW t \in Threads, NEW L \in Locals
    PROVE  LET M == Decoded(t, L) IN
           /\ M \in Locals /\ M.link = th[t].loc.link + 1
           /\ M.codePos = L.codePos + InSize(t)
           /\ M.blockIndex = L.blockIndex /\ M.block = L.block /\ M.state = L.state
           /\ M.finish = L.finish /\ M.needCode = L.needCode /\ M.needWrite = L.needWrite
           /\ M.isAllocError = L.isAllocError /\ M.overflow = L.overflow
           /\ M.threadingError = L.threadingError /\ M.nextThread = L.nextThread
           /\ M.res = L.res /\ M.wasInterrupted = L.wasInterrupted /\ M.codeRes = L.codeRes
<1> DEFINE a == th[t].loc.link + 1
           b == L.codePos + InSize(t)
<1>1. a \in Nat /\ b \in Int BY InSizeType, SMTT(30) DEF Typed, ThreadRecs, Locals
<1>2. Decoded(t, L) = [L EXCEPT !.link = a, !.codePos = b] BY DEF Decoded
<1> HIDE DEF a, b
<1>3. /\ Decoded(t, L) \in Locals
      /\ Decoded(t, L).link = a /\ Decoded(t, L).codePos = b
  BY <1>1, <1>2 DEF Locals
<1>4. LET M == Decoded(t, L) IN
           /\ M.blockIndex = L.blockIndex /\ M.block = L.block /\ M.state = L.state
           /\ M.finish = L.finish /\ M.needCode = L.needCode /\ M.needWrite = L.needWrite
           /\ M.isAllocError = L.isAllocError /\ M.overflow = L.overflow
           /\ M.threadingError = L.threadingError /\ M.nextThread = L.nextThread
           /\ M.res = L.res /\ M.wasInterrupted = L.wasInterrupted /\ M.codeRes = L.codeRes
  BY <1>2 DEF Locals
<1> QED BY <1>3, <1>4 DEF a, b

LEMMA CodeMoves ==
    ASSUME Typed, NEW t \in Threads, Code(t)
    PROVE  Typed' /\ CodeStep(t)
<1> DEFINE T == th[t]
           L == T.loc
           Did(pc, M) == [th[t] EXCEPT !.pc = pc, !.loc = Decoded(t, M)]
           Same(M) ==
              /\ M.blockIndex = L.blockIndex /\ M.block = L.block /\ M.state = L.state
              /\ M.finish = L.finish /\ M.needCode = L.needCode /\ M.needWrite = L.needWrite
              /\ M.isAllocError = L.isAllocError /\ M.overflow = L.overflow
              /\ M.threadingError = L.threadingError /\ M.nextThread = L.nextThread
              /\ M.codePos = L.codePos
<1>1. T.pc = "code" /\ ~L.wasInterrupted BY CodeCases
<1>2. p \in MtDecRecs /\ th \in [Threads -> ThreadRecs] /\ job \in JobRecs BY DEF Typed
<1>3. T \in ThreadRecs /\ L \in Locals BY <1>2 DEF ThreadRecs
<1>4. L.blockIndex \in Nat /\ Same(L) BY <1>3 DEF Locals
<1>5. Interrupt(L.blockIndex) \in Nat /\ Interrupted(L.blockIndex) \in BOOLEAN
  BY <1>4, InterruptType
<1>6. ASSUME NEW M \in Locals, NEW pc \in {"code", "write"}, Same(M), th' = [th EXCEPT ![t] = Did(pc, M)],
             SameTokens, SameStops, SameInput, SameCall
      PROVE  /\ th' \in [Threads -> ThreadRecs] /\ OnlyDecodes(t) /\ th'[t].pc = pc
             /\ th'[t].loc.link = L.link + 1 /\ th'[t].loc.codePos = L.codePos + InSize(t)
             /\ th'[t].loc.res = M.res /\ th'[t].loc.wasInterrupted = M.wasInterrupted
             /\ th'[t].loc.codeRes = M.codeRes
  <2> DEFINE R == Decoded(t, M)
  <2>1. /\ R \in Locals /\ R.link = L.link + 1
        /\ R.codePos = L.codePos + InSize(t)
        /\ R.blockIndex = L.blockIndex /\ R.block = L.block /\ R.state = L.state
        /\ R.finish = L.finish /\ R.needCode = L.needCode /\ R.needWrite = L.needWrite
        /\ R.isAllocError = L.isAllocError /\ R.overflow = L.overflow
        /\ R.threadingError = L.threadingError /\ R.nextThread = L.nextThread
        /\ R.res = M.res /\ R.wasInterrupted = M.wasInterrupted /\ R.codeRes = M.codeRes
    BY <1>6, DecodedFacts
  <2>2. th' = [th EXCEPT ![t] = [th[t] EXCEPT !.pc = pc, !.loc = R]] BY <1>6, Zenon
  <2> HIDE DEF R
  <2>3. /\ th' \in [Threads -> ThreadRecs] /\ OnlyThread(t)
        /\ th'[t].pc = pc /\ th'[t].loc = R /\ th'[t].inBuf = T.inBuf /\ th'[t].inDataSize = T.inDataSize
        /\ th'[t].inDataSize_Start = T.inDataSize_Start
        /\ th'[t].canWrite = T.canWrite /\ th'[t].canRead = T.canRead
    BY <2>1, <2>2, LocMoves
  <2> QED BY <1>1, <1>6, <2>1, <2>3 DEF OnlyDecodes
<1> HIDE DEF Same
<1>7. CASE /\ CodeFails(t)
           /\ p' = [p EXCEPT !.interruptIndex = Interrupt(L.blockIndex)]
           /\ th' = [th EXCEPT ![t] = Did("write", [L EXCEPT !.codeRes = "data"])]
           /\ job' = job
  <2> DEFINE M == [L EXCEPT !.codeRes = "data"]
  <2>1. M \in Locals /\ M.codeRes = "data" /\ M.res = L.res /\ M.wasInterrupted = L.wasInterrupted
    BY <1>3 DEF Locals
  <2>2. Same(M) BY <1>3 DEF Locals, Same
  <2>3. th' = [th EXCEPT ![t] = Did("write", M)] BY <1>7, Zenon
  <2>4. /\ p' \in MtDecRecs /\ job' \in JobRecs
        /\ SameTokens /\ SameStops /\ SameInput /\ SameCall
        /\ p'.interruptIndex = Interrupt(L.blockIndex)
        /\ p'.progressRes = p.progressRes /\ job'.hit = job.hit
    BY <1>5, <1>7, InterruptMoves
  <2> HIDE DEF M, Did
  <2>5. /\ th' \in [Threads -> ThreadRecs] /\ OnlyDecodes(t) /\ th'[t].pc = "write"
        /\ th'[t].loc.link = L.link + 1 /\ th'[t].loc.codePos = L.codePos + InSize(t)
        /\ th'[t].loc.res = M.res /\ th'[t].loc.wasInterrupted = M.wasInterrupted
        /\ th'[t].loc.codeRes = M.codeRes
    BY <1>6, <2>1, <2>2, <2>3, <2>4
  <2>6. CodeStep(t) BY <1>1, <1>7, <2>1, <2>4, <2>5 DEF CodeStep
  <2> QED BY <2>4, <2>5, <2>6 DEF Typed
<1>8. CASE /\ ~CodeFails(t) /\ CodeStops(t)
           /\ th' = [th EXCEPT ![t] = Did("write", L)]
           /\ p' = p /\ job' = job
  <2>1. p.interruptIndex \in Nat BY <1>2 DEF MtDecRecs
  <2>4. /\ p' \in MtDecRecs /\ job' \in JobRecs
        /\ SameTokens /\ SameStops /\ SameInput /\ SameCall
        /\ p'.interruptIndex = p.interruptIndex
        /\ p'.progressRes = p.progressRes /\ job'.hit = job.hit
    BY <1>8, <2>1, InterruptMoves
  <2> HIDE DEF Did
  <2>5. /\ th' \in [Threads -> ThreadRecs] /\ OnlyDecodes(t) /\ th'[t].pc = "write"
        /\ th'[t].loc.link = L.link + 1 /\ th'[t].loc.codePos = L.codePos + InSize(t)
        /\ th'[t].loc.res = L.res /\ th'[t].loc.wasInterrupted = L.wasInterrupted
        /\ th'[t].loc.codeRes = L.codeRes
    BY <1>3, <1>4, <1>6, <1>8, <2>4
  <2>6. CodeStep(t) BY <1>1, <1>8, <2>4, <2>5 DEF CodeStep
  <2> QED BY <2>4, <2>5, <2>6 DEF Typed
<1>9. CASE /\ ~CodeFails(t) /\ ~CodeStops(t)
           /\ \E pr \in AfterProgress :
                 /\ p' = [p EXCEPT !.progressRes = pr]
                 /\ job' = [job EXCEPT !.hit = Hits(pr)]
                 /\ th' = [th EXCEPT ![t] =
                       Did(IF pr = "ok" /\ ~Interrupted(L.blockIndex) THEN "code" ELSE "write",
                           [L EXCEPT !.res = pr, !.wasInterrupted = Interrupted(L.blockIndex)])]
  <2> DEFINE M(pr) == [L EXCEPT !.res = pr, !.wasInterrupted = Interrupted(L.blockIndex)]
             pc(pr) == IF pr = "ok" /\ ~Interrupted(L.blockIndex) THEN "code" ELSE "write"
  <2>0. PICK pr \in AfterProgress :
            /\ p' = [p EXCEPT !.progressRes = pr]
            /\ job' = [job EXCEPT !.hit = Hits(pr)]
            /\ th' = [th EXCEPT ![t] = Did(pc(pr), M(pr))]
    BY <1>9, Zenon
  <2>4. /\ p' \in MtDecRecs /\ job' \in JobRecs /\ pr \in {"ok", "progress"}
        /\ SameTokens /\ SameStops /\ SameInput /\ SameCall
        /\ p'.interruptIndex = p.interruptIndex /\ p'.progressRes = pr /\ Progress
    BY <2>0, ProgressMoves
  <2>1. /\ M(pr) \in Locals /\ M(pr).codeRes = L.codeRes /\ M(pr).res = pr
        /\ M(pr).wasInterrupted = Interrupted(L.blockIndex)
    BY <1>3, <1>5, <2>4 DEF Locals
  <2>2. Same(M(pr)) BY <1>3 DEF Locals, Same
  <2>3. pc(pr) \in {"code", "write"} OBVIOUS
  <2> HIDE DEF M, Did
  <2>5. /\ th' \in [Threads -> ThreadRecs] /\ OnlyDecodes(t) /\ th'[t].pc = pc(pr)
        /\ th'[t].loc.link = L.link + 1 /\ th'[t].loc.codePos = L.codePos + InSize(t)
        /\ th'[t].loc.res = M(pr).res /\ th'[t].loc.wasInterrupted = M(pr).wasInterrupted
        /\ th'[t].loc.codeRes = M(pr).codeRes
    <3> HIDE DEF pc
    <3> QED BY <1>6, <2>0, <2>1, <2>2, <2>3, <2>4
  <2>6. CodeStep(t) BY <1>1, <1>9, <2>1, <2>4, <2>5 DEF CodeStep
  <2> QED BY <2>4, <2>5, <2>6 DEF Typed
<1> QED BY <1>7, <1>8, <1>9, CodeCases, Zenon

LEMMA UnpreparedMoves ==
    ASSUME Typed, NEW t \in Threads, CodeUnprepared(t)
    PROVE  Typed' /\ UnpreparedStep(t)
<1> DEFINE T == th[t]
           L == T.loc
<1>1. T.pc = "code" /\ L.wasInterrupted /\ job' = job BY DEF CodeUnprepared
<1>2. p \in MtDecRecs /\ th \in [Threads -> ThreadRecs] /\ job \in JobRecs BY DEF Typed
<1>3. T \in ThreadRecs /\ L \in Locals BY <1>2 DEF ThreadRecs
<1>4. L.blockIndex \in Nat /\ p.interruptIndex \in Nat BY <1>2, <1>3 DEF Locals, MtDecRecs
<1>5. Interrupt(L.blockIndex) \in Nat BY <1>4, InterruptType
<1>6. ASSUME NEW M, M \in Locals, M.link = L.link /\ M.codePos = L.codePos /\ M.res = L.res,
             M.wasInterrupted = L.wasInterrupted,
             M.blockIndex = L.blockIndex /\ M.block = L.block /\ M.state = L.state,
             M.finish = L.finish /\ M.needCode = L.needCode /\ M.needWrite = L.needWrite,
             M.isAllocError = L.isAllocError /\ M.overflow = L.overflow,
             M.threadingError = L.threadingError /\ M.nextThread = L.nextThread,
             th' = [th EXCEPT ![t] = [T EXCEPT !.pc = "write", !.loc = M]],
             \/ M.codeRes = L.codeRes /\ p' = p
             \/ M.codeRes = "data" /\ p' = [p EXCEPT !.interruptIndex = Interrupt(L.blockIndex)]
      PROVE  Typed' /\ UnpreparedStep(t)
  <2>1. /\ p' \in MtDecRecs /\ job' \in JobRecs
        /\ SameTokens /\ SameStops /\ SameInput /\ SameCall
        /\ p'.progressRes = p.progressRes /\ job'.hit = job.hit
        /\ \/ M.codeRes = L.codeRes /\ p'.interruptIndex = p.interruptIndex
           \/ M.codeRes = "data" /\ p'.interruptIndex = Interrupt(L.blockIndex)
    BY <1>1, <1>4, InterruptMoves, <1>5, <1>6
  <2>2. /\ th' \in [Threads -> ThreadRecs] /\ OnlyThread(t)
        /\ th'[t].pc = "write" /\ th'[t].loc = M /\ th'[t].inBuf = T.inBuf /\ th'[t].inDataSize = T.inDataSize
        /\ th'[t].inDataSize_Start = T.inDataSize_Start
        /\ th'[t].canWrite = T.canWrite /\ th'[t].canRead = T.canRead
    BY <1>6, LocMoves
  <2>3. UnpreparedStep(t) BY <1>1, <1>6, <2>1, <2>2 DEF UnpreparedStep, OnlyDecodes
  <2> QED BY <2>1, <2>2, <2>3 DEF Typed
<1>7. CASE th' = [th EXCEPT ![t].pc = "write"] /\ p' = p
  <2>1. th' = [th EXCEPT ![t] = [T EXCEPT !.pc = "write", !.loc = L]]
    <3>1. [T EXCEPT !.pc = "write", !.loc = L] = [T EXCEPT !.pc = "write"]
      BY <1>3 DEF ThreadRecs
    <3> QED BY <1>7, <3>1
  <2> QED BY <1>3, <1>6, <1>7, <2>1
<1>8. CASE /\ th' = [th EXCEPT ![t].pc = "write", ![t].loc.codeRes = "data"]
           /\ p' = [p EXCEPT !.interruptIndex = Interrupt(L.blockIndex)]
  <2> DEFINE M == [L EXCEPT !.codeRes = "data"]
  <2>1. th' = [th EXCEPT ![t] = [T EXCEPT !.pc = "write", !.loc = M]]
    <3>1. [th EXCEPT ![t].pc = "write", ![t].loc.codeRes = "data"]
            = [th EXCEPT ![t] = [T EXCEPT !.pc = "write", !.loc = M]]
      BY <1>2, <1>3 DEF ThreadRecs
    <3> QED BY <1>8, <3>1
  <2>2. /\ M \in Locals /\ M.codeRes = "data" /\ M.link = L.link /\ M.codePos = L.codePos /\ M.res = L.res
        /\ M.wasInterrupted = L.wasInterrupted
    BY <1>3 DEF Locals
  <2>3. /\ M.blockIndex = L.blockIndex /\ M.block = L.block /\ M.state = L.state
        /\ M.finish = L.finish /\ M.needCode = L.needCode /\ M.needWrite = L.needWrite
        /\ M.isAllocError = L.isAllocError /\ M.overflow = L.overflow
        /\ M.threadingError = L.threadingError /\ M.nextThread = L.nextThread
    BY <1>3 DEF Locals
  <2> HIDE DEF M
  <2> QED BY <1>6, <1>8, <2>1, <2>2, <2>3
<1> QED BY <1>7, <1>8 DEF CodeUnprepared

-----------------------------------------------------------------------------
(* ... and writing.                                                        *)

(* What a thread that writes finds out, pr and res being the results of    *)
(* the progress callback and of the output stream.                         *)
Before(t, pr) == IF th[t].loc.needCode THEN pr ELSE th[t].loc.res
NoMemory(t) == ~p.wasInterrupted /\ (th[t].loc.isAllocError \/ th[t].loc.codeRes = "mem")
NoThreads(t) == ~p.wasInterrupted /\ th[t].loc.threadingError
TooBig(t) == ~p.wasInterrupted /\ th[t].loc.overflow
Stopped(t) == p.wasInterrupted \/ th[t].loc.wasInterrupted
Writable(t) == ~Stopped(t) /\ ~NoMemory(t) /\ ~NoThreads(t) /\ ~TooBig(t)
Interrupts(t, res) == p.wasInterrupted \/ NoThreads(t) \/ NoMemory(t)
    \/ TooBig(t) \/ th[t].loc.codeRes # "ok" \/ (th[t].loc.needWrite /\ res # "ok")
ToStream(t, pr) == th[t].loc.needWrite /\ Before(t, pr) = "ok" /\ Writable(t)
WholeBlock(t) == /\ th[t].loc.block # 0 /\ th[t].loc.codeRes = "ok"
                 /\ th[t].loc.codePos = BlockSize(th[t].loc.block)
GoesOn(t, pr, res) ==
    IF ~th[t].loc.needWrite THEN ~th[t].loc.finish
    ELSE ToStream(t, pr) /\ res = "ok" /\ NeedContinue(th[t].loc.state)
Keeps(t, pr, res) ==
    ~ToStream(t, pr) /\ MustKeep(th[t].loc, res,
        \/ Stopped(t) \/ NoThreads(t) \/ NoMemory(t) \/ TooBig(t)
        \/ th[t].loc.codeRes # "ok" \/ (th[t].loc.needWrite /\ res # "ok"))
Counts(t, pr, res) ==
    Keeps(t, pr, res) /\ (th[t].inDataSize # 0 \/ ~th[t].loc.finish)
EndsRun(t, pr, res) == Ends(th[t].loc.finish, GoesOn(t, pr, res))
Restarting(t, pr, res) == Restarts(th[t].loc.finish, GoesOn(t, pr, res))
Reports(t, pr, res) ==
    th[t].loc.needWrite /\ (res # "ok" \/ (~GoesOn(t, pr, res) /\ ~th[t].loc.finish))

WriteResults(t, pr) ==
    IF ~th[t].loc.needWrite THEN {Before(t, pr)}
    ELSE {"ok"} \cup IF ToStream(t, pr) /\ th[t].loc.codePos # 0 /\ CanFail("write")
                     THEN {"write"} ELSE {}

Waits(t, pr, res) ==
    [th[t] EXCEPT
       !.pc = IF EndsRun(t, pr, res) /\ t = 0 THEN "ret" ELSE "wait",
       !.canWrite = Event_Wait(FALSE, @), !.loc = NoLocals,
       !.inDataSize = IF Counts(t, pr, res) THEN @ ELSE 0,
       !.inDataSize_Start = IF Counts(t, pr, res) THEN @ ELSE 0,
       !.inBuf = IF Counts(t, pr, res) THEN @ ELSE [k \in 1..Len(@) |-> <<>>]]

NewP(t, pr, res) == [p EXCEPT
    !.progressRes = pr,
    !.wasInterrupted = Interrupts(t, res),
    !.isAllocError = @ \/ NoMemory(t),
    !.threadingError = @ \/ NoThreads(t),
    !.overflow = @ \/ TooBig(t),
    !.inProcessed = IF ToStream(t, pr) THEN @ + th[t].loc.codePos ELSE @,
    !.interruptIndex =
        IF Reports(t, pr, res) THEN Interrupt(th[t].loc.blockIndex) ELSE @,
    !.filledThreadStart =
        IF Keeps(t, pr, res) /\ p.numFilledThreads = 0 THEN t ELSE @,
    !.numFilledThreads = IF Counts(t, pr, res) THEN @ + 1 ELSE @,
    !.exitThread = @ \/ (EndsRun(t, pr, res) /\ t # 0)]
NewJob(t, pr, res) == [job EXCEPT
    !.hit = Hits(pr) \cup ({res} \cap {"write"}),
    !.emitted = IF ToStream(t, pr) /\ res = "ok" /\ WholeBlock(t)
                THEN Append(@, th[t].loc.block) ELSE @]
NewTh(t, pr, res) ==
    LET waits == [th EXCEPT ![t] = Waits(t, pr, res)] IN
    IF EndsRun(t, pr, res) THEN IF t = 0 THEN waits ELSE SetRead(waits, 0)
    ELSE IF Restarting(t, pr, res)
    THEN SetRead(SetWrite(waits, 0), 0)
    ELSE SetWrite(waits, th[t].loc.nextThread)

LEMMA WriteCases ==
    ASSUME NEW t \in Threads, Write(t)
    PROVE  /\ th[t].pc = "write" /\ th[t].canWrite
           /\ \E pr \in (IF th[t].loc.needCode THEN AfterProgress ELSE {p.progressRes}) :
              \E res \in WriteResults(t, pr) :
                 /\ p' = NewP(t, pr, res)
                 /\ job' = NewJob(t, pr, res)
                 /\ th' = NewTh(t, pr, res)
  BY ZenonT(60) DEF Write, Event_CanWait, Before, NoMemory, NoThreads, TooBig, Stopped,
     Writable, Interrupts, ToStream, WholeBlock, GoesOn, Keeps, Counts, EndsRun, Restarting,
     Reports, WriteResults, Waits, NewP, NewJob, NewTh

WriteP(t, pr, res) ==
    LET L == th[t].loc IN
    /\ p'.progressRes = pr
    /\ p'.wasInterrupted = Interrupts(t, res)
    /\ p'.isAllocError = (p.isAllocError \/ NoMemory(t))
    /\ p'.threadingError = (p.threadingError \/ NoThreads(t))
    /\ p'.overflow = (p.overflow \/ TooBig(t))
    /\ p'.interruptIndex = IF Reports(t, pr, res) THEN Interrupt(L.blockIndex)
                           ELSE p.interruptIndex
    /\ p'.filledThreadStart = IF Keeps(t, pr, res) /\ p.numFilledThreads = 0 THEN t
                              ELSE p.filledThreadStart
    /\ p'.numFilledThreads = IF Counts(t, pr, res) THEN p.numFilledThreads + 1
                             ELSE p.numFilledThreads
    /\ p'.exitThread = (p.exitThread \/ (EndsRun(t, pr, res) /\ t # 0))
    /\ p'.blockIndex = p.blockIndex
    /\ p'.numStartedThreads = p.numStartedThreads
    /\ p'.numStartedThreads_Limit = p.numStartedThreads_Limit

WriteJob(t, pr, res) ==
    LET L == th[t].loc IN
    /\ pr # p.progressRes => L.needCode /\ pr = "progress" /\ p.progressRes = "ok"
    /\ res \in {"ok", "progress", "write"}
    /\ ~L.needWrite => res = Before(t, pr)
    /\ L.needWrite => \/ res = "ok"
                      \/ res = "write" /\ ToStream(t, pr) /\ L.codePos # 0
    /\ job.hit \subseteq job'.hit
    /\ job'.hit \subseteq job.hit \cup {"progress", "write"}
    /\ "progress" \in job'.hit <=> "progress" \in job.hit \/ pr # p.progressRes
    /\ "write" \in job'.hit <=> "write" \in job.hit \/ res = "write"
    /\ res = "write" => "write" \notin job.hit
    /\ job'.emitted = IF ToStream(t, pr) /\ res = "ok" /\ WholeBlock(t)
                      THEN Append(job.emitted, L.block) ELSE job.emitted
    /\ job'.pc = job.pc /\ job'.calls = job.calls /\ job'.blocks = job.blocks
    /\ job'.data = job.data /\ job'.res = job.res /\ job'.i = job.i

WriteThreads(t, pr, res) ==
    LET T == th[t]
        U == th'[t]
        L == T.loc
    IN
    /\ U.pc = IF EndsRun(t, pr, res) /\ t = 0 THEN "ret" ELSE "wait"
    /\ U.loc = NoLocals
    /\ Counts(t, pr, res) => /\ U.inDataSize = T.inDataSize
                             /\ U.inDataSize_Start = T.inDataSize_Start
                             /\ U.inBuf = T.inBuf
    /\ ~Counts(t, pr, res) => U.inDataSize = 0 /\ U.inDataSize_Start = 0
    /\ U.inBuf = <<>> <=> T.inBuf = <<>>
    /\ \A u \in Threads \ {t} :
          /\ th'[u].pc = th[u].pc /\ th'[u].inBuf = th[u].inBuf
          /\ th'[u].inDataSize = th[u].inDataSize
          /\ th'[u].inDataSize_Start = th[u].inDataSize_Start
          /\ th'[u].loc = th[u].loc
    /\ \A u \in Threads :
          /\ th'[u].canRead <=> \/ th[u].canRead
                                \/ u = 0 /\ t # 0 /\ EndsRun(t, pr, res)
                                \/ u = 0 /\ Restarting(t, pr, res)
          /\ th'[u].canWrite <=> \/ th[u].canWrite /\ u # t
                                 \/ u = 0 /\ Restarting(t, pr, res)
                                 \/ u = L.nextThread /\ ~L.finish

WriteStep(t, pr, res) ==
    /\ th[t].pc = "write" /\ th[t].canWrite /\ SameInput
    /\ WriteP(t, pr, res) /\ WriteJob(t, pr, res) /\ WriteThreads(t, pr, res)

LEMMA SetWriteFacts ==
    ASSUME NEW f \in [Threads -> ThreadRecs], NEW next \in Threads
    PROVE  LET g == SetWrite(f, next) IN
           /\ g \in [Threads -> ThreadRecs]
           /\ \A u \in Threads :
                 /\ g[u].canWrite = (f[u].canWrite \/ u = next)
                 /\ g[u].pc = f[u].pc /\ g[u].canRead = f[u].canRead
                 /\ g[u].inBuf = f[u].inBuf /\ g[u].inDataSize = f[u].inDataSize
                 /\ g[u].inDataSize_Start = f[u].inDataSize_Start /\ g[u].loc = f[u].loc
<1> DEFINE g == [f EXCEPT ![next].canWrite = TRUE]
<1>1. SetWrite(f, next) = g BY DEF SetWrite, Event_Set
<1>2. g[next] = [f[next] EXCEPT !.canWrite = TRUE] /\ \A u \in Threads \ {next} : g[u] = f[u]
  OBVIOUS
<1>3. f[next] \in ThreadRecs OBVIOUS
<1>4. /\ g[next] \in ThreadRecs /\ g[next].canWrite = TRUE
      /\ g[next].pc = f[next].pc /\ g[next].canRead = f[next].canRead
      /\ g[next].inBuf = f[next].inBuf /\ g[next].inDataSize = f[next].inDataSize
      /\ g[next].inDataSize_Start = f[next].inDataSize_Start /\ g[next].loc = f[next].loc
  <2> HIDE DEF g
  <2> QED BY <1>2, <1>3 DEF ThreadRecs
<1>5. g \in [Threads -> ThreadRecs] BY <1>2, <1>4
<1>6. \A u \in Threads : (f[u].canWrite \in BOOLEAN) BY DEF ThreadRecs
<1> HIDE DEF g
<1> QED BY <1>1, <1>2, <1>4, <1>5, <1>6

LEMMA WriteBooleans ==
    ASSUME Typed, NEW t \in Threads
    PROVE  /\ th[t].loc.needCode \in BOOLEAN /\ th[t].loc.needWrite \in BOOLEAN
           /\ th[t].loc.finish \in BOOLEAN /\ NoMemory(t) \in BOOLEAN
           /\ NoThreads(t) \in BOOLEAN /\ TooBig(t) \in BOOLEAN /\ Stopped(t) \in BOOLEAN
           /\ th[t].loc.blockIndex \in Nat /\ th[t].loc.block \in Nat
           /\ th[t].loc.codePos \in Int /\ th[t].loc.nextThread \in Threads
           /\ th[t].loc.res \in {"ok", "progress"}
  BY DEF Typed, ThreadRecs, Locals, MtDecRecs, NoMemory, NoThreads, TooBig, Stopped

LEMMA WaitsFacts ==
    ASSUME Typed, NEW t \in Threads, NEW pr, NEW res
    PROVE  LET T == th[t]
               R == Waits(t, pr, res)
           IN
           /\ R \in ThreadRecs
           /\ R.pc = IF EndsRun(t, pr, res) /\ t = 0 THEN "ret" ELSE "wait"
           /\ R.loc = NoLocals /\ R.canRead = T.canRead /\ ~R.canWrite
           /\ Counts(t, pr, res) => /\ R.inDataSize = T.inDataSize
                                    /\ R.inDataSize_Start = T.inDataSize_Start
                                    /\ R.inBuf = T.inBuf
           /\ ~Counts(t, pr, res) => R.inDataSize = 0 /\ R.inDataSize_Start = 0
           /\ R.inBuf = <<>> <=> T.inBuf = <<>>
<1> DEFINE T == th[t]
           pc == IF EndsRun(t, pr, res) /\ t = 0 THEN "ret" ELSE "wait"
           size == IF Counts(t, pr, res) THEN T.inDataSize ELSE 0
           start == IF Counts(t, pr, res) THEN T.inDataSize_Start ELSE 0
           inBuf == IF Counts(t, pr, res) THEN T.inBuf ELSE [k \in 1..Len(T.inBuf) |-> <<>>]
           R == [T EXCEPT !.pc = pc, !.canWrite = FALSE, !.loc = NoLocals,
                    !.inDataSize = size, !.inDataSize_Start = start, !.inBuf = inBuf]
<1>1. Waits(t, pr, res) = R BY DEF Waits, Event_Wait
<1>2. T \in ThreadRecs /\ T.inBuf \in Seq(Seq(Nat)) BY DEF Typed, ThreadRecs
<1>3. inBuf \in Seq(Seq(Nat)) /\ (inBuf = <<>> <=> T.inBuf = <<>>) BY <1>2, EmptyLinks
<1>4. /\ pc \in {"none", "wait", "fill", "pass", "code", "write", "ret"}
      /\ size \in Nat /\ start \in Nat
  BY <1>2 DEF ThreadRecs
<1>5. NoLocals \in Locals BY NoLocalsType
<1>6. /\ Counts(t, pr, res) => size = T.inDataSize /\ start = T.inDataSize_Start /\ inBuf = T.inBuf
      /\ ~Counts(t, pr, res) => size = 0 /\ start = 0
      /\ pc = IF EndsRun(t, pr, res) /\ t = 0 THEN "ret" ELSE "wait"
  OBVIOUS
<1> HIDE DEF pc, size, start, inBuf
<1>7. R \in ThreadRecs BY <1>2, <1>3, <1>4, <1>5 DEF ThreadRecs
<1>8. /\ R.pc = pc /\ R.loc = NoLocals /\ R.canRead = T.canRead /\ ~R.canWrite
      /\ R.inDataSize = size /\ R.inDataSize_Start = start /\ R.inBuf = inBuf
  BY <1>2 DEF ThreadRecs
<1> HIDE DEF R
<1> QED BY <1>1, <1>3, <1>6, <1>7, <1>8

LEMMA WriteMoves ==
    ASSUME Typed, NEW t \in Threads, Write(t)
    PROVE  Typed' /\ \E pr \in {"ok", "progress"}, res \in {"ok", "progress", "write"} :
                        WriteStep(t, pr, res)
<1> DEFINE T == th[t]
           L == T.loc
<1>1. T.pc = "write" /\ T.canWrite BY WriteCases
<1>2. PICK pr \in (IF L.needCode THEN AfterProgress ELSE {p.progressRes}) :
         \E res \in WriteResults(t, pr) :
            p' = NewP(t, pr, res) /\ job' = NewJob(t, pr, res) /\ th' = NewTh(t, pr, res)
  BY WriteCases, Zenon
<1>3. PICK res \in WriteResults(t, pr) :
         p' = NewP(t, pr, res) /\ job' = NewJob(t, pr, res) /\ th' = NewTh(t, pr, res)
  BY <1>2, Zenon
<1>4. p \in MtDecRecs /\ th \in [Threads -> ThreadRecs] /\ job \in JobRecs BY DEF Typed
<1>5. /\ pr \in {"ok", "progress"} /\ Hits(pr) \in SUBSET Faults
      /\ pr # p.progressRes => pr = "progress" /\ p.progressRes = "ok" /\ L.needCode
      /\ Hits(pr) \subseteq job.hit \cup {"progress"} /\ job.hit \subseteq Hits(pr)
      /\ "progress" \in Hits(pr) <=> ("progress" \in job.hit \/ pr # p.progressRes)
  BY <1>2, ProgressFacts DEF AfterProgress
<1>6. /\ res \in {"ok", "progress", "write"}
      /\ ~L.needWrite => res = Before(t, pr)
      /\ L.needWrite => \/ res = "ok"
                        \/ res = "write" /\ ToStream(t, pr) /\ L.codePos # 0
      /\ res = "write" => CanFail("write")
  BY <1>5, WriteBooleans, <1>3 DEF Before, WriteResults
<1>7. res = "write" => "write" \in Faults /\ "write" \notin job.hit BY <1>6 DEF CanFail
<1>8. L.blockIndex \in Nat /\ L.block \in Nat /\ L.codePos \in Int /\ L.nextThread \in Threads
      /\ L.finish \in BOOLEAN /\ L.needWrite \in BOOLEAN
  BY WriteBooleans
<1>9. job' \in JobRecs /\ WriteJob(t, pr, res) /\ job'.limit = job.limit
  <2> DEFINE hit == Hits(pr) \cup ({res} \cap {"write"})
             emitted == IF ToStream(t, pr) /\ res = "ok" /\ WholeBlock(t)
                        THEN Append(job.emitted, L.block) ELSE job.emitted
  <2>1. job' = [job EXCEPT !.hit = hit, !.emitted = emitted] BY <1>3, Zenon DEF NewJob
  <2>2. hit \in SUBSET Faults BY <1>5, <1>7
  <2>3. job.emitted \in Seq(Nat) BY <1>4 DEF JobRecs
  <2>4. emitted \in Seq(Nat) BY <1>8, <2>3
  <2>5. /\ job.hit \subseteq hit
        /\ hit \subseteq job.hit \cup {"progress", "write"}
        /\ "progress" \in hit <=> "progress" \in job.hit \/ pr # p.progressRes
        /\ "write" \in hit <=> "write" \in job.hit \/ res = "write"
    BY <1>5
  <2>6. emitted = IF ToStream(t, pr) /\ res = "ok" /\ WholeBlock(t)
                  THEN Append(job.emitted, L.block) ELSE job.emitted
    OBVIOUS
  <2> HIDE DEF hit, emitted
  <2>7. /\ job' \in JobRecs /\ job'.hit = hit /\ job'.emitted = emitted /\ job'.limit = job.limit
        /\ job'.pc = job.pc /\ job'.calls = job.calls /\ job'.blocks = job.blocks
        /\ job'.data = job.data /\ job'.res = job.res /\ job'.i = job.i
    BY <1>4, <2>1, <2>2, <2>4 DEF JobRecs
  <2>8. WriteJob(t, pr, res) BY <1>5, <1>6, <1>7, <2>5, <2>6, <2>7, Zenon DEF WriteJob
  <2> QED BY <2>7, <2>8
<1>10. /\ p' \in MtDecRecs /\ WriteP(t, pr, res)
       /\ p'.readPos = p.readPos /\ p'.cross = p.cross
       /\ p'.readWasFinished = p.readWasFinished /\ p'.readRes = p.readRes
  <2> DEFINE interrupted == Interrupts(t, res)
             alloc == p.isAllocError \/ NoMemory(t)
             terr == p.threadingError \/ NoThreads(t)
             over == p.overflow \/ TooBig(t)
             processed == IF ToStream(t, pr) THEN p.inProcessed + L.codePos ELSE p.inProcessed
             index == IF Reports(t, pr, res) THEN Interrupt(L.blockIndex) ELSE p.interruptIndex
             start == IF Keeps(t, pr, res) /\ p.numFilledThreads = 0 THEN t
                      ELSE p.filledThreadStart
             filled == IF Counts(t, pr, res) THEN p.numFilledThreads + 1
                       ELSE p.numFilledThreads
             exit == p.exitThread \/ (EndsRun(t, pr, res) /\ t # 0)
  <2>1. p' = [p EXCEPT !.progressRes = pr, !.wasInterrupted = interrupted,
                !.isAllocError = alloc, !.threadingError = terr, !.overflow = over,
                !.inProcessed = processed, !.interruptIndex = index,
                !.filledThreadStart = start, !.numFilledThreads = filled, !.exitThread = exit]
    BY <1>3, Zenon DEF NewP
  <2>2. /\ p.isAllocError \in BOOLEAN /\ p.threadingError \in BOOLEAN /\ p.overflow \in BOOLEAN
        /\ p.wasInterrupted \in BOOLEAN /\ p.exitThread \in BOOLEAN /\ p.inProcessed \in Int
        /\ p.interruptIndex \in Nat /\ p.filledThreadStart \in Threads
        /\ p.numFilledThreads \in Nat
    BY <1>4 DEF MtDecRecs
  <2>3. interrupted \in BOOLEAN BY <1>8, <2>2, WriteBooleans DEF Interrupts
  <2>4. alloc \in BOOLEAN /\ terr \in BOOLEAN /\ over \in BOOLEAN /\ exit \in BOOLEAN OBVIOUS
  <2>5. processed \in Int /\ filled \in Nat BY <1>8, <2>2
  <2>6. index \in Nat /\ start \in Threads BY <1>8, <2>2, InterruptType
  <2>7. /\ interrupted = Interrupts(t, res)
        /\ alloc = (p.isAllocError \/ NoMemory(t))
        /\ terr = (p.threadingError \/ NoThreads(t))
        /\ over = (p.overflow \/ TooBig(t))
        /\ index = IF Reports(t, pr, res) THEN Interrupt(L.blockIndex) ELSE p.interruptIndex
        /\ start = IF Keeps(t, pr, res) /\ p.numFilledThreads = 0 THEN t
                   ELSE p.filledThreadStart
        /\ filled = IF Counts(t, pr, res) THEN p.numFilledThreads + 1 ELSE p.numFilledThreads
        /\ exit = (p.exitThread \/ (EndsRun(t, pr, res) /\ t # 0))
    OBVIOUS
  <2> HIDE DEF interrupted, alloc, terr, over, processed, index, start, filled, exit
  <2>8. p' \in MtDecRecs BY <1>4, <1>5, <2>1, <2>3, <2>4, <2>5, <2>6 DEF MtDecRecs
  <2>9. /\ p'.progressRes = pr /\ p'.wasInterrupted = interrupted
        /\ p'.isAllocError = alloc /\ p'.threadingError = terr /\ p'.overflow = over
        /\ p'.interruptIndex = index /\ p'.filledThreadStart = start
        /\ p'.numFilledThreads = filled /\ p'.exitThread = exit
        /\ p'.blockIndex = p.blockIndex /\ p'.numStartedThreads = p.numStartedThreads
        /\ p'.numStartedThreads_Limit = p.numStartedThreads_Limit
        /\ p'.readPos = p.readPos /\ p'.cross = p.cross
        /\ p'.readWasFinished = p.readWasFinished /\ p'.readRes = p.readRes
    BY <1>4, <2>1 DEF MtDecRecs
  <2>10. WriteP(t, pr, res) BY <2>7, <2>9, Zenon DEF WriteP
  <2> QED BY <2>8, <2>9, <2>10
<1>11. th' \in [Threads -> ThreadRecs] /\ WriteThreads(t, pr, res)
  <2> DEFINE R == Waits(t, pr, res)
             f == [th EXCEPT ![t] = R]
             g == IF ~L.finish THEN SetWrite(f, L.nextThread)
                  ELSE IF Restarting(t, pr, res) THEN SetWrite(f, 0) ELSE f
             h == IF Restarting(t, pr, res) \/ (EndsRun(t, pr, res) /\ t # 0)
                  THEN SetRead(g, 0) ELSE g
  <2>1. /\ R \in ThreadRecs
        /\ R.pc = IF EndsRun(t, pr, res) /\ t = 0 THEN "ret" ELSE "wait"
        /\ R.loc = NoLocals /\ R.canRead = T.canRead /\ ~R.canWrite
        /\ Counts(t, pr, res) => /\ R.inDataSize = T.inDataSize
                                 /\ R.inDataSize_Start = T.inDataSize_Start
                                 /\ R.inBuf = T.inBuf
        /\ ~Counts(t, pr, res) => R.inDataSize = 0 /\ R.inDataSize_Start = 0
        /\ R.inBuf = <<>> <=> T.inBuf = <<>>
    BY WaitsFacts
  <2>2. /\ EndsRun(t, pr, res) => L.finish /\ ~Restarting(t, pr, res)
        /\ Restarting(t, pr, res) => L.finish
        /\ L.finish => EndsRun(t, pr, res) \/ Restarting(t, pr, res)
    BY DEF EndsRun, Restarting, Ends, Restarts
  <2>3. th' = h BY <1>3, <2>2 DEF NewTh
  <2> HIDE DEF R
  <2>4. f \in [Threads -> ThreadRecs] /\ f[t] = R /\ \A u \in Threads \ {t} : f[u] = th[u]
    BY <1>4, <2>1
  <2> HIDE DEF f
  <2>5. 0 \in Threads BY Numbers DEF Threads
  <2>6. /\ g \in [Threads -> ThreadRecs]
        /\ \A u \in Threads :
              /\ g[u].canWrite <=> \/ f[u].canWrite
                                   \/ u = 0 /\ Restarting(t, pr, res)
                                   \/ u = L.nextThread /\ ~L.finish
              /\ g[u].pc = f[u].pc /\ g[u].canRead = f[u].canRead
              /\ g[u].inBuf = f[u].inBuf /\ g[u].inDataSize = f[u].inDataSize
              /\ g[u].inDataSize_Start = f[u].inDataSize_Start /\ g[u].loc = f[u].loc
    <3>1. CASE ~L.finish
      <4>1. g = SetWrite(f, L.nextThread) /\ ~Restarting(t, pr, res) BY <2>2, <3>1
      <4> HIDE DEF g
      <4>2. /\ g \in [Threads -> ThreadRecs]
            /\ \A u \in Threads :
                 /\ g[u].canWrite = (f[u].canWrite \/ u = L.nextThread)
                 /\ g[u].pc = f[u].pc /\ g[u].canRead = f[u].canRead
                 /\ g[u].inBuf = f[u].inBuf /\ g[u].inDataSize = f[u].inDataSize
                 /\ g[u].inDataSize_Start = f[u].inDataSize_Start /\ g[u].loc = f[u].loc
        BY <1>8, <2>4, <4>1, SetWriteFacts
      <4> QED BY <2>4, <3>1, <4>1, <4>2
    <3>2. CASE Restarting(t, pr, res)
      <4>1. g = SetWrite(f, 0) /\ L.finish BY <2>2, <3>2
      <4> HIDE DEF g
      <4>2. /\ g \in [Threads -> ThreadRecs]
            /\ \A u \in Threads :
                 /\ g[u].canWrite = (f[u].canWrite \/ u = 0)
                 /\ g[u].pc = f[u].pc /\ g[u].canRead = f[u].canRead
                 /\ g[u].inBuf = f[u].inBuf /\ g[u].inDataSize = f[u].inDataSize
                 /\ g[u].inDataSize_Start = f[u].inDataSize_Start /\ g[u].loc = f[u].loc
        BY <2>4, <2>5, <4>1, SetWriteFacts
      <4> QED BY <2>4, <3>2, <4>1, <4>2
    <3>3. CASE L.finish /\ ~Restarting(t, pr, res) BY <3>3, <2>4
    <3> QED BY <3>1, <3>2, <3>3
  <2> HIDE DEF g
  <2>7. /\ h \in [Threads -> ThreadRecs]
        /\ \A u \in Threads :
              /\ h[u].canRead <=> \/ g[u].canRead
                                  \/ u = 0 /\ t # 0 /\ EndsRun(t, pr, res)
                                  \/ u = 0 /\ Restarting(t, pr, res)
              /\ h[u].pc = g[u].pc /\ h[u].canWrite = g[u].canWrite
              /\ h[u].inBuf = g[u].inBuf /\ h[u].inDataSize = g[u].inDataSize
              /\ h[u].inDataSize_Start = g[u].inDataSize_Start /\ h[u].loc = g[u].loc
    <3>1. CASE Restarting(t, pr, res) \/ (EndsRun(t, pr, res) /\ t # 0)
      <4>1. h = SetRead(g, 0) BY <3>1
      <4> HIDE DEF h
      <4>2. /\ h \in [Threads -> ThreadRecs]
            /\ \A u \in Threads :
                 /\ h[u].canRead = (g[u].canRead \/ u = 0)
                 /\ h[u].pc = g[u].pc /\ h[u].canWrite = g[u].canWrite
                 /\ h[u].inBuf = g[u].inBuf /\ h[u].inDataSize = g[u].inDataSize
                 /\ h[u].inDataSize_Start = g[u].inDataSize_Start /\ h[u].loc = g[u].loc
        BY <2>5, <2>6, <4>1, SetReadFacts
      <4> QED BY <2>2, <2>6, <3>1, <4>1, <4>2
    <3>2. CASE ~(Restarting(t, pr, res) \/ (EndsRun(t, pr, res) /\ t # 0)) BY <3>2, <2>6
    <3> QED BY <3>1, <3>2
  <2> HIDE DEF h
  <2>8. \A u \in Threads \ {t} :
          /\ th'[u].pc = th[u].pc /\ th'[u].inBuf = th[u].inBuf
          /\ th'[u].inDataSize = th[u].inDataSize
          /\ th'[u].inDataSize_Start = th[u].inDataSize_Start
          /\ th'[u].loc = th[u].loc
    BY <2>3, <2>4, <2>6, <2>7
  <2>9. \A u \in Threads :
          /\ th'[u].canRead <=> \/ th[u].canRead
                                \/ u = 0 /\ t # 0 /\ EndsRun(t, pr, res)
                                \/ u = 0 /\ Restarting(t, pr, res)
          /\ th'[u].canWrite <=> \/ th[u].canWrite /\ u # t
                                 \/ u = 0 /\ Restarting(t, pr, res)
                                 \/ u = L.nextThread /\ ~L.finish
    BY <2>1, <2>3, <2>4, <2>6, <2>7
  <2>10. /\ th'[t].pc = R.pc /\ th'[t].loc = R.loc /\ th'[t].inBuf = R.inBuf
         /\ th'[t].inDataSize = R.inDataSize /\ th'[t].inDataSize_Start = R.inDataSize_Start
    BY <2>3, <2>4, <2>6, <2>7
  <2>11. WriteThreads(t, pr, res) BY <2>1, <2>8, <2>9, <2>10 DEF WriteThreads
  <2> QED BY <2>3, <2>7, <2>11
<1>12. WriteStep(t, pr, res) BY <1>1, <1>9, <1>10, <1>11, Zenon DEF WriteStep, SameInput
<1> QED BY <1>5, <1>6, <1>9, <1>10, <1>11, <1>12 DEF Typed

-----------------------------------------------------------------------------
(* What each step of the caller does.                                      *)

(* A call begins. *)
CallStep(blocks, limit) ==
    /\ job.pc = "idle" /\ blocks \in Inputs
    /\ job'.pc = "mt" /\ job'.blocks = blocks /\ job'.limit = limit
    /\ job'.data = <<>> /\ job'.emitted = <<>> /\ job'.res = "ok"
    /\ job'.hit = {} /\ job'.i = 0
    /\ p'.blockIndex = 1 /\ ~p'.isAllocError /\ ~p'.overflow /\ ~p'.threadingError
    /\ ~p'.readWasFinished /\ p'.readRes = "ok" /\ p'.interruptIndex = 0
    /\ ~p'.wasInterrupted /\ p'.cross = <<>> /\ p'.filledThreadStart = 0
    /\ p'.numFilledThreads = 0 /\ p'.numStartedThreads = 1
    /\ p'.numStartedThreads_Limit = NumThreads /\ ~p'.exitThread
    /\ p'.progressRes = "ok" /\ p'.readPos = 0
    /\ \A u \in Threads :
          /\ th'[u].pc = IF u = 0 THEN "wait" ELSE th[u].pc
          /\ th'[u].canRead = (u = 0 \/ th[u].canRead)
          /\ th'[u].canWrite = (u = 0 \/ th[u].canWrite)
          /\ th'[u].inDataSize = 0 /\ th'[u].inDataSize_Start = 0
          /\ th'[u].loc = th[u].loc

LEMMA CallMoves ==
    ASSUME Typed, NEW blocks \in Inputs,
           NEW limit \in 0..End(blocks, Len(blocks)) + Extra, CallCode(blocks, limit)
    PROVE  Typed' /\ CallStep(blocks, limit)
<1>1. p \in MtDecRecs /\ th \in [Threads -> ThreadRecs] /\ job \in JobRecs BY DEF Typed
<1>2. limit \in Nat
  <2> DEFINE S == [end : Nat, kind : Kinds]
  <2>1. blocks \in Seq(S) /\ blocks # <<>> /\ Extra \in Nat
    BY MtDecAssumption DEF MtDecAssumption
  <2> HIDE DEF S
  <2>2. Len(blocks) \in Nat \ {0} /\ blocks[Len(blocks)] \in S BY <2>1
  <2>3. End(blocks, Len(blocks)) \in Nat BY <2>2 DEF End, S
  <2> QED BY <2>1, <2>3
<1>3. job.pc = "idle" /\ job' \in JobRecs
      /\ job'.pc = "mt" /\ job'.blocks = blocks /\ job'.limit = limit
      /\ job'.data = <<>> /\ job'.emitted = <<>> /\ job'.res = "ok"
      /\ job'.hit = {} /\ job'.i = 0
  <2>1. /\ job.pc = "idle"
        /\ job' = [job EXCEPT !.pc = "mt", !.calls = @ + 1, !.blocks = blocks,
                 !.limit = limit, !.data = <<>>, !.emitted = <<>>, !.res = "ok",
                 !.hit = {}, !.i = 0]
    BY DEF CallCode
  <2>2. job.calls + 1 \in Nat BY <1>1 DEF JobRecs
  <2>3. <<>> \in Seq(Nat) /\ {} \in SUBSET Faults /\ blocks \in Inputs \cup {<<>>}
        /\ "ok" \in Results
    BY DEF Results
  <2> QED BY <1>1, <1>2, <2>1, <2>2, <2>3 DEF JobRecs
<1>4. /\ p' \in MtDecRecs
      /\ p'.blockIndex = 1 /\ ~p'.isAllocError /\ ~p'.overflow /\ ~p'.threadingError
      /\ ~p'.readWasFinished /\ p'.readRes = "ok" /\ p'.interruptIndex = 0
      /\ ~p'.wasInterrupted /\ p'.cross = <<>> /\ p'.filledThreadStart = 0
      /\ p'.numFilledThreads = 0 /\ p'.numStartedThreads = 1
      /\ p'.numStartedThreads_Limit = NumThreads /\ ~p'.exitThread
      /\ p'.progressRes = "ok" /\ p'.readPos = 0
  <2>1. p' = [MtDec_Construct EXCEPT !.numStartedThreads = 1, !.crossBlock = p.crossBlock]
    BY DEF CallCode
  <2>2. p.crossBlock \in BOOLEAN BY <1>1 DEF MtDecRecs
  <2>3. 1 \in 0..NumThreads /\ NumThreads \in 0..NumThreads /\ 0 \in 0..NumThreads /\ 0 \in Threads
    BY Numbers
  <2>4. <<>> \in Seq(Nat) OBVIOUS
  <2> DEFINE C == MtDec_Construct
  <2>5. C \in MtDecRecs BY <2>3, <2>4 DEF MtDecRecs, MtDec_Construct
  <2>6. /\ C.blockIndex = 1 /\ C.isAllocError = FALSE /\ C.overflow = FALSE
        /\ C.threadingError = FALSE /\ C.readWasFinished = FALSE /\ C.readRes = "ok"
        /\ C.interruptIndex = 0 /\ C.wasInterrupted = FALSE /\ C.cross = <<>>
        /\ C.filledThreadStart = 0 /\ C.numFilledThreads = 0
        /\ C.numStartedThreads_Limit = NumThreads /\ C.exitThread = FALSE
        /\ C.progressRes = "ok" /\ C.readPos = 0
    BY DEF MtDec_Construct
  <2> DEFINE cb == p.crossBlock
  <2>7. cb \in BOOLEAN /\ p' = [C EXCEPT !.numStartedThreads = 1, !.crossBlock = cb]
    BY <2>1, <2>2
  <2> HIDE DEF C, cb
  <2>8. p' \in MtDecRecs BY <2>3, <2>5, <2>7 DEF MtDecRecs
  <2>9. p'.numStartedThreads = 1 BY <2>5, <2>7 DEF MtDecRecs
  <2> QED BY <2>5, <2>6, <2>7, <2>8, <2>9 DEF MtDecRecs
<1> DEFINE R(t) == [th[t] EXCEPT
                !.pc = IF t = 0 THEN "wait" ELSE @,
                !.canRead = (t = 0) \/ @, !.canWrite = (t = 0) \/ @,
                !.inDataSize = 0, !.inDataSize_Start = 0,
                !.inBuf = [k \in 1..Len(@) |-> <<>>]]
<1>5. th' = [t \in Threads |-> R(t)] BY DEF CallCode
<1>6. ASSUME NEW t \in Threads
      PROVE  /\ R(t) \in ThreadRecs
             /\ R(t).pc = IF t = 0 THEN "wait" ELSE th[t].pc
             /\ R(t).canRead = (t = 0 \/ th[t].canRead)
             /\ R(t).canWrite = (t = 0 \/ th[t].canWrite)
             /\ R(t).inDataSize = 0 /\ R(t).inDataSize_Start = 0
             /\ R(t).loc = th[t].loc
  <2> DEFINE T == th[t]
             pc == IF t = 0 THEN "wait" ELSE T.pc
             cr == (t = 0) \/ T.canRead
             cw == (t = 0) \/ T.canWrite
             inBuf == [k \in 1..Len(T.inBuf) |-> <<>>]
  <2>1. T \in ThreadRecs BY <1>1
  <2>2. inBuf \in Seq(Seq(Nat)) BY <2>1, EmptyLinks DEF ThreadRecs
  <2>3. /\ pc \in {"none", "wait", "fill", "pass", "code", "write", "ret"}
        /\ cr \in BOOLEAN /\ cw \in BOOLEAN
    BY <2>1 DEF ThreadRecs
  <2>4. R(t) = [T EXCEPT !.pc = pc, !.canRead = cr, !.canWrite = cw, !.inDataSize = 0,
                         !.inDataSize_Start = 0, !.inBuf = inBuf]
    OBVIOUS
  <2>5. pc = (IF t = 0 THEN "wait" ELSE T.pc) /\ cr = (t = 0 \/ T.canRead) /\ cw = (t = 0 \/ T.canWrite)
    OBVIOUS
  <2> HIDE DEF pc, cr, cw, inBuf, T, R
  <2>6. R(t) \in ThreadRecs
    <3> DEFINE Q == [T EXCEPT !.pc = pc, !.canRead = cr, !.canWrite = cw]
    <3>1. Q \in ThreadRecs BY <2>1, <2>3 DEF ThreadRecs
    <3>2. R(t) = [Q EXCEPT !.inDataSize = 0, !.inDataSize_Start = 0, !.inBuf = inBuf]
      BY <2>1, <2>4 DEF ThreadRecs
    <3> HIDE DEF Q
    <3> DEFINE P == [Q EXCEPT !.inBuf = inBuf]
    <3>3. P \in ThreadRecs BY <2>2, <3>1 DEF ThreadRecs
    <3>4. R(t) = [P EXCEPT !.inDataSize = 0, !.inDataSize_Start = 0]
      BY <3>1, <3>2 DEF ThreadRecs
    <3> DEFINE W == [P EXCEPT !.inDataSize = 0, !.inDataSize_Start = 0]
    <3>5. R(t) = W BY <3>4
    <3> HIDE DEF P
    <3>6. W \in ThreadRecs BY <3>3 DEF ThreadRecs
    <3> HIDE DEF W
    <3> QED BY <3>5, <3>6
  <2>7. /\ R(t).pc = pc /\ R(t).canRead = cr /\ R(t).canWrite = cw
        /\ R(t).inDataSize = 0 /\ R(t).inDataSize_Start = 0 /\ R(t).loc = T.loc
    BY <2>1, <2>4 DEF ThreadRecs
  <2> QED BY <2>5, <2>6, <2>7 DEF T
<1> HIDE DEF R
<1>7. th' \in [Threads -> ThreadRecs] /\ \A t \in Threads : th'[t] = R(t) BY <1>5, <1>6
<1>8. CallStep(blocks, limit) BY <1>3, <1>4, <1>6, <1>7 DEF CallStep
<1> QED BY <1>3, <1>4, <1>7, <1>8 DEF Typed

(* What a return leaves of the job. *)
LEMMA ReturnType ==
    ASSUME Typed, NEW res \in Results
    PROVE  LET j == Return(res) IN
           /\ j \in JobRecs /\ j.pc = "idle" /\ j.res = res /\ j.blocks = job.blocks
           /\ j.limit = job.limit /\ j.hit = job.hit /\ j.emitted = job.emitted
           /\ j.data = job.data /\ j.i = job.i /\ j.calls = job.calls
<1>1. job \in JobRecs BY DEF Typed
<1>2. Return(res) = [job EXCEPT !.pc = "idle", !.res = res] BY DEF Return
<1> QED BY <1>1, <1>2 DEF JobRecs

(* Only the place of the job changes, or it is over. *)
JobMoves(pc, res) ==
    /\ job'.pc = pc /\ job'.res = res /\ job'.blocks = job.blocks
    /\ job'.limit = job.limit /\ job'.hit = job.hit /\ job'.emitted = job.emitted
    /\ job'.data = job.data /\ job'.i = job.i /\ job'.calls = job.calls

JoinedStep ==
    /\ InMt /\ th[0].pc = "ret" /\ p' = p
    /\ th'[0].pc = "none" /\ OnlyThread(0)
    /\ th'[0].canRead = th[0].canRead /\ th'[0].canWrite = th[0].canWrite
    /\ th'[0].inBuf = th[0].inBuf /\ th'[0].inDataSize = th[0].inDataSize
    /\ th'[0].inDataSize_Start = th[0].inDataSize_Start /\ th'[0].loc = th[0].loc
    /\ \/ p.progressRes # "ok" /\ JobMoves("idle", p.progressRes)
       \/ p.progressRes = "ok" /\ GoesOnSingle /\ JobMoves("prepare", job.res)
       \/ p.progressRes = "ok" /\ ~GoesOnSingle /\ JobMoves("idle", p.readRes)

LEMMA JoinedMoves ==
    ASSUME Typed, Joined
    PROVE  Typed' /\ JoinedStep
<1>1. p \in MtDecRecs /\ th \in [Threads -> ThreadRecs] /\ job \in JobRecs /\ 0 \in Threads
  BY Numbers DEF Typed
<1> DEFINE R == [th[0] EXCEPT !.pc = "none"]
<1>2. /\ job.pc = "mt" /\ th[0].pc = "ret" /\ p' = p
      /\ th' = [th EXCEPT ![0] = R]
      /\ \/ p.progressRes # "ok" /\ job' = Return(p.progressRes)
         \/ p.progressRes = "ok" /\ GoesOnSingle /\ job' = [job EXCEPT !.pc = "prepare"]
         \/ p.progressRes = "ok" /\ ~GoesOnSingle /\ job' = Return(p.readRes)
  BY DEF Joined
<1>3. p.progressRes \in Results /\ p.readRes \in Results BY <1>1 DEF MtDecRecs, Results
<1>4. th[0] \in ThreadRecs BY <1>1
<1>5. /\ R \in ThreadRecs /\ R.pc = "none"
      /\ R.canRead = th[0].canRead /\ R.canWrite = th[0].canWrite
      /\ R.inBuf = th[0].inBuf /\ R.inDataSize = th[0].inDataSize
      /\ R.inDataSize_Start = th[0].inDataSize_Start /\ R.loc = th[0].loc
  BY <1>4 DEF ThreadRecs
<1> HIDE DEF R
<1>6. th' \in [Threads -> ThreadRecs] /\ th'[0] = R /\ OnlyThread(0)
  BY <1>1, <1>2, <1>5 DEF OnlyThread
<1>7. /\ job' \in JobRecs
      /\ \/ p.progressRes # "ok" /\ JobMoves("idle", p.progressRes)
         \/ p.progressRes = "ok" /\ GoesOnSingle /\ JobMoves("prepare", job.res)
         \/ p.progressRes = "ok" /\ ~GoesOnSingle /\ JobMoves("idle", p.readRes)
  <2>1. CASE p.progressRes # "ok" /\ job' = Return(p.progressRes)
    BY <1>3, <2>1, ReturnType DEF JobMoves
  <2>2. CASE p.progressRes = "ok" /\ ~GoesOnSingle /\ job' = Return(p.readRes)
    BY <1>3, <2>2, ReturnType DEF JobMoves
  <2>3. CASE p.progressRes = "ok" /\ GoesOnSingle /\ job' = [job EXCEPT !.pc = "prepare"]
    BY <1>1, <2>3 DEF JobMoves, JobRecs
  <2> QED BY <1>2, <2>1, <2>2, <2>3
<1>8. JoinedStep BY <1>2, <1>5, <1>6, <1>7, Zenon DEF JoinedStep, InMt
<1> QED BY <1>1, <1>2, <1>6, <1>7, <1>8 DEF Typed

(* Whether there is memory for one thread. *)
PreparesST == JobMoves(IF p.numFilledThreads # 0 \/ p.cross # <<>> THEN "mtRead" ELSE "st", job.res)
NoMemoryST == /\ job'.pc = "idle" /\ job'.res = "mem" /\ job'.hit = job.hit \cup {"memST"}
              /\ job'.blocks = job.blocks /\ job'.limit = job.limit
              /\ job'.emitted = job.emitted /\ job'.data = job.data /\ job'.i = job.i

PrepareStep ==
    /\ job.pc = "prepare"
    /\ \A u \in Threads :
          /\ th'[u].pc = th[u].pc /\ th'[u].canRead = th[u].canRead
          /\ th'[u].canWrite = th[u].canWrite /\ th'[u].loc = th[u].loc
          /\ th'[u].inDataSize = th[u].inDataSize
          /\ th'[u].inDataSize_Start = th[u].inDataSize_Start
    /\ p.numFilledThreads > 0 /\ p.filledThreadStart <= Started =>
          th'[p.filledThreadStart].inBuf = th[p.filledThreadStart].inBuf
    /\ SameTokens /\ SameStops /\ SameInput
    /\ p'.interruptIndex = p.interruptIndex /\ p'.progressRes = p.progressRes
    /\ PreparesST \/ NoMemoryST

LEMMA PrepareMoves ==
    ASSUME Typed, PrepareRead
    PROVE  Typed' /\ PrepareStep
<1>1. p \in MtDecRecs /\ th \in [Threads -> ThreadRecs] /\ job \in JobRecs BY DEF Typed
<1> DEFINE start == p.filledThreadStart
           offset(t) == IF t >= start THEN t - start ELSE t + p.numStartedThreads - start
           Frees(t) == t > p.numStartedThreads \/ p.numFilledThreads <= offset(t)
           Z(t) == [th[t] EXCEPT !.inBuf = <<>>]
           R(t) == IF Frees(t) THEN Z(t) ELSE th[t]
<1>2. /\ job.pc = "prepare" /\ th' = [t \in Threads |-> R(t)]
      /\ p' = [p EXCEPT !.crossBlock = @ /\ p.cross # <<>>]
      /\ \/ job' = [job EXCEPT !.pc = IF p.numFilledThreads # 0 \/ p.cross # <<>>
                                    THEN "mtRead" ELSE "st"]
         \/ /\ CanFail("memST")
            /\ job' = [Return("mem") EXCEPT !.hit = @ \cup {"memST"}]
  BY Zenon DEF PrepareRead
<1>3. ASSUME NEW t \in Threads
      PROVE  /\ Z(t) \in ThreadRecs
             /\ Z(t).pc = th[t].pc /\ Z(t).canRead = th[t].canRead
             /\ Z(t).canWrite = th[t].canWrite /\ Z(t).loc = th[t].loc
             /\ Z(t).inDataSize = th[t].inDataSize
             /\ Z(t).inDataSize_Start = th[t].inDataSize_Start
  <2>1. th[t] \in ThreadRecs BY <1>1
  <2>2. <<>> \in Seq(Seq(Nat)) OBVIOUS
  <2> QED BY <2>1, <2>2 DEF ThreadRecs
<1> HIDE DEF Z, Frees
<1>4. /\ th' \in [Threads -> ThreadRecs]
      /\ \A u \in Threads :
          /\ th'[u].pc = th[u].pc /\ th'[u].canRead = th[u].canRead
          /\ th'[u].canWrite = th[u].canWrite /\ th'[u].loc = th[u].loc
          /\ th'[u].inDataSize = th[u].inDataSize
          /\ th'[u].inDataSize_Start = th[u].inDataSize_Start
          /\ ~Frees(u) => th'[u] = th[u]
  BY <1>1, <1>3, <1>2
<1>5. p.numFilledThreads > 0 /\ p.filledThreadStart <= Started =>
          th'[p.filledThreadStart].inBuf = th[p.filledThreadStart].inBuf
  <2>1. start \in Threads /\ start \in Nat /\ p.numFilledThreads \in Nat /\ Started \in Nat
    BY <1>1, Numbers DEF MtDecRecs, Started
  <2>2. p.numFilledThreads > 0 /\ start <= Started => ~Frees(start) BY <2>1 DEF Frees, Started
  <2> QED BY <1>4, <2>1, <2>2
<1>6. /\ p' \in MtDecRecs /\ SameTokens /\ SameStops
      /\ p'.readPos = p.readPos /\ p'.cross = p.cross
      /\ p'.readWasFinished = p.readWasFinished /\ p'.readRes = p.readRes
      /\ p'.interruptIndex = p.interruptIndex /\ p'.progressRes = p.progressRes
  <2> DEFINE c == p.crossBlock /\ p.cross # <<>>
  <2>1. c \in BOOLEAN /\ p' = [p EXCEPT !.crossBlock = c] BY <1>2
  <2> HIDE DEF c
  <2> QED BY <1>1, <2>1 DEF MtDecRecs, SameTokens, SameStops
<1>7. job' \in JobRecs /\ job'.limit = job.limit /\ (PreparesST \/ NoMemoryST)
  <2>1. CASE job' = [job EXCEPT !.pc = IF p.numFilledThreads # 0 \/ p.cross # <<>>
                                    THEN "mtRead" ELSE "st"]
    BY <1>1, <2>1 DEF JobRecs, JobMoves, PreparesST
  <2>2. ASSUME CanFail("memST"), job' = [Return("mem") EXCEPT !.hit = @ \cup {"memST"}]
        PROVE  job' \in JobRecs /\ job'.limit = job.limit /\ NoMemoryST
    <3>1. job.hit \cup {"memST"} \in SUBSET Faults BY <2>2, FaultIn
    <3>2. "mem" \in Results BY DEF Results
    <3> QED BY <1>1, <2>2, <3>1, <3>2 DEF Return, JobRecs, NoMemoryST
  <2> QED BY <1>2, <2>1, <2>2
<1>8. PrepareStep BY <1>2, <1>4, <1>5, <1>6, <1>7 DEF PrepareStep, SameInput
<1> QED BY <1>4, <1>6, <1>7, <1>8 DEF Typed

-----------------------------------------------------------------------------
(* Where the links of a buffer begin.                                      *)

(* Where the links begin. *)
LEMMA LinkLine ==
    ASSUME NEW first \in Nat, NEW j \in Nat \ {0}
    PROVE  /\ LinkStart(first, j) \in Nat
           /\ j = 1 => LinkStart(first, j) = 0
           /\ j # 1 => LinkStart(first, j) >= first
           /\ LinkStart(first, 2) = first
           /\ LinkStart(first, j + 1) =
                LinkStart(first, j) + IF j = 1 THEN first ELSE InBufSize
           /\ LinkStart(first, j + 1) = first + LinkStart(InBufSize, j)
<1>1. InBufSize \in Nat BY Numbers
<1>2. j = 1 \/ j \in Nat \ {0, 1} OBVIOUS
<1>3. CASE j = 1 BY <1>1, <1>3 DEF LinkStart
<1>4. CASE j \in Nat \ {0, 1}
  <2> DEFINE i == j - 2
             m == i * InBufSize
             m1 == (i + 1) * InBufSize
  <2>1. i \in Nat /\ m \in Nat /\ m1 = m + InBufSize /\ (2 - 2) * InBufSize = 0 BY <1>1, <1>4
  <2>2. (j + 1) - 2 = i + 1 BY <1>4
  <2>3. LinkStart(first, j) = first + m BY <1>4 DEF LinkStart
  <2>4. LinkStart(first, j + 1) = first + m1 BY <1>4, <2>2 DEF LinkStart
  <2>5. LinkStart(InBufSize, j) = InBufSize + m BY <1>4 DEF LinkStart
  <2>6. LinkStart(first, 2) = first BY <2>1 DEF LinkStart
  <2> HIDE DEF m, m1, i
  <2> QED BY <1>1, <1>4, <2>1, <2>3, <2>4, <2>5, <2>6
<1> QED BY <1>2, <1>3, <1>4

(* What MtDec_Read hands out of the first link ... *)
LEMMA FirstLink ==
    ASSUME NEW inBuf \in Seq(Seq(Nat)), NEW first \in Nat \ {0}, NEW total \in Nat,
           first <= total, NEW s \in Int, LinksHold(inBuf, first, total, s)
    PROVE  /\ inBuf # <<>>
           /\ SubSeq(inBuf[1], 1, first) \in Seq(Nat)
           /\ Len(SubSeq(inBuf[1], 1, first)) = first
           /\ Holds(SubSeq(inBuf[1], 1, first), s)
<1>1. LinkStart(first, 1) = 0 /\ LinkStart(first, 1) < total BY LinkLine
<1>2. LinkSize(first, total, 1) = first BY <1>1 DEF LinkSize
<1>3. 1 <= Len(inBuf) /\ first <= Len(inBuf[1])
      /\ \A i \in 1..first : inBuf[1][i] = s + LinkStart(first, 1) + i - 1
  BY <1>1, <1>2 DEF LinksHold
<1>4. inBuf[1] \in Seq(Nat) /\ inBuf # <<>> BY <1>3
<1> DEFINE d == inBuf[1]
<1> HIDE DEF d
<1>5. d \in Seq(Nat) /\ first \in 1..Len(d) /\ \A i \in 1..first : d[i] = s + i - 1
  BY <1>1, <1>3, <1>4 DEF d
<1>6. /\ SubSeq(d, 1, first) \in Seq(Nat) /\ Len(SubSeq(d, 1, first)) = first
      /\ \A i \in 1..first : SubSeq(d, 1, first)[i] = d[i]
  BY <1>5, SubSeqProperties
<1> QED BY <1>4, <1>5, <1>6 DEF Holds, d

(* ... and what is left in the links behind it. *)
LEMMA NextLinks ==
    ASSUME NEW inBuf \in Seq(Seq(Nat)), inBuf # <<>>, NEW first \in Nat \ {0},
           NEW total \in Nat, first <= total, NEW s \in Int,
           LinksHold(inBuf, first, total, s),
           NEW next \in Nat,
           next = IF total - first < InBufSize THEN total - first ELSE InBufSize
    PROVE  LinksHold(Tail(inBuf), next, total - first, s + first)
<1>1. InBufSize \in Nat /\ InBufSize > 0 BY Numbers
<1> DEFINE left == total - first
<1>2. left \in Nat /\ (left > 0 => next > 0) /\ next <= left /\ next <= InBufSize BY <1>1
<1>3. ASSUME NEW j \in Nat \ {0}, LinkStart(next, j) < left
      PROVE  /\ j <= Len(Tail(inBuf))
             /\ LinkSize(next, left, j) <= Len(Tail(inBuf)[j])
             /\ \A i \in 1..LinkSize(next, left, j) :
                   Tail(inBuf)[j][i] = (s + first) + LinkStart(next, j) + i - 1
  <2>1. /\ LinkStart(next, j) \in Nat
        /\ j = 1 => LinkStart(next, j) = 0
        /\ j # 1 => LinkStart(next, j) >= next
    BY <1>2, LinkLine
  <2>2. next = InBufSize \/ j = 1 BY <1>1, <1>2, <1>3, <2>1
  <2>3. LinkStart(first, j + 1) = first + LinkStart(next, j)
    BY LinkLine, <2>2, SMTT(30) DEF LinkStart
  <2>4. j + 1 \in Nat \ {0} /\ LinkStart(first, j + 1) < total /\ j + 1 # 1
    BY <1>2, <1>3, <2>1, <2>3
  <2>5. LinkSize(first, total, j + 1) = LinkSize(next, left, j)
    BY <2>1, <2>3, <2>4, <1>1, <1>2 DEF LinkSize
  <2>6. /\ j + 1 <= Len(inBuf)
        /\ LinkSize(first, total, j + 1) <= Len(inBuf[j + 1])
        /\ \A i \in 1..LinkSize(first, total, j + 1) :
                inBuf[j + 1][i] = s + LinkStart(first, j + 1) + i - 1
    BY <2>4, Zenon DEF LinksHold
  <2>7. Len(Tail(inBuf)) = Len(inBuf) - 1 /\ j \in 1..Len(Tail(inBuf)) /\ Tail(inBuf)[j] = inBuf[j + 1]
    BY <2>6
  <2>8. s + LinkStart(first, j + 1) = (s + first) + LinkStart(next, j) BY <2>1, <2>3
  <2> QED BY <2>5, <2>6, <2>7, <2>8
<1> QED BY <1>2, <1>3 DEF LinksHold

-----------------------------------------------------------------------------
(* The caller: MtDec_Read and single-thread decoding.                      *)

(* Where the job is in its input. *)
LEMMA Place ==
    ASSUME Typed, Bounds, Hits_Known, job.pc \notin {"idle", "free"}
    PROVE  /\ job.blocks \in Inputs /\ InOrder
           /\ Written \in 0..LastBlock /\ LastBlock \in Nat \ {0}
           /\ BlockEnd(Written) \in Nat /\ BlockStart(Written + 1) = BlockEnd(Written) + 1
           /\ \A b \in 0..LastBlock : BlockEnd(b) \in Nat
  BY BlockFacts DEF Bounds, Hits_Known, Typed, JobRecs, InOrder, Written, BlockStart

(* The threads are where they were, with the same tokens. *)
StillThreads ==
    \A u \in Threads :
        /\ th'[u].pc = th[u].pc /\ th'[u].canRead = th[u].canRead
        /\ th'[u].canWrite = th[u].canWrite /\ th'[u].loc = th[u].loc

(* A call has returned. *)
LEMMA ReturnInv ==
    ASSUME Typed', Bounds', FilledOK', job'.pc = "idle", th'[0].pc = "none",
           \A t \in Threads : Idle(t)'
    PROVE  Inv'
  BY DEF InMt, Runs, Ended, AfterRing, AfterTurn, Hits_Known, Inv

(* Only the buffers of the threads, and the job, have changed. *)
LEMMA SingleBounds ==
    ASSUME Inv, job.pc \in {"prepare", "mtRead", "st"}, Typed', StillThreads,
           \A u \in Threads : /\ th'[u].inDataSize_Start <= th[u].inDataSize_Start
                              /\ th'[u].inDataSize_Start = 0 \/ th'[u].inDataSize = th[u].inDataSize,
           job'.blocks = job.blocks, p'.readPos <= job'.limit,
           job'.pc = "st" => p'.cross = <<>>,
           p'.cross = <<>> \/ (p'.cross = p.cross /\ p'.readPos = p.readPos)
    PROVE  Bounds'
<1>1. Typed /\ Bounds /\ AfterRing /\ job.blocks \in Inputs BY DEF Inv, Bounds
<1>2. th \in [Threads -> ThreadRecs] /\ th' \in [Threads -> ThreadRecs]
      /\ p' \in MtDecRecs
  BY <1>1 DEF Typed
<1>3. LastBlock' = LastBlock BY DEF LastBlock
<1>4. ASSUME NEW t \in Threads
      PROVE  /\ th'[t].inDataSize_Start <= InBufSize
             /\ th'[t].inDataSize_Start <= th'[t].inDataSize
             /\ th'[t].loc.block <= LastBlock'
             /\ ~Reads(t)' /\ ~Works(t)' => th'[t].loc = NoLocals
             /\ th'[t].pc # "fill"
  <2>1. th[t] \in ThreadRecs /\ th'[t] \in ThreadRecs BY <1>2
  <2>2. th[t].inDataSize_Start \in Nat /\ th'[t].inDataSize_Start \in Nat
        /\ th[t].inDataSize \in Nat /\ th'[t].inDataSize \in Nat /\ InBufSize \in Nat
    BY <2>1, Numbers DEF ThreadRecs
  <2>3. /\ th[t].inDataSize_Start <= InBufSize
        /\ th[t].inDataSize_Start <= th[t].inDataSize
        /\ th[t].loc.block <= LastBlock
        /\ ~Reads(t) /\ ~Works(t) => th[t].loc = NoLocals
    BY <1>1 DEF Bounds
  <2>4. th[t].pc \in {"none", "wait"} BY <1>1 DEF AfterRing, Idle
  <2>5. th'[t].pc = th[t].pc /\ th'[t].loc = th[t].loc BY DEF StillThreads
  <2> QED BY <1>3, <2>2, <2>3, <2>4, <2>5 DEF Reads, Works
<1>5. /\ Len(p'.cross) <= InBufSize /\ Len(p'.cross) <= p'.readPos
      /\ Holds(p'.cross, p'.readPos - Len(p'.cross) + 1)
  <2>1. InBufSize \in Nat /\ p'.readPos \in Nat BY <1>2, Numbers DEF MtDecRecs
  <2>2. CASE p'.cross = <<>> BY <2>1, <2>2 DEF Holds
  <2>3. CASE p'.cross = p.cross /\ p'.readPos = p.readPos BY <1>1, <2>3 DEF Bounds
  <2> QED BY <2>2, <2>3
<1>6. job'.blocks \in Inputs BY <1>1
<1> QED BY <1>4, <1>5, <1>6 DEF Bounds, Holds

(* A step of the caller on its way to single-thread decoding. *)
LEMMA SingleInv ==
    ASSUME Inv, job.pc \in {"prepare", "mtRead", "st"}, Typed', Bounds', FilledOK',
           AfterTurn', InOrder', StillThreads, job'.pc \in {"mtRead", "st"},
           p'.isAllocError = p.isAllocError, p'.overflow = p.overflow,
           p'.threadingError = p.threadingError, p'.wasInterrupted = p.wasInterrupted,
           p'.progressRes = p.progressRes,
           job'.hit = job.hit \/ job'.hit = job.hit \cup {"read"},
           "read" \in job'.hit => p'.readRes # "ok" /\ p'.readWasFinished,
           p'.readRes # "ok" => "read" \in job'.hit
    PROVE  Inv'
<1>1. Typed /\ Bounds /\ AfterRing /\ Hits_Known
  BY DEF Inv
<1>2. ~InMt' /\ ~Runs' /\ ~Ended'
  BY DEF InMt, Runs, Ended
<1>3. AfterRing'
  <2>1. 0 \in Threads /\ th[0].pc = "none" /\ \A t \in Threads : Idle(t)
    BY <1>1, Numbers DEF AfterRing
  <2>2. th'[0].pc = "none" /\ \A t \in Threads : Idle(t)'
    BY <2>1 DEF StillThreads, Idle
  <2> QED
    BY <1>2, <2>2 DEF AfterRing
<1>4. Hits_Known'
  <2>1. /\ "progress" \in job.hit <=> p.progressRes # "ok"
        /\ job.hit \cap {"write", "progress"} = {} /\ GoesOnSingle
        /\ "memST" \notin job.hit
    BY <1>1 DEF Hits_Known
  <2>2. job'.hit \cap {"write", "progress"} = {} /\ "memST" \notin job'.hit
    BY <2>1
  <2>3. "progress" \notin job'.hit /\ p'.progressRes = "ok" /\ "write" \notin job'.hit
    BY <2>1, <2>2
  <2>4. GoesOnSingle'
    BY <2>1 DEF GoesOnSingle
  <2> QED
    BY <2>2, <2>3, <2>4 DEF Hits_Known
<1> QED
  BY <1>2, <1>3, <1>4 DEF Inv

LEMMA MtReadInv ==
    ASSUME Inv, MtRead
    PROVE  Inv'
<1> DEFINE f == p.filledThreadStart
           T == th[f]
           links == IF job.i # 0 THEN Tail(T.inBuf) ELSE T.inBuf
           lim == IF T.inDataSize_Start # 0 THEN T.inDataSize_Start
                  ELSE IF T.inDataSize < InBufSize THEN T.inDataSize
                  ELSE InBufSize
           spent == job.i # 0 /\ T.inDataSize = 0
           start == BlockStart(Written + 1)
           pos == start + Len(job.data)
           part == SubSeq(links[1], 1, lim)
           inBuf == IF spent THEN <<>> ELSE links
           size == IF spent THEN 0 ELSE T.inDataSize - lim
           R == [T EXCEPT !.inBuf = inBuf, !.inDataSize_Start = 0, !.inDataSize = size]
<1>2. /\ job.pc = "mtRead" /\ p.numFilledThreads # 0
      /\ th' = [th EXCEPT ![f] = R]
      /\ p' = IF ~spent THEN p ELSE
                [p EXCEPT !.numFilledThreads = p.numFilledThreads - 1,
                          !.filledThreadStart = NextFilled(f)]
      /\ job' = IF spent THEN [job EXCEPT !.i = 0]
                  ELSE [job EXCEPT !.i = lim, !.data = job.data \o part]
  BY DEF MtRead
<1>1. /\ p \in MtDecRecs /\ th \in [Threads -> ThreadRecs] /\ job \in JobRecs
      /\ Typed /\ Bounds /\ FilledOK /\ Kept /\ Hits_Known
  BY <1>2 DEF Inv, AfterTurn, Typed
<1>3. /\ f \in Threads /\ f \in Nat /\ T \in ThreadRecs /\ Started \in Nat /\ Started <= NumThreads
      /\ p.numFilledThreads = 1 /\ f < Started
  BY <1>1, <1>2, Numbers DEF MtDecRecs, Started, Kept, FilledOK
<1>4. /\ InBufSize \in Nat \ {0} /\ NumThreads \in Nat /\ Threads = 0..NumThreads - 1
      /\ T.inDataSize \in Nat /\ T.inDataSize_Start \in Nat
      /\ T.inDataSize_Start <= T.inDataSize
      /\ T.inBuf \in Seq(Seq(Nat)) /\ job.i \in Nat
      /\ job.data \in Seq(Nat) /\ Len(job.data) \in Nat
  <2>1. T.inDataSize_Start <= T.inDataSize BY <1>1, <1>3 DEF Bounds
  <2>2. InBufSize \in Nat \ {0} /\ NumThreads \in Nat /\ Threads = 0..NumThreads - 1 BY Numbers
  <2>3. T.inDataSize \in Nat /\ T.inDataSize_Start \in Nat /\ T.inBuf \in Seq(Seq(Nat))
    BY <1>3 DEF ThreadRecs
  <2>4. job.i \in Nat /\ job.data \in Seq(Nat) BY <1>1 DEF JobRecs
  <2> QED BY <2>1, <2>2, <2>3, <2>4
<1>5. /\ Holds(job.data, start)
      /\ Follows(pos + T.inDataSize)
      /\ job.i = 0 => T.inDataSize > 0
      /\ job.i # 0 => T.inDataSize_Start = 0 /\ T.inBuf # <<>>
      /\ LinksHold(links, lim, T.inDataSize, pos)
  BY <1>1, <1>3 DEF Kept
<1>6. links \in Seq(Seq(Nat)) BY <1>4, <1>5
<1>7. start \in Nat /\ pos \in Nat BY <1>1, <1>2, <1>4, Place, SMTT(30)
<1>8. lim \in Nat /\ lim <= T.inDataSize /\ (~spent => lim \in Nat \ {0}) BY <1>4, <1>5
<1>9. ASSUME ~spent
      PROVE  /\ links # <<>> /\ part \in Seq(Nat) /\ Len(part) = lim
             /\ Holds(part, pos)
  <2> HIDE DEF links, lim, pos, spent, T, f
  <2>1. lim \in Nat \ {0} BY <1>8, <1>9
  <2>2. LinksHold(links, lim, T.inDataSize, pos) /\ pos \in Int BY <1>5, <1>7
  <2> QED BY <1>4, <1>6, <1>8, <2>1, <2>2, FirstLink
<1>10. inBuf \in Seq(Seq(Nat)) /\ size \in Nat BY <1>6, <1>8, <1>4
<1>11. /\ R \in ThreadRecs /\ R.pc = T.pc /\ R.canRead = T.canRead /\ R.canWrite = T.canWrite
       /\ R.loc = T.loc /\ R.inBuf = inBuf /\ R.inDataSize_Start = 0 /\ R.inDataSize = size
  <2> HIDE DEF inBuf, size, T
  <2> QED BY <1>3, <1>10 DEF ThreadRecs
<1> HIDE DEF R
<1>12. /\ th' \in [Threads -> ThreadRecs] /\ StillThreads
       /\ th'[f] = R /\ \A u \in Threads \ {f} : th'[u] = th[u]
  BY <1>1, <1>2, <1>3, <1>11 DEF StillThreads
<1>13. /\ p' \in MtDecRecs /\ SameTokens
       /\ p'.isAllocError = p.isAllocError /\ p'.overflow = p.overflow
       /\ p'.threadingError = p.threadingError /\ p'.wasInterrupted = p.wasInterrupted
       /\ p'.readPos = p.readPos /\ p'.cross = p.cross /\ p'.progressRes = p.progressRes
       /\ p'.readWasFinished = p.readWasFinished /\ p'.readRes = p.readRes
       /\ p'.numFilledThreads = IF spent THEN 0 ELSE 1
       /\ p'.filledThreadStart = IF spent THEN NextFilled(f) ELSE f
  <2>1. NextFilled(f) \in Threads BY <1>3, <1>4 DEF NextFilled, Started
  <2>2. CASE spent
    <3>1. p' = [p EXCEPT !.numFilledThreads = 0, !.filledThreadStart = NextFilled(f)]
      BY <1>2, <1>3, <2>2
    <3> HIDE DEF f
    <3> QED BY <1>1, <2>1, <2>2, <3>1 DEF MtDecRecs, SameTokens
  <2>3. CASE ~spent BY <1>1, <1>2, <1>3, <2>3 DEF SameTokens
  <2> QED BY <2>2, <2>3
<1>14. /\ job' \in JobRecs /\ job'.pc = "mtRead" /\ job'.blocks = job.blocks
       /\ job'.limit = job.limit /\ job'.hit = job.hit /\ job'.emitted = job.emitted
       /\ job'.i = (IF spent THEN 0 ELSE lim)
       /\ job'.data = (IF spent THEN job.data ELSE job.data \o part)
  <2>1. CASE spent BY <1>1, <1>2, <2>1 DEF JobRecs
  <2>2. CASE ~spent
    <3> DEFINE d == job.data \o part
    <3>1. d \in Seq(Nat) /\ lim \in Nat BY <1>4, <1>8, <1>9, <2>2, SMTT(30)
    <3>2. job' = [job EXCEPT !.i = lim, !.data = d] BY <1>2, <2>2
    <3>0. job \in JobRecs /\ job.pc = "mtRead" BY <1>1, <1>2
    <3> HIDE DEF d, lim, part
    <3>3. job' \in JobRecs /\ job'.pc = "mtRead" /\ job'.blocks = job.blocks
       /\ job'.limit = job.limit /\ job'.hit = job.hit /\ job'.emitted = job.emitted
       /\ job'.i = lim /\ job'.data = d
      BY <3>0, <3>1, <3>2 DEF JobRecs
    <3> QED BY <2>2, <3>3 DEF d
  <2> QED BY <2>1, <2>2
<1>15. Typed' BY <1>12, <1>13, <1>14 DEF Typed
<1>16. FilledOK' BY <1>3, <1>13 DEF FilledOK, Started, NextFilled, SameTokens
<1>17. Bounds'
  <2>1. ASSUME NEW u \in Threads
        PROVE  /\ th'[u].inDataSize_Start <= th[u].inDataSize_Start
               /\ th'[u].inDataSize_Start = 0 \/ th'[u].inDataSize = th[u].inDataSize
    <3>1. th[u].inDataSize_Start \in Nat BY <1>1 DEF ThreadRecs
    <3>2. CASE u = f BY <1>11, <1>12, <3>1, <3>2
    <3>3. CASE u # f BY <1>12, <3>1, <3>3
    <3> QED BY <3>2, <3>3
  <2>2. p'.readPos <= job'.limit BY <1>1, <1>13, <1>14 DEF Bounds
  <2> QED BY <1>2, <1>12, <1>13, <1>14, <1>15, <2>1, <2>2, SingleBounds
<1>18. InOrder'
  <2>1. InOrder BY <1>1, <1>2, Place
  <2> QED BY <2>1, <1>13, <1>14 DEF InOrder, Written, LastBlock, Kind, BlockEnd
<1>19. BlockStart(Written + 1)' = start BY <1>14 DEF BlockStart, BlockEnd, Written
<1>30. PICK x \in Nat, n \in Nat, m \in Nat, B \in Seq(Seq(Nat)), g \in Threads,
             data \in Seq(Nat), s \in Nat :
          /\ x = pos /\ n = T.inDataSize /\ m = lim /\ B = links /\ g = f
          /\ data = job.data /\ s = start
  BY <1>3, <1>4, <1>6, <1>7, <1>8, Zenon
<1>31. Holds(data, s) /\ Follows(x + n) /\ x = s + Len(data) BY <1>5, <1>30
<1>20. \A y \in Nat : Follows(y) => Follows(y)'
  BY <1>13, <1>14 DEF Follows, Continues, LastBlock, LastParsed, Kind, BlockEnd
<1>32. Follows(x + n)' BY <1>20, <1>31
<1>21. Kept'
  <2>1. CASE spent BY <2>1, <1>30, <1>13, <1>14, <1>19, <1>31, <1>32 DEF Holds, Kept
  <2>2. CASE ~spent
    <3>1. job'.data = data \o part /\ job'.i = m /\ m \in Nat \ {0} /\ m <= n
      BY <2>2, <1>8, <1>14, <1>30
    <3>2. Len(job'.data) = Len(data) + m /\ Holds(job'.data, s)
      <4>1. part \in Seq(Nat) /\ Len(part) = m /\ Holds(part, s + Len(data))
        BY <1>9, <1>30, <1>31, <2>2
      <4> HIDE DEF part
      <4>2. Len(data \o part) = Len(data) + Len(part) /\ Holds(data \o part, s)
        BY <1>31, <4>1, RunsJoin
      <4> QED BY <3>1, <4>1, <4>2
    <3>3. p'.numFilledThreads = 1 /\ p'.filledThreadStart = g BY <2>2, <1>13, <1>30
    <3>4. th'[g].inDataSize_Start = 0 /\ th'[g].inDataSize = n - m
          /\ th'[g].inBuf = B
      BY <1>11, <1>12, <2>2, <1>30
    <3>5. B # <<>> BY <1>9, <2>2, <1>30
    <3>6. (x + m) + (n - m) = x + n BY <3>1
    <3> DEFINE next == IF n - m < InBufSize THEN n - m ELSE InBufSize
    <3>8. next \in Nat BY <1>4, <3>1
    <3>9. LinksHold(Tail(B), next, n - m, x + m)
      <4>1. LinksHold(B, m, n, x) /\ x \in Int BY <1>5, <1>30
      <4> HIDE DEF next
      <4>2. next = IF n - m < InBufSize THEN n - m ELSE InBufSize BY DEF next
      <4> QED BY <4>1, <4>2, <3>1, <3>5, <3>8, NextLinks
    <3>10. (BlockStart(Written + 1) + Len(job.data))' = x + m
      BY <3>2, <1>19, <1>30, <1>31, <3>1, SMTT(30)
    <3>11. Holds(job.data, BlockStart(Written + 1))' BY <3>2, <1>19, <1>30 DEF Holds
    <3>12. LinksHold(Tail(B), next, n - m, x + m)' BY <3>9 DEF LinksHold, LinkSize, LinkStart
    <3>13. Follows((x + m) + (n - m))' BY <3>6, <1>32
    <3> DEFINE U == th[p.filledThreadStart]
               pos1 == BlockStart(Written + 1) + Len(job.data)
               links1 == IF job.i # 0 THEN Tail(U.inBuf) ELSE U.inBuf
               first1 == IF U.inDataSize_Start # 0 THEN U.inDataSize_Start
                         ELSE IF U.inDataSize < InBufSize THEN U.inDataSize ELSE InBufSize
    <3>14. /\ U'.inDataSize_Start = 0 /\ U'.inDataSize = n - m /\ U'.inBuf = B BY <3>3, <3>4
    <3>15. first1' = next BY <3>14
    <3>16. links1' = Tail(B) BY <3>1, <3>14
    <3>19. pos1' = x + m BY <3>10
    <3> HIDE DEF next
    <3>17. LinksHold(links1', first1', U'.inDataSize, pos1')
      <4> HIDE DEF U, pos1, links1, first1
      <4> QED BY <3>9, <3>14, <3>15, <3>16, <3>19
    <3>18. Follows(pos1 + U.inDataSize)'
      <4> HIDE DEF U, pos1, links1, first1
      <4> QED BY <3>13, <3>14, <3>19 DEF Follows, Continues
    <3>21. U'.inDataSize_Start = 0 /\ U'.inBuf # <<>> /\ job'.i # 0 BY <3>1, <3>5, <3>14
    <3>22. p'.numFilledThreads = 1 BY <3>3
    <3>23. /\ p'.numFilledThreads \in {0, 1}
           /\ p'.numFilledThreads = 0 => Follows(pos1)' /\ job'.i = 0
           /\ p'.numFilledThreads = 1 =>
                /\ Follows(pos1 + U.inDataSize)'
                /\ job'.i = 0 => U'.inDataSize > 0
                /\ job'.i # 0 => U'.inDataSize_Start = 0 /\ U'.inBuf # <<>>
                /\ LinksHold(links1', first1', U'.inDataSize, pos1')
      BY <3>17, <3>18, <3>21, <3>22
    <3> QED BY <3>11, <3>23, Zenon DEF Kept
  <2> QED BY <2>1, <2>2
<1>22. AfterTurn'
  <2>1. job'.i = 0 \/ job'.data # <<>>
    <3>1. CASE ~spent
      <4>1. Len(part) > 0 /\ part \in Seq(Nat) /\ job'.data = data \o part
        <5>1. part \in Seq(Nat) /\ Len(part) = m /\ m \in Nat \ {0} BY <1>8, <1>9, <3>1, <1>30
        <5>2. job'.data = data \o part BY <1>14, <1>30, <3>1
        <5> HIDE DEF part
        <5> QED BY <5>1, <5>2
      <4>2. data \o part # <<>>
        <5> HIDE DEF part
        <5> QED BY <4>1
      <4> QED BY <4>1, <4>2
    <3>2. CASE spent BY <1>14, <3>2
    <3> QED BY <3>1, <3>2
  <2> QED BY <1>14, <1>21, <2>1 DEF AfterTurn, Ended, InMt
<1> QED
  BY <1>1, <1>2, <1>13, <1>14, <1>12, <1>15, <1>16, <1>17, <1>18, <1>22, SingleInv DEF
     Hits_Known

(* Behind the end of the compressed data. *)
LEMMA StopsThere ==
    ASSUME Typed, Bounds, Hits_Known, job.pc \notin {"idle", "free"},
           NEW x \in Nat, BlockStart(Written + 1) <= x, x <= p.readPos + 1,
           NEW b \in 1..LastBlock, LastParsed(b), x = BlockEnd(b) + 1
    PROVE  /\ BlockStart(Written + 1) <= BlockEnd(LastBlock) + 1
           /\ BlockEnd(b) <= p.readPos
           /\ Written < b \/ b = LastBlock
<1>1. /\ job.blocks \in Inputs /\ InOrder
      /\ Written \in 0..LastBlock /\ LastBlock \in Nat \ {0}
      /\ BlockEnd(Written) \in Nat /\ BlockStart(Written + 1) = BlockEnd(Written) + 1
      /\ \A c \in 0..LastBlock : BlockEnd(c) \in Nat
  BY Place
<1>2. p.readPos \in Nat /\ b \in 0..LastBlock /\ LastBlock \in b..LastBlock
  BY <1>1 DEF Typed, MtDecRecs
<1>3. BlockEnd(b) \in Nat /\ BlockEnd(LastBlock) \in Nat BY <1>1, <1>2
<1>4. BlockEnd(b) <= BlockEnd(LastBlock) BY <1>1, <1>2, EndsIncrease
<1>5. Written <= b BY <1>1, <1>2, EndsIncrease, <1>3
<1>6. Written = b => b = LastBlock BY <1>1 DEF InOrder, LastParsed
<1> QED BY <1>1, <1>2, <1>3, <1>4, <1>5, <1>6

LEMMA MtReadCrossInv ==
    ASSUME Inv, MtReadCross
    PROVE  Inv'
<1>1. /\ job.pc = "mtRead" /\ p.numFilledThreads = 0 /\ th' = th
      /\ job' = [job EXCEPT !.pc = "st", !.data = job.data \o p.cross, !.i = 0]
      /\ p' = [p EXCEPT !.cross = <<>>, !.crossBlock = FALSE]
  BY DEF MtReadCross
<1>2. /\ p \in MtDecRecs /\ th \in [Threads -> ThreadRecs] /\ job \in JobRecs
      /\ Typed /\ Bounds /\ FilledOK /\ Kept /\ Hits_Known
  BY <1>1 DEF Inv, AfterTurn, Typed
<1>3. job.data \in Seq(Nat) /\ p.cross \in Seq(Nat) /\ p.readPos \in Nat
  BY <1>2 DEF JobRecs, MtDecRecs
<1> DEFINE d == job.data \o p.cross
<1>4. d \in Seq(Nat) BY <1>3
<1>5. /\ job' \in JobRecs /\ job'.pc = "st" /\ job'.data = d /\ job'.i = 0
      /\ job'.blocks = job.blocks /\ job'.limit = job.limit /\ job'.hit = job.hit
      /\ job'.emitted = job.emitted
  <2> HIDE DEF d
  <2>1. job' = [job EXCEPT !.pc = "st", !.data = d, !.i = 0] BY <1>1 DEF d
  <2> QED BY <1>2, <1>4, <2>1 DEF JobRecs
<1>6. /\ p' \in MtDecRecs /\ p'.cross = <<>> /\ p'.readPos = p.readPos
      /\ p'.isAllocError = p.isAllocError /\ p'.overflow = p.overflow
      /\ p'.threadingError = p.threadingError /\ p'.wasInterrupted = p.wasInterrupted
      /\ p'.progressRes = p.progressRes
      /\ p'.readWasFinished = p.readWasFinished /\ p'.readRes = p.readRes
      /\ p'.numFilledThreads = p.numFilledThreads
      /\ p'.filledThreadStart = p.filledThreadStart
      /\ p'.numStartedThreads = p.numStartedThreads
  <2>1. <<>> \in Seq(Nat) /\ FALSE \in BOOLEAN OBVIOUS
  <2> QED BY <1>1, <1>2, <2>1 DEF MtDecRecs
<1>7. Typed' /\ StillThreads BY <1>1, <1>2, <1>5, <1>6 DEF Typed, StillThreads
<1>8. FilledOK' BY <1>2, <1>6 DEF FilledOK, Started
<1>9. p.readPos <= job.limit BY <1>2 DEF Bounds
<1>10. Bounds' BY <1>2, <1>1, <1>5, <1>6, <1>7, <1>9, SingleBounds DEF ThreadRecs
<1>11. /\ job.blocks \in Inputs /\ InOrder
       /\ BlockStart(Written + 1) \in Nat
  BY <1>1, <1>2, Place
<1>12. InOrder' BY <1>11, <1>5, <1>6 DEF InOrder, Written, LastBlock, Kind, BlockEnd
<1>13. PICK s \in Nat, data \in Seq(Nat), cross \in Seq(Nat), r \in Nat :
          /\ s = BlockStart(Written + 1) /\ data = job.data /\ cross = p.cross /\ r = p.readPos
  BY <1>3, <1>11
<1>14. Holds(data, s) /\ Follows(s + Len(data)) BY <1>1, <1>2, <1>13 DEF Kept
<1>15. BlockStart(Written + 1)' = s BY <1>5, <1>13 DEF BlockStart, BlockEnd, Written
<1>16. Single'
  <2>1. CASE Continues(s + Len(data))
    <3>1. s + Len(data) + Len(cross) = r + 1 BY <2>1, <1>13 DEF Continues
    <3>2. Holds(cross, s + Len(data))
      <4>1. r - Len(cross) + 1 = s + Len(data) BY <3>1
      <4>2. Holds(cross, r - Len(cross) + 1) BY <1>2, <1>13 DEF Bounds
      <4> QED BY <4>1, <4>2
    <3>3. Holds(data \o cross, s) /\ Len(data \o cross) = Len(data) + Len(cross)
      BY <1>14, <3>2, RunsJoin
    <3>4. job'.data = data \o cross BY <1>5, <1>13
    <3>5. Holds(job'.data, s) /\ Len(job'.data) = Len(data) + Len(cross) BY <3>3, <3>4
    <3>6. Continues(s + Len(job.data))'
      <4>1. Len(data) \in Nat /\ Len(cross) \in Nat /\ Len(p'.cross) = 0 BY <1>6
      <4>2. s + Len(job'.data) + Len(p'.cross) = p'.readPos + 1
        <5>1. Len(job'.data) = Len(data) + Len(cross) /\ p'.readPos = r BY <3>5, <1>6, <1>13
        <5> QED BY <3>1, <4>1, <5>1
      <4> QED BY <4>2 DEF Continues
    <3> QED BY <3>5, <3>6, <1>15 DEF Single, Holds, Continues
  <2>2. CASE ~Continues(s + Len(data))
    <3>1. p.cross = <<>> /\ s + Len(data) <= r + 1 BY <2>2, <1>13, <1>14 DEF Follows
    <3>2. PICK b \in 1..LastBlock : LastParsed(b) /\ s + Len(data) = BlockEnd(b) + 1
      BY <2>2, <1>14 DEF Follows
    <3>3. job'.data = data BY <3>1, <1>5, <1>13
    <3>4. /\ s <= BlockEnd(LastBlock) + 1 /\ BlockEnd(b) <= r
          /\ Written < b \/ b = LastBlock
      BY <1>1, <1>2, <1>13, <3>1, <3>2, StopsThere
    <3>5. PICK e \in Nat : e = BlockEnd(b) BY <1>11, BlockFacts
    <3>6. \A i \in 1..Len(data) : data[i] = s + i - 1 BY <1>14 DEF Holds
    <3>7. /\ BlockEnd(LastBlock)' = BlockEnd(LastBlock) /\ LastBlock' = LastBlock
          /\ LastParsed(b)' /\ BlockEnd(b)' = e /\ Written' = Written
      BY <1>5, <3>2, <3>5 DEF LastBlock, LastParsed, BlockEnd, Kind, Written
    <3>8. \A i \in 1..Len(data) : data[i] >= s + i - 1 BY <3>6
    <3>9. Len(data) \in Nat /\ s + Len(data) = e + 1 BY <3>2, <3>5
    <3>10. /\ s <= BlockEnd(LastBlock)' + 1
           /\ s + Len(job'.data) <= p'.readPos + 1
           /\ \A i \in 1..Len(job'.data) : job'.data[i] >= s + i - 1
           /\ LastParsed(b)' /\ e <= p'.readPos
           /\ Written' < b \/ b = LastBlock'
           /\ s + Len(job'.data) > e
           /\ \A i \in 1..Len(job'.data) : job'.data[i] = s + i - 1
      BY <3>1, <3>3, <3>4, <3>5, <3>6, <3>7, <3>8, <3>9, <1>6, <1>13
    <3>11. b \in (1..LastBlock)' BY <3>7
    <3> QED BY <3>7, <3>10, <3>11, <1>15 DEF Single
  <2> QED BY <2>1, <2>2
<1>17. AfterTurn' BY <1>5, <1>16 DEF AfterTurn, Ended, InMt
<1> QED BY <1>1, <1>2, <1>5, <1>6, <1>7, <1>8, <1>10, <1>12, <1>17, SingleInv DEF Hits_Known

LEMMA StReadInv ==
    ASSUME Inv, StRead
    PROVE  Inv'
<1>1. PICK end : /\ end \in p.readPos..job.limit
                 /\ job.pc = "st" /\ th' = th
                 /\ \/ /\ end = job.limit
                       /\ job' = [job EXCEPT !.data = job.data \o Units(p.readPos + 1, end)]
                       /\ p' = [p EXCEPT !.readPos = end, !.readWasFinished = TRUE]
                    \/ /\ "read" \in Faults
                       /\ job' = [job EXCEPT !.data = job.data \o Units(p.readPos + 1, end),
                                 !.limit = end, !.hit = job.hit \cup {"read"}]
                       /\ p' = [p EXCEPT !.readPos = job'.limit, !.readWasFinished = TRUE,
                            !.readRes = "read"]
  <2>1. p.readPos \in Nat /\ job.limit \in Nat /\ p.readPos <= job.limit
    BY DEF Inv, Typed, MtDecRecs, JobRecs, Bounds
  <2>2. job.limit \in p.readPos..job.limit BY <2>1
  <2>3. CASE /\ job' = [job EXCEPT !.data = @ \o Units(p.readPos + 1, job.limit)]
             /\ p' = [p EXCEPT !.readPos = job.limit, !.readWasFinished = TRUE]
    BY <2>2, <2>3 DEF StRead
  <2>4. CASE /\ CanFail("read")
             /\ \E end \in p.readPos..job.limit :
                  job' = [job EXCEPT !.data = @ \o Units(p.readPos + 1, end),
                                 !.limit = end, !.hit = @ \cup {"read"}]
             /\ p' = [p EXCEPT !.readPos = job'.limit, !.readWasFinished = TRUE,
                            !.readRes = "read"]
    <3>1. "read" \in Faults BY <2>4 DEF CanFail
    <3> QED BY <2>4, <3>1 DEF StRead
  <2> QED BY <2>3, <2>4, Zenon DEF StRead
<1>2. /\ p \in MtDecRecs /\ th \in [Threads -> ThreadRecs] /\ job \in JobRecs
      /\ Typed /\ Bounds /\ FilledOK /\ Single /\ Hits_Known
  BY <1>1 DEF Inv, AfterTurn, Typed
<1>3. /\ job.data \in Seq(Nat) /\ p.readPos \in Nat /\ job.limit \in Nat /\ end \in Nat
      /\ p.readPos <= end /\ end <= job.limit
  BY <1>1, <1>2 DEF JobRecs, MtDecRecs
<1>4. PICK un \in Seq(Nat) : /\ un = Units(p.readPos + 1, end) /\ Len(un) = end - p.readPos
                            /\ Holds(un, p.readPos + 1)
  <2>1. p.readPos + 1 \in Nat /\ p.readPos + 1 <= end + 1 BY <1>3
  <2>2. /\ Units(p.readPos + 1, end) \in Seq(Nat)
        /\ Len(Units(p.readPos + 1, end)) = end - (p.readPos + 1) + 1
        /\ Holds(Units(p.readPos + 1, end), p.readPos + 1)
    BY <1>3, <2>1, UnitsRun
  <2>3. end - (p.readPos + 1) + 1 = end - p.readPos BY <1>3
  <2> QED BY <2>2, <2>3
<1>5. PICK s \in Nat, data \in Seq(Nat), r \in Nat :
          /\ s = BlockStart(Written + 1) /\ data = job.data /\ r = p.readPos
  BY <1>1, <1>2, Place, <1>3
<1>6. data \o un \in Seq(Nat) OBVIOUS
<1>7. /\ job' \in JobRecs /\ job'.pc = "st" /\ job'.data = data \o un
      /\ job'.blocks = job.blocks /\ job'.limit = end
      /\ job'.emitted = job.emitted /\ job'.i = job.i
      /\ p' \in MtDecRecs /\ p'.cross = p.cross /\ p'.readPos = end
      /\ p'.isAllocError = p.isAllocError /\ p'.overflow = p.overflow
      /\ p'.threadingError = p.threadingError /\ p'.wasInterrupted = p.wasInterrupted
      /\ p'.progressRes = p.progressRes
      /\ p'.readWasFinished = TRUE
      /\ p'.numFilledThreads = p.numFilledThreads
      /\ p'.filledThreadStart = p.filledThreadStart
      /\ p'.numStartedThreads = p.numStartedThreads
      /\ \/ p'.readRes = p.readRes /\ job'.hit = job.hit
         \/ p'.readRes = "read" /\ job'.hit = job.hit \cup {"read"}
  <2>1. CASE /\ end = job.limit
             /\ job' = [job EXCEPT !.data = job.data \o Units(p.readPos + 1, end)]
             /\ p' = [p EXCEPT !.readPos = end, !.readWasFinished = TRUE]
    <3>1. job' = [job EXCEPT !.data = data \o un] BY <2>1, <1>4, <1>5
    <3> HIDE DEF Units
    <3> QED BY <1>1, <1>2, <1>3, <1>6, <2>1, <3>1 DEF JobRecs, MtDecRecs
  <2>2. CASE /\ "read" \in Faults
             /\ job' = [job EXCEPT !.data = job.data \o Units(p.readPos + 1, end),
                                 !.limit = end, !.hit = job.hit \cup {"read"}]
             /\ p' = [p EXCEPT !.readPos = job'.limit, !.readWasFinished = TRUE,
                            !.readRes = "read"]
    <3>1. PICK h \in SUBSET Faults : h = job.hit \cup {"read"} BY <1>2, <2>2 DEF JobRecs
    <3>2. job' = [job EXCEPT !.data = data \o un, !.limit = end, !.hit = h]
      BY <2>2, <1>4, <1>5, <3>1
    <3>3. job' \in JobRecs /\ job'.pc = "st" /\ job'.data = data \o un
      /\ job'.blocks = job.blocks /\ job'.limit = end /\ job'.hit = h
      /\ job'.emitted = job.emitted /\ job'.i = job.i
      BY <1>1, <1>2, <1>3, <1>6, <3>2 DEF JobRecs
    <3>4. p' = [p EXCEPT !.readPos = end, !.readWasFinished = TRUE, !.readRes = "read"]
      BY <2>2, <3>3
    <3> QED BY <1>2, <1>3, <3>1, <3>3, <3>4 DEF MtDecRecs
  <2> QED BY <1>1, <2>1, <2>2
<1>8. Typed' /\ StillThreads BY <1>1, <1>2, <1>7 DEF Typed, StillThreads
<1>9. FilledOK' BY <1>2, <1>7 DEF FilledOK, Started
<1>10. Bounds' BY <1>2, <1>1, <1>3, <1>7, <1>8, SingleBounds DEF ThreadRecs, Bounds
<1>11. InOrder'
  BY <1>1, <1>2, Place, <1>3, <1>7 DEF InOrder, Written, LastBlock, Kind, BlockEnd
<1>12. BlockStart(Written + 1)' = s BY <1>7, <1>5 DEF BlockStart, BlockEnd, Written
<1>13. p.cross = <<>> /\ p'.cross = <<>> BY <1>1, <1>2, <1>7 DEF Bounds
<1>14. Single'
  <2>0. /\ Len(data \o un) = Len(data) + Len(un) /\ Len(un) = end - r /\ Holds(un, r + 1)
        /\ r <= end
    BY <1>3, <1>4, <1>5
  <2>1. CASE Holds(job.data, s) /\ Continues(s + Len(job.data))
    <3>1. s + Len(data) = r + 1 /\ Holds(data, s) BY <2>1, <1>5, <1>13 DEF Continues
    <3>2. Holds(data \o un, s) BY <3>1, <2>0, RunsJoin
    <3>3. Holds(job'.data, s) /\ Len(job'.data) = Len(data) + Len(un) BY <1>7, <2>0, <3>2
    <3>4. Continues(s + Len(job.data))'
      <4>1. Len(data) \in Nat /\ Len(p'.cross) = 0 BY <1>13
      <4>2. s + Len(job'.data) + Len(p'.cross) = p'.readPos + 1
        <5>1. Len(job'.data) = Len(data) + Len(un) /\ p'.readPos = end /\ Len(un) = end - r
          BY <3>3, <2>0, <1>7
        <5>2. end \in Nat BY <1>3
        <5> QED BY <3>1, <4>1, <5>1, <5>2, SMTT(30)
      <4> QED BY <4>2 DEF Continues
    <3> QED BY <3>3, <3>4, <1>12 DEF Single, Holds, Continues
  <2>2. ASSUME /\ s <= BlockEnd(LastBlock) + 1
               /\ s + Len(job.data) <= p.readPos + 1
               /\ \A i \in 1..Len(job.data) : job.data[i] >= s + i - 1,
               NEW b \in 1..LastBlock,
               /\ LastParsed(b) /\ BlockEnd(b) <= p.readPos
               /\ Written < b \/ b = LastBlock
               /\ s + Len(job.data) > BlockEnd(b)
               /\ \A i \in 1..Len(job.data) :
                     s + i - 1 <= BlockEnd(b) => job.data[i] = s + i - 1
        PROVE  Single'
    <3>1. PICK e \in Nat : e = BlockEnd(b) BY <1>1, <1>2, Place, BlockFacts
    <3>2. /\ s + Len(data) <= r + 1 /\ s + Len(data) > e /\ e <= r
          /\ \A i \in 1..Len(data) : data[i] >= s + i - 1
          /\ \A i \in 1..Len(data) : s + i - 1 <= e => data[i] = s + i - 1
      BY <1>5, <2>2, <3>1
    <3> DEFINE d == data \o un
    <3>3. \A i \in 1..Len(d) : d[i] = IF i <= Len(data) THEN data[i] ELSE un[i - Len(data)]
      BY <2>0
    <3>4. \A i \in 1..Len(d) : i > Len(data) => d[i] = r + 1 + (i - Len(data)) - 1
      BY <2>0, <3>3 DEF Holds
    <3>5. ASSUME NEW i \in 1..Len(d)
          PROVE  d[i] >= s + i - 1 /\ (s + i - 1 <= e => d[i] = s + i - 1)
      <4>1. CASE i <= Len(data) BY <2>0, <4>1, <3>2, <3>3
      <4>2. CASE i > Len(data) BY <2>0, <3>2, <3>4, <4>2
      <4> QED BY <2>0, <4>1, <4>2
    <3>6. s + Len(d) <= end + 1 /\ s + Len(d) > e /\ e <= end BY <1>3, <2>0, <3>2
    <3>7. /\ BlockEnd(LastBlock)' = BlockEnd(LastBlock) /\ LastBlock' = LastBlock
          /\ LastParsed(b)' /\ BlockEnd(b)' = e /\ Written' = Written
      BY <1>7, <2>2, <3>1 DEF LastBlock, LastParsed, BlockEnd, Kind, Written
    <3>8. job'.data = d /\ p'.readPos = end BY <1>7
    <3> HIDE DEF d
    <3> QED BY <2>2, <3>5, <3>6, <3>7, <3>8, <1>12 DEF Single
  <2> QED BY <1>2, <1>5, <2>1, <2>2 DEF Single
<1>15. AfterTurn' BY <1>7, <1>14 DEF AfterTurn, Ended, InMt
<1> QED BY <1>1, <1>2, <1>7, <1>8, <1>9, <1>10, <1>11, <1>15, SingleInv DEF Hits_Known

(* The units of a block. *)
LEMMA UnitInBlock ==
    ASSUME job.blocks \in Inputs, NEW n \in 0..LastBlock, n # LastBlock,
           NEW u \in Nat, BlockEnd(n) < u, u <= BlockEnd(n + 1)
    PROVE  BlockOf(u) = n + 1
<1>1. LastBlock \in Nat \ {0} /\ \A b \in 0..LastBlock : BlockEnd(b) \in Nat BY BlockFacts
<1> DEFINE c == BlockOf(u)
<1>2. /\ c \in 0..LastBlock
      /\ c = 0 <=> u = 0 \/ u > BlockEnd(LastBlock)
      /\ c # 0 => u <= BlockEnd(c)
      /\ c > 1 => BlockEnd(c - 1) < u
  BY BlockOfFacts
<1> HIDE DEF c
<1>3. n + 1 \in 1..LastBlock /\ LastBlock \in (n + 1)..LastBlock /\ n \in Nat BY <1>1
<1>4. BlockEnd(n) \in Nat /\ BlockEnd(n + 1) \in Nat /\ BlockEnd(LastBlock) \in Nat
  BY <1>1, <1>3
<1>5. BlockEnd(n + 1) <= BlockEnd(LastBlock) BY <1>3, EndsIncrease
<1>6. c # 0 BY <1>2, <1>4, <1>5
<1>7. c \in 1..LastBlock /\ BlockEnd(c) \in Nat BY <1>1, <1>2, <1>6
<1>8. ~(c <= n) BY <1>1, <1>3, <1>7, EndsIncrease, <1>2, <1>4, <1>6
<1>9. ~(c > n + 1) BY <1>1, <1>3, <1>7, EndsIncrease, <1>2, <1>4
<1>10. c = n + 1 BY <1>3, <1>7, <1>8, <1>9
<1> QED BY <1>10 DEF c

(* The next block is the one behind the last that was written. *)
LEMMA NextIsNext ==
    ASSUME Typed, Bounds, Hits_Known, job.pc = "st", Single, HasNextBlock
    PROVE  /\ NextBlock = Written + 1 /\ Written < LastBlock
           /\ BlockSize(NextBlock) \in 1..Len(job.data)
           /\ BlockEnd(Written + 1) = BlockEnd(Written) + BlockSize(Written + 1)
           /\ BlockEnd(Written + 1) <= p.readPos
<1>1. /\ job.blocks \in Inputs /\ InOrder
      /\ Written \in 0..LastBlock /\ LastBlock \in Nat \ {0}
      /\ BlockEnd(Written) \in Nat /\ BlockStart(Written + 1) = BlockEnd(Written) + 1
      /\ \A b \in 0..LastBlock : BlockEnd(b) \in Nat
  BY Place
<1> DEFINE s == BlockEnd(Written) + 1
<1>2. job.data \in Seq(Nat) /\ p.readPos \in Nat /\ p.cross \in Seq(Nat)
  BY DEF Typed, JobRecs, MtDecRecs
<1>3. NextBlock # 0 /\ IsPrefix(Units(BlockStart(NextBlock), BlockEnd(NextBlock)), job.data)
  BY DEF HasNextBlock
<1>4. job.data # <<>> /\ NextBlock = BlockOf(job.data[1]) BY <1>3 DEF NextBlock
<1>5. Len(job.data) \in Nat \ {0} /\ 1 \in 1..Len(job.data) /\ job.data[1] \in Nat
  BY <1>2, <1>4
<1>6. Written < LastBlock /\ job.data[1] = s
  <2>1. CASE Holds(job.data, s)
    <3>1. job.data[1] = s BY <2>1, <1>1, <1>5 DEF Holds
    <3>2. Written # LastBlock BY <3>1, <1>1, <1>3, <1>4, <1>5, BlockOfFacts
    <3> QED BY <3>1, <3>2, <1>1
  <2>2. CASE ~Holds(job.data, s)
    <3>1. /\ \A i \in 1..Len(job.data) : job.data[i] >= s + i - 1
          /\ \E b \in 1..LastBlock :
                /\ Written < b \/ b = LastBlock
                /\ \A i \in 1..Len(job.data) :
                     s + i - 1 <= BlockEnd(b) => job.data[i] = s + i - 1
      BY <1>1, <2>2 DEF Single
    <3>2. PICK b \in 1..LastBlock :
                /\ Written < b \/ b = LastBlock
                /\ \A i \in 1..Len(job.data) :
                     s + i - 1 <= BlockEnd(b) => job.data[i] = s + i - 1
      BY <3>1
    <3>3. job.data[1] >= s /\ s \in Nat BY <1>1, <1>5, <3>1
    <3>4. Written # LastBlock
      <4>1. ASSUME Written = LastBlock PROVE FALSE
        <5>1. job.data[1] > BlockEnd(LastBlock) /\ job.data[1] \in Int
          BY <4>1, <3>3, <1>1, <1>5
        <5>2. BlockOf(job.data[1]) = 0 BY <5>1, <1>1, BlockOfFacts
        <5> QED BY <5>2, <1>3, <1>4
      <4> QED BY <4>1
    <3>5. Written < b /\ b \in Written..LastBlock /\ Written \in 0..LastBlock /\ BlockEnd(b) \in Nat
      BY <3>2, <3>4, <1>1
    <3>6. BlockEnd(Written) < BlockEnd(b) BY <3>5, <1>1, EndsIncrease
    <3>7. s + 1 - 1 <= BlockEnd(b) /\ s + 1 - 1 = s BY <3>5, <3>6, <1>1
    <3> QED BY <3>2, <3>4, <3>7, <1>1, <1>5
  <2> QED BY <2>1, <2>2
<1>7. BlockEnd(Written) < BlockEnd(Written + 1) /\ BlockEnd(Written + 1) \in Nat
      /\ Written + 1 \in 1..LastBlock /\ (Written + 1) - 1 = Written
  <2>1. Written + 1 \in 1..LastBlock /\ (Written + 1) - 1 = Written
    BY <1>1, <1>6
  <2> QED
    BY <2>1, <1>1, BlockFacts
<1>8. NextBlock = Written + 1 BY <1>1, <1>6, <1>7, <1>4, UnitInBlock
<1>9. BlockSize(Written + 1) = BlockEnd(Written + 1) - BlockEnd(Written) BY <1>7 DEF BlockSize
<1> DEFINE units == Units(BlockStart(NextBlock), BlockEnd(NextBlock))
<1>10. /\ units \in Seq(Nat) /\ Len(units) = BlockEnd(Written + 1) - BlockEnd(Written)
       /\ Holds(units, s)
  <2>1. BlockStart(NextBlock) = s /\ BlockEnd(NextBlock) = BlockEnd(Written + 1) BY <1>1, <1>8
  <2>2. s \in Nat /\ s <= BlockEnd(Written + 1) + 1 BY <1>1, <1>7
  <2>3. /\ Units(s, BlockEnd(Written + 1)) \in Seq(Nat)
        /\ Len(Units(s, BlockEnd(Written + 1))) = BlockEnd(Written + 1) - s + 1
        /\ Holds(Units(s, BlockEnd(Written + 1)), s)
    BY <2>2, <1>7, UnitsRun
  <2> QED BY <2>1, <2>2, <2>3, <1>7, <1>1
<1>11. /\ Len(units) <= Len(job.data)
       /\ \A i \in 1..Len(units) : job.data[i] = units[i]
  BY <1>3, <1>10, <1>2 DEF IsPrefix, units
<1>12. s + Len(job.data) <= p.readPos + 1 BY <1>1, <1>2, SMTT(30) DEF Continues, Single
<1> HIDE DEF units
<1>13. BlockSize(Written + 1) \in 1..Len(job.data) BY <1>7, <1>9, <1>1, <1>5, <1>10, <1>11
<1>14. BlockEnd(Written + 1) <= p.readPos
  BY <1>1, <1>2, <1>5, <1>7, <1>10, <1>11, <1>12, SMTT(30)
<1> QED BY <1>1, <1>6, <1>7, <1>8, <1>9, <1>13, <1>14

(* The call returns from single-thread decoding. *)
LEMMA StReturn ==
    ASSUME Inv, job.pc = "st", p' = p, th' = th, job' \in JobRecs, job'.pc = "idle",
           job'.blocks = job.blocks, job'.limit = job.limit
    PROVE  Inv'
<1>1. /\ p \in MtDecRecs /\ th \in [Threads -> ThreadRecs] /\ job \in JobRecs
      /\ Typed /\ Bounds /\ FilledOK /\ AfterRing
  BY DEF Inv, Typed
<1>2. Typed'
  BY <1>1 DEF Typed
<1>3. Bounds'
  <2>1. \A u \in Threads : /\ th'[u].inDataSize_Start <= th[u].inDataSize_Start
                           /\ th'[u].inDataSize_Start = 0 \/ th'[u].inDataSize = th[u].inDataSize
    <3>1. \A u \in Threads : th[u].inDataSize_Start \in Nat
      BY <1>1 DEF ThreadRecs
    <3> QED
      BY <3>1
  <2>2. p'.readPos <= job'.limit
    BY <1>1 DEF Bounds
  <2>3. StillThreads
    BY DEF StillThreads
  <2> QED
    BY <1>2, <2>1, <2>2, <2>3, SingleBounds
<1>4. FilledOK'
  BY <1>1 DEF FilledOK, Started
<1>5. th'[0].pc = "none" /\ \A t \in Threads : Idle(t)'
  BY <1>1 DEF AfterRing, Idle
<1> QED
  BY <1>2, <1>3, <1>4, <1>5, ReturnInv

LEMMA StStopsInv ==
    ASSUME Inv, StStops
    PROVE  Inv'
<1>1. PICK fault \in {"write", "progress"} :
         /\ CanFail(fault) /\ job' = [Return(fault) EXCEPT !.hit = @ \cup {fault}]
  BY Zenon DEF StStops
<1>2. job.pc = "st" /\ p' = p /\ th' = th BY DEF StStops
<1>3. Typed /\ job \in JobRecs BY DEF Inv, Typed
<1>4. job.hit \cup {fault} \in SUBSET Faults /\ fault \in Results BY <1>1, <1>3, FaultIn DEF Results
<1>5. job' \in JobRecs /\ job'.pc = "idle" /\ job'.blocks = job.blocks /\ job'.limit = job.limit
  BY <1>1, <1>3, <1>4 DEF Return, JobRecs
<1> QED BY <1>2, <1>5, StReturn

LEMMA StBlockInv ==
    ASSUME Inv, StBlock
    PROVE  Inv'
<1>1. job.pc = "st" /\ HasNextBlock /\ p' = p /\ th' = th BY DEF StBlock
<1>2. /\ p \in MtDecRecs /\ th \in [Threads -> ThreadRecs] /\ job \in JobRecs
      /\ Typed /\ Bounds /\ FilledOK /\ Single /\ Hits_Known /\ AfterRing
  BY <1>1 DEF Inv, AfterTurn, Typed
<1>3. /\ job.blocks \in Inputs /\ InOrder
      /\ Written \in 0..LastBlock /\ LastBlock \in Nat \ {0}
      /\ BlockEnd(Written) \in Nat /\ BlockStart(Written + 1) = BlockEnd(Written) + 1
      /\ \A b \in 0..LastBlock : BlockEnd(b) \in Nat
  BY <1>1, <1>2, Place
<1>4. /\ NextBlock = Written + 1 /\ Written < LastBlock
      /\ BlockSize(NextBlock) \in 1..Len(job.data)
      /\ BlockEnd(Written + 1) = BlockEnd(Written) + BlockSize(Written + 1)
      /\ BlockEnd(Written + 1) <= p.readPos
  BY <1>1, <1>2, NextIsNext
<1>5. job.data \in Seq(Nat) /\ job.emitted \in Seq(Nat) /\ p.readPos \in Nat
  BY <1>2 DEF JobRecs, MtDecRecs
<1>60. PICK b \in Nat : b = NextBlock BY <1>3, <1>4
<1>6. PICK n \in Nat, data \in Seq(Nat), s \in Nat, r \in Nat, em \in Seq(Nat) :
          /\ b = NextBlock /\ n = BlockSize(b) /\ data = job.data
          /\ s = BlockEnd(Written) + 1 /\ r = p.readPos /\ em = job.emitted
  <2>1. BlockSize(b) \in Nat /\ BlockEnd(Written) + 1 \in Nat BY <1>3, <1>4, <1>60
  <2> QED BY <2>1, <1>5, <1>60, Zenon
<1>7. /\ b = Written + 1 /\ b \in 1..LastBlock /\ n \in 1..Len(data)
      /\ BlockEnd(b) + 1 = s + n /\ s + n <= r + 1 /\ Written = Len(em)
  <2>1. b = Written + 1 /\ BlockEnd(b) = BlockEnd(Written) + n /\ n \in 1..Len(data)
        /\ BlockEnd(b) <= r /\ Written = Len(em)
    BY <1>4, <1>6 DEF Written
  <2>2. b \in 1..LastBlock BY <2>1, <1>3, <1>4, SMTT(30)
  <2>3. BlockEnd(Written) \in Nat /\ s = BlockEnd(Written) + 1 BY <1>3, <1>6
  <2>4. BlockEnd(b) + 1 = s + n /\ s + n <= r + 1
    <3>1. PICK w \in Nat : w = BlockEnd(Written) BY <2>3
    <3>2. BlockEnd(b) = w + n /\ BlockEnd(b) <= r /\ s = w + 1 BY <2>1, <2>3, <3>1
    <3> QED BY <3>2
  <2> QED BY <2>1, <2>2, <2>4
<1>8. CASE job'.pc = "idle" /\ job' \in JobRecs /\ job'.blocks = job.blocks
           /\ job'.limit = job.limit
  BY <1>1, <1>8, StReturn
<1>9. ASSUME Kind(b) \in {"ok", "big"},
             job' = [job EXCEPT !.emitted = Append(em, b), !.data = SubSeq(data, n + 1, Len(data))]
      PROVE  Inv'
  <2> DEFINE d == SubSeq(data, n + 1, Len(data))
  <2>0. n \in 0..Len(data) /\ n \in Nat /\ Len(data) \in Nat BY <1>7
  <2>1. d \in Seq(Nat) /\ Len(d) = Len(data) - n /\ \A i \in 1..Len(data) - n : d[i] = data[n + i]
    BY <2>0, SubSeqProperties
  <2> DEFINE ap == Append(em, b)
  <2>2. /\ ap \in Seq(Nat) /\ Len(ap) = Len(em) + 1
        /\ \A i \in 1..Len(em) : ap[i] = em[i]
        /\ ap[Len(em) + 1] = b
    BY <1>6
  <2> HIDE DEF d, ap
  <2>3. /\ job' \in JobRecs /\ job'.pc = "st" /\ job'.emitted = ap /\ job'.data = d
        /\ job'.blocks = job.blocks /\ job'.limit = job.limit /\ job'.hit = job.hit
        /\ job'.i = job.i
    <3>1. job' = [job EXCEPT !.emitted = ap, !.data = d] BY <1>9 DEF ap, d
    <3> QED BY <1>1, <1>2, <2>1, <2>2, <3>1 DEF JobRecs
  <2>4. Typed' /\ StillThreads BY <1>1, <1>2, <2>3 DEF Typed, StillThreads
  <2>5. Bounds' BY <1>2, <1>1, <2>3, <2>4, SingleBounds DEF ThreadRecs, Bounds
  <2>6. FilledOK' BY <1>1, <1>2 DEF FilledOK, Started
  <2>7. Written' = b /\ LastBlock' = LastBlock /\ (\A c : BlockEnd(c)' = BlockEnd(c))
        /\ \A c : Kind(c)' = Kind(c)
    BY <2>2, <2>3, <1>7, <1>6 DEF Written, LastBlock, BlockEnd, Kind
  <2>8. InOrder'
    <3>1. em = [i \in 1..Len(em) |-> i] /\ \A c \in 1..Len(em) : Kind(c) \in {"ok", "big"}
      BY <1>3, <1>6, <1>7 DEF InOrder
    <3>2. \A i \in 1..Len(em) : em[i] = i BY <3>1
    <3>3. \A i \in 1..b : ap[i] = i
      <4>1. b = Len(em) + 1 /\ Len(em) \in Nat BY <1>7
      <4>2. \A i \in 1..b : i \in 1..Len(em) \/ i = b BY <4>1
      <4> QED BY <3>2, <2>2, <4>1, <4>2
    <3>4. ap = [i \in 1..b |-> i] BY <2>2, <1>7, <3>3
    <3>5. \A c \in 1..b : Kind(c) \in {"ok", "big"} BY <3>1, <1>9, <1>7
    <3>6. BlockEnd(b) <= p'.readPos BY <1>1, <1>4, <1>7
    <3> QED BY <3>4, <3>5, <3>6, <2>3, <2>7, <1>7 DEF InOrder
  <2>9. BlockStart(Written + 1)' = s + n
    <3>1. (b + 1) - 1 = b /\ b \in Nat BY <1>7
    <3>2. BlockStart(Written + 1)' = BlockEnd(b)' + 1 BY <2>7, <3>1 DEF BlockStart, BlockEnd
    <3> QED BY <3>2, <2>7, <1>7
  <2>10. Single'
    <3>1. CASE Holds(data, s) /\ Continues(s + Len(data))
      <4>1. Holds(d, s + n) BY <3>1, <2>0, RunParts DEF d
      <4>2. Continues((s + n) + Len(d)) BY <2>0, <2>1, <3>1
      <4>3. Continues((s + n) + Len(job.data))' BY <4>2, <2>3, <1>1 DEF Continues
      <4> QED BY <4>1, <4>3, <2>3, <2>9 DEF Single, Holds, Continues
    <3>2. ASSUME ~(Holds(data, s) /\ Continues(s + Len(data))) PROVE Single'
      <4>1. /\ s + Len(data) <= r + 1
            /\ \A i \in 1..Len(data) : data[i] >= s + i - 1
        BY <3>2, <1>2, <1>3, <1>6 DEF Single
      <4>2. PICK c \in 1..LastBlock :
             /\ LastParsed(c) /\ BlockEnd(c) <= r
             /\ Written < c \/ c = LastBlock
             /\ s + Len(data) > BlockEnd(c)
             /\ \A i \in 1..Len(data) :
                   s + i - 1 <= BlockEnd(c) => data[i] = s + i - 1
        BY <3>2, <1>2, <1>3, <1>6 DEF Single
      <4>3. PICK e \in Nat : e = BlockEnd(c) BY <1>3
      <4>4. b < c \/ c = LastBlock
        <5>1. b = c => c = LastBlock BY <4>2, <1>9 DEF LastParsed
        <5> QED BY <5>1, <4>2, <1>3, <1>7, SMTT(30)
      <4>5. s + n <= BlockEnd(LastBlock) + 1 BY <1>3, <1>7, EndsIncrease
      <4>6. ASSUME NEW i \in 1..Len(d)
            PROVE  d[i] >= (s + n) + i - 1 /\ ((s + n) + i - 1 <= e => d[i] = (s + n) + i - 1)
        <5>1. n + i \in 1..Len(data) /\ d[i] = data[n + i] BY <2>0, <2>1
        <5>2. data[n + i] >= s + (n + i) - 1 /\ (s + (n + i) - 1 <= e => data[n + i] = s + (n + i) - 1)
          BY <5>1, <4>1, <4>2, <4>3
        <5>3. s + (n + i) - 1 = (s + n) + i - 1 BY <2>0
        <5> QED BY <5>1, <5>2, <5>3
      <4>7. (s + n) + Len(d) = s + Len(data) BY <2>0, <2>1
      <4>8. /\ s + n <= BlockEnd(LastBlock)' + 1
            /\ (s + n) + Len(job'.data) <= p'.readPos + 1
            /\ \A i \in 1..Len(job'.data) : job'.data[i] >= (s + n) + i - 1
            /\ LastParsed(c)' /\ e <= p'.readPos
            /\ Written' < c \/ c = LastBlock'
            /\ (s + n) + Len(job'.data) > e
            /\ \A i \in 1..Len(job'.data) :
                   (s + n) + i - 1 <= e => job'.data[i] = (s + n) + i - 1
        <5>1. p'.readPos = r BY <1>1, <1>6
        <5>2. LastParsed(c)' BY <4>2, <2>7 DEF LastParsed
        <5>3. BlockEnd(LastBlock)' = BlockEnd(LastBlock) BY <2>7, <2>3 DEF BlockEnd, LastBlock
        <5>4. s + n <= BlockEnd(LastBlock)' + 1 BY <5>3, <4>5
        <5> QED BY <5>1, <5>2, <5>4, <4>1, <4>2, <4>3, <4>4, <4>6, <4>7, <2>3, <2>7
      <4>9. c \in (1..LastBlock)' /\ BlockEnd(c)' = e BY <2>7, <4>3
      <4> QED BY <4>8, <4>9, <2>9 DEF Single
    <3> QED BY <3>1, <3>2
  <2>11. AfterTurn' BY <2>3, <2>10 DEF AfterTurn, Ended, InMt
  <2>12. "read" \in job'.hit => p'.readRes # "ok" /\ p'.readWasFinished
    BY <1>1, <1>2, <2>3 DEF Hits_Known
  <2>13. p'.readRes # "ok" => "read" \in job'.hit BY <1>1, <1>2, <2>3 DEF Hits_Known
  <2> QED BY <1>1, <2>3, <2>4, <2>5, <2>6, <2>8, <2>11, <2>12, <2>13, SingleInv
<1>10. CASE job' = Return("data") BY <1>2, <1>10, ReturnType, <1>8 DEF Results
<1>11. \/ job' = Return("data")
       \/ /\ Kind(b) \in {"ok", "big"}
          /\ job' = [job EXCEPT !.emitted = Append(em, b), !.data = SubSeq(data, n + 1, Len(data))]
  BY <1>6 DEF StBlock
<1> QED BY <1>9, <1>10, <1>11

-----------------------------------------------------------------------------
(* The caller: the end of a call, and the destruction.                     *)

LEMMA StEndInv ==
    ASSUME Inv, StEnd
    PROVE  Inv'
<1> DEFINE r == IF p.readRes # "ok" \/ AllDecoded THEN p.readRes ELSE "eof"
<1>1. job.pc = "st" /\ p' = p /\ th' = th /\ job' = Return(r) BY DEF StEnd
<1>2. Typed /\ p.readRes \in {"ok", "read"} BY DEF Inv, Typed, MtDecRecs
<1>3. r \in Results BY <1>2 DEF Results
<1>4. job' \in JobRecs /\ job'.pc = "idle" /\ job'.blocks = job.blocks /\ job'.limit = job.limit
  BY <1>1, <1>2, <1>3, ReturnType
<1> QED BY <1>1, <1>4, StReturn

(* What is kept stays. *)
LEMMA KeptStays ==
    ASSUME Kept, p'.filledThreadStart = p.filledThreadStart,
           p'.numFilledThreads = p.numFilledThreads, p'.readPos = p.readPos,
           p'.cross = p.cross, job'.data = job.data, job'.i = job.i,
           job'.emitted = job.emitted, job'.blocks = job.blocks,
           p.numFilledThreads = 1 =>
              /\ th'[p.filledThreadStart].inBuf = th[p.filledThreadStart].inBuf
              /\ th'[p.filledThreadStart].inDataSize = th[p.filledThreadStart].inDataSize
              /\ th'[p.filledThreadStart].inDataSize_Start = th[p.filledThreadStart].inDataSize_Start
    PROVE  Kept'
<1> DEFINE T == th[p.filledThreadStart]
           s == BlockStart(Written + 1)
           pos == s + Len(job.data)
           inBuf == IF job.i # 0 THEN Tail(T.inBuf) ELSE T.inBuf
           first == IF T.inDataSize_Start # 0 THEN T.inDataSize_Start
                 ELSE IF T.inDataSize < InBufSize THEN T.inDataSize ELSE InBufSize
<1>1. /\ p.numFilledThreads \in {0, 1}
      /\ Holds(job.data, s)
      /\ p.numFilledThreads = 0 => Follows(pos) /\ job.i = 0
      /\ p.numFilledThreads = 1 =>
          /\ Follows(pos + T.inDataSize)
          /\ job.i = 0 => T.inDataSize > 0
          /\ job.i # 0 => T.inDataSize_Start = 0 /\ T.inBuf # <<>>
          /\ LinksHold(inBuf, first, T.inDataSize, pos)
  BY Zenon DEF Kept
<1>2. s' = s BY DEF BlockStart, BlockEnd, Written
<1>3. pos' = pos BY <1>2
<1>4. p.numFilledThreads = 1 =>
         /\ T'.inBuf = T.inBuf /\ T'.inDataSize = T.inDataSize
         /\ T'.inDataSize_Start = T.inDataSize_Start
  OBVIOUS
<1>5. p.numFilledThreads = 1 => inBuf' = inBuf /\ first' = first BY <1>4
<1>6. \A x : Follows(x) => Follows(x)'
  BY DEF Follows, Continues, LastBlock, LastParsed, Kind, BlockEnd
<1>7. Holds(job.data, s)'
  <2> HIDE DEF s
  <2> QED BY <1>1, <1>2 DEF Holds
<1>8. p'.numFilledThreads = 0 => Follows(pos)' /\ job'.i = 0
  BY <1>1, <1>3, <1>6 DEF Follows, Continues
<1>9. ASSUME p'.numFilledThreads = 1
      PROVE  /\ Follows(pos + T.inDataSize)'
             /\ job'.i = 0 => T'.inDataSize > 0
             /\ job'.i # 0 => T'.inDataSize_Start = 0 /\ T'.inBuf # <<>>
             /\ LinksHold(inBuf', first', T'.inDataSize, pos')
  BY <1>1, <1>6, <1>9, <1>4, <1>5, <1>3 DEF Follows, Continues
<1>10. p'.numFilledThreads \in {0, 1} BY <1>1
<1> QED BY <1>7, <1>8, <1>9, <1>10, Zenon DEF Kept

(* Thread 0 has returned. *)
LEMMA JoinedInv ==
    ASSUME Inv, Joined
    PROVE  Inv'
<1>1. Typed /\ Bounds /\ FilledOK /\ AfterRing /\ Hits_Known /\ AfterTurn BY DEF Inv
<1>2. Typed' /\ JoinedStep BY <1>1, JoinedMoves
<1>3. /\ job.pc = "mt" /\ th[0].pc = "ret" /\ p' = p
      /\ th'[0].pc = "none" /\ OnlyThread(0)
      /\ th'[0].canRead = th[0].canRead /\ th'[0].canWrite = th[0].canWrite
      /\ th'[0].inBuf = th[0].inBuf /\ th'[0].inDataSize = th[0].inDataSize
      /\ th'[0].inDataSize_Start = th[0].inDataSize_Start /\ th'[0].loc = th[0].loc
  BY <1>2 DEF JoinedStep, InMt
<1>4. PICK pc \in {"idle", "prepare"}, res \in {p.progressRes, job.res, p.readRes} :
         /\ JobMoves(pc, res)
         /\ pc = "prepare" => p.progressRes = "ok" /\ GoesOnSingle
  BY <1>2, Zenon DEF JoinedStep
<1>5. 0 \in Threads BY Numbers
<1>6. Ended BY <1>3 DEF Ended, InMt
<1>7. th'[0].pc = "none" /\ \A t \in Threads : Idle(t)'
  BY <1>1, <1>3, <1>6 DEF AfterRing, Idle, OnlyThread
<1>8. job'.blocks = job.blocks /\ job'.limit = job.limit /\ job'.hit = job.hit
      /\ job'.emitted = job.emitted /\ job'.data = job.data /\ job'.i = job.i
      /\ job'.pc = pc
  BY <1>4 DEF JobMoves
<1>9. Bounds'
  BY <1>8, <1>1, <1>3, <1>5, <1>7 DEF LastBlock, Bounds, Reads, Works, OnlyThread, Idle, Holds
<1>10. FilledOK' BY <1>1, <1>3 DEF FilledOK, Started
<1>11. CASE pc = "idle" BY <1>2, <1>7, <1>8, <1>9, <1>10, <1>11, ReturnInv
<1>12. CASE pc = "prepare"
  <2>1. ~InMt' /\ ~Runs' /\ ~Ended' BY <1>8, <1>12 DEF InMt, Runs, Ended
  <2>2. AfterRing' BY <1>7, <1>8, <1>12, <2>1 DEF AfterRing
  <2>3. p.progressRes = "ok" /\ GoesOnSingle BY <1>4, <1>12
  <2>4. Kept /\ job.data = <<>> /\ job.i = 0 /\ "write" \notin job.hit
    BY <1>1, <1>6, <2>3 DEF AfterTurn
  <2>5. Kept'
    <3>1. p.filledThreadStart \in Threads BY <1>1 DEF Typed, MtDecRecs
    <3> DEFINE f == p.filledThreadStart
    <3>2. /\ th'[f].inBuf = th[f].inBuf
          /\ th'[f].inDataSize = th[f].inDataSize
          /\ th'[f].inDataSize_Start = th[f].inDataSize_Start
      BY <1>3, <3>1 DEF OnlyThread
    <3> QED BY <1>3, <1>8, <2>4, <3>2, KeptStays
  <2>6. AfterTurn' BY <1>8, <1>12, <2>1, <2>4, <2>5 DEF AfterTurn
  <2>7. InOrder' BY <1>1, <1>3, Place, <1>8 DEF InOrder, Written, LastBlock, Kind, BlockEnd
  <2>8. Hits_Known' BY <1>1, <1>3, <1>8, <2>3, <2>4, <2>7 DEF Hits_Known, GoesOnSingle
  <2> QED BY <1>2, <1>9, <1>10, <2>1, <2>2, <2>6, <2>8 DEF Inv
<1> QED BY <1>4, <1>11, <1>12

LEMMA PrepareReadInv ==
    ASSUME Inv, PrepareRead
    PROVE  Inv'
<1>1. Typed /\ Bounds /\ FilledOK /\ AfterRing /\ Hits_Known /\ AfterTurn BY DEF Inv
<1>2. Typed' /\ PrepareStep BY <1>1, PrepareMoves
<1>3. /\ job.pc = "prepare" /\ StillThreads
      /\ \A u \in Threads : /\ th'[u].inDataSize = th[u].inDataSize
                            /\ th'[u].inDataSize_Start = th[u].inDataSize_Start
      /\ p.numFilledThreads > 0 /\ p.filledThreadStart <= Started =>
          th'[p.filledThreadStart].inBuf = th[p.filledThreadStart].inBuf
      /\ p'.progressRes = p.progressRes
  BY <1>2 DEF PrepareStep, StillThreads
<1>4. /\ p'.numStartedThreads = p.numStartedThreads
      /\ p'.isAllocError = p.isAllocError /\ p'.overflow = p.overflow
      /\ p'.threadingError = p.threadingError /\ p'.wasInterrupted = p.wasInterrupted
      /\ p'.filledThreadStart = p.filledThreadStart
      /\ p'.numFilledThreads = p.numFilledThreads
      /\ p'.readPos = p.readPos /\ p'.cross = p.cross
      /\ p'.readWasFinished = p.readWasFinished /\ p'.readRes = p.readRes
  BY <1>2 DEF PrepareStep, SameTokens, SameStops, SameInput
<1>5. /\ job'.blocks = job.blocks /\ job'.limit = job.limit
      /\ job'.emitted = job.emitted /\ job'.data = job.data /\ job'.i = job.i
      /\ job'.pc = "st" => p.cross = <<>>
  BY <1>2 DEF PrepareStep, PreparesST, NoMemoryST, JobMoves
<1>6. FilledOK' BY <1>1, <1>4 DEF FilledOK, Started
<1>7. p.readPos <= job.limit BY <1>1 DEF Bounds
<1>8. Bounds' BY <1>1, <1>3, <1>4, <1>5, <1>2, <1>7, SingleBounds DEF Typed, ThreadRecs
<1>14. CASE NoMemoryST
  <2>1. th'[0].pc = "none" /\ \A t \in Threads : Idle(t)'
    BY <1>1, <1>3, Numbers DEF AfterRing, Idle, StillThreads
  <2> QED BY <1>2, <1>6, <1>8, <1>14, <2>1, ReturnInv DEF NoMemoryST
<1> SUFFICES ASSUME PreparesST PROVE Inv'
  BY <1>2, <1>14 DEF PrepareStep
<1>15. /\ job'.pc = IF p.numFilledThreads # 0 \/ p.cross # <<>> THEN "mtRead" ELSE "st"
       /\ job'.hit = job.hit
  BY DEF PreparesST, JobMoves
<1>9. InOrder'
  <2>1. InOrder BY <1>1, <1>3, Place
  <2> QED BY <2>1, <1>4, <1>5 DEF InOrder, Written, LastBlock, Kind, BlockEnd
<1>10. Kept /\ job.data = <<>> /\ job.i = 0 BY <1>1, <1>3 DEF AfterTurn
<1>11. ASSUME job'.pc = "mtRead" PROVE AfterTurn'
  <2>1. Kept'
    <3> DEFINE f == p.filledThreadStart
    <3>1. f \in Threads /\ f \in Nat /\ Started \in Nat /\ p.numFilledThreads \in Nat
      BY <1>1, Numbers DEF Typed, MtDecRecs, Started
    <3>2. p.numFilledThreads = 1 => p.numFilledThreads > 0 /\ f <= Started
      BY <1>1, <3>1 DEF FilledOK
    <3>3. p.numFilledThreads = 1 =>
            /\ th'[f].inBuf = th[f].inBuf
            /\ th'[f].inDataSize = th[f].inDataSize
            /\ th'[f].inDataSize_Start = th[f].inDataSize_Start
      BY <1>3, <3>1, <3>2
    <3> QED BY <1>4, <1>5, <1>10, <3>3, KeptStays
  <2>2. job'.i = 0 BY <1>5, <1>10
  <2> QED BY <1>11, <2>1, <2>2 DEF AfterTurn, Ended, InMt
<1>12. ASSUME job'.pc = "st" PROVE AfterTurn'
  <2>1. p.numFilledThreads = 0 /\ p.cross = <<>> BY <1>15, <1>12
  <2>2. Follows(BlockStart(Written + 1) + 0) BY <1>10, <2>1 DEF Kept
  <2>3. PICK s \in Nat, r \in Nat : s = BlockStart(Written + 1) /\ r = p.readPos
    BY <1>1, <1>3, Place DEF Typed, MtDecRecs
  <2>4. Follows(s) BY <2>2, <2>3
  <2>5. BlockStart(Written + 1)' = s /\ job'.data = <<>> /\ p'.cross = <<>> /\ p'.readPos = r
    BY <1>4, <1>5, <1>10, <2>1, <2>3 DEF BlockStart, BlockEnd, Written
  <2>6. Single'
    <3>1. CASE s = r + 1
      <4>1. Continues(s + Len(job.data))'
        BY <3>1, <2>5 DEF Continues
      <4>2. Holds(job'.data, s)
        BY <2>5 DEF Holds
      <4> QED
        BY <2>5, <4>1, <4>2 DEF Single, Holds, Continues
    <3>2. CASE s # r + 1
      <4>1. ~Continues(s)
        BY <3>2, <2>1, <2>3 DEF Continues
      <4>2. s <= r + 1
        BY <2>3, <2>4, <4>1 DEF Follows
      <4>3. PICK b \in 1..LastBlock : LastParsed(b) /\ s = BlockEnd(b) + 1
        BY <2>3, <2>4, <4>1 DEF Follows
      <4>4. /\ s <= BlockEnd(LastBlock) + 1 /\ BlockEnd(b) <= r
            /\ Written < b \/ b = LastBlock
        BY <1>1, <1>3, <2>3, <4>2, <4>3, StopsThere
      <4>5. PICK e \in Nat : e = BlockEnd(b)
        BY <1>1, <1>3, Place, BlockFacts
      <4>6. /\ BlockEnd(LastBlock)' = BlockEnd(LastBlock) /\ LastBlock' = LastBlock
            /\ LastParsed(b)' /\ BlockEnd(b)' = e /\ Written' = Written
        BY <1>5, <4>3, <4>5 DEF LastBlock, LastParsed, BlockEnd, Kind, Written
      <4>7. Len(job'.data) = 0 /\ s + Len(job'.data) = s
        BY <2>5
      <4>8. /\ s <= BlockEnd(LastBlock)' + 1
            /\ s + Len(job'.data) <= p'.readPos + 1
            /\ \A i \in 1..Len(job'.data) : job'.data[i] >= s + i - 1
            /\ LastParsed(b)' /\ e <= p'.readPos
            /\ Written' < b \/ b = LastBlock'
            /\ s + Len(job'.data) > e
            /\ \A i \in 1..Len(job'.data) : job'.data[i] = s + i - 1
        BY <2>5, <4>2, <4>3, <4>4, <4>5, <4>6, <4>7
      <4>9. b \in (1..LastBlock)'
        BY <4>6
      <4> QED
        BY <2>5, <4>6, <4>8, <4>9 DEF Single
    <3> QED
      BY <3>1, <3>2
  <2> QED BY <1>12, <2>6 DEF AfterTurn, Ended, InMt
<1>13. job'.pc \in {"mtRead", "st"} BY <1>15
<1> QED
  BY <1>1, <1>3, <1>4, <1>5, <1>15, <1>11, <1>12, <1>13, <1>2, <1>6, <1>8, <1>9, SingleInv DEF
     Hits_Known

(* The threads are told to exit. *)
LEMMA DestructInv ==
    ASSUME Inv, Destruct
    PROVE  Inv'
<1>1. /\ Typed /\ Bounds /\ FilledOK /\ AfterRing
      /\ p \in MtDecRecs /\ th \in [Threads -> ThreadRecs] /\ job \in JobRecs
  BY DEF Inv, Typed
<1>2. /\ job.pc = "idle" /\ th' = th
      /\ p' = [p EXCEPT !.exitThread = TRUE]
      /\ job' = [job EXCEPT !.pc = "free", !.i = 0]
  BY DEF Destruct
<1>3. /\ p' \in MtDecRecs /\ p'.exitThread /\ p'.numStartedThreads = p.numStartedThreads
      /\ p'.cross = p.cross /\ p'.readPos = p.readPos
      /\ p'.numFilledThreads = p.numFilledThreads
      /\ p'.filledThreadStart = p.filledThreadStart
  BY <1>1, <1>2 DEF MtDecRecs
<1>4. job' \in JobRecs /\ job'.pc = "free" /\ job'.blocks = job.blocks /\ job'.limit = job.limit
  BY <1>1, <1>2 DEF JobRecs
<1>5. Typed' BY <1>1, <1>2, <1>3, <1>4 DEF Typed
<1>6. FilledOK' BY <1>1, <1>3 DEF FilledOK, Started
<1>7. \A t \in Threads : th'[t].pc \in {"none", "wait"} BY <1>1, <1>2 DEF AfterRing, Idle
<1>8. Bounds' BY <1>4, <1>1, <1>2, <1>7, <1>3 DEF LastBlock, Bounds, Reads, Works, Holds
<1>9. ~InMt' /\ ~Runs' /\ ~Ended' BY <1>4 DEF InMt, Runs, Ended
<1>10. AfterRing' /\ Hits_Known' /\ AfterTurn'
  BY <1>3, <1>4, <1>7, <1>9 DEF AfterRing, Hits_Known, AfterTurn
<1> QED BY <1>5, <1>6, <1>8, <1>9, <1>10 DEF Inv

(* A thread, told to exit, returns; or is joined, or woken. *)
LEMMA ExitInv ==
    ASSUME Inv, Typed', p' = p, NEW t \in Threads, OnlyThread(t),
           job'.pc = job.pc, job'.blocks = job.blocks, job'.limit = job.limit,
           th'[t].inDataSize_Start <= InBufSize,
           th'[t].inDataSize_Start <= th'[t].inDataSize,
           th'[t].loc = NoLocals, th'[t].pc \in {"none", "wait", "ret"}
    PROVE  Bounds' /\ FilledOK'
<1>1. Typed /\ Bounds /\ FilledOK BY DEF Inv
<1>2. FilledOK' BY <1>1 DEF FilledOK, Started
<1>3. LastBlock' = LastBlock BY DEF LastBlock
<1>4. LastBlock \in Nat BY <1>1, BlockFacts DEF Typed, JobRecs, LastBlock
<1>5. NoLocals.block = 0 BY DEF NoLocals
<1>6. ASSUME NEW u \in Threads
      PROVE  /\ th'[u].inDataSize_Start <= InBufSize
             /\ th'[u].inDataSize_Start <= th'[u].inDataSize
             /\ th'[u].loc.block <= LastBlock'
             /\ ~Reads(u)' /\ ~Works(u)' => th'[u].loc = NoLocals
             /\ th'[u].pc = "fill" => th'[u].loc.link <= Len(th'[u].inBuf)
             /\ th'[u].pc = "fill" /\ th'[u].loc.link > 0 => p'.cross = <<>>
  BY <1>3, <1>4, <1>5, <1>1 DEF OnlyThread, Bounds, Reads, Works
<1> QED BY <1>1, <1>2, <1>6 DEF Bounds, Holds

LEMMA ExitWaitInv ==
    ASSUME Inv, NEW t \in Threads, ReadWait(t), p.exitThread
    PROVE  Inv'
<1>1. /\ Typed /\ Bounds /\ FilledOK /\ AfterRing /\ Hits_Known /\ AfterTurn
      /\ p \in MtDecRecs /\ th \in [Threads -> ThreadRecs] /\ job \in JobRecs
  BY DEF Inv, Typed
<1>2. /\ th[t].pc = "wait" /\ th[t].canRead /\ p' = p /\ job' = job
      /\ th' = [th EXCEPT ![t].pc = "ret", ![t].canRead = FALSE]
  BY DEF ReadWait, Event_CanWait
<1> DEFINE R == [th[t] EXCEPT !.pc = "ret", !.canRead = FALSE]
<1>3. /\ R \in ThreadRecs /\ R.pc = "ret" /\ ~R.canRead /\ R.canWrite = th[t].canWrite
      /\ R.loc = th[t].loc /\ R.inBuf = th[t].inBuf /\ R.inDataSize = th[t].inDataSize
      /\ R.inDataSize_Start = th[t].inDataSize_Start
  <2>1. th[t] \in ThreadRecs BY <1>1
  <2> QED BY <2>1 DEF ThreadRecs
<1>4. th' = [th EXCEPT ![t] = R] BY <1>1, <1>2
<1> HIDE DEF R
<1>5. th' \in [Threads -> ThreadRecs] /\ th'[t] = R /\ OnlyThread(t)
  BY <1>1, <1>3, <1>4 DEF OnlyThread
<1>6. Typed' BY <1>1, <1>2, <1>5 DEF Typed
<1>7. th[t].loc = NoLocals BY <1>1, <1>2 DEF Bounds, Reads, Works
<1>8. Bounds' /\ FilledOK' BY <1>1, <1>3, <1>5, <1>7, <1>2, <1>6, ExitInv DEF Bounds
<1>9. job.pc \in {"mt", "free"} BY <1>1, <1>2 DEF AfterRing, Idle, JobRecs
<1>10. ~Runs /\ ~Runs' BY <1>2 DEF Runs
<1>11. CASE job.pc = "free"
  <2>1. ASSUME NEW u \in Threads PROVE th'[u].pc \in {"none", "wait", "ret"}
    BY <1>1, <1>3, <1>5, <1>11 DEF AfterRing, OnlyThread
  <2>2. AfterRing' /\ Hits_Known' /\ AfterTurn'
    BY <1>2, <1>11, <2>1 DEF AfterRing, Hits_Known, AfterTurn, InMt, Ended
  <2> QED
    BY <1>6, <1>8, <1>10, <2>2 DEF Inv
<1>12. CASE job.pc = "mt"
  <2>1. Ended /\ 0 \in Threads BY <1>12, Numbers DEF Ended, InMt
  <2>2. t = 0 BY <1>1, <1>2, <2>1 DEF AfterRing, Idle
  <2>3. AfterRing' BY <1>1, <1>3, <1>5, <2>1, <2>2, <1>2, <1>12 DEF AfterRing, Idle, OnlyThread
  <2>4. Kept => Kept'
    <3> DEFINE f == p.filledThreadStart
    <3>1. f \in Threads BY <1>1 DEF MtDecRecs
    <3>2. /\ th'[f].inBuf = th[f].inBuf
          /\ th'[f].inDataSize = th[f].inDataSize
          /\ th'[f].inDataSize_Start = th[f].inDataSize_Start
      BY <1>3, <1>5, <3>1 DEF OnlyThread
    <3> QED BY <1>2, <3>2, KeptStays
  <2>5. AfterTurn'
    BY <1>2, <1>1, <1>12, <2>1, <2>4 DEF Complete, Written, LastBlock, BlockEnd, Kind,
       GoesOnSingle, AfterTurn
  <2>6. Hits_Known'
    BY <1>1, <1>12, Place, <1>2 DEF InOrder, Written, LastBlock, Kind, BlockEnd, Hits_Known
  <2> QED BY <1>6, <1>8, <1>10, <2>3, <2>5, <2>6 DEF Inv
<1> QED BY <1>9, <1>11, <1>12

LEMMA CloseThreadInv ==
    ASSUME Inv, CloseThread
    PROVE  Inv'
<1>1. /\ Typed /\ Bounds /\ FilledOK /\ AfterRing
      /\ p \in MtDecRecs /\ th \in [Threads -> ThreadRecs] /\ job \in JobRecs
  BY DEF Inv, Typed
<1>2. job.pc = "free" /\ job.i < NumThreads /\ p' = p BY DEF CloseThread
<1>3. PICK u \in Nat : u = job.i BY <1>1 DEF JobRecs
<1>4. u \in Threads BY <1>2, <1>3, Numbers
<1> DEFINE W == [th[u] EXCEPT !.canWrite = TRUE, !.canRead = TRUE]
<1>5. \/ /\ th' = [th EXCEPT ![u] = Thread_Construct]
         /\ job' = [job EXCEPT !.i = u + 1]
      \/ /\ th[u].pc \notin {"none", "ret"}
         /\ th' = [th EXCEPT ![u].canWrite = TRUE, ![u].canRead = TRUE]
         /\ job' = job
  BY <1>3 DEF CloseThread, Event_Set
<1>6. [th EXCEPT ![u].canWrite = TRUE, ![u].canRead = TRUE] = [th EXCEPT ![u] = W]
  BY <1>1, <1>4
<1>7. th[u] \in ThreadRecs BY <1>1, <1>4
<1>8. /\ W \in ThreadRecs /\ W.pc = th[u].pc /\ W.loc = th[u].loc
      /\ W.inDataSize = th[u].inDataSize /\ W.inDataSize_Start = th[u].inDataSize_Start
  BY <1>7 DEF ThreadRecs
<1>9. /\ Thread_Construct \in ThreadRecs /\ Thread_Construct.pc = "none"
      /\ Thread_Construct.loc = NoLocals /\ Thread_Construct.inDataSize = 0
      /\ Thread_Construct.inDataSize_Start = 0
  BY NoLocalsType DEF Thread_Construct
<1> HIDE DEF W
<1>10. PICK R \in ThreadRecs : /\ th' = [th EXCEPT ![u] = R]
                               /\ R = Thread_Construct \/ (R = W /\ th[u].pc \notin {"none", "ret"})
  BY <1>5, <1>6, <1>8, <1>9
<1>11. th[u].pc \in {"none", "wait", "ret"} /\ th[u].loc = NoLocals
  BY <1>1, <1>2, <1>4 DEF AfterRing, Bounds, Reads, Works
<1>12. /\ th' \in [Threads -> ThreadRecs] /\ th'[u] = R /\ OnlyThread(u)
  BY <1>1, <1>4, <1>10 DEF OnlyThread
<1>13. /\ R.pc \in {"none", "wait", "ret"} /\ R.loc = NoLocals
       /\ R.inDataSize_Start <= InBufSize /\ R.inDataSize_Start <= R.inDataSize
  BY <1>1, <1>4, <1>9, Numbers, <1>8, <1>11, <1>10 DEF Bounds
<1>14. /\ job' \in JobRecs /\ job'.pc = "free" /\ job'.blocks = job.blocks
       /\ job'.limit = job.limit
  <2>1. CASE job' = job BY <1>1, <1>2, <2>1
  <2>2. CASE job' = [job EXCEPT !.i = u + 1]
    <3>1. PICK k \in Nat : k = u + 1 OBVIOUS
    <3>2. job' = [job EXCEPT !.i = k] BY <2>2, <3>1
    <3> QED BY <1>1, <1>2, <3>2 DEF JobRecs
  <2> QED BY <1>5, <2>1, <2>2
<1>15. Typed' BY <1>1, <1>2, <1>12, <1>14 DEF Typed
<1>16. Bounds' /\ FilledOK' BY <1>2, <1>4, <1>12, <1>13, <1>14, <1>15, ExitInv
<1>17. AfterRing' BY <1>1, <1>2, <1>12, <1>13, <1>14 DEF AfterRing, OnlyThread, InMt, Ended
<1>18. ~Runs' /\ Hits_Known' /\ AfterTurn'
  BY <1>14 DEF Runs, Hits_Known, AfterTurn, InMt, Ended
<1> QED BY <1>15, <1>16, <1>17, <1>18 DEF Inv

-----------------------------------------------------------------------------
(* The beginning: of the object, and of a call.                            *)

LEMMA InitInv == Init => Inv
<1> SUFFICES ASSUME Init PROVE Inv OBVIOUS
<1>1. /\ p = MtDec_Construct
      /\ th = [t \in Threads |-> Thread_Construct]
      /\ job = [pc |-> "idle", calls |-> 0, blocks |-> <<>>, limit |-> 0,
              data |-> <<>>, emitted |-> <<>>, res |-> "ok", hit |-> {}, i |-> 0]
  BY DEF Init
<1>2. 0 \in Threads /\ NumThreads \in 0..NumThreads /\ 0 \in 0..NumThreads /\ <<>> \in Seq(Nat)
      /\ InBufSize \in Nat
  BY Numbers
<1>3. p \in MtDecRecs BY <1>1, <1>2 DEF MtDec_Construct, MtDecRecs
<1>4. /\ p.cross = <<>> /\ p.readPos = 0 /\ p.numFilledThreads = 0 /\ p.filledThreadStart = 0
      /\ p.numStartedThreads = 0
  BY <1>1 DEF MtDec_Construct
<1>5. th \in [Threads -> ThreadRecs] BY <1>1, NoLocalsType
<1>6. \A t \in Threads : /\ th[t].pc = "none" /\ ~th[t].canRead /\ ~th[t].canWrite
                         /\ th[t].loc = NoLocals /\ th[t].inDataSize = 0
                         /\ th[t].inDataSize_Start = 0
  BY <1>1 DEF Thread_Construct
<1>7. job \in JobRecs BY <1>1, <1>2 DEF JobRecs, Results
<1>8. job.pc = "idle" /\ job.blocks = <<>> /\ job.limit = 0 BY <1>1
<1>9. Typed BY <1>3, <1>5, <1>7 DEF Typed
<1>10. LastBlock = 0 /\ NoLocals.block = 0 BY <1>8 DEF LastBlock, NoLocals
<1>11. Bounds BY <1>2, <1>4, <1>6, <1>8, <1>10 DEF Bounds, Holds, Reads, Works
<1>12. ~InMt /\ ~Runs /\ ~Ended BY <1>8 DEF InMt, Runs, Ended
<1>13. AfterRing /\ Hits_Known /\ AfterTurn
  BY <1>2, <1>6, <1>8, <1>12 DEF AfterRing, Idle, Hits_Known, AfterTurn
<1>14. FilledOK BY <1>4 DEF FilledOK, Started
<1> QED BY <1>9, <1>11, <1>12, <1>13, <1>14 DEF Inv

LEMMA CallInv ==
    ASSUME Inv, NEW blocks \in Inputs,
           NEW limit \in 0..End(blocks, Len(blocks)) + Extra, CallCode(blocks, limit)
    PROVE  Inv'
<1>1. Typed /\ Bounds /\ AfterRing BY DEF Inv
<1>2. Typed' /\ CallStep(blocks, limit) BY <1>1, CallMoves
<1>3. /\ job.pc = "idle"
      /\ job'.pc = "mt" /\ job'.blocks = blocks /\ job'.limit = limit
      /\ job'.emitted = <<>> /\ job'.hit = {}
  BY <1>2 DEF CallStep
<1>4. /\ p'.blockIndex = 1 /\ ~p'.isAllocError /\ ~p'.overflow /\ ~p'.threadingError
      /\ ~p'.readWasFinished /\ p'.readRes = "ok" /\ p'.interruptIndex = 0
      /\ ~p'.wasInterrupted /\ p'.cross = <<>> /\ p'.filledThreadStart = 0
      /\ p'.numFilledThreads = 0 /\ p'.numStartedThreads = 1
      /\ p'.numStartedThreads_Limit = NumThreads /\ ~p'.exitThread
      /\ p'.progressRes = "ok" /\ p'.readPos = 0
  BY <1>2, Zenon DEF CallStep
<1>5. ASSUME NEW u \in Threads
      PROVE  /\ th'[u].pc = IF u = 0 THEN "wait" ELSE th[u].pc
             /\ th'[u].canRead = (u = 0 \/ th[u].canRead)
             /\ th'[u].canWrite = (u = 0 \/ th[u].canWrite)
             /\ th'[u].inDataSize = 0 /\ th'[u].inDataSize_Start = 0
             /\ th'[u].loc = th[u].loc
  BY <1>2, Zenon DEF CallStep
<1>6. 0 \in Threads /\ InBufSize \in Nat /\ NumThreads \in Nat /\ NumThreads >= 2 BY Numbers
<1>7. \A u \in Threads : Idle(u) /\ th[u].loc = NoLocals /\ th'[u].loc = NoLocals
  BY <1>1, <1>3, <1>5 DEF AfterRing, Bounds, Idle, Reads, Works
<1>8. /\ th'[0].pc = "wait" /\ th'[0].canRead /\ th'[0].canWrite
      /\ \A u \in Threads \ {0} : Idle(u)'
      /\ \A u \in Threads : th'[u].pc \in {"none", "wait"}
  BY <1>5, <1>6, <1>7 DEF Idle
<1>9. /\ LastBlock' \in Nat \ {0} /\ BlockEnd(0)' = 0 /\ BlockStart(1)' = 1
      /\ Written' = 0
  BY MtDecAssumption, <1>3 DEF MtDecAssumption, LastBlock, Written, BlockEnd, End, BlockStart
<1>10. Started' = 1 BY <1>4 DEF Started
<1>11. NoLocals.block = 0 /\ ~Stops(NoLocals) /\ NoLocals.res = "ok"
       /\ ~NoLocals.wasInterrupted /\ NoLocals.codePos = 0
  BY DEF NoLocals, Stops
<1>12. Bounds'
  BY <1>2, <1>3, <1>4, <1>5, <1>6, <1>7, <1>8, <1>9, <1>11 DEF Typed, JobRecs, Bounds, Holds
<1>13. InMt' /\ ~Ended' BY <1>3, <1>4, <1>8 DEF InMt, Ended
<1>14. AfterRing' BY <1>3, <1>13 DEF AfterRing
<1>15. FilledOK' BY <1>4, <1>10 DEF FilledOK
<1>16. InOrder' BY <1>3, <1>4, <1>9 DEF InOrder
<1>17. Hits_Known' BY <1>3, <1>4, <1>16 DEF Hits_Known
<1>18. AfterTurn' BY <1>3, <1>13 DEF AfterTurn
<1>19. /\ ~Reads(0)' /\ ~Works(0)' /\ HasRead(0)' /\ ~Closes(0)'
  BY <1>8 DEF Reads, Works, HasRead, Closes
<1>20. 0..Started' - 1 = {0} BY <1>10
<1>21. Ring(0, 0, 1)' BY <1>6, <1>8, <1>10, <1>19, <1>4, <1>20 DEF Offset, InRing, Ring
<1>22. LocalRules(0)' BY <1>6, <1>7, <1>8, <1>11, <1>19 DEF LocalRules
<1>23. Fresh' BY <1>4 DEF Fresh
<1>24. Rules(0, 0, 1)' BY <1>4, <1>20, <1>22 DEF Rules, GoesOnSingle
<1>25. Flows(0, 0)' BY <1>4, <1>9, <1>19, <1>20 DEF Continues, BlockStart, BlockEnd, Flows
<1>26. Turn(0, 0, 1)' BY <1>21, <1>23, <1>24, <1>25 DEF Turn
<1>27. \E w \in 0..Started' - 1, k \in 0..Started', B \in 1..p'.blockIndex : Turn(w, k, B)'
  BY <1>4, <1>10, <1>26
<1> QED BY <1>2, <1>12, <1>14, <1>15, <1>17, <1>18, <1>27 DEF Inv

-----------------------------------------------------------------------------
(* The ring: who holds the tokens.                                         *)

(* A thread that is awake belongs to a running ring. *)
LEMMA InRuns ==
    ASSUME Inv, NEW t \in Threads,
           \/ Reads(t) \/ Works(t)
           \/ th[t].pc = "wait" /\ th[t].canRead /\ ~p.exitThread
    PROVE  /\ Runs /\ t \in 0..Started - 1
           /\ job.pc = "mt" /\ ~p.exitThread /\ th[0].pc # "ret"
           /\ \E w \in 0..Started - 1, k \in 0..Started, B \in 1..p.blockIndex :
                 Turn(w, k, B)
<1>1. Typed /\ AfterRing BY DEF Inv
<1>2. ~Idle(t) BY DEF Idle, Reads, Works
<1>3. job.pc \in {"idle", "mt", "prepare", "mtRead", "st", "free"} BY <1>1 DEF Typed, JobRecs
<1>4. InMt BY <1>1, <1>2, <1>3 DEF AfterRing, InMt, Reads, Works
<1>5. ~Ended BY <1>1, <1>2, <1>4 DEF AfterRing, Reads, Works
<1>6. Runs BY <1>4, <1>5 DEF Runs, Ended
<1>7. \E w \in 0..Started - 1, k \in 0..Started, B \in 1..p.blockIndex : Turn(w, k, B)
  BY <1>6 DEF Inv
<1>8. t < Started
  BY <1>7, <1>1, Numbers, <1>2, SMTT(30) DEF Turn, Ring, Typed, MtDecRecs, Started
<1>9. Started \in Nat /\ t \in Nat BY <1>1, Numbers DEF Typed, MtDecRecs, Started
<1> QED BY <1>4, <1>6, <1>7, <1>8, <1>9 DEF Runs, InMt

(* The ring runs on. *)
LEMMA RunsOn ==
    ASSUME Typed', Bounds', Hits_Known', FilledOK', job'.pc = "mt",
           ~p'.exitThread, th'[0].pc # "ret",
           \E w \in 0..Started' - 1, k \in 0..Started', B \in 1..p'.blockIndex :
              Turn(w, k, B)'
    PROVE  Inv'
  BY DEF Runs, Ended, InMt, AfterRing, AfterTurn, Inv

(* Places in the ring. *)
LEMMA OffsetFacts ==
    ASSUME Typed, NEW w \in 0..Started - 1, NEW t \in 0..Started - 1
    PROVE  /\ Offset(w, t) \in 0..Started - 1
           /\ Offset(w, t) = 0 <=> t = w
           /\ \A u \in 0..Started - 1 : Offset(w, u) = Offset(w, t) => u = t
           /\ NextIndex(t, Started) \in 0..Started - 1
           /\ NextIndex(t, Started) = IF t + 1 = Started THEN 0 ELSE t + 1
           /\ Offset(w, t) + 1 = Started => NextIndex(t, Started) = w
           /\ Offset(w, t) + 1 < Started =>
                 Offset(w, NextIndex(t, Started)) = Offset(w, t) + 1
<1>1. Started \in Nat BY DEF Typed, MtDecRecs, Started
<1> QED BY <1>1 DEF Offset, NextIndex

(* The write token moves: all places change by one. *)
LEMMA OffsetMoves ==
    ASSUME Typed, NEW w \in 0..Started - 1, NEW u \in 0..Started - 1
    PROVE  LET next == NextIndex(w, Started) IN
           /\ u # w => Offset(next, u) = Offset(w, u) - 1
           /\ Offset(next, w) = Started - 1
  BY SMTT(30) DEF Typed, MtDecRecs, Started, Offset, NextIndex

LEMMA InRingType ==
    ASSUME Typed, NEW w \in Nat, NEW k \in Nat, NEW B \in Nat, Ring(w, k, B)
    PROVE  /\ Started \in Nat \ {0} /\ w \in 0..Started - 1 /\ k \in 0..Started /\ B > 0
           /\ p.numStartedThreads_Limit \in Nat /\ p.blockIndex \in Nat
           /\ Started <= p.numStartedThreads_Limit
           /\ Started <= NumThreads
           /\ 0..Started - 1 \subseteq Threads
<1>1. Started \in 0..NumThreads /\ p.numStartedThreads_Limit \in 0..NumThreads /\ p.blockIndex \in Nat
  BY DEF Typed, MtDecRecs, Started
<1>2. NumThreads \in Nat /\ Threads = 0..NumThreads - 1 BY Numbers
<1> QED BY <1>1, <1>2 DEF Ring

(* Who has the read token is alone with it. *)
LEMMA Holder ==
    ASSUME Typed, NEW w \in Nat, NEW k \in Nat, NEW B \in Nat, Ring(w, k, B),
           NEW t \in 0..Started - 1, HasRead(t), ~Works(t)
    PROVE  /\ k < Started /\ Offset(w, t) = k
           /\ Started < p.numStartedThreads_Limit => w + k < Started /\ t = w + k
           /\ \A u \in Threads : HasRead(u) => u = t
           /\ \A u \in Threads : ~Closes(u)
           /\ p.blockIndex = B + k + IF Reads(t) THEN 1 ELSE 0
<1>1. /\ Started \in Nat \ {0} /\ w \in 0..Started - 1 /\ k \in 0..Started
      /\ p.numStartedThreads_Limit \in Nat /\ p.blockIndex \in Nat
      /\ 0..Started - 1 \subseteq Threads
  BY InRingType
<1>2. ASSUME NEW u \in Threads, u >= Started PROVE ~HasRead(u) /\ ~Works(u)
  <2>1. Idle(u) BY <1>2 DEF Ring
  <2> QED BY <2>1 DEF Idle, HasRead, Reads, Works
<1>3. ASSUME NEW u \in 0..Started - 1 PROVE InRing(w, k, B, u) BY DEF Ring
<1>4. Offset(w, t) \in 0..Started - 1 BY <1>1, OffsetFacts
<1>5. k < Started /\ Offset(w, t) = k BY <1>1, <1>3, <1>4 DEF InRing
<1>6. ASSUME NEW u \in Threads, HasRead(u) PROVE u = t
  BY <1>1, <1>2, <1>6, Numbers, <1>3, <1>5, OffsetFacts DEF InRing
<1>7. ASSUME NEW u \in Threads PROVE ~Closes(u) BY <1>3, <1>2, <1>1, Numbers DEF InRing, Closes
<1>8. Started < p.numStartedThreads_Limit => w + k < Started /\ t = w + k
  BY <1>3, <1>1, <1>5 DEF InRing, Offset
<1>9. p.blockIndex = B + k + IF Reads(t) THEN 1 ELSE 0 BY <1>1, <1>6 DEF HasRead, Ring
<1> QED BY <1>5, <1>6, <1>7, <1>8, <1>9

(* A thread goes on with what it does. *)
LEMMA RingStays ==
    ASSUME Typed, NEW w \in Nat, NEW k \in Nat, NEW B \in Nat, Ring(w, k, B),
           NEW t \in 0..Started - 1, OnlyThread(t), SameTokens,
           th'[t].canRead = th[t].canRead, th'[t].canWrite = th[t].canWrite,
           \/ Reads(t) /\ Reads(t)'
           \/ /\ Works(t) /\ Works(t)'
              /\ th'[t].loc.finish = th[t].loc.finish
              /\ th'[t].loc.nextThread = th[t].loc.nextThread,
           th'[t].loc.blockIndex = th[t].loc.blockIndex
    PROVE  Ring(w, k, B)'
<1>1. Started' = Started /\ p'.numStartedThreads_Limit = p.numStartedThreads_Limit
      /\ p'.blockIndex = p.blockIndex
  BY DEF SameTokens, Started
<1>2. 0..Started - 1 \subseteq Threads BY InRingType
<1>3. ASSUME NEW u \in Threads, u # t PROVE th'[u] = th[u] BY <1>3 DEF OnlyThread
<1>4. ASSUME NEW u \in Threads
      PROVE  /\ Reads(u)' <=> Reads(u)
             /\ Works(u)' <=> Works(u)
             /\ HasRead(u)' <=> HasRead(u)
             /\ Closes(u)' <=> Closes(u)
             /\ th'[u].canRead = th[u].canRead /\ th'[u].canWrite = th[u].canWrite
             /\ th'[u].loc.blockIndex = th[u].loc.blockIndex
             /\ Works(u) => /\ th'[u].loc.finish = th[u].loc.finish
                            /\ th'[u].loc.nextThread = th[u].loc.nextThread
             /\ th'[u].pc = th[u].pc \/ (Reads(u) /\ Reads(u)') \/ (Works(u) /\ Works(u)')
  BY <1>3 DEF Reads, Works, HasRead, Closes
<1>5. ASSUME NEW u \in 0..Started - 1 PROVE InRing(w, k, B, u)'
  <2>1. InRing(w, k, B, u) /\ u \in Threads
    BY <1>2 DEF Ring
  <2>2. Offset(w, u)' = Offset(w, u) /\ NextIndex(u, Started)' = NextIndex(u, Started)
    BY <1>1 DEF Offset, NextIndex
  <2>3. th'[u].pc \in {"wait", "fill", "pass", "code", "write"}
    BY <2>1, <1>4 DEF InRing, Reads, Works
  <2>4. \A v \in 0..Started - 1 : HasRead(v)' <=> HasRead(v)
    BY <1>2, <1>4
  <2>5. /\ Reads(u)' <=> Reads(u)
        /\ Works(u)' <=> Works(u)
        /\ HasRead(u)' <=> HasRead(u)
        /\ Closes(u)' <=> Closes(u)
        /\ th'[u].canRead = th[u].canRead /\ th'[u].canWrite = th[u].canWrite
        /\ th'[u].loc.blockIndex = th[u].loc.blockIndex
        /\ Works(u) => /\ th'[u].loc.finish = th[u].loc.finish
                       /\ th'[u].loc.nextThread = th[u].loc.nextThread
    BY <2>1, <1>4
  <2>6. Closes(u)' => Offset(w, u)' = k - 1 /\ \A v \in 0..Started' - 1 : ~HasRead(v)'
    BY <2>1, <2>2, <2>4, <2>5, <1>1 DEF InRing
  <2>7. HasRead(u)' => /\ Offset(w, u)' = IF k = Started' THEN 0 ELSE k
                       /\ Started' < p'.numStartedThreads_Limit => w + k < Started'
    BY <2>1, <2>2, <2>5, <1>1 DEF InRing
  <2>8. /\ Works(u)' <=> Offset(w, u)' < k
        /\ th'[u].canWrite <=> u = w
        /\ th'[u].canRead => ~Reads(u)'
        /\ Works(u)' /\ ~th'[u].loc.finish =>
              th'[u].loc.nextThread = NextIndex(u, Started)'
        /\ Works(u)' \/ Reads(u)' => th'[u].loc.blockIndex = B + Offset(w, u)'
    BY <2>1, <2>2, <2>5 DEF InRing
  <2> QED
    BY <2>3, <2>6, <2>7, <2>8, Zenon DEF InRing
<1>6. ASSUME NEW u \in Threads, u >= Started PROVE Idle(u)'
  BY <1>6, InRingType, <1>3 DEF Ring, Idle
<1>7. (\E u \in 0..Started - 1 : Reads(u)') <=> (\E u \in 0..Started - 1 : Reads(u))
  BY <1>2, <1>4
<1>8. (\E u \in 0..Started - 1 : HasRead(u)' \/ Closes(u)') BY <1>2, <1>4 DEF Ring
<1>9. p'.blockIndex = B + k + IF \E u \in 0..Started' - 1 : Reads(u)' THEN 1 ELSE 0
  BY <1>1, <1>7 DEF Ring
<1>10. /\ w \in 0..Started' - 1 /\ k \in 0..Started' /\ B \in Nat \ {0}
       /\ p'.numStartedThreads_Limit >= 2 /\ Started' <= p'.numStartedThreads_Limit
       /\ Started' < p'.numStartedThreads_Limit => w + k <= Started'
  BY <1>1 DEF Ring
<1> QED BY <1>1, <1>5, <1>6, <1>8, <1>9, <1>10 DEF Ring

(* The read token is taken. *)
LEMMA RingRead ==
    ASSUME Typed, Typed', NEW w \in Nat, NEW k \in Nat, NEW B \in Nat, Ring(w, k, B),
           NEW t \in 0..Started - 1, ReadWaitStep(t)
    PROVE  Ring(w, k, B)' /\ k < Started /\ Offset(w, t) = k /\ Reads(t)'
           /\ p.blockIndex = B + k /\ \A u \in Threads : ~Reads(u)
<1>0. /\ Started \in Nat \ {0} /\ w \in 0..Started - 1 /\ k \in 0..Started /\ B > 0
      /\ p.numStartedThreads_Limit \in Nat /\ p.blockIndex \in Nat
      /\ 0..Started - 1 \subseteq Threads
  BY InRingType
<1>1. /\ Started' = Started /\ p'.numStartedThreads_Limit = p.numStartedThreads_Limit
      /\ p'.blockIndex = p.blockIndex + 1
  BY DEF ReadWaitStep, Started
<1>2. /\ th[t].pc = "wait" /\ th[t].canRead /\ th'[t].pc \in {"fill", "pass"}
      /\ ~th'[t].canRead /\ th'[t].canWrite = th[t].canWrite
      /\ \A u \in Threads \ {t} : th'[u] = th[u]
  BY DEF ReadWaitStep, OnlyThread
<1>3. th'[t].loc.blockIndex = p.blockIndex BY DEF ReadWaitStep, NoLocals
<1>4. HasRead(t) /\ ~Works(t) /\ ~Reads(t) /\ Reads(t)' /\ ~Works(t)' /\ HasRead(t)'
  BY <1>2 DEF HasRead, Works, Reads
<1>5. /\ k < Started /\ Offset(w, t) = k
      /\ Started < p.numStartedThreads_Limit => w + k < Started /\ t = w + k
      /\ \A u \in Threads : HasRead(u) => u = t
      /\ \A u \in Threads : ~Closes(u)
      /\ p.blockIndex = B + k
  BY <1>0, <1>4, Holder
<1>6. \A u \in Threads : ~Reads(u) BY <1>4, <1>5 DEF HasRead
<1>7. ASSUME NEW u \in 0..Started - 1 PROVE InRing(w, k, B, u)'
  BY <1>0, <1>1, <1>2, <1>5, <1>3, <1>4 DEF Ring, Offset, NextIndex, HasRead, Closes, Works,
     Reads, InRing
<1>8. ASSUME NEW u \in Threads, u >= Started PROVE Idle(u)' BY <1>8, <1>0, <1>2 DEF Ring, Idle
<1>9. Ring(w, k, B)' BY <1>1, <1>4, <1>0, <1>5, <1>7, <1>8 DEF Ring
<1> QED BY <1>4, <1>5, <1>6, <1>9

(* The read token is kept. *)
LEMMA RingPass ==
    ASSUME Typed, Typed', NEW w \in Nat, NEW k \in Nat, NEW B \in Nat, Ring(w, k, B),
           NEW t \in 0..Started - 1, PassEnds(t)
    PROVE  /\ Ring(w, k + 1, B)' /\ k < Started /\ Offset(w, t) = k
           /\ Works(t)' /\ Closes(t)'
           /\ \A u \in Threads : Reads(u) => u = t
           /\ \A u \in Threads : ~Reads(u)' /\ (th'[u].canRead = th[u].canRead)
           /\ \A u \in Threads : ~th[u].canRead
<1>0. /\ Started \in Nat \ {0} /\ w \in 0..Started - 1 /\ k \in 0..Started /\ B > 0
      /\ p.numStartedThreads_Limit \in Nat /\ p.blockIndex \in Nat
      /\ 0..Started - 1 \subseteq Threads
  BY InRingType
<1>1. /\ Started' = Started /\ p'.numStartedThreads_Limit = p.numStartedThreads_Limit
      /\ p'.blockIndex = p.blockIndex
  BY DEF PassEnds, SameTokens, Started
<1>2. /\ th[t].pc = "pass" /\ th'[t].pc \in {"code", "write"}
      /\ th'[t].canRead = th[t].canRead /\ th'[t].canWrite = th[t].canWrite
      /\ th'[t].loc.finish /\ th'[t].loc.blockIndex = th[t].loc.blockIndex
      /\ \A u \in Threads \ {t} : th'[u] = th[u]
  BY DEF PassEnds, PassBase, OnlyThread
<1>4. HasRead(t) /\ ~Works(t) /\ Reads(t) /\ ~Reads(t)' /\ Works(t)' /\ Closes(t)'
  BY <1>2 DEF HasRead, Works, Reads, Closes
<1>5. /\ k < Started /\ Offset(w, t) = k
      /\ Started < p.numStartedThreads_Limit => w + k < Started /\ t = w + k
      /\ \A u \in Threads : HasRead(u) => u = t
      /\ \A u \in Threads : ~Closes(u)
      /\ p.blockIndex = B + k + 1
  BY <1>0, <1>4, Holder
<1>6. ~th[t].canRead BY <1>4 DEF Ring, InRing
<1>7. ASSUME NEW u \in Threads PROVE ~HasRead(u)' BY <1>2, <1>4, <1>6, <1>5 DEF HasRead, Reads
<1>8. ASSUME NEW u \in 0..Started - 1 PROVE InRing(w, k + 1, B, u)'
  <2>1. InRing(w, k, B, u) /\ u \in Threads BY <1>0 DEF Ring
  <2>2. Offset(w, u)' = Offset(w, u) /\ NextIndex(u, Started)' = NextIndex(u, Started)
        /\ Offset(w, u) \in Nat
    BY <1>0, <1>1 DEF Offset, NextIndex
  <2>3. \A v \in 0..Started' - 1 : ~HasRead(v)' BY <1>0, <1>1, <1>7
  <2>4. CASE u # t
    <3>1. th'[u] = th[u] BY <2>1, <2>4, <1>2
    <3>2. ~Closes(u) /\ ~Closes(u)' /\ ~HasRead(u)' /\ ~Reads(u)'
      BY <2>1, <2>4, <3>1, <1>5, <1>7 DEF HasRead, Closes, Works, Reads
    <3>3. Works(u)' <=> Works(u) BY <3>1 DEF Works
    <3>4. Offset(w, u) # k BY <2>4, <1>0, <1>5, OffsetFacts
    <3>5. Offset(w, u) < k <=> Offset(w, u) < k + 1 BY <3>4, <2>2, <1>0
    <3> QED BY <2>1, <2>2, <3>1, <3>2, <3>3, <3>5, <1>1 DEF InRing, HasRead, Closes
  <2>5. CASE u = t BY <2>1, <2>5, <1>4, <2>2, <2>3, <1>0, <1>1, <1>2, <1>5, <1>7 DEF InRing
  <2> QED BY <2>4, <2>5
<1>9. ASSUME NEW u \in Threads, u >= Started PROVE Idle(u)' BY <1>9, <1>0, <1>2 DEF Ring, Idle
<1>10. Ring(w, k + 1, B)' BY <1>0, <1>1, <1>7, <1>4, <1>5, <1>8, <1>9 DEF HasRead, Ring
<1>11. \A u \in Threads : th'[u].canRead = th[u].canRead /\ ~Reads(u)'
  BY <1>2, <1>7 DEF HasRead
<1>12. \A u \in Threads : (Reads(u) => u = t) /\ ~th[u].canRead BY <1>5, <1>6 DEF HasRead
<1> QED BY <1>4, <1>5, <1>10, <1>11, <1>12

(* What a pass of the token means for every thread, and for who has it. *)
LEMMA OnFacts ==
    ASSUME Typed, Typed', NEW w \in Nat, NEW k \in Nat, NEW B \in Nat, Ring(w, k, B),
           NEW t \in 0..Started - 1, PassOn(t)
    PROVE  LET next == NextIndex(t, Started') IN
           /\ k < Started /\ Offset(w, t) = k /\ p.blockIndex = B + k + 1
           /\ Started < p.numStartedThreads_Limit => w + k < Started /\ t = w + k
           /\ Reads(t) /\ ~Works(t) /\ Works(t)' /\ ~Closes(t)' /\ ~th'[t].loc.finish
           /\ th'[t].loc.nextThread = next /\ th'[t].loc.blockIndex = th[t].loc.blockIndex
           /\ th'[t].pc \in {"code", "write"}
           /\ p'.blockIndex = p.blockIndex
           /\ \A u \in Threads : HasRead(u) => u = t
           /\ \A u \in Threads : ~th[u].canRead /\ ~Closes(u) /\ ~Closes(u)' /\ ~Reads(u)'
           /\ \A u \in Threads : th'[u].canRead <=> u = next
           /\ \A u \in Threads : th'[u].canWrite = th[u].canWrite
           /\ \A u \in Threads \ {t} : /\ Works(u)' <=> Works(u)
                                       /\ th'[u].loc = th[u].loc
                                       /\ th'[u].pc = th[u].pc \/ (u = Started /\ th'[u].pc = "wait")
<1> DEFINE next == NextIndex(t, Started')
<1>0. /\ Started \in Nat \ {0} /\ w \in 0..Started - 1 /\ k \in 0..Started /\ B > 0
      /\ p.numStartedThreads_Limit \in Nat /\ p.blockIndex \in Nat
      /\ 0..Started - 1 \subseteq Threads
  BY InRingType
<1>1. PassBase(t) BY DEF PassOn
<1>2. /\ th[t].pc = "pass" /\ th'[t].pc \in {"code", "write"}
      /\ th'[t].canWrite = th[t].canWrite
      /\ th'[t].loc.blockIndex = th[t].loc.blockIndex
      /\ p'.blockIndex = p.blockIndex
  BY <1>1 DEF PassBase
<1>3. ~th'[t].loc.finish /\ th'[t].loc.nextThread = next
      /\ \A u \in Threads : th'[u].canRead = (th[u].canRead \/ u = next)
  BY DEF PassOn, Started
<1>4. HasRead(t) /\ ~Works(t) /\ Reads(t) /\ ~Reads(t)' /\ Works(t)' /\ ~Closes(t)'
  BY <1>2, <1>3 DEF HasRead, Works, Reads, Closes
<1>5. /\ k < Started /\ Offset(w, t) = k
      /\ Started < p.numStartedThreads_Limit => w + k < Started /\ t = w + k
      /\ \A u \in Threads : HasRead(u) => u = t
      /\ \A u \in Threads : ~Closes(u)
      /\ p.blockIndex = B + k + 1
  BY <1>0, <1>4, Holder
<1>6. ~th[t].canRead BY <1>4 DEF Ring, InRing
<1>7. \A u \in Threads : ~th[u].canRead BY <1>5, <1>6 DEF HasRead
<1>8. ASSUME NEW u \in Threads \ {t}
      PROVE  /\ th'[u].canWrite = th[u].canWrite /\ th'[u].loc = th[u].loc
             /\ th'[u].pc = th[u].pc \/ (u = Started /\ th'[u].pc = "wait")
  BY DEF PassOn
<1>9. \A u \in Threads : u >= Started => Idle(u) BY Zenon DEF Ring
<1>10. ASSUME NEW u \in Threads \ {t}
       PROVE  ~Reads(u)' /\ (Works(u)' <=> Works(u)) /\ ~Closes(u)'
  BY <1>5, <1>8, <1>0, <1>9 DEF HasRead, Reads, Works, Closes, Idle
<1>11. \A u \in Threads : th'[u].canWrite = th[u].canWrite BY <1>2, <1>8
<1>12. \A u \in Threads : ~Closes(u)' /\ ~Reads(u)' BY <1>4, <1>10
<1> QED BY <1>2, <1>3, <1>4, <1>5, <1>7, <1>8, <1>10, <1>11, <1>12, Zenon

(* The read token goes on in a ring that does not grow ... *)
LEMMA RingOn ==
    ASSUME Typed, Typed', NEW w \in Nat, NEW k \in Nat, NEW B \in Nat, Ring(w, k, B),
           NEW t \in 0..Started - 1, PassOn(t), Started' = Started
    PROVE  Ring(w, k + 1, B)'
<1> DEFINE next == NextIndex(t, Started)
<1>0. /\ Started \in Nat \ {0} /\ w \in 0..Started - 1 /\ k \in 0..Started /\ B > 0
      /\ p.numStartedThreads_Limit \in Nat /\ p.blockIndex \in Nat
      /\ 0..Started - 1 \subseteq Threads
      /\ p.numStartedThreads_Limit >= 2 /\ Started <= p.numStartedThreads_Limit
  <2>1. p.numStartedThreads_Limit >= 2 BY DEF Ring
  <2> QED BY <2>1, InRingType
<1>1. /\ k < Started /\ Offset(w, t) = k /\ p.blockIndex = B + k + 1
      /\ Reads(t) /\ ~Works(t) /\ Works(t)' /\ ~Closes(t)' /\ ~th'[t].loc.finish
      /\ th'[t].loc.nextThread = next /\ th'[t].loc.blockIndex = th[t].loc.blockIndex
      /\ th'[t].pc \in {"code", "write"}
      /\ p'.blockIndex = p.blockIndex
      /\ \A u \in Threads : ~Closes(u)' /\ ~Reads(u)'
      /\ \A u \in Threads : th'[u].canRead <=> u = next
      /\ \A u \in Threads : th'[u].canWrite = th[u].canWrite
      /\ \A u \in Threads \ {t} : /\ Works(u)' <=> Works(u)
                                  /\ th'[u].loc = th[u].loc
                                  /\ th'[u].pc = th[u].pc \/ (u = Started /\ th'[u].pc = "wait")
  BY OnFacts
<1>2. p'.numStartedThreads_Limit = Started
      /\ (p'.numStartedThreads_Limit = p.numStartedThreads_Limit \/ Started # 1)
  BY <1>0 DEF PassOn, Started
<1>3. next \in 0..Started - 1 BY <1>0, OffsetFacts
<1>4. Offset(w, next) = IF k + 1 = Started THEN 0 ELSE k + 1
  <2>1. /\ Offset(w, t) + 1 = Started => next = w
        /\ Offset(w, t) + 1 < Started => Offset(w, next) = Offset(w, t) + 1
    BY <1>0, OffsetFacts
  <2>2. Offset(w, w) = 0 BY <1>0, OffsetFacts
  <2> QED BY <1>0, <1>1, <2>1, <2>2
<1>5. \A u \in Threads : HasRead(u)' <=> u = next BY <1>1 DEF HasRead
<1> HIDE DEF next
<1>6. ASSUME NEW u \in 0..Started - 1 PROVE InRing(w, k + 1, B, u)'
  <2>1. InRing(w, k, B, u) /\ u \in Threads BY <1>0 DEF Ring
  <2>2. Offset(w, u)' = Offset(w, u) /\ NextIndex(u, Started)' = NextIndex(u, Started)
        /\ Offset(w, u) \in Nat
    BY <1>0 DEF Offset, NextIndex
  <2>3. ~Closes(u)' /\ ~Reads(u)' /\ (th'[u].canWrite <=> u = w) BY <2>1, <1>1 DEF InRing
  <2>4. HasRead(u)' => /\ Offset(w, u)' = IF k + 1 = Started' THEN 0 ELSE k + 1
                       /\ Started' < p'.numStartedThreads_Limit => w + (k + 1) < Started'
    BY <2>1, <2>2, <1>0, <1>2, <1>4, <1>5
  <2>5. CASE u # t
    <3>1. (Works(u)' <=> Works(u)) /\ th'[u].loc = th[u].loc /\ th'[u].pc = th[u].pc
      BY <2>1, <2>5, <1>0, <1>1
    <3>4. Offset(w, u) # k BY <2>5, <1>0, <1>1, OffsetFacts
    <3>5. Offset(w, u) < k <=> Offset(w, u) < k + 1 BY <3>4, <2>2, <1>0
    <3> QED BY <2>1, <2>2, <2>3, <2>4, <3>1, <3>5 DEF InRing
  <2>6. CASE u = t BY <2>1, <2>6, <1>1, <2>2, <2>3, <2>4, <1>0 DEF InRing, next
  <2> QED BY <2>5, <2>6
<1>9. ASSUME NEW u \in Threads, u >= Started PROVE Idle(u)'
  BY <1>9, <1>0, <1>3, <1>1 DEF Ring, Idle
<1>10. Ring(w, k + 1, B)' BY <1>0, <1>1, <1>3, <1>5, <1>2, <1>6, <1>9 DEF Ring
<1> QED BY <1>10

(* ... and in one that gets one thread more. *)
LEMMA RingGrows ==
    ASSUME Typed, Typed', NEW w \in Nat, NEW k \in Nat, NEW B \in Nat, Ring(w, k, B),
           NEW t \in 0..Started - 1, PassOn(t), Started' # Started
    PROVE  /\ Ring(w, k + 1, B)' /\ Started' = Started + 1
           /\ w + k < Started /\ t = w + k /\ NextIndex(t, Started') = t + 1
           /\ \A u \in Threads : Works(u) => w <= u /\ u < t
<1> DEFINE next == NextIndex(t, Started')
<1>0. /\ Started \in Nat \ {0} /\ w \in 0..Started - 1 /\ k \in 0..Started /\ B > 0
      /\ p.numStartedThreads_Limit \in Nat /\ p.blockIndex \in Nat
      /\ 0..Started - 1 \subseteq Threads
      /\ p.numStartedThreads_Limit >= 2 /\ Started <= p.numStartedThreads_Limit
  <2>1. p.numStartedThreads_Limit >= 2 BY DEF Ring
  <2> QED BY <2>1, InRingType
<1>1. /\ k < Started /\ Offset(w, t) = k /\ p.blockIndex = B + k + 1
      /\ Started < p.numStartedThreads_Limit => w + k < Started /\ t = w + k
      /\ Reads(t) /\ ~Works(t) /\ Works(t)' /\ ~Closes(t)' /\ ~th'[t].loc.finish
      /\ th'[t].loc.nextThread = next /\ th'[t].loc.blockIndex = th[t].loc.blockIndex
      /\ th'[t].pc \in {"code", "write"}
      /\ p'.blockIndex = p.blockIndex
      /\ \A u \in Threads : ~Closes(u)' /\ ~Reads(u)'
      /\ \A u \in Threads : th'[u].canRead <=> u = next
      /\ \A u \in Threads : th'[u].canWrite = th[u].canWrite
      /\ \A u \in Threads \ {t} : /\ Works(u)' <=> Works(u)
                                  /\ th'[u].loc = th[u].loc
                                  /\ th'[u].pc = th[u].pc \/ (u = Started /\ th'[u].pc = "wait")
  BY OnFacts
<1>2. /\ Started' = Started + 1 /\ Started < p.numStartedThreads_Limit
      /\ p'.numStartedThreads_Limit = p.numStartedThreads_Limit
  BY <1>0 DEF PassOn, Started
<1>3. w + k < Started /\ t = w + k BY <1>1, <1>2
<1>4. next = t + 1 /\ Started \in Threads
  <2>1. Started' \in 0..NumThreads BY DEF Typed, MtDecRecs, Started
  <2> QED BY <2>1, <1>0, <1>2, Numbers DEF NextIndex
<1>5. \A u \in Threads : HasRead(u)' <=> u = next BY <1>1 DEF HasRead
<1> HIDE DEF next
<1>6. ASSUME NEW u \in 0..Started
      PROVE  /\ u \in Threads
             /\ Works(u) => u < Started /\ w <= u /\ u < t
                   /\ (~th[u].loc.finish => th[u].loc.nextThread = u + 1)
                   /\ th[u].loc.blockIndex = B + (u - w)
             /\ w <= u /\ u < t => Works(u)
             /\ u < Started => th[u].pc \in {"wait", "fill", "pass", "code", "write"}
             /\ th[u].canWrite <=> u = w
  BY <1>0, <1>3, <1>4 DEF Ring, InRing, Offset, NextIndex, Idle, Works
<1>12. th'[Started].pc = "wait" BY <1>0, <1>2, <1>4 DEF Started, PassOn
<1>7. ASSUME NEW u \in 0..Started PROVE InRing(w, k + 1, B, u)'
  <2>0. u \in Threads BY <1>6
  <2>1. Offset(w, u)' = IF u >= w THEN u - w ELSE u + Started + 1 - w BY <1>0, <1>2 DEF Offset
  <2>2. NextIndex(u, Started)' = IF u = Started THEN 0 ELSE u + 1 BY <1>0, <1>2 DEF NextIndex
  <2>3. ~Closes(u)' /\ ~Reads(u)' /\ (th'[u].canWrite <=> u = w) BY <2>0, <1>1, <1>6
  <2>4. HasRead(u)' => /\ Offset(w, u)' = IF k + 1 = Started' THEN 0 ELSE k + 1
                       /\ Started' < p'.numStartedThreads_Limit => w + (k + 1) < Started'
    BY <2>0, <2>1, <1>0, <1>2, <1>3, <1>4, <1>5
  <2>5. Offset(w, u)' < k + 1 <=> w <= u /\ u <= t BY <2>1, <1>0, <1>3
  <2>6. CASE u # t
    BY <2>0, <2>6, <1>1, <1>6, <1>12, <1>0, <2>5, <2>1, <2>2, <2>3, <2>4 DEF InRing
  <2>7. CASE u = t BY <1>1, <2>1, <2>2, <2>7, <1>0, <1>3, <1>4, <2>3, <2>4 DEF Ring, InRing
  <2> QED BY <2>6, <2>7
<1>9. ASSUME NEW u \in Threads, u >= Started' PROVE Idle(u)'
  <2>1. u > Started /\ Idle(u)
    <3>1. u > Started /\ u >= Started
      BY <1>9, <1>0, <1>2, Numbers
    <3>2. Idle(u)
      BY <3>1, Zenon DEF Ring
    <3> QED
      BY <3>1, <3>2
  <2>2. u # t /\ u # next /\ u # Started
    BY <2>1, <1>0, <1>3, <1>4
  <2> QED
    BY <2>1, <2>2, <1>1 DEF Idle
<1>10. Ring(w, k + 1, B)'
  <2>1. ~\E u \in 0..Started' - 1 : Reads(u)' BY <1>0, <1>1, <1>2, <1>6
  <2>2. \E u \in 0..Started' - 1 : HasRead(u)' \/ Closes(u)'
    <3>1. next \in 0..Started' - 1 /\ next \in Threads BY <1>0, <1>2, <1>3, <1>4, <1>6
    <3> QED BY <3>1, <1>5
  <2>3. p'.numStartedThreads_Limit >= 2 /\ Started' <= p'.numStartedThreads_Limit
        /\ (Started' < p'.numStartedThreads_Limit => w + (k + 1) <= Started')
    BY <1>0, <1>2, <1>3
  <2>4. p'.blockIndex = B + (k + 1) + IF \E u \in 0..Started' - 1 : Reads(u)' THEN 1 ELSE 0
    BY <2>1, <1>0, <1>1
  <2>5. w \in 0..Started' - 1 /\ k + 1 \in 0..Started' /\ B \in Nat \ {0} BY <1>0, <1>1, <1>2
  <2>6. 0..Started' - 1 = 0..Started BY <1>0, <1>2
  <2> QED BY <2>2, <2>3, <2>4, <2>5, <2>6, <1>7, <1>9 DEF Ring
<1>11. ASSUME NEW u \in Threads, Works(u) PROVE w <= u /\ u < t
  <2>1. u \in 0..Started
    <3>1. u >= Started => Idle(u)
      BY Zenon DEF Ring
    <3> QED
      BY <3>1, <1>0, <1>11, Numbers DEF Idle, Works
  <2> QED BY <2>1, <1>6, <1>11
<1> QED BY <1>2, <1>3, <1>4, <1>10, <1>11 DEF next

(* What a write step leaves of the ring. *)
LEMMA WriteFacts ==
    ASSUME Typed, Typed', NEW w \in Nat, NEW k \in Nat, NEW B \in Nat, Ring(w, k, B),
           NEW t \in 0..Started - 1, NEW pr, NEW res, WriteStep(t, pr, res)
    PROVE  /\ t = w /\ k > 0 /\ Works(t) /\ ~Works(t)' /\ ~Reads(t) /\ ~Reads(t)'
           /\ th'[t].pc \in {"wait", "ret"}
           /\ Started' = Started /\ p'.numStartedThreads_Limit = p.numStartedThreads_Limit
           /\ p'.blockIndex = p.blockIndex
           /\ \A u \in Threads \ {t} :
                 /\ th'[u].pc = th[u].pc /\ th'[u].loc = th[u].loc
                 /\ Works(u)' <=> Works(u)
                 /\ Closes(u)' <=> Closes(u)
           /\ \A u \in Threads : Reads(u)' <=> Reads(u)
           /\ \A u \in Threads :
                 /\ th'[u].canRead <=> \/ th[u].canRead
                                       \/ u = 0 /\ t # 0 /\ EndsRun(t, pr, res)
                                       \/ u = 0 /\ Restarting(t, pr, res)
                 /\ th'[u].canWrite <=> \/ u = 0 /\ Restarting(t, pr, res)
                                        \/ u = th[t].loc.nextThread /\ ~th[t].loc.finish
           /\ th[t].loc.finish <=> EndsRun(t, pr, res) \/ Restarting(t, pr, res)
           /\ EndsRun(t, pr, res) => ~Restarting(t, pr, res)
<1>0. /\ Started \in Nat \ {0} /\ w \in 0..Started - 1 /\ k \in 0..Started /\ B > 0
      /\ 0..Started - 1 \subseteq Threads
  BY InRingType
<1>1. th[t].pc = "write" /\ th[t].canWrite /\ WriteThreads(t, pr, res) /\ WriteP(t, pr, res)
  BY DEF WriteStep
<1>2. t = w /\ k > 0
  <2>1. InRing(w, k, B, t) BY DEF Ring
  <2>2. Works(t) BY <1>1 DEF Works
  <2> QED BY <2>1, <2>2, <1>0, <1>1, OffsetFacts DEF InRing
<1>3. /\ th'[t].pc \in {"wait", "ret"}
      /\ \A u \in Threads \ {t} : th'[u].pc = th[u].pc /\ th'[u].loc = th[u].loc
  BY <1>1 DEF WriteThreads
<1>4. ASSUME NEW u \in Threads
      PROVE  /\ th'[u].canRead <=> \/ th[u].canRead
                                   \/ u = 0 /\ t # 0 /\ EndsRun(t, pr, res)
                                   \/ u = 0 /\ Restarting(t, pr, res)
             /\ th'[u].canWrite <=> \/ th[u].canWrite /\ u # t
                                    \/ u = 0 /\ Restarting(t, pr, res)
                                    \/ u = th[t].loc.nextThread /\ ~th[t].loc.finish
  BY <1>1, Zenon DEF WriteThreads
<1>5. ASSUME NEW u \in Threads, u # t PROVE ~th[u].canWrite
  BY <1>0, Numbers, <1>2, <1>5 DEF Ring, InRing, Idle
<1>6. ASSUME NEW u \in Threads
      PROVE  th'[u].canWrite <=> \/ u = 0 /\ Restarting(t, pr, res)
                                 \/ u = th[t].loc.nextThread /\ ~th[t].loc.finish
  BY <1>4, <1>5
<1>7. /\ Works(t) /\ ~Works(t)' /\ ~Reads(t) /\ ~Reads(t)'
      /\ \A u \in Threads \ {t} : /\ Works(u)' <=> Works(u)
                                  /\ Closes(u)' <=> Closes(u)
      /\ \A u \in Threads : Reads(u)' <=> Reads(u)
  BY <1>1, <1>3 DEF Works, Closes, Reads
<1>8. /\ th[t].loc.finish <=> EndsRun(t, pr, res) \/ Restarting(t, pr, res)
      /\ EndsRun(t, pr, res) => ~Restarting(t, pr, res)
  BY <1>0, WriteBooleans DEF EndsRun, Restarting, Ends, Restarts
<1>9. /\ Started' = Started /\ p'.numStartedThreads_Limit = p.numStartedThreads_Limit
      /\ p'.blockIndex = p.blockIndex
  BY <1>1 DEF WriteP, Started
<1> QED BY <1>2, <1>3, <1>4, <1>6, <1>7, <1>8, <1>9

(* The write token goes to the next thread. *)
LEMMA RingNext ==
    ASSUME Typed, Typed', NEW w \in Nat, NEW k \in Nat, NEW B \in Nat, Ring(w, k, B),
           NEW t \in 0..Started - 1, NEW pr, NEW res, WriteStep(t, pr, res),
           ~th[t].loc.finish, NEW next \in Nat, next = NextIndex(t, Started)
    PROVE  /\ Ring(next, k - 1, B + 1)'
           /\ next \in 0..Started - 1 /\ next # t
           /\ \A u \in 0..Started - 1 : u # t => Offset(next, u) = Offset(w, u) - 1
           /\ \A u \in Threads : th'[u].canRead <=> th[u].canRead
<1>0. /\ Started \in Nat \ {0} /\ w \in 0..Started - 1 /\ k \in 0..Started /\ B > 0
      /\ p.numStartedThreads_Limit \in Nat /\ p.blockIndex \in Nat
      /\ 0..Started - 1 \subseteq Threads
      /\ p.numStartedThreads_Limit >= 2 /\ Started <= p.numStartedThreads_Limit
  <2>1. p.numStartedThreads_Limit >= 2 BY DEF Ring
  <2> QED BY <2>1, InRingType
<1>1. /\ t = w /\ k > 0 /\ Works(t) /\ ~Works(t)' /\ ~Reads(t) /\ ~Reads(t)'
      /\ Started' = Started /\ p'.numStartedThreads_Limit = p.numStartedThreads_Limit
      /\ p'.blockIndex = p.blockIndex
      /\ \A u \in Threads \ {t} :
            /\ th'[u].pc = th[u].pc /\ th'[u].loc = th[u].loc
            /\ Works(u)' <=> Works(u)
            /\ Closes(u)' <=> Closes(u)
      /\ \A u \in Threads : Reads(u)' <=> Reads(u)
  BY WriteFacts
<1>2. th[t].loc.nextThread = next /\ InRing(w, k, B, t) /\ Offset(w, t) = 0
  <2>1. InRing(w, k, B, t) BY DEF Ring
  <2> QED BY <2>1, <1>0, <1>1, OffsetFacts, ZenonT(60) DEF InRing
<1>3. \A u \in Threads : /\ th'[u].canRead <=> th[u].canRead
                         /\ th'[u].canWrite <=> u = next
  BY <1>2, WriteFacts
<1>4. th'[t].pc = "wait" BY DEF WriteStep, WriteThreads, EndsRun, Ends
<1>5. Started > 1 BY <1>0, <1>2, <1>1 DEF Ring, Closes, InRing
<1>6. next \in 0..Started - 1 /\ next # t /\ next = IF w + 1 = Started THEN 0 ELSE w + 1
  BY <1>0, <1>1, <1>5 DEF NextIndex
<1>7. ASSUME NEW u \in 0..Started - 1
      PROVE  /\ u # w => Offset(next, u) = Offset(w, u) - 1
             /\ Offset(next, w) = Started - 1
  BY <1>0, <1>1, OffsetMoves
<1>8. ASSUME NEW u \in Threads
      PROVE  HasRead(u)' <=> HasRead(u)
  BY <1>1, <1>3 DEF HasRead
<1>9. ASSUME NEW u \in 0..Started - 1, HasRead(u), u # w
      PROVE  /\ k < Started /\ Offset(w, u) = k
             /\ Started < p.numStartedThreads_Limit => w + k < Started
  <2>1. InRing(w, k, B, u) /\ Offset(w, u) # 0
    BY <1>0, <1>9, OffsetFacts DEF Ring
  <2> QED
    BY <2>1, <1>0, <1>9 DEF InRing
<1>10. HasRead(w) => k = Started /\ ~(Started < p.numStartedThreads_Limit)
  BY <1>0, <1>1, <1>2 DEF InRing
<1>11. ASSUME NEW u \in 0..Started - 1 PROVE InRing(next, k - 1, B + 1, u)'
  <2>0. u \in Threads /\ InRing(w, k, B, u) BY <1>0 DEF Ring
  <2>1. Offset(next, u)' = Offset(next, u) /\ NextIndex(u, Started)' = NextIndex(u, Started)
        /\ Offset(w, u) \in 0..Started - 1
    BY <1>0, OffsetFacts, <1>1 DEF Offset, NextIndex
  <2>2. (th'[u].canWrite <=> u = next) /\ (Reads(u)' <=> Reads(u)) /\ (HasRead(u)' <=> HasRead(u))
        /\ (th'[u].canRead <=> th[u].canRead)
    BY <2>0, <1>1, <1>3, <1>8
  <2>3. CASE u # w
    <3>1. /\ th'[u].pc = th[u].pc /\ th'[u].loc = th[u].loc
          /\ Works(u)' <=> Works(u)
          /\ Closes(u)' <=> Closes(u)
      BY <2>0, <2>3, <1>1
    <3>2. Offset(next, u)' = Offset(w, u) - 1
      BY <2>1, <2>3, <1>7
    <3>3. HasRead(u)' => /\ Offset(next, u)' = IF k - 1 = Started' THEN 0 ELSE k - 1
                         /\ Started' < p'.numStartedThreads_Limit => next + (k - 1) < Started'
      BY <3>2, <2>2, <2>3, <1>0, <1>1, <1>6, <1>9
    <3>4. Works(u)' <=> Offset(next, u)' < k - 1
      BY <3>1, <3>2, <2>0, <2>1, <1>0 DEF InRing
    <3>5. Closes(u)' => /\ Offset(next, u)' = (k - 1) - 1
                        /\ \A v \in 0..Started' - 1 : ~HasRead(v)'
      <4>1. Closes(u) => Offset(w, u) = k - 1 /\ \A v \in 0..Started - 1 : ~HasRead(v)
        BY <2>0 DEF InRing
      <4> QED
        BY <4>1, <3>1, <3>2, <1>0, <1>1, <1>8
    <3>6. Works(u)' \/ Reads(u)' => th'[u].loc.blockIndex = (B + 1) + Offset(next, u)'
      BY <3>1, <3>2, <2>0, <2>1, <2>2, <1>0 DEF InRing
    <3>7. th'[u].pc \in {"wait", "fill", "pass", "code", "write"}
          /\ (th'[u].canRead => ~Reads(u)')
          /\ (Works(u)' /\ ~th'[u].loc.finish =>
                th'[u].loc.nextThread = NextIndex(u, Started)')
      BY <2>0, <2>1, <2>2, <3>1, <1>1 DEF InRing
    <3> QED
      BY <2>2, <3>3, <3>4, <3>5, <3>6, <3>7 DEF InRing
  <2>4. CASE u = w BY <2>1, <2>4, <1>7, <1>1, <1>4, <2>2, <1>0, <1>10 DEF Closes, InRing
  <2> QED BY <2>3, <2>4
<1>12. ASSUME NEW u \in Threads, u >= Started PROVE Idle(u)'
  BY <1>12, <1>0, <1>6, <1>1, <1>3 DEF Ring, Idle
<1>13. Ring(next, k - 1, B + 1)'
  <2>1. (\E u \in 0..Started' - 1 : Reads(u)') <=> (\E u \in 0..Started - 1 : Reads(u))
    BY <1>0, <1>1
  <2>2. \E u \in 0..Started' - 1 : HasRead(u)' \/ Closes(u)'
    <3>1. PICK u \in 0..Started - 1 : HasRead(u) \/ Closes(u)
      BY DEF Ring
    <3>2. ~Closes(t)
      BY DEF Closes
    <3>3. HasRead(u)' \/ Closes(u)'
      BY <3>1, <3>2, <1>0, <1>1, <1>8
    <3> QED
      BY <3>3, <1>1
  <2>3. p'.numStartedThreads_Limit >= 2 /\ Started' <= p'.numStartedThreads_Limit
    BY <1>0, <1>1
  <2>4. p'.blockIndex = (B + 1) + (k - 1) + IF \E u \in 0..Started' - 1 : Reads(u)' THEN 1 ELSE 0
    <3>1. p.blockIndex = B + k + IF \E u \in 0..Started - 1 : Reads(u) THEN 1 ELSE 0
      BY DEF Ring
    <3> QED
      BY <2>1, <3>1, <1>0, <1>1
  <2>5. next \in 0..Started' - 1 /\ k - 1 \in 0..Started' /\ B + 1 \in Nat \ {0}
    BY <1>0, <1>1, <1>6
  <2>6. Started' < p'.numStartedThreads_Limit => next + (k - 1) <= Started'
    <3>1. Started < p.numStartedThreads_Limit => w + k <= Started
      BY DEF Ring
    <3> QED
      BY <3>1, <1>0, <1>1, <1>6
  <2>7. /\ \A u \in Threads : u >= Started' => Idle(u)'
        /\ \A u \in 0..Started' - 1 : InRing(next, k - 1, B + 1, u)'
    BY <1>1, <1>11, <1>12
  <2> QED
    BY <2>2, <2>3, <2>4, <2>5, <2>6, <2>7 DEF Ring
<1> QED BY <1>3, <1>6, <1>7, <1>1, <1>13

(* The write token has come to the thread that kept the read token. *)
LEMMA RingCloses ==
    ASSUME Typed, Typed', NEW w \in Nat, NEW k \in Nat, NEW B \in Nat, Ring(w, k, B),
           NEW t \in 0..Started - 1, NEW pr, NEW res, WriteStep(t, pr, res),
           th[t].loc.finish, NEW b \in Nat, b = p.blockIndex
    PROVE  /\ t = w /\ k = 1 /\ p.blockIndex = B + 1
           /\ \A u \in Threads \ {t} : Idle(u) /\ ~Works(u) /\ ~Reads(u)
           /\ \A u \in Threads : ~th[u].canRead /\ ~Works(u)' /\ ~Reads(u)'
           /\ Restarting(t, pr, res) => Ring(0, 0, b)'
<1>0. /\ Started \in Nat \ {0} /\ w \in 0..Started - 1 /\ k \in 0..Started /\ B > 0
      /\ p.numStartedThreads_Limit \in Nat /\ p.blockIndex \in Nat
      /\ 0..Started - 1 \subseteq Threads
      /\ p.numStartedThreads_Limit >= 2 /\ Started <= p.numStartedThreads_Limit
  <2>1. p.numStartedThreads_Limit >= 2 BY DEF Ring
  <2> QED BY <2>1, InRingType
<1>1. /\ t = w /\ k > 0 /\ Works(t) /\ ~Works(t)' /\ ~Reads(t) /\ ~Reads(t)'
      /\ Started' = Started /\ p'.numStartedThreads_Limit = p.numStartedThreads_Limit
      /\ p'.blockIndex = p.blockIndex
      /\ \A u \in Threads \ {t} :
            /\ th'[u].pc = th[u].pc /\ th'[u].loc = th[u].loc
            /\ Works(u)' <=> Works(u)
            /\ Closes(u)' <=> Closes(u)
      /\ \A u \in Threads : Reads(u)' <=> Reads(u)
  BY WriteFacts
<1>2. Closes(t) BY <1>1 DEF Closes
<1>3. k = 1 /\ \A u \in 0..Started - 1 : ~HasRead(u)
  BY <1>0, <1>1, OffsetFacts, <1>2 DEF Ring, InRing
<1>4. ASSUME NEW u \in Threads \ {t}
      PROVE  Idle(u) /\ ~Works(u) /\ ~Reads(u)
             /\ (u < Started => th[u].pc = "wait")
  <2>1. CASE u < Started
    <3>1. u \in 0..Started - 1 BY <2>1, <1>0, Numbers
    <3>2. InRing(w, k, B, u) /\ ~HasRead(u) /\ Offset(w, u) # 0 /\ Offset(w, u) \in 0..Started - 1
      BY <3>1, <1>0, <1>1, <1>3, OffsetFacts DEF Ring
    <3>3. ~Works(u) /\ ~th[u].canWrite BY <3>2, <1>0, <1>1, <1>3 DEF InRing
    <3>4. th[u].pc = "wait" BY <3>2, <3>3 DEF InRing, HasRead, Works, Reads
    <3> QED BY <3>2, <3>3, <3>4 DEF Idle, HasRead
  <2>2. CASE u >= Started BY <2>2, <1>0, Numbers DEF Ring, Idle, Works, Reads
  <2> QED BY <2>1, <2>2, <1>0, Numbers
<1>5. p.blockIndex = B + 1 BY <1>3, <1>0 DEF HasRead, Ring
<1>6. ASSUME NEW u \in Threads PROVE ~th[u].canRead /\ ~Works(u)' /\ ~Reads(u)'
  BY <1>1, <1>3, <1>4 DEF HasRead, Idle
<1>7. ASSUME Restarting(t, pr, res) PROVE Ring(0, 0, b)'
  <2>0. 0 \in Threads /\ ~EndsRun(t, pr, res) BY <1>7, Numbers, WriteFacts
  <2>1. \A u \in Threads : /\ th'[u].canRead <=> u = 0
                           /\ th'[u].canWrite <=> u = 0
    BY <1>6, <1>7, <2>0, WriteFacts
  <2>2. \A u \in Threads : HasRead(u)' <=> u = 0 BY <2>1, <1>6 DEF HasRead
  <2>3. \A u \in Threads : ~Closes(u)' BY <1>6 DEF Closes
  <2>4. th'[t].pc = "wait" BY <2>0 DEF WriteStep, WriteThreads
  <2>5. ASSUME NEW u \in 0..Started - 1 PROVE InRing(0, 0, b, u)'
    BY <1>0, <1>1, <1>4, <2>4, <2>3, <1>6, <2>1, <2>2 DEF Offset, InRing
  <2>6. ASSUME NEW u \in Threads, u >= Started PROVE Idle(u)'
    BY <2>6, <1>0, <2>1, <1>1, <1>4 DEF Idle
  <2>7. p'.blockIndex = b + 0 + IF \E u \in 0..Started' - 1 : Reads(u)' THEN 1 ELSE 0
    BY <1>0, <1>1, <1>6
  <2>8. \E u \in 0..Started' - 1 : HasRead(u)' \/ Closes(u)' BY <1>0, <1>1, <2>0, <2>2
  <2>9. /\ 0 \in 0..Started' - 1 /\ 0 \in 0..Started' /\ b \in Nat \ {0}
        /\ p'.numStartedThreads_Limit >= 2 /\ Started' <= p'.numStartedThreads_Limit
        /\ (Started' < p'.numStartedThreads_Limit => 0 + 0 <= Started')
    BY <1>0, <1>1, <1>5
  <2>10. /\ \A u \in Threads : u >= Started' => Idle(u)'
         /\ \A u \in 0..Started' - 1 : InRing(0, 0, b, u)'
    BY <1>1, <2>5, <2>6
  <2> QED BY <2>7, <2>8, <2>9, <2>10 DEF Ring
<1> QED
  BY <1>1, <1>3, <1>4, <1>5, <1>6, <1>7

=============================================================================
