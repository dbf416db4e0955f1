-------------------------- MODULE BZip2Encoder_proofs --------------------------
(***************************************************************************)
(* The BZip2 encoder writes its blocks like one thread, for any number of  *)
(* threads, blocks and calls, and under any faults.                        *)
(*                                                                         *)
(* The code has the number of a block nowhere: it has a place in a ring    *)
(* that is as long as there are threads.  The proof rests on the blocks    *)
(* under way being the ones after the last that was written, without a     *)
(* gap.  Each is in the hands of a thread of its own, so there are no more *)
(* than places, and a place tells the blocks apart.                        *)
(***************************************************************************)
EXTENDS BZip2Encoder, Integers, FiniteSetTheorems, TLAPS

-----------------------------------------------------------------------------
(* Places of a ring: the place of a block is its number modulo the length  *)
(* of the ring, and the code keeps the place only.                         *)

(* The quotient and the remainder make up the number. *)
LEMMA DivMod ==
    ASSUME NEW n \in Nat, n > 0, NEW a \in Nat
    PROVE  a = n * (a \div n) + (a % n) /\ a % n \in 0..n - 1 /\ a \div n \in Nat
BY SMT

(* Only one multiple of n is nearer to 0 than n. *)
LEMMA SmallMultiple ==
    ASSUME NEW n \in Nat, n > 0, NEW k \in Int, n * k < n, n * k > -n
    PROVE  k = 0
<1>1. k < 1
  BY SMT
<1>2. k > -1
  BY SMT
<1> QED
  BY <1>1, <1>2

(* A remainder below n is the remainder. *)
LEMMA ModUnique ==
    ASSUME NEW n \in Nat, n > 0, NEW q \in Nat, NEW r \in 0..n - 1,
           NEW a \in Nat, a = n * q + r
    PROVE  a % n = r
<1> DEFINE Q == a \div n
           R == a % n
<1>1. Q \in Nat /\ R \in 0..n - 1 /\ a = n * Q + R
  BY DivMod
<1> HIDE DEF Q, R
<1>2. n * (Q - q) = n * Q - n * q
  BY <1>1, SMT
<1>3. n * (Q - q) = r - R
  BY <1>1, <1>2
<1>4. Q - q = 0
  BY <1>1, <1>3, SmallMultiple
<1> QED
  BY <1>1, <1>2, <1>3, <1>4 DEF R

(* The next place of the ring is the place of the next block. *)
LEMMA NextPlace ==
    ASSUME NEW n \in Nat, n > 0, NEW a \in Nat
    PROVE  ((a % n) + 1) % n = (a + 1) % n
<1> DEFINE q == a \div n
           r == a % n
<1>1. q \in Nat /\ r \in 0..n - 1 /\ a = n * q + r
  BY DivMod
<1> HIDE DEF q, r
<1>2. CASE r + 1 < n
  <2>1. r + 1 = n * 0 + (r + 1) /\ a + 1 = n * q + (r + 1)
    BY <1>1, SMT
  <2>2. (r + 1) % n = r + 1
    BY <2>1, <1>1, <1>2, ModUnique
  <2>3. (a + 1) % n = r + 1
    BY <2>1, <1>1, <1>2, ModUnique
  <2> QED
    BY <2>2, <2>3 DEF r
<1>3. CASE r + 1 = n
  <2>1. n * (q + 1) = n * q + n /\ n * 1 = n
    BY <1>1, SMT
  <2>2. (r + 1) % n = 0
    BY <2>1, <1>1, <1>3, ModUnique
  <2>3. (a + 1) % n = 0
    BY <2>1, <1>1, <1>3, ModUnique
  <2> QED
    BY <2>2, <2>3 DEF r
<1> QED
  BY <1>1, <1>2, <1>3

(* Among n numbers in a row no two have the same place. *)
LEMMA PlacesApart ==
    ASSUME NEW n \in Nat, n > 0, NEW a \in Nat, NEW b \in Nat,
           a <= b, b < a + n, a % n = b % n
    PROVE  a = b
<1> DEFINE p == a \div n
           q == b \div n
<1>1. a = n * p + (a % n) /\ b = n * q + (b % n)
  BY DivMod
<1>2. p \in Nat /\ q \in Nat
  BY DivMod
<1>3. n * q - n * p < n /\ n * p <= n * q
  BY <1>1
<1> HIDE DEF p, q
<1>4. n * q - n * p = n * (q - p)
  BY <1>2, SMT
<1>5. q - p = 0
  BY <1>2, <1>3, <1>4, SmallMultiple
<1> QED
  BY <1>1, <1>2, <1>3, <1>5 DEF p, q

UnderWay(t) == th[t].pc \in {"turn", "write", "pass"}

Fields ==
    [StreamWasFinished : BOOLEAN, CloseThreads : BOOLEAN,
     NextBlockIndex : Threads, Result : {"ok", "read", "write", "progress"},
     CanProcessEvent : BOOLEAN, CanStartWaitingEvent : BOOLEAN]

ThreadInfo ==
    [pc : {"none", "process", "enter", "read", "turn", "write", "pass",
           "finish", "startWait", "dead"},
     m_BlockIndex : Threads, block : 0..NumInput,
     res : {"ok", "read", "write", "progress"}]

MainFields ==
    [pc : {"idle", "create", "start", "finished", "close", "open", "started",
           "end", "free", "join", "dead"},
     t : Threads, calls : 0..MaxCalls,
     res : {"ok", "read", "write", "progress", "memory", "create"}]

(* The part of TypeOK that is inductive by itself. *)
Typed ==
    /\ enc \in Fields
    /\ CS \in Threads \cup {None}
    /\ th \in [Threads -> ThreadInfo]
    /\ StreamWasFinishedEvent \in [Threads -> BOOLEAN]
    /\ WaitingWasStartedEvent \in [Threads -> BOOLEAN]
    /\ CanWriteEvent \in [Threads -> BOOLEAN]
    /\ main \in MainFields
    /\ numRead \in 0..NumInput
    /\ written \in Seq(Nat)
    /\ hit \in SUBSET {"read", "write", "progress"} /\ hit \subseteq Faults

(* What the place of the caller says of the threads and their events.      *)
Phases ==
    /\ main.pc \in {"idle", "create", "start"} =>
          /\ ~enc.CanProcessEvent /\ ~enc.CanStartWaitingEvent
          /\ \A t \in Threads : /\ th[t].pc \in {"none", "process"}
                                /\ ~StreamWasFinishedEvent[t]
                                /\ ~WaitingWasStartedEvent[t]
    /\ main.pc = "idle" => \A t, u \in Threads : th[t].pc = "none" => th[u].pc = "none"
    /\ main.pc \in {"create", "start"} => hit = {} /\ written = <<>>
    /\ main.pc = "create" => \A t \in Threads : th[t].pc = "none"
    /\ main.pc = "start" => \A t \in Threads : th[t].pc = "process"
    /\ main.pc = "finished" =>
          /\ ~enc.CanStartWaitingEvent
          /\ \A t \in Threads :
                /\ th[t].pc \notin {"none", "dead"} /\ ~WaitingWasStartedEvent[t]
                /\ IF t < main.t
                   THEN th[t].pc = "startWait" /\ ~StreamWasFinishedEvent[t]
                   ELSE StreamWasFinishedEvent[t] <=> th[t].pc = "startWait"
    /\ main.pc \in {"close", "open"} =>
          /\ ~enc.CanStartWaitingEvent
          /\ main.t = 0
          /\ \A t \in Threads : /\ th[t].pc = "startWait"
                                /\ ~StreamWasFinishedEvent[t]
                                /\ ~WaitingWasStartedEvent[t]
    /\ main.pc \in {"open", "started", "end"} => ~enc.CanProcessEvent
    /\ main.pc = "started" =>
          \A t \in Threads :
             /\ ~StreamWasFinishedEvent[t]
             /\ th[t].pc \in {"startWait", "process"}
             /\ IF t < main.t
                THEN th[t].pc = "process" /\ ~WaitingWasStartedEvent[t]
                ELSE WaitingWasStartedEvent[t] <=> th[t].pc = "process"
    /\ main.pc = "end" =>
          \A t \in Threads : /\ th[t].pc = "process"
                             /\ ~StreamWasFinishedEvent[t]
                             /\ ~WaitingWasStartedEvent[t]
    /\ main.pc \in {"free", "join", "dead"} =>
          \A t \in Threads : th[t].pc \in {"none", "process", "enter", "dead"}
    /\ enc.CloseThreads <=> main.pc \in {"free", "join", "dead"}

(* The critical section, and what its owner has seen. *)
Section ==
    /\ CS # None => th[CS].pc \in {"read", "finish"}
    /\ \A t \in Threads : th[t].pc = "read" => CS = t

Running == main.pc \in {"finished", "close", "open", "started", "end"}

Lost == "write" \in hit

(* The blocks that are no longer under way. *)
Done ==
    IF \E t \in Threads : th[t].pc = "pass" THEN Len(written) - 1
    ELSE IF Lost THEN Len(written) + 1 ELSE Len(written)

Blocks ==
    /\ Done \in 0..numRead
    /\ \A t \in Threads : UnderWay(t) =>
          /\ th[t].block \in Done + 1..numRead
          /\ th[t].m_BlockIndex = (th[t].block - 1) % NumThreads
    /\ \A t, u \in Threads :
          UnderWay(t) /\ UnderWay(u) /\ th[t].block = th[u].block => t = u
    /\ \A b \in Done + 1..numRead :
          \E t \in Threads : UnderWay(t) /\ th[t].block = b
    /\ enc.NextBlockIndex = numRead % NumThreads \/ numRead = NumInput

(* Where the turn is. *)
Turn ==
    /\ \A i \in Threads : CanWriteEvent[i] => i = Len(written) % NumThreads
    /\ \A t \in Threads : /\ th[t].pc = "write" => th[t].block = Len(written) + 1
                          /\ th[t].pc = "pass" => th[t].block = Len(written)
    /\ Lost => \A t \in Threads : ~CanWriteEvent[t] /\ ~HasTurn(t)

(* What is known of the result before all threads have come to an end. *)
Outcome ==
    /\ hit # {} => \/ enc.Result # "ok"
                   \/ \E t \in Threads : th[t].pc = "finish" /\ th[t].res # "ok"
    /\ enc.StreamWasFinished => hit # {} \/ numRead = NumInput
    /\ \A t \in Threads :
          /\ th[t].pc = "finish" => hit # {} \/ numRead = NumInput
          /\ th[t].pc = "startWait" => enc.StreamWasFinished
    /\ main.pc \in {"close", "open", "started", "end"} => enc.StreamWasFinished

InOrder == \A i \in 1..Len(written) : written[i] = i

IInv == /\ Typed /\ Phases /\ Section /\ InOrder
        /\ Running => OneTurn /\ Blocks /\ Turn /\ Outcome

-----------------------------------------------------------------------------
(* What the invariant says of places                                       *)

(* There are no more blocks under way than threads. *)
LEMMA Window ==
    ASSUME Typed, Blocks
    PROVE  numRead - Done <= NumThreads
<1> DEFINE B == Done + 1..numRead
           T == 1..NumThreads
           f == [b \in B |-> 1 + CHOOSE t \in Threads : UnderWay(t) /\ th[t].block = b]
<1>1. Done \in Nat /\ numRead \in Nat /\ Done <= numRead
  BY DEF Typed, Blocks
<1>2. \A b \in B : f[b] \in T /\ th[f[b] - 1].block = b
  <2>1. SUFFICES ASSUME NEW b \in B
                 PROVE  f[b] \in T /\ th[f[b] - 1].block = b
    OBVIOUS
  <2> DEFINE t == CHOOSE t \in Threads : UnderWay(t) /\ th[t].block = b
  <2>2. t \in Threads /\ th[t].block = b
    BY <2>1 DEF Blocks
  <2> HIDE DEF t
  <2>3. f[b] = 1 + t
    BY DEF t
  <2>4. f[b] - 1 = t /\ f[b] \in T
    BY <2>2, <2>3, BZip2EncoderAssumption DEF Threads
  <2> QED
    BY <2>2, <2>4
<1>3. f \in [B -> T]
  BY <1>2
<1> HIDE DEF f
<1>4. f \in Injection(B, T)
  BY <1>2, <1>3 DEF Injection, IsInjective
<1>5. IsFiniteSet(T) /\ Cardinality(T) = NumThreads
  <2>1. NumThreads \in Nat /\ NumThreads > 1
    BY BZip2EncoderAssumption
  <2>2. /\ IsFiniteSet(T)
        /\ Cardinality(T) = IF 1 > NumThreads THEN 0 ELSE NumThreads - 1 + 1
    BY <2>1, FS_Interval
  <2> QED
    BY <2>1, <2>2
<1>6. Cardinality(B) <= NumThreads
  BY <1>4, <1>5, FS_Injection
<1>7. Cardinality(B) = numRead - Done
  <2>1. Cardinality(B) = IF Done + 1 > numRead THEN 0 ELSE numRead - (Done + 1) + 1
    BY <1>1, FS_Interval
  <2> QED
    BY <1>1, <2>1
<1> QED
  BY <1>6, <1>7

(* A place tells which block is meant. *)
LEMMA PlaceOfBlock ==
    ASSUME Typed, Blocks, NEW a \in Done..numRead - 1, NEW b \in Done..numRead - 1,
           a % NumThreads = b % NumThreads
    PROVE  a = b
<1>1. numRead - Done <= NumThreads
  BY Window
<1>2. Done \in Nat /\ numRead \in Nat
  BY DEF Typed, Blocks
<1>3. a \in Nat /\ b \in Nat /\ b < a + NumThreads /\ a < b + NumThreads
  BY <1>1, <1>2, BZip2EncoderAssumption
<1>4. CASE a <= b
  BY <1>3, <1>4, PlacesApart, BZip2EncoderAssumption
<1>5. CASE b <= a
  BY <1>3, <1>5, PlacesApart, BZip2EncoderAssumption
<1> QED
  BY <1>3, <1>4, <1>5

(* PlacesDiffer of the model. *)
LEMMA BlocksHavePlaces ==
    ASSUME Typed, Blocks
    PROVE  PlacesDiffer
<1>1. SUFFICES ASSUME NEW t \in Threads, NEW u \in Threads,
                      UnderWay(t), UnderWay(u),
                      th[t].m_BlockIndex = th[u].m_BlockIndex
               PROVE  t = u
  BY DEF PlacesDiffer, UnderWay
<1>2. /\ th[t].block \in Done + 1..numRead /\ th[u].block \in Done + 1..numRead
      /\ (th[t].block - 1) % NumThreads = (th[u].block - 1) % NumThreads
  BY <1>1 DEF Blocks
<1>3. Done \in Nat /\ numRead \in Nat
  BY DEF Typed, Blocks
<1>4. th[t].block - 1 = th[u].block - 1
  BY <1>2, <1>3, PlaceOfBlock
<1> QED
  BY <1>1, <1>2, <1>3, <1>4 DEF Blocks

-----------------------------------------------------------------------------
(* Where the caller is, seen from a thread                                 *)

(* A thread at work on a block, or at the end of its work, has the caller  *)
(* wait for it. *)
LEMMA AtWork ==
    ASSUME Typed, Phases, NEW t \in Threads,
           th[t].pc \in {"read", "turn", "write", "pass", "finish"}
    PROVE  /\ main.pc = "finished" /\ ~(t < main.t)
           /\ ~StreamWasFinishedEvent[t] /\ ~WaitingWasStartedEvent[t]
           /\ ~enc.CanStartWaitingEvent
BY DEF Typed, Phases, MainFields

(* A step that leaves the blocks under way, and the turn, as they are. *)
LEMMA FlowKept ==
    ASSUME Typed, Typed', OneTurn, Blocks, Turn,
           UNCHANGED <<CanWriteEvent, numRead, written>>, Lost' <=> Lost,
           enc'.NextBlockIndex = enc.NextBlockIndex \/ numRead = NumInput,
           \A t \in Threads : UnderWay(t) \/ UnderWay(t)' => th'[t] = th[t]
    PROVE  OneTurn' /\ Blocks' /\ Turn'
<1>1. \A t \in Threads : /\ UnderWay(t)' <=> UnderWay(t)
                         /\ HasTurn(t)' <=> HasTurn(t)
                         /\ th'[t].pc = "write" <=> th[t].pc = "write"
                         /\ th'[t].pc = "pass" <=> th[t].pc = "pass"
  BY DEF UnderWay, HasTurn
<1>2. Done' = Done
  BY <1>1 DEF Done
<1>3. OneTurn'
  BY <1>1 DEF OneTurn
<1>4. Turn'
  <2>1. \A t \in Threads : HasTurn(t) => th'[t] = th[t]
    BY DEF HasTurn, UnderWay
  <2> QED
    BY <1>1, <2>1 DEF Turn, HasTurn
<1>5. Blocks'
  BY <1>1, <1>2 DEF Blocks
<1> QED
  BY <1>3, <1>4, <1>5

-----------------------------------------------------------------------------
(* The threads                                                             *)

(* CanProcessEvent. *)
LEMMA WakeKeeps ==
    ASSUME IInv, NEW t \in Threads, Wake(t)
    PROVE  IInv'
<1> USE DEF IInv
<1>1. /\ th' = [th EXCEPT ![t].pc = "enter"] /\ th[t].pc = "process"
      /\ enc.CanProcessEvent
      /\ enc' = [enc EXCEPT !.CanProcessEvent = TRUE /\ @]
      /\ UNCHANGED <<CS, events, main, streams>>
  BY DEF Wake, Event_CanWait, Event_Wait
<1>2. enc' = enc
  BY <1>1 DEF Typed, Fields
<1>3. /\ th' \in [Threads -> ThreadInfo] /\ th'[t].pc = "enter"
      /\ \A u \in Threads : u # t => th'[u] = th[u]
  BY <1>1, ZenonT(60) DEF Typed, ThreadInfo
<1>4. Typed'
  BY <1>1, <1>2, <1>3 DEF Typed, events, streams
<1>5. main.pc \in {"finished", "free", "join", "dead"}
  BY <1>1 DEF Typed, Phases, MainFields
<1>6. Phases'
  BY <1>1, <1>2, <1>3, <1>5 DEF Phases, events, streams
<1>7. Section'
  BY <1>1, <1>3 DEF Typed, Section, Threads, None
<1>8. InOrder'
  BY <1>1 DEF InOrder, streams
<1>9. ASSUME Running
      PROVE  OneTurn' /\ Blocks' /\ Turn'
  <2>1. \A u \in Threads : UnderWay(u) \/ UnderWay(u)' => th'[u] = th[u]
    BY <1>1, <1>3 DEF UnderWay
  <2> QED
    BY <1>1, <1>2, <1>4, <1>9, <2>1, FlowKept DEF Lost, events, streams
<1>10. ASSUME Running
       PROVE  Outcome'
  BY <1>1, <1>2, <1>3, <1>10 DEF Outcome, streams
<1> QED
  BY <1>1, <1>4, <1>6, <1>7, <1>8, <1>9, <1>10 DEF Running

(* The critical section is taken, or found closed for good. *)
LEMMA EnterKeeps ==
    ASSUME IInv, NEW t \in Threads, Enter(t)
    PROVE  IInv'
<1> USE DEF IInv
<1>1. /\ main.pc \in {"finished", "free", "join", "dead"}
      /\ enc.CloseThreads <=> main.pc # "finished"
  BY DEF Enter, Typed, Phases, ThreadInfo, MainFields
<1>2. UNCHANGED <<enc, events, main, streams>>
  BY DEF Enter
<1>3. CASE enc.CloseThreads
  <2>1. th' = [th EXCEPT ![t].pc = "dead"] /\ CS = None /\ CS' = None
    BY <1>3 DEF Enter
  <2>2. Typed'
    BY <1>2, <2>1, ZenonT(60) DEF Typed, ThreadInfo, events, streams
  <2>3. Phases'
    BY <1>1, <1>2, <1>3, <2>1 DEF Typed, Phases, ThreadInfo, events, streams
  <2>4. Section'
    BY <2>1 DEF Enter, Typed, ThreadInfo, Section, Threads, None
  <2>5. InOrder' /\ ~Running'
    BY <1>1, <1>2, <1>3 DEF InOrder, Running, streams
  <2> QED
    BY <2>2, <2>3, <2>4, <2>5
<1>4. CASE ~enc.CloseThreads
  <2> DEFINE p == IF enc.StreamWasFinished THEN "finish" ELSE "read"
  <2>1. /\ th' = [th EXCEPT ![t] = [th[t] EXCEPT !.pc = p, !.res = "ok"]]
        /\ CS = None /\ CS' = t
    BY <1>4 DEF Enter
  <2>2. /\ p \in {"finish", "read"}
        /\ p = "finish" => enc.StreamWasFinished
    OBVIOUS
  <2> HIDE DEF p
  <2>3. /\ th' \in [Threads -> ThreadInfo]
        /\ th'[t].pc = p /\ th'[t].res = "ok" /\ th[t].pc = "enter"
        /\ \A u \in Threads : u # t => th'[u] = th[u]
    <3> DEFINE r == [th[t] EXCEPT !.pc = p, !.res = "ok"]
    <3>0. th[t] \in ThreadInfo
      BY DEF Typed
    <3>1. r \in ThreadInfo /\ r.pc = p /\ r.res = "ok"
      BY <3>0, <2>2 DEF ThreadInfo
    <3>2. th[t].pc = "enter" /\ th \in [Threads -> ThreadInfo]
      BY DEF Enter, Typed
    <3> HIDE DEF r
    <3>3. th' = [th EXCEPT ![t] = r]
      BY <2>1 DEF r
    <3> QED
      BY <3>1, <3>2, <3>3
  <2>4. Typed'
    BY <1>2, <2>1, <2>3 DEF Typed, events, streams
  <2>5. Phases'
    BY <1>1, <1>2, <1>4, <2>2, <2>3 DEF Phases, events, streams
  <2>6. Section'
    BY <2>1, <2>2, <2>3, BZip2EncoderAssumption DEF Section, Threads, None
  <2>7. InOrder' /\ Running' /\ Running
    BY <1>1, <1>2, <1>4 DEF InOrder, Running, streams
  <2>8. OneTurn' /\ Blocks' /\ Turn'
    <3>1. \A u \in Threads : UnderWay(u) \/ UnderWay(u)' => th'[u] = th[u]
      BY <2>2, <2>3 DEF UnderWay
    <3> QED
      BY <1>2, <2>4, <2>7, <3>1, FlowKept DEF Lost, events, streams
  <2>9. Outcome'
    BY <1>2, <2>2, <2>3, <2>7 DEF Outcome, streams
  <2> QED
    BY <2>4, <2>5, <2>6, <2>7, <2>8, <2>9
<1> QED
  BY <1>3, <1>4

(* A block with the next place, the end of the input, or an error. *)
LEMMA ReadKeeps ==
    ASSUME IInv, NEW t \in Threads, Read(t)
    PROVE  IInv'
<1> USE DEF IInv
<1>1. /\ main.pc = "finished" /\ ~(t < main.t) /\ Running /\ th[t].pc = "read"
      /\ ~StreamWasFinishedEvent[t] /\ ~WaitingWasStartedEvent[t]
  BY AtWork DEF Read, Running
<1>2. UNCHANGED <<events, main, written>> /\ CS = t
  BY <1>1 DEF Read, Section
<1>3. th[t] \in ThreadInfo /\ th \in [Threads -> ThreadInfo] /\ enc \in Fields
  BY DEF Typed
<1>4. NextIndex(enc.NextBlockIndex) \in Threads
  BY <1>3, DivMod, BZip2EncoderAssumption DEF NextIndex, Threads, Fields
<1>5. InOrder'
  BY <1>2 DEF InOrder
<1>6. CASE /\ numRead < NumInput /\ numRead' = numRead + 1
           /\ th' = [th EXCEPT ![t].pc = "turn", ![t].block = numRead + 1,
                               ![t].m_BlockIndex = enc.NextBlockIndex]
           /\ enc' = [enc EXCEPT !.NextBlockIndex = NextIndex(@)]
           /\ CS' = None /\ UNCHANGED hit
  <2>0. numRead + 1 \in 0..NumInput /\ numRead # NumInput
    BY <1>6, BZip2EncoderAssumption DEF Typed
  <2>1. /\ enc' \in Fields
        /\ enc'.NextBlockIndex = NextIndex(enc.NextBlockIndex)
        /\ enc'.CanProcessEvent = enc.CanProcessEvent
        /\ enc'.CanStartWaitingEvent = enc.CanStartWaitingEvent
        /\ enc'.CloseThreads = enc.CloseThreads
        /\ enc'.Result = enc.Result
        /\ enc'.StreamWasFinished = enc.StreamWasFinished
    BY <1>3, <1>4, <1>6 DEF Fields
  <2>2. /\ th' \in [Threads -> ThreadInfo]
        /\ \A u \in Threads : u # t => th'[u] = th[u]
        /\ th'[t].pc = "turn" /\ th'[t].block = numRead + 1
        /\ th'[t].m_BlockIndex = enc.NextBlockIndex
    <3> DEFINE r == [th[t] EXCEPT !.pc = "turn", !.block = numRead + 1,
                                  !.m_BlockIndex = enc.NextBlockIndex]
    <3>1. /\ r \in ThreadInfo /\ r.pc = "turn" /\ r.block = numRead + 1
          /\ r.m_BlockIndex = enc.NextBlockIndex
      BY <1>3, <2>0 DEF ThreadInfo, Fields
    <3>2. th' = [th EXCEPT ![t] = r]
      BY <1>6
    <3> HIDE DEF r
    <3> QED
      BY <1>3, <3>1, <3>2
  <2>3. Typed'
    BY <1>2, <1>6, <2>0, <2>1, <2>2 DEF Typed, events
  <2>4. Phases'
    BY <1>1, <1>2, <1>6, <2>1, <2>2 DEF Phases, events
  <2>5. Section'
    BY <1>2, <1>6, <2>2, BZip2EncoderAssumption DEF Section, Threads, None
  <2>6. Outcome'
    <3>1. \A u \in Threads : /\ th'[u].pc = "finish" => u # t
                             /\ th[u].pc = "finish" => u # t
                             /\ th'[u].pc = "startWait" => u # t
      BY <1>1, <2>2
    <3>2. enc.StreamWasFinished => hit # {}
      BY <1>1, <1>6, <2>0 DEF Outcome
    <3>3. \A u \in Threads : th[u].pc = "finish" => hit # {}
      BY <1>1, <1>6, <2>0 DEF Outcome
    <3>4. hit # {} => \/ enc'.Result # "ok"
                      \/ \E u \in Threads : th'[u].pc = "finish" /\ th'[u].res # "ok"
      BY <1>1, <2>1, <2>2, <3>1 DEF Outcome
    <3>5. \A u \in Threads : th'[u].pc = "startWait" => enc.StreamWasFinished
      BY <1>1, <2>2, <3>1 DEF Outcome
    <3> QED
      BY <1>1, <1>2, <1>6, <2>1, <2>2, <3>1, <3>2, <3>3, <3>4, <3>5 DEF Outcome
  <2>7. OneTurn' /\ Turn'
    <3>1. \A u \in Threads : /\ HasTurn(u)' <=> HasTurn(u)
                             /\ th'[u].pc = "write" <=> th[u].pc = "write"
                             /\ th'[u].pc = "pass" <=> th[u].pc = "pass"
      BY <1>1, <2>2 DEF HasTurn
    <3>2. OneTurn'
      BY <1>1, <1>2, <3>1 DEF OneTurn, events
    <3>3. Turn'
      BY <1>1, <1>2, <1>6, <2>2, <3>1 DEF Turn, Lost, events
    <3> QED
      BY <3>2, <3>3
  <2>8. Done' = Done
    BY <1>1, <1>2, <1>6, <2>2 DEF Done, Lost
  <2>9. Done \in Nat /\ numRead \in Nat /\ Done <= numRead
    BY <1>1 DEF Blocks, Typed
  <2>10. /\ th'[t].m_BlockIndex = numRead % NumThreads
         /\ enc'.NextBlockIndex = numRead' % NumThreads
    <3>1. enc.NextBlockIndex = numRead % NumThreads
      BY <1>1, <1>6, <2>9, BZip2EncoderAssumption DEF Blocks
    <3>2. NumThreads \in Nat /\ NumThreads > 0
      BY BZip2EncoderAssumption
    <3>3. ((numRead % NumThreads) + 1) % NumThreads = (numRead + 1) % NumThreads
      BY <2>9, <3>2, NextPlace
    <3> QED
      BY <1>6, <2>1, <2>2, <3>1, <3>3 DEF NextIndex
  <2>11. UnderWay(t)' /\ ~UnderWay(t)
    BY <1>1, <2>2 DEF UnderWay
  <2>12. Blocks'
    <3>1. Done' \in 0..numRead'
      BY <1>6, <2>8, <2>9
    <3>2. ASSUME NEW u \in Threads, UnderWay(u)'
          PROVE  \/ u = t
                 \/ /\ UnderWay(u) /\ th'[u] = th[u]
                    /\ th[u].block \in Done + 1..numRead
                    /\ th[u].m_BlockIndex = (th[u].block - 1) % NumThreads
      <4>1. u # t => UnderWay(u) /\ th'[u] = th[u]
        BY <2>2, <3>2 DEF UnderWay
      <4> QED
        BY <1>1, <4>1 DEF Blocks
    <3>3. ASSUME NEW u \in Threads, UnderWay(u)'
          PROVE  /\ th'[u].block \in Done + 1..numRead'
                 /\ th'[u].m_BlockIndex = (th'[u].block - 1) % NumThreads
      BY <1>6, <2>2, <2>9, <2>10, <3>2, <3>3
    <3>4. ASSUME NEW u \in Threads, NEW v \in Threads, UnderWay(u)', UnderWay(v)',
                 th'[u].block = th'[v].block
          PROVE  u = v
      BY <1>1, <2>2, <2>9, <3>2, <3>4 DEF Blocks
    <3>5. ASSUME NEW b \in Done + 1..numRead'
          PROVE  \E u \in Threads : UnderWay(u)' /\ th'[u].block = b
      <4>1. CASE b = numRead + 1
        BY <2>2, <2>11, <4>1
      <4>2. CASE b # numRead + 1
        <5>1. b \in Done + 1..numRead
          BY <1>6, <2>9, <4>2
        <5>2. PICK u \in Threads : UnderWay(u) /\ th[u].block = b
          BY <1>1, <5>1 DEF Blocks
        <5>3. UnderWay(u)' /\ th'[u].block = b
          BY <2>2, <2>11, <5>2 DEF UnderWay
        <5> QED
          BY <5>3
      <4> QED
        BY <4>1, <4>2
    <3> QED
      BY <2>8, <2>10, <3>1, <3>3, <3>4, <3>5 DEF Blocks
  <2> QED
    BY <1>5, <2>3, <2>4, <2>5, <2>6, <2>7, <2>12
<1>7. ASSUME th'[t].pc = "finish", th' \in [Threads -> ThreadInfo],
             \A u \in Threads : u # t => th'[u] = th[u],
             enc' \in Fields,
             enc'.CanProcessEvent = enc.CanProcessEvent,
             enc'.CanStartWaitingEvent = enc.CanStartWaitingEvent,
             enc'.CloseThreads = enc.CloseThreads,
             enc'.Result = enc.Result,
             enc'.StreamWasFinished = enc.StreamWasFinished,
             enc'.NextBlockIndex = enc.NextBlockIndex \/ numRead = NumInput,
             CS' = CS, numRead' = numRead,
             hit \subseteq hit', hit' \subseteq hit \cup ({"read"} \cap Faults),
             hit' # hit => th'[t].res # "ok",
             hit' # {} \/ numRead = NumInput
      PROVE  IInv'
  <2>1. Typed'
    BY <1>2, <1>7 DEF Typed, events
  <2>2. Phases'
    BY <1>1, <1>2, <1>7 DEF Phases, events
  <2>3. Section'
    BY <1>2, <1>7, BZip2EncoderAssumption DEF Section, Threads, None
  <2>4. Outcome'
    BY <1>1, <1>2, <1>7 DEF Outcome
  <2>5. OneTurn' /\ Blocks' /\ Turn'
    <3>1. \A u \in Threads : UnderWay(u) \/ UnderWay(u)' => th'[u] = th[u]
      BY <1>1, <1>7 DEF UnderWay
    <3>2. Lost' <=> Lost
      BY <1>7 DEF Lost
    <3> QED
      BY <1>1, <1>2, <1>7, <2>1, <3>1, <3>2, FlowKept DEF events
  <2> QED
    BY <1>5, <2>1, <2>2, <2>3, <2>4, <2>5
<1>8. CASE /\ numRead = NumInput
           /\ th' = [th EXCEPT ![t].pc = "finish",
                               ![t].m_BlockIndex = enc.NextBlockIndex]
           /\ enc' = [enc EXCEPT !.NextBlockIndex = NextIndex(@)]
           /\ UNCHANGED <<CS, numRead, hit>>
  <2>1. /\ enc' \in Fields
        /\ enc'.CanProcessEvent = enc.CanProcessEvent
        /\ enc'.CanStartWaitingEvent = enc.CanStartWaitingEvent
        /\ enc'.CloseThreads = enc.CloseThreads
        /\ enc'.Result = enc.Result
        /\ enc'.StreamWasFinished = enc.StreamWasFinished
    BY <1>3, <1>4, <1>8 DEF Fields
  <2>2. /\ th' \in [Threads -> ThreadInfo]
        /\ \A u \in Threads : u # t => th'[u] = th[u]
        /\ th'[t].pc = "finish" /\ th'[t].res = th[t].res
    <3> DEFINE r == [th[t] EXCEPT !.pc = "finish", !.m_BlockIndex = enc.NextBlockIndex]
    <3>1. r \in ThreadInfo /\ r.pc = "finish" /\ r.res = th[t].res
      BY <1>3 DEF ThreadInfo, Fields
    <3>2. th' = [th EXCEPT ![t] = r]
      BY <1>8
    <3> HIDE DEF r
    <3> QED
      BY <1>3, <3>1, <3>2
  <2> QED
    BY <1>7, <1>8, <2>1, <2>2
<1>9. CASE /\ CanFail("read") /\ hit' = hit \cup {"read"}
           /\ th' = [th EXCEPT ![t].pc = "finish", ![t].res = "read"]
           /\ UNCHANGED <<enc, CS, numRead>>
  <2>1. /\ th' \in [Threads -> ThreadInfo]
        /\ \A u \in Threads : u # t => th'[u] = th[u]
        /\ th'[t].pc = "finish" /\ th'[t].res = "read"
    <3> DEFINE r == [th[t] EXCEPT !.pc = "finish", !.res = "read"]
    <3>1. r \in ThreadInfo /\ r.pc = "finish" /\ r.res = "read"
      BY <1>3 DEF ThreadInfo
    <3>2. th' = [th EXCEPT ![t] = r]
      BY <1>9
    <3> HIDE DEF r
    <3> QED
      BY <1>3, <3>1, <3>2
  <2>2. "read" \in Faults
    BY <1>9 DEF CanFail
  <2>3. enc' = enc /\ CS' = CS /\ numRead' = numRead /\ hit' = hit \cup {"read"}
    BY <1>9
  <2>4. /\ hit' \subseteq hit \cup ({"read"} \cap Faults)
        /\ hit' # {} /\ hit \subseteq hit'
    BY <2>2, <2>3
  <2> QED
    BY <1>3, <1>7, <2>1, <2>3, <2>4
<1> QED
  BY <1>6, <1>8, <1>9 DEF Read

(* A thread that has been alone with the turn is the only one that may     *)
(* write, and has the block that is to be written. *)
LEMMA TurnIsNext ==
    ASSUME Typed, OneTurn, Blocks, Turn, NEW t \in Threads, HasTurn(t)
    PROVE  /\ ~Lost /\ th[t].block \in Nat /\ th[t].block > 0
           /\ \A u \in Threads : HasTurn(u) => u = t
           /\ \A i \in Threads : ~CanWriteEvent[i]
           /\ th[t].m_BlockIndex = (th[t].block - 1) % NumThreads
           /\ th[t].pc = "write" => Done = Len(written) /\ th[t].block = Len(written) + 1
           /\ th[t].pc = "pass" => Done = Len(written) - 1 /\ th[t].block = Len(written)
           /\ \A u \in Threads : UnderWay(u) /\ u # t => th[u].pc = "turn"
<1>1. ~Lost /\ \A u \in Threads : HasTurn(u) => u = t
  BY DEF OneTurn, Turn
<1>2. \A i \in Threads : ~CanWriteEvent[i]
  BY DEF OneTurn
<1>3. UnderWay(t)
  BY DEF HasTurn, UnderWay
<1>4. /\ th[t].block \in Done + 1..numRead /\ Done \in Nat
      /\ th[t].m_BlockIndex = (th[t].block - 1) % NumThreads
  BY <1>3 DEF Blocks, Typed
<1>5. th[t].block \in Nat /\ th[t].block > 0
  BY <1>4 DEF Typed
<1>6. th[t].pc = "write" => Done = Len(written)
  <2>1. th[t].pc = "write" => ~\E u \in Threads : th[u].pc = "pass"
    BY <1>1 DEF HasTurn
  <2> QED
    BY <1>1, <2>1 DEF Done
<1>7. th[t].pc = "pass" => Done = Len(written) - 1
  BY DEF Done
<1>8. \A u \in Threads : UnderWay(u) /\ u # t => th[u].pc = "turn"
  BY <1>1 DEF UnderWay, HasTurn
<1> QED
  BY <1>1, <1>2, <1>4, <1>5, <1>6, <1>7, <1>8 DEF Turn

(* The event of a place wakes the thread with the next block to write.     *)
LEMMA WaitTurnKeeps ==
    ASSUME IInv, NEW t \in Threads, WaitTurn(t)
    PROVE  IInv'
<1> USE DEF IInv
<1>1. /\ main.pc = "finished" /\ ~(t < main.t) /\ Running /\ th[t].pc = "turn"
      /\ ~StreamWasFinishedEvent[t] /\ ~WaitingWasStartedEvent[t]
  BY AtWork DEF WaitTurn, Running
<1> DEFINE i == th[t].m_BlockIndex
<1>2. /\ CanWriteEvent[i]
      /\ CanWriteEvent' = [CanWriteEvent EXCEPT ![i] = FALSE]
      /\ th' = [th EXCEPT ![t].pc = "write"]
      /\ UNCHANGED <<enc, CS, StreamWasFinishedEvent, WaitingWasStartedEvent, main>>
      /\ UNCHANGED <<numRead, written, hit>>
  BY DEF WaitTurn, TurnOf, Event_CanWait, Event_Wait, streams
<1>3. th[t] \in ThreadInfo /\ th \in [Threads -> ThreadInfo] /\ i \in Threads
  BY DEF Typed, ThreadInfo
<1>4. /\ th' \in [Threads -> ThreadInfo]
      /\ th'[t].pc = "write" /\ th'[t].block = th[t].block
      /\ th'[t].m_BlockIndex = i
      /\ \A u \in Threads : u # t => th'[u] = th[u]
  <2> DEFINE r == [th[t] EXCEPT !.pc = "write"]
  <2>1. /\ r \in ThreadInfo /\ r.pc = "write" /\ r.block = th[t].block
        /\ r.m_BlockIndex = i
    BY <1>3 DEF ThreadInfo
  <2>2. th' = [th EXCEPT ![t] = r]
    BY <1>2
  <2> HIDE DEF r
  <2> QED
    BY <1>3, <2>1, <2>2
<1> HIDE DEF i
<1>5. \A u \in Threads : ~CanWriteEvent'[u] /\ ~HasTurn(u)
  BY <1>1, <1>2, <1>3 DEF OneTurn, Typed
<1>6. ~Lost /\ ~Lost' /\ i = Len(written) % NumThreads
  BY <1>1, <1>2, <1>3 DEF Turn, Lost
<1>7. Done = Len(written) /\ Done' = Done
  <2>1. /\ ~\E u \in Threads : th[u].pc = "pass"
        /\ ~\E u \in Threads : th'[u].pc = "pass"
    BY <1>4, <1>5 DEF HasTurn
  <2> QED
    BY <1>2, <1>6, <2>1 DEF Done
<1>8. Len(written) \in Nat /\ numRead \in Nat
  BY DEF Typed
<1>9. th[t].block = Len(written) + 1
  <2>1. th[t].block \in Done + 1..numRead /\ i = (th[t].block - 1) % NumThreads
    BY <1>1, <1>4 DEF Blocks, UnderWay, i
  <2>2. th[t].block - 1 \in Done..numRead - 1 /\ Len(written) \in Done..numRead - 1
    BY <1>7, <1>8, <2>1
  <2>3. th[t].block - 1 = Len(written)
    BY <1>1, <1>6, <2>1, <2>2, PlaceOfBlock
  <2> QED
    BY <1>8, <2>1, <2>3, <1>7
<1>10. Typed'
  BY <1>2, <1>3, <1>4 DEF Typed
<1>11. Phases'
  BY <1>1, <1>2, <1>4 DEF Phases
<1>12. Section'
  BY <1>1, <1>2, <1>4 DEF Section
<1>13. InOrder' /\ Outcome'
  BY <1>1, <1>2, <1>4 DEF InOrder, Outcome
<1>14. OneTurn'
  BY <1>4, <1>5 DEF OneTurn, HasTurn
<1>15. Turn'
  BY <1>2, <1>4, <1>5, <1>6, <1>9 DEF Turn, HasTurn
<1>16. Blocks'
  <2>1. \A u \in Threads : /\ UnderWay(u)' <=> UnderWay(u)
                           /\ th'[u].block = th[u].block
                           /\ th'[u].m_BlockIndex = th[u].m_BlockIndex
    BY <1>1, <1>4 DEF UnderWay, i
  <2> QED
    BY <1>1, <1>2, <1>7, <2>1 DEF Blocks
<1> QED
  BY <1>10, <1>11, <1>12, <1>13, <1>14, <1>15, <1>16

(* A block is written, or an error leaves its thread with the turn.        *)
LEMMA WriteKeeps ==
    ASSUME IInv, NEW t \in Threads, Write(t)
    PROVE  IInv'
<1> USE DEF IInv
<1>1. /\ main.pc = "finished" /\ ~(t < main.t) /\ Running /\ th[t].pc = "write"
      /\ ~StreamWasFinishedEvent[t] /\ ~WaitingWasStartedEvent[t]
      /\ HasTurn(t) /\ UnderWay(t)
  BY AtWork DEF Write, Running, HasTurn, UnderWay
<1>2. /\ UNCHANGED <<enc, CS, StreamWasFinishedEvent, WaitingWasStartedEvent,
                     CanWriteEvent, main, numRead>>
  BY DEF Write, events
<1>3. th[t] \in ThreadInfo /\ th \in [Threads -> ThreadInfo]
  BY DEF Typed
<1>4. /\ ~Lost /\ Done = Len(written) /\ th[t].block = Len(written) + 1
      /\ \A i \in Threads : ~CanWriteEvent[i]
      /\ \A u \in Threads : UnderWay(u) /\ u # t => th[u].pc = "turn"
  BY <1>1, TurnIsNext
<1>5. Len(written) \in Nat /\ numRead \in Nat /\ written \in Seq(Nat)
  BY DEF Typed
<1>6. th[t].block \in Done + 1..numRead
  BY <1>1 DEF Blocks
<1>7. CASE /\ written' = Append(written, th[t].block)
           /\ th' = [th EXCEPT ![t].pc = "pass"]
           /\ UNCHANGED hit
  <2>1. /\ th' \in [Threads -> ThreadInfo]
        /\ th'[t].pc = "pass" /\ th'[t].block = th[t].block
        /\ th'[t].m_BlockIndex = th[t].m_BlockIndex
        /\ \A u \in Threads : u # t => th'[u] = th[u]
    <3> DEFINE r == [th[t] EXCEPT !.pc = "pass"]
    <3>1. /\ r \in ThreadInfo /\ r.pc = "pass" /\ r.block = th[t].block
          /\ r.m_BlockIndex = th[t].m_BlockIndex
      BY <1>3 DEF ThreadInfo
    <3>2. th' = [th EXCEPT ![t] = r]
      BY <1>7
    <3> HIDE DEF r
    <3> QED
      BY <1>3, <3>1, <3>2
  <2>2. /\ written' \in Seq(Nat) /\ Len(written') = Len(written) + 1
        /\ written'[Len(written) + 1] = Len(written) + 1
        /\ \A i \in 1..Len(written) : written'[i] = written[i]
    BY <1>4, <1>5, <1>7
  <2>3. Done' = Done
    BY <1>4, <1>5, <2>1, <2>2 DEF Done
  <2>4. Typed'
    BY <1>2, <1>7, <2>1, <2>2 DEF Typed
  <2>5. Phases'
    BY <1>1, <1>2, <2>1 DEF Phases
  <2>6. Section'
    BY <1>1, <1>2, <2>1 DEF Section, Typed
  <2>7. InOrder'
    BY <1>5, <2>2 DEF InOrder
  <2>8. Outcome'
    BY <1>1, <1>2, <1>7, <2>1 DEF Outcome
  <2>9. OneTurn'
    BY <1>1, <1>2, <1>4, <2>1 DEF OneTurn, HasTurn
  <2>10. Turn'
    <3>1. \A u \in Threads : th'[u].pc \in {"write", "pass"} => u = t
      BY <1>4, <2>1 DEF UnderWay
    <3> QED
      BY <1>2, <1>4, <1>7, <2>1, <2>2, <3>1 DEF Turn, Lost
  <2>11. Blocks'
    <3>1. \A u \in Threads : /\ UnderWay(u)' <=> UnderWay(u)
                             /\ th'[u].block = th[u].block
                             /\ th'[u].m_BlockIndex = th[u].m_BlockIndex
      BY <1>1, <2>1 DEF UnderWay
    <3> QED
      BY <1>1, <1>2, <2>3, <3>1 DEF Blocks
  <2> QED
    BY <2>4, <2>5, <2>6, <2>7, <2>8, <2>9, <2>10, <2>11
<1>8. CASE /\ CanFail("write") /\ hit' = hit \cup {"write"}
           /\ th' = [th EXCEPT ![t].pc = "finish", ![t].res = "write"]
           /\ UNCHANGED written
  <2>1. /\ th' \in [Threads -> ThreadInfo]
        /\ th'[t].pc = "finish" /\ th'[t].res = "write"
        /\ \A u \in Threads : u # t => th'[u] = th[u]
    <3> DEFINE r == [th[t] EXCEPT !.pc = "finish", !.res = "write"]
    <3>1. r \in ThreadInfo /\ r.pc = "finish" /\ r.res = "write"
      BY <1>3 DEF ThreadInfo
    <3>2. th' = [th EXCEPT ![t] = r]
      BY <1>8
    <3> HIDE DEF r
    <3> QED
      BY <1>3, <3>1, <3>2
  <2>2. Lost' /\ hit' # {}
    BY <1>8 DEF Lost
  <2>3. \A u \in Threads : /\ th'[u].pc \notin {"write", "pass"}
                           /\ UnderWay(u)' <=> UnderWay(u) /\ u # t
    BY <1>4, <2>1 DEF UnderWay
  <2>4. Done' = Done + 1 /\ Done \in Nat
    BY <1>4, <1>5, <1>8, <2>2, <2>3 DEF Done
  <2>5. Typed'
    BY <1>2, <1>8, <2>1 DEF Typed, CanFail
  <2>6. Phases'
    BY <1>1, <1>2, <2>1 DEF Phases
  <2>7. Section'
    BY <1>1, <1>2, <2>1 DEF Section, Typed
  <2>8. InOrder'
    BY <1>8 DEF InOrder
  <2>9. Outcome'
    BY <1>1, <1>2, <2>1, <2>2 DEF Outcome
  <2>10. OneTurn' /\ Turn'
    BY <1>2, <1>4, <2>3 DEF OneTurn, Turn, HasTurn
  <2>11. Blocks'
    <3>1. \A u \in Threads : UnderWay(u) /\ u # t => th[u].block # Done + 1
      BY <1>1, <1>4, <1>5 DEF Blocks
    <3>2. th[t].block = Done + 1
      BY <1>4
    <3>3. \A u \in Threads : UnderWay(u)' =>
             /\ th'[u] = th[u] /\ UnderWay(u)
             /\ th[u].block \in Done' + 1..numRead
      BY <1>1, <1>5, <2>1, <2>3, <2>4, <3>1 DEF Blocks
    <3>4. ASSUME NEW b \in Done' + 1..numRead
          PROVE  \E u \in Threads : UnderWay(u)' /\ th'[u].block = b
      <4>1. b \in Done + 1..numRead /\ b # Done + 1
        BY <1>5, <2>4
      <4>2. PICK u \in Threads : UnderWay(u) /\ th[u].block = b
        BY <1>1, <4>1 DEF Blocks
      <4>3. UnderWay(u)' /\ th'[u].block = b
        BY <2>1, <2>3, <3>2, <4>1, <4>2
      <4> QED
        BY <4>3
    <3>5. Done' \in 0..numRead
      BY <1>5, <1>6, <2>4, <3>2
    <3> QED
      BY <1>1, <1>2, <3>3, <3>4, <3>5 DEF Blocks
  <2> QED
    BY <2>5, <2>6, <2>7, <2>8, <2>9, <2>10, <2>11
<1> QED
  BY <1>7, <1>8 DEF Write

(* The turn goes on to the place of the next block. *)
LEMMA PassTurnKeeps ==
    ASSUME IInv, NEW t \in Threads, PassTurn(t)
    PROVE  IInv'
<1> USE DEF IInv
<1>1. /\ main.pc = "finished" /\ ~(t < main.t) /\ Running /\ th[t].pc = "pass"
      /\ ~StreamWasFinishedEvent[t] /\ ~WaitingWasStartedEvent[t]
      /\ HasTurn(t) /\ UnderWay(t)
  BY AtWork DEF PassTurn, Running, HasTurn, UnderWay
<1>2. th[t] \in ThreadInfo /\ th \in [Threads -> ThreadInfo]
  BY DEF Typed
<1>3. /\ ~Lost /\ Done = Len(written) - 1 /\ th[t].block = Len(written)
      /\ th[t].block \in Nat /\ th[t].block > 0
      /\ th[t].m_BlockIndex = (th[t].block - 1) % NumThreads
      /\ \A i \in Threads : ~CanWriteEvent[i]
      /\ \A u \in Threads : UnderWay(u) /\ u # t => th[u].pc = "turn"
  BY <1>1, TurnIsNext
<1> DEFINE i == NextIndex(TurnOf(t))
<1>4. i = Len(written) % NumThreads /\ i \in Threads
  <2>1. NumThreads \in Nat /\ NumThreads > 0
    BY BZip2EncoderAssumption
  <2>2. th[t].block - 1 \in Nat
    BY <1>3
  <2>3. (((th[t].block - 1) % NumThreads) + 1) % NumThreads
          = ((th[t].block - 1) + 1) % NumThreads
    BY <2>1, <2>2, NextPlace
  <2>4. i = Len(written) % NumThreads
    BY <1>3, <2>3 DEF NextIndex, TurnOf
  <2> QED
    BY <1>3, <2>1, <2>4, DivMod DEF Threads
<1>5. PICK res \in {"ok"} \cup {f \in {"progress"} : CanFail(f)} :
          /\ hit' = hit \cup ({res} \ {"ok"})
          /\ CanWriteEvent' = [CanWriteEvent EXCEPT ![i] = TRUE]
          /\ th' = [th EXCEPT ![t].pc = IF res = "ok" THEN "process" ELSE "finish",
                              ![t].res = res]
  BY DEF PassTurn, PassOn, Event_Set
<1> HIDE DEF i
<1>6. /\ UNCHANGED <<enc, CS, StreamWasFinishedEvent, WaitingWasStartedEvent, main,
                     numRead, written>>
  BY DEF PassTurn
<1> DEFINE p == IF res = "ok" THEN "process" ELSE "finish"
<1>7. /\ res \in {"ok", "progress"} /\ p \in {"process", "finish"}
      /\ p = "finish" <=> res # "ok"
      /\ res # "ok" => hit' # {} /\ "progress" \in Faults
  BY <1>5 DEF CanFail
<1>8. th' = [th EXCEPT ![t] = [th[t] EXCEPT !.pc = p, !.res = res]]
  BY <1>5
<1> HIDE DEF p
<1>9. /\ th' \in [Threads -> ThreadInfo]
      /\ th'[t].pc = p /\ th'[t].res = res
      /\ \A u \in Threads : u # t => th'[u] = th[u]
  <2> DEFINE r == [th[t] EXCEPT !.pc = p, !.res = res]
  <2>1. r \in ThreadInfo /\ r.pc = p /\ r.res = res
    BY <1>2, <1>7 DEF ThreadInfo
  <2> HIDE DEF r
  <2>2. th' = [th EXCEPT ![t] = r]
    BY <1>8 DEF r
  <2> QED
    BY <1>2, <2>1, <2>2
<1>10. /\ CanWriteEvent' \in [Threads -> BOOLEAN]
       /\ \A j \in Threads : CanWriteEvent'[j] => j = i
  BY <1>3, <1>4, <1>5 DEF Typed
<1>11. \A u \in Threads : /\ th'[u].pc \notin {"write", "pass"}
                          /\ UnderWay(u)' <=> UnderWay(u) /\ u # t
  BY <1>3, <1>7, <1>9 DEF UnderWay
<1>12. Len(written) \in Nat /\ ~Lost'
  BY <1>3, <1>5, <1>7 DEF Lost, Typed
<1>13. Done' = Done + 1 /\ Done \in Nat
  BY <1>3, <1>6, <1>11, <1>12 DEF Done
<1>14. Typed'
  BY <1>5, <1>6, <1>7, <1>9, <1>10 DEF Typed
<1>15. Phases'
  BY <1>1, <1>6, <1>7, <1>9 DEF Phases
<1>16. Section'
  BY <1>1, <1>6, <1>7, <1>9 DEF Section, Typed
<1>17. InOrder'
  BY <1>6 DEF InOrder
<1>18. Outcome'
  <2>1. \A u \in Threads : /\ th'[u].pc = "finish" => u # t \/ hit' # {}
                           /\ th[u].pc = "finish" => u # t
                           /\ th'[u].pc = "startWait" => u # t
    BY <1>1, <1>7, <1>9
  <2>2. hit' # {} => \/ enc'.Result # "ok"
                     \/ \E u \in Threads : th'[u].pc = "finish" /\ th'[u].res # "ok"
    <3>1. CASE res = "ok"
      <4>1. hit' = hit
        BY <1>5, <3>1
      <4> QED
        BY <1>1, <1>6, <1>9, <2>1, <4>1 DEF Outcome
    <3>2. CASE res # "ok"
      BY <1>7, <1>9, <3>2
    <3> QED
      BY <3>1, <3>2
  <2>3. hit \subseteq hit'
    BY <1>5
  <2> QED
    BY <1>1, <1>6, <1>9, <2>1, <2>2, <2>3 DEF Outcome
<1>19. OneTurn' /\ Turn'
  BY <1>4, <1>6, <1>10, <1>11, <1>12 DEF OneTurn, Turn, HasTurn
<1>20. Blocks'
  <2>1. \A u \in Threads : UnderWay(u) /\ u # t => th[u].block # Done + 1
    BY <1>1, <1>3, <1>12 DEF Blocks
  <2>2. th[t].block = Done + 1 /\ th[t].block \in Done + 1..numRead /\ numRead \in Nat
    BY <1>1, <1>3, <1>12 DEF Blocks, Typed
  <2> QED
    BY <1>1, <1>6, <1>9, <1>11, <1>13, <2>1, <2>2 DEF Blocks
<1> QED
  BY <1>14, <1>15, <1>16, <1>17, <1>18, <1>19, <1>20

(* The first phase of the barrier. *)
LEMMA FinishStreamKeeps ==
    ASSUME IInv, NEW t \in Threads, FinishStream(t)
    PROVE  IInv'
<1> USE DEF IInv
<1>1. /\ main.pc = "finished" /\ ~(t < main.t) /\ Running /\ th[t].pc = "finish"
      /\ ~StreamWasFinishedEvent[t] /\ ~WaitingWasStartedEvent[t]
      /\ ~enc.CanStartWaitingEvent
  BY AtWork DEF FinishStream, Running
<1>2. th[t] \in ThreadInfo /\ th \in [Threads -> ThreadInfo] /\ enc \in Fields
  BY DEF Typed
<1>3. /\ enc' = [enc EXCEPT !.StreamWasFinished = TRUE,
                            !.Result = IF th[t].res = "ok" THEN @ ELSE th[t].res]
      /\ StreamWasFinishedEvent' = [StreamWasFinishedEvent EXCEPT ![t] = TRUE]
      /\ CS' = IF CS = t THEN None ELSE CS
      /\ th' = [th EXCEPT ![t].pc = "startWait"]
      /\ UNCHANGED <<WaitingWasStartedEvent, CanWriteEvent, main>>
      /\ UNCHANGED <<numRead, written, hit>>
  BY DEF FinishStream, Event_Set, streams
<1>4. /\ enc' \in Fields /\ enc'.StreamWasFinished
      /\ enc'.CanProcessEvent = enc.CanProcessEvent
      /\ enc'.CanStartWaitingEvent = enc.CanStartWaitingEvent
      /\ enc'.CloseThreads = enc.CloseThreads
      /\ enc'.NextBlockIndex = enc.NextBlockIndex
      /\ enc'.Result = IF th[t].res = "ok" THEN enc.Result ELSE th[t].res
  BY <1>2, <1>3 DEF Fields, ThreadInfo
<1>5. /\ th' \in [Threads -> ThreadInfo] /\ th'[t].pc = "startWait"
      /\ \A u \in Threads : u # t => th'[u] = th[u]
  BY <1>2, <1>3 DEF ThreadInfo
<1>6. /\ StreamWasFinishedEvent' \in [Threads -> BOOLEAN]
      /\ StreamWasFinishedEvent'[t]
      /\ \A u \in Threads :
            u # t => StreamWasFinishedEvent'[u] = StreamWasFinishedEvent[u]
  BY <1>3 DEF Typed
<1>7. Typed'
  BY <1>3, <1>4, <1>5, <1>6 DEF Typed
<1>8. Phases'
  BY <1>1, <1>3, <1>4, <1>5, <1>6 DEF Phases
<1>9. Section'
  BY <1>1, <1>3, <1>5, BZip2EncoderAssumption DEF Section, Typed, Threads, None
<1>10. InOrder'
  BY <1>3 DEF InOrder
<1>11. OneTurn' /\ Blocks' /\ Turn'
  <2>1. \A u \in Threads : UnderWay(u) \/ UnderWay(u)' => th'[u] = th[u]
    BY <1>1, <1>5 DEF UnderWay
  <2> QED
    BY <1>1, <1>3, <1>4, <1>7, <2>1, FlowKept DEF Lost
<1>12. Outcome'
  <2>1. hit # {} \/ numRead = NumInput
    BY <1>1 DEF Outcome
  <2>2. hit # {} => \/ enc'.Result # "ok"
                    \/ \E u \in Threads : th'[u].pc = "finish" /\ th'[u].res # "ok"
    <3>1. CASE th[t].res # "ok"
      BY <1>4, <3>1
    <3>2. CASE th[t].res = "ok"
      BY <1>1, <1>4, <1>5, <3>2 DEF Outcome
    <3> QED
      BY <3>1, <3>2
  <2> QED
    BY <1>1, <1>3, <1>4, <1>5, <2>1, <2>2 DEF Outcome
<1> QED
  BY <1>7, <1>8, <1>9, <1>10, <1>11, <1>12

(* The second phase. *)
LEMMA StartWaitingKeeps ==
    ASSUME IInv, NEW t \in Threads, StartWaiting(t)
    PROVE  IInv'
<1> USE DEF IInv
<1>1. /\ enc.CanStartWaitingEvent /\ enc \in Fields /\ th[t].pc = "startWait"
      /\ th \in [Threads -> ThreadInfo]
  BY DEF StartWaiting, Event_CanWait, Typed
<1>2. main.pc = "started" /\ Running
  BY <1>1 DEF Phases, Typed, MainFields, Running
<1>3. /\ enc' = [enc EXCEPT !.CanStartWaitingEvent = TRUE /\ @]
      /\ WaitingWasStartedEvent' = [WaitingWasStartedEvent EXCEPT ![t] = TRUE]
      /\ th' = [th EXCEPT ![t].pc = "process"]
      /\ UNCHANGED <<CS, StreamWasFinishedEvent, CanWriteEvent, main, numRead, written,
                     hit>>
  BY DEF StartWaiting, Event_Wait, Event_Set, streams
<1>4. enc' = enc
  BY <1>1, <1>3 DEF Fields
<1>5. /\ th' \in [Threads -> ThreadInfo] /\ th'[t].pc = "process"
      /\ \A u \in Threads : u # t => th'[u] = th[u]
  BY <1>1, <1>3 DEF ThreadInfo
<1>6. /\ WaitingWasStartedEvent' \in [Threads -> BOOLEAN]
      /\ WaitingWasStartedEvent'[t]
      /\ \A u \in Threads :
            u # t => WaitingWasStartedEvent'[u] = WaitingWasStartedEvent[u]
  BY <1>3 DEF Typed
<1>7. Typed'
  BY <1>3, <1>4, <1>5, <1>6 DEF Typed
<1>8. Phases'
  BY <1>1, <1>2, <1>3, <1>4, <1>5, <1>6 DEF Phases
<1>9. Section'
  BY <1>1, <1>3, <1>5 DEF Section, Typed
<1>10. InOrder'
  BY <1>3 DEF InOrder
<1>11. OneTurn' /\ Blocks' /\ Turn'
  <2>1. \A u \in Threads : UnderWay(u) \/ UnderWay(u)' => th'[u] = th[u]
    BY <1>1, <1>5 DEF UnderWay
  <2> QED
    BY <1>2, <1>3, <1>4, <1>7, <2>1, FlowKept DEF Lost
<1>12. Outcome'
  BY <1>1, <1>2, <1>3, <1>4, <1>5 DEF Outcome
<1> QED
  BY <1>7, <1>8, <1>9, <1>10, <1>11, <1>12

-----------------------------------------------------------------------------
(* The caller                                                              *)

(* All fields are as they were but for the caller's place. *)
LEMMA CallCodeKeeps ==
    ASSUME IInv, CallCode
    PROVE  IInv'
<1> USE DEF IInv
<1>1. /\ main.pc = "idle" /\ ~Running
      /\ main' = [main EXCEPT !.pc = IF HasThreads THEN "start" ELSE "create",
                              !.calls = @ + 1, !.res = "ok"]
      /\ main.calls < MaxCalls /\ written' = <<>> /\ hit' = {}
      /\ UNCHANGED <<enc, CS, th, events, numRead>>
  BY DEF CallCode, Running
<1>2. main \in MainFields /\ 0 \in Threads
  BY BZip2EncoderAssumption DEF Typed, Threads
<1>3. /\ main' \in MainFields
      /\ main'.pc = IF HasThreads THEN "start" ELSE "create"
  <2>1. main.calls + 1 \in 0..MaxCalls
    BY <1>1, <1>2, BZip2EncoderAssumption DEF MainFields
  <2>2. CASE HasThreads
    BY <1>1, <1>2, <2>1, <2>2 DEF MainFields
  <2>3. CASE ~HasThreads
    BY <1>1, <1>2, <2>1, <2>3 DEF MainFields
  <2> QED
    BY <2>2, <2>3
<1>4. Typed'
  BY <1>1, <1>3 DEF Typed, events
<1>5. Phases'
  BY <1>1, <1>2, <1>3 DEF Phases, HasThreads, events
<1>6. Section' /\ InOrder' /\ ~Running'
  BY <1>1, <1>3 DEF Section, InOrder, Running
<1> QED
  BY <1>4, <1>5, <1>6

(* All threads, or some of them and no call. *)
LEMMA CreateKeeps ==
    ASSUME IInv, Create
    PROVE  IInv'
<1> USE DEF IInv
<1>1. /\ main.pc = "create" /\ ~Running /\ main \in MainFields /\ enc \in Fields
      /\ UNCHANGED <<CS, events, streams>>
  BY DEF Create, Running, Typed
<1>2. PICK n \in 0..NumThreads :
          /\ n = NumThreads \/ CanFail("create")
          /\ th' = [t \in Threads |->
                      IF t < n THEN [th[t] EXCEPT !.pc = "process"] ELSE th[t]]
          /\ IF n = NumThreads
             THEN main' = [main EXCEPT !.pc = "start"] /\ UNCHANGED enc
             ELSE /\ main' = [main EXCEPT !.pc = "free"]
                  /\ enc' = [enc EXCEPT !.CloseThreads = TRUE,
                                        !.CanProcessEvent = TRUE]
  BY DEF Create, Event_Set
<1>3. \A t \in Threads : th[t].pc = "none" /\ th[t] \in ThreadInfo
  BY <1>1 DEF Phases, Typed
<1>4. /\ th' \in [Threads -> ThreadInfo]
      /\ \A t \in Threads : th'[t].pc \in {"none", "process"}
  BY <1>2, <1>3 DEF ThreadInfo
<1>5. Section'
  BY <1>1, <1>3, <1>4, BZip2EncoderAssumption DEF Section, Typed, Threads, None
<1>6. InOrder'
  BY <1>1 DEF InOrder, streams
<1>7. CASE n = NumThreads
  <2>1. main' \in MainFields /\ main'.pc = "start" /\ enc' = enc
    BY <1>1, <1>2, <1>7 DEF MainFields
  <2>2. \A t \in Threads : th'[t].pc = "process"
    BY <1>2, <1>3, <1>7, BZip2EncoderAssumption DEF ThreadInfo, Threads
  <2>3. Typed'
    BY <1>1, <1>4, <2>1 DEF Typed, events, streams
  <2>4. Phases'
    BY <1>1, <2>1, <2>2 DEF Phases, events, streams
  <2> QED
    BY <1>5, <1>6, <2>1, <2>3, <2>4 DEF Running
<1>8. CASE n # NumThreads
  <2>1. /\ main' \in MainFields /\ main'.pc = "free"
        /\ enc' \in Fields /\ enc'.CloseThreads
    BY <1>1, <1>2, <1>8 DEF MainFields, Fields
  <2>2. Typed'
    BY <1>1, <1>4, <2>1 DEF Typed, events, streams
  <2>3. Phases'
    BY <1>1, <1>4, <2>1 DEF Phases
  <2> QED
    BY <1>5, <1>6, <2>1, <2>2, <2>3 DEF Running
<1> QED
  BY <1>7, <1>8

(* A call begins with no block under way and the turn at the first place.  *)
LEMMA StartKeeps ==
    ASSUME IInv, Start
    PROVE  IInv'
<1> USE DEF IInv
<1>1. /\ main.pc = "start" /\ ~Running /\ main \in MainFields /\ enc \in Fields
      /\ UNCHANGED <<CS, th, written, hit>>
      /\ hit = {} /\ written = <<>>
      /\ ~enc.CanProcessEvent /\ ~enc.CanStartWaitingEvent /\ ~enc.CloseThreads
      /\ \A t \in Threads : /\ th[t].pc = "process"
                            /\ ~StreamWasFinishedEvent[t] /\ ~WaitingWasStartedEvent[t]
  BY DEF Start, Running, Typed, Phases
<1>2. Section' /\ InOrder'
  BY <1>1 DEF Section, InOrder
<1>3. CASE /\ numRead' = 0
           /\ StreamWasFinishedEvent' = NoEvent /\ WaitingWasStartedEvent' = NoEvent
           /\ CanWriteEvent' = FirstTurn
           /\ enc' = [enc EXCEPT !.NextBlockIndex = 0, !.StreamWasFinished = FALSE,
                        !.CloseThreads = FALSE, !.Result = "ok",
                        !.CanStartWaitingEvent = Event_Reset(@),
                        !.CanProcessEvent = Event_Set(@)]
           /\ main' = [main EXCEPT !.pc = "finished", !.t = 0]
  <2>1. 0 \in Threads /\ 0 \in 0..NumInput
    BY BZip2EncoderAssumption DEF Threads
  <2>2. /\ enc' \in Fields /\ enc'.NextBlockIndex = 0 /\ ~enc'.StreamWasFinished
        /\ ~enc'.CloseThreads /\ enc'.Result = "ok" /\ ~enc'.CanStartWaitingEvent
    BY <1>1, <1>3, <2>1 DEF Fields, Event_Reset, Event_Set
  <2>3. main' \in MainFields /\ main'.pc = "finished" /\ main'.t = 0
    BY <1>1, <1>3, <2>1 DEF MainFields
  <2>4. /\ StreamWasFinishedEvent' \in [Threads -> BOOLEAN]
        /\ WaitingWasStartedEvent' \in [Threads -> BOOLEAN]
        /\ CanWriteEvent' \in [Threads -> BOOLEAN]
        /\ \A t \in Threads : /\ ~StreamWasFinishedEvent'[t]
                              /\ ~WaitingWasStartedEvent'[t]
                              /\ CanWriteEvent'[t] <=> t = 0
    BY <1>3 DEF NoEvent, FirstTurn
  <2>5. Typed'
    BY <1>1, <1>3, <2>1, <2>2, <2>3, <2>4 DEF Typed
  <2>6. Phases'
    <3>1. \A t \in Threads : ~(t < 0)
      BY BZip2EncoderAssumption DEF Threads
    <3> QED
      BY <1>1, <2>2, <2>3, <2>4, <3>1 DEF Phases
  <2>7. 0 % NumThreads = 0
    BY BZip2EncoderAssumption
  <2>8. Len(written) = 0 /\ ~Lost'
    BY <1>1 DEF Lost
  <2>9. \A t \in Threads : ~HasTurn(t)' /\ ~UnderWay(t)' /\ th'[t].pc # "pass"
    BY <1>1 DEF HasTurn, UnderWay
  <2>10. Done' = 0
    BY <1>1, <2>8, <2>9 DEF Done
  <2>11. OneTurn' /\ Turn'
    BY <1>1, <2>4, <2>7, <2>8, <2>9 DEF OneTurn, Turn, HasTurn
  <2>12. Blocks'
    BY <1>3, <2>2, <2>7, <2>9, <2>10 DEF Blocks
  <2>13. Outcome'
    BY <1>1, <2>2, <2>3 DEF Outcome
  <2> QED
    BY <1>2, <2>5, <2>6, <2>11, <2>12, <2>13
<1>4. CASE /\ main' = [main EXCEPT !.pc = "idle", !.res = "memory"]
           /\ UNCHANGED <<enc, events, numRead>>
  <2>1. main' \in MainFields /\ main'.pc = "idle"
    BY <1>1, <1>4 DEF MainFields
  <2>2. Typed'
    BY <1>1, <1>4, <2>1 DEF Typed, events
  <2>3. Phases'
    BY <1>1, <1>4, <2>1 DEF Phases, events
  <2> QED
    BY <1>2, <2>1, <2>2, <2>3 DEF Running
<1> QED
  BY <1>3, <1>4 DEF Start

(* A step of the caller in the barrier does not touch what the threads     *)
(* have in hand. *)
LEMMA CallerFlow ==
    ASSUME IInv, Typed', Running,
           main'.pc \in {"finished", "close", "open", "started", "end"},
           UNCHANGED <<th, CanWriteEvent, numRead, written, hit>>,
           enc'.NextBlockIndex = enc.NextBlockIndex, enc'.Result = enc.Result,
           enc'.StreamWasFinished = enc.StreamWasFinished,
           main'.pc = "finished" \/ enc.StreamWasFinished
    PROVE  OneTurn' /\ Blocks' /\ Turn' /\ Outcome'
<1>1. OneTurn' /\ Blocks' /\ Turn'
  BY FlowKept DEF IInv, Lost
<1>2. Outcome'
  BY DEF IInv, Outcome
<1> QED
  BY <1>1, <1>2

(* One thread after the other. *)
LEMMA RoundStep ==
    ASSUME Typed, NEW next, Round(next),
           next \in {"close", "end"}, main.pc \in {"finished", "started"}
    PROVE  /\ main' \in MainFields
           /\ \/ /\ main.t = NumThreads - 1 /\ main'.t = 0 /\ main'.pc = next
                 /\ \A t \in Threads : t < main.t \/ t = main.t
              \/ /\ main'.t = main.t + 1 /\ main'.pc = main.pc
                 /\ \A t \in Threads : t < main'.t <=> t < main.t \/ t = main.t
<1>1. main \in MainFields /\ main.t \in Threads /\ 0 \in Threads
  BY BZip2EncoderAssumption DEF Typed, MainFields, Threads
<1>2. CASE main.t = NumThreads - 1
  <2>1. main' = [main EXCEPT !.t = 0, !.pc = next]
    BY <1>2 DEF Round
  <2>2. main' \in MainFields /\ main'.t = 0 /\ main'.pc = next
    BY <1>1, <2>1 DEF MainFields
  <2>3. \A t \in Threads : t < main.t \/ t = main.t
    BY <1>2, BZip2EncoderAssumption DEF Threads
  <2> QED
    BY <1>2, <2>2, <2>3
<1>3. CASE main.t # NumThreads - 1
  <2>1. main' = [main EXCEPT !.t = main.t + 1]
    BY <1>3 DEF Round
  <2>2. main.t + 1 \in Threads
    BY <1>1, <1>3, BZip2EncoderAssumption DEF Threads
  <2>3. main' \in MainFields /\ main'.t = main.t + 1 /\ main'.pc = main.pc
    BY <1>1, <2>1, <2>2 DEF MainFields
  <2>4. \A t \in Threads : t < main.t + 1 <=> t < main.t \/ t = main.t
    BY <1>1, BZip2EncoderAssumption DEF Threads
  <2> QED
    BY <2>3, <2>4
<1> QED
  BY <1>2, <1>3

(* StreamWasFinishedEvent of each thread. *)
LEMMA WaitFinishedKeeps ==
    ASSUME IInv, WaitFinished
    PROVE  IInv'
<1> USE DEF IInv
<1>1. /\ main.pc = "finished" /\ Running /\ main.t \in Threads
      /\ StreamWasFinishedEvent[main.t]
      /\ StreamWasFinishedEvent' = [StreamWasFinishedEvent EXCEPT ![main.t] = FALSE]
      /\ Round("close")
      /\ UNCHANGED <<enc, CS, th, WaitingWasStartedEvent, CanWriteEvent>>
      /\ UNCHANGED <<numRead, written, hit>>
  BY DEF WaitFinished, Event_CanWait, Event_Wait, Running, Typed, MainFields, streams
<1>2. /\ StreamWasFinishedEvent' \in [Threads -> BOOLEAN]
      /\ ~StreamWasFinishedEvent'[main.t]
      /\ \A t \in Threads :
            t # main.t => StreamWasFinishedEvent'[t] = StreamWasFinishedEvent[t]
  BY <1>1 DEF Typed
<1>3. th[main.t].pc = "startWait"
  BY <1>1 DEF Phases
<1>4. enc.StreamWasFinished
  BY <1>1, <1>3 DEF Outcome
<1>5. /\ main' \in MainFields
      /\ \/ /\ main.t = NumThreads - 1 /\ main'.t = 0 /\ main'.pc = "close"
            /\ \A t \in Threads : t < main.t \/ t = main.t
         \/ /\ main'.t = main.t + 1 /\ main'.pc = main.pc
            /\ \A t \in Threads : t < main'.t <=> t < main.t \/ t = main.t
  BY <1>1, RoundStep
<1>6. Typed'
  BY <1>1, <1>2, <1>5 DEF Typed
<1>7. Section' /\ InOrder'
  BY <1>1 DEF Section, InOrder
<1>8. Phases'
  <2>1. CASE main'.pc = "close" /\ main'.t = 0 /\ \A t \in Threads : t < main.t \/ t = main.t
    <3>1. \A t \in Threads : th[t].pc = "startWait" /\ ~StreamWasFinishedEvent'[t]
      BY <1>1, <1>2, <1>3, <2>1 DEF Phases
    <3> QED
      BY <1>1, <2>1, <3>1 DEF Phases
  <2>2. CASE /\ main'.pc = "finished"
             /\ \A t \in Threads : t < main'.t <=> t < main.t \/ t = main.t
    <3>1. \A t \in Threads :
             /\ th[t].pc \notin {"none", "dead"} /\ ~WaitingWasStartedEvent[t]
             /\ IF t < main'.t
                THEN th[t].pc = "startWait" /\ ~StreamWasFinishedEvent'[t]
                ELSE StreamWasFinishedEvent'[t] <=> th[t].pc = "startWait"
      BY <1>1, <1>2, <1>3, <2>2 DEF Phases
    <3> QED
      BY <1>1, <2>2, <3>1 DEF Phases
  <2> QED
    BY <1>1, <1>5, <2>1, <2>2
<1>9. OneTurn' /\ Blocks' /\ Turn' /\ Outcome'
  BY <1>1, <1>4, <1>5, <1>6, CallerFlow
<1> QED
  BY <1>6, <1>7, <1>8, <1>9

(* CanProcessEvent.Reset. *)
LEMMA CloseProcessKeeps ==
    ASSUME IInv, CloseProcess
    PROVE  IInv'
<1> USE DEF IInv
<1>1. /\ main.pc = "close" /\ Running /\ main \in MainFields /\ enc \in Fields
      /\ enc' = [enc EXCEPT !.CanProcessEvent = FALSE]
      /\ main' = [main EXCEPT !.pc = "open"]
      /\ UNCHANGED <<CS, th, events, streams>>
  BY DEF CloseProcess, Event_Reset, Running, Typed
<1>2. /\ enc' \in Fields /\ ~enc'.CanProcessEvent
      /\ enc'.CanStartWaitingEvent = enc.CanStartWaitingEvent
      /\ enc'.CloseThreads = enc.CloseThreads
      /\ enc'.NextBlockIndex = enc.NextBlockIndex /\ enc'.Result = enc.Result
      /\ enc'.StreamWasFinished = enc.StreamWasFinished
      /\ main' \in MainFields /\ main'.pc = "open" /\ main'.t = main.t
  BY <1>1 DEF Fields, MainFields
<1>3. Typed'
  BY <1>1, <1>2 DEF Typed, events, streams
<1>4. Phases'
  BY <1>1, <1>2 DEF Phases, events
<1>5. Section' /\ InOrder'
  BY <1>1 DEF Section, InOrder, streams
<1>6. OneTurn' /\ Blocks' /\ Turn' /\ Outcome'
  <2>1. enc.StreamWasFinished
    BY <1>1 DEF Outcome
  <2> QED
    BY <1>1, <1>2, <1>3, <2>1, CallerFlow DEF events, streams
<1> QED
  BY <1>3, <1>4, <1>5, <1>6

(* CanStartWaitingEvent.Set. *)
LEMMA OpenWaitingKeeps ==
    ASSUME IInv, OpenWaiting
    PROVE  IInv'
<1> USE DEF IInv
<1>1. /\ main.pc = "open" /\ Running /\ main \in MainFields /\ enc \in Fields
      /\ enc' = [enc EXCEPT !.CanStartWaitingEvent = TRUE]
      /\ main' = [main EXCEPT !.pc = "started"]
      /\ UNCHANGED <<CS, th, events, streams>>
  BY DEF OpenWaiting, Event_Set, Running, Typed
<1>2. /\ enc' \in Fields
      /\ enc'.CanProcessEvent = enc.CanProcessEvent
      /\ enc'.CloseThreads = enc.CloseThreads
      /\ enc'.NextBlockIndex = enc.NextBlockIndex /\ enc'.Result = enc.Result
      /\ enc'.StreamWasFinished = enc.StreamWasFinished
      /\ main' \in MainFields /\ main'.pc = "started" /\ main'.t = main.t
  BY <1>1 DEF Fields, MainFields
<1>3. Typed'
  BY <1>1, <1>2 DEF Typed, events, streams
<1>4. Phases'
  <2>1. main.t = 0 /\ \A t \in Threads : ~(t < 0)
    BY <1>1, BZip2EncoderAssumption DEF Phases, Threads
  <2> QED
    BY <1>1, <1>2, <2>1 DEF Phases, events
<1>5. Section' /\ InOrder'
  BY <1>1 DEF Section, InOrder, streams
<1>6. OneTurn' /\ Blocks' /\ Turn' /\ Outcome'
  <2>1. enc.StreamWasFinished
    BY <1>1 DEF Outcome
  <2> QED
    BY <1>1, <1>2, <1>3, <2>1, CallerFlow DEF events, streams
<1> QED
  BY <1>3, <1>4, <1>5, <1>6

(* WaitingWasStartedEvent of each thread. *)
LEMMA WaitStartedKeeps ==
    ASSUME IInv, WaitStarted
    PROVE  IInv'
<1> USE DEF IInv
<1>1. /\ main.pc = "started" /\ Running /\ main.t \in Threads
      /\ WaitingWasStartedEvent[main.t]
      /\ WaitingWasStartedEvent' = [WaitingWasStartedEvent EXCEPT ![main.t] = FALSE]
      /\ Round("end")
      /\ UNCHANGED <<enc, CS, th, StreamWasFinishedEvent, CanWriteEvent>>
      /\ UNCHANGED <<numRead, written, hit>>
  BY DEF WaitStarted, Event_CanWait, Event_Wait, Running, Typed, MainFields, streams
<1>2. /\ WaitingWasStartedEvent' \in [Threads -> BOOLEAN]
      /\ ~WaitingWasStartedEvent'[main.t]
      /\ \A t \in Threads :
            t # main.t => WaitingWasStartedEvent'[t] = WaitingWasStartedEvent[t]
  BY <1>1 DEF Typed
<1>3. th[main.t].pc = "process"
  BY <1>1 DEF Phases
<1>4. enc.StreamWasFinished
  BY <1>1 DEF Outcome
<1>5. /\ main' \in MainFields
      /\ \/ /\ main.t = NumThreads - 1 /\ main'.t = 0 /\ main'.pc = "end"
            /\ \A t \in Threads : t < main.t \/ t = main.t
         \/ /\ main'.t = main.t + 1 /\ main'.pc = main.pc
            /\ \A t \in Threads : t < main'.t <=> t < main.t \/ t = main.t
  BY <1>1, RoundStep
<1>6. Typed'
  BY <1>1, <1>2, <1>5 DEF Typed
<1>7. Section' /\ InOrder'
  BY <1>1 DEF Section, InOrder
<1>8. Phases'
  <2>1. CASE main'.pc = "end" /\ \A t \in Threads : t < main.t \/ t = main.t
    <3>1. \A t \in Threads : /\ th[t].pc = "process" /\ ~WaitingWasStartedEvent'[t]
                             /\ ~StreamWasFinishedEvent[t]
      BY <1>1, <1>2, <1>3, <2>1 DEF Phases
    <3> QED
      BY <1>1, <2>1, <3>1 DEF Phases
  <2>2. CASE /\ main'.pc = "started"
             /\ \A t \in Threads : t < main'.t <=> t < main.t \/ t = main.t
    <3>1. \A t \in Threads :
             /\ ~StreamWasFinishedEvent[t]
             /\ th[t].pc \in {"startWait", "process"}
             /\ IF t < main'.t
                THEN th[t].pc = "process" /\ ~WaitingWasStartedEvent'[t]
                ELSE WaitingWasStartedEvent'[t] <=> th[t].pc = "process"
      BY <1>1, <1>2, <1>3, <2>2 DEF Phases
    <3> QED
      BY <1>1, <2>2, <3>1 DEF Phases
  <2> QED
    BY <1>1, <1>5, <2>1, <2>2
<1>9. OneTurn' /\ Blocks' /\ Turn' /\ Outcome'
  BY <1>1, <1>4, <1>5, <1>6, CallerFlow
<1> QED
  BY <1>6, <1>7, <1>8, <1>9

(* CanStartWaitingEvent.Reset, and the result. *)
LEMMA ReturnKeeps ==
    ASSUME IInv, Return
    PROVE  IInv'
<1> USE DEF IInv
<1>1. /\ main.pc = "end" /\ main \in MainFields /\ enc \in Fields
      /\ enc' = [enc EXCEPT !.CanStartWaitingEvent = FALSE]
      /\ UNCHANGED <<CS, th, events, streams>>
  BY DEF Return, Event_Reset, Typed
<1>2. PICK res \in {"ok", "read", "write", "progress"} :
          main' = [main EXCEPT !.pc = "idle", !.res = res]
  BY <1>1 DEF Return, Fields, CanFail
<1>3. main' \in MainFields /\ main'.pc = "idle"
  BY <1>1, <1>2 DEF MainFields
<1>4. /\ enc' \in Fields /\ ~enc'.CanStartWaitingEvent
      /\ enc'.CanProcessEvent = enc.CanProcessEvent
      /\ enc'.CloseThreads = enc.CloseThreads
  BY <1>1 DEF Fields
<1>5. Typed'
  BY <1>1, <1>3, <1>4 DEF Typed, events, streams
<1>6. Phases'
  BY <1>1, <1>3, <1>4 DEF Phases, events
<1>7. Section' /\ InOrder' /\ ~Running'
  BY <1>1, <1>3 DEF Section, InOrder, Running, streams
<1> QED
  BY <1>5, <1>6, <1>7

(* The destruction begins. *)
LEMMA DestroyKeeps ==
    ASSUME IInv, Destroy
    PROVE  IInv'
<1> USE DEF IInv
<1>1. /\ main.pc = "idle" /\ main \in MainFields /\ enc \in Fields
      /\ main' = [main EXCEPT !.pc = "join"]
      /\ enc' = [enc EXCEPT !.CloseThreads = TRUE, !.CanProcessEvent = TRUE]
      /\ UNCHANGED <<CS, th, events, streams>>
  BY DEF Destroy, Event_Set, Typed
<1>2. /\ main' \in MainFields /\ main'.pc = "join"
      /\ enc' \in Fields /\ enc'.CloseThreads
  BY <1>1 DEF MainFields, Fields
<1>3. Typed'
  BY <1>1, <1>2 DEF Typed, events, streams
<1>4. Phases'
  BY <1>1, <1>2 DEF Phases
<1>5. Section' /\ InOrder' /\ ~Running'
  BY <1>1, <1>2 DEF Section, InOrder, Running, streams
<1> QED
  BY <1>3, <1>4, <1>5

(* The destruction ends. *)
LEMMA JoinedKeeps ==
    ASSUME IInv, Joined
    PROVE  IInv'
<1> USE DEF IInv
<1>1. /\ main.pc \in {"free", "join"} /\ main \in MainFields
      /\ main' = [main EXCEPT !.pc = "dead",
                              !.res = IF main.pc = "free" THEN "create" ELSE @]
      /\ UNCHANGED <<enc, CS, th, events, streams>>
  BY DEF Joined, Typed
<1>2. main' \in MainFields /\ main'.pc = "dead"
  BY <1>1 DEF MainFields
<1>3. Typed'
  BY <1>1, <1>2 DEF Typed, events, streams
<1>4. Phases'
  BY <1>1, <1>2 DEF Phases
<1>5. Section' /\ InOrder' /\ ~Running'
  BY <1>1, <1>2 DEF Section, InOrder, Running, streams
<1> QED
  BY <1>3, <1>4, <1>5

-----------------------------------------------------------------------------
(* The theorems                                                            *)

(* Between two calls, too, no more than one turn is left. *)
OneEvent == \A i, j \in Threads : CanWriteEvent[i] /\ CanWriteEvent[j] => i = j

(* The encoder begins with the invariant. *)
LEMMA InitEstablishes == Init => IInv /\ OneEvent
<1> SUFFICES ASSUME Init
             PROVE  IInv /\ OneEvent
  OBVIOUS
<1>1. 0 \in Threads /\ 0 \in 0..NumInput /\ 0 \in 0..MaxCalls
  BY BZip2EncoderAssumption DEF Threads
<1>2. Typed
  BY <1>1 DEF Init, Typed, Fields, ThreadInfo, MainFields, NoEvent
<1>3. Phases /\ ~Running
  BY DEF Init, Phases, Running, NoEvent
<1>4. Section /\ InOrder /\ OneEvent
  BY DEF Init, Section, InOrder, OneEvent, NoEvent
<1> QED
  BY <1>2, <1>3, <1>4 DEF IInv

(* Every step keeps it: one lemma per action, above. *)
LEMMA NextPreserves == IInv /\ [Next]_vars => IInv'
<1> SUFFICES ASSUME IInv, [Next]_vars
             PROVE  IInv'
  OBVIOUS
<1>1. ASSUME NEW t \in Threads, Thread(t)
      PROVE  IInv'
  BY <1>1, WakeKeeps, EnterKeeps, ReadKeeps, WaitTurnKeeps, WriteKeeps, PassTurnKeeps,
     FinishStreamKeeps, StartWaitingKeeps DEF Thread
<1>2. CASE InCall
  BY <1>2, CreateKeeps, StartKeeps, WaitFinishedKeeps, CloseProcessKeeps,
     OpenWaitingKeeps, WaitStartedKeeps, ReturnKeeps, JoinedKeeps DEF InCall
<1>3. CASE CallCode \/ Destroy
  BY <1>3, CallCodeKeeps, DestroyKeeps
<1>4. CASE UNCHANGED vars
  <2>1. Typed' /\ Section' /\ InOrder' /\ (Running' <=> Running)
    BY <1>4 DEF vars, events, streams, IInv, Typed, Section, InOrder, Running
  <2>2. Phases'
    BY <1>4 DEF vars, events, streams, IInv, Phases
  <2>3. ASSUME Running
        PROVE  OneTurn' /\ Blocks' /\ Turn' /\ Outcome'
    BY <1>4, <2>1, <2>3, FlowKept DEF vars, events, streams, IInv, Lost, Outcome
  <2> QED
    BY <2>1, <2>2, <2>3 DEF IInv
<1> QED
  BY <1>1, <1>2, <1>3, <1>4 DEF Next, Stopped

(* What a step of a thread does not touch. *)
LEMMA ThreadFrame ==
    ASSUME NEW t \in Threads, Thread(t)
    PROVE  /\ main' = main
           /\ CanWriteEvent' = CanWriteEvent \/ th[t].pc \in {"turn", "pass"}
<1>1. CASE Wake(t) \/ Enter(t)
  BY <1>1 DEF Wake, Enter, events
<1>2. CASE Read(t)
  BY <1>2 DEF Read, events
<1>3. CASE WaitTurn(t) \/ PassTurn(t)
  BY <1>3 DEF WaitTurn, PassTurn
<1>4. CASE Write(t)
  BY <1>4 DEF Write, events
<1>5. CASE FinishStream(t) \/ StartWaiting(t)
  BY <1>5 DEF FinishStream, StartWaiting
<1> QED
  BY <1>1, <1>2, <1>3, <1>4, <1>5 DEF Thread

(* What a step of the caller leaves of the turns and of the result. *)
LEMMA CallerFrame ==
    ASSUME Typed, InCall \/ CallCode \/ Destroy
    PROVE  /\ CanWriteEvent' = CanWriteEvent \/ Running'
           /\ main'.pc \in {"idle", "dead"} \/ main'.res = main.res \/ main'.res = "ok"
<1>1. main \in MainFields
  BY DEF Typed
<1>2. CASE Create
  <2>1. PICK p \in {"start", "free"} : main' = [main EXCEPT !.pc = p]
    BY <1>2 DEF Create
  <2>2. main'.res = main.res
    BY <1>1, <2>1 DEF MainFields
  <2> QED
    BY <1>2, <2>2 DEF Create, events
<1>3. CASE Start
  <2>1. CASE main' = [main EXCEPT !.pc = "finished", !.t = 0]
    <3>1. main'.pc = "finished" /\ main'.res = main.res
      BY <1>1, <2>1 DEF MainFields
    <3> QED
      BY <3>1 DEF Running
  <2>2. CASE main' = [main EXCEPT !.pc = "idle", !.res = "memory"] /\ UNCHANGED events
    <3>1. main'.pc = "idle"
      BY <1>1, <2>2 DEF MainFields
    <3> QED
      BY <2>2, <3>1 DEF events
  <2> QED
    BY <1>3, <2>1, <2>2 DEF Start
<1>4. CASE WaitFinished \/ WaitStarted
  <2>1. CanWriteEvent' = CanWriteEvent
    BY <1>4 DEF WaitFinished, WaitStarted
  <2>2. main'.res = main.res
    BY <1>1, <1>4 DEF WaitFinished, WaitStarted, Round, MainFields
  <2> QED
    BY <2>1, <2>2
<1>5. CASE CloseProcess \/ OpenWaiting \/ Destroy
  <2>1. UNCHANGED events /\ main'.res = main.res
    BY <1>1, <1>5 DEF CloseProcess, OpenWaiting, Destroy, MainFields
  <2> QED
    BY <2>1 DEF events
<1>6. CASE Return
  <2>1. UNCHANGED events /\ \E res : main' = [main EXCEPT !.pc = "idle", !.res = res]
    BY <1>6 DEF Return
  <2>2. main'.pc = "idle"
    BY <1>1, <2>1 DEF MainFields
  <2> QED
    BY <2>1, <2>2 DEF events
<1>7. CASE Joined
  <2>1. UNCHANGED events /\ \E res : main' = [main EXCEPT !.pc = "dead", !.res = res]
    BY <1>7 DEF Joined
  <2>2. main'.pc = "dead"
    BY <1>1, <2>1 DEF MainFields
  <2> QED
    BY <2>1, <2>2 DEF events
<1>8. CASE CallCode
  <2>1. UNCHANGED events /\ \E p : main' = [main EXCEPT !.pc = p, !.calls = @ + 1, !.res = "ok"]
    BY <1>8 DEF CallCode
  <2>2. main'.res = "ok"
    BY <1>1, <2>1 DEF MainFields
  <2> QED
    BY <2>1, <2>2 DEF events
<1> QED
  BY <1>2, <1>3, <1>4, <1>5, <1>6, <1>7, <1>8 DEF InCall

(* Only threads at work and Start change the events of the turns. *)
LEMMA NextKeepsOneEvent ==
    ASSUME IInv, IInv', OneEvent, [Next]_vars
    PROVE  OneEvent'
<1>1. CASE Running'
  BY <1>1 DEF IInv, OneTurn, OneEvent
<1>2. CASE ~Running'
  <2>1. ASSUME NEW t \in Threads, Thread(t)
        PROVE  CanWriteEvent' = CanWriteEvent
    <3>1. main' = main
      BY <2>1, ThreadFrame
    <3>2. th[t].pc \notin {"turn", "pass"}
      BY <1>2, <3>1, AtWork DEF IInv, Running
    <3> QED
      BY <2>1, <3>2, ThreadFrame
  <2>2. InCall \/ CallCode \/ Destroy => CanWriteEvent' = CanWriteEvent
    BY <1>2, CallerFrame DEF IInv
  <2>3. UNCHANGED vars => CanWriteEvent' = CanWriteEvent
    BY DEF vars, events
  <2>4. CanWriteEvent' = CanWriteEvent
    BY <2>1, <2>2, <2>3 DEF Next, Stopped
  <2> QED
    BY <2>4 DEF OneEvent
<1> QED
  BY <1>1, <1>2

(* The invariant holds in all states. *)
LEMMA InvariantHolds == Spec => [](IInv /\ OneEvent)
<1>1. IInv /\ OneEvent /\ [Next]_vars => (IInv /\ OneEvent)'
  BY NextPreserves, NextKeepsOneEvent
<1> QED
  BY <1>1, InitEstablishes, PTL DEF Spec

(* The invariant is enough for TurnsOK. *)
LEMMA ImpliesTurnsOK == IInv /\ OneEvent => TurnsOK
<1> SUFFICES ASSUME IInv, OneEvent
             PROVE  TurnsOK
  OBVIOUS
<1>1. Typed /\ Phases /\ Section
  BY DEF IInv
<1>2. TypeOK
  BY <1>1 DEF Typed, TypeOK, Fields, ThreadInfo, MainFields
<1>3. CASE Running
  <2>1. OneTurn /\ PlacesDiffer
    BY <1>1, <1>3, BlocksHavePlaces DEF IInv
  <2>2. CallsSeparate
    BY <1>3 DEF Running, CallsSeparate
  <2> QED
    BY <1>2, <2>1, <2>2 DEF TurnsOK
<1>4. CASE ~Running
  <2>1. \A t \in Threads : th[t].pc \in {"none", "process", "enter", "dead"}
    BY <1>1, <1>4 DEF Phases, Running, Typed, MainFields
  <2>2. OneTurn /\ PlacesDiffer
    BY <2>1 DEF OneTurn, OneEvent, HasTurn, PlacesDiffer
  <2>3. CS = None
    BY <1>1, <2>1 DEF Section, Typed
  <2>4. CallsSeparate
    BY <1>1, <2>3 DEF Phases, CallsSeparate
  <2> QED
    BY <1>2, <2>2, <2>4 DEF TurnsOK
<1> QED
  BY <1>3, <1>4

(* The turn of CodeReal's threads: one thread at a time uses the output    *)
(* stream and the combined CRC, blocks under way never share an event, and *)
(* the fields that a call resets are used by nobody then.                  *)
THEOREM TurnsAreSafe == Spec => []TurnsOK
BY InvariantHolds, ImpliesTurnsOK, PTL

(* While a call is being executed it has no result. *)
NoResult == main.pc \notin {"idle", "join", "dead"} => main.res = "ok"

(* A result is given by the step that ends the call. *)
LEMMA NextKeepsNoResult ==
    ASSUME IInv, NoResult, [Next]_vars
    PROVE  NoResult'
<1>1. ASSUME NEW t \in Threads, Thread(t)
      PROVE  NoResult'
  BY <1>1, ThreadFrame DEF NoResult
<1>2. CASE InCall \/ CallCode \/ Destroy
  <2>1. CASE main.pc \notin {"idle", "join", "dead"}
    BY <1>2, <2>1, CallerFrame DEF NoResult, IInv
  <2>2. CASE main.pc \in {"idle", "join", "dead"}
    <3>1. CASE CallCode
      <4>1. PICK p \in {"start", "create"} :
               main' = [main EXCEPT !.pc = p, !.calls = @ + 1, !.res = "ok"]
        BY <3>1 DEF CallCode
      <4>2. main'.res = "ok"
        BY <4>1 DEF IInv, Typed, MainFields
      <4> QED
        BY <4>2 DEF NoResult
    <3>2. CASE Destroy
      BY <3>2 DEF Destroy, IInv, Typed, MainFields, NoResult
    <3>3. CASE InCall
      <4>1. Joined /\ main.pc = "join"
        BY <2>2, <3>3 DEF InCall, Create, Start, WaitFinished, CloseProcess, OpenWaiting,
           WaitStarted, Return, Joined
      <4>2. main' = [main EXCEPT !.pc = "dead", !.res = main.res]
        BY <4>1 DEF Joined
      <4>3. main'.pc = "dead"
        BY <4>2 DEF IInv, Typed, MainFields
      <4> QED
        BY <4>3 DEF NoResult
    <3> QED
      BY <1>2, <3>1, <3>2, <3>3
  <2> QED
    BY <2>1, <2>2
<1>3. CASE UNCHANGED vars
  BY <1>3 DEF vars, NoResult
<1> QED
  BY <1>1, <1>2, <1>3 DEF Next, Stopped

(* Each step is a step of the job or none. *)
LEMMA ThreadStepsJob ==
    ASSUME IInv, NEW t \in Threads, Thread(t)
    PROVE  [Job!Next]_(Job!jobVars)
<1>1. /\ main' = main /\ Len(written) \in Nat /\ Typed /\ Phases
  BY ThreadFrame DEF IInv, Typed
<1>2. CASE written' = written /\ hit' = hit
  BY <1>1, <1>2 DEF Job!jobVars
<1>3. CASE written' = written /\ hit' # hit
  <2>1. hit' # {} /\ th[t].pc \in {"read", "write", "pass"}
    BY <1>3 DEF Thread, Wake, Enter, Read, WaitTurn, Write, PassTurn, FinishStream,
       StartWaiting, streams
  <2>2. main.pc = "finished"
    BY <1>1, <2>1, AtWork
  <2> QED
    BY <1>1, <1>3, <2>1, <2>2 DEF Job!Next, Job!Fail
<1>4. CASE written' # written
  <2>1. /\ th[t].pc = "write" /\ written' = Append(written, th[t].block) /\ hit' = hit
        /\ HasTurn(t) /\ UnderWay(t)
    BY <1>4 DEF Thread, Wake, Enter, Read, WaitTurn, Write, PassTurn, FinishStream,
       StartWaiting, streams, HasTurn, UnderWay
  <2>2. main.pc = "finished" /\ Running
    BY <1>1, <2>1, AtWork DEF Running
  <2>3. th[t].block = Len(written) + 1 /\ th[t].block \in Done + 1..numRead /\ Done \in Nat
    BY <2>1, <2>2, TurnIsNext DEF IInv, Blocks, Typed
  <2>4. th[t].block \in 1..NumInput
    BY <1>1, <2>3, BZip2EncoderAssumption DEF Typed
  <2>5. \A i \in 1..Len(written) : written[i] < th[t].block
    BY <1>1, <2>3 DEF IInv, InOrder
  <2>6. Job!Emit(th[t].block)
    BY <1>1, <2>1, <2>2, <2>3, <2>5 DEF Job!Emit
  <2> QED
    BY <2>4, <2>6 DEF Job!Next
<1> QED
  BY <1>2, <1>3, <1>4

(* A return with S_OK finds every block written. *)
LEMMA CallerStepsJob ==
    ASSUME IInv, NoResult, InCall \/ CallCode \/ Destroy
    PROVE  [Job!Next]_(Job!jobVars)
<1>1. Typed /\ Phases /\ main \in MainFields
  BY DEF IInv, Typed
<1>2. CASE Create
  <2>1. PICK p \in {"start", "free"} : main' = [main EXCEPT !.pc = p]
    BY <1>2 DEF Create
  <2>2. main'.pc \in {"start", "free"} /\ main'.res = main.res /\ main.pc = "create"
    BY <1>1, <1>2, <2>1 DEF Create, MainFields
  <2>3. UNCHANGED <<written, hit>>
    BY <1>2 DEF Create, streams
  <2> QED
    BY <2>2, <2>3 DEF Job!jobVars
<1>3. CASE Start
  <2>1. UNCHANGED <<written, hit>> /\ main.pc = "start"
    BY <1>3 DEF Start
  <2>2. CASE main' = [main EXCEPT !.pc = "finished", !.t = 0]
    <3>1. main'.pc = "finished" /\ main'.res = main.res
      BY <1>1, <2>2 DEF MainFields
    <3> QED
      BY <2>1, <3>1 DEF Job!jobVars
  <2>3. CASE main' = [main EXCEPT !.pc = "idle", !.res = "memory"]
    <3>1. main'.pc = "idle" /\ main'.res = "memory"
      BY <1>1, <2>3 DEF MainFields
    <3> QED
      BY <2>1, <3>1 DEF Job!Next, Job!ReturnError
  <2> QED
    BY <1>3, <2>2, <2>3 DEF Start
<1>4. CASE WaitFinished \/ WaitStarted
  <2>1. /\ UNCHANGED <<written, hit>> /\ main.pc \in {"finished", "started"}
        /\ main'.pc \in {"finished", "started", "close", "end"} /\ main'.res = main.res
    BY <1>1, <1>4 DEF WaitFinished, WaitStarted, Round, streams, MainFields
  <2> QED
    BY <2>1 DEF Job!jobVars
<1>5. CASE CloseProcess \/ OpenWaiting
  <2>1. /\ UNCHANGED <<written, hit>> /\ main.pc \in {"close", "open"}
        /\ main'.pc \in {"open", "started"} /\ main'.res = main.res
    BY <1>1, <1>5 DEF CloseProcess, OpenWaiting, streams, MainFields
  <2> QED
    BY <2>1 DEF Job!jobVars
<1>6. CASE Return
  <2>1. UNCHANGED <<written, hit>> /\ main.pc = "end" /\ Running
    BY <1>6 DEF Return, streams, Running
  <2>2. PICK res \in IF enc.Result # "ok" THEN {enc.Result}
                     ELSE {"ok"} \cup {f \in {"write"} : CanFail(f)} :
           main' = [main EXCEPT !.pc = "idle", !.res = res]
    BY <1>6 DEF Return
  <2>3. res \in {"ok", "read", "write", "progress"}
    BY <1>1, <2>2 DEF Typed, Fields
  <2>4. main'.pc = "idle" /\ main'.res = res
    BY <1>1, <2>2, <2>3 DEF MainFields
  <2>5. CASE res # "ok"
    BY <2>1, <2>4, <2>5 DEF Job!Next, Job!ReturnError
  <2>6. CASE res = "ok"
    <3>1. \A t \in Threads : th[t].pc = "process"
      BY <1>1, <2>1 DEF Phases
    <3>2. hit = {} /\ numRead = NumInput
      BY <2>1, <2>2, <2>6, <3>1 DEF IInv, Outcome
    <3>3. Done = Len(written)
      BY <3>1, <3>2 DEF Done, Lost
    <3>4. Done = numRead
      <4>1. \A b \in Done + 1..numRead : FALSE
        BY <2>1, <3>1 DEF IInv, Blocks, UnderWay
      <4>2. Done \in 0..numRead /\ numRead \in Nat
        BY <1>1, <2>1 DEF IInv, Blocks, Typed
      <4> QED
        BY <4>1, <4>2
    <3>5. Job!ReturnOk
      BY <2>1, <2>4, <2>6, <3>2, <3>3, <3>4 DEF NoResult, Job!ReturnOk
    <3> QED
      BY <3>5 DEF Job!Next
  <2> QED
    BY <2>5, <2>6
<1>7. CASE Joined
  <2>1. UNCHANGED <<written, hit>>
    BY <1>7 DEF Joined, streams
  <2>2. CASE main.pc = "free"
    <3>1. main' = [main EXCEPT !.pc = "dead", !.res = "create"]
      BY <1>7, <2>2 DEF Joined
    <3>2. main'.pc = "dead" /\ main'.res = "create"
      BY <1>1, <3>1 DEF MainFields
    <3> QED
      BY <2>1, <2>2, <3>2 DEF Job!Next, Job!ReturnError
  <2>3. CASE main.pc = "join"
    <3>1. main' = [main EXCEPT !.pc = "dead", !.res = main.res]
      BY <1>7, <2>3 DEF Joined
    <3>2. main'.pc = "dead" /\ main'.res = main.res
      BY <1>1, <3>1 DEF MainFields
    <3> QED
      BY <2>1, <2>3, <3>2 DEF Job!jobVars
  <2> QED
    BY <1>7, <2>2, <2>3 DEF Joined
<1>8. CASE CallCode
  <2>1. PICK p \in {"start", "create"} :
           main' = [main EXCEPT !.pc = p, !.calls = @ + 1, !.res = "ok"]
    BY <1>8 DEF CallCode
  <2>2. main.pc = "idle" /\ main'.pc \in {"start", "create"} /\ main'.res = "ok"
    BY <1>1, <1>8, <2>1 DEF CallCode, MainFields
  <2>3. written' = <<>> /\ hit' = {}
    BY <1>8 DEF CallCode
  <2> QED
    BY <2>2, <2>3 DEF Job!Next, Job!Start
<1>9. CASE Destroy
  <2>1. /\ UNCHANGED <<written, hit>> /\ main.pc = "idle"
        /\ main'.pc = "join" /\ main'.res = main.res
    BY <1>1, <1>9 DEF Destroy, streams, MainFields
  <2> QED
    BY <2>1 DEF Job!jobVars
<1> QED
  BY <1>2, <1>3, <1>4, <1>5, <1>6, <1>7, <1>8, <1>9 DEF InCall

(* CEncoder::Code with threads does what one thread would do: it writes    *)
(* the blocks in the order of the input, and a call that returns S_OK has  *)
(* left none out. *)
THEOREM EncodesLikeOneThread == Spec => Job!Spec
<1>1. Init => Job!Init /\ NoResult
  BY DEF Init, Job!Init, NoResult
<1>2. IInv /\ NoResult /\ [Next]_vars => [Job!Next]_(Job!jobVars)
  <2> SUFFICES ASSUME IInv, NoResult, [Next]_vars
               PROVE  [Job!Next]_(Job!jobVars)
    OBVIOUS
  <2>1. CASE UNCHANGED vars
    BY <2>1 DEF vars, streams, Job!jobVars
  <2> QED
    BY <2>1, ThreadStepsJob, CallerStepsJob DEF Next, Stopped
<1>3. IInv /\ NoResult /\ [Next]_vars => NoResult'
  BY NextKeepsNoResult
<1> QED
  BY <1>1, <1>2, <1>3, InvariantHolds, PTL DEF Spec, Job!Spec
=============================================================================
