---------------------------- MODULE BZip2Encoder ----------------------------
(***************************************************************************)
(* The threads of the BZip2 encoder (CPP/7zip/Compress/BZip2Encoder.cpp).  *)
(*                                                                         *)
(* A thread reads a block of the input in the critical section CS, encodes *)
(* it alone, waits for the turn of its block and writes it.  Turns go      *)
(* round a ring of as many events (CanWriteEvent) as there are threads; a  *)
(* block, not a thread, has a place in the ring.  The end of a call is a   *)
(* barrier in two phases, for the threads live on and wait for the next    *)
(* call: all have finished, all have started to wait again.                *)
(*                                                                         *)
(* A block is its number in the input.  MtMode is set: NumThreads > 1.     *)
(***************************************************************************)
EXTENDS Naturals, Sequences, SyncObjects

CONSTANTS
    NumThreads,
    NumInput,    \* blocks of input
    MaxCalls,    \* calls of Code on one object
    Faults       \* what may fail

ASSUME BZip2EncoderAssumption ==
    /\ NumThreads \in Nat /\ NumThreads > 1
    /\ NumInput \in Nat /\ MaxCalls \in Nat
    /\ Faults \subseteq {"create", "memory", "read", "write", "progress"}

Threads == 0..NumThreads - 1
None == NumThreads

VARIABLES
    enc,      \* the fields of CEncoder that all threads see
    CS,       \* who is in the critical section
    th,       \* CThreadInfo: place, result, block and its place in the ring
    StreamWasFinishedEvent, WaitingWasStartedEvent, CanWriteEvent,
    main,     \* the thread that calls Code
    numRead,  \* m_InStream: blocks read
    written,  \* m_OutStream
    hit       \* what has failed in a thread in this call

events == <<StreamWasFinishedEvent, WaitingWasStartedEvent, CanWriteEvent>>
streams == <<numRead, written, hit>>
vars == <<enc, CS, th, events, main, streams>>

NoEvent == [t \in Threads |-> FALSE]

Init ==
    /\ enc = [StreamWasFinished |-> FALSE, CloseThreads |-> FALSE,
              NextBlockIndex |-> 0, Result |-> "ok",
              CanProcessEvent |-> FALSE, CanStartWaitingEvent |-> FALSE]
    /\ CS = None
    /\ th = [t \in Threads |-> [pc |-> "none", m_BlockIndex |-> 0, block |-> 0,
                                res |-> "ok"]]
    /\ StreamWasFinishedEvent = NoEvent /\ WaitingWasStartedEvent = NoEvent
    /\ CanWriteEvent = NoEvent
    /\ main = [pc |-> "idle", t |-> 0, calls |-> 0, res |-> "ok"]
    /\ numRead = 0 /\ written = <<>> /\ hit = {}

CanFail(fault) == fault \in Faults \ hit

-----------------------------------------------------------------------------
(* CThreadInfo::ThreadFunc                                                 *)

(* CanProcessEvent.Lock(). *)
Wake(t) ==
    /\ th[t].pc = "process"
    /\ Event_CanWait(enc.CanProcessEvent)
    /\ th' = [th EXCEPT ![t].pc = "enter"]
    /\ enc' = [enc EXCEPT !.CanProcessEvent = Event_Wait(TRUE, @)]
    /\ UNCHANGED <<CS, events, main, streams>>

(* Into the critical section, and what is asked for there. *)
Enter(t) ==
    /\ th[t].pc = "enter"
    /\ CS = None
    /\ \/ /\ enc.CloseThreads
          /\ th' = [th EXCEPT ![t].pc = "dead"]
          /\ UNCHANGED CS
       \/ /\ ~enc.CloseThreads
          /\ th' = [th EXCEPT ![t].pc = IF enc.StreamWasFinished THEN "finish"
                                        ELSE "read",
                              ![t].res = "ok"]
          /\ CS' = t
    /\ UNCHANGED <<enc, events, main, streams>>

(* The ring of turns. *)
NextIndex(i) == (i + 1) % NumThreads

(* A block and its place in the ring; at the end of the input there is     *)
(* only a place, and after an error not even that.                         *)
Read(t) ==
    /\ th[t].pc = "read"
    /\ \/ /\ numRead < NumInput
          /\ numRead' = numRead + 1
          /\ th' = [th EXCEPT ![t].pc = "turn", ![t].block = numRead + 1,
                              ![t].m_BlockIndex = enc.NextBlockIndex]
          /\ enc' = [enc EXCEPT !.NextBlockIndex = NextIndex(@)]
          /\ CS' = None
          /\ UNCHANGED hit
       \/ /\ numRead = NumInput
          /\ th' = [th EXCEPT ![t].pc = "finish",
                              ![t].m_BlockIndex = enc.NextBlockIndex]
          /\ enc' = [enc EXCEPT !.NextBlockIndex = NextIndex(@)]
          /\ UNCHANGED <<CS, numRead, hit>>
       \/ /\ CanFail("read") /\ hit' = hit \cup {"read"}
          /\ th' = [th EXCEPT ![t].pc = "finish", ![t].res = "read"]
          /\ UNCHANGED <<enc, CS, numRead>>
    /\ UNCHANGED <<events, main, written>>

(* Faulty: an event belongs to a thread, and not to a place in the ring.   *)
TurnOf_Own(t) == t
TurnOf(t) == th[t].m_BlockIndex

(* EncodeBlock3, when the block has been encoded: its turn has come. *)
WaitTurn(t) ==
    /\ th[t].pc = "turn"
    /\ Event_CanWait(CanWriteEvent[TurnOf(t)])
    /\ CanWriteEvent' = [CanWriteEvent EXCEPT ![TurnOf(t)] = Event_Wait(FALSE, @)]
    /\ th' = [th EXCEPT ![t].pc = "write"]
    /\ UNCHANGED <<enc, CS, StreamWasFinishedEvent, WaitingWasStartedEvent, main,
                   streams>>

(* CombinedCrc and WriteBytes.  A full buffer is flushed, and an error of  *)
(* the stream below is thrown out of EncodeBlock3, past the next turn.     *)
Write(t) ==
    /\ th[t].pc = "write"
    /\ \/ /\ written' = Append(written, th[t].block)
          /\ th' = [th EXCEPT ![t].pc = "pass"]
          /\ UNCHANGED hit
       \/ /\ CanFail("write") /\ hit' = hit \cup {"write"}
          /\ th' = [th EXCEPT ![t].pc = "finish", ![t].res = "write"]
          /\ UNCHANGED written
    /\ UNCHANGED <<enc, CS, events, main, numRead>>

(* Faulty: a cancelled encoder keeps the turn.                             *)
PassOn_WhenOk(t, res) ==
    IF res = "ok" THEN [CanWriteEvent EXCEPT ![NextIndex(TurnOf(t))] = Event_Set(@)]
    ELSE CanWriteEvent
PassOn(t, res) == [CanWriteEvent EXCEPT ![NextIndex(TurnOf(t))] = Event_Set(@)]

(* Progress->SetRatioInfo, and the turn of the next block, also when the   *)
(* callback cancels.                                                       *)
PassTurn(t) ==
    /\ th[t].pc = "pass"
    /\ \E res \in {"ok"} \cup {f \in {"progress"} : CanFail(f)} :
          /\ hit' = hit \cup ({res} \ {"ok"})
          /\ CanWriteEvent' = PassOn(t, res)
          /\ th' = [th EXCEPT ![t].pc = IF res = "ok" THEN "process" ELSE "finish",
                              ![t].res = res]
    /\ UNCHANGED <<enc, CS, StreamWasFinishedEvent, WaitingWasStartedEvent, main,
                   numRead, written>>

(* FinishStream up to its wait; needLeave where the section is still held. *)
FinishStream(t) ==
    /\ th[t].pc = "finish"
    /\ enc' = [enc EXCEPT !.StreamWasFinished = TRUE,
                          !.Result = IF th[t].res = "ok" THEN @ ELSE th[t].res]
    /\ StreamWasFinishedEvent' = [StreamWasFinishedEvent EXCEPT ![t] = Event_Set(@)]
    /\ CS' = IF CS = t THEN None ELSE CS
    /\ th' = [th EXCEPT ![t].pc = "startWait"]
    /\ UNCHANGED <<WaitingWasStartedEvent, CanWriteEvent, main, streams>>

(* The second phase: CanStartWaitingEvent.Lock(). *)
StartWaiting(t) ==
    /\ th[t].pc = "startWait"
    /\ Event_CanWait(enc.CanStartWaitingEvent)
    /\ enc' = [enc EXCEPT !.CanStartWaitingEvent = Event_Wait(TRUE, @)]
    /\ WaitingWasStartedEvent' = [WaitingWasStartedEvent EXCEPT ![t] = Event_Set(@)]
    /\ th' = [th EXCEPT ![t].pc = "process"]
    /\ UNCHANGED <<CS, StreamWasFinishedEvent, CanWriteEvent, main, streams>>

Thread(t) == Wake(t) \/ Enter(t) \/ Read(t) \/ WaitTurn(t) \/ Write(t)
             \/ PassTurn(t) \/ FinishStream(t) \/ StartWaiting(t)

-----------------------------------------------------------------------------
(* CEncoder::CodeReal                                                      *)

HasThreads == th[0].pc # "none"

CallCode ==
    /\ main.pc = "idle" /\ main.calls < MaxCalls
    /\ main' = [main EXCEPT !.pc = IF HasThreads THEN "start" ELSE "create",
                            !.calls = @ + 1, !.res = "ok"]
    /\ written' = <<>> /\ hit' = {}
    /\ UNCHANGED <<enc, CS, th, events, numRead>>

(* Create: all threads, or some of them and then Free closes those.        *)
Create ==
    /\ main.pc = "create"
    /\ \E n \in 0..NumThreads :
          /\ n = NumThreads \/ CanFail("create")
          /\ th' = [t \in Threads |->
                      IF t < n THEN [th[t] EXCEPT !.pc = "process"] ELSE th[t]]
          /\ IF n = NumThreads
             THEN main' = [main EXCEPT !.pc = "start"] /\ UNCHANGED enc
             ELSE /\ main' = [main EXCEPT !.pc = "free"]
                  /\ enc' = [enc EXCEPT !.CloseThreads = TRUE,
                                        !.CanProcessEvent = Event_Set(@)]
    /\ UNCHANGED <<CS, events, streams>>

(* Faulty: a turn that the last call has left over is still there.         *)
FirstTurn_Kept == [CanWriteEvent EXCEPT ![0] = Event_Set(@)]
FirstTurn == [t \in Threads |-> t = 0]

(* The fields and events of a call; threads wait for CanProcessEvent.      *)
Start ==
    /\ main.pc = "start"
    /\ \/ /\ numRead' = 0
          /\ StreamWasFinishedEvent' = NoEvent /\ WaitingWasStartedEvent' = NoEvent
          /\ CanWriteEvent' = FirstTurn
          /\ enc' = [enc EXCEPT !.NextBlockIndex = 0, !.StreamWasFinished = FALSE,
                       !.CloseThreads = FALSE, !.Result = "ok",
                       !.CanStartWaitingEvent = Event_Reset(@),
                       !.CanProcessEvent = Event_Set(@)]
          /\ main' = [main EXCEPT !.pc = "finished", !.t = 0]
       \/ /\ CanFail("memory")
          /\ main' = [main EXCEPT !.pc = "idle", !.res = "memory"]
          /\ UNCHANGED <<enc, events, numRead>>
    /\ UNCHANGED <<CS, th, written, hit>>

(* One round over the threads, then on to the next place. *)
Round(next) == main' = IF main.t = NumThreads - 1
                       THEN [main EXCEPT !.t = 0, !.pc = next]
                       ELSE [main EXCEPT !.t = @ + 1]

WaitFinished ==
    /\ main.pc = "finished"
    /\ Event_CanWait(StreamWasFinishedEvent[main.t])
    /\ StreamWasFinishedEvent' =
          [StreamWasFinishedEvent EXCEPT ![main.t] = Event_Wait(FALSE, @)]
    /\ Round("close")
    /\ UNCHANGED <<enc, CS, th, WaitingWasStartedEvent, CanWriteEvent, streams>>

(* Nobody may begin again ... *)
CloseProcess ==
    /\ main.pc = "close"
    /\ enc' = [enc EXCEPT !.CanProcessEvent = Event_Reset(@)]
    /\ main' = [main EXCEPT !.pc = "open"]
    /\ UNCHANGED <<CS, th, events, streams>>

(* ... before all may go back to their wait. *)
OpenWaiting ==
    /\ main.pc = "open"
    /\ enc' = [enc EXCEPT !.CanStartWaitingEvent = Event_Set(@)]
    /\ main' = [main EXCEPT !.pc = "started"]
    /\ UNCHANGED <<CS, th, events, streams>>

WaitStarted ==
    /\ main.pc = "started"
    /\ Event_CanWait(WaitingWasStartedEvent[main.t])
    /\ WaitingWasStartedEvent' =
          [WaitingWasStartedEvent EXCEPT ![main.t] = Event_Wait(FALSE, @)]
    /\ Round("end")
    /\ UNCHANGED <<enc, CS, th, StreamWasFinishedEvent, CanWriteEvent, streams>>

(* The result of the threads, or the trailer and Flush. *)
Return ==
    /\ main.pc = "end"
    /\ enc' = [enc EXCEPT !.CanStartWaitingEvent = Event_Reset(@)]
    /\ \E res \in IF enc.Result # "ok" THEN {enc.Result}
                  ELSE {"ok"} \cup {f \in {"write"} : CanFail(f)} :
          main' = [main EXCEPT !.pc = "idle", !.res = res]
    /\ UNCHANGED <<CS, th, events, streams>>

(* ~CEncoder: Free. *)
Destroy ==
    /\ main.pc = "idle"
    /\ main' = [main EXCEPT !.pc = "join"]
    /\ enc' = [enc EXCEPT !.CloseThreads = TRUE, !.CanProcessEvent = Event_Set(@)]
    /\ UNCHANGED <<CS, th, events, streams>>

(* Thread.Wait_Close() for each thread.  After a failed Create the object  *)
(* is not used again but for its destruction.                              *)
Joined ==
    /\ main.pc \in {"free", "join"}
    /\ \A t \in Threads : th[t].pc \in {"none", "dead"}
    /\ main' = [main EXCEPT !.pc = "dead",
                            !.res = IF main.pc = "free" THEN "create" ELSE @]
    /\ UNCHANGED <<enc, CS, th, events, streams>>

InCall == Create \/ Start \/ WaitFinished \/ CloseProcess \/ OpenWaiting
          \/ WaitStarted \/ Return \/ Joined

(* A thread that fails to write does not pass its turn on: whoever waits   *)
(* for a later one waits for ever, and so does the caller.                 *)
TurnLost == "write" \in hit /\ \E t \in Threads : th[t].pc = "turn"

Stopped == (main.pc = "dead" \/ TurnLost) /\ UNCHANGED vars

Next == (\E t \in Threads : Thread(t)) \/ InCall \/ CallCode \/ Destroy \/ Stopped

Spec == Init /\ [][Next]_vars

(* Threads run, and so does the caller inside a call. *)
FairSpec == Spec /\ (\A t \in Threads : WF_vars(Thread(t))) /\ WF_vars(InCall)

-----------------------------------------------------------------------------
TypeOK ==
    /\ enc \in [StreamWasFinished : BOOLEAN, CloseThreads : BOOLEAN,
                NextBlockIndex : Threads,
                Result : {"ok", "read", "write", "progress"},
                CanProcessEvent : BOOLEAN, CanStartWaitingEvent : BOOLEAN]
    /\ CS \in Threads \cup {None}
    /\ th \in [Threads ->
                 [pc : {"none", "process", "enter", "read", "turn", "write", "pass",
                        "finish", "startWait", "dead"},
                  m_BlockIndex : Threads, block : 0..NumInput,
                  res : {"ok", "read", "write", "progress"}]]
    /\ {StreamWasFinishedEvent, WaitingWasStartedEvent, CanWriteEvent}
          \subseteq [Threads -> BOOLEAN]
    /\ main.pc \in {"idle", "create", "start", "finished", "close", "open",
                    "started", "end", "free", "join", "dead"}
    /\ main.t \in Threads /\ main.calls \in 0..MaxCalls
    /\ numRead \in 0..NumInput
    /\ hit \subseteq Faults

HasTurn(t) == th[t].pc \in {"write", "pass"}

(* At most one turn exists, in an event or in a thread's hands. *)
OneTurn ==
    /\ \A i, j \in Threads : CanWriteEvent[i] /\ CanWriteEvent[j] => i = j
    /\ \A t, u \in Threads : HasTurn(t) /\ HasTurn(u) => t = u
    /\ \A i, t \in Threads : ~(CanWriteEvent[i] /\ HasTurn(t))

(* Blocks under way have places of their own in the ring. *)
PlacesDiffer ==
    \A t, u \in Threads :
        /\ t # u
        /\ {th[t].pc, th[u].pc} \subseteq {"turn", "write", "pass"}
        => th[t].m_BlockIndex # th[u].m_BlockIndex

(* Between two calls all threads are asleep and no signal is left.         *)
CallsSeparate ==
    main.pc \in {"idle", "start"} =>
        /\ \A t \in Threads : /\ th[t].pc \in {"none", "process"}
                              /\ ~StreamWasFinishedEvent[t]
                              /\ ~WaitingWasStartedEvent[t]
        /\ ~enc.CanProcessEvent /\ ~enc.CanStartWaitingEvent /\ CS = None

(* CombinedCrc and the output stream have no lock: whoever has the turn    *)
(* has them alone, also in the second call, which resets all events and    *)
(* fields without a lock because nobody of the first is under way.         *)
TurnsOK == TypeOK /\ OneTurn /\ PlacesDiffer /\ CallsSeparate

Job == INSTANCE EncodeJob WITH
           busy   <- main.pc \notin {"idle", "join", "dead"},
           failed <- hit # {},
           result <- main.res

(* Every call and the destructor return, unless a write failed while       *)
(* another thread had a block for a later turn. *)
CodeReturns == []<>(main.pc \in {"idle", "dead"} \/ TurnLost)

(* The encoder is like one that writes block after block: in the order of  *)
(* the input, none left out in a call that returns S_OK, and it returns.   *)
ImplementsJob == Job!Spec /\ CodeReturns
=============================================================================
