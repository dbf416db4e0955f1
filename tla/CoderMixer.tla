----------------------------- MODULE CoderMixer -----------------------------
(***************************************************************************)
(* The multithreaded coder mixer: CMixerMT of Archive/Common/CoderMixer2,  *)
(* with the thread of each coder (CVirtThread of Common/VirtThread).       *)
(*                                                                         *)
(* The coders of a folder are joined by bonds.  One coder, the main one,   *)
(* runs in the thread of the caller of Code, each other coder in a thread  *)
(* of its own, which stays between the calls.  The bonds are CStreamBinder *)
(* objects; here each of them is the BytePipe that module StreamBinder     *)
(* implements, and its state has the names of BytePipe.                    *)
(*                                                                         *)
(* What a coder does with its streams is up to the coder: it reads, writes *)
(* and ends when it likes, with S_OK, with a fault of its own that it      *)
(* returns or with an exception, but gives up when a Write was cut.        *)
(***************************************************************************)
EXTENDS Integers, SyncObjects

CONSTANTS
    NumCoders,
    BindInfos,    \* [bonds: pairs <<reader, writer>> of coders, main: a coder]
    StreamLen,    \* bytes that a coder writes to one bond at most
    MaxWrite,     \* the most that one Write offers
    MaxRead,      \* the most that one Read asks for
    MaxCalls,     \* calls of Code
    Faults        \* [coder -> what can go wrong]: its thread cannot be
                  \* created, it returns "abort" to "fail" (E_FAIL), it throws

Coders == 0..NumCoders - 1

(* CBindInfo with CalcMapsAndCheck passed: the bonds make a tree. *)
ASSUME CoderMixerAssumption ==
    /\ {NumCoders, StreamLen, MaxWrite, MaxRead, MaxCalls} \subseteq Nat \ {0}
    /\ \A bi \in BindInfos : /\ bi.main \in Coders
                             /\ bi.bonds \subseteq Coders \X Coders
                             /\ \A b \in bi.bonds : b[1] # b[2]
    /\ Faults \in [Coders -> SUBSET {"create", "abort", "memory", "other",
                                      "data", "fail", "throw"}]

AllBonds == UNION {bi.bonds : bi \in BindInfos}

VARIABLES
    bindInfo,
    created, StartEvent, FinishedEvent, Exit,   \* CVirtThread of each coder
    place,      \* where the thread of each coder is
    bond,       \* the bond it reads or writes
    Result,     \* CCoderMT::Result; the constructor does not set it
    fault,      \* what went wrong in the coder itself in this call, and not
                \* through another coder
    pipe,
    mixer,      \* where the caller of the mixer is
    mi,         \* i, its loop variable
    ret,        \* what Code returned
    calls

threadVars == <<created, StartEvent, FinishedEvent, Exit>>
callVars == <<mixer, mi, ret, calls>>
vars == <<bindInfo, threadVars, place, bond, Result, fault, pipe, callVars>>

Bonds == bindInfo.bonds
Main == bindInfo.main
Reader(b) == b[1]
Writer(b) == b[2]
NoBond == <<0, 0>>

FreshPipe == [taken |-> 0, acked |-> 0, asked |-> 0, cut |-> FALSE,
              eof |-> FALSE, rOpen |-> TRUE, wOpen |-> TRUE]

(* A mixer whose first call of Code has connected the streams. *)
Init ==
    /\ bindInfo \in BindInfos
    /\ created = [c \in Coders |-> FALSE]
    /\ StartEvent = [c \in Coders |-> FALSE]
    /\ FinishedEvent = [c \in Coders |-> FALSE]
    /\ Exit = [c \in Coders |-> FALSE]
    /\ place = [c \in Coders |-> "none"]
    /\ bond = [c \in Coders |-> NoBond]
    /\ Result = [c \in Coders |-> "unset"]
    /\ fault = [c \in Coders |-> "none"]
    /\ pipe = [b \in AllBonds |-> FreshPipe]
    /\ mixer = "create" /\ mi = 0 /\ ret = "none" /\ calls = 1

-----------------------------------------------------------------------------
(* A coder at work: Coder->Code in CCoderMT::Code.                         *)

Goto(c, where) == place' = [place EXCEPT ![c] = where]

HeardEof(c) == \E b \in Bonds : Reader(b) = c /\ pipe[b].eof
HeardCut(c) == \E b \in Bonds : Writer(b) = c /\ pipe[b].cut

BeginRead(c) ==
    /\ place[c] = "run" /\ ~HeardCut(c)
    /\ \E b \in Bonds : /\ Reader(b) = c /\ ~pipe[b].eof
                        /\ bond' = [bond EXCEPT ![c] = b]
    /\ Goto(c, "read")
    /\ UNCHANGED <<bindInfo, threadVars, Result, fault, pipe, callVars>>

EndRead(c) ==
    /\ place[c] = "read"
    /\ LET p == pipe[bond[c]] IN
        \/ \E count \in 1..MaxRead :
            /\ p.taken + count <= p.acked + p.asked
            /\ pipe' = [pipe EXCEPT ![bond[c]].taken = @ + count]
        \/ /\ ~p.wOpen /\ p.taken = p.acked
           /\ pipe' = [pipe EXCEPT ![bond[c]].eof = TRUE]
    /\ bond' = [bond EXCEPT ![c] = NoBond]
    /\ Goto(c, "run")
    /\ UNCHANGED <<bindInfo, threadVars, Result, fault, callVars>>

BeginWrite(c) ==
    /\ place[c] = "run" /\ ~HeardCut(c)
    /\ \E b \in Bonds, size \in 1..MaxWrite :
        /\ Writer(b) = c /\ pipe[b].acked + size <= StreamLen
        /\ bond' = [bond EXCEPT ![c] = b]
        /\ pipe' = [pipe EXCEPT ![b].asked = size]
    /\ Goto(c, "write")
    /\ UNCHANGED <<bindInfo, threadVars, Result, fault, callVars>>

EndWrite(c) ==
    /\ place[c] = "write"
    /\ LET p == pipe[bond[c]] IN
        \/ /\ p.taken > p.acked
           /\ p.taken = p.acked + p.asked \/ ~p.rOpen
           /\ pipe' = [pipe EXCEPT ![bond[c]].acked = p.taken,
                                   ![bond[c]].asked = 0]
        \/ /\ ~p.rOpen /\ p.taken = p.acked
           /\ pipe' = [pipe EXCEPT ![bond[c]].cut = TRUE,
                                   ![bond[c]].asked = 0]
    /\ bond' = [bond EXCEPT ![c] = NoBond]
    /\ Goto(c, "run")
    /\ UNCHANGED <<bindInfo, threadVars, Result, fault, callVars>>

(* The coder returns or throws.  A cut Write ends it with that result; a   *)
(* stream that was too short may be the others' fault.  In a thread of its *)
(* own Execute makes E_FAIL of an exception; that of the main coder leaves *)
(* Code, and Result keeps what it had.                                     *)
EndCode(c) ==
    /\ place[c] = "run"
    /\ \/ /\ \/ HeardCut(c) /\ Result' = [Result EXCEPT ![c] = "cut"]
             \/ ~HeardCut(c) /\ Result' = [Result EXCEPT ![c] = "ok"]
             \/ ~HeardCut(c) /\ HeardEof(c)
                  /\ Result' = [Result EXCEPT ![c] = "data"]
          /\ UNCHANGED fault
       \/ \E f \in Faults[c] \ {"create"} :
          LET own == IF f = "throw" /\ c # Main THEN "fail" ELSE f IN
          /\ ~HeardCut(c)
          /\ Result' = [Result EXCEPT ![c] = IF own = "throw" THEN @ ELSE own]
          /\ fault' = [fault EXCEPT ![c] = own]
    /\ Goto(c, "release")
    /\ UNCHANGED <<bindInfo, threadVars, bond, pipe, callVars>>

(* The ends of bonds that the coder still holds; CCoderMT::Release lets go *)
(* of all InStreams first.                                                 *)
Ins(c) == {b \in Bonds : Reader(b) = c /\ pipe[b].rOpen}
Outs(c) == {b \in Bonds : Writer(b) = c /\ pipe[b].wOpen}

CloseIn(b) == pipe' = [pipe EXCEPT ![b].rOpen = FALSE]
CloseOut(b) == pipe' = [pipe EXCEPT ![b].wOpen = FALSE]

(* Faulty: the ends that others read from are kept open. *)
Held_Ins(c) == Ins(c)
Held(c) == Ins(c) \cup Outs(c)

ReleaseStream(c) ==
    /\ place[c] = "release"
    /\ \/ \E b \in Held(c) \cap Ins(c) : CloseIn(b)
       \/ Ins(c) = {} /\ \E b \in Held(c) \cap Outs(c) : CloseOut(b)
    /\ UNCHANGED <<bindInfo, threadVars, place, bond, Result, fault, callVars>>

Work(c) == BeginRead(c) \/ EndRead(c) \/ BeginWrite(c) \/ EndWrite(c)
           \/ EndCode(c) \/ ReleaseStream(c)

-----------------------------------------------------------------------------
(* The loop of CoderThread.                                                *)

WaitStart(c) ==
    /\ place[c] = "start"
    /\ Event_CanWait(StartEvent[c])
    /\ StartEvent' = [StartEvent EXCEPT ![c] = Event_Wait(FALSE, @)]
    /\ Goto(c, "check")
    /\ UNCHANGED <<bindInfo, created, FinishedEvent, Exit, bond, Result, fault,
                   pipe, callVars>>

CheckExit(c) ==
    /\ place[c] = "check"
    /\ Goto(c, IF Exit[c] THEN "dead" ELSE "run")
    /\ UNCHANGED <<bindInfo, threadVars, bond, Result, fault, pipe, callVars>>

SetFinished(c) ==
    /\ place[c] = "release" /\ c # Main /\ Held(c) = {}
    /\ FinishedEvent' = [FinishedEvent EXCEPT ![c] = Event_Set(@)]
    /\ Goto(c, "start")
    /\ UNCHANGED <<bindInfo, created, StartEvent, Exit, bond, Result, fault,
                   pipe, callVars>>

CoderThread(c) == WaitStart(c) \/ CheckExit(c) \/ SetFinished(c)
                  \/ (c # Main /\ Work(c))

-----------------------------------------------------------------------------
(* CMixerMT::Code, in the thread of the caller.                            *)

(* Faulty: one coder more than there is. *)
ForEach_OneMore(phase, next) ==
    /\ mixer = phase
    /\ IF mi = NumCoders THEN mixer' = next /\ mi' = 0
                         ELSE mi' = mi + 1 /\ UNCHANGED mixer

(* A step for coder mi of the loop called phase, and on to the next coder. *)
ForEach(phase, next) ==
    /\ mixer = phase
    /\ IF mi = NumCoders - 1 THEN mixer' = next /\ mi' = 0
                             ELSE mi' = mi + 1 /\ UNCHANGED mixer

(* CVirtThread::Create; it resets the events. *)
MixCreate ==
    /\ mixer = "create"
    /\ IF mi = Main THEN UNCHANGED <<StartEvent, FinishedEvent, Exit>>
       ELSE /\ StartEvent' = [StartEvent EXCEPT ![mi] = Event_Reset(@)]
            /\ FinishedEvent' = [FinishedEvent EXCEPT ![mi] = Event_Reset(@)]
            /\ Exit' = [Exit EXCEPT ![mi] = FALSE]
    /\ \/ /\ ForEach("create", "start")
          /\ created' = [created EXCEPT ![mi] = mi # Main]
          /\ place' = [place EXCEPT ![mi] = IF mi # Main /\ ~created[mi]
                                            THEN "start" ELSE @]
       \/ /\ "create" \in Faults[mi] /\ mi # Main /\ ~created[mi]
          /\ mixer' = "failed"
          /\ UNCHANGED <<mi, created, place>>
    /\ UNCHANGED <<bindInfo, bond, Result, fault, pipe, ret, calls>>

MixStart ==
    /\ ForEach("start", "main")
    /\ IF mi = Main THEN UNCHANGED <<StartEvent, Exit>>
       ELSE /\ Exit' = [Exit EXCEPT ![mi] = FALSE]
            /\ StartEvent' = [StartEvent EXCEPT ![mi] = Event_Set(@)]
    /\ UNCHANGED <<bindInfo, created, FinishedEvent, place, bond, Result, fault,
                   pipe, ret, calls>>

MixMain ==
    /\ mixer = "main" /\ place[Main] = "none"
    /\ Goto(Main, "run")
    /\ UNCHANGED <<bindInfo, threadVars, bond, Result, fault, pipe, callVars>>

(* The main coder is done; its exception goes to the caller. *)
MixMainDone ==
    /\ place[Main] = "release" /\ Held(Main) = {}
    /\ Goto(Main, "none")
    /\ mixer' = IF fault[Main] = "throw" THEN "failed" ELSE "wait"
    /\ UNCHANGED <<bindInfo, threadVars, bond, Result, fault, pipe, mi, ret, calls>>

(* Faulty: the last coder is not waited for. *)
Waited_NotLast(c) == c # Main /\ c # NumCoders - 1
Waited(c) == c # Main

MixWait ==
    /\ ForEach("wait", "result")
    /\ IF Waited(mi)
         THEN /\ Event_CanWait(FinishedEvent[mi])
              /\ FinishedEvent' = [FinishedEvent EXCEPT ![mi] = Event_Wait(FALSE, @)]
         ELSE UNCHANGED FinishedEvent
    /\ UNCHANGED <<bindInfo, created, StartEvent, Exit, place, bond, Result,
                   fault, pipe, ret, calls>>

(* The result of the first coder with one of these, or "ok". *)
FirstOf(results) ==
    LET found == {c \in Coders : Result[c] \in results}
    IN  IF found = {} THEN "ok"
        ELSE Result[CHOOSE c \in found : \A d \in found : c <= d]

(* Faulty: the first error counts, whatever it is. *)
MixerResult_First == FirstOf({"abort", "memory", "other", "data", "fail"})

(* Results in their order of weight. *)
MixerResult ==
    LET weight == <<{"abort"}, {"memory"}, {"other"}, {"data"}, {"fail"}>>
        some == {n \in 1..5 : FirstOf(weight[n]) # "ok"}
    IN  IF some = {} THEN "ok"
        ELSE FirstOf(weight[CHOOSE n \in some : \A m \in some : n <= m])

MixResult ==
    /\ mixer = "result"
    /\ ret' = MixerResult
    /\ mixer' = "idle"
    /\ UNCHANGED <<bindInfo, threadVars, place, bond, Result, fault, pipe, mi, calls>>

(* The next folder with the same bonds: ReInit2, and Init in Code.  After  *)
(* any other result the caller gives up (7zExtract.cpp).                   *)
MixAgain ==
    /\ mixer = "idle" /\ calls < MaxCalls
    /\ ret \in {"ok", "data", "other"}
    /\ pipe' = [b \in AllBonds |-> IF b \in Bonds THEN FreshPipe ELSE pipe[b]]
    /\ fault' = [c \in Coders |-> "none"]
    /\ mixer' = "create" /\ ret' = "none" /\ calls' = calls + 1
    /\ UNCHANGED <<bindInfo, threadVars, place, bond, Result, mi>>

-----------------------------------------------------------------------------
(* ~CMixerMT: ~CObjectVector destroys the last coder first.                *)

MixDestroy ==
    /\ mixer \in {"idle", "failed"}
    /\ mixer' = "signal" /\ mi' = NumCoders - 1
    /\ UNCHANGED <<bindInfo, threadVars, place, bond, Result, fault, pipe, ret, calls>>

(* WaitThreadFinish. *)
MixSignal ==
    /\ mixer = "signal"
    /\ Exit' = [Exit EXCEPT ![mi] = TRUE]
    /\ StartEvent' = [StartEvent EXCEPT ![mi] = IF created[mi] THEN Event_Set(@)
                                                ELSE @]
    /\ mixer' = "join"
    /\ UNCHANGED <<bindInfo, created, FinishedEvent, place, bond, Result, fault,
                   pipe, mi, ret, calls>>

MixJoin ==
    /\ mixer = "join"
    /\ ~created[mi] \/ place[mi] = "dead"
    /\ mixer' = "close"
    /\ UNCHANGED <<bindInfo, threadVars, place, bond, Result, fault, pipe, mi,
                   ret, calls>>

(* The members of a coder that never ran: OutStreams, then InStreams. *)
MixClose ==
    /\ mixer = "close"
    /\ \/ /\ \/ \E b \in Outs(mi) : CloseOut(b)
             \/ Outs(mi) = {} /\ \E b \in Ins(mi) : CloseIn(b)
          /\ UNCHANGED <<mixer, mi>>
       \/ /\ Outs(mi) \cup Ins(mi) = {}
          /\ IF mi = 0 THEN mixer' = "dead" /\ UNCHANGED mi
                       ELSE mixer' = "signal" /\ mi' = mi - 1
          /\ UNCHANGED pipe
    /\ UNCHANGED <<bindInfo, threadVars, place, bond, Result, fault, ret, calls>>

(* After the destructor nothing happens any more. *)
Destroyed == mixer = "dead" /\ UNCHANGED vars

(* What the caller's thread does until it is back from Code or ~CMixerMT. *)
InCall == MixCreate \/ MixStart \/ MixMain \/ MixMainDone \/ MixWait
          \/ MixResult \/ MixSignal \/ MixJoin \/ MixClose
          \/ Work(Main)

Caller == InCall \/ MixAgain \/ MixDestroy

Next == (\E c \in Coders : CoderThread(c)) \/ Caller \/ Destroyed

Spec == Init /\ [][Next]_vars

(* Threads run; a coder whose Read or Write has returned goes on. *)
Fairness == WF_vars(InCall) /\ \A c \in Coders : WF_vars(CoderThread(c))

FairSpec == Spec /\ Fairness

-----------------------------------------------------------------------------
Results == {"unset", "ok", "cut", "abort", "memory", "other", "data", "fail"}

TypeOK ==
    /\ bindInfo \in BindInfos
    /\ \A flag \in {created, StartEvent, FinishedEvent, Exit} :
          flag \in [Coders -> BOOLEAN]
    /\ place \in [Coders -> {"none", "start", "check", "run", "read", "write",
                             "release", "dead"}]
    /\ bond \in [Coders -> AllBonds \cup {NoBond}]
    /\ Result \in [Coders -> Results]
    /\ fault \in [Coders -> Results \cup {"none", "throw"}]
    /\ pipe \in [AllBonds ->
                  [taken : 0..StreamLen, acked : 0..StreamLen,
                   asked : 0..MaxWrite, cut : BOOLEAN, eof : BOOLEAN,
                   rOpen : BOOLEAN, wOpen : BOOLEAN]]
    /\ mixer \in {"create", "start", "main", "wait", "result", "idle", "failed",
                  "signal", "join", "close", "dead"}
    /\ mi \in Coders
    /\ ret \in Results \cup {"none"}
    /\ calls \in 1..MaxCalls

(* The mixer and its coders keep the rules on which StreamBinder relies:   *)
(* no bond is reset ("CreateStreams2" again) while a coder of an earlier   *)
(* call still holds an end of it, each end is closed once, and nobody uses *)
(* an end that is closed.                                                  *)
Pipe(b) == INSTANCE BytePipe WITH
               taken <- pipe[b].taken, acked <- pipe[b].acked,
               asked <- pipe[b].asked, cut <- pipe[b].cut,
               eof <- pipe[b].eof,
               rOpen <- pipe[b].rOpen, wOpen <- pipe[b].wOpen
PipesKeepRules ==
    /\ \A b \in AllBonds : Pipe(b)!Init
    /\ [][\A b \in AllBonds : [Pipe(b)!Next]_(pipe[b])]_vars

(* A fault in one coder makes others fail as a consequence: a Write is cut *)
(* or the data end too early.  Whatever the order in which the coders end, *)
(* Code returns the gravest fault that some coder had of its own: abort    *)
(* before memory before any other error before S_FALSE before E_FAIL.      *)
(* Without a fault it returns S_OK, and it never returns a consequence,    *)
(* but for one: a coder that took the early end of its input for bad data  *)
(* returns S_FALSE, which stands in for S_OK and hides an E_FAIL, as the   *)
(* scan for S_FALSE comes before the one that finds E_FAIL.                *)
Misled == \E c \in Coders : /\ fault[c] = "none" /\ Result[c] = "data"
                           /\ HeardEof(c)

CauseReported ==
    mixer = "idle" =>
        LET own == {fault[c] : c \in Coders} \ {"none"} IN
        /\ "abort" \in own => ret = "abort"
        /\ "memory" \in own => ret \in own \cap {"abort", "memory"}
        /\ "other" \in own => ret \in own \cap {"abort", "memory", "other"}
        /\ "data" \in own => ret \in own \ {"fail"}
        /\ own = {"fail"} => ret = IF Misled THEN "data" ELSE "fail"
        /\ own = {} => ret = IF Misled THEN "data" ELSE "ok"

(* Code and the destructor return, whichever coder stops first, fails or   *)
(* throws, and however far the creation of the threads got.                *)
CallsReturn == []<>(mixer \in {"idle", "failed", "dead"})
=============================================================================
