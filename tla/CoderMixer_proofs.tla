------------------------ MODULE CoderMixer_proofs -------------------------
(***************************************************************************)
(* Theorems about the multithreaded mixer, for any number of coders, bonds *)
(* and calls, whatever the coders do and wherever they fail.               *)
(*                                                                         *)
(* The invariant follows each coder through a call: Ready before it is     *)
(* started, Launched until Code waits for it, Waited afterwards.  A coder  *)
(* that may still run has all its ends of bonds open, one that is done has *)
(* closed them; so all bonds are closed when the next call resets them.    *)
(***************************************************************************)
EXTENDS CoderMixer, WellFoundedInduction, TLAPS

PipeRecs == [taken : 0..StreamLen, acked : 0..StreamLen, asked : 0..MaxWrite,
             cut : BOOLEAN, eof : BOOLEAN, rOpen : BOOLEAN, wOpen : BOOLEAN]

Working == {"run", "read", "write"}

EndsOpen(c) == \A b \in Bonds : /\ Reader(b) = c => pipe[b].rOpen
                                /\ Writer(b) = c => pipe[b].wOpen
EndsClosed(c) == \A b \in Bonds : /\ Reader(b) = c => ~pipe[b].rOpen
                                  /\ Writer(b) = c => ~pipe[b].wOpen

(* What a pipe has taken in and given out, and the Write in progress.      *)
PipeOK(b) ==
    /\ pipe[b].acked <= pipe[b].taken
    /\ pipe[b].taken <= pipe[b].acked + pipe[b].asked
    /\ pipe[b].acked + pipe[b].asked <= StreamLen
    /\ pipe[b].asked > 0 =>
          b \in Bonds /\ place[Writer(b)] = "write" /\ bond[Writer(b)] = b

Returned == {"abort", "memory", "other", "data", "fail"}

(* The result of a coder is its own fault, if it had one; without one it   *)
(* finds bad data only where its input ended.                              *)
ResultOK(c) ==
    IF fault[c] = "none"
      THEN Result[c] \in {"ok", "cut"} \/ (Result[c] = "data" /\ HeardEof(c))
      ELSE \/ Result[c] = fault[c] /\ fault[c] \in Returned
           \/ c = Main /\ fault[c] = "throw"

Unhurt(c) == EndsOpen(c) /\ fault[c] = "none"
Done(c) == EndsClosed(c) /\ ResultOK(c)

(* A coder with its streams.                                               *)
CoderOK(c) ==
    /\ place[c] \in Working => Unhurt(c)
    /\ place[c] = "read" =>
          bond[c] \in Bonds /\ Reader(bond[c]) = c /\ ~pipe[bond[c]].eof
    /\ place[c] = "write" =>
          /\ bond[c] \in Bonds /\ Writer(bond[c]) = c
          /\ ~pipe[bond[c]].cut /\ pipe[bond[c]].asked > 0
    /\ place[c] = "release" => ResultOK(c)

(* A coder and its thread: it runs at most once for one StartEvent.        *)
ThreadOK(c) ==
    /\ c # Main => (created[c] <=> place[c] # "none")
    /\ c = Main => /\ ~created[c] /\ place[c] \in Working \cup {"none", "release"}
                   /\ place[c] # "none" => mixer = "main"
    /\ StartEvent[c] => created[c]
    /\ StartEvent[c] /\ ~Exit[c] => place[c] = "start" /\ Unhurt(c)
    /\ place[c] = "check" /\ ~Exit[c] => Unhurt(c)

Ready(c) ==
    /\ Unhurt(c) /\ ~StartEvent[c]
    /\ created[c] => place[c] = "start" /\ ~FinishedEvent[c]

Launched(c) ==
    /\ created[c]
    /\ \/ StartEvent[c] /\ ~FinishedEvent[c]
       \/ /\ ~StartEvent[c] /\ ~FinishedEvent[c]
          /\ place[c] \in Working \cup {"check", "release"}
       \/ ~StartEvent[c] /\ FinishedEvent[c] /\ place[c] = "start" /\ Done(c)

Back(c) ==
    created[c] /\ ~StartEvent[c] /\ ~FinishedEvent[c] /\ place[c] = "start" /\ Done(c)

InCode == {"create", "start", "main", "wait", "result", "idle"}

(* Where the coders are in each part of Code.                              *)
Phase(c) ==
    /\ mixer \in InCode \cup {"failed"} => ~Exit[c]
    /\ mixer = "create" => Ready(c) /\ (c < mi /\ c # Main => created[c])
    /\ mixer \in InCode \ {"create"} /\ c # Main => created[c]
    /\ mixer = "start" => IF c < mi /\ c # Main THEN Launched(c) ELSE Ready(c)
    /\ mixer = "main" => IF c # Main THEN Launched(c)
                         ELSE place[c] = "none" => Ready(c)
    /\ mixer = "wait" /\ c # Main => IF c < mi THEN Back(c) ELSE Launched(c)
    /\ mixer \in {"result", "idle"} /\ c # Main => Back(c)
    /\ mixer \in {"wait", "result", "idle"} /\ c = Main =>
          Done(c) /\ fault[c] # "throw"

Mixer ==
    /\ mixer \in {"main", "result", "idle"} => mi = 0
    /\ mixer = "idle" => ret = MixerResult
    /\ mixer = "close" => place[mi] \in {"none", "dead"}

IInv ==
    /\ TypeOK
    /\ \A b \in AllBonds : PipeOK(b)
    /\ \A c \in Coders : CoderOK(c) /\ ThreadOK(c) /\ Phase(c)
    /\ Mixer

USE DEF Reader, Writer

-----------------------------------------------------------------------------
(* Types.                                                                  *)

LEMMA Constants ==
    /\ NumCoders \in Nat \ {0} /\ StreamLen \in Nat \ {0} /\ MaxWrite \in Nat \ {0}
    /\ MaxRead \in Nat \ {0} /\ MaxCalls \in Nat \ {0}
BY CoderMixerAssumption DEF CoderMixerAssumption

LEMMA BondFacts ==
    ASSUME TypeOK
    PROVE  /\ Main \in Coders /\ Bonds \subseteq AllBonds
           /\ \A b \in Bonds : Reader(b) \in Coders /\ Writer(b) \in Coders /\ Reader(b) # Writer(b)
  BY CoderMixerAssumption DEF TypeOK, CoderMixerAssumption, Main, Bonds, AllBonds

LEMMA Typing ==
    ASSUME TypeOK
    PROVE  /\ created \in [Coders -> BOOLEAN] /\ StartEvent \in [Coders -> BOOLEAN]
           /\ FinishedEvent \in [Coders -> BOOLEAN] /\ Exit \in [Coders -> BOOLEAN]
           /\ pipe \in [AllBonds -> PipeRecs] /\ mi \in Coders
           /\ DOMAIN place = Coders /\ DOMAIN bond = Coders /\ DOMAIN Result = Coders
           /\ DOMAIN fault = Coders
BY DEF TypeOK, PipeRecs

-----------------------------------------------------------------------------
(* What a step leaves alone.                                               *)

SameCoder(d) ==
    /\ place'[d] = place[d] /\ bond'[d] = bond[d] /\ Result'[d] = Result[d]
    /\ fault'[d] = fault[d]
SameThread(d) ==
    /\ created'[d] = created[d] /\ StartEvent'[d] = StartEvent[d]
    /\ FinishedEvent'[d] = FinishedEvent[d] /\ Exit'[d] = Exit[d]

(* What coder d has to do with its bonds. *)
SameEnds(d) ==
    \A b \in Bonds :
        /\ Reader(b) = d => pipe'[b].rOpen = pipe[b].rOpen /\ pipe'[b].eof = pipe[b].eof
        /\ Writer(b) = d => /\ pipe'[b].wOpen = pipe[b].wOpen
                            /\ pipe'[b].cut = pipe[b].cut
                            /\ pipe'[b].asked = pipe[b].asked

LEMMA OtherCoder ==
    ASSUME NEW d, SameCoder(d), SameEnds(d), bindInfo' = bindInfo
    PROVE  /\ EndsOpen(d) <=> EndsOpen(d)'
           /\ EndsClosed(d) <=> EndsClosed(d)'
           /\ Unhurt(d) <=> Unhurt(d)'
           /\ ResultOK(d) <=> ResultOK(d)'
           /\ Done(d) <=> Done(d)'
           /\ CoderOK(d) => CoderOK(d)'
<1> USE DEF SameCoder, SameEnds, Bonds, Main
<1>1. EndsOpen(d) <=> EndsOpen(d)' BY DEF EndsOpen
<1>2. EndsClosed(d) <=> EndsClosed(d)' BY DEF EndsClosed
<1>3. ResultOK(d) <=> ResultOK(d)' BY DEF ResultOK, HeardEof
<1>4. Unhurt(d) <=> Unhurt(d)' BY <1>1 DEF Unhurt
<1>5. CoderOK(d) => CoderOK(d)' BY <1>3, <1>4 DEF CoderOK
<1> QED BY <1>1, <1>2, <1>3, <1>4, <1>5 DEF Done

LEMMA OtherThread ==
    ASSUME NEW d, SameCoder(d), SameThread(d), SameEnds(d), bindInfo' = bindInfo,
           mixer' = mixer, mi' = mi, CoderOK(d), ThreadOK(d), Phase(d)
    PROVE  CoderOK(d)' /\ ThreadOK(d)' /\ Phase(d)'
<1>1. /\ Unhurt(d) <=> Unhurt(d)'
      /\ Done(d) <=> Done(d)'
      /\ CoderOK(d)'
  BY OtherCoder
<1> USE DEF SameCoder, SameThread, Main
<1>2. ThreadOK(d)' BY <1>1 DEF ThreadOK
<1>3. /\ Ready(d) <=> Ready(d)'
      /\ Launched(d) <=> Launched(d)'
      /\ Back(d) <=> Back(d)'
  BY <1>1 DEF Ready, Launched, Back
<1>4. Phase(d)' BY <1>1, <1>3 DEF Phase
<1> QED BY <1>1, <1>2, <1>4

-----------------------------------------------------------------------------
(* A coder at work.                                                        *)

OthersSame(c) ==
    \A d \in Coders \ {c} : SameCoder(d) /\ SameThread(d) /\ SameEnds(d)

(* A step of a coder at work changes only that coder and its ends.         *)
LEMMA CoderStep ==
    ASSUME IInv, NEW c \in Coders, OthersSame(c), SameThread(c),
           bindInfo' = bindInfo, mixer' = mixer, mi' = mi, ret' = ret,
           place[c] \in Working \cup {"release"},
           place'[c] \in Working \cup {"release"},
           TypeOK', \A b \in AllBonds : PipeOK(b)', CoderOK(c)'
    PROVE  IInv'
<1>0. TypeOK /\ ThreadOK(c) /\ Phase(c) /\ Mixer
  BY DEF IInv
<1>1. \A d \in Coders \ {c} : CoderOK(d)' /\ ThreadOK(d)' /\ Phase(d)'
  BY OtherThread DEF IInv, OthersSame
<1>2. Main' = Main
  BY DEF Main
<1>3. ThreadOK(c)'
  <2>1. c # Main => created[c] /\ (StartEvent[c] => Exit[c])
    BY <1>0 DEF ThreadOK, Working
  <2>2. c = Main => ~created[c] /\ mixer = "main" /\ ~StartEvent[c]
    BY <1>0 DEF ThreadOK, Working
  <2> QED
    BY <2>1, <2>2, <1>2 DEF ThreadOK, SameThread, Working
<1>4. mixer \notin {"create", "result", "idle"}
  BY <1>0 DEF Phase, Ready, Back, ThreadOK, Working
<1>5. Phase(c)'
  <2>1. CASE c = Main
    <3>1. mixer = "main" /\ ~Exit[c]
      BY <2>1, <1>0 DEF ThreadOK, Working, Phase, InCode
    <3> QED
      BY <3>1, <2>1, <1>2 DEF Phase, SameThread, InCode, Working
  <2>2. CASE c # Main
    <3>1. ~Ready(c) /\ ~Back(c)
      BY <1>0, <2>2 DEF Ready, Back, ThreadOK, Working
    <3>2. Launched(c) => Launched(c)'
      BY DEF Launched, SameThread, Working
    <3> QED
      BY <3>1, <3>2, <2>2, <1>0, <1>2, <1>4 DEF Phase, SameThread
  <2> QED
    BY <2>1, <2>2
<1>6. Mixer'
  <2>1. mixer = "close" => place'[mi] = place[mi]
    BY <1>0, Typing DEF Mixer, Working, OthersSame, SameCoder
  <2> QED
    BY <2>1, <1>0, <1>4 DEF Mixer
<1>7. AllBonds' = AllBonds
  BY DEF AllBonds
<1> QED
  BY <1>1, <1>3, <1>5, <1>6, <1>7 DEF IInv

(* One place, one bond: the rest of the functions stays.                   *)
LEMMA BeginReadKeeps ==
    ASSUME IInv, NEW c \in Coders, BeginRead(c)
    PROVE  IInv'
<1>0. TypeOK /\ CoderOK(c) /\ Unhurt(c) BY DEF IInv, CoderOK, BeginRead, Working
<1>1. PICK b \in Bonds : /\ Reader(b) = c /\ ~pipe[b].eof
                         /\ bond' = [bond EXCEPT ![c] = b]
  BY DEF BeginRead
<1>2. /\ place[c] = "run" /\ place' = [place EXCEPT ![c] = "read"]
      /\ UNCHANGED <<bindInfo, threadVars, Result, fault, pipe, callVars>>
  BY DEF BeginRead, Goto
<1>3. place'[c] = "read" /\ bond'[c] = b BY <1>0, <1>1, <1>2, Typing
<1>4. TypeOK' BY <1>0, <1>1, <1>2, BondFacts DEF TypeOK, threadVars, callVars
<1>5. OthersSame(c) /\ SameThread(c)
  BY <1>0, <1>1, <1>2, Typing DEF OthersSame, SameCoder, SameThread, SameEnds, threadVars
<1>6. \A x \in AllBonds : PipeOK(x)'
  BY <1>0, BondFacts, <1>2, <1>5 DEF IInv, PipeOK, OthersSame, SameCoder, Bonds
<1>7. CoderOK(c)' BY <1>0, <1>1, <1>2, <1>3 DEF CoderOK, Unhurt, EndsOpen, Bonds
<1> QED BY <1>2, <1>3, <1>4, <1>5, <1>6, <1>7, CoderStep DEF Working, callVars

(* The pipes of a step that changes one of them and no place but c's.      *)
LEMMA OtherPipes ==
    ASSUME IInv, NEW c \in Coders, NEW b \in AllBonds, bindInfo' = bindInfo,
           \A d \in Coders \ {c} : SameCoder(d),
           \A x \in AllBonds \ {b} : pipe'[x] = pipe[x],
           \A x \in AllBonds \ {b} : x \in Bonds /\ Writer(x) = c => pipe[x].asked = 0,
           PipeOK(b)'
    PROVE  \A x \in AllBonds : PipeOK(x)'
  BY BondFacts DEF IInv, PipeOK, SameCoder, Bonds

(* A coder writes only to the bond of its Write.                           *)
LEMMA OneWrite ==
    ASSUME IInv, NEW c \in Coders, NEW x \in Bonds, Writer(x) = c,
           place[c] # "write" \/ bond[c] # x
    PROVE  pipe[x].asked = 0
  BY BondFacts, Typing, Constants DEF IInv, PipeRecs, PipeOK

LEMMA EndReadKeeps ==
    ASSUME IInv, NEW c \in Coders, EndRead(c)
    PROVE  IInv'
<1>0. TypeOK /\ CoderOK(c) /\ Unhurt(c) /\ place[c] = "read"
  BY DEF IInv, CoderOK, EndRead, Working
<1>b. PICK b : b = bond[c] OBVIOUS
<1>1. b \in Bonds /\ b \in AllBonds /\ Reader(b) = c /\ Writer(b) \in Coders \ {c}
  BY <1>0, <1>b, BondFacts DEF CoderOK
<1>2. /\ place' = [place EXCEPT ![c] = "run"] /\ bond' = [bond EXCEPT ![c] = NoBond]
      /\ UNCHANGED <<bindInfo, threadVars, Result, fault, callVars>>
  BY DEF EndRead, Goto
<1>3. /\ pipe'[b] \in PipeRecs
      /\ pipe' = [pipe EXCEPT ![b] = pipe'[b]]
      /\ pipe'[b].acked = pipe[b].acked /\ pipe'[b].asked = pipe[b].asked
      /\ pipe'[b].cut = pipe[b].cut
      /\ pipe'[b].rOpen = pipe[b].rOpen /\ pipe'[b].wOpen = pipe[b].wOpen
      /\ pipe[b].taken <= pipe'[b].taken
      /\ pipe'[b].taken <= pipe[b].acked + pipe[b].asked
  <2>0. pipe[b] \in PipeRecs /\ PipeOK(b) BY <1>0, <1>1, Typing DEF IInv
  <2>1. CASE \E count \in 1..MaxRead :
                /\ pipe[b].taken + count <= pipe[b].acked + pipe[b].asked
                /\ pipe' = [pipe EXCEPT ![b].taken = @ + count]
    BY <2>1, <1>0, <1>1, Typing, <2>0, Constants DEF PipeOK, PipeRecs
  <2>2. CASE pipe' = [pipe EXCEPT ![b].eof = TRUE]
    <3>2. pipe'[b] = [pipe[b] EXCEPT !.eof = TRUE] BY <2>2, <1>0, <1>1, Typing
    <3>4. pipe' = [pipe EXCEPT ![b] = pipe'[b]] BY <2>2, <3>2, <1>0, <1>1, Typing
    <3>5. pipe[b].taken <= pipe[b].taken /\ pipe[b].taken <= pipe[b].acked + pipe[b].asked
      BY <2>0, Constants DEF PipeRecs, PipeOK
    <3> QED BY <3>2, <3>4, <3>5, <2>0 DEF PipeRecs
  <2> QED BY <2>1, <2>2, <1>b DEF EndRead
<1>4. TypeOK'
  BY <1>0, <1>1, <1>3, Typing, <1>2, SMTT(30) DEF TypeOK, PipeRecs, threadVars, callVars,
     AllBonds
<1>5. \A x \in AllBonds \ {b} : pipe'[x] = pipe[x] BY <1>0, <1>3, Typing
<1>6. OthersSame(c) /\ SameThread(c)
  BY <1>0, <1>2, Typing, <1>1, <1>3, <1>5, BondFacts DEF SameCoder, SameThread, threadVars,
     SameEnds, OthersSame
<1>7. \A x \in AllBonds : PipeOK(x)'
  <2>1. PipeOK(b)'
    <3>1. PipeOK(b) /\ pipe[b] \in PipeRecs
      BY <1>0, <1>1, Typing DEF IInv
    <3>2. place'[Writer(b)] = place[Writer(b)] /\ bond'[Writer(b)] = bond[Writer(b)]
      BY <1>1, <1>6 DEF OthersSame, SameCoder
    <3> QED
      BY <3>1, <3>2, <1>2, <1>3, Constants DEF PipeOK, PipeRecs, Bonds
  <2>2. \A x \in AllBonds \ {b} : x \in Bonds /\ Writer(x) = c => pipe[x].asked = 0
    BY <1>0, OneWrite
  <2> QED
    BY <2>1, <2>2, <1>1, <1>2, <1>5, <1>6, OtherPipes DEF OthersSame
<1>8. CoderOK(c)'
  BY <1>0, <1>2, Typing, <1>3, <1>5, BondFacts DEF CoderOK, Unhurt, EndsOpen, Bonds
<1>9. place'[c] = "run" BY <1>0, <1>2, Typing
<1> QED BY <1>0, <1>2, <1>4, <1>6, <1>7, <1>8, <1>9, CoderStep DEF Working, callVars

LEMMA BeginWriteKeeps ==
    ASSUME IInv, NEW c \in Coders, BeginWrite(c)
    PROVE  IInv'
<1>0. /\ TypeOK /\ CoderOK(c) /\ Unhurt(c) /\ place[c] = "run"
      /\ \A b \in Bonds : Writer(b) = c => ~pipe[b].cut
  BY DEF IInv, CoderOK, BeginWrite, Working, HeardCut
<1>b. PICK b \in Bonds, size \in 1..MaxWrite :
        /\ Writer(b) = c /\ pipe[b].acked + size <= StreamLen
        /\ bond' = [bond EXCEPT ![c] = b]
        /\ pipe' = [pipe EXCEPT ![b].asked = size]
  BY DEF BeginWrite
<1>1. b \in AllBonds /\ Reader(b) \in Coders \ {c} BY <1>0, <1>b, BondFacts
<1>2. /\ place' = [place EXCEPT ![c] = "write"]
      /\ UNCHANGED <<bindInfo, threadVars, Result, fault, callVars>>
  BY DEF BeginWrite, Goto
<1>3. pipe'[b] = [pipe[b] EXCEPT !.asked = size] BY <1>0, <1>1, <1>b, Typing
<1>d. pipe[b] \in PipeRecs /\ PipeOK(b) BY <1>0, <1>1, Typing DEF IInv
<1>e. /\ pipe'[b].asked = size /\ pipe'[b].taken = pipe[b].taken
      /\ pipe'[b].acked = pipe[b].acked /\ pipe'[b].cut = pipe[b].cut
      /\ pipe'[b].eof = pipe[b].eof
      /\ pipe'[b].rOpen = pipe[b].rOpen /\ pipe'[b].wOpen = pipe[b].wOpen
  BY <1>3, <1>d DEF PipeRecs
<1>4. TypeOK'
  BY <1>3, <1>d, <1>b, Constants, <1>0, <1>1, Typing, <1>2 DEF PipeRecs, TypeOK, threadVars,
     callVars, AllBonds
<1>5. \A x \in AllBonds \ {b} : pipe'[x] = pipe[x] BY <1>0, <1>b, Typing
<1>6. OthersSame(c) /\ SameThread(c)
  BY <1>0, <1>2, <1>b, Typing, <1>e, <1>5, BondFacts DEF SameCoder, SameThread, threadVars,
     SameEnds, OthersSame
<1>9. place'[c] = "write" /\ bond'[c] = b BY <1>0, <1>2, <1>b, Typing
<1>7. \A x \in AllBonds : PipeOK(x)'
  <2>1. PipeOK(b)'
    <3>0. pipe[b].asked = 0
      BY <1>0, <1>b, OneWrite
    <3>1. /\ pipe[b].acked <= pipe[b].taken
          /\ pipe[b].taken <= pipe[b].acked + size
          /\ pipe[b].acked + size <= StreamLen
      BY <1>d, <1>b, <3>0, Constants DEF PipeOK, PipeRecs
    <3> QED
      BY <3>1, <1>e, <1>9, <1>b, <1>2 DEF PipeOK, Bonds
  <2>2. \A x \in AllBonds \ {b} : x \in Bonds /\ Writer(x) = c => pipe[x].asked = 0
    BY <1>0, OneWrite
  <2> QED
    BY <2>1, <2>2, <1>1, <1>2, <1>5, <1>6, OtherPipes DEF OthersSame
<1>8. CoderOK(c)'
  BY <1>2, <1>0, <1>e, <1>5, BondFacts, <1>b, <1>9 DEF CoderOK, Unhurt, EndsOpen, Bonds
<1> QED BY <1>0, <1>2, <1>4, <1>6, <1>7, <1>8, <1>9, CoderStep DEF Working, callVars

LEMMA EndWriteKeeps ==
    ASSUME IInv, NEW c \in Coders, EndWrite(c)
    PROVE  IInv'
<1>0. TypeOK /\ CoderOK(c) /\ Unhurt(c) /\ place[c] = "write"
  BY DEF IInv, CoderOK, EndWrite, Working
<1>b. PICK b : b = bond[c] OBVIOUS
<1>1. b \in Bonds /\ b \in AllBonds /\ Writer(b) = c /\ Reader(b) \in Coders \ {c}
  BY <1>0, <1>b, BondFacts DEF CoderOK
<1>2. /\ place' = [place EXCEPT ![c] = "run"] /\ bond' = [bond EXCEPT ![c] = NoBond]
      /\ UNCHANGED <<bindInfo, threadVars, Result, fault, callVars>>
  BY DEF EndWrite, Goto
<1>3. /\ pipe'[b] \in PipeRecs
      /\ pipe' = [pipe EXCEPT ![b] = pipe'[b]]
      /\ pipe'[b].taken = pipe[b].taken /\ pipe'[b].asked = 0
      /\ pipe'[b].acked = pipe[b].taken
      /\ pipe'[b].eof = pipe[b].eof
      /\ pipe'[b].rOpen = pipe[b].rOpen /\ pipe'[b].wOpen = pipe[b].wOpen
  <2>0. pipe[b] \in PipeRecs BY <1>0, <1>1, Typing
  <2>1. CASE pipe' = [pipe EXCEPT ![b].acked = pipe[b].taken, ![b].asked = 0]
    <3>2. pipe'[b] = [pipe[b] EXCEPT !.acked = pipe[b].taken, !.asked = 0]
      BY <2>1, <1>0, <1>1, Typing
    <3>4. pipe' = [pipe EXCEPT ![b] = pipe'[b]] BY <2>1, <3>2, <1>0, <1>1, Typing
    <3>5. pipe[b].taken \in 0..StreamLen /\ 0 \in 0..MaxWrite BY <2>0, Constants DEF PipeRecs
    <3>6. pipe'[b] \in PipeRecs BY <3>2, <3>5, <2>0 DEF PipeRecs
    <3>7. /\ pipe'[b].taken = pipe[b].taken /\ pipe'[b].asked = 0
          /\ pipe'[b].acked = pipe[b].taken /\ pipe'[b].eof = pipe[b].eof
          /\ pipe'[b].rOpen = pipe[b].rOpen /\ pipe'[b].wOpen = pipe[b].wOpen
      BY <3>2, <2>0 DEF PipeRecs
    <3> QED BY <3>4, <3>6, <3>7
  <2>2. CASE /\ pipe' = [pipe EXCEPT ![b].cut = TRUE, ![b].asked = 0]
             /\ pipe[b].taken = pipe[b].acked
    <3>2. pipe'[b] = [pipe[b] EXCEPT !.cut = TRUE, !.asked = 0] BY <2>2, <1>0, <1>1, Typing
    <3>4. pipe' = [pipe EXCEPT ![b] = pipe'[b]] BY <2>2, <3>2, <1>0, <1>1, Typing
    <3>5. 0 \in 0..MaxWrite BY Constants
    <3>6. pipe'[b] \in PipeRecs BY <3>2, <3>5, <2>0 DEF PipeRecs
    <3>7. /\ pipe'[b].taken = pipe[b].taken /\ pipe'[b].asked = 0
          /\ pipe'[b].acked = pipe[b].acked /\ pipe'[b].eof = pipe[b].eof
          /\ pipe'[b].rOpen = pipe[b].rOpen /\ pipe'[b].wOpen = pipe[b].wOpen
      BY <3>2, <2>0 DEF PipeRecs
    <3> QED BY <2>2, <3>4, <3>6, <3>7
  <2> QED BY <2>1, <2>2, <1>b DEF EndWrite
<1>4. TypeOK'
  BY <1>0, <1>1, <1>3, Typing, <1>2 DEF TypeOK, PipeRecs, threadVars, callVars, AllBonds
<1>5. \A x \in AllBonds \ {b} : pipe'[x] = pipe[x] BY <1>0, <1>3, Typing
<1>6. OthersSame(c) /\ SameThread(c)
  BY <1>0, <1>2, Typing, <1>1, <1>3, <1>5, BondFacts DEF SameCoder, SameThread, threadVars,
     SameEnds, OthersSame
<1>7. \A x \in AllBonds : PipeOK(x)'
  BY <1>0, <1>1, Typing, Constants, <1>3, <1>b, OneWrite, <1>2, <1>5, <1>6, OtherPipes DEF
     PipeRecs, PipeOK, OthersSame
<1>8. CoderOK(c)'
  BY <1>0, <1>2, Typing, <1>3, <1>5, BondFacts DEF CoderOK, Unhurt, EndsOpen, Bonds
<1>9. place'[c] = "run" BY <1>0, <1>2, Typing
<1> QED BY <1>0, <1>2, <1>4, <1>6, <1>7, <1>8, <1>9, CoderStep DEF Working, callVars

LEMMA EndCodeKeeps ==
    ASSUME IInv, NEW c \in Coders, EndCode(c)
    PROVE  IInv'
<1>0. TypeOK /\ CoderOK(c) /\ place[c] = "run" /\ fault[c] = "none"
  BY DEF IInv, CoderOK, EndCode, Working, Unhurt
<1>1. /\ place' = [place EXCEPT ![c] = "release"]
      /\ UNCHANGED <<bindInfo, threadVars, bond, pipe, callVars>>
  BY DEF EndCode, Goto
<1>2. PICK r, f : /\ Result' = [Result EXCEPT ![c] = r] /\ fault' = [fault EXCEPT ![c] = f]
                  /\ \/ f = "none" /\ r \in {"ok", "cut"}
                     \/ f = "none" /\ r = "data" /\ HeardEof(c)
                     \/ f \in Returned /\ r = f
                     \/ f = "throw" /\ c = Main /\ r = Result[c]
  <2>1. CASE \E f \in Faults[c] \ {"create"} :
              LET own == IF f = "throw" /\ c # Main THEN "fail" ELSE f IN
              /\ Result' = [Result EXCEPT ![c] = IF own = "throw" THEN @ ELSE own]
              /\ fault' = [fault EXCEPT ![c] = own]
    <3>1. PICK f \in Faults[c] \ {"create"} :
              LET own == IF f = "throw" /\ c # Main THEN "fail" ELSE f IN
              /\ Result' = [Result EXCEPT ![c] = IF own = "throw" THEN Result[c] ELSE own]
              /\ fault' = [fault EXCEPT ![c] = own]
      BY <2>1
    <3>2. f \in Returned \cup {"throw"}
      BY CoderMixerAssumption DEF CoderMixerAssumption, Returned
    <3>3. "throw" \notin Returned /\ "fail" \in Returned
      BY DEF Returned
    <3>4. CASE f = "throw" /\ c = Main
      <4>1. Result' = [Result EXCEPT ![c] = Result[c]] /\ fault' = [fault EXCEPT ![c] = f]
        BY <3>1, <3>4
      <4> QED
        BY <4>1, <3>4
    <3>5. CASE f = "throw" /\ c # Main
      <4>1. Result' = [Result EXCEPT ![c] = "fail"] /\ fault' = [fault EXCEPT ![c] = "fail"]
        BY <3>1, <3>5
      <4> QED
        BY <4>1, <3>3
    <3>6. CASE f # "throw"
      <4>1. Result' = [Result EXCEPT ![c] = f] /\ fault' = [fault EXCEPT ![c] = f]
        BY <3>1, <3>6
      <4> QED
        BY <4>1, <3>2, <3>6
    <3> QED
      BY <3>4, <3>5, <3>6
  <2>2. CASE /\ UNCHANGED fault
             /\ \/ \E r \in {"ok", "cut"} : Result' = [Result EXCEPT ![c] = r]
                \/ HeardEof(c) /\ Result' = [Result EXCEPT ![c] = "data"]
    <3>1. fault' = [fault EXCEPT ![c] = "none"]
      BY <2>2, <1>0, Typing DEF TypeOK
    <3> QED
      BY <3>1, <2>2
  <2> QED
    BY <2>1, <2>2 DEF EndCode
<1>3. r \in Results /\ f \in Results \cup {"none", "throw"}
  BY <1>0, <1>2 DEF TypeOK, Results, Returned
<1>4. TypeOK' BY <1>0, <1>2, <1>3, <1>1 DEF TypeOK, Results, threadVars, callVars, AllBonds
<1>5. place'[c] = "release" /\ Result'[c] = r /\ fault'[c] = f BY <1>0, <1>1, <1>2, Typing
<1>6. OthersSame(c) /\ SameThread(c)
  BY <1>0, <1>1, <1>2, Typing DEF OthersSame, SameCoder, SameThread, SameEnds, threadVars
<1>7. \A x \in AllBonds : PipeOK(x)'
  BY <1>0, BondFacts, <1>1, <1>6 DEF IInv, PipeOK, OthersSame, SameCoder, Bonds
<1>8. CoderOK(c)'
  <2>1. Main' = Main /\ (HeardEof(c) => HeardEof(c)')
    BY <1>1 DEF Main, HeardEof, Bonds
  <2> QED
    BY <2>1, <1>2, <1>5 DEF ResultOK, CoderOK, Working, Returned
<1> QED BY <1>0, <1>1, <1>4, <1>5, <1>6, <1>7, <1>8, CoderStep DEF Working, callVars

(* Letting go of one end of a bond.                                        *)
LEMMA CloseEnd ==
    ASSUME IInv, NEW c \in Coders, NEW b \in Bonds,
           \/ Reader(b) = c /\ CloseIn(b)
           \/ Writer(b) = c /\ CloseOut(b),
           UNCHANGED <<bindInfo, threadVars, place, bond, Result, fault>>
    PROVE  /\ pipe' \in [AllBonds -> PipeRecs]
           /\ OthersSame(c) /\ SameThread(c) /\ SameCoder(c)
           /\ \A x \in AllBonds : PipeOK(x)'
           /\ \A x \in AllBonds : pipe'[x].eof = pipe[x].eof
<1>0. TypeOK BY DEF IInv
<1>1. b \in AllBonds /\ Reader(b) \in Coders /\ Writer(b) \in Coders /\ Reader(b) # Writer(b)
  BY <1>0, BondFacts
<1>2. pipe[b] \in PipeRecs BY <1>0, <1>1, Typing
<1>3. /\ pipe'[b] \in PipeRecs
      /\ pipe' = [pipe EXCEPT ![b] = pipe'[b]]
      /\ pipe'[b].taken = pipe[b].taken /\ pipe'[b].acked = pipe[b].acked
      /\ pipe'[b].asked = pipe[b].asked
      /\ pipe'[b].cut = pipe[b].cut /\ pipe'[b].eof = pipe[b].eof
      /\ Reader(b) # c => pipe'[b].rOpen = pipe[b].rOpen
      /\ Writer(b) # c => pipe'[b].wOpen = pipe[b].wOpen
  <2>1. CASE Reader(b) = c /\ CloseIn(b)
    <3>1. pipe'[b] = [pipe[b] EXCEPT !.rOpen = FALSE] BY <2>1, <1>0, <1>1, Typing DEF CloseIn
    <3>2. pipe' = [pipe EXCEPT ![b] = pipe'[b]] BY <2>1, <3>1, <1>0, <1>1, Typing DEF CloseIn
    <3> QED BY <2>1, <3>1, <3>2, <1>2 DEF PipeRecs
  <2>2. CASE Writer(b) = c /\ CloseOut(b)
    <3>1. pipe'[b] = [pipe[b] EXCEPT !.wOpen = FALSE] BY <2>2, <1>0, <1>1, Typing DEF CloseOut
    <3>2. pipe' = [pipe EXCEPT ![b] = pipe'[b]] BY <2>2, <3>1, <1>0, <1>1, Typing DEF CloseOut
    <3> QED BY <2>2, <3>1, <3>2, <1>2 DEF PipeRecs
  <2> QED BY <2>1, <2>2
<1>4. \A x \in AllBonds \ {b} : pipe'[x] = pipe[x] BY <1>0, <1>3, Typing
<1>5. \A d \in Coders : SameCoder(d) /\ SameThread(d) BY DEF SameCoder, SameThread, threadVars
<1>6. \A d \in Coders \ {c} : SameEnds(d) BY <1>0, <1>3, <1>4, BondFacts DEF SameEnds
<1>7. \A x \in AllBonds : PipeOK(x)' BY <1>3, <1>4 DEF IInv, PipeOK, Bonds
<1>8. pipe' \in [AllBonds -> PipeRecs] BY <1>0, <1>1, <1>3, Typing
<1>9. \A x \in AllBonds : pipe'[x].eof = pipe[x].eof BY <1>3, <1>4
<1> QED BY <1>5, <1>6, <1>7, <1>8, <1>9 DEF OthersSame

LEMMA ReleaseStreamKeeps ==
    ASSUME IInv, NEW c \in Coders, ReleaseStream(c)
    PROVE  IInv'
<1>0. TypeOK /\ CoderOK(c) /\ place[c] = "release" BY DEF IInv, ReleaseStream
<1>1. UNCHANGED <<bindInfo, threadVars, place, bond, Result, fault, callVars>>
  BY DEF ReleaseStream
<1>2. PICK b \in Bonds : \/ Reader(b) = c /\ CloseIn(b)
                         \/ Writer(b) = c /\ CloseOut(b)
  BY DEF ReleaseStream, Ins, Outs
<1>3. /\ pipe' \in [AllBonds -> PipeRecs]
      /\ OthersSame(c) /\ SameThread(c) /\ SameCoder(c)
      /\ \A x \in AllBonds : PipeOK(x)'
      /\ \A x \in AllBonds : pipe'[x].eof = pipe[x].eof
  BY <1>1, <1>2, CloseEnd
<1>4. TypeOK' BY <1>0, <1>1, <1>3 DEF TypeOK, PipeRecs, threadVars, callVars, AllBonds
<1>5. CoderOK(c)'
  <2>1. Main' = Main /\ (HeardEof(c) <=> HeardEof(c)')
    BY <1>0, <1>1, <1>3, BondFacts DEF Main, HeardEof, Bonds
  <2> QED
    BY <2>1, <1>0, <1>1 DEF CoderOK, Working, ResultOK
<1> QED BY <1>0, <1>1, <1>3, <1>4, <1>5, CoderStep DEF Working, callVars

LEMMA WorkKeeps ==
    ASSUME IInv, NEW c \in Coders, Work(c)
    PROVE  IInv'
BY BeginReadKeeps, EndReadKeeps, BeginWriteKeeps, EndWriteKeeps, EndCodeKeeps,
   ReleaseStreamKeeps DEF Work

-----------------------------------------------------------------------------
(* The loop of a thread.                                                   *)

(* A step of the thread of coder c that touches no stream.                 *)
LEMMA ThreadStep ==
    ASSUME IInv, NEW c \in Coders \ {Main}, NEW where,
           Goto(c, where), place[c] \in {"start", "check", "release"},
           \A d \in Coders \ {c} : SameThread(d),
           UNCHANGED <<bindInfo, bond, Result, fault, pipe, callVars>>,
           TypeOK', CoderOK(c)', ThreadOK(c)', Phase(c)'
    PROVE  IInv'
<1>0. TypeOK /\ Mixer BY DEF IInv
<1>1. \A d \in Coders \ {c} : SameCoder(d) /\ SameEnds(d)
  BY <1>0, Typing DEF Goto, SameCoder, SameEnds
<1>2. \A d \in Coders \ {c} : CoderOK(d)' /\ ThreadOK(d)' /\ Phase(d)'
  BY <1>1, OtherThread DEF IInv, callVars
<1>3. \A x \in AllBonds : PipeOK(x)'
  BY <1>0, BondFacts, <1>1 DEF IInv, PipeOK, SameCoder, Bonds
<1>4. Mixer'
  <2>1. mixer = "close" => place'[mi] = place[mi] BY <1>0, <1>1, Typing DEF Mixer, SameCoder
  <2>2. MixerResult' = MixerResult BY DEF MixerResult, FirstOf
  <2>3. mixer' = mixer /\ mi' = mi /\ ret' = ret BY DEF callVars
  <2> QED BY <2>1, <2>2, <2>3, <1>0 DEF Mixer
<1>5. AllBonds' = AllBonds BY DEF AllBonds
<1> QED BY <1>2, <1>3, <1>4, <1>5 DEF IInv

LEMMA WaitStartKeeps ==
    ASSUME IInv, NEW c \in Coders, WaitStart(c)
    PROVE  IInv'
<1>0. TypeOK /\ CoderOK(c) /\ ThreadOK(c) /\ Phase(c) /\ place[c] = "start" /\ StartEvent[c]
  BY DEF IInv, WaitStart, Event_CanWait
<1>1. c # Main BY <1>0 DEF ThreadOK, Working
<1>2. /\ StartEvent' = [StartEvent EXCEPT ![c] = FALSE]
      /\ place' = [place EXCEPT ![c] = "check"]
      /\ UNCHANGED <<bindInfo, created, FinishedEvent, Exit, bond, Result, fault,
                     pipe, callVars>>
  BY DEF WaitStart, Event_Wait, Goto
<1>3. StartEvent'[c] = FALSE /\ place'[c] = "check" BY <1>0, <1>2, Typing
<1>4. TypeOK' BY <1>0, <1>2, <1>3, Typing DEF TypeOK, callVars, AllBonds
<1>5. \A d \in Coders \ {c} : SameThread(d) BY <1>0, <1>2, Typing DEF SameThread
<1>6. Main' = Main /\ (Unhurt(c) <=> Unhurt(c)') BY <1>2 DEF Main, Unhurt, EndsOpen, Bonds
<1>7. CoderOK(c)' BY <1>3 DEF CoderOK, Working
<1>8. ThreadOK(c)' BY <1>0, <1>1, <1>2, <1>3, <1>6 DEF ThreadOK
<1>9. Phase(c)' BY <1>0, <1>2, <1>3, <1>1, <1>6 DEF Ready, Back, Launched, Phase, callVars
<1> QED BY <1>0, <1>1, <1>2, <1>4, <1>5, <1>7, <1>8, <1>9, ThreadStep DEF Goto

LEMMA CheckExitKeeps ==
    ASSUME IInv, NEW c \in Coders, CheckExit(c)
    PROVE  IInv'
<1>0. TypeOK /\ CoderOK(c) /\ ThreadOK(c) /\ Phase(c) /\ place[c] = "check"
  BY DEF IInv, CheckExit
<1>1. c # Main BY <1>0 DEF ThreadOK, Working
<1>2. PICK where : /\ where = IF Exit[c] THEN "dead" ELSE "run"
                   /\ place' = [place EXCEPT ![c] = where]
                   /\ UNCHANGED <<bindInfo, threadVars, bond, Result, fault, pipe,
                                  callVars>>
  BY DEF CheckExit, Goto
<1>3. place'[c] = where BY <1>0, <1>2, Typing
<1>4. TypeOK' BY <1>0, <1>2 DEF TypeOK, threadVars, callVars, AllBonds
<1>5. \A d \in Coders : SameThread(d) BY <1>2 DEF SameThread, threadVars
<1>6. Main' = Main /\ (Unhurt(c) <=> Unhurt(c)') BY <1>2 DEF Main, Unhurt, EndsOpen, Bonds
<1>7. CoderOK(c)' BY <1>0, <1>2, <1>3, <1>6 DEF CoderOK, ThreadOK, Working
<1>a. StartEvent[c] => Exit[c] BY <1>0 DEF ThreadOK
<1>8. ThreadOK(c)' BY <1>0, <1>1, <1>2, <1>3, <1>6, <1>a DEF ThreadOK, threadVars
<1>9. Phase(c)'
  <2>1. ~Ready(c) /\ ~Back(c)
    BY <1>0, <1>1 DEF Ready, Back, ThreadOK
  <2>2. Launched(c) /\ ~Exit[c] => Launched(c)'
    BY <1>0, <1>2, <1>3, <1>a DEF Launched, threadVars, Working
  <2> QED
    BY <2>1, <2>2, <1>0, <1>1, <1>2, <1>6 DEF Phase, callVars, threadVars, InCode
<1> QED BY <1>0, <1>1, <1>2, <1>4, <1>5, <1>7, <1>8, <1>9, ThreadStep DEF Goto, threadVars

LEMMA SetFinishedKeeps ==
    ASSUME IInv, NEW c \in Coders, SetFinished(c)
    PROVE  IInv'
<1>0. /\ TypeOK /\ CoderOK(c) /\ ThreadOK(c) /\ Phase(c) /\ place[c] = "release"
      /\ c # Main /\ Held(c) = {}
  BY DEF IInv, SetFinished
<1>2. /\ FinishedEvent' = [FinishedEvent EXCEPT ![c] = TRUE]
      /\ place' = [place EXCEPT ![c] = "start"]
      /\ UNCHANGED <<bindInfo, created, StartEvent, Exit, bond, Result, fault,
                     pipe, callVars>>
  BY DEF SetFinished, Event_Set, Goto
<1>3. FinishedEvent'[c] = TRUE /\ place'[c] = "start" BY <1>0, <1>2, Typing
<1>4. TypeOK' BY <1>0, <1>2, <1>3, Typing DEF TypeOK, callVars, AllBonds
<1>5. \A d \in Coders \ {c} : SameThread(d) BY <1>0, <1>2, Typing DEF SameThread
<1>6. Done(c) BY <1>0 DEF CoderOK, Done, EndsClosed, Held, Ins, Outs
<1>7. Main' = Main /\ Done(c)' BY <1>2, <1>6 DEF Main, Done, EndsClosed, ResultOK, HeardEof, Bonds
<1>8. CoderOK(c)' BY <1>3 DEF CoderOK, Working
<1>a. StartEvent[c] => Exit[c] BY <1>0 DEF ThreadOK
<1>9. ThreadOK(c)' BY <1>0, <1>2, <1>3, <1>7, <1>a DEF ThreadOK
<1>b. Phase(c)'
  BY <1>0, <1>2, <1>3, <1>7, <1>a DEF Ready, Back, ThreadOK, Launched, Phase, callVars, InCode
<1> QED BY <1>0, <1>2, <1>4, <1>5, <1>8, <1>9, <1>b, ThreadStep DEF Goto

-----------------------------------------------------------------------------
(* The caller of the mixer.                                                *)

LEMMA CallerStep ==
    ASSUME IInv, TypeOK', UNCHANGED <<bindInfo, bond, pipe>>,
           \A c \in Coders : place[c] = "write" => place'[c] = "write",
           \A c \in Coders : CoderOK(c)' /\ ThreadOK(c)' /\ Phase(c)',
           Mixer'
    PROVE  IInv'
  BY BondFacts DEF IInv, PipeOK, Bonds, AllBonds

(* A coder that the step leaves alone, wherever the caller goes.           *)
LEMMA LeftAlone ==
    ASSUME NEW d, SameCoder(d), SameThread(d), SameEnds(d), bindInfo' = bindInfo,
           CoderOK(d), ThreadOK(d),
           mixer = "main" /\ mixer' # "main" /\ d = Main => place[d] = "none"
    PROVE  /\ CoderOK(d)' /\ ThreadOK(d)' /\ Main' = Main
           /\ Unhurt(d) <=> Unhurt(d)'
           /\ Done(d) <=> Done(d)'
           /\ Ready(d) <=> Ready(d)'
           /\ Launched(d) <=> Launched(d)'
           /\ Back(d) <=> Back(d)'
<1>1. /\ Unhurt(d) <=> Unhurt(d)'
      /\ Done(d) <=> Done(d)'
      /\ CoderOK(d)'
  BY OtherCoder
<1> USE DEF SameCoder, SameThread
<1>2. Main' = Main BY DEF Main
<1>3. ThreadOK(d)' BY <1>1, <1>2 DEF ThreadOK
<1>4. /\ Ready(d) <=> Ready(d)'
      /\ Launched(d) <=> Launched(d)'
      /\ Back(d) <=> Back(d)'
  BY <1>1 DEF Ready, Launched, Back
<1> QED BY <1>1, <1>2, <1>3, <1>4

(* The loop over the coders.                                               *)
LEMMA LoopStep ==
    ASSUME TypeOK, NEW phase, NEW next, ForEach(phase, next)
    PROVE  /\ mixer = phase
           /\ \/ mixer' = next /\ mi' = 0 /\ \A c \in Coders : c <= mi
              \/ mixer' = phase /\ mi' = mi + 1
           /\ mi' \in Coders
BY Typing, Constants DEF ForEach, Coders

LEMMA MainIsIdle ==
    ASSUME IInv, mixer # "main"
    PROVE  place[Main] = "none" /\ ~created[Main] /\ ~StartEvent[Main]
BY BondFacts DEF IInv, ThreadOK

LEMMA MixCreateKeeps ==
    ASSUME IInv, MixCreate
    PROVE  IInv'
<1>0. TypeOK /\ mixer = "create" /\ mi \in Coders BY Typing DEF IInv, MixCreate
<1>1. /\ Main \in Coders /\ place[Main] = "none" /\ ~created[Main] /\ ~StartEvent[Main]
  BY <1>0, BondFacts, MainIsIdle
<1>2. UNCHANGED <<bindInfo, bond, Result, fault, pipe, ret, calls>> BY DEF MixCreate
<1>3. /\ StartEvent' = [StartEvent EXCEPT ![mi] = IF mi = Main THEN @ ELSE FALSE]
      /\ FinishedEvent' = [FinishedEvent EXCEPT ![mi] = IF mi = Main THEN @ ELSE FALSE]
      /\ Exit' = [Exit EXCEPT ![mi] = IF mi = Main THEN @ ELSE FALSE]
  BY <1>0, Typing DEF MixCreate, Event_Reset
<1>4. \/ /\ ForEach("create", "start")
         /\ created' = [created EXCEPT ![mi] = mi # Main]
         /\ place' = [place EXCEPT ![mi] = IF mi # Main /\ ~created[mi] THEN "start" ELSE @]
      \/ /\ mixer' = "failed" /\ mi' = mi
         /\ created' = created /\ place' = place
  BY DEF MixCreate
<1>5. TypeOK'
  <2>1. mi' \in Coders /\ mixer' \in {"create", "start", "failed"} BY <1>0, <1>4, LoopStep
  <2>2. /\ StartEvent' \in [Coders -> BOOLEAN] /\ FinishedEvent' \in [Coders -> BOOLEAN]
        /\ Exit' \in [Coders -> BOOLEAN] /\ created' \in [Coders -> BOOLEAN]
    BY <1>0, <1>3, <1>4, Typing
  <2>3. place' \in [Coders -> {"none", "start", "check", "run", "read", "write",
                               "release", "dead"}]
    BY <1>0, <1>4 DEF TypeOK
  <2> QED BY <2>1, <2>2, <2>3, <1>0, <1>2 DEF TypeOK, AllBonds
<1>6. \A d \in Coders \ {mi} : SameCoder(d) /\ SameThread(d)
  BY <1>0, <1>2, <1>3, <1>4, Typing DEF SameCoder, SameThread
<1>7. \A d \in Coders : SameEnds(d) BY <1>2 DEF SameEnds
<1>8. ASSUME NEW d \in Coders
      PROVE  CoderOK(d)' /\ ThreadOK(d)' /\ Phase(d)'
  <2>0. /\ CoderOK(d) /\ ThreadOK(d) /\ Ready(d) /\ ~Exit[d]
        /\ d < mi /\ d # Main => created[d]
    BY <1>0 DEF IInv, Phase, InCode
  <2>m. Main' = Main BY <1>2 DEF Main
  <2>1. CoderOK(d)' /\ ThreadOK(d)' /\ Ready(d)' /\ ~Exit'[d]
    <3>1. CASE d # mi BY <1>6, <1>7, <3>1, <2>0, <1>0, <1>2, LeftAlone DEF SameThread
    <3>2. CASE d = mi
      <4>0. /\ StartEvent'[d] = IF d = Main THEN StartEvent[d] ELSE FALSE
            /\ FinishedEvent'[d] = IF d = Main THEN FinishedEvent[d] ELSE FALSE
            /\ Exit'[d] = IF d = Main THEN Exit[d] ELSE FALSE
        BY <3>2, <1>0, <1>3, Typing
      <4>1. Unhurt(d)' BY <2>0, <1>2 DEF Ready, Unhurt, EndsOpen, Bonds
      <4>2. \/ created'[d] = created[d] /\ place'[d] = place[d]
            \/ /\ created'[d] = (d # Main)
               /\ place'[d] = IF d # Main /\ ~created[d] THEN "start" ELSE place[d]
        BY <3>2, <1>0, <1>4, Typing
      <4>3. d # Main => place[d] = IF created[d] THEN "start" ELSE "none"
        BY <2>0 DEF Ready, ThreadOK
      <4>4. CASE d = Main
        BY <4>0, <4>2, <4>4, <1>1, <1>0, <2>0, Typing, <4>1, <2>m DEF CoderOK, ThreadOK, Ready,
           Working
      <4>5. CASE d # Main
        <5>1. /\ StartEvent'[d] = FALSE /\ FinishedEvent'[d] = FALSE /\ ~Exit'[d]
              /\ place'[d] = IF created'[d] THEN "start" ELSE "none"
          BY <4>0, <4>2, <4>3, <4>5
        <5> QED BY <5>1, <4>1, <4>5, <2>m, <1>5 DEF CoderOK, ThreadOK, Ready, Working
      <4> QED BY <4>4, <4>5
    <3> QED BY <3>1, <3>2
  <2>2. CASE mixer' = "failed" BY <2>1, <2>2 DEF Phase, InCode
  <2>3. CASE ForEach("create", "start") /\ created' = [created EXCEPT ![mi] = mi # Main]
    <3>1. \/ mixer' = "start" /\ mi' = 0 /\ \A c \in Coders : c <= mi
          \/ mixer' = "create" /\ mi' = mi + 1
      BY <1>0, <2>3, LoopStep
    <3>2. d <= mi /\ d # Main => created'[d]
      <4>1. CASE d = mi BY <2>3, <4>1, <1>0, Typing
      <4>2. CASE d # mi BY <4>2, <1>0, Constants, <2>3, Typing, <2>0 DEF Coders
      <4> QED BY <4>1, <4>2
    <3>3. CASE mixer' = "start" /\ mi' = 0 /\ d <= mi
      BY <3>3, Constants, <3>2, <2>1, <2>m DEF Coders, Phase, InCode
    <3>4. CASE mixer' = "create" /\ mi' = mi + 1
      BY <3>4, <1>0, Constants, <3>2, <2>1, <2>m DEF Coders, Phase, InCode
    <3> QED BY <3>1, <3>3, <3>4
  <2> QED BY <2>2, <2>3, <1>4
<1>9. Mixer' BY <1>0, <1>4, LoopStep DEF Mixer
<1>a. \A c \in Coders : place[c] = "write" => place'[c] = "write"
  BY <1>0, <1>4, Typing DEF IInv, ThreadOK
<1> QED BY <1>2, <1>5, <1>8, <1>9, <1>a, CallerStep

LEMMA MixStartKeeps ==
    ASSUME IInv, MixStart
    PROVE  IInv'
<1>0. TypeOK /\ mixer = "start" /\ mi \in Coders BY Typing DEF IInv, MixStart, ForEach
<1>1. /\ Main \in Coders /\ place[Main] = "none" /\ ~created[Main] /\ ~StartEvent[Main]
  BY <1>0, BondFacts, MainIsIdle
<1>2. /\ UNCHANGED <<bindInfo, created, FinishedEvent, place, bond, Result, fault,
                     pipe, ret, calls>>
      /\ ForEach("start", "main")
  BY DEF MixStart
<1>3. /\ StartEvent' = [StartEvent EXCEPT ![mi] = IF mi = Main THEN @ ELSE TRUE]
      /\ Exit' = [Exit EXCEPT ![mi] = IF mi = Main THEN @ ELSE FALSE]
  BY <1>0, Typing DEF MixStart, Event_Set
<1>4. /\ \/ mixer' = "main" /\ mi' = 0 /\ \A c \in Coders : c <= mi
         \/ mixer' = "start" /\ mi' = mi + 1
      /\ mi' \in Coders
  BY <1>0, <1>2, LoopStep
<1>5. TypeOK'
  <2>1. StartEvent' \in [Coders -> BOOLEAN] /\ Exit' \in [Coders -> BOOLEAN]
    BY <1>0, <1>3, Typing
  <2> QED BY <2>1, <1>0, <1>2, <1>4 DEF TypeOK, AllBonds
<1>6. \A d \in Coders \ {mi} : SameCoder(d) /\ SameThread(d)
  BY <1>0, <1>2, <1>3, Typing DEF SameCoder, SameThread
<1>7. \A d \in Coders : SameEnds(d) BY <1>2 DEF SameEnds
<1>m. Main' = Main BY <1>2 DEF Main
<1>8. ASSUME NEW d \in Coders
      PROVE  CoderOK(d)' /\ ThreadOK(d)' /\ Phase(d)'
  <2>0. /\ CoderOK(d) /\ ThreadOK(d) /\ ~Exit[d] /\ (d # Main => created[d])
        /\ IF d < mi /\ d # Main THEN Launched(d) ELSE Ready(d)
    BY <1>0 DEF IInv, Phase, InCode
  <2>1. /\ CoderOK(d)' /\ ThreadOK(d)' /\ ~Exit'[d] /\ (d # Main => created'[d])
        /\ IF d <= mi /\ d # Main THEN Launched(d)' ELSE Ready(d)'
    <3>1. CASE d # mi
      BY <1>6, <1>7, <3>1, <2>0, <1>0, <1>2, LeftAlone, Constants DEF Coders, SameThread
    <3>2. CASE d = mi
      <4>0. /\ StartEvent'[d] = IF d = Main THEN StartEvent[d] ELSE TRUE
            /\ Exit'[d] = IF d = Main THEN Exit[d] ELSE FALSE
        BY <3>2, <1>0, <1>3, Typing
      <4>1. ~(d < mi) /\ d <= mi
        BY <3>2, <1>0, Constants DEF Coders
      <4>2. Ready(d)
        BY <2>0, <4>1
      <4>3. Unhurt(d)'
        BY <4>2, <1>2 DEF Ready, Unhurt, EndsOpen, Bonds
      <4>4. CASE d = Main
        BY <4>0, <4>2, <4>3, <4>4, <1>1, <1>2, <1>m, <2>0
           DEF CoderOK, ThreadOK, Ready, Working
      <4>5. CASE d # Main
        <5>1. /\ created'[d] /\ place'[d] = "start" /\ ~FinishedEvent'[d]
              /\ StartEvent'[d] = TRUE /\ ~Exit'[d]
          BY <4>0, <4>2, <4>5, <2>0, <1>2 DEF Ready
        <5> QED
          BY <5>1, <4>1, <4>3, <4>5, <1>m DEF CoderOK, ThreadOK, Launched, Working
      <4> QED
        BY <4>4, <4>5
    <3> QED BY <3>1, <3>2
  <2>2. CASE mixer' = "main" /\ mi' = 0 /\ d <= mi BY <2>1, <2>2, <1>m DEF Phase, InCode
  <2>3. CASE mixer' = "start" /\ mi' = mi + 1
    BY <2>3, <1>0, Constants, <2>1, <1>m DEF Coders, Phase, InCode
  <2> QED BY <2>1, <2>2, <2>3, <1>4
<1>9. Mixer' BY <1>4 DEF Mixer
<1> QED BY <1>2, <1>5, <1>8, <1>9, CallerStep

LEMMA MixMainKeeps ==
    ASSUME IInv, MixMain
    PROVE  IInv'
<1>0. TypeOK /\ mixer = "main" /\ place[Main] = "none" /\ Main \in Coders
  BY BondFacts DEF IInv, MixMain
<1>1. /\ place' = [place EXCEPT ![Main] = "run"]
      /\ UNCHANGED <<bindInfo, threadVars, bond, Result, fault, pipe, callVars>>
  BY DEF MixMain, Goto
<1>2. TypeOK' BY <1>0, <1>1 DEF TypeOK, threadVars, callVars, AllBonds
<1>3. Main' = Main /\ place'[Main] = "run" BY <1>0, <1>1, Typing DEF Main
<1>4. \A d \in Coders : SameThread(d) /\ SameEnds(d)
  BY <1>1 DEF SameThread, SameEnds, threadVars
<1>5. \A d \in Coders \ {Main} : CoderOK(d)' /\ ThreadOK(d)' /\ Phase(d)'
  BY <1>0, <1>1, Typing, <1>4, OtherThread DEF SameCoder, IInv, callVars
<1>6. CoderOK(Main)' /\ ThreadOK(Main)' /\ Phase(Main)'
  <2>0. ThreadOK(Main) /\ Phase(Main)
    BY <1>0 DEF IInv
  <2>1. Unhurt(Main) /\ ~created[Main] /\ ~StartEvent[Main] /\ ~Exit[Main]
    BY <1>0, <2>0 DEF ThreadOK, Phase, Ready, InCode
  <2>2. Unhurt(Main)'
    BY <1>1, <1>3, <2>1 DEF Unhurt, EndsOpen, Bonds
  <2>3. CoderOK(Main)'
    BY <1>3, <2>2 DEF CoderOK
  <2>4. mixer' = "main" /\ created' = created /\ StartEvent' = StartEvent /\ Exit' = Exit
    BY <1>0, <1>1 DEF callVars, threadVars
  <2>5. ThreadOK(Main)'
    BY <1>3, <2>1, <2>4 DEF ThreadOK, Working
  <2>6. Phase(Main)'
    BY <1>3, <2>1, <2>4 DEF Phase, InCode
  <2> QED
    BY <2>3, <2>5, <2>6
<1>7. Mixer' BY <1>0, <1>1 DEF IInv, Mixer, callVars
<1>8. \A c \in Coders : place[c] = "write" => place'[c] = "write" BY <1>0, <1>1, Typing
<1> QED BY <1>1, <1>2, <1>3, <1>5, <1>6, <1>7, <1>8, CallerStep

LEMMA MixMainDoneKeeps ==
    ASSUME IInv, MixMainDone
    PROVE  IInv'
<1>0. /\ TypeOK /\ place[Main] = "release" /\ Main \in Coders /\ Held(Main) = {}
      /\ CoderOK(Main) /\ ThreadOK(Main) /\ Phase(Main)
  BY BondFacts DEF IInv, MixMainDone
<1>1. mixer = "main" /\ mi = 0 BY <1>0 DEF ThreadOK, IInv, Mixer
<1>2. /\ place' = [place EXCEPT ![Main] = "none"]
      /\ mixer' = IF fault[Main] = "throw" THEN "failed" ELSE "wait"
      /\ UNCHANGED <<bindInfo, threadVars, bond, Result, fault, pipe, mi, ret, calls>>
  BY DEF MixMainDone, Goto
<1>3. TypeOK' BY <1>0, <1>2 DEF TypeOK, threadVars, AllBonds
<1>4. Main' = Main /\ place'[Main] = "none" BY <1>0, <1>2, Typing DEF Main
<1>5. \A d \in Coders : SameThread(d) /\ SameEnds(d)
  BY <1>2 DEF SameThread, SameEnds, threadVars
<1>6. \A d \in Coders \ {Main} : CoderOK(d)' /\ ThreadOK(d)' /\ Phase(d)'
  BY <1>0, <1>2, Typing, <1>5, LeftAlone, <1>1, Constants, <1>4 DEF SameCoder, IInv, Phase,
     InCode, threadVars, Coders
<1>7. CoderOK(Main)' /\ ThreadOK(Main)' /\ Phase(Main)'
  <2>1. ~created[Main] /\ ~StartEvent[Main] /\ ~Exit[Main]
    BY <1>0, <1>1 DEF ThreadOK, Phase, InCode
  <2>2. Done(Main)
    BY <1>0 DEF CoderOK, Done, EndsClosed, Held, Ins, Outs
  <2>3. Done(Main)'
    BY <2>2, <1>2, <1>4 DEF Done, EndsClosed, ResultOK, HeardEof, Bonds
  <2>4. CoderOK(Main)'
    BY <1>4 DEF CoderOK, Working
  <2>5. created' = created /\ StartEvent' = StartEvent /\ Exit' = Exit /\ fault' = fault
    BY <1>2 DEF threadVars
  <2>6. ThreadOK(Main)'
    BY <1>4, <2>1, <2>5 DEF ThreadOK
  <2>7. Phase(Main)'
    BY <1>2, <1>4, <2>1, <2>3, <2>5 DEF Phase, InCode
  <2> QED
    BY <2>4, <2>6, <2>7
<1>8. Mixer' BY <1>2 DEF Mixer
<1>9. \A c \in Coders : place[c] = "write" => place'[c] = "write" BY <1>0, <1>2, Typing
<1> QED BY <1>2, <1>3, <1>4, <1>6, <1>7, <1>8, <1>9, CallerStep

LEMMA MixWaitKeeps ==
    ASSUME IInv, MixWait
    PROVE  IInv'
<1>0. TypeOK /\ mixer = "wait" /\ mi \in Coders BY Typing DEF IInv, MixWait, ForEach
<1>1. Main \in Coders BY <1>0, BondFacts
<1>2. /\ UNCHANGED <<bindInfo, created, StartEvent, Exit, place, bond, Result, fault,
                     pipe, ret, calls>>
      /\ ForEach("wait", "result")
  BY DEF MixWait
<1>3. /\ mi # Main => FinishedEvent[mi]
      /\ FinishedEvent' = [FinishedEvent EXCEPT ![mi] = IF mi = Main THEN @ ELSE FALSE]
  BY <1>0, Typing DEF MixWait, Waited, Event_Wait, Event_CanWait
<1>4. /\ \/ mixer' = "result" /\ mi' = 0 /\ \A c \in Coders : c <= mi
         \/ mixer' = "wait" /\ mi' = mi + 1
      /\ mi' \in Coders
  BY <1>0, <1>2, LoopStep
<1>5. TypeOK'
  <2>1. FinishedEvent' \in [Coders -> BOOLEAN] BY <1>0, <1>3, Typing
  <2> QED BY <2>1, <1>0, <1>2, <1>4 DEF TypeOK, AllBonds
<1>6. /\ \A d \in Coders : SameCoder(d) /\ SameEnds(d)
      /\ \A d \in Coders \ {mi} : SameThread(d)
  BY <1>0, <1>2, <1>3, Typing DEF SameCoder, SameThread, SameEnds
<1>m. Main' = Main BY <1>2 DEF Main
<1>8. ASSUME NEW d \in Coders
      PROVE  CoderOK(d)' /\ ThreadOK(d)' /\ Phase(d)'
  <2>0. /\ CoderOK(d) /\ ThreadOK(d) /\ ~Exit[d] /\ (d # Main => created[d])
        /\ d # Main => IF d < mi THEN Back(d) ELSE Launched(d)
        /\ d = Main => Done(d) /\ fault[d] # "throw"
    BY <1>0 DEF IInv, Phase, InCode
  <2>1. CoderOK(d)' /\ (Done(d) <=> Done(d)')
    BY <1>2, <1>6, <2>0, OtherCoder
  <2>2. ThreadOK(d)'
    BY <2>0, <1>0, <1>2, <1>4, <1>m, <2>1 DEF ThreadOK, Unhurt, EndsOpen, Bonds
  <2>3. d # Main => IF d <= mi THEN Back(d)' ELSE Launched(d)'
    <3>1. CASE d # mi
      <4>1. SameCoder(d) /\ SameThread(d) /\ SameEnds(d)
        BY <1>6, <3>1
      <4>2. /\ (Back(d) <=> Back(d)') /\ (Launched(d) <=> Launched(d)')
        BY <4>1, <2>0, <1>0, <1>2, LeftAlone
      <4>3. d < mi <=> d <= mi
        BY <3>1, <1>0, Constants DEF Coders
      <4> QED
        BY <4>2, <4>3, <2>0
    <3>2. CASE d = mi /\ d # Main
      <4>1. ~(d < mi) /\ d <= mi
        BY <3>2, <1>0, Constants DEF Coders
      <4>2. Launched(d) /\ FinishedEvent[d] /\ FinishedEvent'[d] = FALSE
        BY <2>0, <4>1, <3>2, <1>0, <1>3, Typing
      <4> QED
        BY <4>1, <4>2, <2>1, <1>2 DEF Launched, Back
    <3> QED
      BY <3>1, <3>2
  <2>4. ~Exit'[d] /\ (d # Main => created'[d]) /\ fault'[d] = fault[d]
    BY <2>0, <1>2
  <2>5. CASE mixer' = "result" /\ mi' = 0 /\ d <= mi
    BY <2>0, <2>1, <2>2, <2>3, <2>4, <2>5, <1>m DEF Phase, InCode
  <2>6. CASE mixer' = "wait" /\ mi' = mi + 1
    <3>1. d < mi' <=> d <= mi
      BY <2>6, <1>0, Constants DEF Coders
    <3> QED
      BY <3>1, <2>0, <2>1, <2>2, <2>3, <2>4, <2>6, <1>m DEF Phase, InCode
  <2> QED
    BY <2>1, <2>2, <2>5, <2>6, <1>4
<1>9. Mixer' BY <1>4 DEF Mixer
<1> QED BY <1>2, <1>5, <1>8, <1>9, CallerStep

-----------------------------------------------------------------------------
(* The result of Code.                                                     *)

(* A nonempty set of natural numbers has a least element. *)
LEMMA LeastNumber ==
    ASSUME NEW T \in SUBSET Nat, T # {}
    PROVE  \E x \in T : \A y \in T : x <= y
<1>1. IsWellFoundedOn(OpToRel(<, Nat), Nat) BY NatLessThanWellFounded
<1>2. PICK x \in T : \A y \in T : <<y, x>> \notin OpToRel(<, Nat) BY <1>1, WFMin
<1>3. \A y \in T : ~(y < x) BY <1>2 DEF OpToRel
<1>4. \A y \in T : x <= y BY <1>3
<1> QED BY <1>4

LEMMA FirstOfFacts ==
    ASSUME NEW results
    PROVE  \/ FirstOf(results) = "ok" /\ \A c \in Coders : Result[c] \notin results
           \/ \E c \in Coders : Result[c] \in results /\ FirstOf(results) = Result[c]
<1> DEFINE found == {c \in Coders : Result[c] \in results}
           first == CHOOSE c \in found : \A d \in found : c <= d
<1>1. FirstOf(results) = IF found = {} THEN "ok" ELSE Result[first] BY DEF FirstOf
<1>2. CASE found = {} BY <1>1, <1>2
<1>3. CASE found # {}
  <2>1. found \in SUBSET Nat BY Constants DEF Coders
  <2>2. \E c \in found : \A d \in found : c <= d BY <1>3, <2>1, LeastNumber
  <2>3. first \in found BY <2>2
  <2> HIDE DEF first
  <2> QED BY <1>1, <1>3, <2>3
<1> QED BY <1>2, <1>3

(* The results in their order of weight: the one that Code returns is the  *)
(* result of some coder, and none has a result of more weight.             *)
LEMMA MixerResultFacts ==
    ASSUME TypeOK
    PROVE  /\ MixerResult \in {"ok", "abort", "memory", "other", "data", "fail"}
           /\ MixerResult # "ok" => \E c \in Coders : Result[c] = MixerResult
           /\ MixerResult # "abort" => \A c \in Coders : Result[c] # "abort"
           /\ MixerResult \notin {"abort", "memory"} =>
                  \A c \in Coders : Result[c] # "memory"
           /\ MixerResult \notin {"abort", "memory", "other"} =>
                  \A c \in Coders : Result[c] # "other"
           /\ MixerResult \in {"ok", "fail"} => \A c \in Coders : Result[c] # "data"
           /\ MixerResult = "ok" => \A c \in Coders : Result[c] \in {"unset", "ok", "cut"}
<1> DEFINE weight == <<{"abort"}, {"memory"}, {"other"}, {"data"}, {"fail"}>>
           some == {n \in 1..5 : FirstOf(weight[n]) # "ok"}
           top == CHOOSE n \in some : \A m \in some : n <= m
<1>1. MixerResult = IF some = {} THEN "ok" ELSE FirstOf(weight[top]) BY DEF MixerResult
<1>2. /\ weight[1] = {"abort"} /\ weight[2] = {"memory"} /\ weight[3] = {"other"}
      /\ weight[4] = {"data"} /\ weight[5] = {"fail"}
  OBVIOUS
<1> HIDE DEF weight
<1>3. \A n \in 1..5 : weight[n] \subseteq {"abort", "memory", "other", "data", "fail"} BY <1>2
<1>4. \A n \in (1..5) \ some : \A c \in Coders : Result[c] \notin weight[n]
  BY <1>3, FirstOfFacts
<1>5. CASE some = {}
  <2>1. MixerResult = "ok"
    BY <1>1, <1>5
  <2>2. \A c \in Coders : Result[c] \notin {"abort", "memory", "other", "data", "fail"}
    BY <1>2, <1>4, <1>5
  <2>3. \A c \in Coders : Result[c] \in Results
    BY DEF TypeOK
  <2> QED
    BY <2>1, <2>2, <2>3 DEF Results
<1>6. CASE some # {}
  <2>1. top \in some /\ \A m \in some : top <= m
    <3>1. some \in SUBSET Nat
      OBVIOUS
    <3>2. \E n \in some : \A m \in some : n <= m
      BY <1>6, <3>1, LeastNumber
    <3> QED
      BY <3>2
  <2>2. \A m \in 1..5 : m < top => m \notin some
    BY <2>1
  <2>3. top \in 1..5 /\ MixerResult = FirstOf(weight[top]) /\ FirstOf(weight[top]) # "ok"
    BY <1>1, <1>6, <2>1
  <2> HIDE DEF top, some
  <2>4. PICK c \in Coders : Result[c] \in weight[top] /\ MixerResult = Result[c]
    BY <2>3, FirstOfFacts
  <2>5. \A m \in 1..5 : m < top => \A d \in Coders : Result[d] \notin weight[m]
    BY <1>4, <2>2
  <2>6. \/ top = 1 /\ MixerResult = "abort"
        \/ top = 2 /\ MixerResult = "memory" /\ 1 < top
        \/ top = 3 /\ MixerResult = "other" /\ 1 < top /\ 2 < top
        \/ top = 4 /\ MixerResult = "data"
        \/ top = 5 /\ MixerResult = "fail" /\ 4 < top
              /\ 1 < top /\ 2 < top /\ 3 < top
    <3>1. top = 1 \/ top = 2 \/ top = 3 \/ top = 4 \/ top = 5
      BY <2>3
    <3> QED
      BY <3>1, <1>2, <2>4
  <2>7. /\ 1 < top => \A d \in Coders : Result[d] # "abort"
        /\ 2 < top => \A d \in Coders : Result[d] # "memory"
        /\ 3 < top => \A d \in Coders : Result[d] # "other"
        /\ 4 < top => \A d \in Coders : Result[d] # "data"
    BY <1>2, <2>5
  <2> QED
    BY <2>4, <2>6, <2>7
<1> QED BY <1>5, <1>6

LEMMA SameResult ==
    ASSUME Result' = Result
    PROVE  MixerResult' = MixerResult
BY DEF MixerResult, FirstOf

LEMMA MixResultKeeps ==
    ASSUME IInv, MixResult
    PROVE  IInv'
<1>0. TypeOK /\ mixer = "result" /\ mi = 0
  BY DEF IInv, MixResult, Mixer
<1>1. /\ mixer' = "idle" /\ ret' = MixerResult
      /\ UNCHANGED <<bindInfo, threadVars, place, bond, Result, fault, pipe, mi, calls>>
  BY DEF MixResult
<1>2. TypeOK'
  <2>1. MixerResult \in Results
    BY <1>0, MixerResultFacts DEF Results
  <2> QED
    BY <2>1, <1>0, <1>1 DEF TypeOK, threadVars, AllBonds
<1>3. ASSUME NEW d \in Coders
      PROVE  CoderOK(d)' /\ ThreadOK(d)' /\ Phase(d)'
  <2>0. SameCoder(d) /\ SameThread(d) /\ SameEnds(d)
    BY <1>1 DEF SameCoder, SameThread, SameEnds, threadVars
  <2>1. /\ CoderOK(d)' /\ ThreadOK(d)' /\ Main' = Main
        /\ (Done(d) <=> Done(d)') /\ (Back(d) <=> Back(d)')
    BY <2>0, <1>0, <1>1, LeftAlone DEF IInv
  <2>2. Phase(d)
    BY DEF IInv
  <2>3. /\ ~Exit[d] /\ (d # Main => created[d] /\ Back(d))
        /\ d = Main => Done(d) /\ fault[d] # "throw"
    BY <2>2, <1>0 DEF Phase, InCode
  <2>4. ~Exit'[d] /\ (d # Main => created'[d]) /\ fault'[d] = fault[d]
    BY <2>0, <2>3 DEF SameThread, SameCoder
  <2> QED
    BY <2>1, <2>3, <2>4, <1>1 DEF Phase, InCode
<1>4. Mixer'
  <2>1. MixerResult' = MixerResult
    BY <1>1, SameResult
  <2> QED
    BY <2>1, <1>0, <1>1 DEF Mixer
<1> QED
  BY <1>1, <1>2, <1>3, <1>4, CallerStep

(* Between two calls all bonds are closed: they may be reset.              *)
LEMMA AllAreBack ==
    ASSUME IInv, mixer \in {"result", "idle"}
    PROVE  /\ \A c \in Coders : Done(c) /\ fault[c] \in {"none"} \cup Returned
           /\ \A c \in Coders : fault[c] # "none" => Result[c] = fault[c]
           /\ \A b \in Bonds : ~pipe[b].rOpen /\ ~pipe[b].wOpen
           /\ \A c \in Coders : Ready(c) <=> Unhurt(c)
           /\ \A c \in Coders : ~StartEvent[c] /\ ~Exit[c] /\ place[c] \in {"start", "none"}
           /\ \A c \in Coders : created[c] => place[c] = "start" /\ ~FinishedEvent[c]
  BY BondFacts, MainIsIdle DEF IInv, Phase, Back, Done, ResultOK, EndsClosed, InCode, Ready

LEMMA MixAgainKeeps ==
    ASSUME IInv, MixAgain
    PROVE  IInv'
<1>0. TypeOK /\ mixer = "idle" /\ mi = 0 /\ Bonds \subseteq AllBonds
  BY BondFacts DEF IInv, MixAgain, Mixer
<1>1. /\ pipe' = [b \in AllBonds |-> IF b \in Bonds THEN FreshPipe ELSE pipe[b]]
      /\ fault' = [c \in Coders |-> "none"]
      /\ mixer' = "create" /\ ret' = "none" /\ calls' = calls + 1 /\ calls < MaxCalls
      /\ UNCHANGED <<bindInfo, threadVars, place, bond, Result, mi>>
  BY DEF MixAgain
<1>2. FreshPipe \in PipeRecs BY Constants DEF FreshPipe, PipeRecs
<1>3. TypeOK' BY <1>0, <1>1, <1>2, Typing, Constants DEF TypeOK, PipeRecs, threadVars, AllBonds
<1>4. Bonds' = Bonds /\ AllBonds' = AllBonds /\ Main' = Main BY <1>1 DEF Bonds, AllBonds, Main
<1>5. \A b \in Bonds : pipe'[b] = FreshPipe BY <1>0, <1>1
<1>6. \A b \in AllBonds : PipeOK(b)' BY <1>4, <1>5, Constants, <1>1 DEF FreshPipe, PipeOK, IInv
<1>7. ASSUME NEW d \in Coders
      PROVE  CoderOK(d)' /\ ThreadOK(d)' /\ Phase(d)'
  <2>0. ThreadOK(d) /\ (d = Main => place[d] = "none")
    BY <1>0, MainIsIdle DEF IInv
  <2>1. /\ ~StartEvent'[d] /\ ~Exit'[d] /\ place'[d] \in {"start", "none"}
        /\ created'[d] => place'[d] = "start" /\ ~FinishedEvent'[d]
    BY <1>0, <1>1, AllAreBack DEF threadVars
  <2>2. Unhurt(d)'
    <3>1. \A b \in Bonds : pipe'[b].rOpen /\ pipe'[b].wOpen
      BY <1>5 DEF FreshPipe
    <3> QED
      BY <3>1, <1>1, <1>4 DEF Unhurt, EndsOpen
  <2>3. CoderOK(d)'
    BY <2>1 DEF CoderOK, Working
  <2>4. ThreadOK(d)'
    BY <2>0, <2>1, <1>1, <1>4 DEF ThreadOK, threadVars
  <2>5. ~(d < mi')
    BY <1>0, <1>1, Constants DEF Coders
  <2>6. Phase(d)'
    BY <2>1, <2>2, <2>5, <1>1 DEF Phase, Ready, InCode
  <2> QED
    BY <2>3, <2>4, <2>6
<1>8. Mixer' BY <1>1 DEF Mixer
<1> QED BY <1>3, <1>4, <1>6, <1>7, <1>8 DEF IInv

-----------------------------------------------------------------------------
(* The destructor.                                                         *)

LEMMA MixDestroyKeeps ==
    ASSUME IInv, MixDestroy
    PROVE  IInv'
<1>0. TypeOK /\ mixer \in {"idle", "failed"} BY DEF IInv, MixDestroy
<1>1. /\ mixer' = "signal" /\ mi' = NumCoders - 1
      /\ UNCHANGED <<bindInfo, threadVars, place, bond, Result, fault, pipe, ret, calls>>
  BY DEF MixDestroy
<1>2. TypeOK' BY <1>1, Constants, <1>0 DEF Coders, TypeOK, threadVars, AllBonds
<1>3. ASSUME NEW d \in Coders
      PROVE  CoderOK(d)' /\ ThreadOK(d)' /\ Phase(d)'
  BY <1>1, <1>0, LeftAlone DEF SameCoder, SameThread, SameEnds, threadVars, IInv, Phase, InCode
<1>4. Mixer' BY <1>1 DEF Mixer
<1> QED BY <1>1, <1>2, <1>3, <1>4, CallerStep

LEMMA MixSignalKeeps ==
    ASSUME IInv, MixSignal
    PROVE  IInv'
<1>0. TypeOK /\ mixer = "signal" /\ mi \in Coders BY Typing DEF IInv, MixSignal
<1>1. /\ mixer' = "join"
      /\ Exit' = [Exit EXCEPT ![mi] = TRUE]
      /\ StartEvent' = [StartEvent EXCEPT ![mi] = IF created[mi] THEN TRUE ELSE @]
      /\ UNCHANGED <<bindInfo, created, FinishedEvent, place, bond, Result, fault,
                     pipe, mi, ret, calls>>
  BY DEF MixSignal, Event_Set
<1>2. TypeOK'
  <2>1. Exit' \in [Coders -> BOOLEAN] /\ StartEvent' \in [Coders -> BOOLEAN]
    BY <1>0, <1>1, Typing
  <2> QED BY <2>1, <1>0, <1>1 DEF TypeOK, AllBonds
<1>3. ASSUME NEW d \in Coders
      PROVE  CoderOK(d)' /\ ThreadOK(d)' /\ Phase(d)'
  BY <1>1, <1>0, Typing, LeftAlone, OtherCoder DEF IInv, Main, SameCoder, SameThread, SameEnds,
     Phase, InCode, ThreadOK
<1>4. Mixer' BY <1>1 DEF Mixer
<1> QED BY <1>1, <1>2, <1>3, <1>4, CallerStep

LEMMA MixJoinKeeps ==
    ASSUME IInv, MixJoin
    PROVE  IInv'
<1>0. TypeOK /\ mixer = "join" /\ mi \in Coders /\ (~created[mi] \/ place[mi] = "dead")
  BY Typing DEF IInv, MixJoin
<1>1. /\ mixer' = "close"
      /\ UNCHANGED <<bindInfo, threadVars, place, bond, Result, fault, pipe, mi, ret, calls>>
  BY DEF MixJoin
<1>2. TypeOK'
  BY <1>0, <1>1 DEF TypeOK, threadVars, AllBonds
<1>3. ASSUME NEW d \in Coders
      PROVE  CoderOK(d)' /\ ThreadOK(d)' /\ Phase(d)'
  <2>1. SameCoder(d) /\ SameThread(d) /\ SameEnds(d)
    BY <1>1 DEF SameCoder, SameThread, SameEnds, threadVars
  <2>2. CoderOK(d)' /\ ThreadOK(d)'
    BY <2>1, <1>0, <1>1, LeftAlone DEF IInv
  <2> QED
    BY <2>2, <1>1 DEF Phase, InCode
<1>4. Mixer'
  <2>1. ThreadOK(mi)
    BY <1>0 DEF IInv
  <2>2. place[mi] \in {"none", "dead"}
    BY <2>1, <1>0 DEF ThreadOK
  <2> QED
    BY <2>2, <1>1 DEF Mixer
<1> QED
  BY <1>1, <1>2, <1>3, <1>4, CallerStep

LEMMA MixCloseKeeps ==
    ASSUME IInv, MixClose
    PROVE  IInv'
<1>0. /\ TypeOK /\ mixer = "close" /\ mi \in Coders /\ place[mi] \in {"none", "dead"}
      /\ CoderOK(mi) /\ ThreadOK(mi)
  BY Typing DEF IInv, MixClose, Mixer
<1>1. UNCHANGED <<bindInfo, threadVars, place, bond, Result, fault, ret, calls>>
  BY DEF MixClose
<1>m. Main' = Main /\ AllBonds' = AllBonds BY <1>1 DEF Main, AllBonds
<1>2. CASE UNCHANGED <<mixer, mi>> /\ \E b \in Bonds : \/ Reader(b) = mi /\ CloseIn(b)
                                                       \/ Writer(b) = mi /\ CloseOut(b)
  <2>1. /\ pipe' \in [AllBonds -> PipeRecs]
        /\ OthersSame(mi) /\ SameThread(mi) /\ SameCoder(mi)
        /\ \A x \in AllBonds : PipeOK(x)'
    BY <1>0, <1>1, <1>2, CloseEnd
  <2>2. TypeOK' BY <1>0, <1>1, <1>2, <2>1 DEF TypeOK, PipeRecs, threadVars, AllBonds
  <2>3. ASSUME NEW d \in Coders
        PROVE  CoderOK(d)' /\ ThreadOK(d)' /\ Phase(d)'
    BY <2>1, <1>1, <1>2, OtherThread, <1>0, <1>m DEF OthersSame, IInv, CoderOK, Working,
       ThreadOK, threadVars, Phase, InCode
  <2>4. Mixer' BY <1>0, <1>1, <1>2 DEF Mixer
  <2> QED BY <2>1, <2>2, <2>3, <2>4, <1>m DEF IInv
<1>3. CASE /\ mixer' = IF mi = 0 THEN "dead" ELSE "signal"
           /\ mi' = IF mi = 0 THEN mi ELSE mi - 1
           /\ UNCHANGED pipe
  <2>1. TypeOK'
    <3>1. mi' \in Coders
      BY <1>0, <1>3, Constants DEF Coders
    <3> QED
      BY <3>1, <1>0, <1>1, <1>3 DEF TypeOK, threadVars, AllBonds
  <2>2. ASSUME NEW d \in Coders
        PROVE  CoderOK(d)' /\ ThreadOK(d)' /\ Phase(d)'
    <3>1. SameCoder(d) /\ SameThread(d) /\ SameEnds(d)
      BY <1>1, <1>3 DEF SameCoder, SameThread, SameEnds, threadVars
    <3>2. CoderOK(d)' /\ ThreadOK(d)'
      BY <3>1, <1>0, <1>1, LeftAlone DEF IInv
    <3> QED
      BY <3>2, <1>3 DEF Phase, InCode
  <2>3. Mixer'
    BY <1>3 DEF Mixer
  <2> QED
    BY <1>1, <1>3, <2>1, <2>2, <2>3, CallerStep
<1> QED BY <1>2, <1>3 DEF MixClose, Ins, Outs

LEMMA StutterKeeps ==
    ASSUME IInv, UNCHANGED vars
    PROVE  IInv'
  BY OtherThread, SameResult, CallerStep DEF vars, IInv, TypeOK, threadVars, callVars, AllBonds,
    SameCoder, SameThread, SameEnds, Mixer

-----------------------------------------------------------------------------
LEMMA InitIInv == Init => IInv
<1> SUFFICES ASSUME Init PROVE IInv
  OBVIOUS
<1>1. FreshPipe \in PipeRecs
  BY Constants DEF FreshPipe, PipeRecs
<1>2. TypeOK
  <2>1. pipe \in [AllBonds -> PipeRecs]
    BY <1>1 DEF Init
  <2>2. mi \in Coders /\ calls \in 1..MaxCalls
    BY Constants DEF Init, Coders
  <2> QED
    BY <2>1, <2>2 DEF Init, TypeOK, PipeRecs, Results
<1>3. \A b \in AllBonds : /\ pipe[b].taken = 0 /\ pipe[b].acked = 0 /\ pipe[b].asked = 0
                          /\ pipe[b].rOpen /\ pipe[b].wOpen
  BY DEF Init, FreshPipe
<1>4. \A b \in AllBonds : PipeOK(b)
  BY <1>3, Constants DEF PipeOK
<1>5. ASSUME NEW c \in Coders PROVE CoderOK(c) /\ ThreadOK(c) /\ Phase(c)
  <2>1. /\ created[c] = FALSE /\ StartEvent[c] = FALSE /\ FinishedEvent[c] = FALSE
        /\ Exit[c] = FALSE /\ place[c] = "none" /\ fault[c] = "none"
        /\ mixer = "create" /\ mi = 0
    BY DEF Init
  <2>2. Unhurt(c)
    BY <2>1, <1>2, <1>3, BondFacts DEF Unhurt, EndsOpen
  <2>3. ~(c < mi)
    BY <2>1, Constants DEF Coders
  <2> QED
    BY <2>1, <2>2, <2>3 DEF CoderOK, ThreadOK, Phase, Ready, Working, InCode
<1>6. Mixer
  BY DEF Init, Mixer
<1> QED
  BY <1>2, <1>4, <1>5, <1>6 DEF IInv

LEMMA NextKeeps ==
    ASSUME IInv, [Next]_vars
    PROVE  IInv'
<1>1. ASSUME NEW c \in Coders, CoderThread(c) PROVE IInv'
  BY <1>1, WaitStartKeeps, CheckExitKeeps, SetFinishedKeeps, WorkKeeps DEF CoderThread
<1>2. CASE InCall
  <2>1. Main \in Coders
    BY BondFacts DEF IInv
  <2> QED
    BY <1>2, <2>1, MixCreateKeeps, MixStartKeeps, MixMainKeeps, MixMainDoneKeeps,
       MixWaitKeeps, MixResultKeeps, MixSignalKeeps, MixJoinKeeps, MixCloseKeeps,
       WorkKeeps DEF InCall
<1>3. CASE MixAgain
  BY <1>3, MixAgainKeeps
<1>4. CASE MixDestroy
  BY <1>4, MixDestroyKeeps
<1>5. CASE Destroyed \/ UNCHANGED vars
  BY <1>5, StutterKeeps DEF Destroyed
<1> QED
  BY <1>1, <1>2, <1>3, <1>4, <1>5 DEF Next, Caller

-----------------------------------------------------------------------------
(* The rules of the pipes.                                                 *)

PipeSteps == \A b \in AllBonds : [Pipe(b)!Next]_(pipe[b])

(* A step that changes one pipe, field by field as in BytePipe.            *)
LEMMA OnePipe ==
    ASSUME NEW b \in AllBonds, \A x \in AllBonds \ {b} : pipe'[x] = pipe[x],
           Pipe(b)!Next
    PROVE  PipeSteps
BY DEF PipeSteps

LEMMA NoPipe ==
    ASSUME UNCHANGED pipe
    PROVE  PipeSteps
BY DEF PipeSteps

LEMMA EndReadRules ==
    ASSUME IInv, NEW c \in Coders, EndRead(c)
    PROVE  PipeSteps
<1>0. TypeOK /\ CoderOK(c) /\ Unhurt(c) /\ place[c] = "read"
  BY DEF IInv, CoderOK, EndRead, Working
<1>b. PICK b : b = bond[c] OBVIOUS
<1>1. b \in Bonds /\ b \in AllBonds /\ Reader(b) = c /\ pipe[b].rOpen /\ pipe[b].eof = FALSE
  BY <1>0, <1>b, BondFacts, Typing DEF CoderOK, Unhurt, EndsOpen, PipeRecs
<1>2. pipe[b] \in PipeRecs /\ PipeOK(b) BY <1>0, <1>1, Typing DEF IInv
<1>3. CASE \E count \in 1..MaxRead :
              /\ pipe[b].taken + count <= pipe[b].acked + pipe[b].asked
              /\ pipe' = [pipe EXCEPT ![b].taken = @ + count]
  <2>1. PICK count \in 1..MaxRead :
              /\ pipe[b].taken + count <= pipe[b].acked + pipe[b].asked
              /\ pipe' = [pipe EXCEPT ![b].taken = @ + count]
    BY <1>3
  <2>2. pipe'[b] = [pipe[b] EXCEPT !.taken = pipe[b].taken + count] BY <2>1, <1>0, <1>1, Typing
  <2>3. pipe[b].asked # 0 BY <2>1, <1>2, Constants DEF PipeOK, PipeRecs
  <2>4. /\ pipe'[b].taken = pipe[b].taken + count
        /\ pipe'[b].acked = pipe[b].acked /\ pipe'[b].asked = pipe[b].asked
        /\ pipe'[b].cut = pipe[b].cut /\ pipe'[b].eof = FALSE
        /\ pipe'[b].rOpen = pipe[b].rOpen /\ pipe'[b].wOpen = pipe[b].wOpen
    BY <2>2, <1>1, <1>2 DEF PipeRecs
  <2>5. Pipe(b)!Take(count) BY <2>1, <2>3, <2>4, <1>1 DEF Pipe!Take
  <2>6. Pipe(b)!Next BY <2>5 DEF Pipe!Next
  <2>7. \A x \in AllBonds \ {b} : pipe'[x] = pipe[x] BY <2>1, <1>0, Typing
  <2> QED BY <2>6, <2>7, <1>1, OnePipe
<1>4. CASE /\ ~pipe[b].wOpen /\ pipe[b].taken = pipe[b].acked
           /\ pipe' = [pipe EXCEPT ![b].eof = TRUE]
  <2>2. pipe'[b] = [pipe[b] EXCEPT !.eof = TRUE] BY <1>4, <1>0, <1>1, Typing
  <2>4. /\ pipe'[b].taken = pipe[b].taken
        /\ pipe'[b].acked = pipe[b].acked /\ pipe'[b].asked = pipe[b].asked
        /\ pipe'[b].cut = pipe[b].cut /\ pipe'[b].eof = TRUE
        /\ pipe'[b].rOpen = pipe[b].rOpen /\ pipe'[b].wOpen = pipe[b].wOpen
    BY <2>2, <1>2 DEF PipeRecs
  <2>5. Pipe(b)!ReadEof BY <2>4, <1>1, <1>4 DEF Pipe!ReadEof
  <2>6. Pipe(b)!Next BY <2>5 DEF Pipe!Next
  <2>7. \A x \in AllBonds \ {b} : pipe'[x] = pipe[x] BY <1>4, <1>0, Typing
  <2> QED BY <2>6, <2>7, <1>1, OnePipe
<1> QED BY <1>3, <1>4, <1>b DEF EndRead

LEMMA BeginWriteRules ==
    ASSUME IInv, NEW c \in Coders, BeginWrite(c)
    PROVE  PipeSteps
  BY BondFacts, Typing, OneWrite, OnePipe DEF IInv, CoderOK, BeginWrite, Working, Unhurt,
    EndsOpen, PipeRecs, Pipe!BeginWrite, Pipe!Next

LEMMA EndWriteRules ==
    ASSUME IInv, NEW c \in Coders, EndWrite(c)
    PROVE  PipeSteps
<1>0. TypeOK /\ CoderOK(c) /\ Unhurt(c) /\ place[c] = "write"
  BY DEF IInv, CoderOK, EndWrite, Working
<1>b. PICK b : b = bond[c]
  OBVIOUS
<1>1. /\ b \in Bonds /\ b \in AllBonds /\ pipe[b].wOpen /\ pipe[b].cut = FALSE
      /\ pipe[b].asked # 0 /\ pipe[b] \in PipeRecs
  <2>1. b \in Bonds /\ b \in AllBonds /\ pipe[b].wOpen /\ ~pipe[b].cut /\ pipe[b].asked > 0
    BY <1>0, <1>b, BondFacts DEF CoderOK, Unhurt, EndsOpen
  <2>2. pipe[b] \in PipeRecs
    BY <1>0, <2>1, Typing
  <2>3. pipe[b].cut \in BOOLEAN /\ pipe[b].asked # 0
    BY <2>1, <2>2, Constants DEF PipeRecs
  <2> QED
    BY <2>1, <2>2, <2>3
<1>2. CASE /\ pipe[b].taken > pipe[b].acked
           /\ pipe[b].taken = pipe[b].acked + pipe[b].asked \/ ~pipe[b].rOpen
           /\ pipe' = [pipe EXCEPT ![b].acked = pipe[b].taken, ![b].asked = 0]
  <2>2. pipe'[b] = [pipe[b] EXCEPT !.acked = pipe[b].taken, !.asked = 0]
    BY <1>2, <1>0, <1>1, Typing
  <2>4. /\ pipe'[b].taken = pipe[b].taken
        /\ pipe'[b].acked = pipe[b].taken /\ pipe'[b].asked = 0
        /\ pipe'[b].cut = FALSE /\ pipe'[b].eof = pipe[b].eof
        /\ pipe'[b].rOpen = pipe[b].rOpen /\ pipe'[b].wOpen = pipe[b].wOpen
    BY <2>2, <1>1 DEF PipeRecs
  <2>5. Pipe(b)!EndWrite
    BY <2>4, <1>1, <1>2 DEF Pipe!EndWrite
  <2>6. Pipe(b)!Next
    BY <2>5 DEF Pipe!Next
  <2>7. \A x \in AllBonds \ {b} : pipe'[x] = pipe[x]
    BY <1>2, <1>0, Typing
  <2> QED
    BY <2>6, <2>7, <1>1, OnePipe
<1>3. CASE /\ ~pipe[b].rOpen /\ pipe[b].taken = pipe[b].acked
           /\ pipe' = [pipe EXCEPT ![b].cut = TRUE, ![b].asked = 0]
  <2>2. pipe'[b] = [pipe[b] EXCEPT !.cut = TRUE, !.asked = 0]
    BY <1>3, <1>0, <1>1, Typing
  <2>4. /\ pipe'[b].taken = pipe[b].taken
        /\ pipe'[b].acked = pipe[b].acked /\ pipe'[b].asked = 0
        /\ pipe'[b].cut = TRUE /\ pipe'[b].eof = pipe[b].eof
        /\ pipe'[b].rOpen = pipe[b].rOpen /\ pipe'[b].wOpen = pipe[b].wOpen
    BY <2>2, <1>1 DEF PipeRecs
  <2>5. Pipe(b)!CutWrite
    BY <2>4, <1>1, <1>3 DEF Pipe!CutWrite
  <2>6. Pipe(b)!Next
    BY <2>5 DEF Pipe!Next
  <2>7. \A x \in AllBonds \ {b} : pipe'[x] = pipe[x]
    BY <1>3, <1>0, Typing
  <2> QED
    BY <2>6, <2>7, <1>1, OnePipe
<1> QED
  BY <1>2, <1>3, <1>b DEF EndWrite

(* Each end is let go of once, and no Write is left behind.                *)
LEMMA CloseRules ==
    ASSUME IInv, NEW c \in Coders, place[c] # "write", NEW b \in Bonds,
           \/ Reader(b) = c /\ pipe[b].rOpen /\ CloseIn(b)
           \/ Writer(b) = c /\ pipe[b].wOpen /\ CloseOut(b)
    PROVE  PipeSteps
<1>0. TypeOK BY DEF IInv
<1>1. b \in AllBonds /\ pipe[b] \in PipeRecs BY <1>0, BondFacts, Typing
<1>2. CASE Reader(b) = c /\ pipe[b].rOpen /\ CloseIn(b)
  <2>1. pipe'[b] = [pipe[b] EXCEPT !.rOpen = FALSE] BY <1>2, <1>0, <1>1, Typing DEF CloseIn
  <2>2. /\ pipe'[b].taken = pipe[b].taken /\ pipe'[b].acked = pipe[b].acked
        /\ pipe'[b].asked = pipe[b].asked
        /\ pipe'[b].cut = pipe[b].cut /\ pipe'[b].eof = pipe[b].eof
        /\ pipe'[b].rOpen = FALSE /\ pipe'[b].wOpen = pipe[b].wOpen
    BY <2>1, <1>1 DEF PipeRecs
  <2>3. Pipe(b)!CloseRead BY <1>2, <2>2 DEF Pipe!CloseRead
  <2>4. Pipe(b)!Next BY <2>3 DEF Pipe!Next
  <2>5. \A x \in AllBonds \ {b} : pipe'[x] = pipe[x] BY <1>2, <1>0, Typing DEF CloseIn
  <2> QED BY <2>4, <2>5, <1>1, OnePipe
<1>3. CASE Writer(b) = c /\ pipe[b].wOpen /\ CloseOut(b)
  <2>0. pipe[b].asked = 0 BY <1>3, OneWrite
  <2>1. pipe'[b] = [pipe[b] EXCEPT !.wOpen = FALSE] BY <1>3, <1>0, <1>1, Typing DEF CloseOut
  <2>2. /\ pipe'[b].taken = pipe[b].taken /\ pipe'[b].acked = pipe[b].acked
        /\ pipe'[b].asked = pipe[b].asked
        /\ pipe'[b].cut = pipe[b].cut /\ pipe'[b].eof = pipe[b].eof
        /\ pipe'[b].rOpen = pipe[b].rOpen /\ pipe'[b].wOpen = FALSE
    BY <2>1, <1>1 DEF PipeRecs
  <2>3. Pipe(b)!CloseWrite BY <1>3, <2>0, <2>2 DEF Pipe!CloseWrite
  <2>4. Pipe(b)!Next BY <2>3 DEF Pipe!Next
  <2>5. \A x \in AllBonds \ {b} : pipe'[x] = pipe[x] BY <1>3, <1>0, Typing DEF CloseOut
  <2> QED BY <2>4, <2>5, <1>1, OnePipe
<1> QED BY <1>2, <1>3

LEMMA MixAgainRules ==
    ASSUME IInv, MixAgain
    PROVE  PipeSteps
  BY AllAreBack DEF MixAgain, PipeSteps, FreshPipe, Pipe!Reset, Pipe!Next

LEMMA WorkRules ==
    ASSUME IInv, NEW c \in Coders, Work(c)
    PROVE  PipeSteps
  BY NoPipe, CloseRules, EndReadRules, BeginWriteRules, EndWriteRules DEF BeginRead, EndCode,
    ReleaseStream, Ins, Outs, Work

LEMMA NextRules ==
    ASSUME IInv, [Next]_vars
    PROVE  PipeSteps
<1>1. ASSUME NEW c \in Coders, CoderThread(c) PROVE PipeSteps
  BY <1>1, WorkRules, NoPipe DEF CoderThread, WaitStart, CheckExit, SetFinished
<1>2. CASE InCall
  <2>1. CASE Work(Main) BY BondFacts, <2>1, WorkRules DEF IInv
  <2>2. CASE MixClose BY <2>2, Typing, NoPipe, CloseRules DEF IInv, Mixer, MixClose, Ins, Outs
  <2>3. CASE MixCreate \/ MixStart \/ MixMain \/ MixMainDone \/ MixWait \/ MixResult
             \/ MixSignal \/ MixJoin
    BY <2>3, NoPipe DEF MixCreate, MixStart, MixMain, MixMainDone, MixWait, MixResult,
       MixSignal, MixJoin
  <2> QED BY <1>2, <2>1, <2>2, <2>3 DEF InCall
<1>3. CASE MixAgain BY <1>3, MixAgainRules
<1>4. CASE MixDestroy \/ Destroyed \/ UNCHANGED vars
  BY <1>4, NoPipe DEF MixDestroy, Destroyed, vars
<1> QED BY <1>1, <1>2, <1>3, <1>4 DEF Next, Caller

-----------------------------------------------------------------------------
(* Theorems.                                                               *)

THEOREM Invariance == Spec => []IInv
<1>1. Init => IInv BY InitIInv
<1>2. IInv /\ [Next]_vars => IInv' BY NextKeeps
<1> QED BY <1>1, <1>2, PTL DEF Spec

(* The variables of the mixer, of its threads and of the bonds keep their  *)
(* types; no pipe takes in more than its stream has.                       *)
THEOREM TypesKept == Spec => []TypeOK
<1>1. IInv => TypeOK BY DEF IInv
<1> QED BY <1>1, Invariance, PTL

(* CMixerMT::Code returns the gravest fault that a coder had of its own,   *)
(* S_OK if there was none; the one consequence that may stand in its place *)
(* is S_FALSE of a coder whose input ended, for S_OK and for E_FAIL.       *)
THEOREM CauseIsReported == Spec => []CauseReported
<1>1. IInv => CauseReported
  <2> SUFFICES ASSUME IInv, mixer = "idle"
               PROVE  CauseReported
    BY DEF CauseReported
  <2>0. TypeOK /\ ret = MixerResult BY DEF IInv, Mixer
  <2>1. \A c \in Coders : fault[c] # "none" => Result[c] = fault[c] /\ fault[c] \in Returned
    BY AllAreBack
  <2>2. \A c \in Coders : fault[c] = "none" =>
            Result[c] \in {"ok", "cut"} \/ (Result[c] = "data" /\ HeardEof(c))
    BY AllAreBack DEF Done, ResultOK
  <2>3. /\ ret \in {"ok"} \cup Returned
        /\ ret # "ok" => \E c \in Coders : Result[c] = ret
        /\ ret # "abort" => \A c \in Coders : Result[c] # "abort"
        /\ ret \notin {"abort", "memory"} => \A c \in Coders : Result[c] # "memory"
        /\ ret \notin {"abort", "memory", "other"} => \A c \in Coders : Result[c] # "other"
        /\ ret \in {"ok", "fail"} => \A c \in Coders : Result[c] # "data"
        /\ ret = "ok" => \A c \in Coders : Result[c] \in {"unset", "ok", "cut"}
    BY <2>0, MixerResultFacts DEF Returned
  <2> DEFINE own == {fault[c] : c \in Coders} \ {"none"}
  <2>4. own \subseteq Returned /\ \A f \in own : \E c \in Coders : Result[c] = f
    BY <2>1
  (* A result is a fault of its coder, or the coder was misled.            *)
  <2>5. ret \in {"abort", "memory", "other", "fail"} => ret \in own
    <3>1. ASSUME ret \in {"abort", "memory", "other", "fail"} PROVE ret \in own
      <4>1. PICK c \in Coders : Result[c] = ret
        BY <3>1, <2>3
      <4>2. fault[c] # "none"
        BY <3>1, <4>1, <2>2
      <4> QED
        BY <4>1, <4>2, <2>1
    <3> QED
      BY <3>1
  <2>6. (ret = "data" => ret \in own \/ Misled) /\ (Misled => ret \notin {"ok", "fail"})
    BY <2>1, <2>2, <2>3 DEF Misled
  <2>7. /\ "abort" \in own => ret = "abort"
        /\ "memory" \in own => ret \in {"abort", "memory"}
        /\ "other" \in own => ret \in {"abort", "memory", "other"}
        /\ "data" \in own => ret \notin {"ok", "fail"}
        /\ "fail" \in own => ret # "ok"
    BY <2>3, <2>4
  <2> HIDE DEF own
  <2>8. ret \in {"ok", "abort", "memory", "other", "data", "fail"}
    BY <2>3 DEF Returned
  <2>9. /\ "abort" \in own => ret = "abort"
        /\ "memory" \in own => ret \in own \cap {"abort", "memory"}
        /\ "other" \in own => ret \in own \cap {"abort", "memory", "other"}
    BY <2>5, <2>7
  <2>10. "data" \in own => ret \in own \ {"fail"}
    BY <2>5, <2>7, <2>8
  <2>11. own = {"fail"} => ret = IF Misled THEN "data" ELSE "fail"
    BY <2>5, <2>6, <2>7, <2>8
  <2>12. own = {} => ret = IF Misled THEN "data" ELSE "ok"
    BY <2>5, <2>6, <2>8
  <2> QED BY <2>9, <2>10, <2>11, <2>12 DEF CauseReported, own
<1> QED BY <1>1, Invariance, PTL

(* The mixer and the coders use every CStreamBinder as it wants to be      *)
(* used: an end is closed once and not used after that, and a bond is only *)
(* reset when the coders of the call before have let go of both ends.      *)
THEOREM PipesKept == Spec => PipesKeepRules
<1>1. Init => \A b \in AllBonds : Pipe(b)!Init BY DEF Init, FreshPipe, Pipe!Init
<1>2. IInv /\ [Next]_vars => [\A b \in AllBonds : [Pipe(b)!Next]_(pipe[b])]_vars
  BY NextRules DEF PipeSteps
<1>3. Spec => [][\A b \in AllBonds : [Pipe(b)!Next]_(pipe[b])]_vars
  BY <1>2, Invariance, PTL DEF Spec
<1>4. Spec => \A b \in AllBonds : Pipe(b)!Init BY <1>1 DEF Spec
<1> QED
  BY <1>3, <1>4 DEF PipesKeepRules

=============================================================================
