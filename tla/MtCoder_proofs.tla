--------------------------- MODULE MtCoder_proofs ---------------------------
(***************************************************************************)
(* Theorems about the encoder engine for any number of threads, any ring   *)
(* of blocks, any input and any failures.  The owner is assumed to use the *)
(* object again only when the threads of the last call have settled        *)
(* (SettledReuse).                                                         *)
(*                                                                         *)
(*   I.   Reading and writing are mutually exclusive although neither has  *)
(*        a lock (TurnsAreExclusive).                                      *)
(*   II.  The threads, slots and out buffers: what is true of them in      *)
(*        every call.                                                      *)
(*   III. MtCoder_Code does what one thread would do that reads, encodes   *)
(*        and writes block after block (EncodesLikeOneCoder).              *)
(***************************************************************************)
EXTENDS MtCoder, FiniteSetTheorems, WellFoundedInduction, TLAPS

-----------------------------------------------------------------------------
(* Places of a ring: the place of a block is its number modulo the length  *)
(* of the ring, and the code keeps the place only.                         *)

(* The quotient and the remainder make up the number. *)
LEMMA DivMod ==
    ASSUME NEW n \in Nat, n > 0, NEW a \in Nat
    PROVE  a = n * (a \div n) + (a % n) /\ a % n \in 0..n - 1 /\ a \div n \in Nat
BY SMT

(* Only one multiple of n is nearer to 0 than n. *)
LEMMA SmallMultiple ==
    ASSUME NEW n \in Nat, n > 0, NEW k \in Int, n * k < n, n * k > -n
    PROVE  k = 0
  OBVIOUS

(* A remainder below n is the remainder. *)
LEMMA ModUnique ==
    ASSUME NEW n \in Nat, n > 0, NEW q \in Nat, NEW r \in 0..n - 1,
           NEW a \in Nat, a = n * q + r
    PROVE  a % n = r
<1> DEFINE Q == a \div n
           R == a % n
<1>1. Q \in Nat /\ R \in 0..n - 1 /\ a = n * Q + R BY DivMod
<1> HIDE DEF Q, R
<1>2. n * (Q - q) = n * Q - n * q BY <1>1, SMT
<1>3. n * (Q - q) = r - R BY <1>1, <1>2
<1>4. Q - q = 0 BY <1>1, <1>3, SmallMultiple
<1> QED BY <1>1, <1>2, <1>3, <1>4 DEF R

(* The next place of the ring is the place of the next block. *)
LEMMA NextPlace ==
    ASSUME NEW n \in Nat, n > 0, NEW a \in Nat
    PROVE  ((a % n) + 1) % n = (a + 1) % n
<1> DEFINE q == a \div n
           r == a % n
<1>1. q \in Nat /\ r \in 0..n - 1 /\ a = n * q + r BY DivMod
<1> HIDE DEF q, r
<1>2. CASE r + 1 < n BY <1>1, <1>2, ModUnique, SMTT(30) DEF r
<1>3. CASE r + 1 = n
  <2>1. n * (q + 1) = n * q + n /\ n * 1 = n BY <1>1, SMT
  <2>2. (r + 1) % n = 0 BY <2>1, <1>1, <1>3, ModUnique
  <2>3. (a + 1) % n = 0 BY <2>1, <1>1, <1>3, ModUnique
  <2> QED BY <2>2, <2>3 DEF r
<1> QED BY <1>1, <1>2, <1>3

(* Among n numbers in a row no two have the same place. *)
LEMMA PlacesApart ==
    ASSUME NEW n \in Nat, n > 0, NEW a \in Nat, NEW b \in Nat,
           a <= b, b < a + n, a % n = b % n
    PROVE  a = b
<1> DEFINE p == a \div n
           q == b \div n
<1>1. a = n * p + (a % n) /\ b = n * q + (b % n) BY DivMod
<1>2. p \in Nat /\ q \in Nat BY DivMod
<1>3. n * q - n * p < n /\ n * p <= n * q BY <1>1
<1> HIDE DEF p, q
<1>4. n * q - n * p = n * (q - p) BY <1>2, SMT
<1>5. q - p = 0 BY <1>2, <1>3, <1>4, SmallMultiple
<1> QED BY <1>1, <1>2, <1>3, <1>5 DEF p, q

(* A nonempty set of natural numbers has a least element. *)
LEMMA LeastNumber ==
    ASSUME NEW T \in SUBSET Nat, T # {}
    PROVE  \E x \in T : \A y \in T : x <= y
<1>1. IsWellFoundedOn(OpToRel(<, Nat), Nat) BY NatLessThanWellFounded
<1>2. PICK x \in T : \A y \in T : <<y, x>> \notin OpToRel(<, Nat) BY <1>1, WFMin
<1>3. \A y \in T : ~(y < x) BY <1>2 DEF OpToRel
<1>4. T \subseteq Nat OBVIOUS
<1>5. ASSUME NEW y \in T PROVE x <= y BY <1>3, <1>4
<1> QED BY <1>5

(***************************************************************************)
(* I.  Turns.                                                              *)
(***************************************************************************)

(* The part of the locals' type that the exclusion rests on; what the      *)
(* other fields hold does not matter.                                      *)
LocalsOver(A) == [bi : Slots, wi : Slots, isReady : A, res : A,
                  bufIndex : A, finished : A, block : A, numFinished : A]
LocOK == \E A : loc \in [Threads -> LocalsOver(A)]

IndexesOK ==
    /\ pc \in [Threads -> Places]
    /\ created \in [Threads -> BOOLEAN]
    /\ LocOK
    /\ blockIndex \in Slots
    /\ writeIndex \in Slots \cup {None}

(* Threads that do not exist are nowhere; a call begins with all threads   *)
(* asleep, and its token does not exist before Go.                         *)
CallBegins ==
    /\ \A t \in Threads : ~created[t] => pc[t] = "none"
    /\ mpc = "create" => Settled
    /\ mpc \in {"create", "go"} => ~readEvent /\ \A t \in Threads : ~HasToken(t)

IInv == IndexesOK /\ CallBegins /\ OneToken /\ OneWriter

LEMMA SlotFacts ==
    /\ 0 \in Slots
    /\ None \notin Slots
    /\ \A s \in Slots : NextSlot(s) \in Slots
  BY MtCoderAssumption DEF MtCoderAssumption, Slots, None, NextSlot

LEMMA InitIInv == Init => IInv
<1> SUFFICES ASSUME Init PROVE IInv OBVIOUS
<1>1. LocOK
  <2> DEFINE A == {"ok", None, FALSE, 0}
  <2>1. EmptyLocals \in LocalsOver(A) BY SlotFacts DEF EmptyLocals, LocalsOver
  <2>2. loc \in [Threads -> LocalsOver(A)] BY <2>1 DEF Init
  <2> QED BY <2>2 DEF LocOK
<1>2. pc \in [Threads -> Places] BY DEF Init, Places
<1>3. created \in [Threads -> BOOLEAN] BY DEF Init
<1>4. /\ blockIndex = 0 /\ writeIndex = 0 /\ mpc = "idle"
      /\ \A t \in Threads : pc[t] = "none"
  BY DEF Init
<1> QED
  BY <1>1, <1>2, <1>3, <1>4, SlotFacts DEF IInv, IndexesOK, CallBegins, OneToken, OneWriter,
     HasToken, IsWriter

(* The updates of the locals of one thread keep their type, provided that  *)
(* slots stay slots.                                                       *)
LEMMA LocalsUpdate ==
  ASSUME LocOK, NEW t \in Threads, NEW i \in Slots, NEW x, NEW y, NEW z,
         \/ loc' = [loc EXCEPT ![t].bi = i]
         \/ loc' = [loc EXCEPT ![t].wi = i]
         \/ loc' = [loc EXCEPT ![t].wi = i, ![t].res = x]
         \/ loc' = [loc EXCEPT ![t].res = x]
         \/ loc' = [loc EXCEPT ![t].bufIndex = x]
         \/ loc' = [loc EXCEPT ![t].isReady = x]
         \/ loc' = [loc EXCEPT ![t].res = x, ![t].finished = y]
         \/ loc' = [loc EXCEPT ![t].block = x, ![t].finished = y]
         \/ loc' = [loc EXCEPT ![t].res = x, ![t].bufIndex = y,
                               ![t].finished = z]
         \/ loc' = [loc EXCEPT ![t] = [EmptyLocals EXCEPT !.numFinished = x]]
         \/ loc' = [loc EXCEPT ![t] = EmptyLocals]
  PROVE  LocOK' /\ \A u \in Threads : u # t => loc'[u] = loc[u]
<1>1. PICK A : loc \in [Threads -> LocalsOver(A)] BY DEF LocOK
<1> DEFINE B == A \cup {x, y, z, "ok", None, FALSE, 0}
<1>2. loc \in [Threads -> LocalsOver(B)] BY <1>1 DEF LocalsOver
<1>3. x \in B /\ y \in B /\ z \in B OBVIOUS
<1>4. EmptyLocals \in LocalsOver(B) BY SlotFacts DEF EmptyLocals, LocalsOver
<1> HIDE DEF B
<1>5. loc' \in [Threads -> LocalsOver(B)] BY <1>2, <1>3, <1>4 DEF LocalsOver
<1>6. \A u \in Threads : u # t => loc'[u] = loc[u] BY <1>1
<1> QED BY <1>5, <1>6 DEF LocOK

(* A step of a thread that neither takes nor gives away the token or the   *)
(* writer's role.                                                          *)
LEMMA PlainStep ==
  ASSUME IInv, NEW t \in Threads, NEW p \in Places,
         pc' = [pc EXCEPT ![t] = p],
         UNCHANGED <<created, readEvent, writeIndex, mpc>>,
         blockIndex' \in Slots,
         LocOK',
         \A u \in Threads : u # t => loc'[u] = loc[u],
         pc[t] # "none",
         pc[t] = "start" => startEvent[t],
         HasToken(t)' => HasToken(t),
         IsWriter(t)' <=> IsWriter(t)
  PROVE  IInv'
<1>1. /\ pc'[t] = p
      /\ \A u \in Threads : u # t => pc'[u] = pc[u]
  BY DEF IInv, IndexesOK
<1>2. \A u \in Threads : HasToken(u)' => HasToken(u)
  BY <1>1 DEF HasToken
<1>3. \A u \in Threads : IsWriter(u)' <=> IsWriter(u)
  BY <1>1 DEF IsWriter
<1>4. IndexesOK'
  BY DEF IInv, IndexesOK
<1>5. mpc # "create"
  <2> SUFFICES ASSUME mpc = "create" PROVE FALSE
    OBVIOUS
  <2>1. pc[t] \in {"none", "start"} /\ ~startEvent[t]
    BY DEF IInv, CallBegins, Settled
  <2> QED
    BY <2>1
<1>6. CallBegins'
  BY <1>1, <1>2, <1>5 DEF IInv, CallBegins
<1>7. OneToken'
  BY <1>2 DEF IInv, OneToken
<1>8. OneWriter'
  BY <1>3 DEF IInv, OneWriter
<1> QED
  BY <1>4, <1>6, <1>7, <1>8 DEF IInv


LEMMA PlacesFacts ==
  /\ \A r, l : Continue(r, l) \in {"count", "readWait"}
  /\ {"none", "start", "readWait", "read", "readErr", "semWait", "decide",
      "create", "release", "pop", "code", "store", "claim", "write",
      "return", "post", "load", "count", "compare", "dead"} \subseteq Places
  BY DEF Continue, Places

(* The steps that leave the token and the writer's role where they are. *)
LEMMA PlainSteps ==
  ASSUME IInv, NEW t \in Threads
  PROVE  (\/ ThreadStart(t) \/ Read(t) \/ ReadErr(t) \/ SemWait(t)
          \/ Decide(t) \/ Pop(t) \/ Code(t) \/ Store(t) \/ Write(t)
          \/ Post(t) \/ Load(t) \/ Count(t) \/ Compare(t)) => IInv'
<1> USE DEF threadVars, tokenVars, csVars, finishVars, outVars, mainVars
<1>1. LocOK /\ blockIndex \in Slots /\ pc \in [Threads -> Places] BY DEF IInv, IndexesOK
<1>2. loc[t].bi \in Slots /\ loc[t].wi \in Slots BY <1>1 DEF LocOK, LocalsOver
<1> DEFINE Kept == LocOK' /\ \A u \in Threads : u # t => loc'[u] = loc[u]
<1>3. ASSUME loc' = loc PROVE Kept BY <1>1, <1>3 DEF LocOK
<1>4. ASSUME ThreadStart(t) PROVE IInv'
  <2>2. Kept BY <1>4, <1>3 DEF ThreadStart
  <2> QED
    BY <1>4, <1>1, <2>2, PlainStep, PlacesFacts, SlotFacts DEF ThreadStart, Goto, HasToken,
       IsWriter, Event_CanWait
<1>5. ASSUME Read(t) PROVE IInv'
  <2>1. \/ loc' = loc
         \/ \E x, y : loc' = [loc EXCEPT ![t].res = x, ![t].finished = y]
         \/ \E b, f : loc' = [loc EXCEPT ![t].block = b, ![t].finished = f]
    BY <1>5, <1>2, SlotFacts DEF Read
  <2>2. Kept BY <2>1, <1>1, <1>3, SlotFacts, LocalsUpdate
  <2> QED
    BY <1>5, <1>1, <2>2, PlainStep, PlacesFacts, SlotFacts DEF Read, Goto, HasToken, IsWriter,
       Event_CanWait
<1>6. ASSUME ReadErr(t) PROVE IInv'
  <2>2. Kept BY <1>6, <1>3 DEF ReadErr
  <2> QED
    BY <1>6, <1>1, <2>2, PlainStep, PlacesFacts, SlotFacts DEF ReadErr, Goto, HasToken,
       IsWriter, Event_CanWait
<1>7. ASSUME SemWait(t) PROVE IInv'
  <2>1. loc' = [loc EXCEPT ![t].bi = blockIndex] BY <1>7, <1>2, SlotFacts DEF SemWait
  <2>2. Kept BY <2>1, <1>1, <1>3, SlotFacts, LocalsUpdate
  <2> QED
    BY <1>7, <1>1, <2>2, PlainStep, PlacesFacts, SlotFacts DEF SemWait, Goto, HasToken,
       IsWriter, Event_CanWait
<1>8. ASSUME Decide(t) PROVE IInv'
  <2>1. \E x, y : loc' = [loc EXCEPT ![t].res = x, ![t].finished = y]
    BY <1>8, <1>2, SlotFacts DEF Decide
  <2>2. Kept BY <2>1, <1>1, <1>3, SlotFacts, LocalsUpdate
  <2> QED
    BY <1>8, <1>1, <2>2, PlainStep, PlacesFacts, SlotFacts DEF Decide, Goto, HasToken, IsWriter,
       Event_CanWait
<1>9. ASSUME Pop(t) PROVE IInv'
  <2>1. \E x : loc' = [loc EXCEPT ![t].bufIndex = x] BY <1>9, <1>2, SlotFacts DEF Pop
  <2>2. Kept BY <2>1, <1>1, <1>3, SlotFacts, LocalsUpdate
  <2> QED
    BY <1>9, <1>1, <2>2, PlainStep, PlacesFacts, SlotFacts DEF Pop, Goto, HasToken, IsWriter,
       Event_CanWait
<1>10. ASSUME Code(t) PROVE IInv'
  <2>1. loc' = loc \/ \E x : loc' = [loc EXCEPT ![t].res = x]
    BY <1>10, <1>2, SlotFacts DEF Code
  <2>2. Kept BY <2>1, <1>1, <1>3, SlotFacts, LocalsUpdate
  <2> QED
    BY <1>10, <1>1, <2>2, PlainStep, PlacesFacts, SlotFacts DEF Code, Goto, HasToken, IsWriter,
       Event_CanWait
<1>11. ASSUME Store(t) PROVE IInv'
  <2>2. Kept BY <1>11, <1>3 DEF Store
  <2> QED
    BY <1>11, <1>1, <2>2, PlainStep, PlacesFacts, SlotFacts DEF Store, Goto, HasToken, IsWriter,
       Event_CanWait
<1>12. ASSUME Write(t) PROVE IInv'
  <2>1. \E w \in Slots : \/ loc' = [loc EXCEPT ![t].wi = w]
                      \/ \E x : loc' = [loc EXCEPT ![t].wi = w, ![t].res = x]
    BY <1>12, <1>2, SlotFacts DEF Write
  <2>2. Kept BY <2>1, <1>1, <1>3, SlotFacts, LocalsUpdate
  <2> QED
    BY <1>12, <1>1, <2>2, PlainStep, PlacesFacts, SlotFacts DEF Write, Goto, HasToken, IsWriter,
       Event_CanWait
<1>13. ASSUME Post(t) PROVE IInv'
  <2>2. Kept BY <1>13, <1>3 DEF Post
  <2> QED
    BY <1>13, <1>1, <2>2, PlainStep, PlacesFacts, SlotFacts DEF Post, Goto, HasToken, IsWriter,
       Event_CanWait
<1>14. ASSUME Load(t) PROVE IInv'
  <2>1. PICK x, y, z : loc' = [loc EXCEPT ![t].res = x, ![t].bufIndex = y,
                                         ![t].finished = z]
    BY <1>14, <1>2, SlotFacts DEF Load
  <2>2. Kept BY <2>1, <1>1, <1>3, SlotFacts, LocalsUpdate
  <2> QED
    BY <1>14, <1>1, <2>2, PlainStep, PlacesFacts, SlotFacts DEF Load, Goto, HasToken, IsWriter,
       Event_CanWait
<1>15. ASSUME Count(t) PROVE IInv'
  <2>1. \E x : loc' = [loc EXCEPT ![t] = [EmptyLocals EXCEPT !.numFinished = x]]
    BY <1>15, <1>2, SlotFacts DEF Count
  <2>2. Kept BY <2>1, <1>1, <1>3, SlotFacts, LocalsUpdate
  <2> QED
    BY <1>15, <1>1, <2>2, PlainStep, PlacesFacts, SlotFacts DEF Count, Goto, HasToken, IsWriter,
       Event_CanWait
<1>16. ASSUME Compare(t) PROVE IInv'
  <2>1. loc' = [loc EXCEPT ![t] = EmptyLocals] BY <1>16, <1>2, SlotFacts DEF Compare
  <2>2. Kept BY <2>1, <1>1, <1>3, SlotFacts, LocalsUpdate
  <2> QED
    BY <1>16, <1>1, <2>2, PlainStep, PlacesFacts, SlotFacts DEF Compare, Goto, HasToken,
       IsWriter, Event_CanWait
<1> QED BY <1>4, <1>5, <1>6, <1>7, <1>8, <1>9, <1>10, <1>11, <1>12, <1>13, <1>14, <1>15, <1>16

(* A thread finds the event signaled: it takes the token, or passes it on. *)
LEMMA ReadWaitStep == ASSUME IInv, NEW t \in Threads, ReadWait(t) PROVE IInv'
<1> USE DEF ReadWait, Goto, Event_CanWait
<1>1. IndexesOK'
  <2>1. LocOK' BY LocalsUpdate, SlotFacts DEF IInv, IndexesOK
  <2>2. pc' \in [Threads -> Places] BY PlacesFacts DEF IInv, IndexesOK
  <2> QED BY <2>1, <2>2 DEF IInv, IndexesOK, threadVars, tokenVars, csVars
<1>2. /\ \A u \in Threads : u # t => pc'[u] = pc[u] /\ loc'[u] = loc[u]
      /\ pc'[t] \in {"count", "read"}
  BY DEF IInv, IndexesOK, LocOK
<1>3. mpc \notin {"create", "go"} BY DEF IInv, CallBegins
<1>4. CallBegins' BY <1>2, <1>3 DEF IInv, CallBegins, threadVars, mainVars
<1>5. \A u \in Threads : ~HasToken(u) BY DEF IInv, OneToken
<1>6. \A u \in Threads : HasToken(u)' => u = t BY <1>2, <1>5 DEF HasToken
<1>7. HasToken(t)' => ~readEvent'
  <2>1. CASE stopReading BY <2>1 DEF IInv, IndexesOK, HasToken
  <2>2. CASE ~stopReading
    <3>1. readEvent' = FALSE BY <2>2 DEF TokenAfterWait, Event_Wait
    <3> QED BY <3>1
  <2> QED BY <2>1, <2>2
<1>8. OneToken' BY <1>6, <1>7 DEF OneToken
<1>9. \A u \in Threads : IsWriter(u)' <=> IsWriter(u) BY <1>2 DEF IsWriter
<1>10. OneWriter' BY <1>9 DEF IInv, OneWriter, csVars
<1> QED BY <1>1, <1>4, <1>8, <1>10 DEF IInv

(* The holder of the token puts it down. *)
LEMMA ReleaseStep == ASSUME IInv, NEW t \in Threads, Release(t) PROVE IInv'
<1> USE DEF Release, Goto
<1>1. IndexesOK' BY PlacesFacts DEF IInv, IndexesOK, LocOK, threadVars, csVars
<1>2. /\ \A u \in Threads : u # t => pc'[u] = pc[u]
      /\ pc'[t] \in {"pop", "store"}
      /\ loc' = loc
  BY DEF IInv, IndexesOK
<1>3. HasToken(t) BY DEF HasToken
<1>4. mpc \notin {"create", "go"} BY <1>3 DEF IInv, CallBegins
<1>5. CallBegins' BY <1>2, <1>4 DEF IInv, CallBegins, threadVars, mainVars
<1>6. \A u \in Threads : ~HasToken(u)' BY <1>2, <1>3 DEF IInv, OneToken, HasToken
<1>7. OneToken' BY <1>6 DEF OneToken
<1>8. \A u \in Threads : IsWriter(u)' <=> IsWriter(u) BY <1>2 DEF IsWriter
<1>9. OneWriter' BY <1>8 DEF IInv, OneWriter, csVars
<1> QED BY <1>1, <1>5, <1>7, <1>9 DEF IInv
(* A thread either becomes the writer and takes writeIndex away, or leaves *)
(* its block for the writer.                                               *)
LEMMA ClaimStep == ASSUME IInv, NEW t \in Threads, Claim(t) PROVE IInv'
<1> USE DEF Claim, Goto
<1>1. /\ writeIndex \in Slots \cup {None} /\ loc[t].bi \in Slots
      /\ pc[t] = "claim"
  BY DEF IInv, IndexesOK, LocOK, LocalsOver
<1>2. LocOK' /\ \A u \in Threads : u # t => loc'[u] = loc[u]
  <2>1. LocOK BY DEF IInv, IndexesOK
  <2>2. \/ loc' = loc
        \/ \E x : loc' = [loc EXCEPT ![t].wi = loc[t].bi, ![t].res = x]
    OBVIOUS
  <2>3. CASE loc' = loc BY <2>1, <2>3 DEF LocOK
  <2>4. CASE \E x : loc' = [loc EXCEPT ![t].wi = loc[t].bi, ![t].res = x]
    <3>1. PICK x : loc' = [loc EXCEPT ![t].wi = loc[t].bi, ![t].res = x] BY <2>4
    <3> QED BY <1>1, <2>1, <3>1, LocalsUpdate
  <2> QED BY <2>2, <2>3, <2>4
<1>3. CASE writeIndex # loc[t].bi
  BY <1>3, PlacesFacts, <1>1, <1>2, PlainStep DEF IInv, IndexesOK, HasToken, IsWriter,
     threadVars, tokenVars, mainVars
<1>4. CASE writeIndex = loc[t].bi
  <2>1. /\ pc' = [pc EXCEPT ![t] = "write"]
        /\ writeIndex' = None
    BY <1>4 DEF IndexOfWriter
  <2>2. /\ \A u \in Threads : u # t => pc'[u] = pc[u]
        /\ pc'[t] = "write"
    BY <2>1 DEF IInv, IndexesOK
  <2>3. IndexesOK'
    BY <1>2, <2>1, PlacesFacts
    DEF IInv, IndexesOK, threadVars, tokenVars
  <2>4. mpc # "create"
    BY <1>1 DEF IInv, CallBegins, Settled
  <2>5. \A u \in Threads : HasToken(u)' => HasToken(u)
    BY <2>2 DEF HasToken
  <2>6. CallBegins'
    BY <1>1, <2>2, <2>4, <2>5 DEF IInv, CallBegins, threadVars, mainVars
  <2>7. OneToken'
    BY <2>5 DEF IInv, OneToken
  <2>8. \A u \in Threads : ~IsWriter(u)
    BY <1>1, <1>4, SlotFacts DEF IInv, OneWriter
  <2>9. \A u \in Threads : IsWriter(u)' <=> u = t
    BY <1>2, <2>2, <2>8 DEF IsWriter
  <2>10. OneWriter'
    BY <2>1, <2>9 DEF OneWriter
  <2> QED
    BY <2>3, <2>6, <2>7, <2>10 DEF IInv
<1> QED BY <1>3, <1>4

(* The writer returns a buffer; it stays the writer if the next block is   *)
(* ready, and otherwise gives the index of that block back.                *)
LEMMA ReturnStep == ASSUME IInv, NEW t \in Threads, Return(t) PROVE IInv'
<1> USE DEF Return, Goto
<1>1. /\ loc[t].wi \in Slots
      /\ pc[t] = "return"
      /\ pc' = [pc EXCEPT ![t] = "post"]
      /\ loc' = [loc EXCEPT ![t].isReady = ReadyBlocks[loc[t].wi]]
      /\ writeIndex' = IF ReadyBlocks[loc[t].wi] THEN writeIndex ELSE loc[t].wi
      /\ UNCHANGED <<created, readEvent, blockIndex, mpc>>
  BY DEF IInv, IndexesOK, LocOK, LocalsOver, threadVars, tokenVars, mainVars
<1> HIDE DEF Return
<1>2. /\ \A u \in Threads : u # t => pc'[u] = pc[u] /\ loc'[u] = loc[u]
      /\ pc'[t] = "post"
      /\ LocOK'
  BY <1>1, LocalsUpdate, SlotFacts, ZenonT(60) DEF IInv, IndexesOK
<1>3. IndexesOK' BY <1>1, <1>2, PlacesFacts, SlotFacts DEF IInv, IndexesOK
<1>4. mpc # "create" BY <1>1 DEF IInv, CallBegins, Settled
<1>5. \A u \in Threads : HasToken(u)' => HasToken(u) BY <1>2 DEF HasToken
<1>6. CallBegins' BY <1>1, <1>2, <1>4, <1>5 DEF IInv, CallBegins
<1>7. OneToken' BY <1>1, <1>5 DEF IInv, OneToken
<1>8. /\ writeIndex = None
      /\ \A u \in Threads : IsWriter(u) <=> u = t
  BY <1>1 DEF IInv, OneWriter, IsWriter
<1>9. \A u \in Threads : u # t => ~IsWriter(u)' BY <1>2, <1>8 DEF IsWriter
<1>10. loc'[t].isReady = ReadyBlocks[loc[t].wi] BY <1>1 DEF IInv, IndexesOK, LocOK, LocalsOver
<1>11. CASE ReadyBlocks[loc[t].wi]
  <2>1. IsWriter(t)' BY <1>2, <1>10, <1>11 DEF IsWriter
  <2>2. writeIndex' = None BY <1>1, <1>8, <1>11
  <2> QED BY <1>3, <1>6, <1>7, <1>9, <2>1, <2>2 DEF IInv, OneWriter
<1>12. CASE ~ReadyBlocks[loc[t].wi]
  BY <1>2, <1>10, <1>12, <1>1, SlotFacts, <1>3, <1>6, <1>7, <1>9 DEF IsWriter, IInv, OneWriter
<1> QED BY <1>11, <1>12

(* The holder of the token starts one more thread, or fails to. *)
LEMMA CreateNextStep == ASSUME IInv, NEW t \in Threads, CreateNext(t) PROVE IInv'
<1> DEFINE n == numStartedThreads
<1>1. /\ pc[t] = "create" /\ HasToken(t)
      /\ UNCHANGED <<readEvent, blockIndex, writeIndex, mpc>>
  BY DEF CreateNext, HasToken, csVars, mainVars
<1>2. \/ /\ created' = [created EXCEPT ![n] = TRUE]
         /\ pc' = [pc EXCEPT ![t] = "release", ![n] = Started(n)]
         /\ loc' = loc
      \/ /\ pc' = [pc EXCEPT ![t] = "release"]
         /\ created' = created
         /\ \E x, y : loc' = [loc EXCEPT ![t].res = x, ![t].finished = y]
  BY DEF CreateNext, CreateAndStart, Goto, threadVars
<1>3. /\ pc \in [Threads -> Places] /\ created \in [Threads -> BOOLEAN]
      /\ LocOK /\ blockIndex \in Slots
      /\ \A u \in Threads : ~created[u] => pc[u] = "none"
  BY DEF IInv, IndexesOK, CallBegins
<1>4. LocOK' /\ \A u \in Threads : u # t => loc'[u] = loc[u]
  <2>1. CASE loc' = loc BY <1>3, <2>1 DEF LocOK
  <2>2. CASE \E x, y : loc' = [loc EXCEPT ![t].res = x, ![t].finished = y]
    <3>1. PICK x, y : loc' = [loc EXCEPT ![t].res = x, ![t].finished = y] BY <2>2
    <3> QED BY <1>3, <3>1, LocalsUpdate
  <2> QED BY <1>2, <2>1, <2>2
<1>5. pc' \in [Threads -> Places] /\ created' \in [Threads -> BOOLEAN]
  <2>1. n \in Threads => Started(n) \in Places BY <1>3, PlacesFacts DEF Started
  <2> QED BY <1>2, <1>3, <2>1, PlacesFacts
<1>6. /\ pc'[t] \in {"release", "create"}
      /\ \A u \in Threads : u # t =>
           \/ pc'[u] = pc[u]
           \/ pc[u] = "none" /\ pc'[u] = "start" /\ created'[u]
      /\ \A u \in Threads : created[u] => created'[u]
  BY <1>1, <1>2, <1>3 DEF Started
<1>7. IndexesOK' BY <1>1, <1>4, <1>5 DEF IInv, IndexesOK
<1>8. mpc \notin {"create", "go"} BY <1>1 DEF IInv, CallBegins
<1>9. CallBegins' BY <1>1, <1>3, <1>6, <1>8 DEF CallBegins
<1>10. \A u \in Threads : HasToken(u)' => HasToken(u) BY <1>1, <1>6 DEF HasToken
<1>11. OneToken' BY <1>1, <1>10 DEF IInv, OneToken
<1>12. \A u \in Threads : IsWriter(u)' <=> IsWriter(u) BY <1>1, <1>4, <1>6 DEF IsWriter
<1>13. OneWriter' BY <1>1, <1>12 DEF IInv, OneWriter
<1> QED BY <1>7, <1>9, <1>11, <1>13 DEF IInv

(* The steps of the caller that do not touch the threads' places.          *)
LEMMA MainPlainStep ==
  ASSUME IInv,
         UNCHANGED <<created, readEvent, blockIndex, writeIndex, pc, loc>>,
         mpc' \notin {"create", "go"}
  PROVE  IInv'
  BY DEF IInv, IndexesOK, LocOK, CallBegins, OneToken, OneWriter, HasToken, IsWriter

(* The first thread of a call. *)
LEMMA CreateFirstStep == ASSUME IInv, CreateFirst PROVE IInv'
<1> USE DEF CreateFirst
<1>1. /\ UNCHANGED <<readEvent, blockIndex, writeIndex, loc>>
      /\ \/ /\ created' = [created EXCEPT ![0] = TRUE]
            /\ pc' = [pc EXCEPT ![0] = Started(0)]
            /\ mpc' = "go"
         \/ mpc' = "idle" /\ UNCHANGED <<created, pc>>
      /\ mpc = "create" /\ ~readEvent
  BY DEF CreateAndStart, csVars, threadVars, IInv, CallBegins
<1> HIDE DEF CreateFirst
<1>2. /\ \A u \in Threads : pc[u] \in {"none", "start"}
      /\ \A u \in Threads : ~created[u] => pc[u] = "none"
      /\ pc \in [Threads -> Places] /\ created \in [Threads -> BOOLEAN]
  BY <1>1 DEF IInv, IndexesOK, CallBegins, Settled
<1>3. /\ pc' \in [Threads -> Places] /\ created' \in [Threads -> BOOLEAN]
      /\ \A u \in Threads : pc'[u] \in {"none", "start"}
      /\ \A u \in Threads : ~created'[u] => pc'[u] = "none"
  <2>1. 0 \in Threads BY MtCoderAssumption DEF MtCoderAssumption, Threads
  <2>2. Started(0) \in {"none", "start"} /\ (created[0] => Started(0) = pc[0])
    BY <1>2, <2>1 DEF Started
  <2> QED BY <1>1, <1>2, <2>1, <2>2, PlacesFacts
<1>4. \A u \in Threads : ~HasToken(u)' /\ ~IsWriter(u)' BY <1>3 DEF HasToken, IsWriter
<1>5. \A u \in Threads : ~IsWriter(u) BY <1>2 DEF IsWriter
<1>6. IndexesOK' BY <1>1, <1>3 DEF IInv, IndexesOK, LocOK
<1>7. CallBegins' BY <1>1, <1>3, <1>4 DEF CallBegins
<1>8. OneToken' /\ OneWriter' BY <1>1, <1>4, <1>5 DEF IInv, OneToken, OneWriter
<1> QED BY <1>6, <1>7, <1>8 DEF IInv

(* The token appears. *)
LEMMA GoStep == ASSUME IInv, Go PROVE IInv'
  BY DEF Go, IInv, CallBegins, threadVars, tokenVars, csVars, HasToken, IsWriter, IndexesOK,
    LocOK, OneToken, OneWriter

(* A new call of MtCoder_Code. *)
LEMMA CallCodeStep == ASSUME IInv, SettledReuse, CallCode PROVE IInv'
  BY SlotFacts DEF CallCode, threadVars, Event_Reset, Settled, HasToken, IsWriter, IInv,
    IndexesOK, LocOK, CallBegins, OneToken, OneWriter

(* A dead thread is joined. *)
LEMMA FreeJoinStep == ASSUME IInv, FreeJoin PROVE IInv'
<1>1. /\ UNCHANGED <<readEvent, blockIndex, writeIndex, loc>>
      /\ mpc' = "free"
      /\ pc[mi] = "dead"
      /\ created' = [created EXCEPT ![mi] = FALSE]
      /\ pc' = [pc EXCEPT ![mi] = "none"]
  BY DEF FreeJoin, Goto, tokenVars, csVars
<1>2. /\ pc' \in [Threads -> Places] /\ created' \in [Threads -> BOOLEAN]
      /\ \A u \in Threads : ~created'[u] => pc'[u] = "none"
      /\ \A u \in Threads : HasToken(u)' <=> HasToken(u)
      /\ \A u \in Threads : IsWriter(u)' <=> IsWriter(u)
  BY <1>1, PlacesFacts DEF IInv, IndexesOK, CallBegins, HasToken, IsWriter
<1>3. IndexesOK' /\ CallBegins' BY <1>1, <1>2 DEF IInv, IndexesOK, LocOK, CallBegins
<1>4. OneToken' /\ OneWriter' BY <1>1, <1>2 DEF IInv, OneToken, OneWriter
<1> QED BY <1>3, <1>4 DEF IInv

LEMMA StepIInv == SettledReuse /\ IInv /\ [Next]_vars => IInv'
<1> SUFFICES ASSUME SettledReuse, IInv, [Next]_vars PROVE IInv' OBVIOUS
<1>1. ASSUME NEW t \in Threads, Thread(t) PROVE IInv'
  BY <1>1, PlainSteps, ReadWaitStep, CreateNextStep, ReleaseStep, ClaimStep, ReturnStep DEF
     Thread
<1>2. CASE WaitFinished \/ Combine \/ Destruct \/ FreeSignal
  BY <1>2, MainPlainStep DEF WaitFinished, Combine, Destruct, FreeSignal, threadVars, tokenVars,
     csVars
<1>3. CASE FreeEnd
  BY <1>3 DEF FreeEnd, threadVars, tokenVars, csVars, IInv, IndexesOK, LocOK, CallBegins,
     OneToken, OneWriter, HasToken, IsWriter
<1>4. CASE UNCHANGED vars
  BY <1>4 DEF vars, threadVars, tokenVars, csVars, mainVars, IInv, IndexesOK, LocOK, CallBegins,
     Settled, OneToken, OneWriter, HasToken, IsWriter
<1> QED
  BY <1>1, <1>2, <1>3, <1>4, CreateFirstStep, GoStep, CallCodeStep, FreeJoinStep DEF Next, Main,
     Destroyed

(* While the owner uses the object again only when its threads have        *)
(* settled, the reading part of ThreadFunc2 and the variables it owns      *)
(* (MtCoder.c: stopReading, readRes, readProcessed, blockIndex,            *)
(* numStartedThreads) are used by one thread at a time, there is at most   *)
(* one writer, and writeIndex is -1 exactly while there is one.            *)
THEOREM TurnsAreExclusive == ASSUME SettledReuse PROVE Spec => []TurnsExclusive
<1>1. IInv /\ [Next]_vars => IInv' BY StepIInv
<1>2. IInv => TurnsExclusive BY DEF IInv, TurnsExclusive
<1> QED BY InitIInv, <1>1, <1>2, PTL DEF Spec

(***************************************************************************)
(* II.  The threads, slots and out buffers.                                *)
(*                                                                         *)
(* The code keeps neither the number of the next block to be written nor   *)
(* that of the next to be given a slot: it keeps their places in the ring. *)
(* Here they are d and k, the numbers of the blocks that have left the     *)
(* ring and of those that have entered it; they are not variables of the   *)
(* engine, but in every state there are such numbers (Inv in part III).    *)
(* So the blocks in the ring are d..k - 1, and a step moves d or k by one  *)
(* or leaves them.                                                         *)
(***************************************************************************)

(* The place of block n in the ring, and the places of the blocks in it.   *)
Place(n) == n % NumBlocksMax
Window(d, k) == {Place(j) : j \in d..k - 1}

(* Something has failed, and the threads can know it. *)
Err == progressRes # "ok"

(* The started threads that have left ThreadFunc2 and were counted. *)
Counted == {t \in Threads : /\ t < numStartedThreads
                            /\ \/ pc[t] = "compare"
                               \/ pc[t] = "start" /\ ~startEvent[t]}

(* Who has been created, started and counted.  Only in a call are these    *)
(* tied together: afterwards the numbers keep their last values.           *)
Counting ==
    /\ \A t \in Threads : created[t] <=> pc[t] # "none"
    /\ \A t \in Threads : pc[t] = "create" => numStartedThreads < NumThreads
    /\ mpc = "join" => mi < NumThreads
    /\ mpc = "create" => numStartedThreads = 0 /\ ~finishedEvent
    /\ mpc \in {"go", "wait", "combine"} => numStartedThreads >= 1
    /\ mpc = "combine" => numFinishedThreads >= 1
    /\ InCall =>
        /\ numFinishedThreads = Cardinality(Counted)
        /\ finishedEvent => numFinishedThreads = numStartedThreads
        /\ \A t \in Threads :
            /\ t >= numStartedThreads => pc[t] \in {"none", "start"} /\ ~startEvent[t]
            /\ startEvent[t] => pc[t] = "start" /\ ~stop[t]
            /\ pc[t] # "dead"
            /\ pc[t] = "compare" => loc[t].numFinished <= numFinishedThreads

(* Outside of the part of a call in which threads run, every thread that   *)
(* exists sleeps, except for the one that is being stopped.                *)
Quiet ==
    mpc \notin {"create", "go", "wait"} =>
        \A t \in Threads :
            /\ ~InThreadFunc2(t)
            /\ startEvent[t] \/ pc[t] = "dead" => mpc = "join" /\ t = mi /\ stop[t]

(* The ring holds blocks d..k - 1, each in the hands of one thread, ready, *)
(* or, if it is block d, in the writer's hands.  What the semaphore still  *)
(* allows, the blocks in the ring and the posts to come add up to no more  *)
(* than the ring is long: this is why a place stands for one block.        *)
SlotsOK(d, k) ==
    /\ d <= k
    /\ blockIndex = Place(k)
    /\ blocksSemaphore + (k - d) + Cardinality({t \in Threads : pc[t] = "post"})
         <= NumBlocksMax
    /\ \A t \in Threads : HasSlot(t) =>
           loc[t].bi \in Window(d, k) /\ ~ReadyBlocks[loc[t].bi]
    /\ \A t, u \in Threads : HasSlot(t) /\ HasSlot(u) /\ loc[t].bi = loc[u].bi => t = u
    /\ \A s \in Slots : ReadyBlocks[s] => s \in Window(d, k)
    /\ writeIndex # None => writeIndex = Place(d) /\ ~ReadyBlocks[Place(d)]
    /\ \A t \in Threads : IsWriter(t) =>
           /\ d < k
           /\ loc[t].wi = IF pc[t] = "return" THEN Place(d + 1) ELSE Place(d)
           /\ ~ReadyBlocks[Place(d)]
           /\ \A u \in Threads : HasSlot(u) => loc[u].bi # Place(d)
    /\ \A s \in Window(d, k) :
           \/ ReadyBlocks[s]
           \/ \E t \in Threads : HasSlot(t) /\ loc[t].bi = s
           \/ s = Place(d) /\ \E t \in Threads : IsWriter(t)

(* The writer has taken a ready block and not looked at it yet. *)
ReadyWriter(t) == pc[t] = "load" \/ (pc[t] = "post" /\ loc[t].isReady)

(* The free list: out buffers g[n], ..., g[1] have been given back, and    *)
(* those from m on have never been used.                                   *)
Rest(m) == IF m < BLOCKS_MAX THEN m ELSE None

FreeList(m, n, g) ==
    /\ freeBlockHead = IF n = 0 THEN Rest(m) ELSE g[n]
    /\ \A i \in 1..n : freeBlockList[g[i]] = IF i = 1 THEN Rest(m) ELSE g[i - 1]
    /\ \A b \in m..BLOCKS_MAX - 1 : freeBlockList[b] = Rest(b + 1)

(* held[s] is the buffer that the block in slot s has, or None.  Below m   *)
(* each buffer is either given back or held by one slot of the ring.       *)
Shared(d, k, m, n, g, held) ==
    /\ m <= NumBlocksMax
    /\ \A i \in 1..n : g[i] < m
    /\ \A i, j \in 1..n : g[i] = g[j] => i = j
    /\ \A s \in Slots : held[s] # None =>
           /\ held[s] < m
           /\ s \in Window(d, k)
           /\ \A i \in 1..n : g[i] # held[s]
           /\ \A r \in Slots : held[r] = held[s] => r = s
    /\ \A b \in 0..m - 1 : \/ \E i \in 1..n : g[i] = b
                           \/ \E s \in Slots : held[s] = b

(* The threads and the ready blocks have the buffers of their slots. *)
UserOf(t, d, held) ==
    /\ HasSlot(t) => loc[t].bufIndex = held[loc[t].bi]
    /\ HasToken(t) \/ pc[t] = "pop" => loc[t].bufIndex = None
    /\ pc[t] \in {"pop", "code"} => loc[t].res = "ok"
    /\ pc[t] = "code" => loc[t].bufIndex # None
    /\ pc[t] = "claim" =>
           blocks[loc[t].bi] = [res |-> loc[t].res, bufIndex |-> loc[t].bufIndex,
                                finished |-> loc[t].finished]
    /\ pc[t] \in {"write", "return"} => loc[t].bufIndex = held[Place(d)]
    /\ ReadyWriter(t) => blocks[Place(d)].bufIndex = held[Place(d)]

Users(d, held) ==
    /\ \A t \in Threads : UserOf(t, d, held)
    /\ \A s \in Slots : ReadyBlocks[s] => blocks[s].bufIndex = held[s]

Heldness == [Slots -> Bufs \cup {None}]

Pool(d, k) ==
    \E m, n \in Nat, g \in [Nat -> Bufs], held \in Heldness :
        FreeList(m, n, g) /\ Shared(d, k, m, n, g, held) /\ Users(d, held)

-----------------------------------------------------------------------------
(* The constants, and what the steps of the threads do. *)

(* What the assumption on the constants says of the sets of indexes. *)
LEMMA Sets ==
  /\ NumThreads \in Nat /\ NumThreads > 0 /\ 0 \in Threads /\ Threads \subseteq Nat
  /\ NumBlocksMax \in Nat /\ NumBlocksMax > 0 /\ 0 \in Slots /\ Slots \subseteq Nat
  /\ BLOCKS_MAX \in Nat /\ NumBlocksMax <= BLOCKS_MAX /\ Bufs \subseteq Nat
  /\ None = -1 /\ None \notin Bufs /\ None \notin Slots
  /\ MaxCalls \in Nat /\ NumInput \in Nat /\ NumInput > 0
  /\ \A s \in Slots : NextSlot(s) \in Slots
  BY MtCoderAssumption DEF MtCoderAssumption, Slots, None, Threads, Bufs, NextSlot

(* The results and the places of the caller, one by one. *)
LEMMA ResultsFacts ==
  /\ {"ok", "read", "code", "write", "create"} \subseteq Results
  /\ {"idle", "create", "go", "wait", "combine", "free", "join", "destroyed"}
       \subseteq MainPlaces
  BY DEF Results, MainPlaces

(* The locals of a thread that has just begun, or has just been counted. *)
LEMMA EmptyTyped ==
  /\ EmptyLocals \in Locals
  /\ \A n \in 0..NumThreads : [EmptyLocals EXCEPT !.numFinished = n] \in Locals
<1>1. /\ "ok" \in Results /\ 0 \in Slots /\ 0 \in 0..NumThreads
      /\ None \in Bufs \cup {None}
  BY Sets, ResultsFacts
<1>2. EmptyLocals \in Locals BY <1>1 DEF EmptyLocals, Locals
<1>3. ASSUME NEW n \in 0..NumThreads
      PROVE  [EmptyLocals EXCEPT !.numFinished = n] \in Locals
  BY <1>2 DEF Locals
<1> QED BY <1>2, <1>3

(* The counted threads are threads, and none is missing when all are. *)
LEMMA CountedFacts ==
  ASSUME TypeOK
  PROVE  /\ IsFiniteSet(Counted) /\ Cardinality(Counted) \in Nat
         /\ Counted \subseteq 0..numStartedThreads - 1
         /\ Cardinality(Counted) <= numStartedThreads
         /\ Cardinality(Counted) = numStartedThreads =>
                Counted = 0..numStartedThreads - 1
         /\ \A t \in Threads : t \notin Counted => Cardinality(Counted) < NumThreads
<1>1. numStartedThreads \in Nat /\ numStartedThreads <= NumThreads BY Sets DEF TypeOK
<1>2. Counted \subseteq 0..numStartedThreads - 1 BY <1>1, Sets DEF Counted, Threads
<1>3. /\ IsFiniteSet(0..numStartedThreads - 1)
      /\ Cardinality(0..numStartedThreads - 1) = numStartedThreads
  BY <1>1, FS_Interval
<1>4. /\ IsFiniteSet(Counted) /\ Cardinality(Counted) \in Nat
      /\ Cardinality(Counted) <= numStartedThreads
      /\ Cardinality(Counted) = numStartedThreads => Counted = 0..numStartedThreads - 1
  BY <1>2, <1>3, FS_Subset, FS_CardinalityType
<1>5. ASSUME NEW t \in Threads, t \notin Counted PROVE Cardinality(Counted) < NumThreads
  BY <1>1, <1>4, <1>5, Sets DEF Threads
<1> QED BY <1>2, <1>4, <1>5

-----------------------------------------------------------------------------
(* What the steps of a thread do, in terms of the fields of its locals.    *)
Alone(t) == \A u \in Threads : u # t => pc'[u] = pc[u] /\ loc'[u] = loc[u]

(* The fields of the locals of one thread. *)
LEMMA LocalsTyped ==
  ASSUME TypeOK, NEW t \in Threads
  PROVE  /\ loc[t] \in Locals
         /\ loc[t].bi \in Slots /\ loc[t].wi \in Slots /\ loc[t].res \in Results
         /\ loc[t].bufIndex \in Bufs \cup {None} /\ loc[t].finished \in BOOLEAN
         /\ loc[t].isReady \in BOOLEAN /\ loc[t].block \in Nat
         /\ loc[t].numFinished \in 0..NumThreads
  BY DEF TypeOK, Locals

(* One thread goes to p with locals r, the others stay. *)
LEMMA OneMoves ==
  ASSUME TypeOK, NEW t \in Threads, NEW p \in Places, NEW r \in Locals,
         pc' = [pc EXCEPT ![t] = p], loc' = [loc EXCEPT ![t] = r]
  PROVE  /\ Alone(t) /\ pc'[t] = p /\ loc'[t] = r
         /\ pc' \in [Threads -> Places] /\ loc' \in [Threads -> Locals]
  BY DEF TypeOK, Alone

(* One thread goes to p, all locals stay. *)
LEMMA OneGoes ==
  ASSUME TypeOK, NEW t \in Threads, NEW p \in Places,
         pc' = [pc EXCEPT ![t] = p], loc' = loc
  PROVE  /\ Alone(t) /\ pc'[t] = p /\ loc'[t] = loc[t]
         /\ pc' \in [Threads -> Places] /\ loc' \in [Threads -> Locals]
  BY DEF TypeOK, Alone

(* Event_Wait(&t->startEvent) returns. *)
LEMMA ThreadStartEffect ==
  ASSUME TypeOK, NEW t \in Threads, ThreadStart(t)
  PROVE  /\ TypeOK' /\ Alone(t)
         /\ pc[t] = "start" /\ startEvent[t] /\ ~startEvent'[t]
         /\ \A u \in Threads : u # t => startEvent'[u] = startEvent[u]
         /\ pc'[t] = IF stop[t] THEN "dead" ELSE "readWait"
<1>1. (IF stop[t] THEN "dead" ELSE "readWait") \in Places BY PlacesFacts
<1>2. /\ Alone(t) /\ pc'[t] = IF stop[t] THEN "dead" ELSE "readWait"
      /\ pc' \in [Threads -> Places] /\ loc' \in [Threads -> Locals]
  BY <1>1, OneGoes DEF ThreadStart, Goto
<1>3. /\ startEvent' \in [Threads -> BOOLEAN] /\ ~startEvent'[t]
      /\ \A u \in Threads : u # t => startEvent'[u] = startEvent[u]
  BY DEF TypeOK, ThreadStart, Event_Wait
<1>4. TypeOK'
  BY <1>2, <1>3 DEF TypeOK, ThreadStart, tokenVars, csVars, finishVars, outVars, mainVars
<1> QED BY <1>2, <1>3, <1>4 DEF ThreadStart, Event_CanWait

(* The token is taken, or handed on when reading has stopped. *)
LEMMA ReadWaitEffect ==
  ASSUME TypeOK, NEW t \in Threads, ReadWait(t)
  PROVE  /\ TypeOK' /\ Alone(t)
         /\ pc[t] = "readWait" /\ readEvent
         /\ loc'[t] = EmptyLocals
         /\ readEvent' <=> stopReading
         /\ pc'[t] = IF stopReading THEN "count" ELSE "read"
<1>1. (IF stopReading THEN "count" ELSE "read") \in Places BY PlacesFacts
<1>2. /\ Alone(t) /\ pc'[t] = IF stopReading THEN "count" ELSE "read"
      /\ loc'[t] = EmptyLocals
      /\ pc' \in [Threads -> Places] /\ loc' \in [Threads -> Locals]
  BY <1>1, OneMoves, EmptyTyped DEF ReadWait, Goto
<1>3. readEvent' \in BOOLEAN /\ (readEvent' <=> stopReading)
  BY DEF TypeOK, ReadWait, TokenAfterWait, Event_Set, Event_Wait
<1>4. TypeOK'
  BY <1>2, <1>3 DEF TypeOK, ReadWait, threadVars, tokenVars, csVars, finishVars, outVars,
     mainVars
<1> QED BY <1>2, <1>3, <1>4 DEF ReadWait, Event_CanWait

(* After an error nothing is read; else a block, or reading fails. *)
LEMMA ReadEffect ==
  ASSUME TypeOK, NEW t \in Threads, Read(t)
  PROVE  /\ TypeOK' /\ Alone(t)
         /\ pc[t] = "read"
         /\ loc'[t].bufIndex = loc[t].bufIndex
         /\ \/ /\ Err /\ pc'[t] = "semWait"
               /\ loc'[t].res # "ok" /\ loc'[t].finished
               /\ readProcessed' = readProcessed
            \/ /\ pc'[t] = "semWait"
               /\ loc'[t].res = loc[t].res /\ loc'[t].block = readProcessed + 1
               /\ loc'[t].finished <=> readProcessed + 1 >= NumInput
               /\ readProcessed' = readProcessed + 1
            \/ /\ pc'[t] = "readErr"
               /\ loc'[t].res # "ok" /\ loc'[t].finished
               /\ readProcessed' = readProcessed
<1> USE LocalsTyped, ResultsFacts, PlacesFacts, Sets
<1>1. readProcessed \in Nat /\ progressRes \in Results BY DEF TypeOK
<1>2. CASE /\ progressRes # "ok"
           /\ loc' = [loc EXCEPT ![t].res = progressRes, ![t].finished = TRUE]
           /\ Goto(t, "semWait") /\ UNCHANGED <<readProcessed, readRes>>
  <2> DEFINE r == [loc[t] EXCEPT !.res = progressRes, !.finished = TRUE]
  <2>1. /\ r \in Locals /\ r.res = progressRes /\ r.finished = TRUE
        /\ r.bufIndex = loc[t].bufIndex
    BY <1>1 DEF Locals
  <2>2. loc' = [loc EXCEPT ![t] = r] BY <1>2
  <2> HIDE DEF r
  <2>3. /\ Alone(t) /\ pc'[t] = "semWait" /\ loc'[t] = r
        /\ pc' \in [Threads -> Places] /\ loc' \in [Threads -> Locals]
    BY <1>2, <2>1, <2>2, OneMoves DEF Goto
  <2>4. TypeOK'
    BY <1>2, <2>3 DEF TypeOK, Read, threadVars, csVars, finishVars, outVars, mainVars
  <2> QED BY <1>2, <2>1, <2>3, <2>4 DEF Read, Err
<1>3. CASE /\ progressRes = "ok"
           /\ readProcessed' = readProcessed + 1
           /\ loc' = [loc EXCEPT ![t].block = readProcessed + 1,
                                 ![t].finished = (readProcessed + 1 >= NumInput)]
           /\ Goto(t, "semWait") /\ UNCHANGED readRes
  <2> DEFINE n == readProcessed + 1
             f == n >= NumInput
             r == [loc[t] EXCEPT !.block = n, !.finished = f]
  <2>0. f \in BOOLEAN /\ (f <=> readProcessed + 1 >= NumInput)
        /\ n \in Nat /\ n = readProcessed + 1
    BY <1>1
  <2>2. loc' = [loc EXCEPT ![t] = r] BY <1>3
  <2> HIDE DEF f, n
  <2>1. /\ r \in Locals /\ r.res = loc[t].res /\ r.block = n
        /\ r.finished = f
        /\ r.bufIndex = loc[t].bufIndex
    BY <2>0 DEF Locals
  <2> HIDE DEF r
  <2>3. /\ Alone(t) /\ pc'[t] = "semWait" /\ loc'[t] = r
        /\ pc' \in [Threads -> Places] /\ loc' \in [Threads -> Locals]
    BY <1>3, <2>1, <2>2, OneMoves DEF Goto
  <2>8. readProcessed' \in Nat /\ readRes' = readRes BY <1>1, <1>3
  <2>9. UNCHANGED <<threadVars, readEvent, blocksSemaphore, stopReading,
                    blockIndex, numStartedThreads, csVars, progressRes,
                    finishVars, blocks, outVars, mainVars>>
    BY DEF Read
  <2>4. TypeOK'
    BY <2>3, <2>8, <2>9 DEF TypeOK, threadVars, csVars, finishVars, outVars, mainVars
  <2>5. readProcessed' = readProcessed + 1 /\ pc[t] = "read" BY <1>3 DEF Read
  <2>6. loc'[t].finished <=> readProcessed + 1 >= NumInput BY <2>1, <2>3, <2>0
  <2>7. loc'[t].block = readProcessed + 1 BY <2>0, <2>1, <2>3
  <2> QED BY <2>1, <2>3, <2>4, <2>5, <2>6, <2>7
<1>4. CASE /\ readRes' = "read"
           /\ loc' = [loc EXCEPT ![t].res = "read", ![t].finished = TRUE]
           /\ Goto(t, "readErr") /\ UNCHANGED readProcessed
  <2> DEFINE r == [loc[t] EXCEPT !.res = "read", !.finished = TRUE]
  <2>1. /\ r \in Locals /\ r.res = "read" /\ r.finished = TRUE
        /\ r.bufIndex = loc[t].bufIndex
    BY DEF Locals
  <2>2. loc' = [loc EXCEPT ![t] = r] BY <1>4
  <2> HIDE DEF r
  <2>3. /\ Alone(t) /\ pc'[t] = "readErr" /\ loc'[t] = r
        /\ pc' \in [Threads -> Places] /\ loc' \in [Threads -> Locals]
    BY <1>4, <2>1, <2>2, OneMoves DEF Goto
  <2>4. TypeOK'
    BY <1>4, <2>3 DEF TypeOK, Read, threadVars, csVars, finishVars, outVars, mainVars
  <2> QED BY <1>4, <2>1, <2>3, <2>4 DEF Read
<1> QED BY <1>2, <1>3, <1>4 DEF Read

(* A failed read is published. *)
LEMMA ReadErrEffect ==
  ASSUME TypeOK, NEW t \in Threads, ReadErr(t)
  PROVE  /\ TypeOK' /\ Alone(t) /\ Err'
         /\ pc[t] = "readErr" /\ pc'[t] = "semWait" /\ loc'[t] = loc[t]
<1>1. /\ Alone(t) /\ pc'[t] = "semWait" /\ loc'[t] = loc[t]
      /\ pc' \in [Threads -> Places] /\ loc' \in [Threads -> Locals]
  BY OneGoes, PlacesFacts DEF ReadErr, Goto
<1>2. progressRes' \in Results /\ Err' BY ResultsFacts DEF TypeOK, ReadErr, SetError, Err
<1>3. TypeOK'
  BY <1>1, <1>2 DEF TypeOK, ReadErr, threadVars, tokenVars, csVars, finishVars, outVars,
     mainVars
<1> QED BY <1>1, <1>2, <1>3 DEF ReadErr

(* The block gets the place at blockIndex. *)
LEMMA SemWaitEffect ==
  ASSUME TypeOK, NEW t \in Threads, SemWait(t)
  PROVE  /\ TypeOK' /\ Alone(t)
         /\ pc[t] = "semWait" /\ pc'[t] = "decide"
         /\ blocksSemaphore > 0 /\ blocksSemaphore' = blocksSemaphore - 1
         /\ blockIndex' = NextSlot(blockIndex)
         /\ loc'[t].bi = blockIndex
         /\ loc'[t].res = loc[t].res /\ loc'[t].finished = loc[t].finished
         /\ loc'[t].block = loc[t].block /\ loc'[t].bufIndex = loc[t].bufIndex
<1> USE LocalsTyped, ResultsFacts, PlacesFacts, Sets
<1>1. /\ blockIndex \in Slots /\ blocksSemaphore \in 0..NumBlocksMax
      /\ blocksSemaphore >= 1
      /\ blocksSemaphore' = blocksSemaphore - 1 /\ blockIndex' = NextSlot(blockIndex)
  BY DEF TypeOK, SemWait, Semaphore_CanWait, Semaphore_Wait
<1> DEFINE r == [loc[t] EXCEPT !.bi = blockIndex]
<1>2. /\ r \in Locals /\ r.bi = blockIndex
      /\ r.res = loc[t].res /\ r.finished = loc[t].finished
      /\ r.block = loc[t].block /\ r.bufIndex = loc[t].bufIndex
  BY <1>1 DEF Locals
<1>3. loc' = [loc EXCEPT ![t] = r] BY DEF SemWait
<1> HIDE DEF r
<1>4. /\ Alone(t) /\ pc'[t] = "decide" /\ loc'[t] = r
      /\ pc' \in [Threads -> Places] /\ loc' \in [Threads -> Locals]
  BY <1>2, <1>3, OneMoves DEF SemWait, Goto
<1>5. blocksSemaphore' \in 0..NumBlocksMax /\ blockIndex' \in Slots BY <1>1
<1>6. TypeOK'
  BY <1>4, <1>5 DEF TypeOK, SemWait, threadVars, csVars, finishVars, outVars, mainVars
<1> QED BY <1>1, <1>2, <1>4, <1>6 DEF SemWait

(* An error that is known by now makes this block the last one. *)
LEMMA DecideEffect ==
  ASSUME TypeOK, NEW t \in Threads, Decide(t)
  PROVE  /\ TypeOK' /\ Alone(t)
         /\ pc[t] = "decide"
         /\ pc'[t] \in {"create", "release"}
         /\ pc'[t] = "create" => numStartedThreads < NumThreads
         /\ loc'[t].res = IF loc[t].res = "ok" THEN progressRes ELSE loc[t].res
         /\ loc'[t].finished <=> loc[t].finished \/ loc'[t].res # "ok"
         /\ loc'[t].bi = loc[t].bi /\ loc'[t].block = loc[t].block
         /\ loc'[t].bufIndex = loc[t].bufIndex
<1> USE LocalsTyped, ResultsFacts, PlacesFacts, Sets
<1> DEFINE q == IF loc[t].res = "ok" THEN progressRes ELSE loc[t].res
           last == loc[t].finished \/ q # "ok"
           p == IF ~last /\ WantsThread THEN "create" ELSE "release"
           r == [loc[t] EXCEPT !.res = q, !.finished = last]
<1>1. q \in Results /\ last \in BOOLEAN /\ p \in Places /\ p \in {"create", "release"}
  BY DEF TypeOK
<1>2. p = "create" => numStartedThreads < NumThreads BY DEF WantsThread
<1>3. loc' = [loc EXCEPT ![t] = r] /\ pc' = [pc EXCEPT ![t] = p] /\ pc[t] = "decide"
  BY DEF Decide, Goto
<1>4. last <=> loc[t].finished \/ q # "ok" OBVIOUS
<1>5. q = IF loc[t].res = "ok" THEN progressRes ELSE loc[t].res OBVIOUS
<1> HIDE DEF q, last, p
<1>6. /\ r \in Locals /\ r.res = q /\ r.finished = last
      /\ r.bi = loc[t].bi /\ r.block = loc[t].block /\ r.bufIndex = loc[t].bufIndex
  BY <1>1 DEF Locals
<1> HIDE DEF r
<1>7. /\ Alone(t) /\ pc'[t] = p /\ loc'[t] = r
      /\ pc' \in [Threads -> Places] /\ loc' \in [Threads -> Locals]
  BY <1>1, <1>3, <1>6, OneMoves
<1>8. TypeOK'
  BY <1>7 DEF TypeOK, Decide, threadVars, tokenVars, csVars, finishVars, outVars, mainVars
<1> QED BY <1>1, <1>2, <1>3, <1>4, <1>5, <1>6, <1>7, <1>8

(* The next thread is started, or its creation fails. *)
LEMMA CreateNextEffect ==
  ASSUME TypeOK, NEW t \in Threads, CreateNext(t), numStartedThreads < NumThreads
  PROVE  LET n == numStartedThreads IN
         /\ TypeOK' /\ n \in Threads
         /\ pc[t] = "create"
         /\ \/ /\ startEvent'[n] /\ ~stop'[n] /\ created'[n]
               /\ \A u \in Threads : u # n => /\ startEvent'[u] = startEvent[u]
                                              /\ stop'[u] = stop[u]
                                              /\ created'[u] = created[u]
               /\ numStartedThreads' = n + 1
               /\ \A u \in Threads : u # n /\ u # t => pc'[u] = pc[u]
               /\ pc'[t] = IF t = n THEN Started(n) ELSE "release"
               /\ pc'[n] = Started(n)
               /\ loc' = loc /\ progressRes' = progressRes
            \/ /\ Alone(t) /\ Err' /\ pc'[t] = "release"
               /\ loc'[t].res # "ok" /\ loc'[t].finished
               /\ loc'[t].bi = loc[t].bi /\ loc'[t].block = loc[t].block
               /\ loc'[t].bufIndex = loc[t].bufIndex
               /\ UNCHANGED <<created, stop, startEvent, numStartedThreads>>
<1> USE LocalsTyped, ResultsFacts, PlacesFacts, Sets
<1> DEFINE n == numStartedThreads
<1>1. n \in Threads /\ n + 1 \in 0..NumThreads BY DEF TypeOK, Threads
<1>2. CASE /\ CreateAndStart(n)
           /\ numStartedThreads' = n + 1
           /\ pc' = [pc EXCEPT ![t] = "release", ![n] = Started(n)]
           /\ UNCHANGED <<loc, progressRes>>
  <2>1. Started(n) \in Places BY <1>1 DEF Started, TypeOK
  <2>2. /\ pc' \in [Threads -> Places] /\ loc' \in [Threads -> Locals]
        /\ \A u \in Threads : u # n /\ u # t => pc'[u] = pc[u]
        /\ pc'[t] = IF t = n THEN Started(n) ELSE "release"
        /\ pc'[n] = Started(n)
    BY <1>1, <1>2, <2>1 DEF TypeOK
  <2>3. /\ startEvent' \in [Threads -> BOOLEAN] /\ startEvent'[n]
        /\ stop' \in [Threads -> BOOLEAN] /\ ~stop'[n]
        /\ created' \in [Threads -> BOOLEAN] /\ created'[n]
        /\ \A u \in Threads : u # n => /\ startEvent'[u] = startEvent[u]
                                       /\ stop'[u] = stop[u]
                                       /\ created'[u] = created[u]
    BY <1>1, <1>2 DEF TypeOK, CreateAndStart
  <2>4. TypeOK'
    BY <1>1, <1>2, <2>2, <2>3 DEF TypeOK, CreateNext, csVars, finishVars, outVars, mainVars
  <2> QED BY <1>1, <1>2, <2>2, <2>3, <2>4 DEF CreateNext
<1>3. CASE /\ loc' = [loc EXCEPT ![t].res = "create", ![t].finished = TRUE]
           /\ SetError("create")
           /\ Goto(t, "release")
           /\ UNCHANGED <<threadVars, numStartedThreads>>
  <2> DEFINE r == [loc[t] EXCEPT !.res = "create", !.finished = TRUE]
  <2>1. /\ r \in Locals /\ r.res # "ok" /\ r.finished
        /\ r.bi = loc[t].bi /\ r.block = loc[t].block /\ r.bufIndex = loc[t].bufIndex
    BY DEF Locals
  <2>2. loc' = [loc EXCEPT ![t] = r] BY <1>3
  <2> HIDE DEF r
  <2>3. /\ Alone(t) /\ pc'[t] = "release" /\ loc'[t] = r
        /\ pc' \in [Threads -> Places] /\ loc' \in [Threads -> Locals]
    BY <1>3, <2>1, <2>2, OneMoves DEF Goto
  <2>4. progressRes' \in Results /\ Err' BY <1>3 DEF TypeOK, SetError, Err
  <2>5. TypeOK'
    BY <1>3, <2>3, <2>4 DEF TypeOK, CreateNext, threadVars, csVars, finishVars, outVars,
       mainVars
  <2> QED BY <1>1, <1>3, <2>1, <2>3, <2>4, <2>5 DEF CreateNext, threadVars
<1> QED BY <1>2, <1>3 DEF CreateNext

(* The token is set free; a block without error is encoded next. *)
LEMMA ReleaseEffect ==
  ASSUME TypeOK, NEW t \in Threads, Release(t)
  PROVE  /\ TypeOK' /\ Alone(t)
         /\ pc[t] = "release" /\ loc'[t] = loc[t]
         /\ pc'[t] = IF loc[t].res = "ok" THEN "pop" ELSE "store"
         /\ stopReading' <=> stopReading \/ loc[t].finished
         /\ readEvent'
<1>1. /\ Alone(t) /\ loc'[t] = loc[t]
      /\ pc'[t] = IF loc[t].res = "ok" THEN "pop" ELSE "store"
      /\ pc' \in [Threads -> Places] /\ loc' \in [Threads -> Locals]
  BY OneGoes, PlacesFacts DEF Release, Goto
<1>2. /\ stopReading' \in BOOLEAN /\ readEvent' = TRUE
      /\ stopReading' <=> stopReading \/ loc[t].finished
  BY LocalsTyped DEF TypeOK, Release, Event_Set
<1>3. TypeOK'
  BY <1>1, <1>2 DEF TypeOK, Release, threadVars, csVars, finishVars, outVars, mainVars
<1> QED BY <1>1, <1>2, <1>3 DEF Release

(* The head of the free list is taken. *)
LEMMA PopEffect ==
  ASSUME TypeOK, NEW t \in Threads, Pop(t), freeBlockHead \in Bufs
  PROVE  /\ TypeOK' /\ Alone(t)
         /\ pc[t] = "pop" /\ pc'[t] = "code"
         /\ loc'[t].bufIndex = freeBlockHead
         /\ freeBlockHead' = freeBlockList[freeBlockHead]
         /\ loc'[t].bi = loc[t].bi /\ loc'[t].res = loc[t].res
         /\ loc'[t].finished = loc[t].finished /\ loc'[t].block = loc[t].block
<1> USE LocalsTyped, ResultsFacts, PlacesFacts, Sets
<1> DEFINE r == [loc[t] EXCEPT !.bufIndex = freeBlockHead]
<1>1. /\ r \in Locals /\ r.bufIndex = freeBlockHead
      /\ r.bi = loc[t].bi /\ r.res = loc[t].res
      /\ r.finished = loc[t].finished /\ r.block = loc[t].block
  BY DEF Locals
<1>2. loc' = [loc EXCEPT ![t] = r] BY DEF Pop
<1> HIDE DEF r
<1>3. /\ Alone(t) /\ pc'[t] = "code" /\ loc'[t] = r
      /\ pc' \in [Threads -> Places] /\ loc' \in [Threads -> Locals]
  BY <1>1, <1>2, OneMoves DEF Pop, Goto
<1>4. /\ freeBlockHead' = freeBlockList[freeBlockHead]
      /\ freeBlockHead' \in Bufs \cup {None}
  BY DEF TypeOK, Pop, HeadAfterPop
<1>5. TypeOK'
  BY <1>3, <1>4 DEF TypeOK, Pop, threadVars, tokenVars, finishVars, outVars, mainVars
<1> QED BY <1>1, <1>3, <1>4, <1>5 DEF Pop

(* The block is in its out buffer, or the error is published. *)
LEMMA CodeEffect ==
  ASSUME TypeOK, NEW t \in Threads, Code(t), loc[t].bufIndex \in Bufs
  PROVE  /\ TypeOK' /\ Alone(t)
         /\ pc[t] = "code" /\ pc'[t] = "store"
         /\ \A b \in Bufs : b # loc[t].bufIndex => outBuf'[b] = outBuf[b]
         /\ \/ /\ outBuf'[loc[t].bufIndex] = loc[t].block /\ loc'[t] = loc[t]
               /\ progressRes' = progressRes
            \/ /\ Err' /\ loc'[t].res # "ok"
         /\ loc'[t].bi = loc[t].bi /\ loc'[t].bufIndex = loc[t].bufIndex
         /\ loc'[t].finished = loc[t].finished /\ loc'[t].block = loc[t].block
<1> USE LocalsTyped, ResultsFacts, PlacesFacts, Sets
<1>1. CASE /\ outBuf' = [outBuf EXCEPT ![loc[t].bufIndex] = loc[t].block]
           /\ UNCHANGED <<loc, progressRes>>
  <2>1. /\ Alone(t) /\ pc'[t] = "store" /\ loc'[t] = loc[t]
        /\ pc' \in [Threads -> Places] /\ loc' \in [Threads -> Locals]
    BY <1>1, OneGoes DEF Code, Goto
  <2>2. /\ outBuf' \in [Bufs -> Nat] /\ outBuf'[loc[t].bufIndex] = loc[t].block
        /\ \A b \in Bufs : b # loc[t].bufIndex => outBuf'[b] = outBuf[b]
    BY <1>1 DEF TypeOK
  <2>3. TypeOK'
    BY <1>1, <2>1, <2>2 DEF TypeOK, Code, threadVars, tokenVars, csVars, finishVars, mainVars
  <2> QED BY <1>1, <2>1, <2>2, <2>3 DEF Code
<1>2. CASE /\ outBuf' = [outBuf EXCEPT ![loc[t].bufIndex] = 0]
           /\ loc' = [loc EXCEPT ![t].res = "code"]
           /\ SetError("code")
  <2> DEFINE r == [loc[t] EXCEPT !.res = "code"]
  <2>1. /\ r \in Locals /\ r.res # "ok"
        /\ r.bi = loc[t].bi /\ r.bufIndex = loc[t].bufIndex
        /\ r.finished = loc[t].finished /\ r.block = loc[t].block
    BY DEF Locals
  <2>2. loc' = [loc EXCEPT ![t] = r] BY <1>2
  <2> HIDE DEF r
  <2>3. /\ Alone(t) /\ pc'[t] = "store" /\ loc'[t] = r
        /\ pc' \in [Threads -> Places] /\ loc' \in [Threads -> Locals]
    BY <2>1, <2>2, OneMoves DEF Code, Goto
  <2>4. /\ outBuf' \in [Bufs -> Nat]
        /\ \A b \in Bufs : b # loc[t].bufIndex => outBuf'[b] = outBuf[b]
    BY <1>2 DEF TypeOK
  <2>5. progressRes' \in Results /\ Err' BY <1>2 DEF TypeOK, SetError, Err
  <2>6. TypeOK'
    BY <2>3, <2>4, <2>5 DEF TypeOK, Code, threadVars, tokenVars, csVars, finishVars, mainVars
  <2> QED BY <2>1, <2>3, <2>4, <2>5, <2>6 DEF Code
<1> QED BY <1>1, <1>2 DEF Code

(* The slot of the block is filled in. *)
LEMMA StoreEffect ==
  ASSUME TypeOK, NEW t \in Threads, Store(t)
  PROVE  /\ TypeOK' /\ Alone(t)
         /\ pc[t] = "store" /\ pc'[t] = "claim" /\ loc'[t] = loc[t]
         /\ blocks'[loc[t].bi] = [res |-> loc[t].res, bufIndex |-> loc[t].bufIndex,
                                  finished |-> loc[t].finished]
         /\ \A s \in Slots : s # loc[t].bi => blocks'[s] = blocks[s]
<1> USE LocalsTyped, ResultsFacts, PlacesFacts, Sets
<1>1. /\ Alone(t) /\ loc'[t] = loc[t] /\ pc'[t] = "claim"
      /\ pc' \in [Threads -> Places] /\ loc' \in [Threads -> Locals]
  BY OneGoes DEF Store, Goto
<1> DEFINE b == [res |-> loc[t].res, bufIndex |-> loc[t].bufIndex,
                 finished |-> loc[t].finished]
<1>2. b \in [res : Results, bufIndex : Bufs \cup {None}, finished : BOOLEAN] OBVIOUS
<1>3. blocks' = [blocks EXCEPT ![loc[t].bi] = b] BY DEF Store
<1> HIDE DEF b
<1>4. /\ blocks' \in [Slots -> [res : Results, bufIndex : Bufs \cup {None},
                                finished : BOOLEAN]]
      /\ blocks'[loc[t].bi] = b
      /\ \A s \in Slots : s # loc[t].bi => blocks'[s] = blocks[s]
  BY <1>2, <1>3 DEF TypeOK
<1>5. TypeOK'
  BY <1>1, <1>4 DEF TypeOK, Store, threadVars, tokenVars, csVars, finishVars, outVars, mainVars
<1> QED BY <1>1, <1>4, <1>5 DEF Store, b

(* The thread becomes the writer, or leaves its block ready. *)
LEMMA ClaimEffect ==
  ASSUME TypeOK, NEW t \in Threads, Claim(t)
  PROVE  /\ TypeOK' /\ Alone(t)
         /\ pc[t] = "claim"
         /\ \/ /\ writeIndex = loc[t].bi /\ writeIndex' = None
               /\ ReadyBlocks' = ReadyBlocks
               /\ pc'[t] = "write" /\ loc'[t].wi = loc[t].bi
               /\ loc'[t].res = IF writeRes # "ok" THEN writeRes ELSE loc[t].res
               /\ loc'[t].bufIndex = loc[t].bufIndex
               /\ loc'[t].finished = loc[t].finished
            \/ /\ writeIndex # loc[t].bi /\ writeIndex' = writeIndex
               /\ ReadyBlocks'[loc[t].bi]
               /\ \A s \in Slots : s # loc[t].bi => ReadyBlocks'[s] = ReadyBlocks[s]
               /\ pc'[t] = Continue(loc[t].res, loc[t].finished)
               /\ loc'[t] = loc[t]
<1> USE LocalsTyped, ResultsFacts, PlacesFacts, Sets
<1>1. CASE /\ writeIndex = loc[t].bi
           /\ writeIndex' = IndexOfWriter(writeIndex)
           /\ loc' = [loc EXCEPT ![t].wi = loc[t].bi,
                        ![t].res = IF writeRes # "ok" THEN writeRes ELSE @]
           /\ Goto(t, "write")
           /\ UNCHANGED ReadyBlocks
  <2> DEFINE q == IF writeRes # "ok" THEN writeRes ELSE loc[t].res
             r == [loc[t] EXCEPT !.wi = loc[t].bi, !.res = q]
  <2>1. q \in Results BY DEF TypeOK
  <2>2. loc' = [loc EXCEPT ![t] = r] BY <1>1
  <2>3. q = IF writeRes # "ok" THEN writeRes ELSE loc[t].res OBVIOUS
  <2> HIDE DEF q
  <2>4. /\ r \in Locals /\ r.wi = loc[t].bi /\ r.res = q
        /\ r.bufIndex = loc[t].bufIndex /\ r.finished = loc[t].finished
    BY <2>1 DEF Locals
  <2> HIDE DEF r
  <2>5. /\ Alone(t) /\ pc'[t] = "write" /\ loc'[t] = r
        /\ pc' \in [Threads -> Places] /\ loc' \in [Threads -> Locals]
    BY <1>1, <2>2, <2>4, OneMoves DEF Goto
  <2>6. TypeOK'
    BY <1>1, <2>5 DEF TypeOK, Claim, threadVars, tokenVars, csVars, finishVars, outVars,
       mainVars, IndexOfWriter
  <2> QED BY <1>1, <2>3, <2>4, <2>5, <2>6 DEF Claim, IndexOfWriter
<1>2. CASE /\ writeIndex # loc[t].bi
           /\ ReadyBlocks' = [ReadyBlocks EXCEPT ![loc[t].bi] = TRUE]
           /\ Goto(t, Continue(loc[t].res, loc[t].finished))
           /\ UNCHANGED <<writeIndex, loc>>
  <2>1. Continue(loc[t].res, loc[t].finished) \in Places OBVIOUS
  <2>2. /\ Alone(t) /\ pc'[t] = Continue(loc[t].res, loc[t].finished)
        /\ loc'[t] = loc[t]
        /\ pc' \in [Threads -> Places] /\ loc' \in [Threads -> Locals]
    BY <1>2, <2>1, OneGoes DEF Goto
  <2>3. /\ ReadyBlocks' \in [Slots -> BOOLEAN] /\ ReadyBlocks'[loc[t].bi]
        /\ \A s \in Slots : s # loc[t].bi => ReadyBlocks'[s] = ReadyBlocks[s]
    BY <1>2 DEF TypeOK
  <2>4. TypeOK'
    BY <1>2, <2>2, <2>3 DEF TypeOK, Claim, threadVars, tokenVars, csVars, finishVars, outVars,
       mainVars
  <2> QED BY <1>2, <2>2, <2>3, <2>4 DEF Claim
<1> QED BY <1>1, <1>2 DEF Claim

(* The output gets the block, or writing fails, or nothing is to be written. *)
LEMMA WriteEffect ==
  ASSUME TypeOK, NEW t \in Threads, Write(t)
  PROVE  /\ TypeOK' /\ Alone(t)
         /\ pc[t] = "write" /\ pc'[t] = "return"
         /\ loc'[t].wi = NextSlot(loc[t].wi)
         /\ loc'[t].bufIndex = loc[t].bufIndex /\ loc'[t].finished = loc[t].finished
         /\ \/ /\ ~MustWrite(t) /\ written' = written
               /\ writeRes' = writeRes /\ progressRes' = progressRes
               /\ loc'[t].res = loc[t].res
            \/ /\ MustWrite(t) /\ written' = Append(written, outBuf[loc[t].bufIndex])
               /\ writeRes' = writeRes /\ progressRes' = progressRes
               /\ loc'[t].res = loc[t].res
            \/ /\ Err' /\ written' = written /\ loc'[t].res # "ok"
<1> USE LocalsTyped, ResultsFacts, PlacesFacts, Sets
<1> DEFINE q(x) == [loc[t] EXCEPT !.wi = NextSlot(loc[t].wi), !.res = x]
<1>1. ASSUME NEW x \in Results
      PROVE  /\ q(x) \in Locals /\ q(x).wi = NextSlot(loc[t].wi) /\ q(x).res = x
             /\ q(x).bufIndex = loc[t].bufIndex /\ q(x).finished = loc[t].finished
  BY DEF Locals
<1>2. PICK x \in Results :
         /\ loc' = [loc EXCEPT ![t] = q(x)]
         /\ \/ /\ ~MustWrite(t) /\ x = loc[t].res
               /\ UNCHANGED <<written, writeRes, progressRes>>
            \/ /\ MustWrite(t) /\ x = loc[t].res
               /\ written' = Append(written, outBuf[loc[t].bufIndex])
               /\ UNCHANGED <<writeRes, progressRes>>
            \/ /\ MustWrite(t) /\ x = "write"
               /\ writeRes' = "write" /\ SetError("write")
               /\ UNCHANGED written
  <2>1. loc' = [loc EXCEPT ![t].wi = NextSlot(@)] =>
            loc' = [loc EXCEPT ![t] = q(loc[t].res)]
    <3>1. [loc[t] EXCEPT !.wi = NextSlot(loc[t].wi)] = q(loc[t].res) BY DEF Locals
    <3> QED BY <3>1
  <2>2. loc' = [loc EXCEPT ![t].wi = NextSlot(@), ![t].res = "write"] =>
            loc' = [loc EXCEPT ![t] = q("write")]
    OBVIOUS
  <2> HIDE DEF q
  <2> QED BY <2>1, <2>2 DEF Write
<1> DEFINE r == q(x)
<1>3. /\ r \in Locals /\ r.wi = NextSlot(loc[t].wi) /\ r.res = x
      /\ r.bufIndex = loc[t].bufIndex /\ r.finished = loc[t].finished
  BY <1>1
<1>4. loc' = [loc EXCEPT ![t] = r] BY <1>2
<1> HIDE DEF r, q
<1>5. /\ Alone(t) /\ pc'[t] = "return" /\ loc'[t] = r
      /\ pc' \in [Threads -> Places] /\ loc' \in [Threads -> Locals]
  BY <1>3, <1>4, OneMoves DEF Write, Goto
<1>6. /\ written' \in Seq(Nat) /\ writeRes' \in Results /\ progressRes' \in Results
  <2>1. MustWrite(t) => outBuf[loc[t].bufIndex] \in Nat BY DEF MustWrite, TypeOK
  <2>2. written' \in Seq(Nat)
    <3>1. written \in Seq(Nat) BY DEF TypeOK
    <3>2. \/ written' = written
          \/ MustWrite(t) /\ written' = Append(written, outBuf[loc[t].bufIndex])
      BY DEF Write
    <3> DEFINE n == outBuf[loc[t].bufIndex]
    <3>3. MustWrite(t) => n \in Nat BY <2>1
    <3> HIDE DEF n
    <3>4. n \in Nat => Append(written, n) \in Seq(Nat) BY <3>1
    <3> QED BY <3>1, <3>2, <3>3, <3>4 DEF n
  <2>3. writeRes' \in Results /\ progressRes' \in Results BY <1>2 DEF TypeOK, SetError
  <2> QED BY <2>2, <2>3
<1>7. TypeOK'
  BY <1>5, <1>6 DEF TypeOK, Write, threadVars, tokenVars, csVars, finishVars, mainVars
<1>8. SetError("write") => Err' BY DEF SetError, Err
<1>9. pc[t] = "write" BY DEF Write
<1> QED BY <1>2, <1>3, <1>5, <1>7, <1>8, <1>9

(* The buffer is given back; the next block is taken if it is ready. *)
LEMMA ReturnEffect ==
  ASSUME TypeOK, NEW t \in Threads, Return(t)
  PROVE  LET b == loc[t].bufIndex
             w == loc[t].wi
         IN
         /\ TypeOK' /\ Alone(t)
         /\ pc[t] = "return" /\ pc'[t] = "post"
         /\ IF b # None
            THEN /\ b \in Bufs /\ freeBlockHead' = b
                 /\ freeBlockList'[b] = freeBlockHead
                 /\ \A c \in Bufs : c # b => freeBlockList'[c] = freeBlockList[c]
            ELSE freeBlockList' = freeBlockList /\ freeBlockHead' = freeBlockHead
         /\ loc'[t].isReady = ReadyBlocks[w]
         /\ ~ReadyBlocks'[w]
         /\ \A s \in Slots : s # w => ReadyBlocks'[s] = ReadyBlocks[s]
         /\ writeIndex' = IF ReadyBlocks[w] THEN writeIndex ELSE w
         /\ loc'[t].wi = loc[t].wi /\ loc'[t].res = loc[t].res
         /\ loc'[t].finished = loc[t].finished
<1> USE LocalsTyped, ResultsFacts, PlacesFacts, Sets
<1> DEFINE b == loc[t].bufIndex
           w == loc[t].wi
           r == [loc[t] EXCEPT !.isReady = ReadyBlocks[w]]
<1>1. ReadyBlocks[w] \in BOOLEAN /\ w \in Slots BY DEF TypeOK
<1>2. loc' = [loc EXCEPT ![t] = r] BY DEF Return
<1>3. /\ r \in Locals /\ r.isReady = ReadyBlocks[w] /\ r.wi = loc[t].wi
      /\ r.res = loc[t].res /\ r.finished = loc[t].finished
  BY <1>1 DEF Locals
<1> HIDE DEF r
<1>4. /\ Alone(t) /\ pc'[t] = "post" /\ loc'[t] = r
      /\ pc' \in [Threads -> Places] /\ loc' \in [Threads -> Locals]
  BY <1>2, <1>3, OneMoves DEF Return, Goto
<1>5. /\ ReadyBlocks' \in [Slots -> BOOLEAN] /\ ~ReadyBlocks'[w]
      /\ \A s \in Slots : s # w => ReadyBlocks'[s] = ReadyBlocks[s]
      /\ writeIndex' = IF ReadyBlocks[w] THEN writeIndex ELSE w
      /\ writeIndex' \in Slots \cup {None}
  BY <1>1 DEF TypeOK, Return
<1>6. /\ freeBlockList' \in [Bufs -> Bufs \cup {None}]
      /\ freeBlockHead' \in Bufs \cup {None}
      /\ IF b # None
            THEN /\ b \in Bufs /\ freeBlockHead' = b
                 /\ freeBlockList'[b] = freeBlockHead
                 /\ \A c \in Bufs : c # b => freeBlockList'[c] = freeBlockList[c]
            ELSE freeBlockList' = freeBlockList /\ freeBlockHead' = freeBlockHead
  BY DEF TypeOK, Return
<1>7. TypeOK'
  BY <1>4, <1>5, <1>6 DEF TypeOK, Return, threadVars, tokenVars, finishVars, outVars, mainVars
<1> QED BY <1>3, <1>4, <1>5, <1>6, <1>7 DEF Return

(* The semaphore is released; a writer goes on, others read or leave. *)
LEMMA PostEffect ==
  ASSUME TypeOK, NEW t \in Threads, Post(t), blocksSemaphore < NumBlocksMax
  PROVE  /\ TypeOK' /\ Alone(t)
         /\ pc[t] = "post" /\ loc'[t] = loc[t]
         /\ blocksSemaphore' = blocksSemaphore + 1
         /\ pc'[t] = IF loc[t].isReady THEN "load"
                     ELSE Continue(loc[t].res, loc[t].finished)
<1> USE PlacesFacts, Sets
<1> DEFINE p == IF loc[t].isReady THEN "load"
                ELSE Continue(loc[t].res, loc[t].finished)
<1>1. p \in Places /\ pc' = [pc EXCEPT ![t] = p] /\ loc' = loc BY DEF Post, Goto
<1> HIDE DEF p
<1>2. /\ Alone(t) /\ loc'[t] = loc[t] /\ pc'[t] = p
      /\ pc' \in [Threads -> Places] /\ loc' \in [Threads -> Locals]
  BY <1>1, OneGoes
<1>3. blocksSemaphore' = blocksSemaphore + 1 /\ blocksSemaphore' \in 0..NumBlocksMax
  BY DEF TypeOK, Post, Semaphore_ReleaseN
<1>4. TypeOK'
  BY <1>2, <1>3 DEF TypeOK, Post, threadVars, tokenVars, csVars, finishVars, outVars, mainVars
<1> QED BY <1>2, <1>3, <1>4 DEF Post, p

(* The writer takes over the block in the slot wi. *)
LEMMA LoadEffect ==
  ASSUME TypeOK, NEW t \in Threads, Load(t)
  PROVE  LET b == blocks[loc[t].wi] IN
         /\ TypeOK' /\ Alone(t)
         /\ pc[t] = "load" /\ pc'[t] = "write"
         /\ loc'[t].res = (IF loc[t].res = "ok" THEN b.res ELSE loc[t].res)
         /\ loc'[t].bufIndex = b.bufIndex /\ loc'[t].finished = b.finished
         /\ loc'[t].wi = loc[t].wi
<1> USE LocalsTyped, ResultsFacts, PlacesFacts, Sets
<1> DEFINE b == blocks[loc[t].wi]
           q == IF loc[t].res = "ok" THEN b.res ELSE loc[t].res
           r == [loc[t] EXCEPT !.res = q, !.bufIndex = b.bufIndex,
                               !.finished = b.finished]
<1>1. /\ b.res \in Results /\ b.bufIndex \in Bufs \cup {None} /\ b.finished \in BOOLEAN
      /\ q \in Results
  BY DEF TypeOK
<1>2. loc' = [loc EXCEPT ![t] = r] BY DEF Load, ResultWithBlock
<1>3. q = IF loc[t].res = "ok" THEN b.res ELSE loc[t].res OBVIOUS
<1> HIDE DEF q
<1>4. /\ r \in Locals /\ r.res = q /\ r.bufIndex = b.bufIndex
      /\ r.finished = b.finished /\ r.wi = loc[t].wi
  BY <1>1 DEF Locals
<1> HIDE DEF r
<1>5. /\ Alone(t) /\ pc'[t] = "write" /\ loc'[t] = r
      /\ pc' \in [Threads -> Places] /\ loc' \in [Threads -> Locals]
  BY <1>2, <1>4, OneMoves DEF Load, Goto
<1>6. TypeOK'
  BY <1>5 DEF TypeOK, Load, threadVars, tokenVars, csVars, finishVars, outVars, mainVars
<1> QED BY <1>3, <1>4, <1>5, <1>6 DEF Load

(* The thread has left ThreadFunc2. *)
LEMMA CountEffect ==
  ASSUME TypeOK, NEW t \in Threads, Count(t), numFinishedThreads < NumThreads
  PROVE  /\ TypeOK' /\ Alone(t)
         /\ pc[t] = "count" /\ pc'[t] = "compare"
         /\ numFinishedThreads' = numFinishedThreads + 1
         /\ loc'[t].numFinished = numFinishedThreads + 1
<1> USE PlacesFacts, EmptyTyped, Sets
<1> DEFINE n == numFinishedThreads + 1
           r == [EmptyLocals EXCEPT !.numFinished = n]
<1>1. n \in 0..NumThreads
  <2>1. numFinishedThreads \in 0..NumThreads BY DEF TypeOK
  <2> QED BY <2>1
<1>2. loc' = [loc EXCEPT ![t] = r] /\ numFinishedThreads' = n BY DEF Count
<1> HIDE DEF n
<1>3. r \in Locals /\ r.numFinished = n BY <1>1 DEF EmptyLocals
<1> HIDE DEF r
<1>4. /\ Alone(t) /\ pc'[t] = "compare" /\ loc'[t] = r
      /\ pc' \in [Threads -> Places] /\ loc' \in [Threads -> Locals]
  BY <1>2, <1>3, OneMoves DEF Count, Goto
<1>5. TypeOK'
  BY <1>1, <1>2, <1>4 DEF TypeOK, Count, threadVars, tokenVars, csVars, outVars, mainVars
<1> QED BY <1>2, <1>3, <1>4, <1>5 DEF Count, n

(* The thread goes back to wait for startEvent. *)
LEMMA CompareEffect ==
  ASSUME TypeOK, NEW t \in Threads, Compare(t)
  PROVE  /\ TypeOK' /\ Alone(t)
         /\ pc[t] = "compare" /\ pc'[t] = "start"
         /\ finishedEvent' => finishedEvent \/ loc[t].numFinished = numStartedThreads
<1>1. /\ Alone(t) /\ pc'[t] = "start"
      /\ pc' \in [Threads -> Places] /\ loc' \in [Threads -> Locals]
  BY OneMoves, EmptyTyped, PlacesFacts DEF Compare, Goto
<1>2. /\ finishedEvent' \in BOOLEAN
      /\ finishedEvent' => finishedEvent \/ loc[t].numFinished = numStartedThreads
  BY DEF TypeOK, Compare, Event_Set, IsLastThread
<1>3. TypeOK'
  BY <1>1, <1>2 DEF TypeOK, Compare, threadVars, tokenVars, csVars, outVars, mainVars
<1> QED BY <1>1, <1>2, <1>3 DEF Compare

-----------------------------------------------------------------------------
(* The steps of the caller. *)
LEMMA CreateFirstEffect ==
  ASSUME TypeOK, CreateFirst
  PROVE  /\ TypeOK' /\ mpc = "create" /\ numStartedThreads' = 1
         /\ \/ /\ startEvent'[0] /\ ~stop'[0] /\ created'[0]
               /\ \A u \in Threads : u # 0 => /\ startEvent'[u] = startEvent[u]
                                              /\ stop'[u] = stop[u]
                                              /\ created'[u] = created[u]
                                              /\ pc'[u] = pc[u]
               /\ pc'[0] = Started(0)
               /\ mpc' = "go" /\ mres' = mres
            \/ /\ mpc' = "idle" /\ mres' = "create"
               /\ UNCHANGED <<created, stop, startEvent, pc>>
<1> USE ResultsFacts, PlacesFacts, Sets
<1>1. Started(0) \in Places /\ 1 \in 0..NumThreads BY DEF TypeOK, Started
<1>2. CASE /\ CreateAndStart(0)
           /\ pc' = [pc EXCEPT ![0] = Started(0)]
           /\ mpc' = "go" /\ UNCHANGED mres
  BY <1>1, <1>2 DEF TypeOK, CreateAndStart, CreateFirst, csVars, finishVars, outVars
<1>3. CASE mres' = "create" /\ mpc' = "idle" /\ UNCHANGED <<threadVars, pc>>
  BY <1>1, <1>3 DEF TypeOK, CreateFirst, threadVars, csVars, finishVars, outVars
<1> QED BY <1>2, <1>3 DEF CreateFirst

(* The next thread is asked to stop, or passed over. *)
LEMMA FreeSignalEffect ==
  ASSUME TypeOK, FreeSignal
  PROVE  /\ TypeOK' /\ mpc = "free" /\ mi \in Threads
         /\ \/ /\ created[mi] /\ mpc' = "join" /\ mi' = mi
               /\ stop'[mi] /\ startEvent'[mi]
               /\ \A u \in Threads : u # mi => /\ startEvent'[u] = startEvent[u]
                                               /\ stop'[u] = stop[u]
            \/ UNCHANGED <<stop, startEvent, mpc>>
<1> USE ResultsFacts, Sets
<1>1. mi \in Threads /\ mi + 1 \in 0..NumThreads /\ mpc = "free"
  BY DEF TypeOK, FreeSignal, Threads
<1>2. CASE created[mi]
  <2>1. /\ stop' \in [Threads -> BOOLEAN] /\ startEvent' \in [Threads -> BOOLEAN]
        /\ stop'[mi] /\ startEvent'[mi]
        /\ \A u \in Threads : u # mi => /\ startEvent'[u] = startEvent[u]
                                        /\ stop'[u] = stop[u]
    BY <1>1, <1>2 DEF TypeOK, FreeSignal
  <2>2. mpc' = "join" /\ mi' = mi BY <1>2 DEF FreeSignal
  <2>3. TypeOK' BY <2>1, <2>2 DEF TypeOK, FreeSignal, tokenVars, csVars, finishVars, outVars
  <2> QED BY <1>1, <1>2, <2>1, <2>2, <2>3
<1>3. CASE ~created[mi]
  BY <1>3, <1>1 DEF FreeSignal, TypeOK, tokenVars, csVars, finishVars, outVars
<1> QED BY <1>2, <1>3

(* A thread that was asked to stop has gone. *)
LEMMA FreeJoinEffect ==
  ASSUME TypeOK, Counting, FreeJoin
  PROVE  /\ TypeOK' /\ mpc = "join" /\ mpc' = "free" /\ mi \in Threads
         /\ pc'[mi] = "none" /\ ~created'[mi] /\ ~startEvent'[mi]
         /\ \A u \in Threads : u # mi => /\ startEvent'[u] = startEvent[u]
                                         /\ created'[u] = created[u]
                                         /\ pc'[u] = pc[u]
<1> USE ResultsFacts, PlacesFacts, Sets
<1>1. mi \in 0..NumThreads /\ mpc = "join" BY DEF TypeOK, FreeJoin
<1>2. mi < NumThreads BY <1>1 DEF Counting
<1>3. mi \in Threads /\ mi + 1 \in 0..NumThreads BY <1>1, <1>2 DEF Threads
<1>4. /\ pc' \in [Threads -> Places]
      /\ created' \in [Threads -> BOOLEAN] /\ startEvent' \in [Threads -> BOOLEAN]
      /\ pc'[mi] = "none" /\ ~created'[mi] /\ ~startEvent'[mi]
      /\ \A u \in Threads : u # mi => /\ startEvent'[u] = startEvent[u]
                                      /\ created'[u] = created[u]
                                      /\ pc'[u] = pc[u]
  BY <1>3 DEF TypeOK, FreeJoin, Goto
<1>5. TypeOK' BY <1>3, <1>4 DEF TypeOK, FreeJoin, tokenVars, csVars, finishVars, outVars
<1> QED BY <1>1, <1>3, <1>4, <1>5 DEF FreeJoin

(* A call begins with the whole ring allowed by the semaphore. *)
LEMMA CallCodeEffect ==
  ASSUME TypeOK, CallCode
  PROVE  TypeOK' /\ blocksSemaphore' = NumBlocksMax
<1> USE ResultsFacts, Sets
<1>1. calls + 1 \in 0..MaxCalls + 1 BY DEF TypeOK, CallCode
<1>2. blocksSemaphore' = NumBlocksMax BY DEF CallCode, BlocksInFlight
<1>3. InitFreeList \in [Bufs -> Bufs \cup {None}] /\ 0 \in Bufs BY DEF InitFreeList, Bufs
<1>4. <<>> \in Seq(Nat) /\ [s \in Slots |-> FALSE] \in [Slots -> BOOLEAN]
      /\ 0 \in 0..NumThreads /\ NumBlocksMax \in 0..NumBlocksMax
  OBVIOUS
<1> HIDE DEF InitFreeList
<1>5. TypeOK' BY <1>1, <1>2, <1>3, <1>4 DEF TypeOK, CallCode, threadVars, Event_Reset
<1> QED BY <1>2, <1>5

(* The steps of the caller keep the types. *)
LEMMA MainTypes ==
  ASSUME TypeOK, Counting, Main
  PROVE  TypeOK'
<1> USE ResultsFacts, Sets
    DEF threadVars, tokenVars, csVars, finishVars, outVars, mainVars
<1>1. CASE Go BY <1>1 DEF TypeOK, Go, Event_Set
<1>2. CASE WaitFinished BY <1>2 DEF TypeOK, WaitFinished, Event_Wait
<1>3. CASE Combine BY <1>3 DEF TypeOK, Combine, FinalResult
<1>4. CASE Destruct BY <1>4 DEF TypeOK, Destruct
<1>5. CASE FreeEnd
  <2>1. mpc' \in MainPlaces /\ mi' \in 0..NumThreads BY <1>5 DEF FreeEnd
  <2> QED BY <1>5, <2>1 DEF TypeOK, FreeEnd
<1> QED
  BY <1>1, <1>2, <1>3, <1>4, <1>5, CreateFirstEffect, FreeSignalEffect, FreeJoinEffect,
     CallCodeEffect DEF Main

-----------------------------------------------------------------------------
(* The threads of a call: who has been started, who has been counted, and  *)
(* that none is left when the call goes on.                                *)

(* A step inside ThreadFunc2. *)
LEMMA FleetKept ==
  ASSUME TypeOK, TypeOK', Counting, Quiet, NEW t \in Threads, Alone(t),
         InThreadFunc2(t), InThreadFunc2(t)',
         pc'[t] = "create" => numStartedThreads < NumThreads,
         UNCHANGED <<created, stop, startEvent, numStartedThreads,
                     numFinishedThreads, finishedEvent, mpc, mi>>
  PROVE  Counting' /\ Quiet'
  BY DEF InThreadFunc2, Alone, Counted, Quiet, Counting, InCall

(* A thread that begins was not counted before and is not after. *)
LEMMA FleetThreadStart ==
  ASSUME TypeOK, Counting, Quiet, NEW t \in Threads, ThreadStart(t)
  PROVE  Counting' /\ Quiet'
<1>1. /\ TypeOK' /\ Alone(t) /\ pc[t] = "start" /\ startEvent[t] /\ ~startEvent'[t]
      /\ \A u \in Threads : u # t => startEvent'[u] = startEvent[u]
      /\ pc'[t] = IF stop[t] THEN "dead" ELSE "readWait"
  BY ThreadStartEffect
<1>2. UNCHANGED <<created, stop, loc, numStartedThreads, numFinishedThreads,
                  finishedEvent, mpc, mi>>
  BY DEF ThreadStart, tokenVars, finishVars, mainVars
<1>3. \A u \in Threads : u # t => pc'[u] = pc[u] /\ startEvent'[u] = startEvent[u]
  BY <1>1 DEF Alone
<1>4. Counted' = Counted BY <1>1, <1>2, <1>3 DEF Counted
<1>5. CASE InCall BY <1>1, <1>5, <1>2, <1>3, <1>4 DEF Counting, Quiet, InCall
<1>6. CASE ~InCall BY <1>1, <1>6, <1>2, <1>3 DEF Quiet, InCall, InThreadFunc2, Counting
<1> QED BY <1>5, <1>6

(* The next thread is new in this call: it sleeps and was not counted. *)
LEMMA FleetCreateNext ==
  ASSUME TypeOK, IInv, Counting, Quiet, NEW t \in Threads, CreateNext(t)
  PROVE  Counting' /\ Quiet'
<1> DEFINE n == numStartedThreads
<1>1. pc[t] = "create" /\ n < NumThreads BY DEF CreateNext, Counting
<1>2. TypeOK' /\ n \in Threads /\ InThreadFunc2(t) BY <1>1, CreateNextEffect DEF InThreadFunc2
<1>3. UNCHANGED <<numFinishedThreads, finishedEvent, mpc, mi>>
  BY DEF CreateNext, finishVars, mainVars
<1>4. mpc \in {"create", "go", "wait"} /\ InCall BY <1>2 DEF Quiet, InCall
<1>5. n \in Nat /\ pc[n] \in {"none", "start"} /\ ~startEvent[n] /\ n # t
  <2>1. n \in Nat BY <1>2, Sets
  <2>2. pc[n] \in {"none", "start"} /\ ~startEvent[n] BY <1>2, <1>4, <2>1 DEF Counting
  <2> QED BY <1>1, <2>1, <2>2
<1>6. CASE /\ startEvent'[n] /\ ~stop'[n] /\ created'[n]
           /\ \A u \in Threads : u # n => /\ startEvent'[u] = startEvent[u]
                                          /\ stop'[u] = stop[u]
                                          /\ created'[u] = created[u]
           /\ numStartedThreads' = n + 1
           /\ \A u \in Threads : u # n /\ u # t => pc'[u] = pc[u]
           /\ pc'[t] = IF t = n THEN Started(n) ELSE "release"
           /\ pc'[n] = Started(n)
           /\ loc' = loc /\ progressRes' = progressRes
  <2>1. pc'[n] = "start" /\ pc'[t] = "release" BY <1>2, <1>5, <1>6 DEF Started, Counting
  <2>2. Counted' = Counted
    <3>1. \A u \in Threads : u # n => (u < n + 1 <=> u < n)
      BY <1>5, Sets
    <3>2. \A u \in Threads : u \in Counted' <=> u \in Counted
      BY <1>1, <1>2, <1>5, <1>6, <2>1, <3>1 DEF Counted
    <3> QED
      BY <3>2 DEF Counted
  <2>3. ~finishedEvent BY CountedFacts, <1>1, <1>4, <1>5, Sets DEF Counted, Counting
  <2>4. Quiet' BY <1>3, <1>4 DEF Quiet
  <2>5. ASSUME NEW u \in Threads PROVE pc'[u] # "create"
    BY <2>1, <1>1, <1>6 DEF IInv, OneToken, HasToken
  <2>6. \A u \in Threads : created'[u] <=> pc'[u] # "none"
    BY <1>1, <1>2, <1>6, <2>1 DEF Counting
  <2>7. \A u \in Threads :
          /\ u >= n + 1 => pc'[u] \in {"none", "start"} /\ ~startEvent'[u]
          /\ startEvent'[u] => pc'[u] = "start" /\ ~stop'[u]
          /\ pc'[u] # "dead"
          /\ pc'[u] = "compare" => loc'[u].numFinished <= numFinishedThreads'
    <3> SUFFICES ASSUME NEW u \in Threads
                 PROVE  /\ u >= n + 1 => pc'[u] \in {"none", "start"} /\ ~startEvent'[u]
                        /\ startEvent'[u] => pc'[u] = "start" /\ ~stop'[u]
                        /\ pc'[u] # "dead"
                        /\ pc'[u] = "compare" => loc'[u].numFinished <= numFinishedThreads'
      OBVIOUS
    <3>1. CASE u = n
      BY <1>5, <1>6, <2>1, <3>1
    <3>2. CASE u = t
      BY <1>1, <1>4, <1>5, <1>6, <2>1, <3>2, Sets DEF Counting
    <3>3. CASE u # n /\ u # t
      <4>1. u >= n + 1 => u >= n
        BY <1>5, Sets
      <4> QED
        BY <1>3, <1>4, <1>6, <3>3, <4>1 DEF Counting
    <3> QED
      BY <3>1, <3>2, <3>3
  <2>8. numStartedThreads' = n + 1 /\ n + 1 >= 1 /\ mpc' # "create"
    BY <1>1, <1>3, <1>5, <1>6 DEF IInv, CallBegins, Settled
  <2>9. mpc' # "join" /\ mpc' # "combine" BY <1>3, <1>4
  <2>10. Counting' BY <1>3, <1>4, <2>2, <2>3, <2>5, <2>6, <2>7, <2>8, <2>9 DEF Counting
  <2> QED BY <2>4, <2>10
<1>7. CASE /\ Alone(t) /\ Err' /\ pc'[t] = "release"
           /\ loc'[t].res # "ok" /\ loc'[t].finished
           /\ loc'[t].bi = loc[t].bi /\ loc'[t].block = loc[t].block
           /\ loc'[t].bufIndex = loc[t].bufIndex
           /\ UNCHANGED <<created, stop, startEvent, numStartedThreads>>
  BY <1>2, <1>3, <1>7, FleetKept DEF InThreadFunc2
<1> QED BY <1>1, <1>6, <1>7, CreateNextEffect

(* The thread that counts itself was not counted before. *)
LEMMA FleetCount ==
  ASSUME TypeOK, Counting, Quiet, NEW t \in Threads, Count(t)
  PROVE  /\ Counting' /\ Quiet' /\ TypeOK' /\ Alone(t)
         /\ pc[t] = "count" /\ pc'[t] = "compare"
         /\ numFinishedThreads' = numFinishedThreads + 1
<1>1. pc[t] = "count" /\ InThreadFunc2(t) /\ t \notin Counted
  BY DEF Count, InThreadFunc2, Counted
<1>2. InCall /\ mpc \in {"create", "go", "wait"} BY <1>1 DEF Quiet, InCall
<1>3. numFinishedThreads = Cardinality(Counted) /\ numFinishedThreads < NumThreads
  BY <1>1, <1>2, CountedFacts DEF Counting
<1>4. /\ TypeOK' /\ Alone(t) /\ pc'[t] = "compare"
      /\ numFinishedThreads' = numFinishedThreads + 1
      /\ loc'[t].numFinished = numFinishedThreads + 1
  BY <1>3, CountEffect
<1>5. UNCHANGED <<created, stop, startEvent, numStartedThreads, finishedEvent, mpc, mi>>
  BY DEF Count, threadVars, tokenVars, mainVars
<1>6. \A u \in Threads : u # t => pc'[u] = pc[u] /\ loc'[u] = loc[u] BY <1>4 DEF Alone
<1>7. t < numStartedThreads BY <1>2, Sets, <1>1 DEF Counting, TypeOK
<1>8. Counted' = Counted \cup {t} BY <1>4, <1>5, <1>6, <1>7 DEF Counted
<1>9. numFinishedThreads' = Cardinality(Counted')
  BY <1>1, <1>3, <1>4, <1>8, CountedFacts, FS_AddElement
<1>10. ~finishedEvent
  BY CountedFacts, <1>7, Sets, <1>1, <1>2, <1>3, SMTT(30) DEF TypeOK, Counting
<1>11. Quiet' BY <1>2, <1>5 DEF Quiet
<1>12. numFinishedThreads \in Nat BY DEF TypeOK
<1>13. \A u \in Threads :
          /\ u >= numStartedThreads => pc'[u] \in {"none", "start"} /\ ~startEvent[u]
          /\ startEvent[u] => pc'[u] = "start" /\ ~stop[u]
          /\ pc'[u] # "dead"
          /\ pc'[u] = "compare" => loc'[u].numFinished <= numFinishedThreads'
  <2> SUFFICES ASSUME NEW u \in Threads
               PROVE  /\ u >= numStartedThreads => pc'[u] \in {"none", "start"} /\ ~startEvent[u]
                      /\ startEvent[u] => pc'[u] = "start" /\ ~stop[u]
                      /\ pc'[u] # "dead"
                      /\ pc'[u] = "compare" => loc'[u].numFinished <= numFinishedThreads'
    OBVIOUS
  <2>1. CASE u = t
    <3>1. ~(t >= numStartedThreads) /\ ~startEvent[t]
      BY <1>1, <1>2, <1>7, Sets DEF Counting, TypeOK
    <3> QED BY <1>4, <1>12, <2>1, <3>1
  <2>2. CASE u # t BY <1>2, LocalsTyped, <1>12, <1>4, <1>6, <2>2 DEF Counting
  <2> QED BY <2>1, <2>2
<1>14. Counting' BY <1>1, <1>2, <1>4, <1>5, <1>6, <1>9, <1>10, <1>13 DEF Counting
<1> QED BY <1>1, <1>4, <1>11, <1>14

(* finishedEvent is set only when all started threads are counted. *)
LEMMA FleetCompare ==
  ASSUME TypeOK, Counting, Quiet, NEW t \in Threads, Compare(t)
  PROVE  Counting' /\ Quiet'
<1>1. /\ TypeOK' /\ Alone(t) /\ pc[t] = "compare" /\ pc'[t] = "start"
      /\ finishedEvent' => finishedEvent \/ loc[t].numFinished = numStartedThreads
  BY CompareEffect
<1>2. UNCHANGED <<created, stop, startEvent, numStartedThreads, numFinishedThreads,
                  mpc, mi>>
  BY DEF Compare, threadVars, tokenVars, mainVars
<1>3. \A u \in Threads : u # t => pc'[u] = pc[u] /\ loc'[u] = loc[u] BY <1>1 DEF Alone
<1>4. Quiet' BY <1>1, <1>2, <1>3 DEF Quiet, InThreadFunc2
<1>5. CASE ~InCall BY <1>1, <1>2, <1>3, <1>4, <1>5 DEF Counting, InCall
<1>6. CASE InCall
  <2>1. ~startEvent[t] /\ loc[t].numFinished <= numFinishedThreads BY <1>1, <1>6 DEF Counting
  <2>2. Counted' = Counted BY <1>1, <1>2, <1>3, <2>1 DEF Counted
  <2>3. mpc # "create"
    <3>1. t < numStartedThreads
      <4>1. t >= numStartedThreads => pc[t] \in {"none", "start"} BY <1>6 DEF Counting
      <4>2. t \in Nat /\ numStartedThreads \in Nat BY Sets DEF TypeOK
      <4> QED BY <1>1, <4>1, <4>2
    <3> QED BY <3>1, Sets DEF Counting
  <2>4. finishedEvent' => numFinishedThreads = numStartedThreads
    <3>1. numFinishedThreads = Cardinality(Counted) /\ Cardinality(Counted) <= numStartedThreads
      BY <1>6, CountedFacts DEF Counting
    <3>2. /\ numFinishedThreads \in Nat /\ numStartedThreads \in Nat
          /\ loc[t].numFinished \in Nat
      BY LocalsTyped DEF TypeOK
    <3>3. loc[t].numFinished = numStartedThreads => numFinishedThreads = numStartedThreads
      BY <2>1, <3>1, <3>2
    <3> QED BY <1>1, <1>6, <3>3 DEF Counting
  <2> QED BY <1>1, <1>2, <1>3, <1>4, <1>6, <2>1, <2>2, <2>3, <2>4 DEF Counting, InCall
<1> QED BY <1>4, <1>5, <1>6

(* The caller goes on only when all started threads are counted. *)
LEMMA FleetMain ==
  ASSUME TypeOK, IInv, SettledReuse, Counting, Quiet, Main
  PROVE  Counting' /\ Quiet'
<1> USE DEF threadVars, tokenVars, csVars, finishVars, outVars, mainVars
<1>1. CASE CallCode
  <2>1. /\ mpc' = "create" /\ numStartedThreads' = 0 /\ numFinishedThreads' = 0
        /\ finishedEvent' = FALSE
        /\ UNCHANGED <<created, stop, startEvent, pc, loc>>
        /\ Settled
    BY <1>1 DEF CallCode, Event_Reset
  <2>2. Counted' = {} BY Sets, <2>1 DEF Threads, Counted
  <2>3. Quiet' BY <2>1 DEF Quiet
  <2>4. Cardinality(Counted') = 0 BY <2>2, FS_EmptySet
  <2>5. \A t \in Threads : pc[t] \in {"none", "start"} /\ ~startEvent[t] BY <2>1 DEF Settled
  <2>6. Counting' BY <2>1, <2>4, <2>5 DEF Counting
  <2> QED BY <2>3, <2>6
<1>2. CASE CreateFirst
  <2>1. mpc = "create" /\ numStartedThreads' = 1 /\ InCall
    BY <1>2, CreateFirstEffect DEF InCall
  <2>2. /\ \A u \in Threads : pc[u] \in {"none", "start"} /\ ~startEvent[u]
        /\ numStartedThreads = 0 /\ ~finishedEvent
    BY <2>1, Sets DEF Counting
  <2>3. numFinishedThreads = 0
    <3>1. Counted = {} BY Sets, <2>2 DEF Threads, Counted
    <3> QED BY <2>1, <3>1, FS_EmptySet DEF Counting
  <2>4. UNCHANGED <<numFinishedThreads, finishedEvent, mi, loc>> BY <1>2 DEF CreateFirst
  <2>5. CASE mpc' = "go"
    <3>1. /\ startEvent'[0] /\ ~stop'[0] /\ created'[0] /\ pc'[0] = "start"
          /\ \A u \in Threads : u # 0 => /\ startEvent'[u] = startEvent[u]
                                         /\ stop'[u] = stop[u]
                                         /\ created'[u] = created[u]
                                         /\ pc'[u] = pc[u]
      BY <2>2, Sets, <1>2, <2>5, CreateFirstEffect DEF Started, Counting
    <3>2. Counted' = {}
      <4>1. \A u \in Threads : u < 1 => u = 0 BY Sets
      <4> QED BY <2>1, <3>1, <4>1 DEF Counted
    <3>3. Cardinality(Counted') = 0 BY <3>2, FS_EmptySet
    <3>4. Quiet' BY <2>5 DEF Quiet
    <3>5. \A u \in Threads : u >= 1 => u # 0 BY Sets
    <3>6. Counting' BY <2>1, <2>2, <2>3, <2>4, <2>5, <3>1, <3>3, <3>5, Sets DEF Counting
    <3> QED BY <3>4, <3>6
  <2>6. CASE mpc' = "idle"
    BY <1>2, <2>6, CreateFirstEffect, <2>2 DEF Quiet, InThreadFunc2, Counting, InCall
  <2> QED BY <1>2, <2>5, <2>6, CreateFirstEffect
<1>3. CASE Go BY <1>3 DEF Go, Counted, Counting, Quiet, InCall
<1>4. CASE WaitFinished
  <2>1. /\ mpc = "wait" /\ mpc' = "combine" /\ finishedEvent /\ ~finishedEvent'
        /\ UNCHANGED <<created, stop, startEvent, pc, loc, numStartedThreads,
                       numFinishedThreads, mi>>
    BY <1>4 DEF WaitFinished, Event_CanWait, Event_Wait
  <2>2. Counted' = Counted BY <2>1 DEF Counted
  <2>3. /\ numFinishedThreads = Cardinality(Counted)
        /\ numFinishedThreads = numStartedThreads /\ numStartedThreads >= 1
    BY <2>1 DEF Counting, InCall
  <2>4. Counted = 0..numStartedThreads - 1 BY <2>3, CountedFacts
  <2>5. ASSUME NEW t \in Threads PROVE ~InThreadFunc2(t) /\ ~startEvent[t] /\ pc[t] # "dead"
    <3>1. t \in Counted \/ t >= numStartedThreads BY <2>4, Sets DEF TypeOK
    <3> QED BY <2>1, <3>1 DEF Counting, InCall, Counted, InThreadFunc2
  <2>6. Quiet' BY <2>1, <2>5 DEF Quiet, InThreadFunc2
  <2>7. Counting' BY <2>1, <2>2, <2>3 DEF Counting, InCall
  <2> QED BY <2>6, <2>7
<1>5. CASE Combine BY <1>5 DEF Combine, Quiet, InThreadFunc2, Counting, InCall
<1>6. CASE Destruct BY <1>6 DEF Destruct, Counting, Quiet, InCall, InThreadFunc2
<1>7. CASE FreeSignal
  BY <1>7, FreeSignalEffect, Sets DEF FreeSignal, Threads, Quiet, InThreadFunc2, Counting,
     InCall
<1>8. CASE FreeJoin
  BY <1>8, FreeJoinEffect DEF FreeJoin, Quiet, InThreadFunc2, Counting, InCall
<1>9. CASE FreeEnd BY <1>9 DEF FreeEnd, Counting, Quiet, InCall, InThreadFunc2
<1> QED BY <1>1, <1>2, <1>3, <1>4, <1>5, <1>6, <1>7, <1>8, <1>9 DEF Main

-----------------------------------------------------------------------------
(* The ring of slots: the slots between the writer and the reader.         *)
LEMMA PlaceFacts ==
  ASSUME NEW j \in Nat
  PROVE  Place(j) \in Slots /\ NextSlot(Place(j)) = Place(j + 1)
  BY Sets, DivMod, NextPlace, ModUnique DEF Place, NextSlot, Slots

(* The places of the ring are slots; the place of a block tells it apart. *)
LEMMA WindowPlaces ==
  ASSUME NEW d \in Nat, NEW k \in Nat, k - d <= NumBlocksMax,
         NEW i \in d..k - 1, NEW j \in d..k - 1, Place(i) = Place(j)
  PROVE  i = j
<1>1. i \in Nat /\ j \in Nat /\ i < j + NumBlocksMax /\ j < i + NumBlocksMax BY Sets
<1>2. CASE i <= j BY <1>1, <1>2, Sets, PlacesApart DEF Place
<1>3. CASE j <= i BY <1>1, <1>3, Sets, PlacesApart DEF Place
<1> QED BY <1>1, <1>2, <1>3

(* A block that enters the ring gets a place that was free. *)
LEMMA WindowGrows ==
  ASSUME NEW d \in Nat, NEW k \in Nat, d <= k, k - d < NumBlocksMax
  PROVE  /\ Window(d, k + 1) = Window(d, k) \cup {Place(k)}
         /\ Place(k) \notin Window(d, k)
<1>1. d..(k + 1) - 1 = (d..k - 1) \cup {k} OBVIOUS
<1>2. Window(d, k + 1) = Window(d, k) \cup {Place(k)} BY <1>1 DEF Window
<1>3. ASSUME Place(k) \in Window(d, k) PROVE FALSE
  <2>1. PICK j \in d..k - 1 : Place(j) = Place(k) BY <1>3 DEF Window
  <2>2. j \in d..(k + 1) - 1 /\ k \in d..(k + 1) - 1 /\ (k + 1) - d <= NumBlocksMax
        /\ j # k
    BY <2>1, Sets
  <2> QED BY <2>1, <2>2, WindowPlaces
<1> QED BY <1>2, <1>3

(* A block that leaves the ring leaves its place. *)
LEMMA WindowShrinks ==
  ASSUME NEW d \in Nat, NEW k \in Nat, d < k, k - d <= NumBlocksMax
  PROVE  /\ Window(d, k) = Window(d + 1, k) \cup {Place(d)}
         /\ Place(d) \notin Window(d + 1, k)
  BY WindowPlaces DEF Window

(* The window is a set of slots, empty when no block is in the ring. *)
LEMMA WindowSlots ==
  ASSUME NEW d \in Nat, NEW k \in Nat
  PROVE  /\ Window(d, k) \subseteq Slots
         /\ Window(d, k) # {} => d < k
         /\ d < k => Place(d) \in Window(d, k)
  BY PlaceFacts DEF Window

-----------------------------------------------------------------------------
(* The slots have one user each.                                           *)

(* A step that leaves the slots as they are. *)
LEMMA SlotsKept ==
  ASSUME NEW d \in Nat, NEW k \in Nat, SlotsOK(d, k),
         UNCHANGED <<blockIndex, blocksSemaphore, ReadyBlocks, writeIndex>>,
         \A u \in Threads :
            /\ HasSlot(u)' <=> HasSlot(u)
            /\ HasSlot(u) => loc'[u].bi = loc[u].bi
            /\ IsWriter(u)' <=> IsWriter(u)
            /\ IsWriter(u) => /\ loc'[u].wi = loc[u].wi
                              /\ pc'[u] = "return" <=> pc[u] = "return"
            /\ pc'[u] = "post" <=> pc[u] = "post"
  PROVE  SlotsOK(d, k)'
<1>1. {u \in Threads : pc'[u] = "post"} = {u \in Threads : pc[u] = "post"} OBVIOUS
<1>2. \A u \in Threads : HasSlot(u)' =>
         loc'[u].bi \in Window(d, k) /\ ~ReadyBlocks'[loc'[u].bi]
  BY DEF SlotsOK
<1>3. \A u, v \in Threads :
         HasSlot(u)' /\ HasSlot(v)' /\ loc'[u].bi = loc'[v].bi => u = v
  BY DEF SlotsOK
<1>4. ASSUME NEW u \in Threads, IsWriter(u)'
      PROVE  /\ d < k
             /\ loc'[u].wi = IF pc'[u] = "return" THEN Place(d + 1) ELSE Place(d)
             /\ ~ReadyBlocks'[Place(d)]
             /\ \A v \in Threads : HasSlot(v)' => loc'[v].bi # Place(d)
  BY <1>4 DEF SlotsOK
<1>5. \A s \in Window(d, k) :
         \/ ReadyBlocks'[s]
         \/ \E u \in Threads : HasSlot(u)' /\ loc'[u].bi = s
         \/ s = Place(d) /\ \E u \in Threads : IsWriter(u)'
  BY DEF SlotsOK
<1>6. /\ d <= k /\ blockIndex' = Place(k)
      /\ blocksSemaphore' + (k - d) + Cardinality({u \in Threads : pc'[u] = "post"})
           <= NumBlocksMax
      /\ \A s \in Slots : ReadyBlocks'[s] => s \in Window(d, k)
      /\ writeIndex' # None => writeIndex' = Place(d) /\ ~ReadyBlocks'[Place(d)]
  BY <1>1 DEF SlotsOK
<1> QED BY <1>2, <1>3, <1>4, <1>5, <1>6 DEF SlotsOK

(* The same for a step of one thread. *)
LEMMA SlotsStay ==
  ASSUME NEW d \in Nat, NEW k \in Nat, SlotsOK(d, k), NEW t \in Threads, Alone(t),
         UNCHANGED <<blockIndex, blocksSemaphore, ReadyBlocks, writeIndex>>,
         HasSlot(t)' <=> HasSlot(t), HasSlot(t) => loc'[t].bi = loc[t].bi,
         IsWriter(t)' <=> IsWriter(t), IsWriter(t) => loc'[t].wi = loc[t].wi,
         pc[t] \notin {"return", "post"}, pc'[t] \notin {"return", "post"}
  PROVE  SlotsOK(d, k)'
  BY SlotsKept DEF Alone, HasSlot, IsWriter

(* The threads that have passed a block on and have not posted it yet. *)
Posting == {t \in Threads : pc[t] = "post"}

(* There are finitely many of them. *)
LEMMA PostingFinite == IsFiniteSet(Posting) /\ Cardinality(Posting) \in Nat
<1>1. IsFiniteSet(Threads) BY Sets, FS_Interval DEF Threads
<1> QED BY <1>1, FS_Subset, FS_CardinalityType DEF Posting

(* There are no more blocks in the ring than places. *)
LEMMA WindowBound ==
  ASSUME TypeOK, NEW d \in Nat, NEW k \in Nat, SlotsOK(d, k)
  PROVE  /\ d <= k /\ k - d <= NumBlocksMax
         /\ blocksSemaphore > 0 => k - d < NumBlocksMax
         /\ \A t \in Threads : pc[t] = "post" => blocksSemaphore < NumBlocksMax
<1>1. /\ d <= k
      /\ blocksSemaphore + (k - d) + Cardinality(Posting) <= NumBlocksMax
  BY DEF SlotsOK, Posting
<1>2. blocksSemaphore \in Nat BY DEF TypeOK
<1>3. ASSUME NEW t \in Threads, pc[t] = "post" PROVE Cardinality(Posting) > 0
  BY <1>3, PostingFinite, FS_EmptySet DEF Posting
<1> QED BY <1>1, <1>2, <1>3, PostingFinite, Sets

(* Block k enters the ring. *)
LEMMA SlotsSemWait ==
  ASSUME TypeOK, NEW d \in Nat, NEW k \in Nat, SlotsOK(d, k),
         NEW t \in Threads, SemWait(t)
  PROVE  SlotsOK(d, k + 1)'
<1>1. /\ TypeOK' /\ Alone(t) /\ pc[t] = "semWait" /\ pc'[t] = "decide"
      /\ blocksSemaphore > 0 /\ blocksSemaphore' = blocksSemaphore - 1
      /\ blockIndex' = NextSlot(blockIndex) /\ loc'[t].bi = blockIndex
  BY SemWaitEffect
<1>2. UNCHANGED <<ReadyBlocks, writeIndex>> BY DEF SemWait, csVars
<1>3. \A u \in Threads : u # t => pc'[u] = pc[u] /\ loc'[u] = loc[u] BY <1>1 DEF Alone
<1>4. /\ d <= k /\ k - d < NumBlocksMax BY <1>1, WindowBound
<1>5. /\ Window(d, k + 1) = Window(d, k) \cup {Place(k)}
      /\ Place(k) \notin Window(d, k) /\ Place(k) \in Slots
      /\ blockIndex = Place(k) /\ blockIndex' = Place(k + 1)
      /\ d < k => Place(d) \in Window(d, k)
  BY <1>1, <1>4, WindowGrows, PlaceFacts, WindowSlots DEF SlotsOK
<1>6. Posting' = Posting BY <1>1, <1>3 DEF Posting
<1>7. blocksSemaphore' + ((k + 1) - d) + Cardinality(Posting') <= NumBlocksMax
  <2>1. blocksSemaphore + (k - d) + Cardinality(Posting) <= NumBlocksMax
    BY DEF SlotsOK, Posting
  <2>2. blocksSemaphore \in Nat BY DEF TypeOK
  <2> QED BY <1>1, <1>6, <2>1, <2>2, PostingFinite, Sets
<1>8. /\ \A u \in Threads : HasSlot(u)' <=> HasSlot(u) \/ u = t
      /\ \A u \in Threads : IsWriter(u)' <=> IsWriter(u)
      /\ ~HasSlot(t) /\ ~IsWriter(t)
  BY <1>1, <1>3 DEF HasSlot, IsWriter
<1>9. \A u \in Threads : HasSlot(u)' => /\ loc'[u].bi \in Window(d, k + 1)
                                        /\ ~ReadyBlocks'[loc'[u].bi]
  BY <1>1, <1>2, <1>3, <1>5, <1>8 DEF SlotsOK
<1>10. \A u, v \in Threads :
          HasSlot(u)' /\ HasSlot(v)' /\ loc'[u].bi = loc'[v].bi => u = v
  BY <1>1, <1>3, <1>5, <1>8 DEF SlotsOK
<1>11. \A u \in Threads : IsWriter(u)' =>
           /\ d < k + 1
           /\ loc'[u].wi = IF pc'[u] = "return" THEN Place(d + 1) ELSE Place(d)
           /\ ~ReadyBlocks'[Place(d)]
           /\ \A v \in Threads : HasSlot(v)' => loc'[v].bi # Place(d)
  BY <1>8, <1>5, <1>1, <1>2, <1>3 DEF SlotsOK
<1>12. \A s \in Window(d, k + 1) :
          \/ ReadyBlocks'[s]
          \/ \E u \in Threads : HasSlot(u)' /\ loc'[u].bi = s
          \/ s = Place(d) /\ \E u \in Threads : IsWriter(u)'
  BY <1>1, <1>2, <1>3, <1>5, <1>8 DEF SlotsOK
<1>13. /\ \A s \in Slots : ReadyBlocks'[s] => s \in Window(d, k + 1)
       /\ writeIndex' # None => writeIndex' = Place(d) /\ ~ReadyBlocks'[Place(d)]
  BY <1>2, <1>5 DEF SlotsOK
<1> QED BY <1>4, <1>5, <1>7, <1>9, <1>10, <1>11, <1>12, <1>13 DEF SlotsOK, Posting

(* The block stays in the ring, with the writer or ready. *)
LEMMA SlotsClaim ==
  ASSUME TypeOK, IInv, NEW d \in Nat, NEW k \in Nat, SlotsOK(d, k),
         NEW t \in Threads, Claim(t)
  PROVE  SlotsOK(d, k)'
<1>1. TypeOK' /\ Alone(t) /\ pc[t] = "claim" BY ClaimEffect
<1>2. UNCHANGED <<blockIndex, blocksSemaphore>> BY DEF Claim, tokenVars
<1>3. \A u \in Threads : u # t => pc'[u] = pc[u] /\ loc'[u] = loc[u] BY <1>1 DEF Alone
<1>4. /\ HasSlot(t) /\ ~IsWriter(t) /\ loc[t].bi \in Window(d, k) /\ d < k
      /\ ~ReadyBlocks[loc[t].bi] /\ loc[t].bi \in Slots
      /\ \A u \in Threads : HasSlot(u) /\ u # t => loc[u].bi # loc[t].bi
      /\ Window(d, k) \subseteq Slots
  BY <1>1, WindowSlots DEF SlotsOK, HasSlot, IsWriter
<1>5. CASE /\ writeIndex = loc[t].bi /\ writeIndex' = None
           /\ ReadyBlocks' = ReadyBlocks
           /\ pc'[t] = "write" /\ loc'[t].wi = loc[t].bi
  <2>1. writeIndex # None /\ \A u \in Threads : ~IsWriter(u)
    BY <1>4, <1>5, Sets DEF IInv, OneWriter
  <2>2. loc[t].bi = Place(d) /\ ~ReadyBlocks[Place(d)] BY <1>5, <2>1 DEF SlotsOK
  <2>3. /\ \A u \in Threads : HasSlot(u)' <=> HasSlot(u) /\ u # t
        /\ \A u \in Threads : IsWriter(u)' <=> u = t
        /\ Posting' = Posting
    BY <1>1, <1>3, <1>5, <2>1 DEF HasSlot, IsWriter, Posting
  <2>4. blocksSemaphore' + (k - d) + Cardinality(Posting') <= NumBlocksMax
    BY <1>2, <2>3 DEF SlotsOK, Posting
  <2>5. \A u \in Threads : IsWriter(u)' =>
           /\ d < k
           /\ loc'[u].wi = IF pc'[u] = "return" THEN Place(d + 1) ELSE Place(d)
           /\ ~ReadyBlocks'[Place(d)]
           /\ \A v \in Threads : HasSlot(v)' => loc'[v].bi # Place(d)
    BY <1>3, <1>4, <1>5, <2>2, <2>3
  <2>6. \A s \in Window(d, k) :
          \/ ReadyBlocks'[s]
          \/ \E u \in Threads : HasSlot(u)' /\ loc'[u].bi = s
          \/ s = Place(d) /\ \E u \in Threads : IsWriter(u)'
    BY <1>5, <2>3, <2>2, <1>3 DEF SlotsOK
  <2>7. /\ \A u \in Threads : HasSlot(u)' => /\ loc'[u].bi \in Window(d, k)
                                             /\ ~ReadyBlocks'[loc'[u].bi]
        /\ \A u, v \in Threads :
              HasSlot(u)' /\ HasSlot(v)' /\ loc'[u].bi = loc'[v].bi => u = v
        /\ \A s \in Slots : ReadyBlocks'[s] => s \in Window(d, k)
    BY <1>3, <1>5, <2>3 DEF SlotsOK
  <2>8. d <= k /\ blockIndex' = Place(k) BY <1>2 DEF SlotsOK
  <2> QED BY <1>5, <2>4, <2>5, <2>6, <2>7, <2>8 DEF SlotsOK, Posting
<1>6. CASE /\ writeIndex # loc[t].bi /\ writeIndex' = writeIndex
           /\ ReadyBlocks'[loc[t].bi]
           /\ \A s \in Slots : s # loc[t].bi => ReadyBlocks'[s] = ReadyBlocks[s]
           /\ pc'[t] = Continue(loc[t].res, loc[t].finished)
  <2>1. pc'[t] \in {"count", "readWait"} BY <1>6, PlacesFacts
  <2>3. /\ \A u \in Threads : HasSlot(u)' <=> HasSlot(u) /\ u # t
        /\ \A u \in Threads : IsWriter(u)' <=> IsWriter(u)
        /\ Posting' = Posting
    BY <1>1, <1>3, <2>1 DEF HasSlot, IsWriter, Posting
  <2>4. blocksSemaphore' + (k - d) + Cardinality(Posting') <= NumBlocksMax
    BY <1>2, <2>3 DEF SlotsOK, Posting
  <2>2. Place(d) \in Slots BY PlaceFacts
  <2>5. \A u \in Threads : IsWriter(u)' =>
           /\ d < k
           /\ loc'[u].wi = IF pc'[u] = "return" THEN Place(d + 1) ELSE Place(d)
           /\ ~ReadyBlocks'[Place(d)]
           /\ \A v \in Threads : HasSlot(v)' => loc'[v].bi # Place(d)
    BY <2>3, <1>4, <1>3, <1>6, <2>2 DEF SlotsOK
  <2>6. \A s \in Window(d, k) :
          \/ ReadyBlocks'[s]
          \/ \E u \in Threads : HasSlot(u)' /\ loc'[u].bi = s
          \/ s = Place(d) /\ \E u \in Threads : IsWriter(u)'
    BY <1>6, <1>4, <1>3, <2>3 DEF SlotsOK
  <2>7. /\ \A u \in Threads : HasSlot(u)' => /\ loc'[u].bi \in Window(d, k)
                                             /\ ~ReadyBlocks'[loc'[u].bi]
        /\ \A u, v \in Threads :
              HasSlot(u)' /\ HasSlot(v)' /\ loc'[u].bi = loc'[v].bi => u = v
        /\ \A s \in Slots : ReadyBlocks'[s] => s \in Window(d, k)
    BY <1>3, <1>4, <1>6, <2>3 DEF SlotsOK
  <2>8. d <= k /\ blockIndex' = Place(k) BY <1>2 DEF SlotsOK
  <2>9. writeIndex' # None => writeIndex' = Place(d) /\ ~ReadyBlocks'[Place(d)]
    BY <1>6, <2>2 DEF SlotsOK
  <2> QED BY <2>4, <2>5, <2>6, <2>7, <2>8, <2>9 DEF SlotsOK, Posting
<1> QED BY <1>5, <1>6, ClaimEffect

(* The writer stays the writer; its wi goes one place on. *)
LEMMA SlotsWrite ==
  ASSUME TypeOK, IInv, NEW d \in Nat, NEW k \in Nat, SlotsOK(d, k),
         NEW t \in Threads, Write(t)
  PROVE  SlotsOK(d, k)'
<1>1. /\ TypeOK' /\ Alone(t) /\ pc[t] = "write" /\ pc'[t] = "return"
      /\ loc'[t].wi = NextSlot(loc[t].wi)
  BY WriteEffect
<1>2. UNCHANGED <<blockIndex, blocksSemaphore, ReadyBlocks, writeIndex>>
  BY DEF Write, tokenVars, csVars
<1>3. \A u \in Threads : u # t => pc'[u] = pc[u] /\ loc'[u] = loc[u] BY <1>1 DEF Alone
<1>4. /\ \A u \in Threads : HasSlot(u)' <=> HasSlot(u)
      /\ \A u \in Threads : HasSlot(u) => u # t
      /\ \A u \in Threads : IsWriter(u)' <=> u = t
      /\ Posting' = Posting /\ IsWriter(t)
  BY <1>1, <1>3 DEF HasSlot, IsWriter, Posting, IInv, OneWriter
<1>5. /\ d < k /\ loc[t].wi = Place(d) /\ ~ReadyBlocks[Place(d)]
      /\ \A u \in Threads : HasSlot(u) => loc[u].bi # Place(d)
  BY <1>1, <1>4 DEF SlotsOK
<1>6. loc'[t].wi = Place(d + 1) BY <1>1, <1>5, PlaceFacts
<1>7. \A s \in Window(d, k) :
          \/ ReadyBlocks'[s]
          \/ \E u \in Threads : HasSlot(u)' /\ loc'[u].bi = s
          \/ s = Place(d) /\ \E u \in Threads : IsWriter(u)'
  BY <1>2, <1>4, <1>3 DEF SlotsOK
<1>8. /\ \A u \in Threads : HasSlot(u)' => /\ loc'[u].bi \in Window(d, k)
                                           /\ ~ReadyBlocks'[loc'[u].bi]
      /\ \A u, v \in Threads :
            HasSlot(u)' /\ HasSlot(v)' /\ loc'[u].bi = loc'[v].bi => u = v
  BY <1>2, <1>3, <1>4 DEF SlotsOK
<1>9. \A u \in Threads : IsWriter(u)' =>
           /\ d < k
           /\ loc'[u].wi = IF pc'[u] = "return" THEN Place(d + 1) ELSE Place(d)
           /\ ~ReadyBlocks'[Place(d)]
           /\ \A v \in Threads : HasSlot(v)' => loc'[v].bi # Place(d)
  BY <1>1, <1>2, <1>3, <1>4, <1>5, <1>6
<1>10. blocksSemaphore' + (k - d) + Cardinality(Posting') <= NumBlocksMax
  BY <1>2, <1>4 DEF SlotsOK, Posting
<1> QED BY <1>2, <1>7, <1>8, <1>9, <1>10 DEF SlotsOK, Posting

(* Block d leaves the ring; the writer goes on with a ready block d + 1. *)
LEMMA SlotsReturn ==
  ASSUME TypeOK, IInv, NEW d \in Nat, NEW k \in Nat, SlotsOK(d, k),
         NEW t \in Threads, Return(t)
  PROVE  /\ SlotsOK(d + 1, k)'
         /\ d < k /\ loc[t].wi = Place(d + 1)
         /\ \A u \in Threads : IsWriter(u) <=> u = t
         /\ loc'[t].isReady => d + 1 < k
<1> DEFINE w == Place(d + 1)
<1>1. pc[t] = "return" /\ IsWriter(t) BY DEF Return, IsWriter
<1>2. /\ d < k /\ loc[t].wi = w /\ ~ReadyBlocks[Place(d)]
      /\ \A u \in Threads : HasSlot(u) => loc[u].bi # Place(d)
  BY <1>1 DEF SlotsOK
<1>3. /\ TypeOK' /\ Alone(t) /\ pc'[t] = "post"
      /\ loc'[t].isReady = ReadyBlocks[w] /\ loc'[t].wi = w
      /\ ~ReadyBlocks'[w]
      /\ \A s \in Slots : s # w => ReadyBlocks'[s] = ReadyBlocks[s]
      /\ writeIndex' = IF ReadyBlocks[w] THEN writeIndex ELSE w
  BY <1>2, ReturnEffect
<1>4. UNCHANGED <<blockIndex, blocksSemaphore>> BY DEF Return, tokenVars
<1>5. \A u \in Threads : u # t => pc'[u] = pc[u] /\ loc'[u] = loc[u] BY <1>3 DEF Alone
<1>6. /\ w \in Slots
      /\ Window(d, k) = Window(d + 1, k) \cup {Place(d)}
      /\ Place(d) \notin Window(d + 1, k)
      /\ Window(d, k) \subseteq Slots
      /\ Window(d + 1, k) # {} => d + 1 < k
  BY WindowBound, PlaceFacts, <1>2, WindowShrinks, WindowSlots
<1>7. /\ \A u \in Threads : IsWriter(u) <=> u = t
      /\ writeIndex = None
  BY <1>1 DEF IInv, OneWriter
<1>8. /\ \A u \in Threads : HasSlot(u)' <=> HasSlot(u)
      /\ \A u \in Threads : HasSlot(u) => u # t
      /\ \A u \in Threads : IsWriter(u)' => u = t /\ ReadyBlocks[w]
      /\ ReadyBlocks[w] => IsWriter(t)'
  BY <1>1, <1>3, <1>5, <1>7 DEF HasSlot, IsWriter
<1>9. ReadyBlocks[w] => w \in Window(d + 1, k) /\ d + 1 < k BY <1>2, <1>6 DEF SlotsOK
<1>10. /\ blocksSemaphore' + (k - (d + 1)) + Cardinality(Posting') <= NumBlocksMax
       /\ d + 1 <= k
  <2>1. Posting' = Posting \cup {t} /\ t \notin Posting BY <1>1, <1>3, <1>5 DEF Posting
  <2>2. Cardinality(Posting') = Cardinality(Posting) + 1 BY <2>1, PostingFinite, FS_AddElement
  <2>3. blocksSemaphore + (k - d) + Cardinality(Posting) <= NumBlocksMax
    BY DEF SlotsOK, Posting
  <2>4. blocksSemaphore \in Nat BY DEF TypeOK
  <2> QED BY <1>2, <1>4, <2>2, <2>3, <2>4, PostingFinite, Sets
<1>11. /\ \A u \in Threads : HasSlot(u)' => /\ loc'[u].bi \in Window(d + 1, k)
                                            /\ ~ReadyBlocks'[loc'[u].bi]
       /\ \A u, v \in Threads :
            HasSlot(u)' /\ HasSlot(v)' /\ loc'[u].bi = loc'[v].bi => u = v
  BY <1>5, <1>8, <1>2, <1>3, <1>6 DEF SlotsOK
<1>12. \A s \in Slots : ReadyBlocks'[s] => s \in Window(d + 1, k)
  BY <1>2, <1>3, <1>6 DEF SlotsOK
<1>13. writeIndex' # None => writeIndex' = w /\ ~ReadyBlocks'[w] BY <1>3, <1>7
<1>14. \A u \in Threads : IsWriter(u)' =>
           /\ d + 1 < k
           /\ loc'[u].wi = IF pc'[u] = "return" THEN Place((d + 1) + 1) ELSE w
           /\ ~ReadyBlocks'[w]
           /\ \A v \in Threads : HasSlot(v)' => loc'[v].bi # w
  BY <1>5, <1>8, <1>3, <1>9 DEF SlotsOK
<1>15. \A s \in Window(d + 1, k) :
          \/ ReadyBlocks'[s]
          \/ \E u \in Threads : HasSlot(u)' /\ loc'[u].bi = s
          \/ s = w /\ \E u \in Threads : IsWriter(u)'
  BY <1>6, <1>3, <1>8, <1>5 DEF SlotsOK
<1>16. blockIndex' = Place(k) BY <1>4 DEF SlotsOK
<1> HIDE DEF w
<1>17. SlotsOK(d + 1, k)'
  BY <1>10, <1>11, <1>12, <1>13, <1>14, <1>15, <1>16 DEF SlotsOK, Posting, w
<1> QED BY <1>2, <1>3, <1>7, <1>9, <1>17 DEF w

(* A post was counted as one to come. *)
LEMMA SlotsPost ==
  ASSUME TypeOK, NEW d \in Nat, NEW k \in Nat, SlotsOK(d, k),
         NEW t \in Threads, Post(t)
  PROVE  SlotsOK(d, k)'
<1>1. pc[t] = "post" BY DEF Post
<1>2. /\ TypeOK' /\ Alone(t) /\ loc'[t] = loc[t]
      /\ blocksSemaphore' = blocksSemaphore + 1
      /\ pc'[t] = IF loc[t].isReady THEN "load"
                  ELSE Continue(loc[t].res, loc[t].finished)
  BY <1>1, WindowBound, PostEffect
<1>3. UNCHANGED <<blockIndex, ReadyBlocks, writeIndex>> BY DEF Post, tokenVars, csVars
<1>4. \A u \in Threads : u # t => pc'[u] = pc[u] /\ loc'[u] = loc[u] BY <1>2 DEF Alone
<1>5. /\ \A u \in Threads : loc'[u] = loc[u]
      /\ \A u \in Threads : HasSlot(u)' <=> HasSlot(u)
      /\ \A u \in Threads : IsWriter(u)' <=> IsWriter(u)
      /\ \A u \in Threads : pc'[u] = "return" <=> pc[u] = "return"
  BY <1>1, <1>2, <1>4, PlacesFacts DEF HasSlot, IsWriter
<1>6. blocksSemaphore' + (k - d) + Cardinality(Posting') <= NumBlocksMax
  <2>1. Posting' = Posting \ {t} /\ t \in Posting BY <1>1, <1>2, <1>4, PlacesFacts DEF Posting
  <2>2. Cardinality(Posting') = Cardinality(Posting) - 1
    BY <2>1, PostingFinite, FS_RemoveElement
  <2>3. blocksSemaphore + (k - d) + Cardinality(Posting) <= NumBlocksMax /\ d <= k
    BY DEF SlotsOK, Posting
  <2>4. blocksSemaphore \in Nat BY DEF TypeOK
  <2> QED BY <1>2, <2>2, <2>3, <2>4, PostingFinite, Sets
<1> QED BY <1>3, <1>5, <1>6 DEF SlotsOK, Posting

(* The thread that is started has no slot. *)
LEMMA SlotsCreateNext ==
  ASSUME TypeOK, IInv, Counting, Quiet, NEW d \in Nat, NEW k \in Nat, SlotsOK(d, k),
         NEW t \in Threads, CreateNext(t)
  PROVE  SlotsOK(d, k)'
<1> DEFINE n == numStartedThreads
<1>1. pc[t] = "create" /\ n < NumThreads /\ InThreadFunc2(t)
  BY DEF CreateNext, Counting, InThreadFunc2
<1>2. n \in Threads BY <1>1, CreateNextEffect
<1>3. UNCHANGED <<blockIndex, blocksSemaphore, ReadyBlocks, writeIndex>>
  BY DEF CreateNext, csVars
<1>4. pc[n] \in {"none", "start"} /\ n # t
  <2>1. InCall /\ n \in Nat
    BY <1>1, <1>2, Sets DEF Quiet, InCall
  <2> QED
    BY <1>1, <1>2, <2>1 DEF Counting
<1>5. CASE /\ \A u \in Threads : u # n /\ u # t => pc'[u] = pc[u]
           /\ pc'[t] = IF t = n THEN Started(n) ELSE "release"
           /\ pc'[n] = Started(n)
           /\ loc' = loc
  BY <1>4, <1>5, <1>1, <1>3, SlotsKept DEF Started, HasSlot, IsWriter
<1>6. CASE Alone(t) /\ pc'[t] = "release" /\ loc'[t].bi = loc[t].bi
  BY <1>1, <1>3, <1>6, SlotsStay DEF HasSlot, IsWriter
<1> QED BY <1>1, <1>5, <1>6, CreateNextEffect

(* The other steps of a thread. *)
LEMMA SlotsThread ==
  ASSUME TypeOK, IInv, NEW d \in Nat, NEW k \in Nat, SlotsOK(d, k),
         NEW t \in Threads,
         \/ ThreadStart(t) \/ ReadWait(t) \/ Read(t) \/ ReadErr(t) \/ Decide(t)
         \/ Release(t) \/ (Code(t) /\ loc[t].bufIndex \in Bufs) \/ Store(t)
         \/ (Pop(t) /\ freeBlockHead \in Bufs)
         \/ Load(t) \/ (Count(t) /\ numFinishedThreads < NumThreads) \/ Compare(t)
  PROVE  SlotsOK(d, k)'
<1> USE DEF HasSlot, IsWriter, tokenVars, csVars
<1>1. CASE ThreadStart(t) BY <1>1, ThreadStartEffect, SlotsStay DEF ThreadStart
<1>2. CASE ReadWait(t) BY <1>2, ReadWaitEffect, SlotsStay DEF ReadWait
<1>3. CASE Read(t) BY <1>3, ReadEffect, SlotsStay DEF Read
<1>4. CASE ReadErr(t) BY <1>4, ReadErrEffect, SlotsStay DEF ReadErr
<1>5. CASE Decide(t) BY <1>5, DecideEffect, SlotsStay DEF Decide
<1>6. CASE Release(t) BY <1>6, ReleaseEffect, SlotsStay DEF Release
<1>7. CASE Code(t) /\ loc[t].bufIndex \in Bufs BY <1>7, CodeEffect, SlotsStay DEF Code
<1>8. CASE Store(t) BY <1>8, StoreEffect, SlotsStay DEF Store
<1>9. CASE Pop(t) /\ freeBlockHead \in Bufs BY <1>9, PopEffect, SlotsStay DEF Pop
<1>10. CASE Load(t) BY <1>10, LoadEffect, SlotsStay DEF Load
<1>11. CASE Count(t) /\ numFinishedThreads < NumThreads
  BY <1>11, CountEffect, SlotsStay DEF Count
<1>12. CASE Compare(t) BY <1>12, CompareEffect, SlotsStay DEF Compare
<1> QED BY <1>1, <1>2, <1>3, <1>4, <1>5, <1>6, <1>7, <1>8, <1>9, <1>10, <1>11, <1>12

(* A call begins with an empty ring. *)
LEMMA SlotsCallCode ==
  ASSUME TypeOK, SettledReuse, CallCode
  PROVE  SlotsOK(0, 0)'
<1>1. /\ Settled /\ UNCHANGED <<pc, loc>>
      /\ blockIndex' = 0 /\ writeIndex' = 0 /\ ReadyBlocks' = [s \in Slots |-> FALSE]
      /\ blocksSemaphore' = NumBlocksMax
  BY CallCodeEffect DEF CallCode
<1>2. Place(0) = 0 BY Sets, ModUnique DEF Place
<1>3. Window(0, 0) = {} BY WindowSlots
<1>4. \A u \in Threads : ~HasSlot(u)' /\ ~IsWriter(u)' BY <1>1 DEF Settled, HasSlot, IsWriter
<1>5. Posting' = {} BY <1>1 DEF Settled, Posting
<1>6. Cardinality(Posting') = 0 BY <1>5, FS_EmptySet
<1>7. blocksSemaphore' + (0 - 0) + Cardinality(Posting') <= NumBlocksMax BY <1>1, <1>6, Sets
<1>8. /\ 0 <= 0 /\ blockIndex' = Place(0)
      /\ writeIndex' # None => writeIndex' = Place(0) /\ ~ReadyBlocks'[Place(0)]
      /\ \A s \in Slots : ~ReadyBlocks'[s]
  BY <1>1, <1>2, Sets
<1>9. \A s \in Window(0, 0) : FALSE BY <1>3
<1> HIDE DEF Window
<1> QED BY <1>4, <1>7, <1>8, <1>9 DEF SlotsOK, Posting

(* The caller's other steps leave the threads that run where they are. *)
LEMMA MainMoves ==
  ASSUME TypeOK, Counting,
         \/ CreateFirst \/ Go \/ WaitFinished \/ Combine \/ Destruct
         \/ FreeSignal \/ FreeJoin \/ FreeEnd
  PROVE  /\ UNCHANGED <<blockIndex, blocksSemaphore, ReadyBlocks, writeIndex,
                        freeBlockHead, freeBlockList, blocks, outVars,
                        stopReading, readRes, readProcessed, progressRes,
                        numFinishedThreads, loc>>
         /\ \A u \in Threads :
               \/ pc'[u] = pc[u]
               \/ pc'[u] \in {"none", "start"} /\ pc[u] \in {"none", "start", "dead"}
<1> USE DEF tokenVars, csVars, outVars, finishVars
<1>1. UNCHANGED <<blockIndex, blocksSemaphore, ReadyBlocks, writeIndex,
                  freeBlockHead, freeBlockList, blocks, outVars,
                  stopReading, readRes, readProcessed, progressRes,
                  numFinishedThreads, loc>>
  BY DEF CreateFirst, Go, WaitFinished, Combine, Destruct, FreeSignal, FreeJoin, FreeEnd
<1>2. \A u \in Threads : \/ pc'[u] = pc[u]
                         \/ pc'[u] \in {"none", "start"} /\ pc[u] \in {"none", "start", "dead"}
  <2>1. CASE CreateFirst
    BY <2>1, Sets, CreateFirstEffect DEF CreateFirst, Counting, InCall, Started
  <2>2. CASE FreeJoin BY <2>2, FreeJoinEffect DEF FreeJoin
  <2>3. CASE Go \/ WaitFinished \/ Combine \/ Destruct \/ FreeSignal \/ FreeEnd
    BY <2>3 DEF Go, WaitFinished, Combine, Destruct, FreeSignal, FreeEnd
  <2> QED BY <2>1, <2>2, <2>3
<1> QED BY <1>1, <1>2

(* The caller leaves the slots alone. *)
LEMMA SlotsMain ==
  ASSUME TypeOK, Counting, NEW d \in Nat, NEW k \in Nat, SlotsOK(d, k),
         \/ CreateFirst \/ Go \/ WaitFinished \/ Combine \/ Destruct
         \/ FreeSignal \/ FreeJoin \/ FreeEnd
  PROVE  SlotsOK(d, k)'
  BY MainMoves, SlotsKept DEF HasSlot, IsWriter

-----------------------------------------------------------------------------
(* The out buffers have one owner each.                                    *)

(* A slot without a buffer leaves one for it in the list, or a fresh one. *)
LEMMA FreshBuffer ==
  ASSUME NEW d \in Nat, NEW k \in Nat, NEW m \in Nat, NEW g \in [Nat -> Bufs],
         NEW held \in Heldness, Shared(d, k, m, 0, g, held),
         NEW s \in Slots, held[s] = None
  PROVE  m < NumBlocksMax
<1> SUFFICES ASSUME ~(m < NumBlocksMax) PROVE FALSE OBVIOUS
<1>1. m = NumBlocksMax BY Sets DEF Shared
<1>2. \A b \in 0..m - 1 : \E r \in Slots : held[r] = b BY DEF Shared
<1> DEFINE f == [b \in 0..m - 1 |-> CHOOSE r \in Slots : held[r] = b]
<1>3. ASSUME NEW b \in 0..m - 1 PROVE f[b] \in Slots /\ held[f[b]] = b /\ f[b] # s
  BY <1>2, Sets
<1>4. f \in [0..m - 1 -> Slots \ {s}] BY <1>3
<1>5. IsFiniteSet(Slots) /\ Cardinality(Slots) = NumBlocksMax BY Sets, FS_Interval DEF Slots
<1>6. IsFiniteSet(Slots \ {s}) /\ Cardinality(Slots \ {s}) = NumBlocksMax - 1
  BY <1>5, FS_RemoveElement
<1>7. IsFiniteSet(0..m - 1) /\ Cardinality(0..m - 1) = NumBlocksMax BY <1>1, <1>5 DEF Slots
<1>8. Cardinality(Slots \ {s}) < Cardinality(0..m - 1) BY <1>6, <1>7, Sets
<1> HIDE DEF f
<1>9. PICK x, y \in 0..m - 1 : x # y /\ f[x] = f[y] BY <1>4, <1>6, <1>7, <1>8, FS_PigeonHole
<1> QED BY <1>3, <1>9

(* A step that keeps the buffers of one thread and does not touch the others. *)
LEMMA UsersKept ==
  ASSUME NEW d, NEW held, NEW t \in Threads, Users(d, held), Alone(t),
         UNCHANGED <<blocks, ReadyBlocks>>, UserOf(t, d, held)'
  PROVE  Users(d, held)'
  BY DEF Alone, Users, UserOf, HasSlot, HasToken, ReadyWriter

(* A step that takes and gives back no buffer. *)
LEMMA PoolKept ==
  ASSUME NEW d \in Nat, NEW k \in Nat, Pool(d, k), NEW t \in Threads, Alone(t),
         UNCHANGED <<freeBlockHead, freeBlockList, blocks, ReadyBlocks>>,
         \A held \in Heldness :
             UserOf(t, d, held) => UserOf(t, d, held)'
  PROVE  Pool(d, k)'
<1>1. PICK m, n \in Nat, g \in [Nat -> Bufs], held \in Heldness :
        FreeList(m, n, g) /\ Shared(d, k, m, n, g, held) /\ Users(d, held)
  BY DEF Pool
<1>2. Users(d, held)' BY <1>1, UsersKept DEF Users
<1>3. FreeList(m, n, g)' BY <1>1 DEF FreeList
<1>4. Shared(d, k, m, n, g, held)' BY <1>1 DEF Shared
<1> QED BY <1>2, <1>3, <1>4 DEF Pool

(* The steps of a thread that take and give back no buffer. *)
LEMMA PoolThread ==
  ASSUME TypeOK, NEW d \in Nat, NEW k \in Nat, SlotsOK(d, k), Pool(d, k),
         NEW t \in Threads,
         \/ ThreadStart(t) \/ ReadWait(t) \/ Read(t) \/ ReadErr(t) \/ Decide(t)
         \/ Release(t) \/ (Code(t) /\ loc[t].bufIndex \in Bufs) \/ Write(t)
         \/ Post(t) \/ Load(t) \/ (Count(t) /\ numFinishedThreads < NumThreads)
         \/ Compare(t)
  PROVE  Pool(d, k)'
<1> USE DEF HasSlot, HasToken, ReadyWriter, tokenVars, csVars
<1>1. CASE ThreadStart(t)
  <2>1. /\ Alone(t) /\ pc'[t] \in {"dead", "readWait"}
        /\ UNCHANGED <<freeBlockHead, freeBlockList, blocks, ReadyBlocks>>
    BY <1>1, ThreadStartEffect DEF ThreadStart
  <2> QED BY <2>1, PoolKept DEF UserOf
<1>2. CASE ReadWait(t)
  <2>1. /\ Alone(t) /\ pc'[t] \in {"count", "read"} /\ loc'[t].bufIndex = None
        /\ UNCHANGED <<freeBlockHead, freeBlockList, blocks, ReadyBlocks>>
    <3>1. /\ Alone(t) /\ pc'[t] \in {"count", "read"} /\ loc'[t] = EmptyLocals
      BY <1>2, ReadWaitEffect
    <3>2. UNCHANGED <<freeBlockHead, freeBlockList, blocks, ReadyBlocks>> BY <1>2 DEF ReadWait
    <3>3. EmptyLocals.bufIndex = None BY DEF EmptyLocals
    <3> QED BY <3>1, <3>2, <3>3
  <2>2. \A held \in Heldness : UserOf(t, d, held)' BY <2>1 DEF UserOf
  <2> QED BY <2>1, <2>2, PoolKept
<1>3. CASE Read(t)
  <2>1. /\ Alone(t) /\ pc[t] = "read" /\ pc'[t] \in {"semWait", "readErr"}
        /\ loc'[t].bufIndex = loc[t].bufIndex
        /\ UNCHANGED <<freeBlockHead, freeBlockList, blocks, ReadyBlocks>>
    BY <1>3, ReadEffect DEF Read
  <2> QED BY <2>1, PoolKept DEF UserOf
<1>4. CASE ReadErr(t)
  <2>1. /\ Alone(t) /\ pc[t] = "readErr" /\ pc'[t] = "semWait" /\ loc'[t] = loc[t]
        /\ UNCHANGED <<freeBlockHead, freeBlockList, blocks, ReadyBlocks>>
    BY <1>4, ReadErrEffect DEF ReadErr
  <2> QED BY <2>1, PoolKept DEF UserOf
<1>5. CASE Decide(t)
  <2>1. /\ Alone(t) /\ pc[t] = "decide" /\ pc'[t] \in {"create", "release"}
        /\ loc'[t].bi = loc[t].bi /\ loc'[t].bufIndex = loc[t].bufIndex
        /\ UNCHANGED <<freeBlockHead, freeBlockList, blocks, ReadyBlocks>>
    BY <1>5, DecideEffect DEF Decide
  <2> QED BY <2>1, PoolKept DEF UserOf
<1>6. CASE Release(t)
  <2>1. /\ Alone(t) /\ pc[t] = "release" /\ loc'[t] = loc[t]
        /\ pc'[t] = IF loc[t].res = "ok" THEN "pop" ELSE "store"
        /\ UNCHANGED <<freeBlockHead, freeBlockList, blocks, ReadyBlocks>>
    BY <1>6, ReleaseEffect DEF Release
  <2> QED BY <2>1, PoolKept, ZenonT(60) DEF UserOf
<1>7. CASE Code(t) /\ loc[t].bufIndex \in Bufs
  <2>1. /\ Alone(t) /\ pc[t] = "code" /\ pc'[t] = "store"
        /\ loc'[t].bi = loc[t].bi /\ loc'[t].bufIndex = loc[t].bufIndex
        /\ UNCHANGED <<freeBlockHead, freeBlockList, blocks, ReadyBlocks>>
    BY <1>7, CodeEffect DEF Code
  <2> QED BY <2>1, PoolKept DEF UserOf
<1>8. CASE Write(t)
  <2>1. /\ Alone(t) /\ pc[t] = "write" /\ pc'[t] = "return"
        /\ loc'[t].bufIndex = loc[t].bufIndex
        /\ UNCHANGED <<freeBlockHead, freeBlockList, blocks, ReadyBlocks>>
    BY <1>8, WriteEffect DEF Write
  <2> QED BY <2>1, PoolKept DEF UserOf
<1>9. CASE Post(t)
  <2>0. pc[t] = "post" BY <1>9 DEF Post
  <2>1. /\ Alone(t) /\ loc'[t] = loc[t]
        /\ \/ pc'[t] = "load" /\ loc[t].isReady
           \/ pc'[t] \in {"count", "readWait"}
        /\ UNCHANGED <<freeBlockHead, freeBlockList, blocks, ReadyBlocks>>
    BY <1>9, <2>0, PostEffect, PlacesFacts, WindowBound DEF Post
  <2> QED BY <2>0, <2>1, PoolKept DEF UserOf
<1>10. CASE Load(t)
  <2>1. /\ Alone(t) /\ pc[t] = "load" /\ pc'[t] = "write"
        /\ loc'[t].bufIndex = blocks[loc[t].wi].bufIndex
        /\ UNCHANGED <<freeBlockHead, freeBlockList, blocks, ReadyBlocks>>
    BY <1>10, LoadEffect DEF Load
  <2>2. loc[t].wi = Place(d) BY <2>1 DEF SlotsOK, IsWriter
  <2>3. \A held \in Heldness : UserOf(t, d, held) => UserOf(t, d, held)'
    BY <2>1, <2>2 DEF UserOf
  <2> QED BY <2>1, <2>3, PoolKept
<1>11. CASE Count(t) /\ numFinishedThreads < NumThreads
  <2>1. /\ Alone(t) /\ pc'[t] = "compare"
        /\ UNCHANGED <<freeBlockHead, freeBlockList, blocks, ReadyBlocks>>
    BY <1>11, CountEffect DEF Count
  <2> QED BY <2>1, PoolKept DEF UserOf
<1>12. CASE Compare(t)
  <2>1. /\ Alone(t) /\ pc'[t] = "start"
        /\ UNCHANGED <<freeBlockHead, freeBlockList, blocks, ReadyBlocks>>
    BY <1>12, CompareEffect DEF Compare
  <2> QED BY <2>1, PoolKept DEF UserOf
<1> QED BY <1>1, <1>2, <1>3, <1>4, <1>5, <1>6, <1>7, <1>8, <1>9, <1>10, <1>11, <1>12

(* The buffer list is never empty when a thread takes from it. *)
LEMMA PopFindsBuffer ==
  ASSUME TypeOK, NEW d \in Nat, NEW k \in Nat, NEW m \in Nat, NEW n \in Nat,
         NEW g \in [Nat -> Bufs], NEW held \in Heldness,
         FreeList(m, n, g), Shared(d, k, m, n, g, held), Users(d, held),
         NEW t \in Threads, pc[t] = "pop"
  PROVE  /\ freeBlockHead \in Bufs
         /\ loc[t].bi \in Slots /\ held[loc[t].bi] = None
         /\ IF n = 0 THEN m < NumBlocksMax /\ freeBlockHead = m
                     ELSE freeBlockHead = g[n]
<1>1. loc[t].bi \in Slots /\ held[loc[t].bi] = None BY LocalsTyped DEF Users, UserOf, HasSlot
<1>2. CASE n = 0
  <2>1. m < NumBlocksMax BY <1>1, <1>2, FreshBuffer
  <2>2. m < BLOCKS_MAX BY <2>1, Sets
  <2>3. freeBlockHead = m BY <1>2, <2>2 DEF FreeList, Rest
  <2> QED BY <1>1, <1>2, <2>1, <2>2, <2>3, Sets DEF Bufs
<1>3. CASE n # 0 BY <1>1, <1>3 DEF FreeList
<1> QED BY <1>2, <1>3

(* There is a free buffer for a thread at Pop, and one in hand at Code. *)
LEMMA BuffersTaken ==
  ASSUME TypeOK, NEW d \in Nat, NEW k \in Nat, Pool(d, k), NEW t \in Threads
  PROVE  /\ pc[t] = "pop" => freeBlockHead \in Bufs /\ loc[t].res = "ok"
         /\ pc[t] = "code" => loc[t].bufIndex \in Bufs /\ loc[t].res = "ok"
<1>1. PICK m, n \in Nat, g \in [Nat -> Bufs], held \in Heldness :
        FreeList(m, n, g) /\ Shared(d, k, m, n, g, held) /\ Users(d, held)
  BY DEF Pool
<1>2. pc[t] = "pop" => freeBlockHead \in Bufs BY <1>1, PopFindsBuffer
<1> QED BY <1>1, <1>2, LocalsTyped DEF Users, UserOf

(* The place of block k has no buffer yet. *)
LEMMA PoolSemWait ==
  ASSUME TypeOK, NEW d \in Nat, NEW k \in Nat, SlotsOK(d, k), Pool(d, k),
         NEW t \in Threads, SemWait(t)
  PROVE  Pool(d, k + 1)'
<1>1. /\ Alone(t) /\ pc[t] = "semWait" /\ pc'[t] = "decide"
      /\ blocksSemaphore > 0
      /\ loc'[t].bi = blockIndex /\ loc'[t].bufIndex = loc[t].bufIndex
  BY SemWaitEffect
<1>2. UNCHANGED <<freeBlockHead, freeBlockList, blocks, ReadyBlocks>> BY DEF SemWait, csVars
<1>3. d <= k /\ k - d < NumBlocksMax BY <1>1, WindowBound
<1>4. /\ Window(d, k + 1) = Window(d, k) \cup {Place(k)}
      /\ Place(k) \notin Window(d, k) /\ Place(k) \in Slots
      /\ blockIndex = Place(k)
  BY <1>1, <1>3, WindowGrows, PlaceFacts DEF SlotsOK
<1>5. PICK m, n \in Nat, g \in [Nat -> Bufs], held \in Heldness :
        FreeList(m, n, g) /\ Shared(d, k, m, n, g, held) /\ Users(d, held)
  BY DEF Pool
<1>6. held[Place(k)] = None BY <1>4, <1>5 DEF Shared
<1>7. FreeList(m, n, g)' BY <1>2, <1>5 DEF FreeList
<1>8. Shared(d, k + 1, m, n, g, held)' BY <1>4, <1>5 DEF Shared
<1>9. UserOf(t, d, held)'
  <2>1. loc[t].bufIndex = None BY <1>1, <1>5 DEF Users, UserOf, HasToken
  <2> QED BY <1>1, <1>4, <1>6, <2>1 DEF UserOf, HasSlot, HasToken, ReadyWriter
<1>10. Users(d, held)' BY <1>1, <1>2, <1>5, <1>9, UsersKept
<1> QED BY <1>7, <1>8, <1>10 DEF Pool

(* The thread that is started has no buffer. *)
LEMMA PoolCreateNext ==
  ASSUME TypeOK, Counting, Quiet, NEW d \in Nat, NEW k \in Nat, Pool(d, k),
         NEW t \in Threads, CreateNext(t)
  PROVE  Pool(d, k)'
<1> DEFINE n == numStartedThreads
<1>1. pc[t] = "create" /\ n < NumThreads /\ InThreadFunc2(t)
  BY DEF CreateNext, Counting, InThreadFunc2
<1>2. n \in Threads BY <1>1, CreateNextEffect
<1>3. UNCHANGED <<freeBlockHead, freeBlockList, blocks, ReadyBlocks>> BY DEF CreateNext, csVars
<1>4. pc[n] \in {"none", "start"} /\ n # t
  <2>1. InCall /\ n \in Nat
    BY <1>1, <1>2, Sets DEF Quiet, InCall
  <2> QED
    BY <1>1, <1>2, <2>1 DEF Counting
<1>5. CASE /\ \A u \in Threads : u # n /\ u # t => pc'[u] = pc[u]
           /\ pc'[t] = IF t = n THEN Started(n) ELSE "release"
           /\ pc'[n] = Started(n)
           /\ loc' = loc
  <2>1. pc'[n] \in {"none", "start"} /\ pc'[t] = "release" BY <1>4, <1>5 DEF Started
  <2>2. PICK m, l \in Nat, g \in [Nat -> Bufs], held \in Heldness :
          FreeList(m, l, g) /\ Shared(d, k, m, l, g, held) /\ Users(d, held)
    BY DEF Pool
  <2>3. FreeList(m, l, g)' BY <1>3, <2>2 DEF FreeList
  <2>4. Shared(d, k, m, l, g, held)' BY <2>2 DEF Shared
  <2>5. ASSUME NEW u \in Threads PROVE UserOf(u, d, held)'
    BY <2>2, <1>1, <1>3, <1>5, <2>1 DEF Users, UserOf, HasSlot, HasToken, ReadyWriter
  <2>6. Users(d, held)' BY <1>3, <2>2, <2>5 DEF Users
  <2> QED BY <2>3, <2>4, <2>6 DEF Pool
<1>6. CASE /\ Alone(t) /\ pc'[t] = "release" /\ loc'[t].bi = loc[t].bi
           /\ loc'[t].bufIndex = loc[t].bufIndex
  <2>1. \A held \in Heldness : UserOf(t, d, held) => UserOf(t, d, held)'
    BY <1>1, <1>6 DEF UserOf, HasSlot, HasToken, ReadyWriter
  <2> QED BY <1>3, <1>6, <2>1, PoolKept
<1> QED BY <1>1, <1>5, <1>6, CreateNextEffect

(* The head of the list goes to the slot of the thread. *)
LEMMA PoolPop ==
  ASSUME TypeOK, NEW d \in Nat, NEW k \in Nat, SlotsOK(d, k), Pool(d, k),
         NEW t \in Threads, Pop(t)
  PROVE  Pool(d, k)'
<1>1. pc[t] = "pop" /\ HasSlot(t) BY DEF Pop, HasSlot
<1>2. PICK m, n \in Nat, g \in [Nat -> Bufs], held \in Heldness :
        FreeList(m, n, g) /\ Shared(d, k, m, n, g, held) /\ Users(d, held)
  BY DEF Pool
<1> DEFINE s == loc[t].bi
           b == freeBlockHead
<1>3. /\ b \in Bufs /\ s \in Slots /\ held[s] = None
      /\ IF n = 0 THEN m < NumBlocksMax /\ b = m ELSE b = g[n]
  BY <1>1, <1>2, PopFindsBuffer
<1>4. /\ Alone(t) /\ pc'[t] = "code" /\ loc'[t].bufIndex = b
      /\ freeBlockHead' = freeBlockList[b]
      /\ loc'[t].bi = s /\ loc'[t].res = loc[t].res
  BY <1>3, PopEffect
<1>5. UNCHANGED <<freeBlockList, blocks, ReadyBlocks>> BY DEF Pop
<1>6. PICK h \in Heldness : h[s] = b /\ \A r \in Slots : r # s => h[r] = held[r]
  <2> DEFINE q == [held EXCEPT ![s] = b]
  <2>1. q \in Heldness /\ q[s] = b /\ \A r \in Slots : r # s => q[r] = held[r]
    BY <1>3 DEF Heldness
  <2> QED BY <2>1
<1>7. /\ s \in Window(d, k) /\ ~ReadyBlocks[s]
      /\ \A u \in Threads : HasSlot(u) /\ loc[u].bi = s => u = t
      /\ \A u \in Threads : IsWriter(u) => Place(d) # s
  BY <1>1, <1>3 DEF SlotsOK
<1>8. UserOf(t, d, h)'
  <2>1. loc[t].res = "ok" /\ b # None BY <1>1, <1>2, <1>3, Sets DEF Users, UserOf
  <2> QED BY <1>4, <1>6, <2>1 DEF UserOf, HasSlot, HasToken, ReadyWriter
<1>9. ASSUME NEW u \in Threads, u # t PROVE UserOf(u, d, h)'
  <2>1. pc'[u] = pc[u] /\ loc'[u] = loc[u]
    BY <1>4, <1>9 DEF Alone
  <2>2. UserOf(u, d, held)
    BY <1>2 DEF Users
  <2>3. HasSlot(u) => h[loc[u].bi] = held[loc[u].bi]
    BY <1>6, <1>7, <1>9, LocalsTyped
  <2>4. pc[u] \in {"write", "return"} \/ ReadyWriter(u) => h[Place(d)] = held[Place(d)]
    BY <1>6, <1>7, PlaceFacts DEF IsWriter, ReadyWriter
  <2> QED
    BY <1>5, <2>1, <2>2, <2>3, <2>4 DEF UserOf, HasSlot, HasToken, ReadyWriter
<1>10. Users(d, h)' BY <1>2, <1>5, <1>6, <1>7, <1>8, <1>9 DEF Users
<1>11. CASE n = 0
  <2>1. m + 1 \in Nat /\ m + 1 <= NumBlocksMax /\ b = m /\ m < NumBlocksMax
    BY <1>3, <1>11, Sets
  <2>2. FreeList(m + 1, 0, g)' BY <2>1, Sets, <1>2, <1>4, <1>5 DEF FreeList
  <2>3. ASSUME NEW r \in Slots, h[r] # None
        PROVE  /\ h[r] < m + 1 /\ r \in Window(d, k)
               /\ \A q \in Slots : h[q] = h[r] => q = r
    <3>1. \A q \in Slots : held[q] # m BY <1>2, Sets DEF Shared
    <3>2. \A q \in Slots : held[q] \in Nat \/ held[q] = None BY Sets DEF Heldness
    <3>3. CASE r = s BY <1>6, <1>7, <2>1, <3>1, <3>3
    <3>4. CASE r # s BY <1>6, <2>3, <3>2, <3>4, <1>2, <2>1, <3>1 DEF Shared
    <3> QED BY <3>3, <3>4
  <2>4. \A c \in 0..(m + 1) - 1 : \E r \in Slots : h[r] = c
    <3> SUFFICES ASSUME NEW c \in 0..m PROVE \E r \in Slots : h[r] = c
      OBVIOUS
    <3>1. CASE c = m
      BY <1>3, <1>6, <2>1, <3>1
    <3>2. CASE c # m
      <4>1. c \in 0..m - 1
        BY <3>2
      <4>2. PICK r \in Slots : held[r] = c
        BY <1>2, <1>11, <4>1 DEF Shared
      <4>3. r # s
        BY <1>3, <4>1, <4>2, Sets
      <4> QED
        BY <1>6, <4>2, <4>3
    <3> QED
      BY <3>1, <3>2
  <2>5. Shared(d, k, m + 1, 0, g, h)' BY <2>1, <2>3, <2>4 DEF Shared
  <2> QED BY <1>6, <1>10, <2>1, <2>2, <2>5 DEF Pool
<1>12. CASE n # 0
  <2>1. n - 1 \in Nat /\ n \in 1..n /\ b = g[n] /\ 1..n - 1 \subseteq 1..n BY <1>3, <1>12
  <2>2. FreeList(m, n - 1, g)' BY <1>2, <2>1, <1>4, <1>5 DEF FreeList
  <2>3. ASSUME NEW r \in Slots, h[r] # None
        PROVE  /\ h[r] < m /\ r \in Window(d, k)
               /\ \A i \in 1..n - 1 : g[i] # h[r]
               /\ \A q \in Slots : h[q] = h[r] => q = r
    <3>1. \A q \in Slots : held[q] # g[n]
      <4>1. g[n] # None
        BY <1>3, <2>1, Sets
      <4> QED
        BY <1>2, <2>1, <4>1 DEF Shared
    <3>2. g[n] < m /\ \A i \in 1..n - 1 : g[i] # g[n]
      BY <1>2, <2>1 DEF Shared
    <3>3. CASE r = s
      BY <1>6, <1>7, <2>1, <3>1, <3>2, <3>3
    <3>4. CASE r # s
      <4>1. held[r] # None /\ h[r] = held[r]
        BY <1>6, <2>3, <3>4
      <4>2. /\ held[r] < m /\ r \in Window(d, k)
            /\ \A i \in 1..n : g[i] # held[r]
            /\ \A q \in Slots : held[q] = held[r] => q = r
        BY <1>2, <4>1 DEF Shared
      <4> QED
        BY <1>6, <2>1, <3>1, <4>1, <4>2
    <3> QED
      BY <3>3, <3>4
  <2>4. ASSUME NEW c \in 0..m - 1
        PROVE  (\E i \in 1..n - 1 : g[i] = c) \/ \E r \in Slots : h[r] = c
    <3>1. CASE c = g[n] BY <1>3, <1>6, <2>1, <3>1
    <3>2. CASE c # g[n] /\ \E i \in 1..n : g[i] = c BY <3>2
    <3>3. CASE ~ \E i \in 1..n : g[i] = c BY <1>2, <3>3, <1>3, Sets, <1>6 DEF Shared
    <3> QED BY <3>1, <3>2, <3>3
  <2>5. Shared(d, k, m, n - 1, g, h)' BY <1>2, <2>1, <2>3, <2>4 DEF Shared
  <2> QED BY <1>6, <1>10, <2>1, <2>2, <2>5 DEF Pool
<1> QED BY <1>11, <1>12

(* The slot says what the thread has. *)
LEMMA PoolStore ==
  ASSUME TypeOK, NEW d \in Nat, NEW k \in Nat, SlotsOK(d, k), Pool(d, k),
         NEW t \in Threads, Store(t)
  PROVE  Pool(d, k)'
<1>1. /\ Alone(t) /\ pc[t] = "store" /\ pc'[t] = "claim" /\ loc'[t] = loc[t]
      /\ blocks'[loc[t].bi] = [res |-> loc[t].res, bufIndex |-> loc[t].bufIndex,
                               finished |-> loc[t].finished]
      /\ \A s \in Slots : s # loc[t].bi => blocks'[s] = blocks[s]
  BY StoreEffect
<1>2. UNCHANGED <<freeBlockHead, freeBlockList, ReadyBlocks>> BY DEF Store, csVars
<1>3. PICK m, n \in Nat, g \in [Nat -> Bufs], held \in Heldness :
        FreeList(m, n, g) /\ Shared(d, k, m, n, g, held) /\ Users(d, held)
  BY DEF Pool
<1>4. /\ loc[t].bi \in Slots /\ ~ReadyBlocks[loc[t].bi]
      /\ \A u \in Threads : HasSlot(u) /\ loc[u].bi = loc[t].bi => u = t
      /\ \A u \in Threads : IsWriter(u) => Place(d) # loc[t].bi
  BY <1>1, LocalsTyped DEF SlotsOK, HasSlot
<1>5. UserOf(t, d, held)' BY <1>3, <1>1 DEF Users, UserOf, HasSlot, HasToken, ReadyWriter
<1>6. ASSUME NEW u \in Threads, u # t PROVE UserOf(u, d, held)'
  BY <1>1, <1>6, <1>3, <1>4, LocalsTyped, PlaceFacts DEF Alone, Users, HasSlot, IsWriter,
     ReadyWriter, UserOf, HasToken
<1>7. \A s \in Slots : ReadyBlocks'[s] => blocks'[s].bufIndex = held[s]
  BY <1>1, <1>2, <1>3, <1>4 DEF Users
<1>8. Users(d, held)' BY <1>5, <1>6, <1>7 DEF Users
<1>9. FreeList(m, n, g)' BY <1>2, <1>3 DEF FreeList
<1>10. Shared(d, k, m, n, g, held)' BY <1>3 DEF Shared
<1> QED BY <1>8, <1>9, <1>10 DEF Pool

(* The buffer stays with the slot. *)
LEMMA PoolClaim ==
  ASSUME TypeOK, IInv, NEW d \in Nat, NEW k \in Nat, SlotsOK(d, k), Pool(d, k),
         NEW t \in Threads, Claim(t)
  PROVE  Pool(d, k)'
<1>1. /\ Alone(t) /\ pc[t] = "claim"
      /\ \/ /\ writeIndex = loc[t].bi /\ ReadyBlocks' = ReadyBlocks
            /\ pc'[t] = "write" /\ loc'[t].bufIndex = loc[t].bufIndex
         \/ /\ ReadyBlocks'[loc[t].bi]
            /\ \A s \in Slots : s # loc[t].bi => ReadyBlocks'[s] = ReadyBlocks[s]
            /\ pc'[t] \in {"count", "readWait"} /\ loc'[t] = loc[t]
  BY ClaimEffect, PlacesFacts
<1>2. UNCHANGED <<freeBlockHead, freeBlockList, blocks>> BY DEF Claim
<1>3. PICK m, n \in Nat, g \in [Nat -> Bufs], held \in Heldness :
        FreeList(m, n, g) /\ Shared(d, k, m, n, g, held) /\ Users(d, held)
  BY DEF Pool
<1>4. /\ loc[t].bi \in Slots /\ loc[t].bufIndex = held[loc[t].bi]
      /\ blocks[loc[t].bi].bufIndex = loc[t].bufIndex
  <2>1. UserOf(t, d, held) /\ HasSlot(t) BY <1>1, <1>3 DEF Users, HasSlot
  <2>2. blocks[loc[t].bi] = [res |-> loc[t].res, bufIndex |-> loc[t].bufIndex,
                             finished |-> loc[t].finished]
    BY <1>1, <2>1 DEF UserOf
  <2>3. loc[t].bufIndex = held[loc[t].bi] BY <2>1 DEF UserOf
  <2> QED BY <2>2, <2>3, LocalsTyped
<1>5. writeIndex = loc[t].bi => loc[t].bi = Place(d) BY <1>4, Sets DEF SlotsOK
<1>6. UserOf(t, d, held)' BY <1>1, <1>4, <1>5 DEF UserOf, HasSlot, HasToken, ReadyWriter
<1>7. ASSUME NEW u \in Threads, u # t PROVE UserOf(u, d, held)'
  BY <1>1, <1>7, <1>3, <1>2 DEF Alone, Users, UserOf, HasSlot, HasToken, ReadyWriter
<1>8. \A s \in Slots : ReadyBlocks'[s] => blocks'[s].bufIndex = held[s]
  BY <1>1, <1>2, <1>3, <1>4 DEF Users
<1>9. Users(d, held)' BY <1>6, <1>7, <1>8 DEF Users
<1>10. FreeList(m, n, g)' BY <1>2, <1>3 DEF FreeList
<1>11. Shared(d, k, m, n, g, held)' BY <1>3 DEF Shared
<1> QED BY <1>9, <1>10, <1>11 DEF Pool

(* The buffer of block d, if it has one, goes to the head of the list. *)
LEMMA PoolReturn ==
  ASSUME TypeOK, IInv, NEW d \in Nat, NEW k \in Nat, SlotsOK(d, k), Pool(d, k),
         NEW t \in Threads, Return(t)
  PROVE  Pool(d + 1, k)'
<1> DEFINE w == Place(d + 1)
           b == loc[t].bufIndex
<1>1. pc[t] = "return" /\ IsWriter(t) BY DEF Return, IsWriter
<1>2. PICK m, n \in Nat, g \in [Nat -> Bufs], held \in Heldness :
        FreeList(m, n, g) /\ Shared(d, k, m, n, g, held) /\ Users(d, held)
  BY DEF Pool
<1>3. /\ d < k /\ loc[t].wi = w
      /\ \A u \in Threads : IsWriter(u) <=> u = t
      /\ \A u \in Threads : HasSlot(u) => loc[u].bi # Place(d)
      /\ ~ReadyBlocks[Place(d)]
  BY <1>1, SlotsReturn DEF SlotsOK
<1>4. b = held[Place(d)] BY <1>1, <1>2 DEF Users, UserOf
<1>5. /\ Alone(t) /\ pc'[t] = "post"
      /\ IF b # None
            THEN /\ b \in Bufs /\ freeBlockHead' = b
                 /\ freeBlockList'[b] = freeBlockHead
                 /\ \A c \in Bufs : c # b => freeBlockList'[c] = freeBlockList[c]
            ELSE freeBlockList' = freeBlockList /\ freeBlockHead' = freeBlockHead
      /\ loc'[t].isReady = ReadyBlocks[w]
      /\ ~ReadyBlocks'[w]
      /\ \A s \in Slots : s # w => ReadyBlocks'[s] = ReadyBlocks[s]
  BY <1>3, ReturnEffect
<1>6. UNCHANGED blocks BY DEF Return
<1>7. /\ w \in Slots /\ Place(d) \in Slots
      /\ Window(d, k) = Window(d + 1, k) \cup {Place(d)}
      /\ Place(d) \notin Window(d + 1, k)
  BY WindowBound, <1>3, PlaceFacts, WindowShrinks
<1>8. PICK h \in Heldness :
        h[Place(d)] = None /\ \A r \in Slots : r # Place(d) => h[r] = held[r]
  <2> DEFINE q == [held EXCEPT ![Place(d)] = None]
  <2>1. /\ q \in Heldness /\ q[Place(d)] = None
        /\ \A r \in Slots : r # Place(d) => q[r] = held[r]
    BY <1>7 DEF Heldness
  <2> QED BY <2>1
<1>9. ReadyBlocks[w] => w # Place(d) /\ blocks[w].bufIndex = h[w]
  BY <1>2, <1>3, <1>7, <1>8 DEF Users
<1>10. UserOf(t, d + 1, h)' BY <1>5, <1>6, <1>9 DEF UserOf, HasSlot, HasToken, ReadyWriter
<1>11. ASSUME NEW u \in Threads, u # t PROVE UserOf(u, d + 1, h)'
  BY <1>5, <1>11, <1>2, <1>3, <1>8, LocalsTyped, <1>6 DEF Alone, Users, UserOf, HasSlot,
     HasToken, ReadyWriter, IsWriter
<1>12. Users(d + 1, h)' BY <1>6, <1>3, <1>5, <1>2, <1>8, <1>10, <1>11 DEF Users
<1> HIDE DEF w, b
<1>13. \A s \in Slots : h[s] # None => s # Place(d) /\ h[s] = held[s] /\ held[s] # None BY <1>8
<1>14. \A s \in Slots : held[s] # None => s = Place(d) \/ s \in Window(d + 1, k)
  BY <1>2, <1>7 DEF Shared
<1>15. CASE b = None
  <2>1. FreeList(m, n, g)' BY <1>2, <1>5, <1>15 DEF FreeList
  <2>2. ASSUME NEW s \in Slots, h[s] # None
        PROVE  /\ h[s] < m /\ s \in Window(d + 1, k)
               /\ \A i \in 1..n : g[i] # h[s]
               /\ \A r \in Slots : h[r] = h[s] => r = s
    BY <1>2, <1>13, <2>2, <1>8, <1>14 DEF Shared
  <2>3. ASSUME NEW c \in 0..m - 1
        PROVE  (\E i \in 1..n : g[i] = c) \/ \E r \in Slots : h[r] = c
    <3>1. CASE ~ \E i \in 1..n : g[i] = c
      <4>1. PICK r \in Slots : held[r] = c BY <1>2, <3>1 DEF Shared
      <4>2. c # None BY Sets
      <4>3. r # Place(d) BY <1>4, <1>15, <4>1, <4>2 DEF b
      <4> QED BY <1>8, <4>1, <4>3
    <3> QED BY <3>1
  <2>4. Shared(d + 1, k, m, n, g, h)' BY <1>2, <2>2, <2>3 DEF Shared
  <2> QED BY <1>12, <2>1, <2>4 DEF Pool
<1>16. CASE b # None
  <2>1. /\ b \in Bufs /\ freeBlockHead' = b
        /\ freeBlockList'[b] = freeBlockHead
        /\ \A c \in Bufs : c # b => freeBlockList'[c] = freeBlockList[c]
        /\ held[Place(d)] = b /\ held[Place(d)] # None
    BY <1>4, <1>5, <1>16 DEF b
  <2>2. /\ b < m /\ \A i \in 1..n : g[i] # b
        /\ \A r \in Slots : held[r] = b => r = Place(d)
    BY <1>2, <1>7, <2>1 DEF Shared
  <2>3. PICK e \in [Nat -> Bufs] : e[n + 1] = b /\ \A i \in 1..n : e[i] = g[i]
    <3> DEFINE q == [g EXCEPT ![n + 1] = b]
    <3>1. q \in [Nat -> Bufs] /\ q[n + 1] = b /\ \A i \in 1..n : q[i] = g[i] BY <2>1
    <3> QED BY <3>1
  <2>4. n + 1 \in Nat /\ \A i \in 1..n + 1 : i \in 1..n \/ i = n + 1 OBVIOUS
  <2>5. FreeList(m, n + 1, e)'
    <3>1. freeBlockHead' = IF n + 1 = 0 THEN Rest(m) ELSE e[n + 1] BY <2>1, <2>3
    <3>2. freeBlockHead = IF n + 1 = 1 THEN Rest(m) ELSE e[(n + 1) - 1]
      BY <1>2, <2>3 DEF FreeList
    <3>3. ASSUME NEW i \in 1..n + 1
          PROVE  freeBlockList'[e[i]] = IF i = 1 THEN Rest(m) ELSE e[i - 1]
      BY <2>1, <2>3, <3>2, <2>2, <1>2, <2>4 DEF FreeList
    <3>4. ASSUME NEW c \in m..BLOCKS_MAX - 1 PROVE freeBlockList'[c] = Rest(c + 1)
      BY <2>1, <2>2, Sets, <1>2 DEF Bufs, FreeList
    <3> QED BY <3>1, <3>3, <3>4 DEF FreeList
  <2>6. ASSUME NEW s \in Slots, h[s] # None
        PROVE  /\ h[s] < m /\ s \in Window(d + 1, k)
               /\ \A i \in 1..n + 1 : e[i] # h[s]
               /\ \A r \in Slots : h[r] = h[s] => r = s
    BY <1>2, <1>13, <2>6, <2>2, <1>8, <1>14, <2>3, <2>4 DEF Shared
  <2>7. ASSUME NEW c \in 0..m - 1
        PROVE  (\E i \in 1..n + 1 : e[i] = c) \/ \E r \in Slots : h[r] = c
    BY <2>3, <1>2, <2>1, <1>8 DEF Shared
  <2>8. /\ \A i \in 1..n + 1 : e[i] < m
        /\ \A i, j \in 1..n + 1 : e[i] = e[j] => i = j
    BY <1>2, <2>2, <2>3, <2>4 DEF Shared
  <2>9. Shared(d + 1, k, m, n + 1, e, h)' BY <1>2, <2>6, <2>7, <2>8 DEF Shared
  <2> QED BY <1>12, <2>4, <2>5, <2>9 DEF Pool
<1> QED BY <1>15, <1>16

(* No thread uses the ring: before the first call and when one begins. *)
AtRest == /\ \A t \in Threads : pc[t] \in {"none", "start"}
          /\ \A s \in Slots : ~ReadyBlocks[s]
          /\ freeBlockHead = 0 /\ freeBlockList = InitFreeList

(* At rest all buffers are fresh. *)
LEMMA PoolFresh == AtRest => Pool(0, 0)
<1> SUFFICES ASSUME AtRest PROVE Pool(0, 0) OBVIOUS
<1> DEFINE g == [i \in Nat |-> 0]
           held == [s \in Slots |-> None]
<1>1. g \in [Nat -> Bufs] /\ held \in Heldness BY Sets DEF Heldness, Bufs
<1>2. FreeList(0, 0, g) BY Sets DEF AtRest, Rest, InitFreeList, Bufs, FreeList
<1>3. Shared(0, 0, 0, 0, g, held) BY Sets DEF Shared
<1>4. Users(0, held) BY DEF AtRest, Users, UserOf, HasSlot, HasToken, ReadyWriter
<1> HIDE DEF g, held
<1> QED BY <1>1, <1>2, <1>3, <1>4 DEF Pool

(* A call begins at rest. *)
LEMMA PoolCallCode ==
  ASSUME SettledReuse, CallCode
  PROVE  Pool(0, 0)'
<1>1. AtRest' BY DEF AtRest, CallCode, Settled
<1> QED BY <1>1, PoolFresh, PTL

(* The caller leaves the buffers alone. *)
LEMMA PoolMain ==
  ASSUME TypeOK, Counting, NEW d \in Nat, NEW k \in Nat, Pool(d, k),
         \/ CreateFirst \/ Go \/ WaitFinished \/ Combine \/ Destruct
         \/ FreeSignal \/ FreeJoin \/ FreeEnd
  PROVE  Pool(d, k)'
<1>1. PICK m, n \in Nat, g \in [Nat -> Bufs], held \in Heldness :
        FreeList(m, n, g) /\ Shared(d, k, m, n, g, held) /\ Users(d, held)
  BY DEF Pool
<1>2. FreeList(m, n, g)' BY <1>1, MainMoves DEF FreeList
<1>3. Shared(d, k, m, n, g, held)' BY <1>1 DEF Shared
<1>4. ASSUME NEW u \in Threads PROVE UserOf(u, d, held)'
  BY <1>1, MainMoves DEF Users, UserOf, HasSlot, HasToken, ReadyWriter
<1>5. Users(d, held)' BY <1>1, <1>4, MainMoves DEF Users
<1> QED BY <1>2, <1>3, <1>5 DEF Pool

(***************************************************************************)
(* III.  Blocks, results and EncodeJob.                                    *)
(*                                                                         *)
(* To what part II says of slots and buffers, this adds which block of the *)
(* input each slot holds (Content), and why threads stop reading           *)
(* (Reading): only at the end of the input or after an error.  When the    *)
(* call goes on, no thread is left, so no block is in the ring; if nothing *)
(* has failed, reading has stopped at the end; hence all blocks have been  *)
(* written.                                                                *)
(***************************************************************************)

(* No further block is to be read. *)
Over == stopReading \/ Err

(* Slot or thread holds block j of the input (counted from 0) in buffer b, *)
(* unless something has failed.                                            *)
Filled(j, r, b) ==
    IF r = "ok" THEN b \in Bufs /\ outBuf[b] = j + 1 /\ j + 1 <= NumInput ELSE Err

(* The output after n blocks: without a failure it is complete. *)
Wrote(n) ==
    /\ \A i \in 1..Len(written) : written[i] <= n
    /\ ~Err => Len(written) = n /\ \A i \in 1..n : written[i] = i

(* The thread's res says how its block, or the writing, has gone. *)
WithBlock(t) == HasSlot(t) \/ pc[t] \in {"write", "return", "post", "load"}

(* Which block a thread works on. *)
ContentOf(t, d, k) ==
    /\ WithBlock(t) => (loc[t].res # "ok" => Err)
    /\ \A j \in d..k - 1 : HasSlot(t) /\ loc[t].bi = Place(j) =>
           /\ loc[t].res = "ok" => loc[t].block = j + 1 /\ j + 1 <= NumInput
           /\ pc[t] \in {"store", "claim"} => Filled(j, loc[t].res, loc[t].bufIndex)
    /\ pc[t] = "write" => Filled(d, loc[t].res, loc[t].bufIndex)
    /\ ReadyWriter(t) => Filled(d, blocks[Place(d)].res, blocks[Place(d)].bufIndex)

(* The number of blocks the writer is through with: it leaves the slot one *)
(* step after it has written the block.                                    *)
Position(d) == IF \E t \in Threads : pc[t] = "return" THEN d + 1 ELSE d

Content(d, k) ==
    /\ \A t \in Threads : ContentOf(t, d, k)
    /\ \A j \in d..k - 1 : ReadyBlocks[Place(j)] =>
           Filled(j, blocks[Place(j)].res, blocks[Place(j)].bufIndex)
    /\ writeRes # "ok" => Err
    /\ Wrote(Position(d))

(* A thread that has passed the token on with its block. *)
Began(t) == pc[t] \in {"pop", "code", "store", "claim", "write", "return", "post",
                       "load"}

(* What a thread knows of the reading.  k blocks have been read when the   *)
(* token is free, and k + 1 between Read and SemWait.                      *)
ReadingOf(t, d, k) ==
    /\ HasToken(t) => ~stopReading
    /\ pc[t] = "read" => /\ readProcessed = k /\ k < NumInput
                         /\ loc[t].res = "ok" /\ ~loc[t].finished
    /\ pc[t] \in {"readErr", "semWait"} =>
           IF loc[t].res = "ok"
           THEN /\ pc[t] = "semWait" /\ loc[t].block = k + 1
                /\ readProcessed = k + 1 /\ k + 1 <= NumInput
                /\ loc[t].finished <=> k + 1 >= NumInput
           ELSE loc[t].finished /\ (pc[t] = "semWait" => Err)
    /\ pc[t] \in {"decide", "create", "release"} =>
           IF loc[t].finished THEN Err \/ k = NumInput
           ELSE loc[t].res = "ok" /\ readProcessed = k /\ k < NumInput
    /\ Began(t) => (loc[t].finished => Over)
    /\ ReadyWriter(t) => (blocks[Place(d)].finished => Over)
    /\ pc[t] = "count" => Over

Reading(d, k) ==
    /\ \A t \in Threads : ReadingOf(t, d, k)
    /\ mpc \in {"create", "go"} => ~stopReading /\ readProcessed = 0 /\ k = 0
    /\ readEvent /\ ~stopReading => readProcessed = k /\ k < NumInput
    /\ stopReading => Err \/ k = NumInput
    /\ \A s \in Slots : ReadyBlocks[s] /\ blocks[s].finished => Over
    /\ InCall /\ numFinishedThreads > 0 => Over

(* What is known of the result of a call. *)
Finals ==
    /\ InCall => mres = "ok"
    /\ mpc \in {"idle", "free", "join"} /\ calls > 0 /\ mres = "ok" =>
           written = [i \in 1..NumInput |-> i]

(* All that holds of blocks d..k - 1. *)
Flow(d, k) ==
    /\ TypeOK /\ IInv /\ Counting /\ Quiet
    /\ SlotsOK(d, k) /\ Pool(d, k) /\ Reading(d, k) /\ Content(d, k)

-----------------------------------------------------------------------------
(* The blocks are read one by one until the end or an error.               *)

(* An error stays known, and reading stays stopped, until the next call. *)
LEMMA ErrStays ==
  ASSUME NEW t \in Threads, Thread(t)
  PROVE  /\ Err => Err'
         /\ stopReading => stopReading'
         /\ Over => Over'
         /\ writeRes # "ok" /\ writeRes' = writeRes => writeRes' # "ok"
         /\ mpc' = mpc
<1>1. Err => Err'
  BY DEF Thread, Err, ThreadStart, ReadWait, Read, ReadErr, SemWait, Decide, CreateNext,
     Release, Pop, Code, Store, Claim, Write, Return, Post, Load, Count, Compare, SetError
<1>2. stopReading => stopReading'
  BY DEF Thread, tokenVars, ThreadStart, ReadWait, Read, ReadErr, SemWait, Decide, CreateNext,
     Release, Pop, Code, Store, Claim, Write, Return, Post, Load, Count, Compare
<1>3. mpc' = mpc
  BY DEF Thread, mainVars, ThreadStart, ReadWait, Read, ReadErr, SemWait, Decide, CreateNext,
     Release, Pop, Code, Store, Claim, Write, Return, Post, Load, Count, Compare
<1> QED BY <1>1, <1>2, <1>3 DEF Over

(* What a thread's step must do for reading; others are not in its way     *)
(* when it holds the token or leaves what the token guards alone.          *)
LEMMA ReadingStep ==
  ASSUME NEW d \in Nat, NEW k \in Nat, NEW l \in Nat, Reading(d, k),
         NEW t \in Threads, Alone(t),
         UNCHANGED <<blocks, ReadyBlocks, mpc, numFinishedThreads>>,
         Err => Err', Over => Over',
         \/ UNCHANGED <<stopReading, readProcessed>> /\ l = k
         \/ HasToken(t) /\ OneToken /\ mpc \notin {"create", "go"},
         ReadingOf(t, d, l)',
         readEvent' /\ ~stopReading' => readProcessed' = l /\ l < NumInput,
         stopReading' => Err' \/ l = NumInput
  PROVE  Reading(d, l)'
<1>1. ASSUME NEW u \in Threads, u # t PROVE ReadingOf(u, d, l)'
  <2>1. pc'[u] = pc[u] /\ loc'[u] = loc[u]
    BY <1>1 DEF Alone
  <2>2. ReadingOf(u, d, k)
    BY DEF Reading
  <2>3. HasToken(u) => UNCHANGED <<stopReading, readProcessed>> /\ l = k
    BY <1>1 DEF OneToken
  <2>4. /\ HasToken(u) => ~stopReading'
        /\ pc[u] = "read" => /\ readProcessed' = l /\ l < NumInput
                             /\ loc[u].res = "ok" /\ ~loc[u].finished
    BY <2>2, <2>3 DEF ReadingOf, HasToken
  <2>5. pc[u] \in {"readErr", "semWait"} =>
           IF loc[u].res = "ok"
           THEN /\ pc[u] = "semWait" /\ loc[u].block = l + 1
                /\ readProcessed' = l + 1 /\ l + 1 <= NumInput
                /\ loc[u].finished <=> l + 1 >= NumInput
           ELSE loc[u].finished /\ (pc[u] = "semWait" => Err')
    BY <2>2, <2>3 DEF ReadingOf, HasToken
  <2>6. pc[u] \in {"decide", "create", "release"} =>
           IF loc[u].finished THEN Err' \/ l = NumInput
           ELSE loc[u].res = "ok" /\ readProcessed' = l /\ l < NumInput
    BY <2>2, <2>3 DEF ReadingOf, HasToken
  <2>7. /\ Began(u) => (loc[u].finished => Over')
        /\ ReadyWriter(u) => (blocks'[Place(d)].finished => Over')
        /\ pc[u] = "count" => Over'
    BY <2>2 DEF ReadingOf
  <2> QED
    BY <2>1, <2>4, <2>5, <2>6, <2>7 DEF ReadingOf, HasToken, Began, ReadyWriter
<1>2. \A s \in Slots : ReadyBlocks'[s] /\ blocks'[s].finished => Over'
  BY DEF Reading
<1>3. InCall' /\ numFinishedThreads' > 0 => Over'
  BY DEF Reading, InCall
<1>4. mpc' \in {"create", "go"} => ~stopReading' /\ readProcessed' = 0 /\ l = 0
  BY DEF Reading
<1> QED
  BY <1>1, <1>2, <1>3, <1>4 DEF Reading

(* While a thread has the token, nobody else reads, and reading goes on. *)
LEMMA TokenFacts ==
  ASSUME IInv, NEW d \in Nat, NEW k \in Nat, Reading(d, k),
         NEW t \in Threads, HasToken(t)
  PROVE  OneToken /\ ~readEvent /\ ~stopReading /\ mpc \notin {"create", "go"}
  BY DEF IInv, OneToken, CallBegins, Reading, ReadingOf

(* The steps of the thread that holds the token. *)
LEMMA ReadingRead ==
  ASSUME TypeOK, IInv, NEW d \in Nat, NEW k \in Nat, Reading(d, k),
         NEW t \in Threads, Read(t)
  PROVE  Reading(d, k)'
<1>1. /\ Alone(t) /\ pc[t] = "read" /\ HasToken(t)
      /\ \/ /\ Err /\ pc'[t] = "semWait"
            /\ loc'[t].res # "ok" /\ loc'[t].finished
            /\ readProcessed' = readProcessed
         \/ /\ pc'[t] = "semWait"
            /\ loc'[t].res = loc[t].res /\ loc'[t].block = readProcessed + 1
            /\ loc'[t].finished <=> readProcessed + 1 >= NumInput
            /\ readProcessed' = readProcessed + 1
         \/ /\ pc'[t] = "readErr"
            /\ loc'[t].res # "ok" /\ loc'[t].finished
            /\ readProcessed' = readProcessed
  BY ReadEffect DEF HasToken
<1>2. UNCHANGED <<blocks, ReadyBlocks, mpc, numFinishedThreads, stopReading,
                  readEvent, progressRes>>
  BY DEF Read, mainVars, finishVars, csVars
<1>3. OneToken /\ ~readEvent /\ ~stopReading /\ mpc \notin {"create", "go"} BY <1>1, TokenFacts
<1>4. readProcessed = k /\ k < NumInput /\ loc[t].res = "ok" BY <1>1 DEF Reading, ReadingOf
<1>5. k + 1 <= NumInput BY <1>4, Sets
<1>6. (Err => Err') /\ (Over => Over') BY <1>2 DEF Err, Over
<1>7. ReadingOf(t, d, k)'
  BY <1>1, <1>2, <1>3, <1>4, <1>5, <1>6 DEF ReadingOf, HasToken, Began, ReadyWriter
<1> QED BY <1>1, <1>2, <1>3, <1>6, <1>7, ReadingStep

(* The error of the reading is published before the slot is taken. *)
LEMMA ReadingReadErr ==
  ASSUME TypeOK, IInv, NEW d \in Nat, NEW k \in Nat, Reading(d, k),
         NEW t \in Threads, ReadErr(t)
  PROVE  Reading(d, k)'
  BY ReadErrEffect, TokenFacts, ReadingStep DEF HasToken, ReadErr, mainVars, finishVars, csVars,
    tokenVars, Reading, ReadingOf, Over, Began, ReadyWriter

(* The block that was read gets its number: now k + 1 blocks are in. *)
LEMMA ReadingSemWait ==
  ASSUME TypeOK, IInv, NEW d \in Nat, NEW k \in Nat, Reading(d, k),
         NEW t \in Threads, SemWait(t)
  PROVE  Reading(d, k + 1)'
<1>1. /\ Alone(t) /\ pc[t] = "semWait" /\ HasToken(t)
      /\ pc'[t] = "decide" /\ loc'[t].res = loc[t].res
      /\ loc'[t].finished = loc[t].finished
  BY SemWaitEffect DEF HasToken
<1>2. UNCHANGED <<blocks, ReadyBlocks, mpc, numFinishedThreads, stopReading,
                  readEvent, readProcessed, progressRes>>
  BY DEF SemWait, mainVars, finishVars, csVars
<1>3. OneToken /\ ~readEvent /\ ~stopReading /\ mpc \notin {"create", "go"} BY <1>1, TokenFacts
<1>4. IF loc[t].res = "ok"
      THEN /\ readProcessed = k + 1 /\ k + 1 <= NumInput
           /\ loc[t].finished <=> k + 1 >= NumInput
      ELSE loc[t].finished /\ Err
  BY <1>1 DEF Reading, ReadingOf
<1>5. (Err => Err') /\ (Over => Over') BY <1>2 DEF Err, Over
<1>6. IF loc[t].finished THEN Err \/ k + 1 = NumInput
      ELSE loc[t].res = "ok" /\ readProcessed = k + 1 /\ k + 1 < NumInput
  BY <1>4, Sets
<1>7. ReadingOf(t, d, k + 1)'
  BY <1>1, <1>2, <1>3, <1>5, <1>6 DEF ReadingOf, HasToken, Began, ReadyWriter
<1>8. k + 1 \in Nat OBVIOUS
<1> QED BY <1>1, <1>2, <1>3, <1>5, <1>7, <1>8, ReadingStep

(* A block is the last one at the end of the input, or after an error. *)
LEMMA ReadingDecide ==
  ASSUME TypeOK, IInv, NEW d \in Nat, NEW k \in Nat, Reading(d, k),
         NEW t \in Threads, Decide(t)
  PROVE  Reading(d, k)'
<1>1. /\ Alone(t) /\ pc[t] = "decide" /\ HasToken(t)
      /\ pc'[t] \in {"create", "release"}
      /\ loc'[t].res = IF loc[t].res = "ok" THEN progressRes ELSE loc[t].res
      /\ loc'[t].finished <=> loc[t].finished \/ loc'[t].res # "ok"
  BY DecideEffect DEF HasToken
<1>2. UNCHANGED <<blocks, ReadyBlocks, mpc, numFinishedThreads, stopReading,
                  readEvent, readProcessed, progressRes>>
  BY DEF Decide, mainVars, finishVars, csVars, tokenVars
<1>3. OneToken /\ ~readEvent /\ ~stopReading /\ mpc \notin {"create", "go"} BY <1>1, TokenFacts
<1>4. IF loc[t].finished THEN Err \/ k = NumInput
      ELSE loc[t].res = "ok" /\ readProcessed = k /\ k < NumInput
  BY <1>1 DEF Reading, ReadingOf
<1>5. (Err => Err') /\ (Over => Over') BY <1>2 DEF Err, Over
<1>6. IF loc'[t].finished THEN Err' \/ k = NumInput
      ELSE loc'[t].res = "ok" /\ readProcessed = k /\ k < NumInput
  BY <1>1, <1>2, <1>4 DEF Err
<1>7. ReadingOf(t, d, k)' BY <1>1, <1>2, <1>3, <1>6 DEF ReadingOf, HasToken, Began, ReadyWriter
<1> QED BY <1>1, <1>2, <1>3, <1>5, <1>7, ReadingStep

(* With the token goes the knowledge whether reading goes on. *)
LEMMA ReadingRelease ==
  ASSUME TypeOK, IInv, NEW d \in Nat, NEW k \in Nat, Reading(d, k),
         NEW t \in Threads, Release(t)
  PROVE  Reading(d, k)'
  BY ReleaseEffect, TokenFacts, ReadingStep DEF HasToken, Release, mainVars, finishVars, csVars,
    Reading, ReadingOf, Err, Over, Began, ReadyWriter

(* A thread that cannot be created is an error, and stops the reading. *)
LEMMA ReadingCreateNext ==
  ASSUME TypeOK, IInv, Counting, Quiet, NEW d \in Nat, NEW k \in Nat,
         Reading(d, k), NEW t \in Threads, CreateNext(t)
  PROVE  Reading(d, k)'
<1> DEFINE n == numStartedThreads
<1>1. pc[t] = "create" /\ HasToken(t) /\ n < NumThreads /\ InThreadFunc2(t)
  BY DEF CreateNext, Counting, InThreadFunc2, HasToken
<1>2. n \in Threads BY <1>1, CreateNextEffect
<1>3. UNCHANGED <<blocks, ReadyBlocks, mpc, numFinishedThreads, stopReading,
                  readEvent, readProcessed>>
  BY DEF CreateNext, csVars, finishVars, mainVars
<1>4. OneToken /\ ~readEvent /\ ~stopReading /\ mpc \notin {"create", "go"} BY <1>1, TokenFacts
<1>5. pc[n] \in {"none", "start"} /\ n # t BY <1>1, <1>2, Sets DEF Quiet, InCall, Counting
<1>6. (Err => Err') /\ (Over => Over') BY ErrStays DEF Thread
<1>7. CASE /\ \A u \in Threads : u # n /\ u # t => pc'[u] = pc[u]
           /\ pc'[t] = IF t = n THEN Started(n) ELSE "release"
           /\ pc'[n] = Started(n)
           /\ loc' = loc /\ progressRes' = progressRes
  <2>1. pc'[n] \in {"none", "start"} /\ pc'[t] = "release"
    BY <1>5, <1>7 DEF Started
  <2>2. ASSUME NEW u \in Threads PROVE ReadingOf(u, d, k)'
    <3>1. ReadingOf(u, d, k)
      BY DEF Reading
    <3>2. CASE u = n
      BY <2>1, <3>2 DEF ReadingOf, HasToken, Began, ReadyWriter
    <3>3. CASE u = t
      <4>1. IF loc[t].finished THEN Err' \/ k = NumInput
            ELSE loc[t].res = "ok" /\ readProcessed = k /\ k < NumInput
        BY <1>1, <1>6, <3>1, <3>3 DEF ReadingOf
      <4> QED
        BY <1>3, <1>4, <1>7, <2>1, <3>3, <4>1
        DEF ReadingOf, HasToken, Began, ReadyWriter
    <3>4. CASE u # n /\ u # t
      <4>1. Err' <=> Err
        BY <1>7 DEF Err
      <4>2. Over' <=> Over
        BY <1>3, <4>1 DEF Over
      <4> QED
        BY <1>3, <1>7, <3>1, <3>4, <4>1, <4>2
        DEF ReadingOf, HasToken, Began, ReadyWriter
    <3> QED
      BY <3>2, <3>3, <3>4
  <2> QED
    BY <1>3, <1>6, <2>2 DEF Reading, InCall
<1>8. CASE /\ Alone(t) /\ Err' /\ pc'[t] = "release"
           /\ loc'[t].res # "ok" /\ loc'[t].finished
  BY <1>3, <1>4, <1>8, <1>6, ReadingStep DEF ReadingOf, HasToken, Began, ReadyWriter
<1> QED BY <1>1, <1>7, <1>8, CreateNextEffect

(* The steps of threads that do not hold the token, nor change what the    *)
(* writer looks at.                                                        *)
LEMMA ReadingThread ==
  ASSUME TypeOK, IInv, NEW d \in Nat, NEW k \in Nat,
         SlotsOK(d, k), Reading(d, k), Content(d, k), NEW t \in Threads,
         \/ ThreadStart(t) \/ ReadWait(t) \/ (Pop(t) /\ freeBlockHead \in Bufs)
         \/ (Code(t) /\ loc[t].bufIndex \in Bufs) \/ Write(t)
         \/ Post(t) \/ Load(t) \/ Compare(t)
  PROVE  Reading(d, k)'
<1>1. (Err => Err') /\ (Over => Over') BY ErrStays DEF Thread
<1>2. ReadingOf(t, d, k) BY DEF Reading
<1> USE DEF HasToken, Began, ReadyWriter, tokenVars, csVars, finishVars, mainVars
<1>3. ASSUME Alone(t), ReadingOf(t, d, k)',
             UNCHANGED <<blocks, ReadyBlocks, mpc, numFinishedThreads, stopReading,
                         readProcessed>>,
             readEvent' /\ ~stopReading' => readEvent
      PROVE  Reading(d, k)'
  BY <1>1, <1>3, ReadingStep DEF Reading
<1>4. CASE ThreadStart(t)
  <2>1. /\ Alone(t) /\ pc'[t] \in {"dead", "readWait"}
        /\ UNCHANGED <<blocks, ReadyBlocks, mpc, numFinishedThreads, stopReading,
                       readProcessed, readEvent>>
    BY <1>4, ThreadStartEffect DEF ThreadStart
  <2>2. ReadingOf(t, d, k)' BY <2>1 DEF ReadingOf
  <2> QED BY <1>3, <2>1, <2>2
<1>5. CASE ReadWait(t)
  <2>1. /\ Alone(t) /\ readEvent
        /\ pc'[t] = IF stopReading THEN "count" ELSE "read"
        /\ loc'[t] = EmptyLocals
        /\ readEvent' <=> stopReading
    BY <1>5, ReadWaitEffect
  <2>2. UNCHANGED <<blocks, ReadyBlocks, mpc, numFinishedThreads, stopReading,
                    readProcessed>>
    BY <1>5 DEF ReadWait
  <2>3. EmptyLocals.res = "ok" /\ ~EmptyLocals.finished BY DEF EmptyLocals
  <2>4. ~stopReading => readProcessed = k /\ k < NumInput BY <2>1 DEF Reading
  <2>5. stopReading => Over' BY <2>2 DEF Over
  <2>6. ReadingOf(t, d, k)' BY <2>1, <2>2, <2>3, <2>4, <2>5 DEF ReadingOf
  <2> QED BY <1>3, <2>1, <2>2, <2>6
<1>6. CASE Pop(t) /\ freeBlockHead \in Bufs
  <2>1. /\ Alone(t) /\ pc[t] = "pop" /\ pc'[t] = "code"
        /\ loc'[t].finished = loc[t].finished
    BY <1>6, PopEffect
  <2>2. UNCHANGED <<blocks, ReadyBlocks, mpc, numFinishedThreads, stopReading,
                    readProcessed, readEvent>>
    BY <1>6 DEF Pop
  <2>3. ReadingOf(t, d, k)' BY <1>1, <1>2, <2>1 DEF ReadingOf
  <2> QED BY <1>3, <2>1, <2>2, <2>3
<1>7. CASE Code(t) /\ loc[t].bufIndex \in Bufs
  BY <1>7, CodeEffect, <1>1, <1>2, <1>3 DEF Code, ReadingOf
<1>8. CASE Write(t)
  <2>1. /\ Alone(t) /\ pc[t] = "write" /\ pc'[t] = "return"
        /\ loc'[t].finished = loc[t].finished
    BY <1>8, WriteEffect
  <2>2. UNCHANGED <<blocks, ReadyBlocks, mpc, numFinishedThreads, stopReading,
                    readProcessed, readEvent>>
    BY <1>8 DEF Write
  <2>3. ReadingOf(t, d, k)' BY <1>1, <1>2, <2>1 DEF ReadingOf
  <2> QED BY <1>3, <2>1, <2>2, <2>3
<1>9. CASE Post(t)
  <2>0. pc[t] = "post"
    BY <1>9 DEF Post
  <2>1. /\ Alone(t) /\ loc'[t] = loc[t]
        /\ pc'[t] = IF loc[t].isReady THEN "load"
                    ELSE Continue(loc[t].res, loc[t].finished)
    BY <1>9, <2>0, WindowBound, PostEffect
  <2>2. UNCHANGED <<blocks, ReadyBlocks, mpc, numFinishedThreads, stopReading,
                    readProcessed, readEvent>>
    BY <1>9 DEF Post
  <2>3. loc[t].res # "ok" => Err
    BY <2>0 DEF Content, ContentOf, WithBlock
  <2>4. pc'[t] \in {"load", "count", "readWait"}
    BY <2>1, PlacesFacts
  <2>5. /\ loc'[t].finished => Over'
        /\ pc'[t] = "count" => Over'
    <3>1. loc[t].finished => Over
      BY <1>2, <2>0 DEF ReadingOf
    <3>2. pc'[t] = "count" => loc[t].res # "ok" \/ loc[t].finished
      BY <2>1 DEF Continue
    <3> QED
      BY <1>1, <2>1, <2>3, <3>1, <3>2 DEF Over
  <2>6. pc'[t] = "load" => (blocks[Place(d)].finished => Over')
    <3>1. pc'[t] = "load" => loc[t].isReady
      BY <2>1, PlacesFacts
    <3>2. loc[t].isReady => (blocks[Place(d)].finished => Over)
      BY <1>2, <2>0 DEF ReadingOf
    <3> QED
      BY <1>1, <3>1, <3>2
  <2>7. ReadingOf(t, d, k)'
    BY <2>2, <2>4, <2>5, <2>6 DEF ReadingOf
  <2> QED
    BY <1>3, <2>1, <2>2, <2>7
<1>10. CASE Load(t)
  <2>1. /\ Alone(t) /\ pc[t] = "load" /\ pc'[t] = "write"
        /\ loc'[t].finished = blocks[loc[t].wi].finished
    BY <1>10, LoadEffect
  <2>2. UNCHANGED <<blocks, ReadyBlocks, mpc, numFinishedThreads, stopReading,
                    readProcessed, readEvent>>
    BY <1>10 DEF Load
  <2>3. loc[t].wi = Place(d) BY <2>1 DEF SlotsOK, IsWriter
  <2>4. blocks[Place(d)].finished => Over BY <1>2, <2>1 DEF ReadingOf
  <2>5. ReadingOf(t, d, k)' BY <1>1, <2>1, <2>3, <2>4 DEF ReadingOf
  <2> QED BY <1>3, <2>1, <2>2, <2>5
<1>11. CASE Compare(t)
  <2>1. Alone(t) /\ pc'[t] = "start" BY <1>11, CompareEffect
  <2>2. UNCHANGED <<blocks, ReadyBlocks, mpc, numFinishedThreads, stopReading,
                    readProcessed, readEvent>>
    BY <1>11 DEF Compare
  <2>3. ReadingOf(t, d, k)' BY <2>1 DEF ReadingOf
  <2> QED BY <1>3, <2>1, <2>2, <2>3
<1> QED BY <1>4, <1>5, <1>6, <1>7, <1>8, <1>9, <1>10, <1>11

(* The first thread to be counted has found the end, or an error. *)
LEMMA ReadingCount ==
  ASSUME TypeOK, NEW d \in Nat, NEW k \in Nat, Reading(d, k),
         NEW t \in Threads, Count(t), numFinishedThreads < NumThreads
  PROVE  Reading(d, k)'
<1>1. /\ Alone(t) /\ pc[t] = "count" /\ pc'[t] = "compare" BY CountEffect
<1>2. UNCHANGED <<blocks, ReadyBlocks, mpc, stopReading, readProcessed, readEvent,
                  progressRes>>
  BY DEF Count, tokenVars, csVars, mainVars
<1>3. Over' /\ (Err' <=> Err) BY <1>1, <1>2 DEF Reading, ReadingOf, Over, Err
<1>4. ASSUME NEW u \in Threads PROVE ReadingOf(u, d, k)'
  BY <1>1, <1>2, <1>3 DEF Reading, Alone, ReadingOf, HasToken, Began, ReadyWriter
<1> QED BY <1>2, <1>3, <1>4 DEF Reading, InCall

(* The slot says whether its block is the last one. *)
LEMMA ReadingStore ==
  ASSUME TypeOK, NEW d \in Nat, NEW k \in Nat, SlotsOK(d, k), Reading(d, k),
         NEW t \in Threads, Store(t)
  PROVE  Reading(d, k)'
<1>1. /\ Alone(t) /\ pc[t] = "store" /\ pc'[t] = "claim" /\ loc'[t] = loc[t]
      /\ \A s \in Slots : s # loc[t].bi => blocks'[s] = blocks[s]
  BY StoreEffect
<1>2. UNCHANGED <<ReadyBlocks, mpc, stopReading, readProcessed, readEvent,
                  progressRes, numFinishedThreads>>
  BY DEF Store, tokenVars, csVars, mainVars, finishVars
<1>3. /\ ~ReadyBlocks[loc[t].bi]
      /\ \A u \in Threads : ReadyWriter(u) => Place(d) # loc[t].bi
  BY <1>1 DEF SlotsOK, HasSlot, IsWriter, ReadyWriter
<1>4. (Over' <=> Over) /\ (Err' <=> Err) BY <1>2 DEF Over, Err
<1>5. ASSUME NEW u \in Threads PROVE ReadingOf(u, d, k)'
  BY <1>1, <1>4, <1>3, PlaceFacts, <1>2 DEF Reading, Alone, ReadingOf, HasToken, Began,
     ReadyWriter
<1>6. \A s \in Slots : ReadyBlocks'[s] /\ blocks'[s].finished => Over'
  BY <1>1, <1>2, <1>3, <1>4 DEF Reading
<1> QED BY <1>2, <1>4, <1>5, <1>6 DEF Reading, InCall

(* A thread that leaves its block ready leaves what it knows of the end. *)
LEMMA ReadingClaim ==
  ASSUME TypeOK, NEW d \in Nat, NEW k \in Nat, SlotsOK(d, k), Pool(d, k),
         Reading(d, k), Content(d, k), NEW t \in Threads, Claim(t)
  PROVE  Reading(d, k)'
<1>1. /\ Alone(t) /\ pc[t] = "claim"
      /\ \/ /\ ReadyBlocks' = ReadyBlocks
            /\ pc'[t] = "write" /\ loc'[t].finished = loc[t].finished
         \/ /\ \A s \in Slots : s # loc[t].bi => ReadyBlocks'[s] = ReadyBlocks[s]
            /\ pc'[t] = Continue(loc[t].res, loc[t].finished) /\ loc'[t] = loc[t]
  BY ClaimEffect
<1>2. UNCHANGED <<blocks, mpc, stopReading, readProcessed, readEvent,
                  progressRes, numFinishedThreads>>
  BY DEF Claim, tokenVars, mainVars, finishVars
<1>3. loc[t].finished => Over BY <1>1 DEF Reading, ReadingOf, Began
<1>4. (Over' <=> Over) /\ (Err' <=> Err) BY <1>2 DEF Over, Err
<1>5. blocks[loc[t].bi].finished = loc[t].finished
  <2>1. PICK m, n \in Nat, g \in [Nat -> Bufs], held \in Heldness : Users(d, held) BY DEF Pool
  <2>2. blocks[loc[t].bi] = [res |-> loc[t].res, bufIndex |-> loc[t].bufIndex,
                             finished |-> loc[t].finished]
    BY <1>1, <2>1 DEF Users, UserOf
  <2> QED BY <2>2
<1>6. loc[t].res # "ok" => Err BY <1>1 DEF Content, ContentOf, WithBlock, HasSlot
<1>7. ASSUME NEW u \in Threads PROVE ReadingOf(u, d, k)'
  BY <1>1, <1>3, <1>4, <1>6, <1>2 DEF Reading, Alone, ReadingOf, HasToken, Began, ReadyWriter,
     Continue, Over
<1>8. \A s \in Slots : ReadyBlocks'[s] /\ blocks'[s].finished => Over'
  BY <1>1, <1>2, <1>3, <1>4, <1>5 DEF Reading
<1> QED BY <1>2, <1>4, <1>7, <1>8 DEF Reading, InCall

(* The writer that goes on knows of the end what the next slot says. *)
LEMMA ReadingReturn ==
  ASSUME TypeOK, IInv, NEW d \in Nat, NEW k \in Nat, SlotsOK(d, k),
         Reading(d, k), NEW t \in Threads, Return(t)
  PROVE  Reading(d + 1, k)'
<1> DEFINE w == Place(d + 1)
<1>1. pc[t] = "return" BY DEF Return
<1>2. /\ loc[t].wi = w
      /\ \A u \in Threads : IsWriter(u) <=> u = t
  BY SlotsReturn
<1>3. /\ Alone(t) /\ pc'[t] = "post" /\ loc'[t].isReady = ReadyBlocks[w]
      /\ ~ReadyBlocks'[w] /\ loc'[t].finished = loc[t].finished
      /\ \A s \in Slots : s # w => ReadyBlocks'[s] = ReadyBlocks[s]
  BY <1>2, ReturnEffect
<1>4. UNCHANGED <<blocks, mpc, stopReading, readProcessed, readEvent,
                  progressRes, numFinishedThreads>>
  BY DEF Return, tokenVars, mainVars, finishVars
<1>5. (Over' <=> Over) /\ (Err' <=> Err) BY <1>4 DEF Over, Err
<1>6. w \in Slots BY PlaceFacts
<1>7. ASSUME NEW u \in Threads PROVE ReadingOf(u, d + 1, k)'
  BY <1>3, <1>1, <1>6, <1>4, <1>5, <1>2 DEF Reading, Alone, ReadingOf, Began, HasToken,
     ReadyWriter, IsWriter
<1>8. \A s \in Slots : ReadyBlocks'[s] /\ blocks'[s].finished => Over'
  BY <1>3, <1>4, <1>5 DEF Reading
<1> QED BY <1>4, <1>5, <1>7, <1>8 DEF Reading, InCall

(* Nothing has been read. *)
LEMMA ReadingFresh ==
  /\ \A t \in Threads : pc[t] \in {"none", "start"}
  /\ \A s \in Slots : ~ReadyBlocks[s]
  /\ ~readEvent /\ ~stopReading /\ readProcessed = 0 /\ numFinishedThreads = 0
  => Reading(0, 0)
  BY DEF Reading, ReadingOf, HasToken, Began, ReadyWriter

(* A call begins with nothing read. *)
LEMMA ReadingCallCode ==
  ASSUME SettledReuse, CallCode
  PROVE  Reading(0, 0)'
<1>1. (/\ \A t \in Threads : pc[t] \in {"none", "start"}
       /\ \A s \in Slots : ~ReadyBlocks[s]
       /\ ~readEvent /\ ~stopReading /\ readProcessed = 0 /\ numFinishedThreads = 0)'
  BY DEF CallCode, Settled, Event_Reset
<1> QED BY <1>1, ReadingFresh, PTL

(* The caller leaves the reading alone. *)
LEMMA ReadingMain ==
  ASSUME TypeOK, IInv, Counting, NEW d \in Nat, NEW k \in Nat, Reading(d, k),
         \/ CreateFirst \/ Go \/ WaitFinished \/ Combine \/ Destruct
         \/ FreeSignal \/ FreeJoin \/ FreeEnd
  PROVE  Reading(d, k)'
<1>1. (Over' <=> Over) /\ (Err' <=> Err) BY MainMoves DEF Over, Err
<1>2. ASSUME NEW u \in Threads PROVE ReadingOf(u, d, k)'
  BY <1>1, MainMoves DEF Reading, ReadingOf, HasToken, Began, ReadyWriter
<1>3. /\ mpc' \in {"create", "go"} => mpc \in {"create", "go"}
      /\ InCall' => InCall
      /\ readEvent' => readEvent \/ mpc = "go"
  <2>1. \/ mpc' = mpc
        \/ mpc = "create" /\ mpc' \in {"go", "idle"}
        \/ mpc = "go" /\ mpc' = "wait"
        \/ mpc = "wait" /\ mpc' = "combine"
        \/ mpc' \in {"idle", "free", "join", "destroyed"}
    <3>1. CASE FreeSignal BY <3>1, FreeSignalEffect
    <3>2. CASE CreateFirst BY <3>2 DEF CreateFirst
    <3>3. CASE Go \/ WaitFinished BY <3>3 DEF Go, WaitFinished
    <3>4. CASE Combine \/ Destruct \/ FreeJoin \/ FreeEnd
      BY <3>4 DEF Combine, Destruct, FreeJoin, FreeEnd
    <3> QED BY <3>1, <3>2, <3>3, <3>4
  <2>2. readEvent' = readEvent \/ readEvent' = FALSE \/ mpc = "go"
    BY DEF CreateFirst, Go, WaitFinished, Combine, Destruct, FreeSignal, FreeJoin, FreeEnd
  <2> QED BY <2>1, <2>2 DEF InCall
<1>4. mpc = "go" => readProcessed = k /\ k < NumInput BY Sets DEF Reading
<1> QED BY <1>1, <1>2, <1>3, <1>4, MainMoves DEF Reading

-----------------------------------------------------------------------------
(* The blocks are coded and written in the order in which they were read.  *)

(* A step that writes nothing, and changes the block of its thread only. *)
LEMMA ContentKept ==
  ASSUME NEW d \in Nat, NEW k \in Nat, Content(d, k), NEW t \in Threads, Alone(t),
         UNCHANGED <<blocks, ReadyBlocks, outBuf, written, writeRes>>,
         Err => Err', pc[t] # "return", pc'[t] # "return", ContentOf(t, d, k)'
  PROVE  Content(d, k)'
<1>1. \A u \in Threads : u # t => pc'[u] = pc[u] /\ loc'[u] = loc[u] BY DEF Alone
<1>2. \A j, r, b : Filled(j, r, b) => Filled(j, r, b)' BY DEF Filled
<1>3. ASSUME NEW u \in Threads, u # t PROVE ContentOf(u, d, k)'
  BY <1>1, <1>3, <1>2 DEF Content, ContentOf, HasSlot, WithBlock, ReadyWriter
<1>4. Position(d)' = Position(d) BY <1>1 DEF Position
<1>5. Wrote(Position(d))' BY <1>4 DEF Content, Wrote
<1>6. \A j \in d..k - 1 : ReadyBlocks'[Place(j)] =>
           Filled(j, blocks[Place(j)].res, blocks[Place(j)].bufIndex)'
  BY <1>2 DEF Content
<1>7. writeRes' # "ok" => Err' BY DEF Content
<1> QED BY <1>3, <1>5, <1>6, <1>7 DEF Content

(* The steps that write nothing and encode nothing. *)
LEMMA ContentThread ==
  ASSUME TypeOK, IInv, NEW d \in Nat, NEW k \in Nat, SlotsOK(d, k), Content(d, k),
         NEW t \in Threads,
         \/ ThreadStart(t) \/ ReadWait(t) \/ Read(t) \/ ReadErr(t) \/ Decide(t)
         \/ Release(t) \/ (Pop(t) /\ freeBlockHead \in Bufs) \/ Post(t) \/ Load(t)
         \/ (Count(t) /\ numFinishedThreads < NumThreads) \/ Compare(t)
  PROVE  Content(d, k)'
<1>1. Err => Err' BY ErrStays DEF Thread
<1>2. ContentOf(t, d, k) BY DEF Content
<1>3. ASSUME Alone(t), UNCHANGED <<blocks, ReadyBlocks, outBuf, written, writeRes>>,
             pc'[t] # "return", pc[t] # "return", ContentOf(t, d, k)'
      PROVE  Content(d, k)'
  BY <1>1, <1>3, ContentKept
<1>4. \A j, r, b : r # "ok" /\ Err => Filled(j, r, b)' BY <1>1 DEF Filled
<1> USE DEF HasSlot, WithBlock, ReadyWriter, outVars, csVars
<1>5. CASE ThreadStart(t)
  <2>1. /\ Alone(t) /\ pc[t] = "start" /\ pc'[t] \in {"dead", "readWait"}
        /\ UNCHANGED <<blocks, ReadyBlocks, outBuf, written, writeRes>>
    BY <1>5, ThreadStartEffect DEF ThreadStart
  <2>2. ContentOf(t, d, k)' BY <2>1 DEF ContentOf
  <2> QED BY <1>3, <2>1, <2>2
<1>6. CASE ReadWait(t)
  <2>1. /\ Alone(t) /\ pc[t] = "readWait" /\ pc'[t] \in {"count", "read"}
        /\ UNCHANGED <<blocks, ReadyBlocks, outBuf, written, writeRes>>
    BY <1>6, ReadWaitEffect DEF ReadWait
  <2>2. ContentOf(t, d, k)' BY <2>1 DEF ContentOf
  <2> QED BY <1>3, <2>1, <2>2
<1>7. CASE Read(t) BY <1>7, ReadEffect, <1>3 DEF Read, ContentOf
<1>8. CASE ReadErr(t) BY <1>8, ReadErrEffect, <1>3 DEF ReadErr, ContentOf
<1>9. CASE Decide(t)
  <2>1. /\ Alone(t) /\ pc[t] = "decide" /\ pc'[t] \in {"create", "release"}
        /\ loc'[t].res = IF loc[t].res = "ok" THEN progressRes ELSE loc[t].res
        /\ loc'[t].bi = loc[t].bi /\ loc'[t].block = loc[t].block
    BY <1>9, DecideEffect
  <2>2. UNCHANGED <<blocks, ReadyBlocks, outBuf, written, writeRes>> BY <1>9 DEF Decide
  <2>3. /\ loc'[t].res # "ok" => Err'
        /\ loc'[t].res = "ok" => loc[t].res = "ok"
    BY <1>2, <2>1, <1>1 DEF ContentOf, Err
  <2>4. ContentOf(t, d, k)' BY <1>2, <2>1, <2>3 DEF ContentOf
  <2> QED BY <1>3, <2>1, <2>2, <2>4
<1>10. CASE Release(t) BY <1>10, ReleaseEffect, <1>2, <1>1, <1>4, <1>3 DEF Release, ContentOf
<1>11. CASE Pop(t) /\ freeBlockHead \in Bufs
  <2>1. /\ Alone(t) /\ pc[t] = "pop" /\ pc'[t] = "code"
        /\ loc'[t].bi = loc[t].bi /\ loc'[t].res = loc[t].res
        /\ loc'[t].block = loc[t].block
    BY <1>11, PopEffect
  <2>2. UNCHANGED <<blocks, ReadyBlocks, outBuf, written, writeRes>> BY <1>11 DEF Pop
  <2>3. ContentOf(t, d, k)' BY <1>1, <1>2, <2>1 DEF ContentOf
  <2> QED BY <1>3, <2>1, <2>2, <2>3
<1>12. CASE Post(t)
  <2>0. pc[t] = "post"
    BY <1>12 DEF Post
  <2>1. /\ Alone(t) /\ loc'[t] = loc[t]
        /\ \/ loc[t].isReady /\ pc'[t] = "load"
           \/ pc'[t] \in {"count", "readWait"}
    BY <1>12, <2>0, WindowBound, PostEffect, PlacesFacts
  <2>2. UNCHANGED <<blocks, ReadyBlocks, outBuf, written, writeRes>>
    BY <1>12 DEF Post
  <2>3. /\ loc[t].res # "ok" => Err
        /\ loc[t].isReady => Filled(d, blocks[Place(d)].res, blocks[Place(d)].bufIndex)
    BY <1>2, <2>0 DEF ContentOf
  <2>4. loc[t].isReady => Filled(d, blocks[Place(d)].res, blocks[Place(d)].bufIndex)'
    BY <1>1, <2>2, <2>3 DEF Filled
  <2>5. ContentOf(t, d, k)'
    BY <1>1, <2>1, <2>3, <2>4 DEF ContentOf
  <2> QED
    BY <1>3, <2>0, <2>1, <2>2, <2>5
<1>13. CASE Load(t)
  <2> DEFINE b == blocks[loc[t].wi]
  <2>1. /\ Alone(t) /\ pc[t] = "load" /\ pc'[t] = "write"
        /\ loc'[t].res = (IF loc[t].res = "ok" THEN b.res ELSE loc[t].res)
        /\ loc'[t].bufIndex = b.bufIndex
    BY <1>13, LoadEffect
  <2>2. UNCHANGED <<blocks, ReadyBlocks, outBuf, written, writeRes>> BY <1>13 DEF Load
  <2>3. loc[t].wi = Place(d) BY <2>1 DEF SlotsOK, IsWriter
  <2>4. /\ loc[t].res # "ok" => Err
        /\ Filled(d, b.res, b.bufIndex)
    BY <1>2, <2>1, <2>3 DEF ContentOf
  <2>5. loc'[t].res # "ok" => Err' BY <1>1, <2>1, <2>4 DEF Filled
  <2>6. Filled(d, loc[t].res, loc[t].bufIndex)' BY <1>1, <2>1, <2>2, <2>4 DEF Filled
  <2>7. ContentOf(t, d, k)' BY <2>1, <2>5, <2>6 DEF ContentOf
  <2> QED BY <1>3, <2>1, <2>2, <2>7
<1>14. CASE Count(t) /\ numFinishedThreads < NumThreads
  <2>1. Alone(t) /\ pc[t] = "count" /\ pc'[t] = "compare" BY <1>14, CountEffect
  <2>2. UNCHANGED <<blocks, ReadyBlocks, outBuf, written, writeRes>> BY <1>14 DEF Count
  <2>3. ContentOf(t, d, k)' BY <2>1 DEF ContentOf
  <2> QED BY <1>3, <2>1, <2>2, <2>3
<1>15. CASE Compare(t)
  <2>1. Alone(t) /\ pc[t] = "compare" /\ pc'[t] = "start" BY <1>15, CompareEffect
  <2>2. UNCHANGED <<blocks, ReadyBlocks, outBuf, written, writeRes>> BY <1>15 DEF Compare
  <2>3. ContentOf(t, d, k)' BY <2>1 DEF ContentOf
  <2> QED BY <1>3, <2>1, <2>2, <2>3
<1> QED BY <1>5, <1>6, <1>7, <1>8, <1>9, <1>10, <1>11, <1>12, <1>13, <1>14, <1>15

(* The thread has read the block that gets the number k. *)
LEMMA ContentSemWait ==
  ASSUME TypeOK, NEW d \in Nat, NEW k \in Nat, SlotsOK(d, k), Reading(d, k),
         Content(d, k), NEW t \in Threads, SemWait(t)
  PROVE  Content(d, k + 1)'
<1>1. /\ Alone(t) /\ pc[t] = "semWait" /\ pc'[t] = "decide"
      /\ blocksSemaphore > 0 /\ loc'[t].bi = blockIndex
      /\ loc'[t].res = loc[t].res /\ loc'[t].block = loc[t].block
  BY SemWaitEffect
<1>2. UNCHANGED <<blocks, ReadyBlocks, outBuf, written, writeRes, progressRes>>
  BY DEF SemWait, csVars, outVars
<1>3. \A u \in Threads : u # t => pc'[u] = pc[u] /\ loc'[u] = loc[u] BY <1>1 DEF Alone
<1>4. /\ d <= k /\ k - d < NumBlocksMax /\ blockIndex = Place(k)
      /\ Place(k) \notin Window(d, k)
  BY <1>1, WindowBound, WindowGrows DEF SlotsOK
<1>5. \A j \in d..(k + 1) - 1 : j \in d..k - 1 \/ j = k OBVIOUS
<1>6. \A j \in d..k - 1 : Place(j) # Place(k) BY <1>4 DEF Window
<1>7. /\ \A j, r, b : Filled(j, r, b) => Filled(j, r, b)'
      /\ Err => Err'
  BY <1>2 DEF Filled, Err
<1>8. IF loc[t].res = "ok" THEN loc[t].block = k + 1 /\ k + 1 <= NumInput ELSE Err
  BY <1>1 DEF Reading, ReadingOf
<1>9. ContentOf(t, d, k + 1)'
  BY <1>1, <1>4, <1>5, <1>6, <1>7, <1>8 DEF ContentOf, HasSlot, WithBlock, ReadyWriter
<1>10. ASSUME NEW u \in Threads, u # t PROVE ContentOf(u, d, k + 1)'
  BY <1>3, <1>10, <1>4, <1>7, <1>5, <1>2 DEF Content, SlotsOK, ContentOf, Filled, Err, HasSlot,
     WithBlock, ReadyWriter
<1>11. Position(d)' = Position(d) BY <1>1, <1>3 DEF Position
<1>12. Wrote(Position(d))' BY <1>2, <1>7, <1>11 DEF Content, Wrote
<1>13. ASSUME NEW j \in d..(k + 1) - 1, ReadyBlocks'[Place(j)]
       PROVE  Filled(j, blocks[Place(j)].res, blocks[Place(j)].bufIndex)'
  BY PlaceFacts, <1>4, <1>2, <1>5, <1>13 DEF SlotsOK, Content, Filled, Err
<1>14. writeRes' # "ok" => Err' BY <1>2, <1>7 DEF Content
<1> QED BY <1>9, <1>10, <1>12, <1>13, <1>14 DEF Content

(* A thread that cannot be created is an error. *)
LEMMA ContentCreateNext ==
  ASSUME TypeOK, Counting, Quiet, NEW d \in Nat, NEW k \in Nat,
         Content(d, k), NEW t \in Threads, CreateNext(t)
  PROVE  Content(d, k)'
<1> DEFINE n == numStartedThreads
<1>1. pc[t] = "create" /\ n < NumThreads /\ InThreadFunc2(t)
  BY DEF CreateNext, Counting, InThreadFunc2
<1>2. n \in Threads BY <1>1, CreateNextEffect
<1>3. UNCHANGED <<blocks, ReadyBlocks, outBuf, written, writeRes>>
  BY DEF CreateNext, csVars, outVars
<1>4. pc[n] \in {"none", "start"} /\ n # t BY <1>1, <1>2, Sets DEF Quiet, InCall, Counting
<1>5. Err => Err' BY ErrStays DEF Thread
<1>6. ContentOf(t, d, k) BY DEF Content
<1>7. CASE /\ \A u \in Threads : u # n /\ u # t => pc'[u] = pc[u]
           /\ pc'[t] = IF t = n THEN Started(n) ELSE "release"
           /\ pc'[n] = Started(n)
           /\ loc' = loc /\ progressRes' = progressRes
  <2>1. pc'[n] \in {"none", "start"} /\ pc'[t] = "release" BY <1>4, <1>7 DEF Started
  <2>2. ASSUME NEW u \in Threads PROVE ContentOf(u, d, k)'
    BY <2>1, <1>1, <1>5, <1>7, <1>3 DEF Content, ContentOf, HasSlot, WithBlock, ReadyWriter,
       Filled, Err
  <2>3. \A u \in Threads : pc'[u] = "return" <=> pc[u] = "return" BY <1>1, <1>4, <1>7, <2>1
  <2>4. Position(d)' = Position(d) BY <2>3 DEF Position
  <2>5. Wrote(Position(d))' BY <1>3, <1>5, <2>4 DEF Content, Wrote
  <2>6. ASSUME NEW j \in d..k - 1, ReadyBlocks'[Place(j)]
        PROVE  Filled(j, blocks[Place(j)].res, blocks[Place(j)].bufIndex)'
    BY <1>3, <2>6, <1>7 DEF Content, Filled, Err
  <2>7. writeRes' # "ok" => Err' BY <1>3, <1>5 DEF Content
  <2> QED BY <2>2, <2>5, <2>6, <2>7 DEF Content
<1>8. CASE /\ Alone(t) /\ Err' /\ pc'[t] = "release"
           /\ loc'[t].res # "ok" /\ loc'[t].bi = loc[t].bi
  <2>1. ContentOf(t, d, k)'
    BY <1>8 DEF ContentOf, HasSlot, WithBlock, ReadyWriter
  <2> QED
    BY <1>1, <1>3, <1>5, <1>8, <2>1, ContentKept
<1> QED BY <1>1, <1>7, <1>8, CreateNextEffect

(* No other block has its data in the buffer a thread codes into. *)
LEMMA OtherBuffers ==
  ASSUME TypeOK, NEW d \in Nat, NEW k \in Nat, SlotsOK(d, k), Pool(d, k),
         NEW t \in Threads, pc[t] = "code"
  PROVE  LET b == loc[t].bufIndex IN
         /\ b \in Bufs
         /\ \A u \in Threads : HasSlot(u) /\ u # t => loc[u].bufIndex # b
         /\ \A s \in Slots : ReadyBlocks[s] => blocks[s].bufIndex # b
         /\ \A u \in Threads : pc[u] = "write" => loc[u].bufIndex # b
         /\ \A u \in Threads : ReadyWriter(u) => blocks[Place(d)].bufIndex # b
<1> DEFINE b == loc[t].bufIndex
           s == loc[t].bi
<1>1. PICK m, n \in Nat, g \in [Nat -> Bufs], held \in Heldness :
        FreeList(m, n, g) /\ Shared(d, k, m, n, g, held) /\ Users(d, held)
  BY DEF Pool
<1>2. HasSlot(t) /\ s \in Slots /\ held[s] = b /\ b \in Bufs
  BY <1>1, LocalsTyped DEF Users, UserOf, HasSlot
<1>3. \A r \in Slots : r # s => held[r] # b
  <2>1. held[s] # None BY <1>2, Sets
  <2> QED BY <1>1, <1>2, <2>1 DEF Shared
<1>4. /\ ~ReadyBlocks[s]
      /\ \A u \in Threads : HasSlot(u) /\ u # t => loc[u].bi # s
      /\ \A u \in Threads : IsWriter(u) => Place(d) # s
  BY <1>2 DEF SlotsOK
<1>5. ASSUME NEW u \in Threads, HasSlot(u), u # t PROVE loc[u].bufIndex # b
  <2>1. loc[u].bufIndex = held[loc[u].bi] BY <1>1, <1>5 DEF Users, UserOf
  <2> QED BY <1>3, <1>4, <1>5, <2>1, LocalsTyped
<1>6. \A r \in Slots : ReadyBlocks[r] => blocks[r].bufIndex # b BY <1>1, <1>3, <1>4 DEF Users
<1>7. ASSUME NEW u \in Threads, pc[u] = "write" PROVE loc[u].bufIndex # b
  <2>1. loc[u].bufIndex = held[Place(d)] /\ IsWriter(u)
    BY <1>1, <1>7 DEF Users, UserOf, IsWriter
  <2> QED BY <1>3, <1>4, <2>1, PlaceFacts
<1>8. ASSUME NEW u \in Threads, ReadyWriter(u) PROVE blocks[Place(d)].bufIndex # b
  <2>1. blocks[Place(d)].bufIndex = held[Place(d)] /\ IsWriter(u)
    BY <1>1, <1>8 DEF Users, UserOf, IsWriter, ReadyWriter
  <2> QED BY <1>3, <1>4, <2>1, PlaceFacts
<1> QED BY <1>2, <1>5, <1>6, <1>7, <1>8

(* Block j is encoded into a buffer that no other slot has. *)
LEMMA ContentCode ==
  ASSUME TypeOK, IInv, NEW d \in Nat, NEW k \in Nat, SlotsOK(d, k), Pool(d, k),
         Content(d, k), NEW t \in Threads, Code(t)
  PROVE  Content(d, k)'
<1> DEFINE b == loc[t].bufIndex
<1>1. pc[t] = "code" BY DEF Code
<1>2. /\ b \in Bufs
      /\ \A u \in Threads : HasSlot(u) /\ u # t => loc[u].bufIndex # b
      /\ \A s \in Slots : ReadyBlocks[s] => blocks[s].bufIndex # b
      /\ \A u \in Threads : pc[u] = "write" => loc[u].bufIndex # b
      /\ \A u \in Threads : ReadyWriter(u) => blocks[Place(d)].bufIndex # b
  BY <1>1, OtherBuffers
<1>3. /\ Alone(t) /\ pc'[t] = "store"
      /\ \A c \in Bufs : c # b => outBuf'[c] = outBuf[c]
      /\ \/ /\ outBuf'[b] = loc[t].block /\ loc'[t] = loc[t]
            /\ progressRes' = progressRes
         \/ /\ Err' /\ loc'[t].res # "ok"
      /\ loc'[t].bi = loc[t].bi /\ loc'[t].bufIndex = b
  BY <1>2, CodeEffect
<1>4. UNCHANGED <<blocks, ReadyBlocks, written, writeRes>> BY DEF Code, csVars
<1>5. Err => Err' BY ErrStays DEF Thread
<1>6. \A u \in Threads : u # t => pc'[u] = pc[u] /\ loc'[u] = loc[u] BY <1>3 DEF Alone
<1>7. \A j, r, c : c # b /\ Filled(j, r, c) => Filled(j, r, c)' BY <1>3, <1>5 DEF Filled
<1>8. ContentOf(t, d, k)'
  BY <1>1, BuffersTaken, <1>2, <1>3 DEF Content, HasSlot, ContentOf, Filled, WithBlock,
     ReadyWriter
<1>9. ASSUME NEW u \in Threads, u # t PROVE ContentOf(u, d, k)'
  BY <1>6, <1>9, <1>2, <1>4, <1>5, <1>7 DEF Content, ContentOf, HasSlot, WithBlock, ReadyWriter
<1>10. Position(d)' = Position(d) BY <1>1, <1>3, <1>6 DEF Position
<1>11. Wrote(Position(d))' BY <1>4, <1>5, <1>10 DEF Content, Wrote
<1>12. ASSUME NEW j \in d..k - 1, ReadyBlocks'[Place(j)]
       PROVE  Filled(j, blocks[Place(j)].res, blocks[Place(j)].bufIndex)'
  BY PlaceFacts, <1>2, <1>4, <1>12, <1>7 DEF Content
<1>13. writeRes' # "ok" => Err' BY <1>4, <1>5 DEF Content
<1> QED BY <1>8, <1>9, <1>11, <1>12, <1>13 DEF Content

(* The slot of the thread says what the thread has. *)
LEMMA ContentStore ==
  ASSUME TypeOK, NEW d \in Nat, NEW k \in Nat, SlotsOK(d, k),
         Content(d, k), NEW t \in Threads, Store(t)
  PROVE  Content(d, k)'
<1>1. /\ Alone(t) /\ pc[t] = "store" /\ pc'[t] = "claim" /\ loc'[t] = loc[t]
      /\ \A s \in Slots : s # loc[t].bi => blocks'[s] = blocks[s]
  BY StoreEffect
<1>2. UNCHANGED <<ReadyBlocks, outBuf, written, writeRes, progressRes>>
  BY DEF Store, csVars, outVars
<1>3. /\ ~ReadyBlocks[loc[t].bi]
      /\ \A u \in Threads : ReadyWriter(u) => Place(d) # loc[t].bi
  BY <1>1 DEF SlotsOK, HasSlot, IsWriter, ReadyWriter
<1>4. /\ \A j, r, c : Filled(j, r, c) => Filled(j, r, c)'
      /\ Err => Err'
  BY <1>2 DEF Filled, Err
<1>5. ASSUME NEW u \in Threads PROVE ContentOf(u, d, k)'
  BY <1>1, <1>4, <1>3, PlaceFacts DEF Content, ContentOf, HasSlot, WithBlock, ReadyWriter, Alone
<1>6. Position(d)' = Position(d) BY <1>1 DEF Position, Alone
<1>7. Wrote(Position(d))' BY <1>2, <1>4, <1>6 DEF Content, Wrote
<1>8. ASSUME NEW j \in d..k - 1, ReadyBlocks'[Place(j)]
      PROVE  Filled(j, blocks[Place(j)].res, blocks[Place(j)].bufIndex)'
  BY PlaceFacts, <1>2, <1>8, <1>1, <1>3, <1>4 DEF Content
<1>9. writeRes' # "ok" => Err' BY <1>2, <1>4 DEF Content
<1> QED BY <1>5, <1>7, <1>8, <1>9 DEF Content

(* The thread whose place is writeIndex has block d. *)
LEMMA ContentClaim ==
  ASSUME TypeOK, NEW d \in Nat, NEW k \in Nat, SlotsOK(d, k), Pool(d, k),
         Content(d, k), NEW t \in Threads, Claim(t)
  PROVE  Content(d, k)'
<1>1. /\ Alone(t) /\ pc[t] = "claim"
      /\ \/ /\ writeIndex = loc[t].bi /\ ReadyBlocks' = ReadyBlocks
            /\ pc'[t] = "write"
            /\ loc'[t].res = IF writeRes # "ok" THEN writeRes ELSE loc[t].res
            /\ loc'[t].bufIndex = loc[t].bufIndex
         \/ /\ \A s \in Slots : s # loc[t].bi => ReadyBlocks'[s] = ReadyBlocks[s]
            /\ pc'[t] = Continue(loc[t].res, loc[t].finished)
  BY ClaimEffect
<1>2. UNCHANGED <<blocks, outBuf, written, writeRes, progressRes>> BY DEF Claim, outVars
<1>3. /\ \A j, r, c : Filled(j, r, c) <=> Filled(j, r, c)'
      /\ Err <=> Err'
  BY <1>2 DEF Filled, Err
<1>4. \A u \in Threads : u # t => pc'[u] = pc[u] /\ loc'[u] = loc[u] BY <1>1 DEF Alone
<1>5. /\ loc[t].res # "ok" => Err
      /\ \A j \in d..k - 1 : loc[t].bi = Place(j) =>
            Filled(j, loc[t].res, loc[t].bufIndex)
  BY <1>1 DEF Content, HasSlot, ContentOf, WithBlock
<1>6. ASSUME NEW u \in Threads, u # t PROVE ContentOf(u, d, k)'
  BY <1>4, <1>6, <1>2, <1>3 DEF Content, ContentOf, HasSlot, WithBlock, ReadyWriter
<1>7. Position(d)' = Position(d) BY <1>1, <1>4 DEF Continue, Position
<1>8. Wrote(Position(d))' BY <1>2, <1>3, <1>7 DEF Content, Wrote
<1>9. writeRes' # "ok" => Err' BY <1>2, <1>3 DEF Content
<1>10. CASE /\ writeIndex = loc[t].bi /\ ReadyBlocks' = ReadyBlocks
            /\ pc'[t] = "write"
            /\ loc'[t].res = IF writeRes # "ok" THEN writeRes ELSE loc[t].res
            /\ loc'[t].bufIndex = loc[t].bufIndex
  <2>1. loc[t].bi = Place(d) /\ d \in d..k - 1
    <3>1. loc[t].bi \in Window(d, k) /\ loc[t].bi # None
      BY <1>1, LocalsTyped, Sets DEF SlotsOK, HasSlot
    <3>2. PICK j \in d..k - 1 : loc[t].bi = Place(j)
      BY <3>1 DEF Window
    <3>3. writeIndex = Place(d)
      BY <1>10, <3>1 DEF SlotsOK
    <3> QED
      BY <1>10, <3>2, <3>3
  <2>2. Filled(d, loc[t].res, loc[t].bufIndex)
    BY <1>5, <2>1
  <2>3. Filled(d, loc[t].res, loc[t].bufIndex)' /\ (loc'[t].res # "ok" => Err')
    <3>1. CASE writeRes # "ok"
      <4>1. Err' /\ loc'[t].res # "ok"
        BY <1>3, <1>10, <3>1 DEF Content
      <4> QED
        BY <4>1 DEF Filled
    <3>2. CASE writeRes = "ok"
      BY <1>3, <1>5, <1>10, <2>2, <3>2 DEF Filled
    <3> QED
      BY <3>1, <3>2
  <2>4. ContentOf(t, d, k)'
    BY <1>10, <2>3 DEF ContentOf, HasSlot, WithBlock, ReadyWriter
  <2>5. ASSUME NEW j \in d..k - 1, ReadyBlocks'[Place(j)]
        PROVE  Filled(j, blocks[Place(j)].res, blocks[Place(j)].bufIndex)'
    BY <1>2, <1>3, <1>10, <2>5 DEF Content
  <2> QED
    BY <1>6, <1>8, <1>9, <2>4, <2>5 DEF Content
<1>11. CASE /\ \A s \in Slots : s # loc[t].bi => ReadyBlocks'[s] = ReadyBlocks[s]
            /\ pc'[t] = Continue(loc[t].res, loc[t].finished)
  <2>1. ContentOf(t, d, k)' BY <1>11 DEF Continue, ContentOf, HasSlot, WithBlock, ReadyWriter
  <2>2. /\ blocks[loc[t].bi].res = loc[t].res
        /\ blocks[loc[t].bi].bufIndex = loc[t].bufIndex
    <3>1. PICK m, n \in Nat, g \in [Nat -> Bufs], held \in Heldness : Users(d, held)
      BY DEF Pool
    <3>2. blocks[loc[t].bi] = [res |-> loc[t].res, bufIndex |-> loc[t].bufIndex,
                               finished |-> loc[t].finished]
      BY <1>1, <3>1 DEF Users, UserOf
    <3> QED BY <3>2
  <2>3. ASSUME NEW j \in d..k - 1, ReadyBlocks'[Place(j)]
        PROVE  Filled(j, blocks[Place(j)].res, blocks[Place(j)].bufIndex)'
    BY PlaceFacts, <1>5, <2>2, <1>11, <2>3, <1>2, <1>3 DEF Content
  <2> QED BY <1>6, <1>8, <1>9, <2>1, <2>3 DEF Content
<1> QED BY <1>1, <1>10, <1>11

(* After blocks 0..d - 1 comes block d; if it is missing there was an error. *)
LEMMA ContentWrite ==
  ASSUME TypeOK, IInv, NEW d \in Nat, NEW k \in Nat,
         Content(d, k), NEW t \in Threads, Write(t)
  PROVE  Content(d, k)'
<1>1. /\ Alone(t) /\ pc[t] = "write" /\ pc'[t] = "return"
      /\ \/ /\ ~MustWrite(t) /\ written' = written /\ loc'[t].res = loc[t].res
         \/ /\ MustWrite(t) /\ written' = Append(written, outBuf[loc[t].bufIndex])
            /\ loc'[t].res = loc[t].res
         \/ /\ Err' /\ written' = written
  BY WriteEffect
<1>2. UNCHANGED <<blocks, ReadyBlocks, outBuf>> BY DEF Write, csVars
<1>3. Err => Err' BY ErrStays DEF Thread
<1>4. writeRes' # "ok" => Err' BY <1>3, ResultsFacts DEF Write, SetError, Err, Content
<1>5. \A j, r, c : Filled(j, r, c) => Filled(j, r, c)' BY <1>2, <1>3 DEF Filled
<1>6. ContentOf(t, d, k) BY DEF Content
<1>7. /\ loc[t].res # "ok" => Err
      /\ Filled(d, loc[t].res, loc[t].bufIndex)
  BY <1>1, <1>6 DEF ContentOf, WithBlock
<1>8. ContentOf(t, d, k)' BY <1>1, <1>3, <1>7 DEF ContentOf, HasSlot, WithBlock, ReadyWriter
<1>9. ASSUME NEW u \in Threads, u # t PROVE ContentOf(u, d, k)'
  BY <1>1, <1>9, <1>2, <1>3, <1>5 DEF Content, Alone, ContentOf, HasSlot, WithBlock, ReadyWriter
<1>10. Position(d) = d /\ Position(d)' = d + 1 BY <1>1 DEF IInv, OneWriter, IsWriter, Position
<1>11. Wrote(d + 1)'
  <2>1. Wrote(d) /\ written \in Seq(Nat) BY <1>10 DEF Content, TypeOK
  <2>2. /\ Len(written) \in Nat
        /\ \A i \in 1..Len(written) : written[i] \in Nat
    BY <2>1
  <2>3. CASE written' = written /\ Err' BY <2>1, <2>2, <2>3 DEF Wrote
  <2>4. CASE MustWrite(t) /\ written' = Append(written, outBuf[loc[t].bufIndex])
    <3>1. outBuf[loc[t].bufIndex] = d + 1
      BY <1>7, <2>4 DEF Filled, MustWrite
    <3>2. /\ Len(written') = Len(written) + 1
          /\ \A i \in 1..Len(written) : written'[i] = written[i]
          /\ written'[Len(written) + 1] = d + 1
      BY <2>1, <2>4, <3>1
    <3>3. \A i \in 1..Len(written') : written'[i] <= d + 1
      BY <2>1, <2>2, <3>2, SMTT(30) DEF Wrote
    <3>4. ~Err' => Len(written') = d + 1 /\ \A i \in 1..d + 1 : written'[i] = i
      <4> SUFFICES ASSUME ~Err'
                   PROVE  Len(written') = d + 1 /\ \A i \in 1..d + 1 : written'[i] = i
        OBVIOUS
      <4>1. Len(written) = d /\ \A i \in 1..d : written[i] = i
        BY <1>3, <2>1 DEF Wrote
      <4> QED
        BY <3>2, <4>1
    <3> QED
      BY <3>3, <3>4 DEF Wrote
  <2>5. ~MustWrite(t) => Err' BY <1>3, <1>7, Sets DEF MustWrite, Filled
  <2> QED BY <1>1, <2>3, <2>4, <2>5
<1>12. \A j \in d..k - 1 : ReadyBlocks'[Place(j)] =>
           Filled(j, blocks[Place(j)].res, blocks[Place(j)].bufIndex)'
  BY <1>2, <1>5 DEF Content
<1>13. Wrote(Position(d))' BY <1>10, <1>11 DEF Wrote
<1> QED BY <1>4, <1>8, <1>9, <1>12, <1>13 DEF Content

(* The slot of block d + 1 is the one the writer looks at. *)
LEMMA ContentReturn ==
  ASSUME TypeOK, IInv, NEW d \in Nat, NEW k \in Nat, SlotsOK(d, k),
         Content(d, k), NEW t \in Threads, Return(t)
  PROVE  Content(d + 1, k)'
<1> DEFINE w == Place(d + 1)
<1>1. pc[t] = "return" BY DEF Return
<1>2. /\ loc[t].wi = w /\ d < k
      /\ loc'[t].isReady => d + 1 < k
      /\ \A u \in Threads : IsWriter(u) <=> u = t
  BY SlotsReturn
<1>3. /\ Alone(t) /\ pc'[t] = "post" /\ loc'[t].isReady = ReadyBlocks[w]
      /\ ~ReadyBlocks'[w] /\ loc'[t].res = loc[t].res
      /\ \A s \in Slots : s # w => ReadyBlocks'[s] = ReadyBlocks[s]
  BY <1>2, ReturnEffect
<1>4. UNCHANGED <<blocks, outBuf, written, writeRes, progressRes>> BY DEF Return, outVars
<1>5. /\ \A j, r, c : Filled(j, r, c) <=> Filled(j, r, c)'
      /\ Err <=> Err'
  BY <1>4 DEF Filled, Err
<1>6. ContentOf(t, d + 1, k)'
  BY <1>1, <1>2, <1>3, <1>4, <1>5 DEF Content, ContentOf, WithBlock, HasSlot, ReadyWriter
<1>7. ASSUME NEW u \in Threads, u # t PROVE ContentOf(u, d + 1, k)'
  BY <1>3, <1>7, <1>2, <1>4, <1>5 DEF Content, Alone, IsWriter, ReadyWriter, ContentOf, HasSlot,
     WithBlock
<1>8. Position(d) = d + 1 /\ Position(d + 1)' = d + 1
  BY <1>2, <1>3, <1>1 DEF Alone, IsWriter, Position
<1>9. Wrote(Position(d + 1))' BY <1>8, <1>4, <1>5 DEF Content, Wrote
<1>10. ASSUME NEW j \in d + 1..k - 1, ReadyBlocks'[Place(j)]
       PROVE  Filled(j, blocks[Place(j)].res, blocks[Place(j)].bufIndex)'
  BY PlaceFacts, <1>3, <1>10, <1>4, <1>5 DEF Content
<1>11. writeRes' # "ok" => Err' BY <1>4, <1>5 DEF Content
<1> QED BY <1>6, <1>7, <1>9, <1>10, <1>11 DEF Content

(* Nothing has been written. *)
LEMMA ContentFresh ==
  /\ \A t \in Threads : pc[t] \in {"none", "start"}
  /\ \A s \in Slots : ~ReadyBlocks[s]
  /\ writeRes = "ok" /\ written = <<>>
  => Content(0, 0)
  BY DEF Content, ContentOf, HasSlot, WithBlock, ReadyWriter, Position, Wrote

(* A call begins with no output. *)
LEMMA ContentCallCode ==
  ASSUME SettledReuse, CallCode
  PROVE  Content(0, 0)'
<1>1. (/\ \A t \in Threads : pc[t] \in {"none", "start"}
       /\ \A s \in Slots : ~ReadyBlocks[s]
       /\ writeRes = "ok" /\ written = <<>>)'
  BY DEF CallCode, Settled
<1> QED BY <1>1, ContentFresh, PTL

(* The caller leaves blocks and output alone. *)
LEMMA ContentMain ==
  ASSUME TypeOK, Counting, NEW d \in Nat, NEW k \in Nat, Content(d, k),
         \/ CreateFirst \/ Go \/ WaitFinished \/ Combine \/ Destruct
         \/ FreeSignal \/ FreeJoin \/ FreeEnd
  PROVE  Content(d, k)'
<1>1. UNCHANGED <<blocks, ReadyBlocks, outBuf, written, writeRes, progressRes, loc>>
  BY MainMoves DEF outVars
<1>2. /\ \A j, r, c : Filled(j, r, c) <=> Filled(j, r, c)'
      /\ Err <=> Err'
  BY <1>1 DEF Filled, Err
<1>3. \A u \in Threads :
         \/ pc'[u] = pc[u]
         \/ pc'[u] \in {"none", "start"} /\ pc[u] \in {"none", "start", "dead"}
  BY MainMoves
<1>4. ASSUME NEW u \in Threads PROVE ContentOf(u, d, k)'
  BY <1>1, <1>2, <1>3 DEF Content, ContentOf, HasSlot, WithBlock, ReadyWriter
<1>5. Position(d)' = Position(d) BY <1>3 DEF Position
<1>6. Wrote(Position(d))' BY <1>1, <1>2, <1>5 DEF Content, Wrote
<1>7. \A j \in d..k - 1 : ReadyBlocks'[Place(j)] =>
           Filled(j, blocks[Place(j)].res, blocks[Place(j)].bufIndex)'
  BY <1>1, <1>2 DEF Content
<1>8. writeRes' # "ok" => Err' BY <1>1, <1>2 DEF Content
<1> QED BY <1>4, <1>6, <1>7, <1>8 DEF Content

-----------------------------------------------------------------------------
(* All of it together.                                                     *)

(* The steps within ThreadFunc2 keep types and counts. *)
LEMMA FleetThread ==
  ASSUME TypeOK, Counting, Quiet, NEW t \in Threads,
         \/ ReadWait(t) \/ Read(t) \/ ReadErr(t) \/ SemWait(t) \/ Decide(t)
         \/ Release(t) \/ (Pop(t) /\ freeBlockHead \in Bufs)
         \/ (Code(t) /\ loc[t].bufIndex \in Bufs) \/ Store(t) \/ Claim(t) \/ Write(t)
         \/ Return(t) \/ (Post(t) /\ blocksSemaphore < NumBlocksMax) \/ Load(t)
  PROVE  TypeOK' /\ Counting' /\ Quiet'
<1>1. UNCHANGED <<created, stop, startEvent, numStartedThreads,
                  numFinishedThreads, finishedEvent, mpc, mi>>
  BY DEF ReadWait, Read, ReadErr, SemWait, Decide, Release, Pop, Code, Store, Claim, Write,
     Return, Post, Load, threadVars, tokenVars, finishVars, mainVars
<1>2. ASSUME TypeOK', Alone(t), InThreadFunc2(t), InThreadFunc2(t)',
             pc'[t] = "create" => numStartedThreads < NumThreads
      PROVE  TypeOK' /\ Counting' /\ Quiet'
  BY <1>1, <1>2, FleetKept
<1> USE DEF InThreadFunc2
<1>3. CASE ReadWait(t) BY <1>2, <1>3, ReadWaitEffect
<1>4. CASE Read(t) BY <1>2, <1>4, ReadEffect
<1>5. CASE ReadErr(t) BY <1>2, <1>5, ReadErrEffect
<1>6. CASE SemWait(t) BY <1>2, <1>6, SemWaitEffect
<1>7. CASE Decide(t)
  <2>1. pc'[t] = "create" => WantsThread BY <1>7 DEF Decide, Goto, TypeOK
  <2> QED BY <1>2, <1>7, <2>1, DecideEffect DEF WantsThread
<1>8. CASE Release(t) BY <1>2, <1>8, ReleaseEffect
<1>9. CASE Pop(t) /\ freeBlockHead \in Bufs BY <1>2, <1>9, PopEffect
<1>10. CASE Code(t) /\ loc[t].bufIndex \in Bufs BY <1>2, <1>10, CodeEffect
<1>11. CASE Store(t) BY <1>2, <1>11, StoreEffect
<1>12. CASE Claim(t) BY <1>2, <1>12, ClaimEffect DEF Continue
<1>13. CASE Write(t) BY <1>2, <1>13, WriteEffect
<1>14. CASE Return(t) BY <1>2, <1>14, ReturnEffect
<1>15. CASE Post(t) /\ blocksSemaphore < NumBlocksMax BY <1>2, <1>15, PostEffect DEF Continue
<1>16. CASE Load(t) BY <1>2, <1>16, LoadEffect
<1> QED BY <1>3, <1>4, <1>5, <1>6, <1>7, <1>8, <1>9, <1>10, <1>11, <1>12, <1>13, <1>14,
<1>15, <1>16

(* The thread that is about to count itself is not yet counted. *)
LEMMA CountHasRoom ==
  ASSUME TypeOK, Counting, Quiet, NEW t \in Threads, Count(t)
  PROVE  numFinishedThreads < NumThreads
<1>1. pc[t] = "count" /\ InThreadFunc2(t) BY DEF Count, InThreadFunc2
<1>2. InCall BY <1>1 DEF Quiet, InCall, TypeOK, MainPlaces
<1>3. t \notin Counted BY <1>1 DEF Counted
<1> QED BY <1>2, <1>3, CountedFacts DEF Counting

(* Every step of a thread: d or k goes on by one, or both stay. *)
LEMMA FlowThread ==
  ASSUME SettledReuse, NEW d \in Nat, NEW k \in Nat, Flow(d, k),
         NEW t \in Threads, Thread(t)
  PROVE  \E e, l \in Nat : Flow(e, l)'
<1>1. /\ TypeOK /\ IInv /\ Counting /\ Quiet
      /\ SlotsOK(d, k) /\ Pool(d, k) /\ Reading(d, k) /\ Content(d, k)
  BY DEF Flow
<1>2. IInv'
  <2>1. Next BY DEF Next
  <2> QED BY <1>1, <2>1, StepIInv
<1>3. ASSUME TypeOK', Counting', Quiet', SlotsOK(d, k)', Pool(d, k)',
             Reading(d, k)', Content(d, k)'
      PROVE  \E e, l \in Nat : Flow(e, l)'
  <2>1. Flow(d, k)' BY <1>2, <1>3 DEF Flow
  <2> QED BY <2>1
<1>4. CASE ThreadStart(t)
  BY <1>1, <1>4, FleetThreadStart, ThreadStartEffect, <1>3, SlotsThread, PoolThread,
     ReadingThread, ContentThread
<1>5. CASE ReadWait(t)
  BY <1>1, <1>5, FleetThread, <1>3, SlotsThread, PoolThread, ReadingThread, ContentThread
<1>6. CASE Read(t)
  BY <1>1, <1>6, FleetThread, <1>3, SlotsThread, PoolThread, ReadingRead, ContentThread
<1>7. CASE ReadErr(t)
  BY <1>1, <1>7, FleetThread, <1>3, SlotsThread, PoolThread, ReadingReadErr, ContentThread
<1>8. CASE SemWait(t)
  BY <1>1, <1>8, FleetThread, SlotsSemWait, PoolSemWait, ReadingSemWait, ContentSemWait, <1>2
     DEF Flow
<1>9. CASE Decide(t)
  BY <1>1, <1>9, FleetThread, <1>3, SlotsThread, PoolThread, ReadingDecide, ContentThread
<1>10. CASE CreateNext(t)
  BY <1>1, <1>10, FleetCreateNext, CreateNextEffect, <1>3, SlotsCreateNext, PoolCreateNext,
     ReadingCreateNext, ContentCreateNext DEF CreateNext, Counting
<1>11. CASE Release(t)
  BY <1>1, <1>11, FleetThread, <1>3, SlotsThread, PoolThread, ReadingRelease, ContentThread
<1>12. CASE Pop(t)
  <2>1. freeBlockHead \in Bufs BY <1>1, <1>12, BuffersTaken DEF Pop
  <2>2. Counting' /\ Quiet' /\ TypeOK' BY <1>1, <1>12, <2>1, FleetThread
  <2> QED BY <1>1, <1>3, <1>12, <2>1, <2>2, SlotsThread, PoolPop, ReadingThread, ContentThread
<1>13. CASE Code(t)
  BY <1>1, <1>13, BuffersTaken, FleetThread, <1>3, SlotsThread, PoolThread, ReadingThread,
     ContentCode DEF Code
<1>14. CASE Store(t)
  BY <1>1, <1>14, FleetThread, <1>3, SlotsThread, PoolStore, ReadingStore, ContentStore
<1>15. CASE Claim(t)
  BY <1>1, <1>15, FleetThread, <1>3, SlotsClaim, PoolClaim, ReadingClaim, ContentClaim
<1>16. CASE Write(t)
  BY <1>1, <1>16, FleetThread, <1>3, SlotsWrite, PoolThread, ReadingThread, ContentWrite
<1>17. CASE Return(t)
  BY <1>1, <1>17, FleetThread, SlotsReturn, PoolReturn, ReadingReturn, ContentReturn, <1>2 DEF
     Flow
<1>18. CASE Post(t)
  BY <1>1, <1>18, WindowBound, FleetThread, <1>3, SlotsPost, PoolThread, ReadingThread,
     ContentThread DEF Post
<1>19. CASE Load(t)
  BY <1>1, <1>19, FleetThread, <1>3, SlotsThread, PoolThread, ReadingThread, ContentThread
<1>20. CASE Count(t)
  BY <1>1, <1>20, CountHasRoom, FleetCount, <1>3, SlotsThread, PoolThread, ReadingCount,
     ContentThread
<1>21. CASE Compare(t)
  BY <1>1, <1>21, FleetCompare, CompareEffect, <1>3, SlotsThread, PoolThread, ReadingThread,
     ContentThread
<1> QED BY <1>4, <1>5, <1>6, <1>7, <1>8, <1>9, <1>10, <1>11, <1>12, <1>13, <1>14, <1>15,
<1>16, <1>17, <1>18, <1>19, <1>20, <1>21 DEF Thread

(* Every step of the caller. *)
LEMMA FlowMain ==
  ASSUME SettledReuse, NEW d \in Nat, NEW k \in Nat, Flow(d, k), Main
  PROVE  \E e, l \in Nat : Flow(e, l)'
<1>1. /\ TypeOK /\ IInv /\ Counting /\ Quiet
      /\ SlotsOK(d, k) /\ Pool(d, k) /\ Reading(d, k) /\ Content(d, k)
  BY DEF Flow
<1>2. IInv'
  <2>1. Next BY DEF Next
  <2> QED BY <1>1, <2>1, StepIInv
<1>3. TypeOK' /\ Counting' /\ Quiet' BY <1>1, MainTypes, FleetMain
<1>4. CASE CallCode
  BY <1>1, <1>2, <1>3, <1>4, SlotsCallCode, PoolCallCode, ReadingCallCode, ContentCallCode DEF
     Flow
<1>5. CASE \/ CreateFirst \/ Go \/ WaitFinished \/ Combine \/ Destruct
           \/ FreeSignal \/ FreeJoin \/ FreeEnd
  <2>1. Flow(d, k)'
    BY <1>1, <1>2, <1>3, <1>5, SlotsMain, PoolMain, ReadingMain, ContentMain DEF Flow
  <2> QED BY <2>1
<1> QED BY <1>4, <1>5 DEF Main

(* At first no block is in the ring. *)
LEMMA InitFlow == Init => Flow(0, 0)
<1> SUFFICES ASSUME Init PROVE Flow(0, 0) OBVIOUS
<1> USE Sets, ResultsFacts
<1>1. TypeOK
  <2>1. InitFreeList \in [Bufs -> Bufs \cup {None}]
    BY MtCoderAssumption DEF InitFreeList, Bufs, None, MtCoderAssumption
  <2>2. EmptyBlock \in [res : Results, bufIndex : Bufs \cup {None}, finished : BOOLEAN]
    BY DEF EmptyBlock
  <2>3. "none" \in Places BY DEF Places
  <2>4. 0 \in Bufs \cup {None} BY DEF Bufs
  <2>5. /\ created \in [Threads -> BOOLEAN] /\ stop \in [Threads -> BOOLEAN]
        /\ startEvent \in [Threads -> BOOLEAN]
        /\ ReadyBlocks \in [Slots -> BOOLEAN] /\ outBuf \in [Bufs -> Nat]
        /\ pc \in [Threads -> Places] /\ loc \in [Threads -> Locals]
    BY <2>3, EmptyTyped DEF Init
  <2>6. blocks \in [Slots -> [res : Results, bufIndex : Bufs \cup {None},
                             finished : BOOLEAN]]
    BY <2>2 DEF Init
  <2>7. /\ freeBlockHead \in Bufs \cup {None}
        /\ freeBlockList \in [Bufs -> Bufs \cup {None}]
    BY <2>1, <2>4 DEF Init
  <2>8. /\ blocksSemaphore \in 0..NumBlocksMax /\ readProcessed \in Nat
        /\ blockIndex \in Slots /\ writeIndex \in Slots \cup {None}
        /\ numStartedThreads \in 0..NumThreads /\ numFinishedThreads \in 0..NumThreads
        /\ mi \in 0..NumThreads /\ calls \in 0..MaxCalls + 1
    BY DEF Init
  <2>9. /\ readRes \in Results /\ progressRes \in Results /\ writeRes \in Results
        /\ mres \in Results /\ mpc \in MainPlaces /\ written \in Seq(Nat)
        /\ readEvent \in BOOLEAN /\ finishedEvent \in BOOLEAN
        /\ stopReading \in BOOLEAN
    BY DEF Init
  <2> QED BY <2>5, <2>6, <2>7, <2>8, <2>9, Zenon DEF TypeOK
<1>2. \A t \in Threads : pc[t] = "none" /\ ~created[t] /\ ~startEvent[t] BY DEF Init
<1>3. Counting /\ Quiet BY <1>2 DEF Init, Counting, Quiet, InCall, InThreadFunc2
<1>4. SlotsOK(0, 0)
  BY ModUnique, <1>2, FS_EmptySet DEF Place, Window, Posting, HasSlot, IsWriter, Init, SlotsOK
<1>5. Pool(0, 0) BY <1>2, PoolFresh DEF Init, AtRest
<1>6. Reading(0, 0) BY <1>2, ReadingFresh DEF Init
<1>7. Content(0, 0) BY <1>2, ContentFresh DEF Init
<1> QED BY <1>1, <1>3, <1>4, <1>5, <1>6, <1>7, InitIInv DEF Flow

(* When the call goes on without an error, the output is complete. *)
LEMMA AllWritten ==
  ASSUME NEW d \in Nat, NEW k \in Nat, Flow(d, k), mpc = "combine", ~Err
  PROVE  written = [i \in 1..NumInput |-> i]
<1>1. /\ TypeOK /\ IInv /\ Counting /\ Quiet
      /\ SlotsOK(d, k) /\ Reading(d, k) /\ Content(d, k)
  BY DEF Flow
<1>2. k = NumInput BY <1>1, Sets DEF TypeOK, Counting, Reading, InCall, Over
<1>3. \A t \in Threads : ~HasSlot(t) /\ ~IsWriter(t) /\ pc[t] # "return"
  BY <1>1 DEF Quiet, InThreadFunc2, HasSlot, IsWriter
<1>4. d = k BY <1>1, <1>3 DEF IInv, OneWriter, SlotsOK, Window
<1>5. Wrote(NumInput) BY <1>1, <1>2, <1>3, <1>4 DEF Content, Position
<1>6. /\ written \in Seq(Nat) /\ Len(written) = NumInput
      /\ \A i \in 1..NumInput : written[i] = i
  BY <1>1, <1>5 DEF TypeOK, Wrote
<1> QED BY <1>6

(* The result of a call stays true until the next call. *)
LEMMA FinalsKept ==
  ASSUME SettledReuse, NEW d \in Nat, NEW k \in Nat, Flow(d, k), Finals, Next
  PROVE  Finals'
<1>1. TypeOK /\ Quiet BY DEF Flow
<1>2. CASE \E t \in Threads : Thread(t)
  <2>1. PICK t \in Threads : Thread(t) BY <1>2
  <2>2. UNCHANGED <<mpc, mres, calls>>
    BY <2>1 DEF Thread, ThreadStart, ReadWait, Read, ReadErr, SemWait, Decide, CreateNext,
       Release, Pop, Code, Store, Claim, Write, Return, Post, Load, Count, Compare, mainVars
  <2>3. InThreadFunc2(t) \/ written' = written
    BY <2>1 DEF Thread, ThreadStart, ReadWait, Read, ReadErr, SemWait, Decide, CreateNext,
       Release, Pop, Code, Store, Claim, Write, Return, Post, Load, Count, Compare, outVars,
       InThreadFunc2
  <2>4. mpc \in {"idle", "free", "join"} => written' = written BY <1>1, <2>3 DEF Quiet
  <2> QED BY <2>2, <2>4 DEF Finals, InCall
<1>3. CASE CallCode BY <1>3 DEF CallCode, Finals, InCall
<1>4. CASE Combine BY <1>4, AllWritten DEF Combine, outVars, FinalResult, Err, Finals, InCall
<1>5. CASE CreateFirst BY <1>5 DEF CreateFirst, Finals, InCall, outVars
<1>6. CASE Go \/ WaitFinished \/ Destruct \/ FreeSignal \/ FreeJoin \/ FreeEnd
  <2>1. mres' = mres /\ written' = written
    BY <1>6 DEF Go, WaitFinished, Destruct, FreeSignal, FreeJoin, FreeEnd, outVars
  <2>2. CASE Go \/ WaitFinished BY <2>1, <2>2 DEF Go, WaitFinished, Finals, InCall
  <2>3. CASE Destruct BY <2>1, <2>3 DEF Destruct, Finals, InCall
  <2>4. CASE FreeSignal \/ FreeJoin \/ FreeEnd
    BY <2>1, <2>4 DEF FreeSignal, FreeJoin, FreeEnd, Finals, InCall
  <2> QED BY <1>6, <2>2, <2>3, <2>4
<1>7. CASE Destroyed BY <1>7 DEF Destroyed, vars, outVars, mainVars, Finals, InCall
<1> QED BY <1>2, <1>3, <1>4, <1>5, <1>6, <1>7 DEF Next, Main

(* The invariant: there are numbers d and k that the engine does not keep. *)
Inv == Finals /\ \E d, k \in Nat : Flow(d, k)

(* It holds at first ... *)
LEMMA InitInv == Init => Inv
  BY InitFlow DEF Init, Finals, InCall, Inv


(* A step that changes nothing. *)
LEMMA FlowUnchanged ==
  ASSUME NEW d \in Nat, NEW k \in Nat, Flow(d, k), UNCHANGED vars
  PROVE  Flow(d, k)'
<1>1. /\ UNCHANGED <<created, stop, startEvent, readEvent, blocksSemaphore,
                     finishedEvent, stopReading, readRes, readProcessed, blockIndex,
                     numStartedThreads, freeBlockHead, freeBlockList, ReadyBlocks,
                     writeIndex, progressRes, writeRes, numFinishedThreads, blocks,
                     outBuf, pc, loc, mpc, mi, mres, calls, written>>
  BY DEF vars, threadVars, tokenVars, csVars, finishVars, outVars, mainVars
<1>2. /\ TypeOK /\ IInv /\ Counting /\ Quiet
      /\ SlotsOK(d, k) /\ Pool(d, k) /\ Reading(d, k) /\ Content(d, k)
  BY DEF Flow
<1>3. TypeOK' /\ IInv'
  BY <1>1, <1>2 DEF TypeOK, IInv, IndexesOK, LocOK, CallBegins, Settled, OneToken, OneWriter,
     HasToken, IsWriter
<1>4. Counting' /\ Quiet' BY <1>1, <1>2 DEF Counting, Counted, Quiet, InCall, InThreadFunc2
<1>5. SlotsOK(d, k)' BY <1>1, <1>2, SlotsKept DEF HasSlot, IsWriter
<1>6. Pool(d, k)'
  <2>1. PICK m, n \in Nat, g \in [Nat -> Bufs], held \in Heldness :
          FreeList(m, n, g) /\ Shared(d, k, m, n, g, held) /\ Users(d, held)
    BY <1>2 DEF Pool
  <2>2. FreeList(m, n, g)' BY <1>1, <2>1 DEF FreeList
  <2>3. Shared(d, k, m, n, g, held)' BY <2>1 DEF Shared
  <2>4. Users(d, held)' BY <1>1, <2>1 DEF Users, UserOf, HasSlot, HasToken, ReadyWriter
  <2> QED BY <2>2, <2>3, <2>4 DEF Pool
<1>7. Reading(d, k)'
  BY <1>1, <1>2 DEF Reading, ReadingOf, HasToken, Began, ReadyWriter, Over, Err, InCall
<1>8. Content(d, k)'
  BY <1>1, <1>2 DEF Filled, Err, Content, ContentOf, HasSlot, WithBlock, ReadyWriter, Position,
     Wrote
<1> QED BY <1>3, <1>4, <1>5, <1>6, <1>7, <1>8 DEF Flow

(* ... and every step keeps it. *)
LEMMA StepInv == SettledReuse /\ Inv /\ [Next]_vars => Inv'
<1> SUFFICES ASSUME SettledReuse, Inv, [Next]_vars PROVE Inv' OBVIOUS
<1>1. PICK d, k \in Nat : Flow(d, k) BY DEF Inv
<1>2. CASE UNCHANGED vars
  BY <1>1, <1>2, FlowUnchanged DEF vars, mainVars, outVars, Finals, InCall, Inv
<1>3. CASE Next
  BY <1>1, <1>3, FinalsKept, FlowMain, FlowUnchanged, FlowThread DEF Inv, Destroyed, Next
<1> QED BY <1>2, <1>3

-----------------------------------------------------------------------------
(* What the invariant says of the slots and of the out buffers.            *)

(* Slots have one user each. *)
LEMMA SlotsAreExclusive ==
  ASSUME NEW d \in Nat, NEW k \in Nat, SlotsOK(d, k)
  PROVE  SlotsExclusive
  BY DEF SlotsExclusive, ReadyWriter, SlotsOK, IsWriter

(* The slot whose block a thread works on. *)
SlotOf(t, d) == IF HasSlot(t) THEN loc[t].bi ELSE Place(d)

(* A buffer in the hands of a thread is that of its slot. *)
LEMMA HeldSlots ==
  ASSUME TypeOK, NEW d \in Nat, NEW k \in Nat, SlotsOK(d, k),
         NEW held \in Heldness, Users(d, held), NEW t \in Threads,
         NEW b \in HeldBuf(t)
  PROVE  /\ SlotOf(t, d) \in Slots /\ b = held[SlotOf(t, d)] /\ b # None
         /\ HasSlot(t) \/ IsWriter(t)
<1>1. UserOf(t, d, held) BY DEF Users
<1>2. CASE pc[t] \in {"code", "store", "claim"}
  BY <1>2, <1>1, LocalsTyped DEF HasSlot, HeldBuf, UserOf, SlotOf
<1>3. CASE pc[t] \in {"write", "return"}
  BY <1>3, <1>1, PlaceFacts DEF HasSlot, IsWriter, HeldBuf, UserOf, SlotOf
<1>4. CASE ReadyWriter(t)
  BY <1>4, <1>1, PlaceFacts DEF HasSlot, IsWriter, ReadyWriter, SlotsOK, HeldBuf, UserOf, SlotOf
<1> QED BY <1>2, <1>3, <1>4 DEF HeldBuf, ReadyWriter

(* A buffer that a slot of the ring holds is in somebody's hands. *)
LEMMA HeldIsUsed ==
  ASSUME NEW d \in Nat, NEW k \in Nat, SlotsOK(d, k),
         NEW held \in Heldness, Users(d, held),
         NEW s \in Window(d, k), s \in Slots, held[s] # None
  PROVE  \/ held[s] \in ReadyBuf(s)
         \/ \E t \in Threads : held[s] \in HeldBuf(t)
<1>1. CASE ReadyBlocks[s] BY <1>1 DEF Users, ReadyBuf
<1>2. ASSUME NEW t \in Threads, HasSlot(t), loc[t].bi = s PROVE held[s] \in HeldBuf(t)
  <2>1. UserOf(t, d, held) BY DEF Users
  <2>2. loc[t].bufIndex = held[s] BY <1>2, <2>1 DEF UserOf
  <2>3. pc[t] \in {"code", "store", "claim"} BY <1>2, <2>1, <2>2 DEF UserOf, HasToken, HasSlot
  <2> QED BY <2>2, <2>3 DEF HeldBuf
<1>3. ASSUME NEW t \in Threads, IsWriter(t), s = Place(d) PROVE held[s] \in HeldBuf(t)
  <2>1. UserOf(t, d, held) BY DEF Users
  <2>2. CASE pc[t] \in {"write", "return"} BY <1>3, <2>1, <2>2 DEF UserOf, HeldBuf
  <2>3. CASE ReadyWriter(t) BY <1>3, <2>3, <2>1 DEF SlotsOK, ReadyWriter, UserOf, HeldBuf
  <2> QED BY <1>3, <2>2, <2>3 DEF IsWriter, ReadyWriter
<1> QED BY <1>1, <1>2, <1>3 DEF SlotsOK

(* The list from its head on: the buffers given back, and the fresh ones. *)
LEMMA FreeOnes ==
  ASSUME NEW m \in Nat, NEW n \in Nat, NEW g \in [Nat -> Bufs], NEW held \in Heldness,
         NEW d \in Nat, NEW k \in Nat,
         FreeList(m, n, g), Shared(d, k, m, n, g, held)
  PROVE  FreeBufs = {b \in Bufs : \A s \in Slots : held[s] # b}
<1> DEFINE F == {b \in Bufs : \A s \in Slots : held[s] # b}
<1> USE Sets
<1>1. \A b \in Nat : b \in Bufs <=> b < BLOCKS_MAX BY DEF Bufs
<1>2. ASSUME NEW b \in Nat, m <= b PROVE Rest(b) \in F \cup {None}
  BY <1>1, <1>2 DEF Rest, Shared
<1>3. ASSUME NEW i \in 1..n PROVE g[i] \in F BY DEF Shared
<1>4. HoldsList(F)
  <2>1. freeBlockHead \in F \cup {None}
    <3>1. CASE n = 0
      BY <1>2, <3>1 DEF FreeList
    <3>2. CASE n # 0
      <4>1. n \in 1..n /\ freeBlockHead = g[n]
        BY <3>2 DEF FreeList
      <4> HIDE DEF F
      <4> QED
        BY <1>3, <4>1
    <3> QED
      BY <3>1, <3>2
  <2>2. ASSUME NEW b \in F PROVE freeBlockList[b] \in F \cup {None}
    <3>1. b \in Bufs /\ b \in Nat /\ b < BLOCKS_MAX /\ \A s \in Slots : held[s] # b
      BY <1>1
    <3>2. CASE b < m
      <4>1. b \in 0..m - 1
        BY <3>1, <3>2
      <4>2. PICK i \in 1..n : g[i] = b
        BY <3>1, <4>1 DEF Shared
      <4>3. freeBlockList[b] = IF i = 1 THEN Rest(m) ELSE g[i - 1]
        BY <4>2 DEF FreeList
      <4>4. i = 1 \/ i - 1 \in 1..n
        OBVIOUS
      <4> HIDE DEF F
      <4> QED
        BY <1>2, <1>3, <4>3, <4>4
    <3>3. CASE ~(b < m)
      <4>1. b \in m..BLOCKS_MAX - 1 /\ b + 1 \in Nat /\ m <= b + 1
        BY <3>1, <3>3
      <4>2. freeBlockList[b] = Rest(b + 1)
        BY <4>1 DEF FreeList
      <4> HIDE DEF F
      <4> QED
        BY <1>2, <4>1, <4>2
    <3> QED
      BY <3>2, <3>3
  <2> HIDE DEF F
  <2> QED
    BY <2>1, <2>2 DEF HoldsList
<1>5. ASSUME NEW S \in SUBSET Bufs, HoldsList(S) PROVE F \subseteq S
  <2>1. freeBlockHead \in S \cup {None} /\ \A b \in S : freeBlockList[b] \in S \cup {None}
    BY <1>5 DEF HoldsList
  <2>2. \A i \in 1..n : g[i] \in S
    <3> DEFINE T == {e \in 0..n - 1 : g[n - e] \notin S}
    <3> SUFFICES ASSUME T # {} PROVE FALSE
      <4>1. \A i \in 1..n : n - i \in 0..n - 1 /\ n - (n - i) = i OBVIOUS
      <4> QED BY <4>1
    <3>1. T \in SUBSET Nat OBVIOUS
    <3> HIDE DEF T
    <3>2. PICK e \in T : \A y \in T : e <= y BY <3>1, LeastNumber
    <3>3. e \in 0..n - 1 /\ g[n - e] \notin S BY <3>2 DEF T
    <3>4. n - e \in 1..n /\ g[n - e] \in Bufs BY <3>3
    <3>5. CASE e = 0 BY <3>3, <3>5, <2>1, <3>4 DEF FreeList
    <3>6. CASE e > 0
      <4>1. PICK i \in 1..n : i = n - (e - 1) BY <3>3, <3>6
      <4>2. e - 1 \in 0..n - 1 /\ ~(e <= e - 1) /\ i # 1 /\ i - 1 = n - e BY <3>3, <3>6, <4>1
      <4>3. g[i] \in S BY <3>2, <4>1, <4>2 DEF T
      <4>4. freeBlockList[g[i]] = g[i - 1] BY <4>2 DEF FreeList
      <4>5. g[i - 1] = g[n - e] BY <4>2, Zenon
      <4>6. g[n - e] \in S \cup {None} BY <2>1, <4>3, <4>4, <4>5
      <4> QED BY <3>3, <3>4, <4>6
    <3> QED BY <3>3, <3>5, <3>6
  <2>3. \A b \in m..BLOCKS_MAX - 1 : b \in S
    <3> DEFINE T == {b \in m..BLOCKS_MAX - 1 : b \notin S}
    <3> SUFFICES ASSUME T # {} PROVE FALSE OBVIOUS
    <3>1. T \in SUBSET Nat OBVIOUS
    <3> HIDE DEF T
    <3>2. PICK b \in T : \A y \in T : b <= y BY <3>1, LeastNumber
    <3>3. b \in m..BLOCKS_MAX - 1 /\ b \notin S /\ Rest(b) = b /\ b # None BY <3>2 DEF T, Rest
    <3>4. CASE b = m /\ n = 0 BY <2>1, <3>3, <3>4 DEF FreeList
    <3>5. CASE b = m /\ n > 0
      <4>1. 1 \in 1..n BY <3>5
      <4>2. freeBlockList[g[1]] = Rest(m) /\ g[1] \in S BY <2>2, <4>1 DEF FreeList
      <4> QED BY <2>1, <3>3, <3>5, <4>2
    <3>6. CASE b > m BY <3>3, <3>6, <3>2, <2>1 DEF T, FreeList
    <3> QED BY <3>3, <3>4, <3>5, <3>6
  <2>4. ASSUME NEW b \in F PROVE b \in S BY <1>1, <2>2, <2>3 DEF Shared
  <2> QED BY <2>4
<1>6. F \in SUBSET Bufs OBVIOUS
<1> HIDE DEF F
<1>7. FreeBufs = F BY <1>4, <1>5, <1>6 DEF FreeBufs
<1> QED BY <1>7 DEF F

(* Buffers have one owner each, because slots have one user each. *)
LEMMA InvResources == Inv => ResourcesExclusive
<1> SUFFICES ASSUME Inv PROVE ResourcesExclusive OBVIOUS
<1>1. PICK d, k \in Nat : Flow(d, k) BY DEF Inv
<1>2. TypeOK /\ IInv /\ SlotsOK(d, k) /\ Pool(d, k) BY <1>1 DEF Flow
<1>3. PICK m, n \in Nat, g \in [Nat -> Bufs], held \in Heldness :
        FreeList(m, n, g) /\ Shared(d, k, m, n, g, held) /\ Users(d, held)
  BY <1>2 DEF Pool
<1>4. \A r, s \in Slots : held[r] # None /\ held[r] = held[s] => r = s BY <1>3 DEF Shared
<1>5. \A s \in Slots : held[s] # None => s \in Window(d, k) /\ held[s] < NumBlocksMax
  <2> TAKE s \in Slots
  <2> HAVE held[s] # None
  <2>1. held[s] < m /\ m <= NumBlocksMax /\ s \in Window(d, k) BY <1>3 DEF Shared
  <2>2. held[s] \in Nat BY Sets DEF Heldness
  <2> QED BY <2>1, <2>2, Sets
<1>6. ASSUME NEW t \in Threads, NEW b \in HeldBuf(t)
      PROVE  /\ SlotOf(t, d) \in Slots /\ b = held[SlotOf(t, d)] /\ b # None
             /\ HasSlot(t) \/ IsWriter(t)
  BY <1>2, <1>3, <1>6, HeldSlots
<1>7. ASSUME NEW s \in Slots, NEW b \in ReadyBuf(s)
      PROVE  ReadyBlocks[s] /\ b = held[s] /\ b # None
  BY <1>3, <1>7 DEF ReadyBuf, Users
<1>8. ASSUME NEW t \in Threads, NEW u \in Threads, HasSlot(t) \/ IsWriter(t),
             HasSlot(u) \/ IsWriter(u), SlotOf(t, d) = SlotOf(u, d)
      PROVE  t = u
  BY <1>2, <1>8 DEF SlotsOK, SlotOf, IInv, OneWriter
<1>9. ASSUME NEW t \in Threads, NEW u \in Threads, HeldBuf(t) \cap HeldBuf(u) # {}
      PROVE  t = u
  BY <1>9, <1>4, <1>6, <1>8
<1>10. ASSUME NEW r \in Slots, NEW s \in Slots, ReadyBuf(r) \cap ReadyBuf(s) # {}
       PROVE  r = s
  BY <1>10, <1>4, <1>7
<1>11. ASSUME NEW t \in Threads, NEW s \in Slots, NEW b \in HeldBuf(t), b \in ReadyBuf(s)
       PROVE  FALSE
  BY <1>4, <1>6, <1>7, <1>11, <1>2 DEF SlotsOK, SlotOf
<1> DEFINE inHands == UNION {HeldBuf(t) : t \in Threads}
           ready == UNION {ReadyBuf(s) : s \in Slots}
<1>12. inHands \cap ready = {} BY <1>11
<1>13. FreeBufs = {b \in Bufs : \A s \in Slots : held[s] # b} BY <1>3, FreeOnes
<1>14. ASSUME NEW b \in Bufs
       PROVE  (\E s \in Slots : held[s] = b) <=> b \in inHands \cup ready
  <2>1. ASSUME NEW s \in Slots, held[s] = b PROVE b \in inHands \cup ready
    BY <1>5, <2>1, Sets, <1>2, <1>3, HeldIsUsed
  <2>2. ASSUME NEW t \in Threads, b \in HeldBuf(t) PROVE \E s \in Slots : held[s] = b
    BY <1>6, <2>2
  <2>3. ASSUME NEW s \in Slots, b \in ReadyBuf(s) PROVE \E r \in Slots : held[r] = b
    BY <1>7, <2>3
  <2> QED BY <2>1, <2>2, <2>3
<1>15. FreeBufs = Bufs \ (inHands \cup ready)
  <2> HIDE DEF inHands, ready
  <2> QED BY <1>13, <1>14
<1>16. BuffersExclusive BY <1>9, <1>10, <1>12, <1>15 DEF BuffersExclusive
<1>17. MemoryBounded BY <1>5, <1>6 DEF MemoryBounded
<1>18. SlotsExclusive BY <1>2, SlotsAreExclusive
<1> QED BY <1>16, <1>17, <1>18 DEF ResourcesExclusive

(* A call that has returned has left nobody behind, and tells the truth. *)
LEMMA InvComplete == Inv => TypeOK /\ CallComplete
  BY DEF Inv, Flow, Quiet, NobodyLeftBehind, Finals, OkMeansAllWritten, CallComplete

-----------------------------------------------------------------------------
(* The theorems.                                                           *)

(* Every variable keeps its type; in particular blocksSemaphore stays in the *)
(* range of its initialization (MtCoder.c, Semaphore_Release1 after each   *)
(* block) and freeBlockHead is an out buffer whenever it is taken.         *)
THEOREM EncoderTypes == ASSUME SettledReuse PROVE Spec => []TypeOK
<1>1. Inv /\ [Next]_vars => Inv' BY StepInv
<1> QED BY InitInv, <1>1, InvComplete, PTL DEF Spec

(* MtCoder.c keeps threads apart in blocks[], ReadyBlocks[] and the out    *)
(* buffers by blocksSemaphore alone: a slot has one user, a buffer one owner, *)
(* no buffer is lost, and none beyond numBlocksMax is ever used.           *)
THEOREM ResourcesAreExclusive == ASSUME SettledReuse PROVE Spec => []ResourcesExclusive
<1>1. Inv /\ [Next]_vars => Inv' BY StepInv
<1> QED BY InitInv, <1>1, InvResources, PTL DEF Spec

(* MtCoder_Code goes on only when no thread is left in ThreadFunc2, and    *)
(* returns SZ_OK only if all blocks have been written.                     *)
THEOREM CallsAreComplete == ASSUME SettledReuse PROVE Spec => []CallComplete
<1>1. Inv /\ [Next]_vars => Inv' BY StepInv
<1> QED BY InitInv, <1>1, InvComplete, PTL DEF Spec

-----------------------------------------------------------------------------
(* The engine as one encoder that writes block after block.                *)

(* Every thread step but a successful Write leaves the job alone, or fails. *)
LEMMA ThreadOfJob ==
  ASSUME TypeOK, NEW t \in Threads, Thread(t)
  PROVE  /\ mpc' = mpc /\ mres' = mres
         /\ \/ written' = written /\ progressRes' = progressRes
            \/ written' = written /\ InThreadFunc2(t) /\ Err'
            \/ /\ pc[t] = "write" /\ MustWrite(t) /\ progressRes' = progressRes
               /\ written' = Append(written, outBuf[loc[t].bufIndex])
<1>1. mpc' = mpc /\ mres' = mres
  BY DEF Thread, ThreadStart, ReadWait, Read, ReadErr, SemWait, Decide, CreateNext, Release,
     Pop, Code, Store, Claim, Write, Return, Post, Load, Count, Compare, mainVars
<1>2. \A r : SetError(r) /\ r # "ok" => Err' BY DEF SetError, Err
<1>3. CASE ReadErr(t) \/ CreateNext(t)
  BY <1>2, <1>3, <1>1 DEF ReadErr, CreateNext, InThreadFunc2, outVars
<1>4. CASE Code(t) BY <1>2, <1>4, <1>1 DEF Code, InThreadFunc2, outVars
<1>5. CASE Write(t) BY <1>2, <1>5, <1>1 DEF Write, InThreadFunc2
<1>6. CASE \/ ThreadStart(t) \/ ReadWait(t) \/ Read(t) \/ SemWait(t) \/ Decide(t)
           \/ Release(t) \/ Pop(t) \/ Store(t) \/ Claim(t) \/ Return(t) \/ Post(t)
           \/ Load(t) \/ Count(t) \/ Compare(t)
  BY <1>1, <1>6 DEF ThreadStart, ReadWait, Read, SemWait, Decide, Release, Pop, Store, Claim,
     Return, Post, Load, Count, Compare, outVars
<1> QED BY <1>3, <1>4, <1>5, <1>6 DEF Thread

(* The job has not begun. *)
LEMMA InitOfJob == Init => Job!Init
  BY DEF Init, Job!Init, InCall

(* Every step is a step of the job, or none. *)
LEMMA StepOfJob == SettledReuse /\ Inv /\ [Next]_vars => [Job!Next]_(Job!jobVars)
<1> SUFFICES ASSUME SettledReuse, Inv, [Next]_vars
             PROVE  Job!Next \/ UNCHANGED Job!jobVars
  BY DEF Job!jobVars
<1>1. PICK d, k \in Nat : Flow(d, k) BY DEF Inv
<1>2. TypeOK /\ IInv /\ Counting /\ Quiet /\ Content(d, k) BY <1>1 DEF Flow
<1>3. ASSUME mpc' = mpc \/ (InCall /\ InCall') \/ (~InCall /\ ~InCall'),
             mres' = mres, written' = written, progressRes' = progressRes
      PROVE  UNCHANGED Job!jobVars
  BY <1>3 DEF Job!jobVars, InCall
<1>4. ASSUME NEW t \in Threads, Thread(t)
      PROVE  Job!Next \/ UNCHANGED Job!jobVars
  <2>1. mpc' = mpc /\ mres' = mres BY <1>2, <1>4, ThreadOfJob
  <2>2. CASE written' = written /\ progressRes' = progressRes BY <1>3, <2>1, <2>2
  <2>3. CASE written' = written /\ InThreadFunc2(t) /\ Err'
    BY <1>2, <2>3, <2>1 DEF Quiet, InCall, Job!Fail, Err, Job!Next
  <2>4. CASE /\ pc[t] = "write" /\ MustWrite(t) /\ progressRes' = progressRes
             /\ written' = Append(written, outBuf[loc[t].bufIndex])
    <3>1. InCall BY <1>2, <2>4 DEF Quiet, InCall, InThreadFunc2
    <3>2. outBuf[loc[t].bufIndex] = d + 1 /\ d + 1 \in 1..NumInput
      BY <1>2, <2>4, Sets DEF Content, ContentOf, Filled, MustWrite
    <3>3. Wrote(d) BY <1>2, <2>4 DEF IInv, OneWriter, IsWriter, Position, Content
    <3>4. /\ \A i \in 1..Len(written) : written[i] < d + 1
          /\ ~Err => d + 1 = Len(written) + 1
      BY <1>2, <3>3 DEF TypeOK, Wrote
    <3>5. Job!Emit(d + 1) BY <2>1, <2>4, <3>1, <3>2, <3>4 DEF Job!Emit, InCall, Err
    <3> QED BY <3>2, <3>5 DEF Job!Next
  <2> QED BY <1>2, <1>4, <2>2, <2>3, <2>4, ThreadOfJob
<1>5. CASE CallCode BY <1>5 DEF CallCode, Job!Start, InCall, Job!Next
<1>6. CASE CreateFirst
  BY <1>6, <1>3 DEF CreateFirst, outVars, InCall, Job!ReturnError, Job!Next
<1>7. CASE Combine
  BY <1>7, <1>1, AllWritten, Sets DEF Combine, outVars, InCall, FinalResult, Err, Inv, Finals,
     Job!ReturnOk, Job!Next, Job!ReturnError
<1>8. CASE Go \/ WaitFinished \/ Destruct \/ FreeSignal \/ FreeJoin \/ FreeEnd
  <2>1. mres' = mres /\ written' = written /\ progressRes' = progressRes
    BY <1>8 DEF Go, WaitFinished, Destruct, FreeSignal, FreeJoin, FreeEnd, outVars
  <2>2. mpc' = mpc \/ (InCall /\ InCall') \/ (~InCall /\ ~InCall')
    BY <1>8 DEF Go, WaitFinished, Destruct, FreeSignal, FreeJoin, FreeEnd, InCall
  <2> QED BY <1>3, <2>1, <2>2
<1>9. CASE UNCHANGED vars BY <1>3, <1>9 DEF vars, outVars, mainVars
<1> QED BY <1>4, <1>5, <1>6, <1>7, <1>8, <1>9 DEF Next, Main, Destroyed

(* MtCoder_Code implements EncodeJob: blocks are written in the order of the *)
(* input, and none is left out by a call that returns SZ_OK.               *)
THEOREM EncodesLikeOneCoder == ASSUME SettledReuse PROVE Spec => ImplementsJob
<1>1. Inv /\ [Next]_vars => Inv' BY StepInv
<1>2. Inv /\ [Next]_vars => [Job!Next]_(Job!jobVars) BY StepOfJob
<1> QED
  BY InitInv, InitOfJob, <1>1, <1>2, PTL DEF Spec, ImplementsJob, Job!Spec

=============================================================================
