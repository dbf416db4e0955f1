--------------------------- MODULE LzFindMt_proofs ---------------------------
(***************************************************************************)
(* The match finder of three threads, for rings of any size, inputs of any *)
(* length and any faults: it stops cleanly (StopsClean of LzFindMt), every *)
(* position gets its own matches (InStep), the window holds what the       *)
(* threads look at (WindowValid), and for the encoder all this is a match  *)
(* finder without threads (ImplementsFinder).                              *)
(*                                                                         *)
(* The proof has two invariants.  IInv is about control: what LZ and BT    *)
(* may rely on at the end of a stop depends on where the other threads may *)
(* be at each flag that is still set, so it is a list of what the fields   *)
(* of the two CMtSync say of the places of the three threads.              *)
(*                                                                         *)
(* Data is about what flows.  The blocks of a ring are numbered from the   *)
(* start of the pipeline; the invariant says that they follow one another  *)
(* in the input, that each promises no less than the one before, and how   *)
(* the position of each thread follows from its block.  As long as the     *)
(* input goes on, a thread is behind the one before it by no more than a   *)
(* ring, which is why the window keeps the history of all of them.         *)
(***************************************************************************)
EXTENDS LzFindMt, TLAPS

-----------------------------------------------------------------------------
(* Places of a ring: the place of a block is its number modulo the length  *)
(* of the ring, and the code keeps the place only.                         *)

(* The quotient and the remainder make up the number. *)
LEMMA DivMod ==
    ASSUME NEW n \in Nat, n > 0, NEW a \in Nat
    PROVE  a = n * (a \div n) + (a % n) /\ a % n \in 0..n - 1 /\ a \div n \in Nat
BY SMT

(* Only one multiple of n is nearer to 0 than n. *)
LEMMA SmallMultiple ==
    ASSUME NEW n \in Nat, n > 0, NEW k \in Int, n * k < n, n * k > -n
    PROVE  k = 0
  OBVIOUS

(* A remainder below n is the remainder. *)
LEMMA ModUnique ==
    ASSUME NEW n \in Nat, n > 0, NEW q \in Nat, NEW r \in 0..n - 1,
           NEW a \in Nat, a = n * q + r
    PROVE  a % n = r
<1> DEFINE Q == a \div n
           R == a % n
<1>1. Q \in Nat /\ R \in 0..n - 1 /\ a = n * Q + R BY DivMod
<1> HIDE DEF Q, R
<1>2. n * (Q - q) = n * Q - n * q BY <1>1, SMT
<1>3. n * (Q - q) = r - R BY <1>1, <1>2
<1>4. Q - q = 0 BY <1>1, <1>3, SmallMultiple
<1> QED BY <1>1, <1>2, <1>3, <1>4 DEF R

(* The next place of the ring is the place of the next block. *)
LEMMA NextPlace ==
    ASSUME NEW n \in Nat, n > 0, NEW a \in Nat
    PROVE  ((a % n) + 1) % n = (a + 1) % n
<1> DEFINE q == a \div n
           r == a % n
<1>1. q \in Nat /\ r \in 0..n - 1 /\ a = n * q + r BY DivMod
<1> HIDE DEF q, r
<1>2. CASE r + 1 < n BY <1>1, <1>2, ModUnique, SMTT(30) DEF r
<1>3. CASE r + 1 = n
  <2>1. n * (q + 1) = n * q + n /\ n * 1 = n BY <1>1, SMT
  <2>2. (r + 1) % n = 0 BY <2>1, <1>1, <1>3, ModUnique
  <2>3. (a + 1) % n = 0 BY <2>1, <1>1, <1>3, ModUnique
  <2> QED BY <2>2, <2>3 DEF r
<1> QED BY <1>1, <1>2, <1>3

(* Among n numbers in a row no two have the same place. *)
LEMMA PlacesApart ==
    ASSUME NEW n \in Nat, n > 0, NEW a \in Nat, NEW b \in Nat,
           a <= b, b < a + n, a % n = b % n
    PROVE  a = b
<1> DEFINE p == a \div n
           q == b \div n
<1>1. a = n * p + (a % n) /\ b = n * q + (b % n) BY DivMod
<1>2. p \in Nat /\ q \in Nat BY DivMod
<1>3. n * q - n * p < n /\ n * p <= n * q BY <1>1
<1> HIDE DEF p, q
<1>4. n * q - n * p = n * (q - p) BY <1>2, SMT
<1>5. q - p = 0 BY <1>2, <1>3, <1>4, SmallMultiple
<1> QED BY <1>1, <1>2, <1>3, <1>5 DEF p, q

(* The part of TypeOK that the proof needs: no bound on any counter.       *)
Typed ==
    /\ created \in [Syncs -> BOOLEAN] /\ needStart \in [Syncs -> BOOLEAN]
    /\ stopWriting \in [Syncs -> BOOLEAN] /\ exit \in [Syncs -> BOOLEAN]
    /\ canStart \in [Syncs -> BOOLEAN] /\ wasStopped \in [Syncs -> BOOLEAN]
    /\ csWasEntered \in [Syncs -> BOOLEAN]
    /\ cs \in [Syncs -> {"none", "lz", "bt", "hash"}]
    /\ freeSemaphore \in [Syncs -> Nat] /\ filledSemaphore \in [Syncs -> Nat]
    /\ hash \in {"none", "start", "loop", "enterHash", "move", "fill", "dead"}
    /\ bt \in {"none", "start", "loop", "fill", "get", "waitFilled", "lock",
               "filled", "stop", "stopPost", "stopWait", "dead"}
    /\ lz \in {"none", "idle", "ready", "end", "waitFilled", "lock", "stopPost",
               "stopWait", "joinBt", "joinHash", "dead"}

(* Which threads exist, by how far the encoder has come. *)
Lives ==
    /\ created["hash"] <=> hash # "none"
    /\ created["bt"] <=> bt # "none"
    /\ created["bt"] => created["hash"] /\ lz # "none"
    /\ lz \notin {"none", "joinHash", "dead"} => created["bt"]
    /\ hash = "dead" => lz \in {"joinHash", "dead"}
    /\ bt = "dead" => lz \in {"joinBt", "joinHash", "dead"}

Asleep == {"none", "start", "dead"}
Stopping == {"stopPost", "stopWait"}
Leaving == {"joinBt", "joinHash", "dead"}

(* Starting and stopping of BT by LZ: whether canStart or wasStopped is    *)
(* set, whether stopWriting still means something, and where the two may   *)
(* be then. *)
BtHandshake ==
    /\ needStart["bt"] =>
          /\ bt \in Asleep /\ ~wasStopped["bt"]
          /\ lz \notin {"waitFilled", "lock", "stopPost", "stopWait"}
          /\ canStart["bt"] => exit["bt"] /\ lz \in Leaving
    /\ ~needStart["bt"] =>
          /\ ~exit["bt"]
          /\ lz \in {"ready", "end", "waitFilled", "lock", "stopPost", "stopWait"}
          /\ stopWriting["bt"] => lz \in Stopping
    /\ canStart["bt"] => bt = "start"
    /\ wasStopped["bt"] => lz \in Stopping /\ bt = "start" /\ ~canStart["bt"]
    /\ bt \in {"stop", "stopPost", "stopWait"} => lz \in Stopping

(* The same between BT, as the user, and HASH. *)
HashHandshake ==
    /\ needStart["hash"] =>
          /\ hash \in Asleep /\ ~wasStopped["hash"]
          /\ bt \notin {"waitFilled", "lock", "stopPost", "stopWait"}
          /\ canStart["hash"] => exit["hash"] /\ lz \in {"joinHash", "dead"}
    /\ ~needStart["hash"] =>
          /\ ~exit["hash"]
          /\ bt \notin Asleep
          /\ stopWriting["hash"] => bt \in Stopping
    /\ canStart["hash"] => hash = "start"
    /\ wasStopped["hash"] => bt \in Stopping /\ hash = "start" /\ ~canStart["hash"]

(* The locks: a user has one exactly while it has a block in hand, and     *)
(* HASH while it moves the window. *)
Locks ==
    /\ cs["bt"] = "lz" <=> LzHolds
    /\ csWasEntered["bt"] <=> LzHolds
    /\ cs["bt"] = "hash" <=> hash \in {"enterHash", "move"}
    /\ cs["bt"] # "bt"
    /\ cs["hash"] = "bt" <=> BtHolds
    /\ csWasEntered["hash"] <=> BtHolds
    /\ cs["hash"] = "hash" <=> hash = "move"
    /\ cs["hash"] # "lz"

(* The blocks of a ring are free, filled, or in the hands of the worker or *)
(* of the user; one that is posted to wake a worker up is lost with it.    *)
BtFilling == IF bt \in {"fill", "get", "waitFilled", "lock", "filled"} THEN 1 ELSE 0
LzUsing == IF ~needStart["bt"] /\ lz \notin {"waitFilled", "stopWait"} THEN 1 ELSE 0
HashFilling == IF hash = "fill" THEN 1 ELSE 0
BtUsing == IF ~needStart["hash"] /\ bt \notin {"waitFilled", "stopWait"} THEN 1 ELSE 0
Rings ==
    /\ freeSemaphore["bt"] + filledSemaphore["bt"] + BtFilling + LzUsing
          <= BtNumBlocks
    /\ freeSemaphore["hash"] + filledSemaphore["hash"] + HashFilling + BtUsing
          <= HashNumBlocks

IInv == Typed /\ Lives /\ BtHandshake /\ HashHandshake /\ Locks /\ Rings

LEMMA FlagUpdate ==
  ASSUME NEW f \in [Syncs -> BOOLEAN], NEW s, NEW b \in BOOLEAN
  PROVE  [f EXCEPT ![s] = b] \in [Syncs -> BOOLEAN]
  OBVIOUS

(* What the parts of CMtSync do to the types of its fields. *)
LEMMA FreeBlockTypes ==
  ASSUME Typed, NEW s \in Syncs, FreeBlock(s)
  PROVE  /\ {needStart', exit', canStart', stopWriting', wasStopped', csWasEntered'}
               \subseteq [Syncs -> BOOLEAN]
         /\ cs' \in [Syncs -> {"none", "lz", "bt", "hash"}]
         /\ freeSemaphore' \in [Syncs -> Nat]
         /\ filledSemaphore' = filledSemaphore
  BY FlagUpdate DEF Typed, FreeBlock, Unlock, Release, Semaphore_ReleaseN, NumBlocks, startVars,
    stopVars

LEMMA StartWorkerTypes ==
  ASSUME Typed, NEW s \in Syncs, StartWorker(s)
  PROVE  /\ {needStart', exit', canStart', stopWriting', wasStopped', csWasEntered'}
               \subseteq [Syncs -> BOOLEAN]
         /\ UNCHANGED <<cs, freeSemaphore, filledSemaphore>>
  BY FlagUpdate DEF Typed, StartWorker, Event_Reset, Event_Set, lockVars

LEMMA StopWritingTypes ==
  ASSUME Typed, NEW s \in Syncs, StopWriting(s)
  PROVE  /\ stopWriting' \in [Syncs -> BOOLEAN]
         /\ csWasEntered' \in [Syncs -> BOOLEAN]
         /\ cs' \in [Syncs -> {"none", "lz", "bt", "hash"}]
<1>1. stopWriting' \in [Syncs -> BOOLEAN] BY FlagUpdate DEF Typed, StopWriting
<1>2. CASE csWasEntered[s]
  <2>1. Unlock(s) BY <1>2 DEF StopWriting
  <2>2. csWasEntered' \in [Syncs -> BOOLEAN] BY <2>1, FlagUpdate DEF Typed, Unlock
  <2>3. cs' \in [Syncs -> {"none", "lz", "bt", "hash"}] BY <2>1 DEF Typed, Unlock
  <2> QED BY <1>1, <2>2, <2>3
<1>3. CASE ~csWasEntered[s] BY <1>1, <1>3 DEF Typed, StopWriting, lockVars
<1> QED BY <1>2, <1>3

-----------------------------------------------------------------------------
(* HASH *)

LEMMA HashStartStep == ASSUME IInv, HashStart PROVE IInv'
<1> USE DEF IInv, Typed, Syncs, startVars, stopVars, lockVars, ringVars,
           HashStart, WaitStart
<1>1. BtHandshake' /\ Rings'
  BY DEF BtHandshake, Rings, BtFilling, LzUsing, HashFilling, BtUsing
<1>2. Typed' BY DEF Event_Wait
<1>3. Lives' BY DEF Lives, HashHandshake, Event_CanWait
<1>4. HashHandshake' BY DEF HashHandshake, Asleep, Event_CanWait, Event_Wait
<1>5. Locks' BY DEF Locks, LzHolds, BtHolds
<1> QED BY <1>1, <1>2, <1>3, <1>4, <1>5

LEMMA HashEnterBtStep == ASSUME IInv, HashEnterBt PROVE IInv'
<1> USE DEF IInv, Typed, Syncs, startVars, stopVars, lockVars, ringVars,
           HashEnterBt
<1>1. Typed' /\ Lives' /\ BtHandshake' /\ Rings'
  BY DEF Lives, BtHandshake, Rings, BtFilling, LzUsing, HashFilling, BtUsing
<1>2. HashHandshake' BY DEF HashHandshake, Asleep
<1>3. Locks' BY DEF Locks, LzHolds, BtHolds
<1> QED BY <1>1, <1>2, <1>3

LEMMA HashEnterHashStep == ASSUME IInv, HashEnterHash PROVE IInv'
<1> USE DEF IInv, Typed, Syncs, startVars, stopVars, lockVars, ringVars,
           HashEnterHash
<1>1. Typed' /\ Lives' /\ BtHandshake' /\ Rings'
  BY DEF Lives, BtHandshake, Rings, BtFilling, LzUsing, HashFilling, BtUsing
<1>2. HashHandshake' BY DEF HashHandshake, Asleep
<1>3. Locks' BY DEF Locks, LzHolds, BtHolds
<1> QED BY <1>1, <1>2, <1>3

LEMMA HashMoveStep == ASSUME IInv, HashMove PROVE IInv'
<1> USE DEF IInv, Typed, Syncs, startVars, stopVars, lockVars, ringVars,
           HashMove
<1>1. Typed' /\ Lives' /\ BtHandshake' /\ Rings'
  BY DEF Lives, BtHandshake, Rings, BtFilling, LzUsing, HashFilling, BtUsing
<1>2. HashHandshake' BY DEF HashHandshake, Asleep
<1>3. Locks' BY DEF Locks, LzHolds, BtHolds
<1> QED BY <1>1, <1>2, <1>3

LEMMA HashWaitFreeStep == ASSUME IInv, HashWaitFree PROVE IInv'
<1> USE DEF IInv, Typed, Syncs, startVars, stopVars, lockVars, ringVars,
           HashWaitFree, WaitFree
<1>1. BtHandshake' BY DEF BtHandshake
<1>2. Typed' BY FlagUpdate DEF Event_Set, Semaphore_CanWait, Semaphore_Wait
<1>3. Lives' BY DEF Lives, HashHandshake, Asleep
<1>4. HashHandshake' BY DEF HashHandshake, Asleep
<1>5. Locks' BY DEF Locks, LzHolds, BtHolds
<1>6. Rings'
  BY LzFindMtAssumption DEF Rings, BtFilling, LzUsing, HashFilling, BtUsing, LzFindMtAssumption,
     Semaphore_Wait
<1> QED BY <1>1, <1>2, <1>3, <1>4, <1>5, <1>6

LEMMA HashFillStep == ASSUME IInv, HashFill PROVE IInv'
<1> USE DEF IInv, Typed, Syncs, startVars, stopVars, lockVars, ringVars,
           HashFill, Release
<1>1. Lives' /\ BtHandshake' BY DEF Lives, BtHandshake
<1>2. Typed' BY DEF Semaphore_ReleaseN
<1>3. HashHandshake' BY DEF HashHandshake, Asleep
<1>4. Locks' BY DEF Locks, LzHolds, BtHolds
<1>5. Rings'
  BY LzFindMtAssumption DEF Rings, BtFilling, LzUsing, HashFilling, BtUsing, LzFindMtAssumption,
     Semaphore_ReleaseN
<1> QED BY <1>1, <1>2, <1>3, <1>4, <1>5

-----------------------------------------------------------------------------
(* BT *)

LEMMA BtStartStep == ASSUME IInv, BtStart PROVE IInv'
<1> USE DEF IInv, Typed, Syncs, startVars, stopVars, lockVars, ringVars,
           BtStart, WaitStart
<1>1. Rings' BY DEF Rings, BtFilling, LzUsing, HashFilling, BtUsing
<1>2. Typed' BY DEF Event_Wait
<1>3. Lives' BY DEF Lives, BtHandshake, Leaving, Event_CanWait
<1>4. BtHandshake' BY DEF BtHandshake, Asleep, Event_CanWait, Event_Wait
<1>5. HashHandshake' BY DEF HashHandshake, Asleep
<1>6. Locks' BY DEF Locks, LzHolds, BtHolds
<1> QED BY <1>1, <1>2, <1>3, <1>4, <1>5, <1>6

LEMMA BtWaitFreeStep == ASSUME IInv, BtWaitFree PROVE IInv'
<1> USE DEF IInv, Typed, Syncs, startVars, stopVars, lockVars, ringVars,
           BtWaitFree, WaitFree
<1>1. Lives' BY DEF Lives
<1>2. Typed' BY DEF Semaphore_CanWait, Semaphore_Wait
<1>3. BtHandshake' BY DEF BtHandshake, Asleep
<1>4. HashHandshake' BY DEF HashHandshake, Asleep, Stopping
<1>5. Locks' BY DEF Locks, LzHolds, BtHolds
<1>6. Rings'
  BY LzFindMtAssumption DEF Rings, BtFilling, LzUsing, HashFilling, BtUsing, LzFindMtAssumption,
     Semaphore_Wait
<1> QED BY <1>1, <1>2, <1>3, <1>4, <1>5, <1>6

LEMMA BtFillStep == ASSUME IInv, BtFill PROVE IInv'
<1> USE DEF IInv, Typed, Syncs, startVars, stopVars, lockVars, ringVars, BtFill,
           LockBeforeFill, Lock
<1>1. Lives' /\ Rings' BY DEF Lives, Rings, BtFilling, LzUsing, HashFilling, BtUsing
<1>2. Typed' BY FlagUpdate
<1>3. BtHandshake' BY DEF BtHandshake, Asleep
<1>4. HashHandshake' BY DEF HashHandshake, Asleep, Stopping
<1>5. Locks' BY DEF Locks, LzHolds, BtHolds
<1> QED BY <1>1, <1>2, <1>3, <1>4, <1>5

LEMMA BtMatchStep == ASSUME IInv, BtMatch PROVE IInv'
<1> USE DEF IInv, Typed, Syncs, startVars, stopVars, lockVars, ringVars, BtMatch
<1>1. Typed' /\ Lives' /\ Rings' BY DEF Lives, Rings, BtFilling, LzUsing, HashFilling, BtUsing
<1>2. BtHandshake' BY DEF BtHandshake, Asleep
<1>3. HashHandshake' BY DEF HashHandshake, Asleep, Stopping
<1>4. Locks' BY DEF Locks, LzHolds, BtHolds
<1> QED BY <1>1, <1>2, <1>3, <1>4

LEMMA BtNextBlockStep == ASSUME IInv, BtNextBlock PROVE IInv'
<1> USE DEF IInv, Typed, Syncs, startVars, stopVars, lockVars, ringVars,
           BtNextBlock, FreeBlock, StartWorker, Unlock, Release
<1>1. Lives' BY DEF Lives
<1>2. Typed' BY FreeBlockTypes, StartWorkerTypes
<1>3. BtHandshake' BY DEF BtHandshake, Asleep
<1>4. HashHandshake' BY DEF HashHandshake, Lives, BtHandshake, Asleep, Stopping, Event_Reset
<1>5. Locks' BY DEF Locks, LzHolds, BtHolds
<1>6. Rings'
  BY LzFindMtAssumption DEF Rings, BtFilling, LzUsing, HashFilling, BtUsing, LzFindMtAssumption,
     Semaphore_ReleaseN
<1> QED BY <1>1, <1>2, <1>3, <1>4, <1>5, <1>6

LEMMA BtWaitFilledStep == ASSUME IInv, BtWaitFilled PROVE IInv'
<1> USE DEF IInv, Typed, Syncs, startVars, stopVars, lockVars, ringVars,
           BtWaitFilled, WaitFilled
<1>1. Lives' BY DEF Lives
<1>2. Typed' BY DEF Semaphore_CanWait, Semaphore_Wait
<1>3. BtHandshake' BY DEF BtHandshake, Asleep
<1>4. HashHandshake' BY DEF HashHandshake, Asleep, Stopping
<1>5. Locks' BY DEF Locks, LzHolds, BtHolds
<1>6. Rings'
  BY DEF Rings, BtFilling, LzUsing, HashFilling, BtUsing, HashHandshake, Semaphore_Wait
<1> QED BY <1>1, <1>2, <1>3, <1>4, <1>5, <1>6

LEMMA BtTakeBlockStep == ASSUME IInv, BtTakeBlock PROVE IInv'
<1> USE DEF IInv, Typed, Syncs, startVars, stopVars, lockVars, ringVars,
           BtTakeBlock, Lock
<1>1. Typed' /\ Lives' /\ Rings' BY DEF Lives, Rings, BtFilling, LzUsing, HashFilling, BtUsing
<1>2. BtHandshake' BY DEF BtHandshake, Asleep
<1>3. HashHandshake' BY DEF HashHandshake, Asleep, Stopping
<1>4. Locks' BY DEF Locks, HashHandshake, LzHolds, BtHolds
<1> QED BY <1>1, <1>2, <1>3, <1>4

LEMMA BtFilledStep == ASSUME IInv, BtFilled PROVE IInv'
<1> USE DEF IInv, Typed, Syncs, startVars, stopVars, lockVars, ringVars,
           BtFilled, Unlock, Release
<1>1. Typed' BY DEF Semaphore_ReleaseN
<1>2. Lives' BY DEF Lives, BtHandshake, Asleep
<1>3. BtHandshake' BY DEF BtHandshake, Asleep
<1>4. HashHandshake' BY DEF HashHandshake, BtHandshake, Asleep, Stopping
<1>5. Locks' BY DEF Locks, HashHandshake, LzHolds, BtHolds, Asleep
<1>6. Rings'
  BY LzFindMtAssumption DEF Rings, BtFilling, LzUsing, HashFilling, BtUsing, LzFindMtAssumption,
     Semaphore_ReleaseN
<1> QED BY <1>1, <1>2, <1>3, <1>4, <1>5, <1>6

LEMMA BtStopStep == ASSUME IInv, BtStop PROVE IInv'
<1> USE DEF IInv, Typed, Syncs, startVars, stopVars, lockVars, ringVars, BtStop,
           StopWriting, Unlock
<1>1. Lives' /\ Rings' BY DEF Lives, Rings, BtFilling, LzUsing, HashFilling, BtUsing
<1>2. Typed' BY DEF Locks, BtHolds, Event_Set
<1>3. BtHandshake' BY DEF BtHandshake, Stopping
<1>4. HashHandshake' BY DEF HashHandshake, Asleep, Stopping
<1>5. Locks' BY DEF Locks, LzHolds, BtHolds
<1> QED BY <1>1, <1>2, <1>3, <1>4, <1>5

LEMMA BtStopPostStep == ASSUME IInv, BtStopPost PROVE IInv'
<1> USE DEF IInv, Typed, Syncs, startVars, stopVars, lockVars, ringVars,
           BtStopPost, PostStop, Release
<1>1. Lives' BY DEF Lives
<1>2. Typed' BY DEF Semaphore_ReleaseN
<1>3. BtHandshake' BY DEF BtHandshake, Stopping
<1>4. HashHandshake' BY DEF HashHandshake, Asleep, Stopping
<1>5. Locks' BY DEF Locks, LzHolds, BtHolds
<1>6. Rings'
  BY LzFindMtAssumption DEF Rings, BtFilling, LzUsing, HashFilling, BtUsing, HashHandshake,
     LzFindMtAssumption, Semaphore_ReleaseN
<1> QED BY <1>1, <1>2, <1>3, <1>4, <1>5, <1>6

LEMMA BtStopWaitStep == ASSUME IInv, BtStopWait PROVE IInv'
<1> USE DEF IInv, Typed, Syncs, startVars, stopVars, lockVars, ringVars,
           BtStopWait
<1>1. Lives' /\ Rings' BY DEF Lives, Rings, BtFilling, LzUsing, HashFilling, BtUsing
<1>2. Typed' BY FlagUpdate DEF Event_Wait, Event_Set
<1>3. BtHandshake' BY DEF BtHandshake, Stopping
<1>4. HashHandshake' BY DEF HashHandshake, Asleep, Event_CanWait, Event_Wait
<1>5. Locks' BY DEF Locks, LzHolds, BtHolds
<1> QED BY <1>1, <1>2, <1>3, <1>4, <1>5

-----------------------------------------------------------------------------
(* LZ *)

LEMMA LzCreateStep == ASSUME IInv, LzCreate PROVE IInv'
<1> USE DEF IInv, Typed, Syncs, startVars, stopVars, lockVars, ringVars,
           LzCreate
<1>1. Lives'
  <2>1. PICK ok \in {Syncs, {}, {"hash"}} :
          /\ created' = [s \in Syncs |-> created[s] \/ s \in ok]
          /\ hash' = IF "hash" \in ok /\ ~created["hash"] THEN "start" ELSE hash
          /\ bt' = IF "bt" \in ok THEN "start" ELSE bt
          /\ lz' = IF ok = Syncs THEN "idle" ELSE "none"
    OBVIOUS
  <2>2. lz = "none" /\ ~created["bt"] /\ bt = "none" BY DEF Lives
  <2>3. CASE ok = {} BY <2>1, <2>2, <2>3 DEF Lives
  <2>4. CASE ok = {"hash"} BY <2>1, <2>2, <2>4 DEF Lives
  <2>5. CASE ok = Syncs BY <2>1, <2>2, <2>5 DEF Lives
  <2> QED BY <2>1, <2>3, <2>4, <2>5
<1>2. Typed' OBVIOUS
<1>3. BtHandshake' BY DEF BtHandshake, Asleep, Leaving
<1>4. HashHandshake' BY DEF HashHandshake, Lives, Asleep
<1>5. Locks' BY DEF Locks, Lives, LzHolds, BtHolds
<1>6. Rings' BY DEF Rings, BtFilling, LzUsing, HashFilling, BtUsing, Lives
<1> QED BY <1>1, <1>2, <1>3, <1>4, <1>5, <1>6

LEMMA LzInitStep == ASSUME IInv, LzInit PROVE IInv'
<1> USE DEF IInv, Typed, Syncs, startVars, stopVars, lockVars, ringVars, LzInit,
           FreeAtInit, FilledAtInit
<1>1. Lives' /\ HashHandshake' BY DEF Lives, HashHandshake
<1>2. Typed' BY LzFindMtAssumption DEF NumBlocks, LzFindMtAssumption
<1>3. BtHandshake' BY DEF BtHandshake, Stopping, Leaving
<1>4. Locks' BY DEF Locks, LzHolds, BtHolds
<1>5. Rings'
  BY LzFindMtAssumption DEF Rings, BtFilling, LzUsing, HashFilling, BtUsing, BtHandshake,
     HashHandshake, Asleep, NumBlocks, LzFindMtAssumption
<1> QED BY <1>1, <1>2, <1>3, <1>4, <1>5

LEMMA LzNextBlockStep == ASSUME IInv, LzNextBlock PROVE IInv'
<1> USE DEF IInv, Typed, Syncs, startVars, stopVars, lockVars, ringVars,
           LzNextBlock, FreeBlock, StartWorker, Unlock, Release
<1>1. Lives' /\ HashHandshake' BY DEF Lives, HashHandshake
<1>2. Typed' BY FreeBlockTypes, StartWorkerTypes
<1>3. BtHandshake' BY DEF BtHandshake, Lives, Asleep, Stopping, Event_Reset
<1>4. Locks' BY DEF Locks, LzHolds, BtHolds
<1>5. Rings'
  BY LzFindMtAssumption DEF Rings, BtFilling, LzUsing, HashFilling, BtUsing, LzFindMtAssumption,
     Semaphore_ReleaseN
<1> QED BY <1>1, <1>2, <1>3, <1>4, <1>5

LEMMA LzAfterFailureStep == ASSUME IInv, LzAfterFailure PROVE IInv'
<1> USE DEF IInv, Typed, Syncs, startVars, stopVars, lockVars, ringVars,
           LzAfterFailure
<1>1. Typed' /\ Lives' /\ HashHandshake' /\ Rings'
  BY DEF Lives, HashHandshake, Rings, BtFilling, LzUsing, HashFilling, BtUsing
<1>2. BtHandshake' BY DEF BtHandshake, Stopping, Leaving
<1>3. Locks' BY DEF Locks, LzHolds, BtHolds
<1> QED BY <1>1, <1>2, <1>3

LEMMA LzWaitFilledStep == ASSUME IInv, LzWaitFilled PROVE IInv'
<1> USE DEF IInv, Typed, Syncs, startVars, stopVars, lockVars, ringVars,
           LzWaitFilled, WaitFilled
<1>1. Lives' /\ HashHandshake' BY DEF Lives, HashHandshake
<1>2. Typed' BY DEF Semaphore_CanWait, Semaphore_Wait
<1>3. BtHandshake' BY DEF BtHandshake, Stopping
<1>4. Locks' BY DEF Locks, LzHolds, BtHolds
<1>5. Rings'
  BY DEF Rings, BtFilling, LzUsing, HashFilling, BtUsing, BtHandshake, Semaphore_Wait
<1> QED BY <1>1, <1>2, <1>3, <1>4, <1>5

LEMMA LzTakeBlockStep == ASSUME IInv, LzTakeBlock PROVE IInv'
<1> USE DEF IInv, Typed, Syncs, startVars, stopVars, lockVars, ringVars,
           LzTakeBlock, Lock
<1>1. Typed' /\ Lives' /\ HashHandshake' /\ Rings'
  BY DEF Lives, HashHandshake, Rings, BtFilling, LzUsing, HashFilling, BtUsing
<1>2. BtHandshake' BY DEF BtHandshake, Stopping
<1>3. Locks' BY DEF Locks, BtHandshake, LzHolds, BtHolds
<1> QED BY <1>1, <1>2, <1>3

LEMMA LzConsumeStep == ASSUME IInv, LzConsume PROVE IInv'
<1> USE DEF IInv, Typed, Syncs, startVars, stopVars, lockVars, ringVars,
           LzConsume
<1>1. Typed' /\ Lives' /\ HashHandshake' /\ Rings'
  BY DEF Lives, HashHandshake, Rings, BtFilling, LzUsing, HashFilling, BtUsing
<1>2. BtHandshake' BY DEF BtHandshake, Stopping, Leaving
<1>3. Locks' BY DEF Locks, LzHolds, BtHolds
<1> QED BY <1>1, <1>2, <1>3

LEMMA LzStopStep == ASSUME IInv, LzStop PROVE IInv'
<1> USE DEF IInv, Typed, Syncs, startVars, stopVars, lockVars, ringVars, LzStop,
           StopWriting, Unlock
<1>1. Lives' /\ HashHandshake' /\ Rings'
  BY DEF Lives, HashHandshake, Rings, BtFilling, LzUsing, HashFilling, BtUsing
<1>2. Typed' BY StopWritingTypes
<1>3. BtHandshake' BY DEF BtHandshake, Stopping, Leaving
<1>4. Locks' BY DEF Locks, LzHolds, BtHolds
<1> QED BY <1>1, <1>2, <1>3, <1>4

LEMMA LzStopPostStep == ASSUME IInv, LzStopPost PROVE IInv'
<1> USE DEF IInv, Typed, Syncs, startVars, stopVars, lockVars, ringVars,
           LzStopPost, PostStop, Release
<1>1. Lives' /\ HashHandshake' BY DEF Lives, HashHandshake
<1>2. Typed' BY DEF Semaphore_ReleaseN
<1>3. BtHandshake' BY DEF BtHandshake, Stopping
<1>4. Locks' BY DEF Locks, LzHolds, BtHolds
<1>5. Rings'
  BY LzFindMtAssumption DEF Rings, BtFilling, LzUsing, HashFilling, BtUsing, BtHandshake,
     LzFindMtAssumption, Semaphore_ReleaseN
<1> QED BY <1>1, <1>2, <1>3, <1>4, <1>5

LEMMA LzStopWaitStep == ASSUME IInv, LzStopWait PROVE IInv'
<1> USE DEF IInv, Typed, Syncs, startVars, stopVars, lockVars, ringVars,
           LzStopWait, WaitStopped
<1>1. Lives' /\ HashHandshake' /\ Rings'
  BY DEF Lives, HashHandshake, Rings, BtFilling, LzUsing, HashFilling, BtUsing
<1>2. Typed' BY DEF Event_Wait
<1>3. BtHandshake' BY DEF BtHandshake, Asleep, Event_CanWait, Event_Wait
<1>4. Locks' BY DEF Locks, LzHolds, BtHolds
<1> QED BY <1>1, <1>2, <1>3, <1>4

LEMMA LzExitBtStep == ASSUME IInv, LzExitBt PROVE IInv'
<1> USE DEF IInv, Typed, Syncs, startVars, stopVars, lockVars, ringVars,
           LzExitBt, SendExit
<1>1. Lives' /\ HashHandshake' /\ Rings'
  BY DEF Lives, HashHandshake, Rings, BtFilling, LzUsing, HashFilling, BtUsing
<1>2. Typed' BY DEF Event_Set
<1>3. BtHandshake' BY DEF BtHandshake, Lives, Asleep, Leaving
<1>4. Locks' BY DEF Locks, LzHolds, BtHolds
<1> QED BY <1>1, <1>2, <1>3, <1>4

LEMMA LzExitHashStep == ASSUME IInv, LzExitHash PROVE IInv'
<1> USE DEF IInv, Typed, Syncs, startVars, stopVars, lockVars, ringVars,
           LzExitHash, SendExit
<1>1. Lives' /\ Rings' BY DEF Lives, Rings, BtFilling, LzUsing, HashFilling, BtUsing
<1>2. Typed' BY DEF Event_Set
<1>3. BtHandshake' BY DEF BtHandshake, Stopping, Leaving
<1>4. HashHandshake' BY DEF HashHandshake, Lives, Asleep
<1>5. Locks' BY DEF Locks, LzHolds, BtHolds
<1> QED BY <1>1, <1>2, <1>3, <1>4, <1>5

LEMMA LzJoinedStep == ASSUME IInv, LzJoined PROVE IInv'
<1> USE DEF IInv, Typed, Syncs, startVars, stopVars, lockVars, ringVars,
           LzJoined
<1>1. Typed' /\ Lives' /\ HashHandshake' /\ Rings'
  BY DEF Lives, HashHandshake, Rings, BtFilling, LzUsing, HashFilling, BtUsing
<1>2. BtHandshake' BY DEF BtHandshake, Stopping, Leaving
<1>3. Locks' BY DEF Locks, LzHolds, BtHolds
<1> QED BY <1>1, <1>2, <1>3

-----------------------------------------------------------------------------
LEMMA InitIInv == Init => IInv
<1> SUFFICES ASSUME Init PROVE IInv OBVIOUS
<1> USE DEF Init, Syncs
<1>1. Typed /\ Lives BY DEF Typed, Lives
<1>2. BtHandshake /\ HashHandshake BY DEF BtHandshake, HashHandshake, Asleep
<1>3. Locks BY DEF Locks, LzHolds, BtHolds
<1>4. Rings
  BY LzFindMtAssumption DEF Rings, BtFilling, LzUsing, HashFilling, BtUsing, LzFindMtAssumption
<1> QED BY <1>1, <1>2, <1>3, <1>4 DEF IInv

LEMMA StepIInv == IInv /\ [Next]_vars => IInv'
<1> SUFFICES ASSUME IInv, [Next]_vars PROVE IInv' OBVIOUS
<1>1. CASE Hash
  BY <1>1, HashStartStep, HashEnterBtStep, HashEnterHashStep, HashMoveStep, HashWaitFreeStep,
     HashFillStep DEF Hash
<1>2. CASE Bt
  BY <1>2, BtStartStep, BtWaitFreeStep, BtFillStep, BtMatchStep, BtNextBlockStep,
     BtWaitFilledStep, BtTakeBlockStep, BtFilledStep, BtStopStep, BtStopPostStep, BtStopWaitStep
     DEF Bt
<1>3. CASE Lz
  BY <1>3, LzCreateStep, LzInitStep, LzNextBlockStep, LzAfterFailureStep, LzWaitFilledStep,
     LzTakeBlockStep, LzConsumeStep, LzStopStep, LzStopPostStep, LzStopWaitStep, LzExitBtStep,
     LzExitHashStep, LzJoinedStep DEF Lz
<1>4. CASE UNCHANGED vars
  <2>1. /\ UNCHANGED <<created, needStart, stopWriting, exit, canStart>>
        /\ UNCHANGED <<wasStopped, csWasEntered, cs, freeSemaphore,
                       filledSemaphore, hash, bt, lz>>
    BY <1>4 DEF vars, startVars, stopVars, lockVars, ringVars
  <2>2. Typed' /\ Lives' /\ BtHandshake' /\ HashHandshake'
    BY <2>1 DEF IInv, Typed, Lives, BtHandshake, HashHandshake
  <2>3. Locks' /\ Rings'
    BY <2>1 DEF IInv, Locks, LzHolds, BtHolds, Rings, BtFilling, LzUsing,
                HashFilling, BtUsing
  <2> QED
    BY <2>2, <2>3 DEF IInv
<1> QED BY <1>1, <1>2, <1>3, <1>4 DEF Next, Destroyed

(* With LZ idle needStart is set for both workers: nobody has started them *)
(* since they last confirmed, so they sleep, their locks are free and no   *)
(* event is left.  The posts fit because a block in hand is in no          *)
(* semaphore.                                                              *)
LEMMA Clean == IInv => StopsClean
<1> SUFFICES ASSUME IInv PROVE StopsClean
  OBVIOUS
<1>1. WindowStill
  BY DEF IInv, Locks, WindowStill
<1>2. PostsFit
  <2>1. ((lz = "ready" /\ ~needStart["bt"]) \/ lz = "stopPost")
           => freeSemaphore["bt"] < BtNumBlocks
    BY LzFindMtAssumption
    DEF IInv, Typed, Syncs, BtHandshake, Rings, LzUsing, BtFilling,
        LzFindMtAssumption
  <2>2. ((bt = "get" /\ ~needStart["hash"]) \/ bt = "stopPost")
           => freeSemaphore["hash"] < HashNumBlocks
    BY LzFindMtAssumption
    DEF IInv, Typed, Syncs, HashHandshake, Rings, BtUsing, HashFilling,
        LzFindMtAssumption
  <2>3. bt = "filled" => filledSemaphore["bt"] < BtNumBlocks
    BY LzFindMtAssumption
    DEF IInv, Typed, Syncs, Rings, LzUsing, BtFilling, LzFindMtAssumption
  <2>4. hash = "fill" => filledSemaphore["hash"] < HashNumBlocks
    BY LzFindMtAssumption
    DEF IInv, Typed, Syncs, Rings, BtUsing, HashFilling, LzFindMtAssumption
  <2> QED
    BY <2>1, <2>2, <2>3, <2>4 DEF PostsFit
<1>3. StoppedIsAsleep
  <2> SUFFICES ASSUME lz = "idle"
               PROVE  /\ hash = "start" /\ bt = "start"
                      /\ \A s \in Syncs : /\ needStart[s] /\ ~csWasEntered[s]
                                          /\ cs[s] = "none"
                                          /\ ~canStart[s] /\ ~wasStopped[s]
    BY DEF StoppedIsAsleep
  <2>1. created["bt"] /\ created["hash"]
    BY DEF IInv, Lives
  <2>2. needStart["bt"] /\ bt = "start"
    BY <2>1 DEF IInv, Lives, BtHandshake, Asleep
  <2>3. needStart["hash"] /\ hash = "start"
    BY <2>1, <2>2 DEF IInv, Lives, HashHandshake, Asleep
  <2>4. \A s \in Syncs : ~canStart[s] /\ ~wasStopped[s]
    BY <2>2, <2>3 DEF IInv, BtHandshake, HashHandshake, Syncs, Leaving
  <2>5. \A s \in Syncs : ~csWasEntered[s] /\ cs[s] = "none"
    BY <2>2, <2>3 DEF IInv, Typed, Locks, LzHolds, BtHolds, Syncs
  <2> QED
    BY <2>2, <2>3, <2>4, <2>5 DEF Syncs
<1> QED
  BY <1>1, <1>2, <1>3 DEF StopsClean

(* When MatchFinderMt_ReleaseStream has returned both workers are asleep   *)
(* without a lock and no event is set, so that MatchFinderMt_Init, which   *)
(* has no lock, and Destruct have the object alone; no release of a        *)
(* semaphore is refused ("check semaphore count !!!" in LzFindMt.c); and   *)
(* HASH moves the window only while nobody else looks at it.               *)
THEOREM StopsAreClean == Spec => []StopsClean
<1>1. IInv /\ [Next]_vars => IInv' BY StepIInv
<1>2. IInv => StopsClean BY Clean
<1> QED BY InitIInv, <1>1, <1>2, PTL DEF Spec

-----------------------------------------------------------------------------
(* Positions, blocks and the window.  A ring holds blocks that are counted *)
(* from the start of the pipeline: the code keeps only their places.  HASH *)
(* has filled the hash blocks up to m - 1, of which BT has block n in hand *)
(* or waits for it; BT has filled the blocks up to e - 1, of which LZ has  *)
(* or awaits block c.                                                      *)
HashPlace(j) == j % HashNumBlocks
BtPlace(j) == j % BtNumBlocks
H(j) == hashBuf[HashPlace(j)]
B(j) == btBuf[BtPlace(j)]

Over == mf.ended \/ mf.result # "ok"
AtEnd == Over /\ mf.pos = mf.streamPos

(* HASH's place in the input and in the window, and the pointers of the    *)
(* others into it.                                                         *)
Window ==
    /\ mf.pos <= mf.streamPos
    /\ mf.buffer <= mf.pos
    /\ mf.ended => mf.streamPos = NumInput
    /\ mf.directInput => mf.buffer = mf.pos
    /\ ~mf.directInput => mf.streamPos - WindowStart <= BlockSize
    /\ btData.buffer = btData.pos - WindowStart
    /\ lzData.buffer = lzData.pos - WindowStart
    /\ hash \in {"enterHash", "move"} => NeedMove
    /\ hash = "fill" => ~NeedMove

(* The pipeline runs for BT, or can be started, and no stop has come so    *)
(* far as to spoil its data; the same for LZ.                              *)
Feeding ==
    \/ needStart["bt"] /\ lz = "ready"
    \/ /\ ~needStart["bt"]
       /\ canStart["bt"] \/ bt \notin Asleep \cup {"stopPost", "stopWait"}
Serving == lz \in {"ready", "end", "waitFilled", "lock"}

Awake ==
    /\ Serving => /\ needStart["bt"] \/ canStart["bt"] \/ bt \notin Asleep
                  /\ needStart["bt"] => lz = "ready"
    /\ Feeding => needStart["hash"] \/ canStart["hash"] \/ hash \notin Asleep

(* Where block j begins in the input, and how far it is promised to go;    *)
(* for the block to come it is what HASH is at.                            *)
HFirst(j, m) == IF j = m THEN mf.pos ELSE H(j).first
HEnd(j, m) == IF j = m THEN mf.streamPos ELSE H(j).first + H(j).avail

(* The blocks follow one another, and promise more and more of the input.  *)
(* A block with too few bytes is followed by the end.                      *)
HashBlockOK(j, m) ==
    /\ H(j).first + H(j).avail <= HEnd(j + 1, m)
    /\ H(j).first + H(j).avail <= mf.streamPos
    /\ IF H(j).avail < NumHashBytes
       THEN /\ H(j).num = 0 /\ AtEnd /\ H(j).first + H(j).avail = mf.pos
            /\ HFirst(j + 1, m) = mf.pos /\ HEnd(j + 1, m) = mf.pos
       ELSE /\ H(j).num <= H(j).avail
            /\ H(j).first + H(j).num = HFirst(j + 1, m)
    /\ ~Over => mf.pos <= H(j).first + (m - j) * (HashBlockSize - 2)

HashRing(n, m) ==
    /\ m = n + filledSemaphore["hash"] + BtUsing
    /\ ~needStart["hash"] => numProcessedBlocks["hash"] = HashPlace(n + 1)
    /\ IF needStart["hash"] \/ canStart["hash"] THEN m = 0
       ELSE blockIndex["hash"] = HashPlace(m)
    /\ \A j \in n..m - 1 : HashBlockOK(j, m)

(* BT's position and what is left of its block.  It is past the end when   *)
(* it has had a block with too few bytes; its own position stays then.     *)
Waits == needStart["hash"] \/ bt \in {"waitFilled", "lock"}
BtSource(n, m, past) ==
    /\ Waits => btData.left = 0 /\ ~btData.failure
    /\ btData.left <= btData.hashNumAvail
    /\ btData.failure => btData.left > 0 /\ bt # "get"
    /\ past => AtEnd /\ btData.left = 0 /\ btData.hashNumAvail = 0
    /\ Waits /\ ~past => /\ btData.pos = HFirst(n, m)
                         /\ btData.pos + btData.hashNumAvail <= HEnd(n, m)
    /\ Waits /\ past => HFirst(n, m) = mf.pos /\ HEnd(n, m) = mf.pos
    /\ ~Waits /\ ~past =>
         /\ H(n).avail >= NumHashBytes
         /\ btData.left <= H(n).num
         /\ btData.pos = H(n).first + H(n).num - btData.left
         /\ btData.hashNumAvail = H(n).avail - H(n).num + btData.left
    /\ ~Waits /\ past => H(n).avail < NumHashBytes

HashSide(n, m, past) == HashRing(n, m) /\ BtSource(n, m, past)

(* The same for the blocks of BT.  Block e is under construction.          *)
To(past) == IF past THEN mf.pos ELSE btData.pos
Constructing == bt \in {"get", "waitFilled", "lock", "filled"}
Begun(e, past) == IF Constructing THEN To(past) - B(e).num ELSE To(past)
BFirst(j, e, past) == IF j = e THEN Begun(e, past)
                      ELSE IF B(j).avail = 0 THEN mf.pos ELSE B(j).first
BAvail(j, e) == IF j = e /\ ~Constructing THEN btData.hashNumAvail ELSE B(j).avail

BtBlockOK(j, e, past) ==
    /\ B(j).num <= B(j).avail
    /\ B(j).avail = 0 => AtEnd
    /\ BFirst(j, e, past) + B(j).num = BFirst(j + 1, e, past)
    /\ BFirst(j, e, past) + B(j).avail <= BFirst(j + 1, e, past) + BAvail(j + 1, e)
    /\ BFirst(j, e, past) + B(j).avail <= mf.streamPos
    /\ ~Over => Begun(e, past) <= BFirst(j, e, past) + (e - j) * BtLimit

BtRing(c, e, past) ==
    /\ e = c + filledSemaphore["bt"] + LzUsing
    /\ ~needStart["bt"] => numProcessedBlocks["bt"] = BtPlace(c + 1)
    /\ IF needStart["bt"] \/ canStart["bt"] THEN e = 0
       ELSE blockIndex["bt"] = BtPlace(e)
    /\ \A j \in c..e - 1 : BtBlockOK(j, e, past)

Construction(e, past) ==
    Constructing =>
      /\ ~past => /\ B(e).first + B(e).num = btData.pos
                  /\ B(e).avail = B(e).num + btData.hashNumAvail
                  /\ bt = "filled" => B(e).avail > 0
                  /\ B(e).num <= IF bt = "filled" THEN BtLimit ELSE BtLimit - 1
      /\ past => /\ B(e).num = B(e).avail
                 /\ B(e).num > 0 => B(e).first + B(e).num = mf.pos
                 /\ bt # "filled" => B(e).num = 0

LzInHand(c, e, past) ==
    IF lzData.failure
    THEN /\ lzData.left <= 1
         /\ lz = "ready" /\ lzData.left = 1 => lzData.btNumAvail > 0
         /\ lzData.pos + lzData.btNumAvail <= mf.streamPos
         /\ lzData.pos >= BFirst(c, e, past)
    ELSE /\ lzData.left <= B(c).num
         /\ lzData.btNumAvail = B(c).avail - B(c).num + lzData.left
         /\ lzData.pos = BFirst(c, e, past) + B(c).num - lzData.left

LzWaits(c, e, past) ==
    /\ lzData.left = 0 /\ ~lzData.failure
    /\ lzData.pos = BFirst(c, e, past)
    /\ lzData.btNumAvail <= BAvail(c, e)

LzSource(c, e, past) ==
    IF needStart["bt"] \/ lz \in {"waitFilled", "lock"}
    THEN LzWaits(c, e, past) ELSE LzInHand(c, e, past)

BtSide(c, e, past) ==
    BtRing(c, e, past) /\ Construction(e, past) /\ LzSource(c, e, past)

History ==
    /\ Feeding => WindowStart = 0 \/ btData.pos - WindowStart >= HistorySize
    /\ Serving => WindowStart = 0 \/ lzData.pos - WindowStart >= HistorySize

Flow ==
    Feeding => \E n, m \in Nat, past \in BOOLEAN :
        /\ HashSide(n, m, past)
        /\ Serving => \E c, e \in Nat : BtSide(c, e, past)

(* The types of what Typed leaves out. *)
BlockType == [first : Nat, num : Nat, avail : Nat, bad : BOOLEAN]
Stored ==
    /\ numProcessedBlocks \in [Syncs -> Nat] /\ blockIndex \in [Syncs -> Nat]
    /\ \A s \in Syncs : /\ numProcessedBlocks[s] \in 0..NumBlocks(s) - 1
                        /\ blockIndex[s] \in 0..NumBlocks(s) - 1
    /\ mf \in [pos : 0..NumInput, streamPos : 0..NumInput, buffer : Nat,
               ended : BOOLEAN, result : {"ok", "read"}, directInput : BOOLEAN]
    /\ hashBuf \in [0..HashNumBlocks - 1 -> BlockType]
    /\ btBuf \in [0..BtNumBlocks - 1 -> BlockType]
    /\ btData \in [pos : Nat, buffer : Int, left : Nat, hashNumAvail : Nat,
                   failure : BOOLEAN]
    /\ lzData \in [pos : Nat, buffer : Int, left : Nat, btNumAvail : Nat,
                   failure : BOOLEAN]
    /\ jobs \in 0..MaxJobs

Data == IInv /\ Stored /\ Window /\ Awake /\ History /\ Flow

-----------------------------------------------------------------------------
(* The sizes are numbers, and there is room for a step of each kind.     *)
LEMMA Numbers ==
  /\ {NumInput, HashNumBlocks, BtNumBlocks, NumHashBytes, MatchMaxLen,
      HistorySize, MaxJobs, HashBlockSize, BtBlockSize, BlockSize} \subseteq Nat
  /\ NumInput > 0 /\ HashNumBlocks > 0 /\ BtNumBlocks > 0 /\ NumHashBytes > 0
  /\ HistorySize > 0 /\ HashBlockSize > 2
  /\ KeepSizeBefore \in Nat /\ KeepSizeAfter \in Nat /\ KeepSizeAfter >= NumHashBytes
  /\ BlockSize > KeepSizeBefore + KeepSizeAfter
  /\ BtLimit \in Nat /\ BtLimit > 0
  /\ DirectInputs \subseteq BOOLEAN
  BY LzFindMtAssumption DEF LzFindMtAssumption, KeepSizeBefore, KeepSizeAfter, BtLimit

(* Products with the sizes, for which the solver needs help. *)
LEMMA Products ==
  ASSUME NEW L \in Nat, NEW a \in Nat
  PROVE  /\ a * L \in Nat /\ (a + 1) * L = a * L + L /\ 0 * L = 0 /\ 1 * L = L
         /\ \A b \in Nat : a <= b => a * L <= b * L
  BY SMT

(* Blocks less than a ring apart have places of their own.               *)
LEMMA Places ==
  /\ \A j \in Nat : HashPlace(j) \in 0..HashNumBlocks - 1
                    /\ BtPlace(j) \in 0..BtNumBlocks - 1
  /\ HashPlace(0) = 0 /\ BtPlace(0) = 0
  /\ \A j, k \in Nat : /\ j <= k /\ k < j + HashNumBlocks /\ HashPlace(j) = HashPlace(k) => j = k
                       /\ j <= k /\ k < j + BtNumBlocks /\ BtPlace(j) = BtPlace(k) => j = k
<1>1. \A j \in Nat : HashPlace(j) \in 0..HashNumBlocks - 1 /\ BtPlace(j) \in 0..BtNumBlocks - 1
  BY Numbers, DivMod DEF HashPlace, BtPlace
<1>2. HashPlace(0) = 0 BY Numbers, ModUnique DEF HashPlace
<1>3. BtPlace(0) = 0 BY Numbers, ModUnique DEF BtPlace
<1>4. ASSUME NEW j \in Nat, NEW k \in Nat
      PROVE  /\ j <= k /\ k < j + HashNumBlocks /\ HashPlace(j) = HashPlace(k) => j = k
             /\ j <= k /\ k < j + BtNumBlocks /\ BtPlace(j) = BtPlace(k) => j = k
  <2>1. ASSUME j <= k, k < j + HashNumBlocks, HashPlace(j) = HashPlace(k) PROVE j = k
    BY <2>1, Numbers, PlacesApart DEF HashPlace
  <2>2. ASSUME j <= k, k < j + BtNumBlocks, BtPlace(j) = BtPlace(k) PROVE j = k
    BY <2>2, Numbers, PlacesApart DEF BtPlace
  <2> QED BY <2>1, <2>2
<1> QED BY <1>1, <1>2, <1>3, <1>4

(* The code's arithmetic on places. *)
LEMMA Steps ==
  ASSUME NEW j \in Nat
  PROVE  /\ (HashPlace(j) + 1) % HashNumBlocks = HashPlace(j + 1)
         /\ (BtPlace(j) + 1) % BtNumBlocks = BtPlace(j + 1)
         /\ (HashPlace(j + 1) + HashNumBlocks - 1) % HashNumBlocks = HashPlace(j)
         /\ (BtPlace(j + 1) + BtNumBlocks - 1) % BtNumBlocks = BtPlace(j)
<1>1. ASSUME NEW N \in Nat, N > 0
      PROVE  (((j + 1) % N) + N - 1) % N = j % N
  <2> DEFINE q == (j + 1) \div N
             r == (j + 1) % N
  <2>1. q \in Nat /\ r \in 0..N - 1 /\ j + 1 = N * q + r BY <1>1, DivMod
  <2> HIDE DEF q, r
  <2>2. CASE r = 0
    <3>1. q > 0 BY <2>1, <2>2, <1>1, SMT
    <3>2. N * (q - 1) = N * q - N /\ N * 0 = 0 BY <2>1, <1>1, SMT
    <3>3. q - 1 \in Nat /\ N - 1 \in 0..N - 1 /\ N - 1 \in Nat BY <1>1, <2>1, <3>1
    <3>4. j = N * (q - 1) + (N - 1) /\ N - 1 = N * 0 + (N - 1)
      <4> DEFINE x == N * q
                 y == N * (q - 1)
                 z == N * 0
      <4>1. x \in Int /\ y = x - N /\ j + 1 = x + r /\ z = 0 BY <1>1, <2>1, <3>2
      <4> HIDE DEF x, y, z
      <4>2. j = y + (N - 1) /\ N - 1 = z + (N - 1) BY <4>1, <2>2, <1>1
      <4> QED BY <4>2 DEF y, z
    <3>5. j % N = N - 1
      <4> DEFINE a == N - 1
                 b == q - 1
      <4>1. a \in 0..N - 1 /\ b \in Nat /\ j = N * b + a BY <3>3, <3>4
      <4> HIDE DEF a, b
      <4>2. j % N = a BY <4>1, <1>1, ModUnique
      <4> QED BY <4>2 DEF a
    <3>6. (N - 1) % N = N - 1
      <4> DEFINE a == N - 1
      <4>1. a \in Nat /\ a \in 0..N - 1 /\ a = N * 0 + a BY <3>3, <3>4
      <4> HIDE DEF a
      <4>2. a % N = a BY <4>1, <1>1, ModUnique
      <4> QED BY <4>2 DEF a
    <3>7. r + N - 1 = N - 1 BY <2>2, <1>1
    <3>8. (r + N - 1) % N = j % N BY <3>5, <3>6, <3>7
    <3> QED BY <3>8 DEF r
  <2>3. CASE r > 0
    <3>0. r - 1 \in 0..N - 1 /\ j = N * q + (r - 1) BY <2>1, <2>3, <1>1, SMT
    <3>1. j % N = r - 1 BY <3>0, <2>1, <1>1, ModUnique
    <3>2. r + N - 1 = N * 1 + (r - 1) BY <2>1, <1>1
    <3>4. r + N - 1 \in Nat BY <2>1, <2>3, <1>1
    <3>3. (r + N - 1) % N = r - 1 BY <3>0, <3>2, <3>4, <1>1, ModUnique
    <3> QED BY <3>1, <3>3 DEF r
  <2> QED BY <2>1, <2>2, <2>3
<1>2. (HashPlace(j) + 1) % HashNumBlocks = HashPlace(j + 1) BY Numbers, NextPlace DEF HashPlace
<1>3. (BtPlace(j) + 1) % BtNumBlocks = BtPlace(j + 1) BY Numbers, NextPlace DEF BtPlace
<1> QED BY <1>1, <1>2, <1>3, Numbers DEF HashPlace, BtPlace

(* The types of the fields, one by one.                                  *)
LEMMA Fields ==
  ASSUME Stored
  PROVE  /\ mf.pos \in Nat /\ mf.streamPos \in Nat /\ mf.buffer \in Nat
         /\ mf.pos <= NumInput /\ mf.streamPos <= NumInput
         /\ mf.ended \in BOOLEAN /\ mf.result \in {"ok", "read"}
         /\ mf.directInput \in BOOLEAN
         /\ btData.pos \in Nat /\ btData.buffer \in Int /\ btData.left \in Nat
         /\ btData.hashNumAvail \in Nat /\ btData.failure \in BOOLEAN
         /\ lzData.pos \in Nat /\ lzData.buffer \in Int /\ lzData.left \in Nat
         /\ lzData.btNumAvail \in Nat /\ lzData.failure \in BOOLEAN
         /\ \A j \in Nat : H(j) \in BlockType /\ B(j) \in BlockType
         /\ \A j \in Nat : /\ H(j).first \in Nat /\ H(j).num \in Nat /\ H(j).avail \in Nat
                           /\ B(j).first \in Nat /\ B(j).num \in Nat /\ B(j).avail \in Nat
<1>1. ASSUME NEW j \in Nat PROVE H(j) \in BlockType /\ B(j) \in BlockType
  BY Places DEF Stored, H, B
<1>2. \A j \in Nat : /\ H(j).first \in Nat /\ H(j).num \in Nat /\ H(j).avail \in Nat
                     /\ B(j).first \in Nat /\ B(j).num \in Nat /\ B(j).avail \in Nat
  BY <1>1 DEF BlockType
<1>3. NumInput \in Nat BY Numbers
<1>4. /\ mf.pos \in Nat /\ mf.streamPos \in Nat /\ mf.buffer \in Nat
      /\ mf.pos <= NumInput /\ mf.streamPos <= NumInput
      /\ mf.ended \in BOOLEAN /\ mf.result \in {"ok", "read"}
      /\ mf.directInput \in BOOLEAN
  BY <1>3 DEF Stored
<1>5. /\ btData.pos \in Nat /\ btData.buffer \in Int /\ btData.left \in Nat
      /\ btData.hashNumAvail \in Nat /\ btData.failure \in BOOLEAN
      /\ lzData.pos \in Nat /\ lzData.buffer \in Int /\ lzData.left \in Nat
      /\ lzData.btNumAvail \in Nat /\ lzData.failure \in BOOLEAN
  BY DEF Stored
<1> QED BY <1>1, <1>2, <1>4, <1>5

(* TypeOK is the sum of what the two proofs keep. *)
LEMMA DataTypes == Data => TypeOK
<1> SUFFICES ASSUME Data PROVE TypeOK OBVIOUS
<1>1. \A s \in Syncs : /\ freeSemaphore[s] \in 0..NumBlocks(s)
                       /\ filledSemaphore[s] \in 0..NumBlocks(s)
  BY Numbers DEF Data, IInv, Typed, Rings, NumBlocks, Syncs, BtFilling, LzUsing, HashFilling,
     BtUsing
<1>2. mf.buffer \in 0..BlockSize + NumInput BY Fields, Numbers DEF Data, Window, WindowStart
<1>3. mf \in [pos : 0..NumInput, streamPos : 0..NumInput,
              buffer : 0..BlockSize + NumInput, ended : BOOLEAN,
              result : {"ok", "read"}, directInput : BOOLEAN]
  BY <1>2 DEF Data, Stored
<1>4. \A flag \in {created, needStart, stopWriting, exit, canStart, wasStopped,
                   csWasEntered} : flag \in [Syncs -> BOOLEAN]
  BY DEF Data, IInv, Typed
<1> QED BY <1>1, <1>3, <1>4 DEF Data, IInv, Typed, Stored, BlockType, TypeOK

(* The hash blocks and BT's use of them depend on no more than this. *)
LEMMA HashBlocksFrame ==
  ASSUME NEW m \in Nat,
         hashBuf' = hashBuf,
         mf'.pos = mf.pos, mf'.streamPos = mf.streamPos, mf'.ended = mf.ended,
         mf'.result = mf.result
  PROVE  /\ \A j \in Int : H(j)' = H(j) /\ HFirst(j, m)' = HFirst(j, m)
         /\ \A j \in Int : HEnd(j, m)' = HEnd(j, m)
         /\ AtEnd' = AtEnd /\ Over' = Over
         /\ \A j \in Int : HashBlockOK(j, m)' <=> HashBlockOK(j, m)
  BY DEF H, HFirst, HEnd, AtEnd, Over, HashBlockOK

(* What BT has in hand, and where it is.                                 *)
LEMMA BtSourceFrame ==
  ASSUME NEW n \in Nat, NEW m \in Nat, NEW past \in BOOLEAN,
         BtSource(n, m, past),
         hashBuf' = hashBuf,
         mf'.pos = mf.pos, mf'.streamPos = mf.streamPos, mf'.ended = mf.ended,
         mf'.result = mf.result,
         btData'.pos = btData.pos, btData'.left = btData.left,
         btData'.hashNumAvail = btData.hashNumAvail,
         btData'.failure = btData.failure, Waits' <=> Waits,
         bt' = "get" => bt = "get" \/ ~btData.failure
  PROVE  BtSource(n, m, past)'
  BY HashBlocksFrame DEF BtSource

(* The ring between HASH and BT.                                         *)
LEMMA HashSideFrame ==
  ASSUME NEW n \in Nat, NEW m \in Nat, NEW past \in BOOLEAN,
         HashSide(n, m, past),
         hashBuf' = hashBuf,
         mf'.pos = mf.pos, mf'.streamPos = mf.streamPos, mf'.ended = mf.ended,
         mf'.result = mf.result,
         btData'.pos = btData.pos, btData'.left = btData.left,
         btData'.hashNumAvail = btData.hashNumAvail,
         btData'.failure = btData.failure,
         filledSemaphore'["hash"] = filledSemaphore["hash"],
         numProcessedBlocks'["hash"] = numProcessedBlocks["hash"],
         blockIndex'["hash"] = blockIndex["hash"],
         needStart'["hash"] = needStart["hash"],
         canStart'["hash"] = canStart["hash"],
         BtUsing' = BtUsing, Waits' <=> Waits,
         bt' = "get" => bt = "get" \/ ~btData.failure
  PROVE  HashSide(n, m, past)'
  BY HashBlocksFrame, BtSourceFrame DEF HashSide, HashRing

(* BT's blocks, and LZ's use of them. *)
LEMMA BtBlocksFrame ==
  ASSUME NEW c \in Nat, NEW e \in Nat, NEW past \in BOOLEAN,
         btBuf' = btBuf,
         mf'.pos = mf.pos, mf'.streamPos = mf.streamPos, mf'.ended = mf.ended,
         mf'.result = mf.result,
         btData'.pos = btData.pos, btData'.hashNumAvail = btData.hashNumAvail,
         Constructing' <=> Constructing, bt' = "filled" <=> bt = "filled"
  PROVE  /\ \A j \in Int : B(j)' = B(j)
         /\ \A j \in Int : BFirst(j, e, past)' = BFirst(j, e, past)
         /\ \A j \in Int : BAvail(j, e)' = BAvail(j, e)
         /\ \A j \in Int : BtBlockOK(j, e, past)' <=> BtBlockOK(j, e, past)
         /\ Construction(e, past)' <=> Construction(e, past)
  BY DEF B, To, AtEnd, Over, Begun, BFirst, BAvail, BtBlockOK, Construction

(* The ring between BT and LZ.                                           *)
LEMMA BtSideFrame ==
  ASSUME NEW c \in Nat, NEW e \in Nat, NEW past \in BOOLEAN,
         BtSide(c, e, past),
         btBuf' = btBuf,
         mf'.pos = mf.pos, mf'.streamPos = mf.streamPos, mf'.ended = mf.ended,
         mf'.result = mf.result,
         btData'.pos = btData.pos, btData'.hashNumAvail = btData.hashNumAvail,
         Constructing' <=> Constructing, bt' = "filled" <=> bt = "filled",
         lzData'.pos = lzData.pos, lzData'.left = lzData.left,
         lzData'.btNumAvail = lzData.btNumAvail, lzData'.failure = lzData.failure,
         filledSemaphore'["bt"] = filledSemaphore["bt"],
         numProcessedBlocks'["bt"] = numProcessedBlocks["bt"],
         blockIndex'["bt"] = blockIndex["bt"],
         needStart'["bt"] = needStart["bt"],
         canStart'["bt"] = canStart["bt"],
         lz' = lz
  PROVE  BtSide(c, e, past)'
  BY BtBlocksFrame DEF BtSide, BtRing, LzUsing, LzSource, LzWaits, LzInHand

(* A step that brings no new input and no new start, and keeps both sides. *)
LEMMA FlowStep ==
  ASSUME Flow, Feeding' => Feeding, Serving' => Serving,
         \A n, m \in Nat, past \in BOOLEAN :
            HashSide(n, m, past) => HashSide(n, m, past)',
         \A c, e \in Nat, past \in BOOLEAN :
            Serving' /\ BtSide(c, e, past) => BtSide(c, e, past)'
  PROVE  Flow'
  BY DEF Flow

(* Nothing flows when nobody is fed. *)
LEMMA NoFlow == ASSUME IInv', lz' \in {"none", "idle"} \cup Leaving PROVE ~Feeding' /\ ~Serving'
  BY DEF IInv, BtHandshake, Feeding, Serving, Leaving

(* A thread that leaves the input and the pointers into it alone.        *)
LEMMA WindowFrame ==
  ASSUME Window, UNCHANGED <<mf, btData, lzData>>,
         hash' = hash \/ hash' \notin {"enterHash", "move", "fill"}
  PROVE  Window'
  BY DEF Window, WindowStart, NeedMove

(* ... keeps the history, too, unless it starts a flow.                  *)
LEMMA HistoryFrame ==
  ASSUME History, UNCHANGED <<mf, btData, lzData>>,
         Feeding' => Feeding, Serving' => Serving
  PROVE  History'
  BY DEF History, WindowStart

(* The types of what a step leaves alone stay.                           *)
LEMMA StoredFrame ==
  ASSUME Stored, UNCHANGED <<numProcessedBlocks, blockIndex, mf, hashBuf, btBuf,
                             btData, lzData, jobs>>
  PROVE  Stored'
  BY DEF Stored

(* A place in a ring moves on within the ring.                           *)
LEMMA IndexTypes ==
  ASSUME NEW index \in [Syncs -> Nat],
         \A s \in Syncs : index[s] \in 0..NumBlocks(s) - 1,
         NEW t \in Syncs, NEW k \in {0, 1 % NumBlocks(t), (index[t] + 1) % NumBlocks(t)}
  PROVE  /\ [index EXCEPT ![t] = k] \in [Syncs -> Nat]
         /\ \A s \in Syncs : [index EXCEPT ![t] = k][s] \in 0..NumBlocks(s) - 1
  BY Numbers, DivMod DEF NumBlocks, Syncs

-----------------------------------------------------------------------------
(* HASH *)

LEMMA HashStartData == ASSUME Data, HashStart PROVE Data'
<1> USE DEF startVars, stopVars, lockVars, ringVars
<1>1. IInv' BY HashStartStep DEF Data
<1>2. Stored'
  <2>1. /\ blockIndex' \in [Syncs -> Nat]
        /\ \A s \in Syncs : blockIndex'[s] \in 0..NumBlocks(s) - 1
    BY IndexTypes DEF Data, Stored, HashStart, Syncs
  <2> QED BY <2>1 DEF Data, Stored, HashStart
<1>3. (Feeding' <=> Feeding) /\ (Serving' <=> Serving)
  BY DEF HashStart, WaitStart, Feeding, Serving, Data, IInv, Typed, Syncs, BtHandshake
<1>4. Window' BY WindowFrame DEF Data, HashStart
<1>5. History' BY <1>3, HistoryFrame DEF Data, HashStart
<1>6. Awake'
  BY <1>3 DEF Data, Awake, HashStart, WaitStart, IInv, Typed, Syncs, HashHandshake, BtHandshake,
     Asleep, Leaving, Serving, Feeding, Event_CanWait
<1>7. ASSUME NEW n \in Nat, NEW m \in Nat, NEW past \in BOOLEAN, HashSide(n, m, past)
      PROVE  HashSide(n, m, past)'
  <2>1. \A j \in Int : HashBlockOK(j, m)' <=> HashBlockOK(j, m)
    BY HashBlocksFrame DEF HashStart
  <2>2. HashRing(n, m)'
    <3>1. ASSUME ~needStart["hash"] PROVE m = 0 /\ HashPlace(m) = 0
      BY <1>7, <3>1, Places DEF HashSide, HashRing, HashStart, WaitStart, Event_CanWait
    <3>2. blockIndex'["hash"] = 0 /\ ~canStart'["hash"]
      BY DEF HashStart, WaitStart, Event_Wait, Data, Stored, IInv, Typed, Syncs
    <3> QED BY <1>7, <2>1, <3>1, <3>2 DEF HashSide, HashRing, HashStart, BtUsing
  <2>3. BtSource(n, m, past)' BY <1>7, BtSourceFrame DEF HashSide, HashStart, Waits
  <2> QED BY <2>2, <2>3 DEF HashSide
<1>8. ASSUME NEW c \in Nat, NEW e \in Nat, NEW past \in BOOLEAN, BtSide(c, e, past)
      PROVE  BtSide(c, e, past)'
  <2>1. canStart'["bt"] = canStart["bt"] /\ blockIndex'["bt"] = blockIndex["bt"]
    BY DEF HashStart, WaitStart, Data, Stored, IInv, Typed, Syncs
  <2> QED BY <1>8, <2>1, BtSideFrame DEF HashStart, Constructing
<1>9. Flow' BY <1>3, <1>7, <1>8, FlowStep DEF Data
<1> QED BY <1>1, <1>2, <1>4, <1>5, <1>6, <1>9 DEF Data

LEMMA HashEnterData == ASSUME Data, HashEnterBt \/ HashEnterHash PROVE Data'
<1> USE DEF startVars, stopVars, lockVars, ringVars
<1>1. IInv' BY HashEnterBtStep, HashEnterHashStep DEF Data
<1>2. Stored' BY StoredFrame DEF Data, HashEnterBt, HashEnterHash
<1>3. (Feeding' <=> Feeding) /\ (Serving' <=> Serving)
  BY DEF HashEnterBt, HashEnterHash, Feeding, Serving
<1>4. Window' BY DEF Data, Window, WindowStart, NeedMove, HashEnterBt, HashEnterHash
<1>5. History' BY <1>3, HistoryFrame DEF Data, HashEnterBt, HashEnterHash
<1>6. Awake' BY <1>3 DEF Data, Awake, HashEnterBt, HashEnterHash, Asleep, Serving
<1>7. ASSUME NEW n \in Nat, NEW m \in Nat, NEW past \in BOOLEAN, HashSide(n, m, past)
      PROVE  HashSide(n, m, past)'
  BY <1>7, HashSideFrame DEF HashEnterBt, HashEnterHash, BtUsing, Waits
<1>8. ASSUME NEW c \in Nat, NEW e \in Nat, NEW past \in BOOLEAN, BtSide(c, e, past)
      PROVE  BtSide(c, e, past)'
  BY <1>8, BtSideFrame DEF HashEnterBt, HashEnterHash, Constructing
<1>9. Flow' BY <1>3, <1>7, <1>8, FlowStep DEF Data
<1> QED BY <1>1, <1>2, <1>4, <1>5, <1>6, <1>9 DEF Data

LEMMA HashWaitFreeData == ASSUME Data, HashWaitFree PROVE Data'
<1> USE DEF startVars, stopVars, lockVars, ringVars
<1>1. IInv' BY HashWaitFreeStep DEF Data
<1>2. Stored' BY StoredFrame DEF Data, HashWaitFree
<1>3. (Feeding' <=> Feeding) /\ (Serving' <=> Serving) BY DEF HashWaitFree, Feeding, Serving
<1>4. Window' BY DEF Data, Window, WindowStart, NeedMove, HashWaitFree
<1>5. History' BY <1>3, HistoryFrame DEF Data, HashWaitFree
<1>6. Awake'
  BY <1>3 DEF Data, IInv, HashHandshake, HashWaitFree, Asleep, BtHandshake, Stopping, Feeding,
     Awake, Serving
<1>7. ASSUME NEW n \in Nat, NEW m \in Nat, NEW past \in BOOLEAN, HashSide(n, m, past)
      PROVE  HashSide(n, m, past)'
  BY <1>7, HashSideFrame DEF HashWaitFree, BtUsing, Waits
<1>8. ASSUME NEW c \in Nat, NEW e \in Nat, NEW past \in BOOLEAN, BtSide(c, e, past)
      PROVE  BtSide(c, e, past)'
  BY <1>8, BtSideFrame DEF HashWaitFree, Constructing
<1>9. Flow' BY <1>3, <1>7, <1>8, FlowStep DEF Data
<1> QED BY <1>1, <1>2, <1>4, <1>5, <1>6, <1>9 DEF Data

(* A pipeline that serves LZ is fed by HASH.                             *)
LEMMA ServingFeeds == Data => (Serving => Feeding)
  BY DEF Data, IInv, BtHandshake, Awake, Serving, Feeding, Stopping, Asleep

(* The counts of a ring are numbers.                                     *)
LEMMA UsingTypes ==
  ASSUME IInv
  PROVE  /\ BtUsing \in 0..1 /\ LzUsing \in 0..1 /\ BtFilling \in 0..1 /\ HashFilling \in 0..1
         /\ freeSemaphore["hash"] \in Nat /\ freeSemaphore["bt"] \in Nat
         /\ filledSemaphore["hash"] \in Nat /\ filledSemaphore["bt"] \in Nat
  BY DEF IInv, Typed, Syncs, BtUsing, LzUsing, BtFilling, HashFilling

(* As long as the input goes on, the window holds all that lies between    *)
(* the positions of the threads: no more than the rings can hold.          *)
LEMMA BtLag ==
  ASSUME Data, ~Over, Feeding
  PROVE  mf.pos <= btData.pos + HashNumBlocks * HashBlockSize
<1>0. PICK n \in Nat, m \in Nat, past \in BOOLEAN : HashSide(n, m, past) BY DEF Data, Flow
<1>1. ~past BY <1>0 DEF HashSide, BtSource, AtEnd
<1>2. m = n + filledSemaphore["hash"] + BtUsing /\ m - n \in Nat /\ m - n <= HashNumBlocks
  <2>1. m = n + filledSemaphore["hash"] + BtUsing BY <1>0 DEF HashSide, HashRing
  <2> QED BY <2>1, UsingTypes, Numbers DEF Data, IInv, Rings
<1> DEFINE k == m - n
           L == HashBlockSize - 2
<1>3. k \in Nat /\ L \in Nat /\ k <= HashNumBlocks BY <1>2, Numbers
<1>4. k * L <= HashNumBlocks * L /\ k * L \in Nat /\ HashNumBlocks * L \in Nat
  BY <1>3, Numbers, Products
<1>5. HashNumBlocks * L <= HashNumBlocks * HashBlockSize /\ HashNumBlocks * HashBlockSize \in Nat
  BY <1>3, Numbers, SMT
<1>6. n < m => mf.pos <= H(n).first + k * L BY <1>0, <1>2 DEF HashSide, HashRing, HashBlockOK
<1>7. mf.pos <= btData.pos + k * L
  <2> HIDE DEF L
  <2>0. mf.pos \in Nat /\ btData.pos \in Nat /\ H(n).first \in Nat /\ H(n).num \in Nat
        /\ btData.left \in Nat
    BY Fields DEF Data
  <2>1. CASE Waits BY <1>0, <1>1, <2>1, <1>2, <1>4, <1>6, <2>0 DEF HashSide, BtSource, HFirst
  <2>2. CASE ~Waits
    <3>1. BtUsing = 1
      BY <2>2 DEF Waits, BtUsing, Feeding, Data, IInv, HashHandshake, BtHandshake, Asleep
    <3>2. btData.left <= H(n).num /\ btData.pos = H(n).first + H(n).num - btData.left
      BY <1>0, <1>1, <2>2 DEF HashSide, BtSource
    <3> QED BY <1>2, <1>4, <1>6, <2>0, <3>1, <3>2, UsingTypes DEF Data
  <2> QED BY <2>1, <2>2
<1>8. mf.pos \in Nat /\ btData.pos \in Nat BY Fields DEF Data
<1> HIDE DEF k, L
<1> QED BY <1>4, <1>5, <1>7, <1>8

(* The same between BT and LZ.                                           *)
LEMMA LzLag ==
  ASSUME Data, ~Over, Serving
  PROVE  btData.pos <= lzData.pos + BtNumBlocks * BtBlockSize
<1>0. PICK n \in Nat, m \in Nat, past \in BOOLEAN :
         HashSide(n, m, past) /\ \E c, e \in Nat : BtSide(c, e, past)
  BY ServingFeeds DEF Data, Flow
<1>9. PICK c \in Nat, e \in Nat : BtSide(c, e, past) BY <1>0
<1>1. ~past BY <1>0 DEF HashSide, BtSource, AtEnd
<1>2. /\ e = c + filledSemaphore["bt"] + LzUsing
      /\ e - c \in Nat /\ e - c + BtFilling <= BtNumBlocks
  BY <1>9, UsingTypes, Numbers DEF BtSide, BtRing, Data, IInv, Rings
<1> DEFINE k == e - c
<1>3. k \in Nat /\ BtLimit \in Nat /\ k <= BtNumBlocks /\ BtNumBlocks \in Nat
  BY <1>2, Numbers, UsingTypes DEF Data
<1>4. /\ k * BtLimit \in Nat /\ BtNumBlocks * BtLimit \in Nat
      /\ k * BtLimit <= BtNumBlocks * BtLimit
      /\ (k + 1) * BtLimit = k * BtLimit + BtLimit
      /\ k + 1 <= BtNumBlocks => (k + 1) * BtLimit <= BtNumBlocks * BtLimit
  BY <1>3, Products
<1>5. BtNumBlocks * BtLimit <= BtNumBlocks * BtBlockSize
  BY LzFindMtAssumption, <1>3 DEF LzFindMtAssumption, BtLimit
<1>t. /\ btData.pos \in Nat /\ B(e).num \in Nat /\ lzData.pos \in Nat /\ lzData.left \in Nat
      /\ B(c).num \in Nat
  BY Fields DEF Data
<1>6. Begun(e, past) \in Int /\ (c < e => BFirst(c, e, past) \in Nat)
  BY <1>1, <1>2, <1>t, Fields DEF Begun, To, BFirst, Data
<1>7. Begun(e, past) <= BFirst(c, e, past) + k * BtLimit /\ BFirst(c, e, past) \in Int
  BY <1>4, <1>6, <1>9, <1>2 DEF BFirst, BtSide, BtRing, BtBlockOK
<1>8. BFirst(c, e, past) <= lzData.pos
  BY <1>9, <1>7, <1>t DEF BtSide, LzSource, LzWaits, LzInHand
<1>10. btData.pos <= Begun(e, past) + (IF Constructing THEN BtLimit ELSE 0)
  BY <1>1, <1>9, <1>t, <1>3 DEF Begun, To, BtSide, Construction
<1>11. Constructing => k + 1 <= BtNumBlocks BY <1>2, <1>3 DEF Constructing, BtFilling
<1> HIDE DEF k
<1>12. btData.pos <= lzData.pos + BtNumBlocks * BtLimit
  BY <1>10, <1>7, <1>8, <1>11, <1>4, <1>3, <1>6, <1>t
<1>13. BtNumBlocks * BtBlockSize \in Nat BY <1>3, LzFindMtAssumption DEF LzFindMtAssumption
<1> QED BY <1>12, <1>5, <1>13, <1>4, <1>t

LEMMA HashMoveData == ASSUME Data, HashMove PROVE Data'
<1> USE DEF startVars, stopVars, lockVars, ringVars
<1>1. IInv' BY HashMoveStep DEF Data
<1>n. NeedMove /\ ~Over /\ hash = "move" /\ hash' = "loop"
  BY DEF Data, Window, HashMove, NeedMove, Over
<1>t. /\ mf.pos \in Nat /\ mf.buffer \in Nat /\ mf.streamPos \in Nat
      /\ btData.pos \in Nat /\ btData.buffer \in Int
      /\ lzData.pos \in Nat /\ lzData.buffer \in Int
  BY Fields DEF Data
<1>o. /\ MoveOffset \in Nat /\ mf.buffer - MoveOffset = KeepSizeBefore
      /\ KeepSizeBefore <= mf.buffer /\ KeepSizeBefore \in Nat
  BY <1>n, <1>t, Numbers DEF NeedMove, MoveOffset
<1>u. /\ mf' = [mf EXCEPT !.buffer = KeepSizeBefore]
      /\ btData' = [btData EXCEPT !.buffer = @ - MoveOffset]
      /\ lzData' = [lzData EXCEPT !.buffer = @ - MoveOffset]
  BY <1>o DEF HashMove
<1>f. /\ mf'.pos = mf.pos /\ mf'.streamPos = mf.streamPos /\ mf'.ended = mf.ended
      /\ mf'.result = mf.result /\ mf'.directInput = mf.directInput
      /\ mf'.buffer = KeepSizeBefore
      /\ btData'.pos = btData.pos /\ btData'.left = btData.left
      /\ btData'.hashNumAvail = btData.hashNumAvail
      /\ btData'.failure = btData.failure
      /\ btData'.buffer = btData.buffer - MoveOffset
      /\ lzData'.pos = lzData.pos /\ lzData'.left = lzData.left
      /\ lzData'.btNumAvail = lzData.btNumAvail
      /\ lzData'.failure = lzData.failure
      /\ lzData'.buffer = lzData.buffer - MoveOffset
  BY <1>u DEF Data, Stored
<1>2. Stored'
  <2>1. mf' \in [pos : 0..NumInput, streamPos : 0..NumInput, buffer : Nat,
                 ended : BOOLEAN, result : {"ok", "read"}, directInput : BOOLEAN]
    BY <1>u, <1>o DEF Data, Stored
  <2>2. btData' \in [pos : Nat, buffer : Int, left : Nat, hashNumAvail : Nat,
                     failure : BOOLEAN]
    <3> DEFINE v == btData.buffer - MoveOffset
    <3>1. v \in Int /\ btData' = [btData EXCEPT !.buffer = v] BY <1>u, <1>o, <1>t
    <3> HIDE DEF v
    <3> QED BY <3>1 DEF Data, Stored
  <2>3. lzData' \in [pos : Nat, buffer : Int, left : Nat, btNumAvail : Nat,
                     failure : BOOLEAN]
    <3> DEFINE v == lzData.buffer - MoveOffset
    <3>1. v \in Int /\ lzData' = [lzData EXCEPT !.buffer = v] BY <1>u, <1>o, <1>t
    <3> HIDE DEF v
    <3> QED BY <3>1 DEF Data, Stored
  <2> QED BY <2>1, <2>2, <2>3 DEF Data, Stored, HashMove
<1>3. (Feeding' <=> Feeding) /\ (Serving' <=> Serving) BY DEF HashMove, Feeding, Serving
<1>w. /\ WindowStart = mf.pos - mf.buffer /\ WindowStart \in Int
      /\ WindowStart' = mf.pos - KeepSizeBefore /\ WindowStart' = WindowStart + MoveOffset
  BY <1>f, <1>o, <1>t DEF WindowStart
<1>4. Window'
  <2> DEFINE W == WindowStart
  <2>1. W \in Int /\ W' = W + MoveOffset /\ MoveOffset \in Nat BY <1>w, <1>o
  <2>2. ~mf.directInput /\ mf.streamPos - W <= BlockSize BY <1>n DEF Data, Window, NeedMove
  <2>3. btData.buffer = btData.pos - W /\ lzData.buffer = lzData.pos - W
        /\ mf.pos <= mf.streamPos /\ mf.buffer <= mf.pos /\ ~mf.ended
    BY <1>n DEF Data, Window, NeedMove
  <2> HIDE DEF W
  <2>4. mf.streamPos - W' <= BlockSize BY <2>1, <2>2, <1>t, Numbers
  <2>5. btData'.buffer = btData'.pos - W' /\ lzData'.buffer = lzData'.pos - W'
    BY <2>1, <2>3, <1>t, <1>f
  <2>6. mf'.buffer <= mf'.pos BY <2>3, <1>o, <1>t, <1>f
  <2> QED BY <2>2, <2>3, <2>4, <2>5, <2>6, <1>f, <1>n DEF Window, W
<1>k. KeepSizeBefore = HistorySize + HashNumBlocks * HashBlockSize
                          + BtNumBlocks * BtBlockSize + 1
      /\ HashNumBlocks * HashBlockSize \in Nat /\ BtNumBlocks * BtBlockSize \in Nat
      /\ HistorySize \in Nat
  BY LzFindMtAssumption, Numbers DEF LzFindMtAssumption, KeepSizeBefore
<1>5. History'
  <2> DEFINE P == HashNumBlocks * HashBlockSize
             Q == BtNumBlocks * BtBlockSize
  <2>1. ASSUME Feeding PROVE btData.pos - WindowStart' >= HistorySize
    BY <2>1, <1>n, BtLag, <1>k, <1>w, <1>t
  <2>2. ASSUME Serving PROVE lzData.pos - WindowStart' >= HistorySize
    BY <2>2, <1>n, BtLag, LzLag, ServingFeeds, <1>k, <1>w, <1>t
  <2> QED BY <2>1, <2>2, <1>3, <1>f DEF History
<1>6. Awake' BY <1>3 DEF Data, Awake, HashMove, Asleep, Serving
<1>7. ASSUME NEW n \in Nat, NEW m \in Nat, NEW past \in BOOLEAN, HashSide(n, m, past)
      PROVE  HashSide(n, m, past)'
  BY <1>7, <1>f, HashSideFrame DEF HashMove, BtUsing, Waits
<1>8. ASSUME NEW c \in Nat, NEW e \in Nat, NEW past \in BOOLEAN, BtSide(c, e, past)
      PROVE  BtSide(c, e, past)'
  BY <1>8, <1>f, BtSideFrame DEF HashMove, Constructing
<1>9. Flow' BY <1>3, <1>7, <1>8, FlowStep DEF Data
<1> QED BY <1>1, <1>2, <1>4, <1>5, <1>6, <1>9 DEF Data

(* What MatchFinder_ReadIfRequired leaves of the input and of the window. *)
LEMMA Reading ==
  ASSUME Stored, Window, ~NeedMove, NEW m \in AfterRead(mf)
  PROVE  /\ m \in [pos : 0..NumInput, streamPos : 0..NumInput, buffer : Nat,
                   ended : BOOLEAN, result : {"ok", "read"}, directInput : BOOLEAN]
         /\ m.pos = mf.pos /\ m.buffer = mf.buffer /\ m.directInput = mf.directInput
         /\ mf.streamPos <= m.streamPos
         /\ Over => m = mf
         /\ m.ended => m.streamPos = NumInput
         /\ ~m.directInput => m.streamPos - WindowStart <= BlockSize
         /\ Avail(m) < NumHashBytes => m.ended \/ m.result # "ok"
<1>t. /\ mf.pos \in Nat /\ mf.buffer \in Nat /\ mf.streamPos \in Nat
      /\ mf.pos <= NumInput /\ mf.streamPos <= NumInput /\ NumInput \in Nat
      /\ mf.ended \in BOOLEAN /\ mf.result \in {"ok", "read"}
      /\ mf.directInput \in BOOLEAN
  BY Fields, Numbers
<1>m. mf \in [pos : 0..NumInput, streamPos : 0..NumInput, buffer : Nat,
               ended : BOOLEAN, result : {"ok", "read"}, directInput : BOOLEAN]
  BY DEF Stored
<1>k. KeepSizeAfter \in Nat /\ KeepSizeAfter >= NumHashBytes /\ BlockSize \in Nat
      /\ NumHashBytes \in Nat
  BY Numbers
<1>w. /\ mf.pos <= mf.streamPos
      /\ mf.ended => mf.streamPos = NumInput
      /\ WindowStart = mf.pos - mf.buffer
      /\ ~mf.directInput => mf.streamPos - WindowStart <= BlockSize
  BY DEF Window, WindowStart
<1>1. CASE m = mf /\ (Over \/ Avail(mf) > KeepSizeAfter)
  BY <1>1, <1>k, <1>t, <1>m, <1>w DEF Avail, Over
<1>2. CASE ~Over /\ m = [mf EXCEPT !.streamPos = NumInput, !.ended = TRUE] /\ mf.directInput
  <2>1. /\ m.pos = mf.pos /\ m.streamPos = NumInput /\ m.buffer = mf.buffer
        /\ m.ended = TRUE /\ m.result = mf.result /\ m.directInput = mf.directInput
    BY <1>2 DEF Stored
  <2>2. m \in [pos : 0..NumInput, streamPos : 0..NumInput, buffer : Nat,
               ended : BOOLEAN, result : {"ok", "read"}, directInput : BOOLEAN]
    <3>1. NumInput \in 0..NumInput BY <1>t
    <3> QED BY <1>2, <3>1 DEF Stored
  <2> QED BY <1>2, <2>1, <2>2, <1>t
<1>3. CASE /\ ~Over /\ ~mf.directInput
           /\ \E k \in mf.streamPos..NumInput :
                /\ k <= mf.pos + BlockSize - mf.buffer
                /\ \/ /\ m = [mf EXCEPT !.streamPos = k]
                      /\ ~(k < mf.pos + KeepSizeAfter + 1 /\ k < mf.pos + BlockSize - mf.buffer)
                   \/ m = [mf EXCEPT !.streamPos = k, !.ended = TRUE] /\ k = NumInput
                   \/ m = [mf EXCEPT !.streamPos = k, !.result = "read"]
  <2>1. PICK k \in mf.streamPos..NumInput :
                /\ k <= mf.pos + BlockSize - mf.buffer
                /\ \/ /\ m = [mf EXCEPT !.streamPos = k]
                      /\ ~(k < mf.pos + KeepSizeAfter + 1 /\ k < mf.pos + BlockSize - mf.buffer)
                   \/ m = [mf EXCEPT !.streamPos = k, !.ended = TRUE] /\ k = NumInput
                   \/ m = [mf EXCEPT !.streamPos = k, !.result = "read"]
    BY <1>3
  <2>k. k \in Nat /\ k \in 0..NumInput /\ mf.streamPos <= k BY <2>1, <1>t
  <2>n. BlockSize - mf.buffer > KeepSizeAfter BY <1>3, <1>t, <1>k DEF NeedMove, Over
  <2>w. k - WindowStart <= BlockSize BY <2>1, <2>k, <1>t, <1>w, <1>k
  <2>2. CASE /\ m = [mf EXCEPT !.streamPos = k]
             /\ ~(k < mf.pos + KeepSizeAfter + 1 /\ k < mf.pos + BlockSize - mf.buffer)
    <3>1. /\ m.pos = mf.pos /\ m.streamPos = k /\ m.buffer = mf.buffer
          /\ m.ended = mf.ended /\ m.result = mf.result /\ m.directInput = mf.directInput
      BY <2>2 DEF Stored
    <3>2. m \in [pos : 0..NumInput, streamPos : 0..NumInput, buffer : Nat,
                 ended : BOOLEAN, result : {"ok", "read"}, directInput : BOOLEAN]
      BY <2>2, <2>k DEF Stored
    <3>3. k - mf.pos > KeepSizeAfter BY <2>1, <2>2, <2>n, <2>k, <1>t, <1>k
    <3>4. ~(Avail(m) < NumHashBytes) BY <3>1, <3>3, <2>k, <1>t, <1>k DEF Avail
    <3> QED BY <1>3, <3>1, <3>2, <3>4, <2>k, <2>w DEF Over
  <2>3. CASE m = [mf EXCEPT !.streamPos = k, !.ended = TRUE] /\ k = NumInput
    <3>1. /\ m.pos = mf.pos /\ m.streamPos = k /\ m.buffer = mf.buffer
          /\ m.ended = TRUE /\ m.result = mf.result /\ m.directInput = mf.directInput
      BY <2>3 DEF Stored
    <3>2. m \in [pos : 0..NumInput, streamPos : 0..NumInput, buffer : Nat,
                 ended : BOOLEAN, result : {"ok", "read"}, directInput : BOOLEAN]
      BY <2>3, <2>k DEF Stored
    <3> QED BY <1>3, <2>3, <3>1, <3>2, <2>k, <2>w DEF Over
  <2>4. CASE m = [mf EXCEPT !.streamPos = k, !.result = "read"]
    <3>1. /\ m.pos = mf.pos /\ m.streamPos = k /\ m.buffer = mf.buffer
          /\ m.ended = mf.ended /\ m.result = "read" /\ m.directInput = mf.directInput
      BY <2>4 DEF Stored
    <3>2. m \in [pos : 0..NumInput, streamPos : 0..NumInput, buffer : Nat,
                 ended : BOOLEAN, result : {"ok", "read"}, directInput : BOOLEAN]
      BY <2>4, <2>k DEF Stored
    <3> QED BY <1>3, <3>1, <3>2, <2>k, <2>w DEF Over
  <2> QED BY <2>1, <2>2, <2>3, <2>4
<1> QED BY <1>1, <1>2, <1>3 DEF AfterRead, Over

(* The block that HASH fills, with heads of its positions; and what it     *)
(* does to the input meanwhile.                                            *)
FilledBlock(heads) == [EmptyBlock EXCEPT !.first = mf.pos, !.num = heads,
                                         !.avail = mf'.streamPos - mf.pos]
Fills(heads, num) ==
    LET new == FilledBlock(heads) IN
    /\ hashBuf' = [hashBuf EXCEPT ![blockIndex["hash"]] = new]
    /\ new \in BlockType /\ new.first = mf.pos /\ new.num = heads
    /\ new.avail = mf'.streamPos - mf.pos
    /\ mf' \in [pos : 0..NumInput, streamPos : 0..NumInput, buffer : Nat,
                ended : BOOLEAN, result : {"ok", "read"}, directInput : BOOLEAN]
    /\ mf'.pos = mf.pos + num /\ mf'.buffer = mf.buffer + num
    /\ mf'.directInput = mf.directInput
    /\ mf.streamPos <= mf'.streamPos /\ mf'.pos <= mf'.streamPos
    /\ Over => Over' /\ mf'.streamPos = mf.streamPos /\ mf'.ended = mf.ended
                     /\ mf'.result = mf.result
    /\ mf'.ended => mf'.streamPos = NumInput
    /\ ~mf'.directInput => mf'.streamPos - WindowStart <= BlockSize
    /\ IF new.avail < NumHashBytes
       THEN Over' /\ heads = 0 /\ mf'.pos = mf'.streamPos
       ELSE num = heads /\ heads <= HashBlockSize - 2 /\ heads <= new.avail

(* HashFill in these terms: the read and the LETs are unfolded once.       *)
LEMMA FillFacts ==
  ASSUME Data, HashFill
  PROVE  \E heads, num \in Nat : Fills(heads, num)
<1>n. ~NeedMove /\ Stored /\ Window BY DEF Data, Window, HashFill
<1> DEFINE ends(m) == Avail(m) < NumHashBytes
           most(m) == Avail(m) - NumHashBytes + 1
           headsOf(m) == IF ends(m) THEN 0
                         ELSE IF most(m) > HashBlockSize - 2 THEN HashBlockSize - 2
                         ELSE most(m)
           numOf(m) == IF ends(m) THEN Avail(m) ELSE headsOf(m)
<1>1. PICK m \in AfterRead(mf) :
        /\ hashBuf' = [hashBuf EXCEPT ![blockIndex["hash"]] =
                         [EmptyBlock EXCEPT !.first = m.pos, !.num = headsOf(m),
                                            !.avail = Avail(m)]]
        /\ mf' = [m EXCEPT !.pos = @ + numOf(m), !.buffer = @ + numOf(m)]
  BY DEF HashFill
<1> DEFINE heads == headsOf(m)
           num == numOf(m)
           avail == m.streamPos - m.pos
<1>r. /\ m \in [pos : 0..NumInput, streamPos : 0..NumInput, buffer : Nat,
                ended : BOOLEAN, result : {"ok", "read"}, directInput : BOOLEAN]
      /\ m.pos = mf.pos /\ m.buffer = mf.buffer /\ m.directInput = mf.directInput
      /\ mf.streamPos <= m.streamPos
      /\ Over => m = mf
      /\ m.ended => m.streamPos = NumInput
      /\ ~m.directInput => m.streamPos - WindowStart <= BlockSize
      /\ Avail(m) < NumHashBytes => m.ended \/ m.result # "ok"
  BY <1>n, Reading
<1>t. /\ mf.pos \in Nat /\ mf.streamPos \in Nat /\ mf.buffer \in Nat
      /\ m.pos \in Nat /\ m.streamPos \in Nat /\ m.buffer \in Nat
      /\ m.streamPos <= NumInput /\ NumInput \in Nat
      /\ NumHashBytes \in Nat /\ NumHashBytes > 0
      /\ HashBlockSize \in Nat /\ HashBlockSize > 2
      /\ mf.pos <= mf.streamPos
  BY <1>r, <1>n, Fields, Numbers DEF Window
<1>2. /\ avail \in Nat /\ heads \in Nat /\ num \in Nat /\ num <= avail
      /\ IF avail < NumHashBytes THEN heads = 0 /\ num = avail
         ELSE num = heads /\ heads <= HashBlockSize - 2 /\ heads <= avail
  BY <1>r, <1>t DEF Avail
<1>3. /\ hashBuf' = [hashBuf EXCEPT ![blockIndex["hash"]] =
                       [EmptyBlock EXCEPT !.first = m.pos, !.num = heads, !.avail = avail]]
      /\ mf' = [m EXCEPT !.pos = m.pos + num, !.buffer = m.buffer + num]
  BY <1>1 DEF Avail
<1>e. avail < NumHashBytes => m.ended \/ m.result # "ok" BY <1>r DEF Avail
<1> HIDE DEF heads, num, avail
<1>4. /\ mf'.pos = m.pos + num /\ mf'.streamPos = m.streamPos
      /\ mf'.buffer = m.buffer + num /\ mf'.ended = m.ended /\ mf'.result = m.result
      /\ mf'.directInput = m.directInput
  BY <1>3, <1>r
<1>5. /\ m.pos + num \in 0..NumInput /\ m.buffer + num \in Nat
      /\ m.pos + num <= m.streamPos
      /\ avail < NumHashBytes => m.pos + num = m.streamPos
      /\ avail = m.streamPos - mf.pos
  BY <1>2, <1>r, <1>t DEF avail
<1>6. mf' \in [pos : 0..NumInput, streamPos : 0..NumInput, buffer : Nat,
               ended : BOOLEAN, result : {"ok", "read"}, directInput : BOOLEAN]
  <2> DEFINE x == m.pos + num
             y == m.buffer + num
  <2>1. x \in 0..NumInput /\ y \in Nat /\ mf' = [m EXCEPT !.pos = x, !.buffer = y]
    BY <1>3, <1>5
  <2> HIDE DEF x, y
  <2> QED BY <2>1, <1>r
<1> DEFINE new == [EmptyBlock EXCEPT !.first = mf.pos, !.num = heads,
                                     !.avail = mf'.streamPos - mf.pos]
<1>7. m.pos = mf.pos /\ avail = mf'.streamPos - mf.pos BY <1>4, <1>5, <1>r
<1>b. hashBuf' = [hashBuf EXCEPT ![blockIndex["hash"]] = new] BY <1>3, <1>7
<1>8. new \in BlockType /\ new.first = mf.pos /\ new.num = heads /\ new.avail = avail
  <2>1. EmptyBlock \in BlockType BY DEF EmptyBlock, BlockType
  <2>2. mf.pos \in Nat /\ heads \in Nat /\ avail \in Nat BY <1>2, <1>t
  <2>3. new = [EmptyBlock EXCEPT !.first = mf.pos, !.num = heads, !.avail = avail] BY <1>7
  <2> HIDE DEF new
  <2> QED BY <2>1, <2>2, <2>3 DEF BlockType
<1>9. avail = mf'.streamPos - mf.pos BY <1>4, <1>5
<1> HIDE DEF new
<1>10. Over => Over' /\ mf'.streamPos = mf.streamPos /\ mf'.ended = mf.ended
                     /\ mf'.result = mf.result
  BY <1>r, <1>4 DEF Over
<1>11. /\ mf'.pos = mf.pos + num /\ mf'.buffer = mf.buffer + num
       /\ mf'.directInput = mf.directInput
       /\ mf.streamPos <= mf'.streamPos /\ mf'.pos <= mf'.streamPos
       /\ mf'.ended => mf'.streamPos = NumInput
       /\ ~mf'.directInput => mf'.streamPos - WindowStart <= BlockSize
  BY <1>r, <1>4, <1>5
<1>12. IF avail < NumHashBytes
       THEN Over' /\ heads = 0 /\ mf'.pos = mf'.streamPos
       ELSE num = heads /\ heads <= HashBlockSize - 2 /\ heads <= avail
  BY <1>2, <1>4, <1>5, <1>e DEF Over
<1>13. heads \in Nat /\ num \in Nat BY <1>2
<1> QED BY <1>6, <1>b, <1>8, <1>9, <1>10, <1>11, <1>12, <1>13 DEF new, Fills, FilledBlock

(* The input grows while HASH fills a block, and stays at its end.       *)
LEMMA FillInput ==
  ASSUME Data, HashFill
  PROVE  /\ mf'.pos \in Nat /\ mf'.streamPos \in Nat /\ mf'.streamPos <= NumInput
         /\ mf.pos <= mf'.pos /\ mf.streamPos <= mf'.streamPos /\ mf'.pos <= mf'.streamPos
         /\ Over => Over'
         /\ AtEnd => /\ mf'.pos = mf.pos /\ mf'.streamPos = mf.streamPos
                     /\ mf'.ended = mf.ended /\ mf'.result = mf.result
                     /\ AtEnd'
         /\ WindowStart' = WindowStart
  BY FillFacts, Fields, Numbers DEF Fills, Data, AtEnd, WindowStart

(* LZ's side sees the input grow. *)
LEMMA FillBtSide ==
  ASSUME Data, HashFill, NEW n \in Nat, NEW m \in Nat, NEW past \in BOOLEAN,
         NEW c \in Nat, NEW e \in Nat, HashSide(n, m, past), BtSide(c, e, past)
  PROVE  BtSide(c, e, past)'
<1> USE DEF startVars, stopVars, lockVars
<1>u. /\ UNCHANGED <<btBuf, btData, lzData, bt, lz, needStart, canStart,
                     numProcessedBlocks>>
      /\ filledSemaphore'["bt"] = filledSemaphore["bt"]
      /\ blockIndex'["bt"] = blockIndex["bt"]
  BY DEF HashFill, NextIndex, Release, Data, IInv, Typed, Stored, Syncs
<1>1. CASE AtEnd BY <1>1, <1>u, FillInput, BtSideFrame DEF Constructing
<1>2. CASE ~AtEnd
  <2>p. ~past BY <1>2 DEF HashSide, BtSource
  <2>a. \A j \in c..e - 1 : B(j).avail # 0 BY <1>2 DEF BtSide, BtRing, BtBlockOK
  <2>1. \A j \in Int : B(j)' = B(j) /\ BAvail(j, e)' = BAvail(j, e)
    BY <1>u DEF B, BAvail, Constructing
  <2>2. Begun(e, past)' = Begun(e, past) BY <1>u, <2>1, <2>p DEF Begun, To, Constructing
  <2>c. e = c + filledSemaphore["bt"] + LzUsing /\ c <= e /\ LzUsing' = LzUsing
    BY <1>u, UsingTypes DEF BtSide, BtRing, LzUsing, Data
  <2>3. \A j \in c..e : BFirst(j, e, past)' = BFirst(j, e, past) BY <2>1, <2>2, <2>a DEF BFirst
  <2>4. ASSUME NEW j \in c..e - 1 PROVE BtBlockOK(j, e, past)'
    BY <2>a, Fields, <2>1, <2>3, FillInput, <2>2 DEF BtSide, BtRing, BFirst, Data, BtBlockOK
  <2>5. BtRing(c, e, past)' BY <1>u, <2>4, <2>c DEF BtSide, BtRing
  <2>6. Construction(e, past)' BY <1>u, <2>1, <2>p DEF BtSide, Construction, Constructing
  <2>7. LzSource(c, e, past)'
    BY <2>1, <2>3, <2>c, FillInput, Fields, <1>u DEF Data, BtSide, LzSource, LzWaits, LzInHand
  <2> QED BY <2>5, <2>6, <2>7 DEF BtSide
<1> QED BY <1>1, <1>2

(* The block that HASH has filled is the next one for BT.                *)
LEMMA FillHashSide ==
  ASSUME Data, HashFill, Feeding,
         NEW n \in Nat, NEW m \in Nat, NEW past \in BOOLEAN, HashSide(n, m, past)
  PROVE  HashSide(n, m + 1, past)'
<1> USE DEF startVars, stopVars, lockVars
<1>1. PICK heads \in Nat, num \in Nat : Fills(heads, num) BY FillFacts
<1> DEFINE new == FilledBlock(heads)
<1>2. /\ hashBuf' = [hashBuf EXCEPT ![blockIndex["hash"]] = new]
      /\ new \in BlockType /\ new.first = mf.pos /\ new.num = heads
      /\ new.avail = mf'.streamPos - mf.pos
      /\ IF new.avail < NumHashBytes
         THEN Over' /\ heads = 0 /\ mf'.pos = mf'.streamPos
         ELSE num = heads /\ heads <= HashBlockSize - 2 /\ heads <= new.avail
      /\ mf'.pos = mf.pos + num
  BY <1>1 DEF Fills
<1> HIDE DEF new
<1>i. /\ mf'.pos \in Nat /\ mf'.streamPos \in Nat
      /\ mf.pos <= mf'.pos /\ mf.streamPos <= mf'.streamPos /\ mf'.pos <= mf'.streamPos
      /\ Over => Over'
      /\ AtEnd => /\ mf'.pos = mf.pos /\ mf'.streamPos = mf.streamPos
                  /\ mf'.ended = mf.ended /\ mf'.result = mf.result
                  /\ AtEnd'
  BY FillInput
<1>t. /\ mf.pos \in Nat /\ mf.streamPos \in Nat /\ mf.pos <= mf.streamPos
      /\ HashBlockSize \in Nat /\ HashBlockSize > 2 /\ NumHashBytes \in Nat
      /\ \A j \in Nat : H(j).first \in Nat /\ H(j).num \in Nat /\ H(j).avail \in Nat
  BY Fields, Numbers DEF Data, Window
<1>w. ~needStart["hash"] /\ ~canStart["hash"]
  BY DEF HashFill, Data, IInv, HashHandshake, Asleep
<1>u. /\ UNCHANGED <<btBuf, btData, bt, needStart, canStart, numProcessedBlocks>>
      /\ filledSemaphore'["hash"] = filledSemaphore["hash"] + 1
      /\ BtUsing' = BtUsing
  <2>1. filledSemaphore["hash"] < HashNumBlocks
    BY Clean DEF Data, StopsClean, PostsFit, HashFill
  <2> QED
    BY <2>1, UsingTypes, Numbers
    DEF HashFill, NextIndex, Release, Semaphore_ReleaseN, NumBlocks, Data, IInv, Typed,
        Syncs, BtUsing
<1>r. /\ m = n + filledSemaphore["hash"] + BtUsing /\ n <= m /\ m < n + HashNumBlocks
      /\ numProcessedBlocks["hash"] = HashPlace(n + 1)
      /\ blockIndex["hash"] = HashPlace(m)
      /\ \A j \in n..m - 1 : HashBlockOK(j, m)
  <2>1. /\ m = n + filledSemaphore["hash"] + BtUsing
        /\ numProcessedBlocks["hash"] = HashPlace(n + 1)
        /\ blockIndex["hash"] = HashPlace(m)
        /\ \A j \in n..m - 1 : HashBlockOK(j, m)
    BY <1>w DEF HashSide, HashRing
  <2>2. HashFilling = 1 BY DEF HashFilling, HashFill
  <2>3. n <= m /\ m < n + HashNumBlocks
    BY <2>1, <2>2, UsingTypes, Numbers DEF Data, IInv, Rings
  <2> QED BY <2>1, <2>3
<1>b. blockIndex'["hash"] = HashPlace(m + 1)
  <2>1. blockIndex'["hash"] = (blockIndex["hash"] + 1) % HashNumBlocks
    BY DEF HashFill, NextIndex, Data, Stored, NumBlocks, Syncs
  <2> QED BY <2>1, <1>r, Steps
<1>3. /\ H(m)' = new
      /\ \A j \in n..m - 1 : H(j)' = H(j)
  <2>1. HashPlace(m) \in 0..HashNumBlocks - 1 BY Places
  <2>2. ASSUME NEW j \in n..m - 1 PROVE HashPlace(j) # HashPlace(m)
    <3>1. j \in Nat /\ j <= m /\ m < j + HashNumBlocks /\ j # m BY <1>r, Numbers
    <3> QED BY <3>1, Places
  <2>3. hashBuf' = [hashBuf EXCEPT ![HashPlace(m)] = new] BY <1>2, <1>r
  <2>4. DOMAIN hashBuf = 0..HashNumBlocks - 1 BY DEF Data, Stored
  <2>5. ASSUME NEW j \in n..m - 1 PROVE H(j)' = H(j) BY <2>2, <2>3 DEF H
  <2> QED BY <2>1, <2>3, <2>4, <2>5 DEF H
<1>4. /\ \A j \in n..m : HFirst(j, m + 1)' = HFirst(j, m)
      /\ \A j \in n..m : HEnd(j, m + 1)' = IF j = m THEN mf'.streamPos ELSE HEnd(j, m)
      /\ HFirst(m + 1, m + 1)' = mf'.pos /\ HEnd(m + 1, m + 1)' = mf'.streamPos
  BY <1>2, <1>3, <1>t, <1>i DEF HFirst, HEnd
<1> DEFINE L == HashBlockSize - 2
<1>5. ASSUME NEW j \in n..m - 1 PROVE HashBlockOK(j, m + 1)'
  <2>0. j \in Nat /\ j \in n..m /\ j + 1 \in n..m /\ HashBlockOK(j, m) /\ H(j)' = H(j)
        /\ m - j \in Nat /\ m + 1 - j = m - j + 1
    BY <1>r, <1>3
  <2>1. /\ HFirst(j + 1, m + 1)' = HFirst(j + 1, m)
        /\ HEnd(j + 1, m + 1)' = IF j + 1 = m THEN mf'.streamPos ELSE HEnd(j + 1, m)
    BY <2>0, <1>4
  <2>2. HEnd(m, m) = mf.streamPos BY DEF HEnd
  <2>3. H(j).first + H(j).avail <= HEnd(j + 1, m + 1)'
    BY <2>0, <2>1, <2>2, <1>t, <1>i DEF HashBlockOK
  <2>4. H(j).first + H(j).avail <= mf'.streamPos BY <2>0, <1>t, <1>i DEF HashBlockOK
  <2>5. CASE H(j).avail < NumHashBytes
    BY <2>0, <2>5, <2>1, <2>2, <1>i, <2>3, <2>4 DEF HashBlockOK, AtEnd
  <2>6. CASE ~(H(j).avail < NumHashBytes)
    <3>1. H(j).num <= H(j).avail /\ H(j).first + H(j).num = HFirst(j + 1, m)
      BY <2>0, <2>6 DEF HashBlockOK
    <3>2. ~Over' => mf'.pos <= H(j).first + (m + 1 - j) * (HashBlockSize - 2)
      <4> SUFFICES ASSUME ~Over' PROVE mf'.pos <= H(j).first + (m - j + 1) * L BY <2>0
      <4> DEFINE k == m - j
      <4>1. L \in Nat /\ k \in Nat /\ num <= L /\ H(j).first \in Nat BY <1>2, <1>t, <2>0
      <4>2. mf.pos <= H(j).first + k * L BY <2>0, <1>i DEF HashBlockOK
      <4> HIDE DEF L, k
      <4>3. (k + 1) * L = k * L + L /\ k * L \in Nat BY <4>1, Products
      <4> QED BY <4>1, <4>2, <4>3, <1>2, <1>t, <1>i DEF k
    <3> QED BY <2>0, <2>1, <2>3, <2>4, <2>6, <3>1, <3>2 DEF HashBlockOK
  <2> QED BY <2>5, <2>6
<1>6. HashBlockOK(m, m + 1)' BY <1>2, <1>t, <1>i, <1>4, <1>3 DEF AtEnd, HashBlockOK
<1>7. HashRing(n, m + 1)' BY <1>r, <1>u, UsingTypes, <1>5, <1>6, <1>w, <1>b DEF Data, HashRing
<1>8. BtSource(n, m + 1, past)'
  <2>1. past => AtEnd'
    BY <1>i DEF HashSide, BtSource
  <2>2. ASSUME Waits, ~past
        PROVE  /\ btData.pos = HFirst(n, m + 1)'
               /\ btData.pos + btData.hashNumAvail <= HEnd(n, m + 1)'
    <3>1. btData.pos = HFirst(n, m) /\ btData.pos + btData.hashNumAvail <= HEnd(n, m)
      BY <2>2 DEF HashSide, BtSource
    <3>2. n \in n..m /\ HEnd(m, m) = mf.streamPos
      BY <1>r DEF HEnd
    <3> QED
      BY <3>1, <3>2, <1>4, <1>i, <1>t, Fields DEF Data
  <2>3. ASSUME Waits, past PROVE HFirst(n, m + 1)' = mf'.pos /\ HEnd(n, m + 1)' = mf'.pos
    <3>1. HFirst(n, m) = mf.pos /\ HEnd(n, m) = mf.pos /\ AtEnd
      BY <2>3 DEF HashSide, BtSource
    <3>2. n \in n..m /\ HEnd(m, m) = mf.streamPos
      BY <1>r DEF HEnd
    <3> QED
      BY <3>1, <3>2, <1>4, <1>i
  <2>4. ASSUME ~Waits PROVE H(n)' = H(n)
    <3>1. BtUsing = 1
      BY <2>4 DEF Waits, BtUsing, Feeding, Data, IInv, HashHandshake, BtHandshake, Asleep
    <3> QED
      BY <3>1, <1>r, <1>3, UsingTypes DEF Data
  <2>5. Waits' <=> Waits
    BY <1>u DEF Waits
  <2> QED
    BY <2>1, <2>2, <2>3, <2>4, <2>5, <1>u DEF HashSide, BtSource
<1> QED BY <1>7, <1>8 DEF HashSide

LEMMA HashFillData == ASSUME Data, HashFill PROVE Data'
<1> USE DEF startVars, stopVars, lockVars
<1>1. IInv' BY HashFillStep DEF Data
<1>f. PICK heads \in Nat, num \in Nat : Fills(heads, num) BY FillFacts
<1> DEFINE new == FilledBlock(heads)
<1>g. /\ hashBuf' = [hashBuf EXCEPT ![blockIndex["hash"]] = new]
      /\ new \in BlockType
      /\ mf' \in [pos : 0..NumInput, streamPos : 0..NumInput, buffer : Nat,
                  ended : BOOLEAN, result : {"ok", "read"}, directInput : BOOLEAN]
      /\ mf'.pos = mf.pos + num /\ mf'.buffer = mf.buffer + num
      /\ mf'.directInput = mf.directInput /\ mf'.pos <= mf'.streamPos
      /\ mf'.ended => mf'.streamPos = NumInput
      /\ ~mf'.directInput => mf'.streamPos - WindowStart <= BlockSize
  BY <1>f DEF Fills
<1> HIDE DEF new
<1>w. WindowStart' = WindowStart BY FillInput
<1>2. Stored'
  <2>1. /\ blockIndex' \in [Syncs -> Nat]
        /\ \A s \in Syncs : blockIndex'[s] \in 0..NumBlocks(s) - 1
    BY IndexTypes DEF Data, Stored, HashFill, Syncs, NextIndex
  <2>2. hashBuf' \in [0..HashNumBlocks - 1 -> BlockType] BY <1>g DEF Data, Stored
  <2> QED BY <1>g, <2>1, <2>2 DEF Data, Stored, HashFill
<1>3. (Feeding' <=> Feeding) /\ (Serving' <=> Serving) BY DEF HashFill, Feeding, Serving
<1>4. Window' BY <1>g, Fields, <1>w DEF Data, Window, HashFill
<1>5. History' BY <1>3, <1>w DEF Data, History, HashFill
<1>6. Awake' BY <1>3 DEF Data, Awake, HashFill, Asleep, Serving
<1>9. Flow' BY <1>3, FillHashSide, FillBtSide DEF Flow, Data
<1> QED BY <1>1, <1>2, <1>4, <1>5, <1>6, <1>9 DEF Data

-----------------------------------------------------------------------------
(* BT *)

LEMMA BtStartData == ASSUME Data, BtStart PROVE Data'
<1> USE DEF startVars, stopVars, lockVars, ringVars
<1>1. IInv' BY BtStartStep DEF Data
<1>2. Stored'
  <2>1. /\ blockIndex' \in [Syncs -> Nat]
        /\ \A s \in Syncs : blockIndex'[s] \in 0..NumBlocks(s) - 1
    BY IndexTypes DEF Data, Stored, BtStart, Syncs
  <2> QED BY <2>1 DEF Data, Stored, BtStart
<1>u. /\ canStart["bt"] /\ ~canStart'["bt"] /\ canStart'["hash"] = canStart["hash"]
      /\ bt = "start" /\ bt' \in {"dead", "loop"}
      /\ blockIndex'["bt"] = 0 /\ blockIndex'["hash"] = blockIndex["hash"]
      /\ ~needStart["bt"] => bt' = "loop"
  BY DEF BtStart, WaitStart, Event_CanWait, Event_Wait, Data, IInv, Typed, Stored, Syncs,
     BtHandshake
<1>3. Feeding' <=> Feeding BY <1>u DEF BtStart, Feeding, Asleep
<1>s. Serving' <=> Serving BY DEF BtStart, Serving
<1>4. Window' BY WindowFrame DEF Data, BtStart
<1>5. History' BY <1>3, <1>s, HistoryFrame DEF Data, BtStart
<1>6. Awake' BY <1>3, <1>u DEF Data, Awake, BtStart, Asleep, Serving
<1>7. ASSUME NEW n \in Nat, NEW m \in Nat, NEW past \in BOOLEAN, HashSide(n, m, past)
      PROVE  HashSide(n, m, past)'
  BY <1>7, <1>u, HashSideFrame DEF BtStart, BtUsing, Waits
<1>8. ASSUME NEW c \in Nat, NEW e \in Nat, NEW past \in BOOLEAN, BtSide(c, e, past)
      PROVE  BtSide(c, e, past)'
  <2>1. /\ \A j \in Int : B(j)' = B(j)
        /\ \A j \in Int : BFirst(j, e, past)' = BFirst(j, e, past)
        /\ \A j \in Int : BAvail(j, e)' = BAvail(j, e)
        /\ \A j \in Int : BtBlockOK(j, e, past)' <=> BtBlockOK(j, e, past)
        /\ Construction(e, past)' <=> Construction(e, past)
    BY <1>u, BtBlocksFrame DEF BtStart, Constructing
  <2>2. BtRing(c, e, past)' BY <1>8, <2>1, <1>u, Places DEF BtSide, BtRing, BtStart, LzUsing
  <2>3. LzSource(c, e, past)' BY <1>8, <2>1 DEF BtSide, LzSource, LzWaits, LzInHand, BtStart
  <2> QED BY <1>8, <2>1, <2>2, <2>3 DEF BtSide
<1>9. Flow' BY <1>3, <1>s, <1>7, <1>8, FlowStep DEF Data
<1> QED BY <1>1, <1>2, <1>4, <1>5, <1>6, <1>9 DEF Data

LEMMA BtWaitFreeData == ASSUME Data, BtWaitFree PROVE Data'
<1> USE DEF startVars, stopVars, lockVars, ringVars
<1>1. IInv' BY BtWaitFreeStep DEF Data
<1>2. Stored' BY StoredFrame DEF Data, BtWaitFree
<1>3. Feeding' <=> Feeding BY DEF BtWaitFree, Feeding, Asleep
<1>s. Serving' <=> Serving BY DEF BtWaitFree, Serving
<1>4. Window' BY WindowFrame DEF Data, BtWaitFree
<1>5. History' BY <1>3, <1>s, HistoryFrame DEF Data, BtWaitFree
<1>6. Awake' BY <1>3 DEF Data, Awake, BtWaitFree, Asleep, Serving
<1>7. ASSUME NEW n \in Nat, NEW m \in Nat, NEW past \in BOOLEAN, HashSide(n, m, past)
      PROVE  HashSide(n, m, past)'
  BY <1>7, HashSideFrame DEF BtWaitFree, BtUsing, Waits
<1>8. ASSUME NEW c \in Nat, NEW e \in Nat, NEW past \in BOOLEAN, BtSide(c, e, past)
      PROVE  BtSide(c, e, past)'
  BY <1>8, BtSideFrame DEF BtWaitFree, Constructing
<1>9. Flow' BY <1>3, <1>s, <1>7, <1>8, FlowStep DEF Data
<1> QED BY <1>1, <1>2, <1>4, <1>5, <1>6, <1>9 DEF Data

(* A stop that has come as far as BT: there is nothing more to keep.       *)
LEMMA BtStopData ==
  ASSUME Data, BtStop \/ BtStopPost \/ BtStopWait PROVE Data'
<1> USE DEF startVars, stopVars, lockVars, ringVars
<1>1. IInv' BY BtStopStep, BtStopPostStep, BtStopWaitStep DEF Data
<1>2. Stored' BY StoredFrame DEF Data, BtStop, BtStopPost, BtStopWait
<1>3. lz \in Stopping /\ lz' = lz /\ bt' \in {"start", "stopPost", "stopWait"}
      /\ ~needStart["bt"] /\ ~needStart'["bt"] /\ ~canStart'["bt"]
  BY DEF BtStop, BtStopPost, BtStopWait, Data, IInv, BtHandshake, Asleep, Typed, Syncs
<1>4. ~Feeding' /\ ~Serving' BY <1>3 DEF Feeding, Serving, Stopping, Asleep
<1>5. Window' BY WindowFrame DEF Data, BtStop, BtStopPost, BtStopWait
<1> QED BY <1>1, <1>2, <1>4, <1>5 DEF Data, History, Awake, Flow

(* BT promises no more than HASH has read. *)
LEMMA Promise ==
  ASSUME Data, Feeding,
         NEW n \in Nat, NEW m \in Nat, NEW past \in BOOLEAN, HashSide(n, m, past)
  PROVE  To(past) + btData.hashNumAvail <= mf.streamPos
<1>t. /\ mf.pos \in Nat /\ mf.streamPos \in Nat /\ mf.pos <= mf.streamPos
      /\ btData.pos \in Nat /\ btData.left \in Nat /\ btData.hashNumAvail \in Nat
      /\ H(n).first \in Nat /\ H(n).num \in Nat /\ H(n).avail \in Nat
  BY Fields DEF Data, Window
<1>r. n <= m /\ (BtUsing = 1 => n < m) BY UsingTypes DEF HashSide, HashRing, Data
<1>b. n < m => H(n).first + H(n).avail <= mf.streamPos BY DEF HashSide, HashRing, HashBlockOK
<1>1. CASE past BY <1>1, <1>t DEF HashSide, BtSource, To
<1>2. CASE ~past /\ Waits BY <1>2, <1>t, <1>r, <1>b DEF HashSide, BtSource, To, HEnd
<1>3. CASE ~past /\ ~Waits
  <2>1. BtUsing = 1
    BY <1>3 DEF Waits, BtUsing, Feeding, Data, IInv, HashHandshake, BtHandshake, Asleep
  <2>2. /\ btData.pos = H(n).first + H(n).num - btData.left
        /\ btData.hashNumAvail = H(n).avail - H(n).num + btData.left
    BY <1>3 DEF HashSide, BtSource
  <2> QED
    BY <1>3, <2>1, <2>2, <1>r, <1>b, <1>t DEF To
<1> QED BY <1>1, <1>2, <1>3

(* The counts of BT are numbers.                                         *)
LEMMA BtCounts ==
  ASSUME Data, NEW c \in Nat, NEW e \in Nat, NEW past \in BOOLEAN, BtSide(c, e, past)
  PROVE  /\ e = c + filledSemaphore["bt"] + LzUsing
         /\ c <= e /\ (LzUsing = 1 => c < e)
         /\ e + BtFilling <= c + BtNumBlocks
  BY UsingTypes, Numbers DEF BtSide, BtRing, Data, IInv, Rings

(* BT works on its block e; past may have become q. *)
LEMMA BuildStep ==
  ASSUME Data, Serving, BtFilling = 1, ~needStart["bt"],
         NEW c \in Nat, NEW e \in Nat, NEW past \in BOOLEAN, NEW q \in BOOLEAN,
         BtSide(c, e, past),
         NEW d, btBuf' = [btBuf EXCEPT ![BtPlace(e)] = d],
         UNCHANGED <<mf, lzData, lz, needStart, canStart, blockIndex,
                     numProcessedBlocks, filledSemaphore>>,
         Begun(e, past) \in Int, Begun(e, q)' = Begun(e, past),
         BAvail(e, e) \in Int, BAvail(e, e)' \in Int, BAvail(e, e) <= BAvail(e, e)',
         Construction(e, q)'
  PROVE  BtSide(c, e, q)'
<1>c. /\ e = c + filledSemaphore["bt"] + LzUsing /\ c <= e /\ (LzUsing = 1 => c < e)
      /\ e < c + BtNumBlocks
  BY BtCounts, Numbers
<1>1. ASSUME NEW j \in c..e - 1 PROVE B(j)' = B(j)
  <2>1. j \in Nat /\ j <= e /\ e < j + BtNumBlocks /\ j # e BY <1>c, Numbers
  <2>2. BtPlace(j) # BtPlace(e) BY <2>1, Places
  <2> QED BY <2>2 DEF B
<1>2. \A j \in c..e : BFirst(j, e, q)' = BFirst(j, e, past) BY <1>1 DEF BFirst
<1>3. \A j \in c..e - 1 : BAvail(j, e)' = BAvail(j, e) BY <1>1 DEF BAvail
<1>t. \A j \in Nat : B(j).first \in Nat /\ B(j).num \in Nat /\ B(j).avail \in Nat
  BY Fields DEF Data
<1>4. \A j \in c..e : BFirst(j, e, past) \in Int BY <1>t, Fields DEF BFirst, Data
<1>5. ASSUME NEW j \in c..e - 1 PROVE BtBlockOK(j, e, q)'
  <2>1. j \in Nat /\ j \in c..e /\ j + 1 \in c..e /\ (j + 1 # e => j + 1 \in c..e - 1) OBVIOUS
  <2>2. BtBlockOK(j, e, past) BY DEF BtSide, BtRing
  <2>3. /\ BFirst(j, e, q)' = BFirst(j, e, past)
        /\ BFirst(j + 1, e, q)' = BFirst(j + 1, e, past)
        /\ BFirst(j, e, past) \in Int /\ BFirst(j + 1, e, past) \in Int
    BY <2>1, <1>2, <1>4
  <2>4. BAvail(j + 1, e) <= BAvail(j + 1, e)' /\ BAvail(j + 1, e) \in Int
        /\ BAvail(j + 1, e)' \in Int
    BY <2>1, <1>3, <1>t DEF BAvail
  <2>5. BFirst(j, e, past) + B(j).avail <= BFirst(j + 1, e, past) + BAvail(j + 1, e)'
    BY <2>1, <2>2, <2>3, <2>4, <1>t DEF BtBlockOK
  <2>6. AtEnd' = AtEnd /\ Over' = Over /\ mf' = mf /\ B(j)' = B(j) BY <1>1 DEF AtEnd, Over
  <2> QED BY <2>2, <2>3, <2>5, <2>6 DEF BtBlockOK
<1>6. BtRing(c, e, q)' BY <1>5, <1>c DEF BtSide, BtRing, LzUsing
<1>7. LzSource(c, e, q)'
  <2>1. BFirst(c, e, q)' = BFirst(c, e, past) BY <1>2, <1>c
  <2>2. BAvail(c, e) <= BAvail(c, e)' /\ BAvail(c, e) \in Int /\ BAvail(c, e)' \in Int
    <3>1. CASE c = e BY <3>1
    <3>2. CASE c # e
      <4>1. c \in c..e - 1 BY <3>2, <1>c
      <4>2. BAvail(c, e)' = BAvail(c, e) /\ BAvail(c, e) = B(c).avail /\ B(c).avail \in Nat
        BY <3>2, <4>1, <1>3, <1>t DEF BAvail
      <4> QED BY <4>2
    <3> QED BY <3>1, <3>2
  <2>3. lzData.btNumAvail \in Nat BY Fields DEF Data
  <2>4. CASE lz \in {"waitFilled", "lock"}
    BY <2>1, <2>2, <2>3, <2>4 DEF BtSide, LzSource, LzWaits
  <2>5. CASE lz \notin {"waitFilled", "lock"}
    BY <2>5, <1>c, <1>1, <2>1 DEF LzUsing, Serving, BtSide, LzSource, LzInHand
  <2> QED BY <2>4, <2>5
<1> QED BY <1>6, <1>7 DEF BtSide

LEMMA BtFillData == ASSUME Data, BtFill PROVE Data'
<1> USE DEF startVars, stopVars, ringVars
<1>1. IInv' BY BtFillStep DEF Data
<1> DEFINE d == [first |-> btData.pos, num |-> 0,
                 avail |-> btData.hashNumAvail, bad |-> btData.failure]
<1>d. /\ btBuf' = [btBuf EXCEPT ![blockIndex["bt"]] = d]
      /\ d \in BlockType /\ d.num = 0 /\ d.first = btData.pos
      /\ d.avail = btData.hashNumAvail
  BY Fields DEF BtFill, BlockType, Data
<1> HIDE DEF d
<1>u. /\ UNCHANGED <<created, needStart, exit, canStart, stopWriting, wasStopped,
                     freeSemaphore, filledSemaphore, numProcessedBlocks, blockIndex,
                     mf, hashBuf, btData, lzData, hash, lz, jobs>>
      /\ bt = "fill" /\ bt' = IF btData.failure THEN "filled" ELSE "get"
  BY DEF BtFill
<1>2. Stored'
  <2>1. btBuf' \in [0..BtNumBlocks - 1 -> BlockType] BY <1>d DEF Data, Stored
  <2> QED BY <1>u, <2>1 DEF Data, Stored
<1>3. (Feeding' <=> Feeding) /\ (Serving' <=> Serving) BY <1>u DEF Feeding, Serving, Asleep
<1>4. Window' BY <1>u, WindowFrame DEF Data
<1>5. History' BY <1>3, <1>u, HistoryFrame DEF Data
<1>6. Awake' BY <1>3, <1>u DEF Data, Awake, Asleep, Serving
<1>7. ASSUME NEW n \in Nat, NEW m \in Nat, NEW past \in BOOLEAN, HashSide(n, m, past)
      PROVE  HashSide(n, m, past)'
  BY <1>7, <1>u, HashSideFrame DEF BtUsing, Waits, Data, Stored
<1>9. Flow'
  <2> SUFFICES ASSUME Feeding
               PROVE  \E n, m \in Nat, past \in BOOLEAN :
                         /\ HashSide(n, m, past)'
                         /\ Serving' => \E c, e \in Nat : BtSide(c, e, past)'
    BY <1>3 DEF Flow
  <2>1. PICK n \in Nat, m \in Nat, past \in BOOLEAN :
          /\ HashSide(n, m, past)
          /\ Serving => \E c, e \in Nat : BtSide(c, e, past)
    BY DEF Data, Flow
  <2>2. HashSide(n, m, past)' BY <2>1, <1>7
  <2>3. ASSUME Serving' PROVE \E c, e \in Nat : BtSide(c, e, past)'
    <3>1. PICK c \in Nat, e \in Nat : BtSide(c, e, past) BY <2>1, <2>3, <1>3
    <3>2. ~needStart["bt"] /\ ~canStart["bt"] /\ BtFilling = 1
      BY <1>u DEF Data, IInv, BtHandshake, Asleep, BtFilling
    <3>3. blockIndex["bt"] = BtPlace(e) BY <3>1, <3>2 DEF BtSide, BtRing
    <3>4. BtPlace(e) \in 0..BtNumBlocks - 1 /\ DOMAIN btBuf = 0..BtNumBlocks - 1
      BY Places DEF Data, Stored
    <3>5. B(e)' = d BY <1>d, <3>3, <3>4 DEF B
    <3>6. ~Constructing /\ Constructing' BY <1>u DEF Constructing
    <3>t. /\ btData.pos \in Nat /\ btData.hashNumAvail \in Nat /\ mf.pos \in Nat
          /\ btData.left \in Nat /\ BtLimit \in Nat /\ BtLimit > 0
      BY Fields, Numbers DEF Data
    <3>7. /\ To(past)' = To(past) /\ To(past) \in Nat
          /\ Begun(e, past) \in Int /\ Begun(e, past)' = Begun(e, past)
      BY <1>d, <1>u, <3>5, <3>6, <3>t DEF Begun, To
    <3>8. /\ BAvail(e, e) = btData.hashNumAvail
          /\ BAvail(e, e)' = btData.hashNumAvail
      BY <1>d, <3>5, <3>6 DEF BAvail
    <3>9. Construction(e, past)'
      BY <1>d, <3>t, <2>1, <1>u, <3>5 DEF HashSide, BtSource, Construction
    <3>10. BtSide(c, e, past)'
      <4>1. /\ BAvail(e, e) \in Int /\ BAvail(e, e)' \in Int
            /\ BAvail(e, e) <= BAvail(e, e)'
        BY <3>8, <3>t
      <4>2. Serving /\ btBuf' = [btBuf EXCEPT ![BtPlace(e)] = d] BY <1>3, <1>d, <2>3, <3>3
      <4> QED BY <3>1, <3>2, <3>7, <3>9, <4>1, <4>2, <1>u, BuildStep
    <3> QED BY <3>10
  <2> QED BY <2>2, <2>3
<1> QED BY <1>1, <1>2, <1>4, <1>5, <1>6, <1>9 DEF Data

LEMMA BtNextBlockData == ASSUME Data, BtNextBlock PROVE Data'
<1> USE DEF startVars, stopVars, lockVars, ringVars
<1>1. IInv' BY BtNextBlockStep DEF Data
<1>u. /\ UNCHANGED <<created, filledSemaphore, blockIndex, mf, hashBuf, btBuf,
                     btData, lzData, hash, lz, jobs>>
      /\ bt = "get" /\ bt' = "waitFilled" /\ btData.left = 0
      /\ needStart'["bt"] = needStart["bt"] /\ canStart'["bt"] = canStart["bt"]
      /\ numProcessedBlocks'["bt"] = numProcessedBlocks["bt"]
      /\ ~needStart'["hash"]
  BY DEF BtNextBlock, FreeBlock, StartWorker, NextIndex, Data, Stored, IInv, Typed, Syncs
<1>s. \/ /\ ~needStart["hash"] /\ canStart' = canStart
         /\ numProcessedBlocks'["hash"] = (numProcessedBlocks["hash"] + 1) % HashNumBlocks
      \/ /\ needStart["hash"] /\ canStart'["hash"]
         /\ numProcessedBlocks'["hash"] = 1 % HashNumBlocks
  <2>1. CASE FreeBlock("hash") BY <2>1 DEF FreeBlock, NextIndex, Data, Stored, Syncs, NumBlocks
  <2>2. CASE StartWorker("hash")
    BY <2>2 DEF StartWorker, Data, Stored, IInv, Typed, Syncs, NumBlocks, Event_Set
  <2> QED BY <2>1, <2>2 DEF BtNextBlock
<1>2. Stored'
  <2>1. /\ numProcessedBlocks' \in [Syncs -> Nat]
        /\ \A s \in Syncs : numProcessedBlocks'[s] \in 0..NumBlocks(s) - 1
    <3>1. \/ numProcessedBlocks' = [numProcessedBlocks EXCEPT !["hash"] =
                                     (numProcessedBlocks["hash"] + 1) % NumBlocks("hash")]
          \/ numProcessedBlocks' = [numProcessedBlocks EXCEPT !["hash"] = 1 % NumBlocks("hash")]
      BY DEF BtNextBlock, FreeBlock, StartWorker, NextIndex
    <3>2. /\ numProcessedBlocks \in [Syncs -> Nat] /\ "hash" \in Syncs
          /\ \A s \in Syncs : numProcessedBlocks[s] \in 0..NumBlocks(s) - 1
      BY DEF Data, Stored, Syncs
    <3>3. \A k \in {0, 1 % NumBlocks("hash"),
                    (numProcessedBlocks["hash"] + 1) % NumBlocks("hash")} :
             LET new == [numProcessedBlocks EXCEPT !["hash"] = k]
             IN  new \in [Syncs -> Nat] /\ \A s \in Syncs : new[s] \in 0..NumBlocks(s) - 1
      BY <3>2, IndexTypes
    <3> QED BY <3>1, <3>3
  <2> QED BY <1>u, <2>1 DEF Data, Stored
<1>3. (Feeding' <=> Feeding) /\ (Serving' <=> Serving) BY <1>u DEF Feeding, Serving, Asleep
<1>4. Window' BY <1>u, WindowFrame DEF Data
<1>5. History' BY <1>3, <1>u, HistoryFrame DEF Data
<1>6. Awake' BY <1>3, <1>u, <1>s DEF Data, Awake, Asleep, Serving
<1>7. ASSUME Feeding, NEW n \in Nat, NEW m \in Nat, NEW past \in BOOLEAN,
             HashSide(n, m, past)
      PROVE  \E k \in Nat : HashSide(k, m, past)'
  <2>f. ~btData.failure BY <1>7, <1>u DEF HashSide, BtSource
  <2>b. /\ \A j \in Int : H(j)' = H(j) /\ HFirst(j, m)' = HFirst(j, m)
        /\ \A j \in Int : HEnd(j, m)' = HEnd(j, m)
        /\ AtEnd' = AtEnd
        /\ \A j \in Int : HashBlockOK(j, m)' <=> HashBlockOK(j, m)
    BY <1>u, HashBlocksFrame
  <2>1. CASE needStart["hash"]
    <3>1. m = 0 /\ n = 0 /\ filledSemaphore["hash"] = 0 /\ BtUsing = 0
      BY <1>7, <2>1, UsingTypes DEF HashSide, HashRing, BtUsing, Data
    <3>2. numProcessedBlocks'["hash"] = HashPlace(n + 1) BY <1>s, <2>1, <3>1 DEF HashPlace
    <3>3. HashRing(n, m)' BY <1>u, <1>s, <2>1, <3>1, <3>2 DEF HashRing, BtUsing
    <3>4. BtSource(n, m, past)' BY <1>7, <1>u, <2>1, <2>f, BtSourceFrame DEF Waits, HashSide
    <3> QED BY <3>3, <3>4 DEF HashSide
  <2>2. CASE ~needStart["hash"]
    <3>0. ~Waits /\ Waits' /\ BtUsing = 1 /\ BtUsing' = 0 BY <1>u, <2>2 DEF Waits, BtUsing
    <3>1. /\ m = n + filledSemaphore["hash"] + 1 /\ n < m
          /\ numProcessedBlocks["hash"] = HashPlace(n + 1)
      BY <1>7, <2>2, <3>0, UsingTypes DEF HashSide, HashRing, Data
    <3>2. numProcessedBlocks'["hash"] = HashPlace(n + 1 + 1) BY <1>s, <2>2, <3>1, Steps
    <3>3. HashRing(n + 1, m)'
      BY <3>0, <3>1, <1>u, UsingTypes, <1>7, <2>b, <1>s, <2>2, <3>2 DEF Data, HashSide, HashRing
    <3>4. BtSource(n + 1, m, past)'
      <4>t. /\ H(n).first \in Nat /\ H(n).num \in Nat /\ H(n).avail \in Nat
            /\ btData.pos \in Nat /\ btData.hashNumAvail \in Nat /\ NumHashBytes \in Nat
        BY Fields, Numbers DEF Data
      <4>1. HashBlockOK(n, m)
        BY <1>7, <3>1 DEF HashSide, HashRing
      <4>2. ~past => /\ btData.pos = HFirst(n + 1, m)
                     /\ btData.pos + btData.hashNumAvail <= HEnd(n + 1, m)
        <5> SUFFICES ASSUME ~past
                     PROVE  /\ btData.pos = HFirst(n + 1, m)
                            /\ btData.pos + btData.hashNumAvail <= HEnd(n + 1, m)
          OBVIOUS
        <5>1. /\ H(n).avail >= NumHashBytes
              /\ btData.pos = H(n).first + H(n).num - 0
              /\ btData.hashNumAvail = H(n).avail - H(n).num + 0
          BY <1>7, <1>u, <3>0 DEF HashSide, BtSource
        <5>2. /\ H(n).first + H(n).avail <= HEnd(n + 1, m)
              /\ H(n).first + H(n).num = HFirst(n + 1, m)
          BY <4>1, <5>1, <4>t DEF HashBlockOK
        <5>3. btData.pos + btData.hashNumAvail = H(n).first + H(n).avail
          BY <5>1, <4>t
        <5> QED
          BY <5>1, <5>2, <5>3, <4>t
      <4>3. past => HFirst(n + 1, m) = mf.pos /\ HEnd(n + 1, m) = mf.pos
        BY <1>7, <3>0, <4>1 DEF HashSide, BtSource, HashBlockOK
      <4> QED
        BY <1>7, <1>u, <2>b, <2>f, <3>0, <4>2, <4>3 DEF HashSide, BtSource
    <3> QED BY <3>3, <3>4 DEF HashSide
  <2> QED BY <2>1, <2>2
<1>8. ASSUME NEW c \in Nat, NEW e \in Nat, NEW past \in BOOLEAN, BtSide(c, e, past)
      PROVE  BtSide(c, e, past)'
  BY <1>8, <1>u, BtSideFrame DEF Constructing
<1>9. Flow' BY <1>3, <1>7, <1>8 DEF Flow, Data
<1> QED BY <1>1, <1>2, <1>4, <1>5, <1>6, <1>9 DEF Data

LEMMA BtWaitFilledData == ASSUME Data, BtWaitFilled PROVE Data'
<1> USE DEF startVars, stopVars, lockVars, ringVars
<1>1. IInv' BY BtWaitFilledStep DEF Data
<1>u. /\ UNCHANGED <<created, needStart, canStart, numProcessedBlocks, blockIndex, mf,
                     hashBuf, btBuf, btData, lzData, hash, lz, jobs>>
      /\ bt = "waitFilled" /\ bt' = "lock"
      /\ filledSemaphore'["bt"] = filledSemaphore["bt"]
      /\ filledSemaphore'["hash"] = filledSemaphore["hash"] - 1
      /\ ~needStart["hash"]
  BY DEF BtWaitFilled, WaitFilled, Semaphore_Wait, Data, IInv, Typed, Syncs, HashHandshake
<1>2. Stored' BY <1>u, StoredFrame DEF Data
<1>3. (Feeding' <=> Feeding) /\ (Serving' <=> Serving) BY <1>u DEF Feeding, Serving, Asleep
<1>4. Window' BY <1>u, WindowFrame DEF Data
<1>5. History' BY <1>3, <1>u, HistoryFrame DEF Data
<1>6. Awake' BY <1>3, <1>u DEF Data, Awake, Asleep, Serving
<1>7. ASSUME NEW n \in Nat, NEW m \in Nat, NEW past \in BOOLEAN, HashSide(n, m, past)
      PROVE  HashSide(n, m, past)'
  <2>1. \A j \in Int : HashBlockOK(j, m)' <=> HashBlockOK(j, m) BY <1>u, HashBlocksFrame
  <2>2. BtUsing = 0 /\ BtUsing' = 1 BY <1>u DEF BtUsing
  <2>3. m = n + filledSemaphore'["hash"] + BtUsing'
    BY <1>7, <1>u, <2>2, UsingTypes DEF HashSide, HashRing, Data
  <2>4. HashRing(n, m)' BY <1>7, <1>u, <2>1, <2>3 DEF HashSide, HashRing
  <2>5. BtSource(n, m, past)' BY <1>7, <1>u, BtSourceFrame DEF HashSide, Waits
  <2> QED BY <2>4, <2>5 DEF HashSide
<1>8. ASSUME NEW c \in Nat, NEW e \in Nat, NEW past \in BOOLEAN, BtSide(c, e, past)
      PROVE  BtSide(c, e, past)'
  BY <1>8, <1>u, BtSideFrame DEF Constructing
<1>9. Flow' BY <1>3, <1>7, <1>8, FlowStep DEF Data
<1> QED BY <1>1, <1>2, <1>4, <1>5, <1>6, <1>9 DEF Data

LEMMA BtMatchData == ASSUME Data, BtMatch PROVE Data'
<1> USE DEF startVars, stopVars, lockVars, ringVars
<1>1. IInv' BY BtMatchStep DEF Data
<1>u. /\ UNCHANGED <<created, needStart, canStart, filledSemaphore, numProcessedBlocks,
                     blockIndex, mf, hashBuf, lzData, hash, lz, jobs>>
      /\ bt = "get" /\ bt' \in {"get", "filled"} /\ btData.left > 0
      /\ ~needStart["bt"] /\ ~canStart["bt"]
  BY DEF BtMatch, Data, IInv, BtHandshake, Asleep
<1>t. /\ btData.pos \in Nat /\ btData.buffer \in Int /\ btData.left \in Nat
      /\ btData.hashNumAvail \in Nat /\ btData.failure \in BOOLEAN
      /\ BtLimit \in Nat /\ BtLimit > 0
      /\ blockIndex["bt"] \in 0..BtNumBlocks - 1
      /\ btBuf[blockIndex["bt"]] \in BlockType
  BY Fields, Numbers DEF Data, Stored, Syncs, NumBlocks
<1> DEFINE b == btBuf[blockIndex["bt"]]
           next == [b EXCEPT !.num = @ + 1]
           bad == [b EXCEPT !.bad = TRUE]
<1>b. \/ /\ btBuf' = [btBuf EXCEPT ![blockIndex["bt"]] = next]
         /\ btData' = [btData EXCEPT !.pos = @ + 1, !.buffer = @ + 1,
                                     !.left = @ - 1, !.hashNumAvail = @ - 1]
         /\ bt' = "get" => b.num + 1 < BtLimit
      \/ /\ btBuf' = [btBuf EXCEPT ![blockIndex["bt"]] = bad]
         /\ btData' = [btData EXCEPT !.failure = TRUE]
         /\ bt' = "filled"
  BY DEF BtMatch
<1>d. /\ next \in BlockType /\ bad \in BlockType /\ b \in BlockType
      /\ b.first \in Nat /\ b.num \in Nat /\ b.avail \in Nat
      /\ next.first = b.first /\ next.num = b.num + 1 /\ next.avail = b.avail
      /\ bad.first = b.first /\ bad.num = b.num /\ bad.avail = b.avail
  <2>1. b \in BlockType BY <1>t
  <2> HIDE DEF b
  <2>2. b.first \in Nat /\ b.num \in Nat /\ b.avail \in Nat /\ b.num + 1 \in Nat
    BY <2>1 DEF BlockType
  <2>3. next \in BlockType /\ bad \in BlockType BY <2>1, <2>2 DEF BlockType
  <2>4. next.first = b.first /\ next.num = b.num + 1 /\ next.avail = b.avail
    BY <2>1 DEF BlockType
  <2>5. bad.first = b.first /\ bad.num = b.num /\ bad.avail = b.avail BY <2>1 DEF BlockType
  <2> QED BY <2>1, <2>2, <2>3, <2>4, <2>5
<1> HIDE DEF b, next, bad
<1>3. (Feeding' <=> Feeding) /\ (Serving' <=> Serving) BY <1>u DEF Feeding, Serving, Asleep
<1>f. Feeding BY <1>u DEF Feeding, Asleep
<1>0. PICK n \in Nat, m \in Nat, past \in BOOLEAN :
         /\ HashSide(n, m, past)
         /\ Serving => \E c, e \in Nat : BtSide(c, e, past)
  BY <1>f DEF Data, Flow
<1>p. /\ ~Waits /\ ~past /\ ~btData.failure /\ btData.left <= btData.hashNumAvail
      /\ BtUsing = 1
  BY <1>0, <1>u, <1>t DEF HashSide, BtSource, BtUsing, Waits
<1>h. /\ H(n).avail >= NumHashBytes /\ btData.left <= H(n).num
      /\ btData.pos = H(n).first + H(n).num - btData.left
      /\ btData.hashNumAvail = H(n).avail - H(n).num + btData.left
      /\ H(n).first \in Nat /\ H(n).num \in Nat /\ H(n).avail \in Nat
  BY <1>0, <1>p, Fields DEF HashSide, BtSource, Data
<1>g. ASSUME btData'.left <= H(n).num,
             btData'.pos = H(n).first + H(n).num - btData'.left,
             btData'.hashNumAvail = H(n).avail - H(n).num + btData'.left,
             btData'.left <= btData'.hashNumAvail,
             btData'.failure => btData'.left > 0 /\ bt' # "get"
      PROVE  HashSide(n, m, past)'
  BY <1>u, HashBlocksFrame, <1>0, <1>p, <1>g, <1>h DEF HashSide, HashRing, BtUsing, Waits,
     BtSource
<1>e. ASSUME NEW e \in Nat, NEW c \in Nat, BtSide(c, e, past)
      PROVE  /\ blockIndex["bt"] = BtPlace(e) /\ B(e) = b
             /\ b.first + b.num = btData.pos
             /\ b.avail = b.num + btData.hashNumAvail
             /\ b.num <= BtLimit - 1
             /\ Begun(e, past) = b.first /\ BAvail(e, e) = b.avail
             /\ BtFilling = 1
  <2>1. blockIndex["bt"] = BtPlace(e) /\ B(e) = b
    BY <1>e, <1>u DEF BtSide, BtRing, B, b
  <2>2. /\ b.first + b.num = btData.pos
        /\ b.avail = b.num + btData.hashNumAvail
        /\ b.num <= BtLimit - 1
    BY <1>e, <1>u, <1>p, <2>1 DEF BtSide, Construction, Constructing
  <2>3. Constructing /\ BtFilling = 1
    BY <1>u DEF Constructing, BtFilling
  <2>4. Begun(e, past) = b.first /\ BAvail(e, e) = b.avail
    BY <1>p, <1>d, <1>t, <2>1, <2>2, <2>3 DEF Begun, To, BAvail
  <2> QED
    BY <2>1, <2>2, <2>3, <2>4
<1>x. ASSUME btBuf' = [btBuf EXCEPT ![blockIndex["bt"]] = next],
             btData' = [btData EXCEPT !.pos = @ + 1, !.buffer = @ + 1,
                                      !.left = @ - 1, !.hashNumAvail = @ - 1],
             bt' = "get" => b.num + 1 < BtLimit
      PROVE  Stored' /\ Window' /\ History' /\ Flow'
  <2>1. /\ btData'.pos = btData.pos + 1 /\ btData'.buffer = btData.buffer + 1
        /\ btData'.left = btData.left - 1 /\ btData'.hashNumAvail = btData.hashNumAvail - 1
        /\ btData'.failure = btData.failure
    BY <1>x DEF Data, Stored
  <2>2. Stored'
    <3>1. btBuf' \in [0..BtNumBlocks - 1 -> BlockType] BY <1>x, <1>d DEF Data, Stored
    <3>2. btData' \in [pos : Nat, buffer : Int, left : Nat, hashNumAvail : Nat,
                       failure : BOOLEAN]
      <4> DEFINE x1 == btData.pos + 1
                 x2 == btData.buffer + 1
                 x3 == btData.left - 1
                 x4 == btData.hashNumAvail - 1
      <4>1. x1 \in Nat /\ x2 \in Int /\ x3 \in Nat /\ x4 \in Nat BY <1>t, <1>u, <1>p
      <4>2. btData' = [btData EXCEPT !.pos = x1, !.buffer = x2, !.left = x3,
                                     !.hashNumAvail = x4]
        BY <1>x
      <4> HIDE DEF x1, x2, x3, x4
      <4> QED BY <4>1, <4>2 DEF Data, Stored
    <3> QED BY <1>u, <3>1, <3>2 DEF Data, Stored
  <2>w. WindowStart' = WindowStart /\ WindowStart \in Int BY <1>u, Fields DEF WindowStart, Data
  <2>3. Window' BY <2>1, <2>w, <1>t, <1>u DEF Data, Window, NeedMove
  <2>4. History' BY <2>1, <2>w, <1>t, Numbers, <1>3, <1>u DEF Data, History
  <2>5. HashSide(n, m, past)' BY <2>1, <1>h, <1>t, <1>u, <1>p, <1>g
  <2>6. ASSUME Serving' PROVE \E c, e \in Nat : BtSide(c, e, past)'
    <3>1. PICK c \in Nat, e \in Nat : BtSide(c, e, past) BY <1>0, <1>3, <2>6
    <3>2. /\ blockIndex["bt"] = BtPlace(e) /\ B(e) = b
          /\ b.first + b.num = btData.pos
          /\ b.avail = b.num + btData.hashNumAvail
          /\ b.num <= BtLimit - 1
          /\ Begun(e, past) = b.first /\ BAvail(e, e) = b.avail
          /\ BtFilling = 1
      BY <3>1, <1>e
    <3>3. B(e)' = next BY <1>x, <3>2, <1>t DEF B, Data, Stored
    <3>4. Constructing' BY <1>u DEF Constructing
    <3>5. Begun(e, past)' = b.first /\ BAvail(e, e)' = b.avail
      BY <1>p, <1>d, <1>t, <2>1, <3>2, <3>3, <3>4 DEF Begun, To, BAvail
    <3>6. Construction(e, past)'
      BY <1>d, <1>t, <2>1, <3>2, <1>p, <1>u, <1>x, <3>3 DEF Construction
    <3>7. BtSide(c, e, past)'
      <4>1. btBuf' = [btBuf EXCEPT ![BtPlace(e)] = next] /\ Serving BY <1>3, <1>x, <2>6, <3>2
      <4>2. /\ BAvail(e, e) \in Int /\ BAvail(e, e)' \in Int
            /\ BAvail(e, e) <= BAvail(e, e)'
            /\ Begun(e, past) \in Int /\ Begun(e, past)' = Begun(e, past)
        BY <1>d, <3>2, <3>5
      <4> QED BY <3>1, <3>2, <3>6, <4>1, <4>2, <1>u, BuildStep
    <3> QED BY <3>7
  <2>7. \E i, j \in Nat, q \in BOOLEAN :
            /\ HashSide(i, j, q)'
            /\ Serving' => \E c, e \in Nat : BtSide(c, e, q)'
    BY <2>5, <2>6
  <2>8. Flow' BY <2>7 DEF Flow
  <2> QED BY <2>2, <2>3, <2>4, <2>8
<1>y. ASSUME btBuf' = [btBuf EXCEPT ![blockIndex["bt"]] = bad],
             btData' = [btData EXCEPT !.failure = TRUE],
             bt' = "filled"
      PROVE  Stored' /\ Window' /\ History' /\ Flow'
  <2>1. /\ btData'.pos = btData.pos /\ btData'.buffer = btData.buffer
        /\ btData'.left = btData.left /\ btData'.hashNumAvail = btData.hashNumAvail
        /\ btData'.failure = TRUE
    BY <1>y DEF Data, Stored
  <2>2. Stored'
    <3>1. btBuf' \in [0..BtNumBlocks - 1 -> BlockType] BY <1>y, <1>d DEF Data, Stored
    <3>2. btData' \in [pos : Nat, buffer : Int, left : Nat, hashNumAvail : Nat,
                       failure : BOOLEAN]
      BY <1>y DEF Data, Stored
    <3> QED BY <1>u, <3>1, <3>2 DEF Data, Stored
  <2>w. WindowStart' = WindowStart BY <1>u DEF WindowStart
  <2>3. Window' BY <1>u, <2>1, <2>w DEF Data, Window, NeedMove
  <2>4. History' BY <1>3, <1>u, <2>w, <2>1 DEF Data, History
  <2>5. HashSide(n, m, past)' BY <2>1, <1>h, <1>t, <1>u, <1>p, <1>y, <1>g
  <2>6. ASSUME Serving' PROVE \E c, e \in Nat : BtSide(c, e, past)'
    <3>1. PICK c \in Nat, e \in Nat : BtSide(c, e, past) BY <1>0, <1>3, <2>6
    <3>2. /\ blockIndex["bt"] = BtPlace(e) /\ B(e) = b
          /\ b.first + b.num = btData.pos
          /\ b.avail = b.num + btData.hashNumAvail
          /\ b.num <= BtLimit - 1
          /\ Begun(e, past) = b.first /\ BAvail(e, e) = b.avail
          /\ BtFilling = 1
      BY <3>1, <1>e
    <3>3. B(e)' = bad BY <1>y, <3>2, <1>t DEF B, Data, Stored
    <3>4. Constructing' BY <1>u DEF Constructing
    <3>5. Begun(e, past)' = b.first /\ BAvail(e, e)' = b.avail
      BY <1>p, <1>d, <1>t, <2>1, <3>2, <3>3, <3>4 DEF Begun, To, BAvail
    <3>6. Construction(e, past)'
      BY <1>d, <1>t, <2>1, <3>2, <1>p, <1>u, <1>y, <3>3 DEF Construction
    <3>7. BtSide(c, e, past)'
      <4>1. btBuf' = [btBuf EXCEPT ![BtPlace(e)] = bad] /\ Serving BY <1>3, <1>y, <2>6, <3>2
      <4>2. /\ BAvail(e, e) \in Int /\ BAvail(e, e)' \in Int
            /\ BAvail(e, e) <= BAvail(e, e)'
            /\ Begun(e, past) \in Int /\ Begun(e, past)' = Begun(e, past)
        BY <1>d, <3>2, <3>5
      <4> QED BY <3>1, <3>2, <3>6, <4>1, <4>2, <1>u, BuildStep
    <3> QED BY <3>7
  <2>7. \E i, j \in Nat, q \in BOOLEAN :
            /\ HashSide(i, j, q)'
            /\ Serving' => \E c, e \in Nat : BtSide(c, e, q)'
    BY <2>5, <2>6
  <2>8. Flow' BY <2>7 DEF Flow
  <2> QED BY <2>2, <2>3, <2>4, <2>8
<1>9. Stored' /\ Window' /\ History' /\ Flow' BY <1>b, <1>x, <1>y
<1>6. Awake' BY <1>3, <1>u DEF Data, Awake, Asleep, Serving
<1> QED BY <1>1, <1>9, <1>6 DEF Data

LEMMA BtTakeBlockData == ASSUME Data, BtTakeBlock PROVE Data'
<1> USE DEF startVars, stopVars, ringVars
<1>1. IInv' BY BtTakeBlockStep DEF Data
<1>u. /\ UNCHANGED <<created, needStart, canStart, filledSemaphore, numProcessedBlocks,
                     blockIndex, mf, hashBuf, lzData, hash, lz, jobs>>
      /\ bt = "lock" /\ bt' \in {"get", "filled"}
      /\ ~needStart["bt"] /\ ~canStart["bt"] /\ ~needStart["hash"]
  BY DEF BtTakeBlock, Data, IInv, BtHandshake, HashHandshake, Asleep
<1>t. /\ btData.pos \in Nat /\ btData.buffer \in Int /\ btData.left \in Nat
      /\ btData.hashNumAvail \in Nat /\ btData.failure \in BOOLEAN
      /\ BtLimit \in Nat /\ BtLimit > 0 /\ NumHashBytes \in Nat /\ NumHashBytes > 0
      /\ blockIndex["bt"] \in 0..BtNumBlocks - 1
      /\ btBuf[blockIndex["bt"]] \in BlockType
      /\ mf.pos \in Nat
  BY Fields, Numbers DEF Data, Stored, Syncs, NumBlocks
<1>3. (Feeding' <=> Feeding) /\ (Serving' <=> Serving) BY <1>u DEF Feeding, Serving, Asleep
<1>f. Feeding BY <1>u DEF Feeding, Asleep
<1>0. PICK n \in Nat, m \in Nat, past \in BOOLEAN :
         /\ HashSide(n, m, past)
         /\ Serving => \E c, e \in Nat : BtSide(c, e, past)
  BY <1>f DEF Data, Flow
<1>p. Waits /\ BtUsing = 1 /\ btData.left = 0 /\ ~btData.failure
  BY <1>0, <1>u DEF HashSide, BtSource, BtUsing, Waits
<1>n. /\ n < m /\ HashBlockOK(n, m) /\ numProcessedBlocks["hash"] = HashPlace(n + 1)
      /\ HFirst(n, m) = H(n).first /\ HEnd(n, m) = H(n).first + H(n).avail
  BY <1>0, <1>u, <1>p, UsingTypes DEF HashSide, HashRing, HFirst, HEnd, Data
<1> DEFINE b == btBuf[blockIndex["bt"]]
           h == H(n)
           ends == h.avail < NumHashBytes
           new == [b EXCEPT !.avail = b.num + h.avail,
                            !.num = IF ends THEN b.num + h.avail ELSE b.num]
<1>k. hashBuf[Block("hash")] = H(n) BY <1>n, Steps DEF Block, NumBlocks, H
<1>h. h.first \in Nat /\ h.num \in Nat /\ h.avail \in Nat BY Fields DEF Data
<1>b. /\ btBuf' = [btBuf EXCEPT ![blockIndex["bt"]] = new]
      /\ btData' = [btData EXCEPT !.left = h.num,
                                  !.hashNumAvail = IF ends THEN 0 ELSE h.avail]
      /\ bt' = IF ends THEN "filled" ELSE "get"
  <2>1. /\ btBuf' = [btBuf EXCEPT ![blockIndex["bt"]].avail = b.num + h.avail,
                                  ![blockIndex["bt"]].num =
                                      IF ends THEN @ + h.avail ELSE @]
        /\ btData' = [btData EXCEPT !.left = h.num,
                                    !.hashNumAvail = IF ends THEN 0 ELSE h.avail]
        /\ bt' = IF ends THEN "filled" ELSE "get"
    BY <1>k DEF BtTakeBlock, AvailWithBlock
  <2>2. btBuf' = [btBuf EXCEPT ![blockIndex["bt"]] = new]
    BY <2>1, <1>t DEF Data, Stored, BlockType
  <2> QED BY <2>1, <2>2
<1>d. /\ new \in BlockType /\ b \in BlockType
      /\ b.first \in Nat /\ b.num \in Nat /\ b.avail \in Nat
      /\ new.first = b.first /\ new.num = (IF ends THEN b.num + h.avail ELSE b.num)
      /\ new.avail = b.num + h.avail
  <2>1. b \in BlockType BY <1>t
  <2> HIDE DEF b
  <2>2. b.first \in Nat /\ b.num \in Nat /\ b.avail \in Nat /\ b.num + h.avail \in Nat
    BY <2>1, <1>h DEF BlockType
  <2> DEFINE x == b.num + h.avail
             y == IF ends THEN b.num + h.avail ELSE b.num
  <2>3. x \in Nat /\ y \in Nat /\ new = [b EXCEPT !.avail = x, !.num = y] BY <2>2
  <2> HIDE DEF x, y, new
  <2>4. new \in BlockType BY <2>1, <2>3 DEF BlockType
  <2>5. new.first = b.first /\ new.num = y /\ new.avail = x BY <2>1, <2>3 DEF BlockType
  <2> QED BY <2>1, <2>2, <2>4, <2>5 DEF x, y
<1> HIDE DEF b, new
<1>a. /\ btData'.pos = btData.pos /\ btData'.buffer = btData.buffer
      /\ btData'.left = h.num /\ btData'.hashNumAvail = (IF ends THEN 0 ELSE h.avail)
      /\ btData'.failure = btData.failure
  BY <1>b DEF Data, Stored
<1>2. Stored'
  <2>1. btBuf' \in [0..BtNumBlocks - 1 -> BlockType] BY <1>b, <1>d DEF Data, Stored
  <2>2. btData' \in [pos : Nat, buffer : Int, left : Nat, hashNumAvail : Nat,
                     failure : BOOLEAN]
    <3> DEFINE x == h.num
               y == IF ends THEN 0 ELSE h.avail
    <3>1. x \in Nat /\ y \in Nat /\ btData' = [btData EXCEPT !.left = x, !.hashNumAvail = y]
      BY <1>b, <1>h
    <3> HIDE DEF x, y
    <3> QED BY <3>1 DEF Data, Stored
  <2> QED BY <1>u, <2>1, <2>2 DEF Data, Stored
<1>w. WindowStart' = WindowStart BY <1>u DEF WindowStart
<1>4. Window' BY <1>u, <1>a, <1>w DEF Data, Window, NeedMove
<1>5. History' BY <1>3, <1>u, <1>w, <1>a DEF Data, History
<1>6. Awake' BY <1>3, <1>u DEF Data, Awake, Asleep, Serving
<1>q. PICK q \in BOOLEAN : q <=> ends OBVIOUS
<1>r. /\ past => ends /\ h.avail = 0 /\ H(n).first = mf.pos
      /\ ends => AtEnd /\ h.num = 0 /\ h.first + h.avail = mf.pos
      /\ ~ends => h.num <= h.avail
      /\ ~past => btData.pos = h.first /\ btData.hashNumAvail <= h.avail
  BY <1>0, <1>p, <1>n, <1>h, <1>t DEF HashSide, BtSource, HashBlockOK
<1>7. HashSide(n, m, q)'
  <2>1. /\ \A j \in Int : H(j)' = H(j)
        /\ \A j \in Int : HashBlockOK(j, m)' <=> HashBlockOK(j, m)
        /\ AtEnd' = AtEnd
    BY <1>u, HashBlocksFrame
  <2>2. HashRing(n, m)'
    BY <1>0, <1>u, <2>1 DEF HashSide, HashRing, BtUsing
  <2>3. ~Waits'
    BY <1>u DEF Waits
  <2>4. H(n)' = h
    BY <2>1
  <2>5. CASE ends
    <3>1. q = TRUE
      BY <1>q, <2>5
    <3>2. btData'.left = 0 /\ btData'.hashNumAvail = 0 /\ ~btData'.failure
      BY <2>5, <1>a, <1>r, <1>p
    <3>3. BtSource(n, m, TRUE)'
      BY <2>1, <2>3, <2>4, <2>5, <3>2, <1>r DEF BtSource
    <3> QED
      BY <2>2, <3>1, <3>3 DEF HashSide
  <2>6. CASE ~ends
    <3>1. q = FALSE
      BY <1>q, <2>6
    <3>2. /\ btData'.left = h.num /\ btData'.hashNumAvail = h.avail /\ ~btData'.failure
          /\ btData'.pos = h.first
      BY <2>6, <1>a, <1>r, <1>p
    <3>3. h.avail >= NumHashBytes /\ h.num <= h.avail
      BY <2>6, <1>r, <1>h, <1>t
    <3>4. /\ h.first = h.first + h.num - h.num /\ h.avail = h.avail - h.num + h.num
      BY <1>h
    <3>5. BtSource(n, m, FALSE)'
      BY <2>3, <2>4, <3>2, <3>3, <3>4, <1>h DEF BtSource
    <3> QED
      BY <2>2, <3>1, <3>5 DEF HashSide
  <2> QED
    BY <2>5, <2>6
<1>8. ASSUME Serving' PROVE \E c, e \in Nat : BtSide(c, e, q)'
  <2>1. PICK c \in Nat, e \in Nat : BtSide(c, e, past) BY <1>0, <1>3, <1>8
  <2>2. blockIndex["bt"] = BtPlace(e) /\ B(e) = b BY <2>1, <1>u DEF BtSide, BtRing, B, b
  <2>3. Constructing /\ Constructing' /\ BtFilling = 1 BY <1>u DEF Constructing, BtFilling
  <2>4. B(e)' = new BY <1>b, <2>2, <1>t DEF B, Data, Stored
  <2>5. /\ ~past => /\ b.first + b.num = btData.pos
                    /\ b.avail = b.num + btData.hashNumAvail
                    /\ b.num <= BtLimit - 1
        /\ past => b.num = 0 /\ b.avail = 0
    BY <2>1, <1>u, <2>2, <2>3 DEF BtSide, Construction
  <2>6. Begun(e, past) = (IF past THEN mf.pos ELSE b.first) /\ BAvail(e, e) = b.avail
    BY <2>2, <2>3, <2>5, <1>d, <1>t DEF Begun, To, BAvail
  <2>7. Begun(e, q)' = (IF past THEN mf.pos ELSE b.first) /\ BAvail(e, e)' = new.avail
    BY <1>q, <1>u, <2>3, <2>4, <1>d, <1>r, <2>5, <1>t, <1>h, <1>a DEF To, Begun, BAvail
  <2>8. b.avail <= new.avail BY <2>5, <1>r, <1>d, <1>t, <1>h
  <2>9. Construction(e, q)'
    <3>1. CASE ends
      <4>1. /\ q = TRUE /\ new.num = new.avail /\ bt' = "filled" BY <3>1, <1>q, <1>d, <1>b
      <4>2. new.num > 0 => new.first + new.num = mf.pos BY <3>1, <1>r, <2>5, <1>d, <1>t, <1>h
      <4> QED BY <4>1, <4>2, <2>4, <1>u DEF Construction
    <3>2. CASE ~ends
      BY <3>2, <1>q, <1>b, <1>r, <2>5, <1>d, <1>a, <1>t, <1>h, <2>4 DEF Construction
    <3> QED BY <3>1, <3>2
  <2>10. BtSide(c, e, q)'
    <3>1. btBuf' = [btBuf EXCEPT ![BtPlace(e)] = new] /\ Serving BY <1>3, <1>b, <1>8, <2>2
    <3>2. /\ BAvail(e, e) \in Int /\ BAvail(e, e)' \in Int
          /\ BAvail(e, e) <= BAvail(e, e)'
          /\ Begun(e, past) \in Int /\ Begun(e, q)' = Begun(e, past)
      BY <1>d, <1>t, <1>h, <2>6, <2>7, <2>8
    <3> QED BY <2>1, <2>3, <2>9, <3>1, <3>2, <1>q, <1>u, BuildStep
  <2> QED BY <2>10
<1>9. Flow' BY <1>7, <1>8 DEF Flow
<1> QED BY <1>1, <1>2, <1>4, <1>5, <1>6, <1>9 DEF Data

LEMMA BtFilledData == ASSUME Data, BtFilled PROVE Data'
<1> USE DEF startVars, stopVars
<1>1. IInv' BY BtFilledStep DEF Data
<1>u. /\ UNCHANGED <<created, needStart, canStart, numProcessedBlocks,
                     mf, hashBuf, btBuf, btData, lzData, hash, lz, jobs>>
      /\ bt = "filled" /\ bt' = "loop"
      /\ ~needStart["bt"] /\ ~canStart["bt"]
      /\ blockIndex'["hash"] = blockIndex["hash"]
      /\ blockIndex'["bt"] = (blockIndex["bt"] + 1) % BtNumBlocks
      /\ filledSemaphore'["hash"] = filledSemaphore["hash"]
      /\ filledSemaphore'["bt"] = filledSemaphore["bt"] + 1
  <2>1. filledSemaphore["bt"] < BtNumBlocks BY Clean DEF Data, StopsClean, PostsFit, BtFilled
  <2>2. ~needStart["bt"] /\ ~canStart["bt"] /\ ~exit["bt"]
    BY DEF BtFilled, Data, IInv, BtHandshake, Asleep
  <2>3. /\ filledSemaphore'["hash"] = filledSemaphore["hash"]
        /\ filledSemaphore'["bt"] = filledSemaphore["bt"] + 1
    BY <2>1, UsingTypes, Numbers DEF BtFilled, Release, Semaphore_ReleaseN, NumBlocks, Data,
       IInv, Typed, Syncs
  <2>4. /\ blockIndex'["hash"] = blockIndex["hash"]
        /\ blockIndex'["bt"] = (blockIndex["bt"] + 1) % BtNumBlocks
    BY DEF BtFilled, NextIndex, NumBlocks, Data, Stored, Syncs
  <2> QED BY <2>2, <2>3, <2>4 DEF BtFilled
<1>2. Stored'
  <2>1. /\ blockIndex' \in [Syncs -> Nat]
        /\ \A s \in Syncs : blockIndex'[s] \in 0..NumBlocks(s) - 1
    BY IndexTypes DEF Data, Stored, BtFilled, Syncs, NextIndex
  <2> QED BY <1>u, <2>1 DEF Data, Stored
<1>3. (Feeding' <=> Feeding) /\ (Serving' <=> Serving) BY <1>u DEF Feeding, Serving, Asleep
<1>4. Window' BY <1>u, WindowFrame DEF Data
<1>5. History' BY <1>3, <1>u, HistoryFrame DEF Data
<1>6. Awake' BY <1>3, <1>u DEF Data, Awake, Asleep, Serving
<1>7. ASSUME NEW n \in Nat, NEW m \in Nat, NEW past \in BOOLEAN, HashSide(n, m, past)
      PROVE  HashSide(n, m, past)'
  BY <1>7, <1>u, HashSideFrame DEF BtUsing, Waits
<1>8. ASSUME Serving, NEW n \in Nat, NEW m \in Nat, NEW past \in BOOLEAN,
             HashSide(n, m, past), NEW c \in Nat, NEW e \in Nat, BtSide(c, e, past)
      PROVE  BtSide(c, e + 1, past)'
  <2>t. /\ mf.pos \in Nat /\ mf.streamPos \in Nat /\ mf.pos <= mf.streamPos
        /\ btData.pos \in Nat /\ btData.hashNumAvail \in Nat
        /\ BtLimit \in Nat
        /\ \A j \in Nat : B(j).first \in Nat /\ B(j).num \in Nat /\ B(j).avail \in Nat
    BY Fields, Numbers DEF Data, Window
  <2>c. e = c + filledSemaphore["bt"] + LzUsing /\ c <= e /\ LzUsing' = LzUsing
        /\ (LzUsing = 1 => c < e)
    BY <1>8, <1>u, BtCounts DEF LzUsing
  <2>k. Constructing /\ ~Constructing' BY <1>u DEF Constructing
  <2>b. \A j \in Int : B(j)' = B(j) BY <1>u DEF B
  <2>x. /\ ~past => /\ B(e).first + B(e).num = btData.pos
                    /\ B(e).avail = B(e).num + btData.hashNumAvail
                    /\ B(e).avail > 0
                    /\ B(e).num <= BtLimit
        /\ past => /\ B(e).num = B(e).avail
                   /\ B(e).num > 0 => B(e).first + B(e).num = mf.pos
                   /\ AtEnd /\ btData.hashNumAvail = 0
    BY <1>8, <1>u, <2>k DEF BtSide, Construction, HashSide, BtSource
  <2>g. /\ To(past)' = To(past) /\ To(past) \in Nat
        /\ Begun(e, past) = To(past) - B(e).num
        /\ Begun(e + 1, past)' = To(past)
    BY <1>u, <2>k, <2>t DEF To, Begun
  <2>p. To(past) + btData.hashNumAvail <= mf.streamPos BY <1>8, Promise, ServingFeeds
  <2>f. /\ \A j \in c..e : BFirst(j, e + 1, past)' = BFirst(j, e, past)
        /\ BFirst(e + 1, e + 1, past)' = To(past)
        /\ \A j \in c..e : BFirst(j, e, past) \in Int
    BY <1>u, <2>b, <2>g, <2>x, <2>t DEF BFirst, To
  <2>a. /\ \A j \in c..e : BAvail(j, e + 1)' = B(j).avail /\ BAvail(j, e) = B(j).avail
        /\ BAvail(e + 1, e + 1)' = btData.hashNumAvail
    BY <1>u, <2>b, <2>k DEF BAvail
  <2>o. AtEnd' = AtEnd /\ Over' = Over BY <1>u DEF AtEnd, Over
  <2>1. ASSUME NEW j \in c..e - 1 PROVE BtBlockOK(j, e + 1, past)'
    <3>1. j \in Nat /\ j \in c..e /\ j + 1 \in c..e /\ e - j \in Nat
          /\ e + 1 - j = e - j + 1
      OBVIOUS
    <3>2. BtBlockOK(j, e, past) BY <1>8 DEF BtSide, BtRing
    <3>3. /\ BFirst(j, e + 1, past)' = BFirst(j, e, past)
          /\ BFirst(j + 1, e + 1, past)' = BFirst(j + 1, e, past)
          /\ BAvail(j + 1, e + 1)' = BAvail(j + 1, e) /\ B(j)' = B(j)
          /\ BFirst(j, e, past) \in Int
      BY <3>1, <2>f, <2>a, <2>b
    <3>4. ~Over => To(past) <= BFirst(j, e, past) + (e - j + 1) * BtLimit
      <4> SUFFICES ASSUME ~Over
                   PROVE  To(past) <= BFirst(j, e, past) + (e - j + 1) * BtLimit
        OBVIOUS
      <4> DEFINE k == e - j
      <4>1. Begun(e, past) <= BFirst(j, e, past) + k * BtLimit BY <3>2 DEF BtBlockOK
      <4>2. k \in Nat BY <3>1
      <4> HIDE DEF k
      <4>3. (k + 1) * BtLimit = k * BtLimit + BtLimit /\ k * BtLimit \in Nat
        BY <4>2, <2>t, Products
      <4>4. B(e).num <= BtLimit /\ B(e).num \in Nat BY <2>x, <2>t DEF AtEnd
      <4>5. To(past) <= BFirst(j, e, past) + (k + 1) * BtLimit
        BY <4>1, <4>3, <4>4, <3>3, <2>g, <2>t
      <4> QED BY <4>5 DEF k
    <3> QED BY <3>1, <3>2, <3>3, <3>4, <2>g, <2>o, <1>u DEF BtBlockOK
  <2>2. BtBlockOK(e, e + 1, past)'
    <3>0. e \in c..e /\ e \in Nat BY <2>c
    <3>1. /\ BFirst(e, e + 1, past)' = To(past) - B(e).num
          /\ BFirst(e + 1, e + 1, past)' = To(past)
          /\ BAvail(e + 1, e + 1)' = btData.hashNumAvail /\ B(e)' = B(e)
      BY <3>0, <2>f, <2>a, <2>b, <2>g DEF BFirst
    <3>2. B(e).num <= B(e).avail /\ (B(e).avail = 0 => AtEnd) BY <3>0, <2>x, <2>t
    <3>3. B(e).avail <= B(e).num + btData.hashNumAvail BY <3>0, <2>x, <2>t
    <3>4. /\ To(past) - B(e).num + B(e).num = To(past)
          /\ To(past) - B(e).num + B(e).avail <= To(past) + btData.hashNumAvail
          /\ To(past) - B(e).num + B(e).avail <= mf.streamPos
      BY <3>0, <3>3, <2>p, <2>g, <2>t
    <3>5. ~Over => To(past) <= To(past) - B(e).num + (e + 1 - e) * BtLimit
      BY <3>0, <2>t, <2>x, <2>g DEF AtEnd
    <3> QED BY <3>1, <3>2, <3>4, <3>5, <2>g, <2>o, <1>u DEF BtBlockOK
  <2>3. BtRing(c, e + 1, past)'
    BY <2>c, <1>u, UsingTypes, <2>1, <2>2, <1>8, Steps DEF Data, BtSide, BtRing
  <2>4. Construction(e + 1, past)' BY <2>k DEF Construction
  <2>5. LzSource(c, e + 1, past)'
    BY <2>c, <2>f, <2>a, <2>b, <1>8, <1>u DEF BtSide, LzSource, LzWaits, LzInHand
  <2> QED BY <2>3, <2>4, <2>5 DEF BtSide
<1>9. Flow' BY <1>3, <1>7, <1>8 DEF Flow, Data
<1> QED BY <1>1, <1>2, <1>4, <1>5, <1>6, <1>9 DEF Data

-----------------------------------------------------------------------------
(* LZ *)

(* LZ stops, is created or destroyed: nothing flows to it any more.        *)
LEMMA LzQuietData ==
  ASSUME Data,
         LzCreate \/ LzStopWait \/ LzExitBt \/ LzExitHash \/ LzJoined
  PROVE  Data'
<1> USE DEF startVars, stopVars, lockVars, ringVars
<1>1. IInv'
  BY LzCreateStep, LzStopWaitStep, LzExitBtStep, LzExitHashStep, LzJoinedStep DEF Data
<1>2. Stored'
  BY StoredFrame DEF Data, LzCreate, LzStopWait, LzExitBt, SendExit, LzExitHash, LzJoined
<1>3. ~Feeding' /\ ~Serving'
  BY <1>1, NoFlow DEF LzCreate, LzStopWait, LzExitBt, LzExitHash, LzJoined, Leaving
<1>4. Window'
  BY WindowFrame DEF LzCreate, LzStopWait, LzExitBt, SendExit, LzExitHash, LzJoined, Data
<1> QED BY <1>1, <1>2, <1>3, <1>4 DEF Data, History, Awake, Flow

LEMMA LzStopData == ASSUME Data, LzStop \/ LzStopPost PROVE Data'
<1> USE DEF startVars, stopVars, lockVars, ringVars
<1>1. IInv' BY LzStopStep, LzStopPostStep DEF Data
<1>u. /\ UNCHANGED <<created, needStart, canStart, filledSemaphore, numProcessedBlocks,
                     blockIndex, mf, hashBuf, btBuf, btData, lzData, hash, bt, jobs>>
      /\ lz' \in {"idle", "stopPost", "stopWait"}
  BY DEF LzStop, LzStopPost
<1>2. Stored' BY <1>u, StoredFrame DEF Data
<1>3. (Feeding' => Feeding) /\ ~Serving' BY <1>u DEF Feeding, Serving
<1>4. Window' BY <1>u, WindowFrame DEF Data
<1>5. History' BY <1>3, <1>u, HistoryFrame DEF Data
<1>6. Awake' BY <1>3, <1>u DEF Data, Awake
<1>7. ASSUME NEW n \in Nat, NEW m \in Nat, NEW past \in BOOLEAN, HashSide(n, m, past)
      PROVE  HashSide(n, m, past)'
  BY <1>7, <1>u, HashSideFrame DEF BtUsing, Waits
<1>9. Flow' BY <1>3, <1>7, FlowStep DEF Data
<1> QED BY <1>1, <1>2, <1>4, <1>5, <1>6, <1>9 DEF Data

(* Everything begins anew. *)
LEMMA LzInitData == ASSUME Data, LzInit PROVE Data'
<1> USE DEF startVars, stopVars, lockVars
<1>1. IInv' BY LzInitStep DEF Data
<1>a. /\ hash = "start" /\ bt = "start" /\ needStart["bt"] /\ needStart["hash"]
      /\ ~canStart["bt"] /\ ~canStart["hash"]
  BY Clean DEF Data, StopsClean, StoppedIsAsleep, LzInit, Syncs
<1>u. /\ UNCHANGED <<created, needStart, canStart, numProcessedBlocks, blockIndex,
                     hashBuf, btBuf, hash, bt>>
      /\ filledSemaphore'["bt"] = 0 /\ filledSemaphore'["hash"] = 0
      /\ btData' = InitBtData /\ lzData' = InitLzData /\ lz' = "ready"
      /\ jobs' = jobs + 1 /\ jobs < MaxJobs
  BY DEF LzInit, FilledAtInit, Syncs
<1>b. PICK direct \in BOOLEAN : mf' = InitMf(direct) BY Numbers DEF LzInit
<1>m. /\ mf'.pos = 0 /\ mf'.streamPos = 0 /\ mf'.buffer = 0 /\ mf'.ended = FALSE
      /\ mf'.result = "ok" /\ mf'.directInput = direct
      /\ btData'.pos = 0 /\ btData'.buffer = 0 /\ btData'.left = 0
      /\ btData'.hashNumAvail = 0 /\ btData'.failure = FALSE
      /\ lzData'.pos = 0 /\ lzData'.buffer = 0 /\ lzData'.left = 0
      /\ lzData'.btNumAvail = 0 /\ lzData'.failure = FALSE
  BY <1>u, <1>b DEF InitMf, InitBtData, InitLzData
<1>2. Stored'
  <2>1. mf' \in [pos : 0..NumInput, streamPos : 0..NumInput, buffer : Nat,
                 ended : BOOLEAN, result : {"ok", "read"}, directInput : BOOLEAN]
    BY <1>b, Numbers DEF InitMf
  <2>2. jobs' \in 0..MaxJobs
    <3>1. jobs \in 0..MaxJobs /\ MaxJobs \in Nat BY Numbers DEF Data, Stored
    <3>2. jobs' = jobs + 1 /\ jobs < MaxJobs BY <1>u
    <3> QED BY <3>1, <3>2
  <2>3. /\ btData' \in [pos : Nat, buffer : Int, left : Nat, hashNumAvail : Nat,
                       failure : BOOLEAN]
        /\ lzData' \in [pos : Nat, buffer : Int, left : Nat, btNumAvail : Nat,
                       failure : BOOLEAN]
    BY <1>u DEF InitBtData, InitLzData
  <2> HIDE DEF startVars, stopVars, lockVars
  <2>4. UNCHANGED <<numProcessedBlocks, blockIndex, hashBuf, btBuf>> BY <1>u
  <2> QED BY <2>1, <2>2, <2>3, <2>4 DEF Data, Stored
<1>w. WindowStart' = 0 BY <1>m DEF WindowStart
<1>4. Window' BY <1>m, <1>w, <1>a, <1>u, Numbers DEF Window
<1>5. History' BY <1>w DEF History
<1>6. Awake' BY <1>a, <1>u DEF Awake
<1>7. HashSide(0, 0, FALSE)'
  BY <1>a, <1>u, <1>m DEF BtUsing, HashRing, Waits, HFirst, HEnd, BtSource, HashSide
<1>8. BtSide(0, 0, FALSE)'
  <2>1. LzUsing' = 0 /\ ~Constructing' BY <1>a, <1>u DEF LzUsing, Constructing
  <2>2. BtRing(0, 0, FALSE)' BY <1>a, <1>u, <2>1 DEF BtRing
  <2>3. Construction(0, FALSE)' BY <2>1 DEF Construction
  <2>4. BFirst(0, 0, FALSE)' = 0 /\ BAvail(0, 0)' = 0
    BY <1>m, <2>1 DEF BFirst, BAvail, Begun, To
  <2>5. LzSource(0, 0, FALSE)'
    <3>1. LzWaits(0, 0, FALSE)'
      <4>1. lzData'.left = 0 /\ ~lzData'.failure BY <1>m
      <4>2. lzData'.pos = BFirst(0, 0, FALSE)' BY <1>m, <2>4
      <4>3. lzData'.btNumAvail <= BAvail(0, 0)' BY <1>m, <2>4
      <4> QED BY <4>1, <4>2, <4>3 DEF LzWaits
    <3>2. needStart'["bt"] BY <1>a, <1>u
    <3> QED BY <3>1, <3>2 DEF LzSource
  <2> QED BY <2>2, <2>3, <2>5 DEF BtSide
<1>9. Flow'
  <2>1. 0 \in Nat /\ FALSE \in BOOLEAN OBVIOUS
  <2>2. \E n, m \in Nat, past \in BOOLEAN :
          /\ HashSide(n, m, past)'
          /\ Serving' => \E c, e \in Nat : BtSide(c, e, past)'
    BY <1>7, <1>8, <2>1
  <2> QED BY <2>2 DEF Flow
<1> QED BY <1>1, <1>2, <1>4, <1>5, <1>6, <1>9 DEF Data

LEMMA LzWaitFilledData == ASSUME Data, LzWaitFilled PROVE Data'
<1> USE DEF startVars, stopVars, lockVars
<1>1. IInv' BY LzWaitFilledStep DEF Data
<1>u. /\ UNCHANGED <<created, needStart, canStart, numProcessedBlocks, blockIndex, mf,
                     hashBuf, btBuf, btData, lzData, hash, bt, jobs>>
      /\ lz = "waitFilled" /\ lz' = "lock"
      /\ filledSemaphore'["hash"] = filledSemaphore["hash"]
      /\ filledSemaphore'["bt"] = filledSemaphore["bt"] - 1
      /\ ~needStart["bt"]
  BY DEF LzWaitFilled, WaitFilled, Semaphore_Wait, Data, IInv, Typed, Syncs, BtHandshake
<1>2. Stored' BY <1>u, StoredFrame DEF Data
<1>3. (Feeding' <=> Feeding) /\ Serving' /\ Serving BY <1>u DEF Feeding, Serving
<1>4. Window' BY <1>u, WindowFrame DEF Data
<1>5. History' BY <1>3, <1>u, HistoryFrame DEF Data
<1>6. Awake' BY <1>3, <1>u DEF Data, Awake
<1>7. ASSUME NEW n \in Nat, NEW m \in Nat, NEW past \in BOOLEAN, HashSide(n, m, past)
      PROVE  HashSide(n, m, past)'
  BY <1>7, <1>u, HashSideFrame DEF BtUsing, Waits
<1>8. ASSUME NEW c \in Nat, NEW e \in Nat, NEW past \in BOOLEAN, BtSide(c, e, past)
      PROVE  BtSide(c, e, past)'
  <2>1. /\ \A j \in Int : B(j)' = B(j)
        /\ \A j \in Int : BFirst(j, e, past)' = BFirst(j, e, past)
        /\ \A j \in Int : BAvail(j, e)' = BAvail(j, e)
        /\ \A j \in Int : BtBlockOK(j, e, past)' <=> BtBlockOK(j, e, past)
        /\ Construction(e, past)' <=> Construction(e, past)
    BY <1>u, BtBlocksFrame DEF Constructing
  <2>2. LzUsing = 0 /\ LzUsing' = 1 BY <1>u DEF LzUsing
  <2>3. e = c + filledSemaphore'["bt"] + LzUsing'
    BY <1>8, <1>u, <2>2, UsingTypes DEF BtSide, BtRing, Data
  <2>4. BtRing(c, e, past)' BY <1>8, <1>u, <2>1, <2>3 DEF BtSide, BtRing
  <2>5. LzSource(c, e, past)' BY <1>8, <1>u, <2>1 DEF BtSide, LzSource, LzWaits
  <2> QED BY <1>8, <2>1, <2>4, <2>5 DEF BtSide
<1>9. Flow' BY <1>3, <1>7, <1>8, FlowStep DEF Data
<1> QED BY <1>1, <1>2, <1>4, <1>5, <1>6, <1>9 DEF Data

(* The types of BT's blocks as LZ sees them. *)
LEMMA SeenTypes ==
  ASSUME Stored, NEW c \in Nat, NEW e \in Nat, NEW past \in BOOLEAN
  PROVE  /\ BFirst(c, e, past) \in Int /\ BAvail(c, e) \in Nat
         /\ B(c).num \in Nat /\ B(c).avail \in Nat
  BY Fields DEF To, Begun, BFirst, BAvail

(* LZ goes on in its block, or takes it. *)
LEMMA LzReads ==
  ASSUME Data, IInv', Stored', Window', Serving, Serving', ~needStart["bt"],
         UNCHANGED <<needStart, canStart, filledSemaphore, numProcessedBlocks,
                     blockIndex, mf, hashBuf, btBuf, btData, hash, bt>>,
         LzUsing' = LzUsing, lzData'.pos >= lzData.pos,
         \A c, e \in Nat, past \in BOOLEAN :
            BtSide(c, e, past) => LzSource(c, e, past)'
  PROVE  Data'
<1>3. Feeding' <=> Feeding BY DEF Feeding
<1>5. History'
  <2>1. WindowStart' = WindowStart /\ WindowStart \in Int BY Fields DEF WindowStart, Data
  <2>2. lzData'.pos \in Nat /\ lzData.pos \in Nat /\ HistorySize \in Nat
    BY Fields, Numbers DEF Data, Stored
  <2> QED BY <1>3, <2>1, <2>2 DEF Data, History
<1>6. Awake' BY <1>3 DEF Data, Awake
<1>7. ASSUME NEW n \in Nat, NEW m \in Nat, NEW past \in BOOLEAN, HashSide(n, m, past)
      PROVE  HashSide(n, m, past)'
  BY <1>7, HashSideFrame DEF BtUsing, Waits
<1>8. ASSUME NEW c \in Nat, NEW e \in Nat, NEW past \in BOOLEAN, BtSide(c, e, past)
      PROVE  BtSide(c, e, past)'
  BY BtBlocksFrame, <1>8 DEF Constructing, BtSide, BtRing
<1>9. Flow' BY <1>3, <1>7, <1>8, FlowStep DEF Data
<1> QED BY <1>5, <1>6, <1>9 DEF Data

(* LZ is at some block whenever it is served.                            *)
LEMMA LzBlock ==
  ASSUME Data, Serving
  PROVE  \E c, e \in Nat, past \in BOOLEAN : BtSide(c, e, past)
<1>1. Feeding BY ServingFeeds
<1> QED BY <1>1 DEF Data, Flow

LEMMA LzAfterFailureData == ASSUME Data, LzAfterFailure PROVE Data'
<1> USE DEF startVars, stopVars, lockVars, ringVars
<1>1. IInv' BY LzAfterFailureStep DEF Data
<1>u. /\ UNCHANGED <<needStart, canStart, filledSemaphore, numProcessedBlocks,
                     blockIndex, mf, hashBuf, btBuf, btData, hash, bt, jobs>>
      /\ lz = "ready" /\ lz' \in {"ready", "end"} /\ lzData.failure
      /\ lz' = "ready" => lzData.btNumAvail # 0
      /\ lzData' = [lzData EXCEPT !.left = 1]
  BY DEF LzAfterFailure
<1>d. /\ lzData' \in [pos : Nat, buffer : Int, left : Nat, btNumAvail : Nat,
                      failure : BOOLEAN]
      /\ lzData'.pos = lzData.pos /\ lzData'.buffer = lzData.buffer
      /\ lzData'.left = 1 /\ lzData'.btNumAvail = lzData.btNumAvail
      /\ lzData'.failure = lzData.failure
  <2>1. lzData \in [pos : Nat, buffer : Int, left : Nat, btNumAvail : Nat,
                    failure : BOOLEAN]
    BY DEF Data, Stored
  <2> QED BY <1>u, <2>1
<1>2. Stored' BY <1>u, <1>d DEF Data, Stored
<1>3. Serving /\ Serving' BY <1>u DEF Serving
<1>n. ~needStart["bt"] BY <1>u, <1>3, LzBlock DEF BtSide, LzSource, LzWaits
<1>4. Window' BY <1>u, <1>d DEF Data, Window, WindowStart, NeedMove
<1>8. ASSUME NEW c \in Nat, NEW e \in Nat, NEW past \in BOOLEAN, BtSide(c, e, past)
      PROVE  LzSource(c, e, past)'
  BY <1>u, BtBlocksFrame, <1>8, <1>n, Fields, <1>d DEF Constructing, BtSide, LzSource, Data,
     LzInHand
<1>9. LzUsing' = LzUsing /\ lzData'.pos >= lzData.pos BY <1>d, <1>u, Fields DEF LzUsing, Data
<1> QED BY <1>1, <1>2, <1>3, <1>n, <1>4, <1>8, <1>9, <1>u, LzReads

LEMMA LzTakeBlockData == ASSUME Data, LzTakeBlock PROVE Data'
<1> USE DEF startVars, stopVars, lockVars, ringVars
<1>1. IInv' BY LzTakeBlockStep DEF Data
<1> DEFINE d == btBuf[Block("bt")]
<1>u. /\ UNCHANGED <<needStart, canStart, filledSemaphore, numProcessedBlocks,
                     blockIndex, mf, hashBuf, btBuf, btData, hash, bt, jobs>>
      /\ lz = "lock" /\ lz' \in {"ready", "end"} /\ ~needStart["bt"]
      /\ lz' = "ready" => d.avail # 0
      /\ lzData' = [lzData EXCEPT !.left = IF d.bad THEN 1 ELSE d.num,
                                  !.btNumAvail = d.avail, !.failure = d.bad]
  BY DEF LzTakeBlock, Data, IInv, BtHandshake
<1>3. Serving /\ Serving' BY <1>u DEF Serving
<1>b. ASSUME NEW c \in Nat, NEW e \in Nat, NEW past \in BOOLEAN, BtSide(c, e, past)
      PROVE  d = B(c) /\ c < e
  BY <1>b, <1>u, Steps, UsingTypes DEF BtSide, BtRing, Block, NumBlocks, LzUsing, Data, B
<1>k. d \in BlockType BY <1>b, <1>3, LzBlock, Fields DEF Data
<1> HIDE DEF d
<1>d. /\ lzData' \in [pos : Nat, buffer : Int, left : Nat, btNumAvail : Nat,
                      failure : BOOLEAN]
      /\ lzData'.pos = lzData.pos /\ lzData'.buffer = lzData.buffer
      /\ lzData'.left = (IF d.bad THEN 1 ELSE d.num) /\ lzData'.btNumAvail = d.avail
      /\ lzData'.failure = d.bad
  <2>1. lzData \in [pos : Nat, buffer : Int, left : Nat, btNumAvail : Nat,
                    failure : BOOLEAN]
    BY DEF Data, Stored
  <2>2. (IF d.bad THEN 1 ELSE d.num) \in Nat /\ d.avail \in Nat /\ d.bad \in BOOLEAN
    BY <1>k DEF BlockType
  <2> QED BY <1>u, <2>1, <2>2
<1>2. Stored' BY <1>u, <1>d DEF Data, Stored
<1>4. Window' BY <1>u, <1>d DEF Data, Window, WindowStart, NeedMove
<1>8. ASSUME NEW c \in Nat, NEW e \in Nat, NEW past \in BOOLEAN, BtSide(c, e, past)
      PROVE  LzSource(c, e, past)'
  <2>1. BFirst(c, e, past)' = BFirst(c, e, past) /\ B(c)' = B(c)
    BY <1>u, BtBlocksFrame DEF Constructing
  <2>2. /\ d = B(c) /\ c < e
        /\ lzData.pos = BFirst(c, e, past)
    BY <1>8, <1>b, <1>u DEF BtSide, LzSource, LzWaits
  <2>3. BFirst(c, e, past) + B(c).avail <= mf.streamPos
    BY <1>8, <2>2 DEF BtSide, BtRing, BtBlockOK
  <2>4. BFirst(c, e, past) \in Int /\ B(c).num \in Nat /\ B(c).avail \in Nat
    BY SeenTypes DEF Data
  <2>5. LzInHand(c, e, past)' BY <1>u, <1>d, <2>1, <2>2, <2>3, <2>4 DEF LzInHand
  <2> QED BY <1>u, <2>5 DEF LzSource
<1>9. LzUsing' = LzUsing /\ lzData'.pos >= lzData.pos BY <1>d, <1>u, Fields DEF LzUsing, Data
<1> QED BY <1>1, <1>2, <1>3, <1>4, <1>8, <1>9, <1>u, LzReads

(* While LZ has entries left, it has at least as many promised bytes. *)
LEMMA Entries ==
  ASSUME Data, lz = "ready", lzData.left > 0
  PROVE  /\ ~needStart["bt"] /\ lzData.btNumAvail > 0
         /\ IF lzData.failure THEN lzData.left = 1 ELSE lzData.left <= lzData.btNumAvail
<1>1. Serving
  BY DEF Serving
<1>2. PICK c \in Nat, e \in Nat, past \in BOOLEAN : BtSide(c, e, past)
  BY <1>1, LzBlock
<1>t. /\ lzData.left \in Nat /\ lzData.btNumAvail \in Nat /\ filledSemaphore["bt"] \in Nat
      /\ B(c).num \in Nat /\ B(c).avail \in Nat
  BY Fields, UsingTypes DEF Data
<1>3. ~needStart["bt"]
  BY <1>2, <1>t DEF BtSide, LzSource, LzWaits
<1>4. LzInHand(c, e, past)
  BY <1>2, <1>3 DEF BtSide, LzSource
<1>5. LzUsing = 1
  BY <1>3 DEF LzUsing
<1>6. c \in c..e - 1
  BY <1>2, <1>5, <1>t DEF BtSide, BtRing
<1>7. B(c).num <= B(c).avail
  BY <1>2, <1>6 DEF BtSide, BtRing, BtBlockOK
<1> QED
  BY <1>3, <1>4, <1>7, <1>t DEF LzInHand

LEMMA LzConsumeData == ASSUME Data, LzConsume PROVE Data'
<1> USE DEF startVars, stopVars, lockVars, ringVars
<1>1. IInv' BY LzConsumeStep DEF Data
<1>u. /\ UNCHANGED <<needStart, canStart, filledSemaphore, numProcessedBlocks,
                     blockIndex, mf, hashBuf, btBuf, btData, hash, bt, jobs>>
      /\ lz = "ready" /\ lz' \in {"ready", "end"} /\ lzData.left > 0
      /\ lzData' = [lzData EXCEPT !.pos = @ + 1, !.buffer = @ + 1,
                                  !.left = @ - 1, !.btNumAvail = @ - 1]
  BY DEF LzConsume
<1>e. /\ ~needStart["bt"] /\ lzData.btNumAvail > 0
      /\ lzData.failure => lzData.left = 1
  BY <1>u, Entries
<1>d. /\ lzData' \in [pos : Nat, buffer : Int, left : Nat, btNumAvail : Nat,
                      failure : BOOLEAN]
      /\ lzData'.pos = lzData.pos + 1 /\ lzData'.buffer = lzData.buffer + 1
      /\ lzData'.left = lzData.left - 1
      /\ lzData'.btNumAvail = lzData.btNumAvail - 1
      /\ lzData'.failure = lzData.failure
  <2>1. lzData \in [pos : Nat, buffer : Int, left : Nat, btNumAvail : Nat,
                    failure : BOOLEAN]
    BY DEF Data, Stored
  <2>2. /\ lzData.pos + 1 \in Nat /\ lzData.buffer + 1 \in Int
        /\ lzData.left - 1 \in Nat /\ lzData.btNumAvail - 1 \in Nat
    BY <2>1, <1>u, <1>e
  <2> QED BY <1>u, <2>1, <2>2
<1>2. Stored' BY <1>u, <1>d DEF Data, Stored
<1>3. Serving /\ Serving' BY <1>u DEF Serving
<1>t. /\ lzData.pos \in Nat /\ lzData.buffer \in Int /\ lzData.left \in Nat
      /\ lzData.btNumAvail \in Nat /\ mf.pos \in Nat /\ mf.buffer \in Nat
      /\ mf.streamPos \in Nat
  BY Fields DEF Data
<1>4. Window' BY <1>d, <1>t, <1>u DEF Data, Window, WindowStart, NeedMove
<1>8. ASSUME NEW c \in Nat, NEW e \in Nat, NEW past \in BOOLEAN, BtSide(c, e, past)
      PROVE  LzSource(c, e, past)'
  <2>1. BFirst(c, e, past)' = BFirst(c, e, past) /\ B(c)' = B(c)
    BY <1>u, BtBlocksFrame DEF Constructing
  <2>2. LzInHand(c, e, past) BY <1>8, <1>e, <1>u DEF BtSide, LzSource
  <2>4. BFirst(c, e, past) \in Int /\ B(c).num \in Nat /\ B(c).avail \in Nat
    BY SeenTypes DEF Data
  <2>5. LzInHand(c, e, past)' BY <2>2, <1>d, <1>e, <1>t, <1>u, <2>1, <2>4 DEF LzInHand
  <2> QED BY <1>e, <1>u, <2>5 DEF LzSource
<1>9. LzUsing' = LzUsing /\ lzData'.pos >= lzData.pos BY <1>d, <1>u, <1>t DEF LzUsing
<1> QED BY <1>1, <1>2, <1>3, <1>e, <1>4, <1>8, <1>9, <1>u, LzReads

LEMMA LzNextBlockData == ASSUME Data, LzNextBlock PROVE Data'
<1> USE DEF startVars, stopVars, lockVars, ringVars
<1>1. IInv' BY LzNextBlockStep DEF Data
<1>u. /\ UNCHANGED <<created, filledSemaphore, blockIndex, mf, hashBuf, btBuf,
                     btData, lzData, hash, bt, jobs>>
      /\ lz = "ready" /\ lz' = "waitFilled" /\ lzData.left = 0 /\ ~lzData.failure
      /\ needStart'["hash"] = needStart["hash"] /\ canStart'["hash"] = canStart["hash"]
      /\ numProcessedBlocks'["hash"] = numProcessedBlocks["hash"]
      /\ ~needStart'["bt"]
  BY DEF LzNextBlock, FreeBlock, StartWorker, NextIndex, Data, Stored, IInv, Typed, Syncs
<1>s. \/ /\ ~needStart["bt"] /\ canStart' = canStart
         /\ numProcessedBlocks'["bt"] = (numProcessedBlocks["bt"] + 1) % BtNumBlocks
      \/ /\ needStart["bt"] /\ canStart'["bt"]
         /\ numProcessedBlocks'["bt"] = 1 % BtNumBlocks
  <2>1. CASE FreeBlock("bt") BY <2>1 DEF FreeBlock, NextIndex, Data, Stored, Syncs, NumBlocks
  <2>2. CASE StartWorker("bt")
    BY <2>2 DEF StartWorker, Data, Stored, IInv, Typed, Syncs, NumBlocks, Event_Set
  <2> QED BY <2>1, <2>2 DEF LzNextBlock
<1>2. Stored'
  <2>1. /\ numProcessedBlocks' \in [Syncs -> Nat]
        /\ \A s \in Syncs : numProcessedBlocks'[s] \in 0..NumBlocks(s) - 1
    <3>1. \/ numProcessedBlocks' = [numProcessedBlocks EXCEPT !["bt"] =
                                     (numProcessedBlocks["bt"] + 1) % NumBlocks("bt")]
          \/ numProcessedBlocks' = [numProcessedBlocks EXCEPT !["bt"] = 1 % NumBlocks("bt")]
      BY DEF LzNextBlock, FreeBlock, StartWorker, NextIndex
    <3>2. /\ numProcessedBlocks \in [Syncs -> Nat] /\ "bt" \in Syncs
          /\ \A s \in Syncs : numProcessedBlocks[s] \in 0..NumBlocks(s) - 1
      BY DEF Data, Stored, Syncs
    <3>3. \A k \in {0, 1 % NumBlocks("bt"),
                    (numProcessedBlocks["bt"] + 1) % NumBlocks("bt")} :
             LET new == [numProcessedBlocks EXCEPT !["bt"] = k]
             IN  new \in [Syncs -> Nat] /\ \A s \in Syncs : new[s] \in 0..NumBlocks(s) - 1
      BY <3>2, IndexTypes
    <3> QED BY <3>1, <3>3
  <2> QED BY <1>u, <2>1 DEF Data, Stored
<1>3. Feeding /\ Feeding' /\ Serving /\ Serving'
  BY <1>u, ServingFeeds, <1>s DEF Serving, Feeding
<1>4. Window' BY <1>u, WindowFrame DEF Data
<1>5. History' BY <1>3, <1>u, HistoryFrame DEF Data
<1>6. Awake' BY <1>3, <1>u, <1>s DEF Data, Awake
<1>7. ASSUME NEW n \in Nat, NEW m \in Nat, NEW past \in BOOLEAN, HashSide(n, m, past)
      PROVE  HashSide(n, m, past)'
  BY <1>7, <1>u, HashSideFrame DEF BtUsing, Waits
<1>8. ASSUME NEW c \in Nat, NEW e \in Nat, NEW past \in BOOLEAN, BtSide(c, e, past)
      PROVE  \E k \in Nat : BtSide(k, e, past)'
  <2>b. /\ \A j \in Int : B(j)' = B(j) /\ BFirst(j, e, past)' = BFirst(j, e, past)
        /\ \A j \in Int : BAvail(j, e)' = BAvail(j, e)
        /\ \A j \in Int : BtBlockOK(j, e, past)' <=> BtBlockOK(j, e, past)
        /\ Construction(e, past)' <=> Construction(e, past)
    BY <1>u, BtBlocksFrame DEF Constructing
  <2>c. Construction(e, past)' BY <1>8, <2>b DEF BtSide
  <2>0. LzUsing' = 0 /\ filledSemaphore["bt"] \in Nat
        /\ LzUsing = IF needStart["bt"] THEN 0 ELSE 1
    BY <1>u, UsingTypes DEF LzUsing, Data
  <2>1. CASE needStart["bt"]
    <3>1. e = 0 /\ c = 0 /\ filledSemaphore["bt"] = 0 BY <1>8, <2>1, <2>0 DEF BtSide, BtRing
    <3>2. numProcessedBlocks'["bt"] = BtPlace(c + 1) BY <1>s, <2>1, <3>1 DEF BtPlace
    <3>3. BtRing(c, e, past)' BY <1>u, <1>s, <2>0, <2>1, <3>1, <3>2 DEF BtRing
    <3>4. LzSource(c, e, past)' BY <1>8, <1>u, <2>b, <2>1 DEF BtSide, LzSource, LzWaits
    <3> QED BY <2>c, <3>3, <3>4 DEF BtSide
  <2>2. CASE ~needStart["bt"]
    <3>1. /\ e = c + filledSemaphore["bt"] + 1 /\ c < e
          /\ numProcessedBlocks["bt"] = BtPlace(c + 1)
      BY <1>8, <2>2, <2>0 DEF BtSide, BtRing
    <3>2. numProcessedBlocks'["bt"] = BtPlace(c + 1 + 1) BY <1>s, <2>2, <3>1, Steps
    <3>3. BtRing(c + 1, e, past)'
      BY <2>0, <3>1, <1>u, <1>8, <2>b, <1>s, <2>2, <3>2 DEF BtSide, BtRing
    <3>4. LzSource(c + 1, e, past)'
      <4>t. /\ B(c).num \in Nat /\ B(c).avail \in Nat
            /\ lzData.pos \in Nat /\ lzData.btNumAvail \in Nat
            /\ BFirst(c, e, past) \in Int /\ BFirst(c + 1, e, past) \in Int
            /\ BAvail(c + 1, e) \in Nat
        <5>1. c + 1 \in Nat /\ Stored BY DEF Data
        <5>2. /\ BFirst(c, e, past) \in Int /\ BFirst(c + 1, e, past) \in Int
              /\ BAvail(c + 1, e) \in Nat
              /\ B(c).num \in Nat /\ B(c).avail \in Nat
          BY <5>1, SeenTypes
        <5> QED BY <5>1, <5>2, Fields
      <4>1. BtBlockOK(c, e, past) BY <1>8, <3>1 DEF BtSide, BtRing
      <4>2. LzInHand(c, e, past) BY <1>8, <1>u, <2>2 DEF BtSide, LzSource
      <4>3. /\ lzData.btNumAvail = B(c).avail - B(c).num + 0
            /\ lzData.pos = BFirst(c, e, past) + B(c).num - 0
        BY <4>2, <1>u DEF LzInHand
      <4>4. /\ lzData.pos = BFirst(c + 1, e, past)
            /\ lzData.btNumAvail <= BAvail(c + 1, e)
        BY <4>1, <4>3, <4>t DEF BtBlockOK
      <4>5. LzWaits(c + 1, e, past)' BY <4>4, <1>u, <2>b DEF LzWaits
      <4> QED BY <4>5, <1>u DEF LzSource
    <3> QED BY <2>c, <3>3, <3>4 DEF BtSide
  <2> QED BY <2>1, <2>2
<1>9. Flow' BY <1>3, <1>7, <1>8 DEF Data, Flow
<1> QED BY <1>1, <1>2, <1>4, <1>5, <1>6, <1>9 DEF Data

LEMMA StutterData == ASSUME Data, UNCHANGED vars PROVE Data'
<1> USE DEF vars, startVars, stopVars, lockVars, ringVars
<1>1. IInv' BY StepIInv DEF Data
<1>2. Stored' BY StoredFrame DEF Data
<1>3. (Feeding' <=> Feeding) /\ (Serving' <=> Serving) BY DEF Feeding, Serving
<1>4. Window' BY WindowFrame DEF Data
<1>5. History' BY <1>3, HistoryFrame DEF Data
<1>6. Awake' BY <1>3 DEF Data, Awake
<1>7. ASSUME NEW n \in Nat, NEW m \in Nat, NEW past \in BOOLEAN, HashSide(n, m, past)
      PROVE  HashSide(n, m, past)'
  BY <1>7, HashSideFrame DEF BtUsing, Waits
<1>8. ASSUME NEW c \in Nat, NEW e \in Nat, NEW past \in BOOLEAN, BtSide(c, e, past)
      PROVE  BtSide(c, e, past)'
  BY <1>8, BtSideFrame DEF Constructing
<1>9. Flow' BY <1>3, <1>7, <1>8, FlowStep DEF Data
<1> QED BY <1>1, <1>2, <1>4, <1>5, <1>6, <1>9 DEF Data

LEMMA InitData == Init => Data
<1> SUFFICES ASSUME Init PROVE Data
  OBVIOUS
<1>1. IInv
  BY InitIInv
<1>2. Stored
  <2>1. EmptyBlock \in BlockType
    BY DEF EmptyBlock, BlockType
  <2>2. numProcessedBlocks \in [Syncs -> Nat] /\ blockIndex \in [Syncs -> Nat]
    BY DEF Init
  <2>3. \A s \in Syncs : 0 \in 0..NumBlocks(s) - 1
    BY Numbers DEF NumBlocks
  <2>4. mf \in [pos : 0..NumInput, streamPos : 0..NumInput, buffer : Nat,
                ended : BOOLEAN, result : {"ok", "read"}, directInput : BOOLEAN]
    BY Numbers DEF Init, InitMf
  <2>5. jobs \in 0..MaxJobs
    BY Numbers DEF Init
  <2>6. /\ btData \in [pos : Nat, buffer : Int, left : Nat, hashNumAvail : Nat,
                       failure : BOOLEAN]
        /\ lzData \in [pos : Nat, buffer : Int, left : Nat, btNumAvail : Nat,
                       failure : BOOLEAN]
    BY DEF Init, InitBtData, InitLzData
  <2>7. /\ hashBuf \in [0..HashNumBlocks - 1 -> BlockType]
        /\ btBuf \in [0..BtNumBlocks - 1 -> BlockType]
    BY <2>1 DEF Init
  <2>8. \A s \in Syncs : /\ numProcessedBlocks[s] \in 0..NumBlocks(s) - 1
                         /\ blockIndex[s] \in 0..NumBlocks(s) - 1
    BY <2>3 DEF Init
  <2> QED
    BY <2>2, <2>4, <2>5, <2>6, <2>7, <2>8 DEF Stored
<1>3. ~Feeding /\ ~Serving
  BY DEF Init, Feeding, Serving, Syncs
<1>4. Window
  BY Numbers DEF Init, Window, WindowStart, InitMf, InitBtData, InitLzData
<1> QED
  BY <1>1, <1>2, <1>3, <1>4 DEF Data, Awake, History, Flow

LEMMA DataStep == Data /\ [Next]_vars => Data'
<1> SUFFICES ASSUME Data, [Next]_vars PROVE Data'
  OBVIOUS
<1>1. CASE Hash
  BY <1>1, HashStartData, HashEnterData, HashMoveData, HashWaitFreeData, HashFillData DEF Hash
<1>2. CASE Bt
  BY <1>2, BtStartData, BtWaitFreeData, BtFillData, BtMatchData, BtNextBlockData,
     BtWaitFilledData, BtTakeBlockData, BtFilledData, BtStopData DEF Bt
<1>3. CASE Lz
  BY <1>3, LzQuietData, LzInitData, LzNextBlockData, LzAfterFailureData,
     LzWaitFilledData, LzTakeBlockData, LzConsumeData, LzStopData DEF Lz
<1>4. CASE Destroyed \/ UNCHANGED vars
  BY <1>4, StutterData DEF Destroyed
<1> QED
  BY <1>1, <1>2, <1>3, <1>4 DEF Next

-----------------------------------------------------------------------------
(* What follows from the invariant. *)

(* The hash block that BT has in hand. *)
LEMMA BtInHand ==
  ASSUME Data, BtHolds
  PROVE  \E n, m \in Nat, past \in BOOLEAN :
           /\ HashSide(n, m, past)
           /\ n < m /\ m = n + filledSemaphore["hash"] + 1
           /\ Block("hash") = HashPlace(n) /\ ~Waits
<1>1. Feeding
  BY DEF BtHolds, Data, IInv, BtHandshake, Feeding, Asleep
<1>2. PICK n \in Nat, m \in Nat, past \in BOOLEAN : HashSide(n, m, past)
  BY <1>1 DEF Data, Flow
<1>3. BtUsing = 1 /\ ~Waits /\ filledSemaphore["hash"] \in Nat
  BY UsingTypes DEF BtHolds, BtUsing, Waits, Data
<1>4. m = n + filledSemaphore["hash"] + 1 /\ numProcessedBlocks["hash"] = HashPlace(n + 1)
  BY <1>2, <1>3 DEF BtHolds, HashSide, HashRing
<1>5. Block("hash") = HashPlace(n)
  BY <1>4, Steps DEF Block, NumBlocks
<1> QED
  BY <1>2, <1>3, <1>4, <1>5

(* The block that LZ has in hand. *)
LEMMA LzHasInHand ==
  ASSUME Data, LzHolds
  PROVE  \E c, e \in Nat, past \in BOOLEAN :
           /\ BtSide(c, e, past) /\ LzInHand(c, e, past)
           /\ c < e /\ e = c + filledSemaphore["bt"] + 1
           /\ Block("bt") = BtPlace(c)
  BY LzBlock, UsingTypes, Steps DEF LzHolds, Serving, LzUsing, Data, BtSide, BtRing, LzSource,
    Block, NumBlocks

LEMMA DataInStep == Data => InStep
<1> SUFFICES ASSUME Data PROVE InStep OBVIOUS
<1>1. ASSUME LzHolds, bt \in {"get", "waitFilled", "lock", "filled"}
      PROVE  blockIndex["bt"] # Block("bt")
  <2>1. PICK c \in Nat, e \in Nat, past \in BOOLEAN :
          /\ BtSide(c, e, past) /\ c < e /\ e = c + filledSemaphore["bt"] + 1
          /\ Block("bt") = BtPlace(c)
    BY <1>1, LzHasInHand
  <2>2. blockIndex["bt"] = BtPlace(e)
    BY <2>1, <1>1 DEF LzHolds, BtSide, BtRing, Data, IInv, BtHandshake
  <2>3. BtFilling = 1 /\ LzUsing = 1 BY <1>1 DEF BtFilling, LzUsing, LzHolds
  <2>4. freeSemaphore["bt"] \in Nat /\ filledSemaphore["bt"] \in Nat /\ BtNumBlocks \in Nat
    BY UsingTypes, Numbers DEF Data
  <2>5. freeSemaphore["bt"] + filledSemaphore["bt"] + BtFilling + LzUsing <= BtNumBlocks
    BY DEF Data, IInv, Rings
  <2>6. c <= e /\ e < c + BtNumBlocks /\ c # e BY <2>1, <2>3, <2>4, <2>5
  <2> QED BY <2>1, <2>2, <2>6, Places
<1>2. ASSUME BtHolds, hash = "fill"
      PROVE  blockIndex["hash"] # Block("hash")
  <2>1. PICK n \in Nat, m \in Nat, past \in BOOLEAN :
          /\ HashSide(n, m, past) /\ n < m /\ m = n + filledSemaphore["hash"] + 1
          /\ Block("hash") = HashPlace(n)
    BY <1>2, BtInHand
  <2>2. blockIndex["hash"] = HashPlace(m)
    BY <2>1, <1>2 DEF BtHolds, HashSide, HashRing, Data, IInv, HashHandshake
  <2>3. HashFilling = 1 /\ BtUsing = 1 BY <1>2 DEF HashFilling, BtUsing, BtHolds
  <2>4. freeSemaphore["hash"] \in Nat /\ filledSemaphore["hash"] \in Nat
        /\ HashNumBlocks \in Nat
    BY UsingTypes, Numbers DEF Data
  <2>5. freeSemaphore["hash"] + filledSemaphore["hash"] + HashFilling + BtUsing
          <= HashNumBlocks
    BY DEF Data, IInv, Rings
  <2>6. n <= m /\ m < n + HashNumBlocks /\ n # m BY <2>1, <2>3, <2>4, <2>5
  <2> QED BY <2>1, <2>2, <2>6, Places
<1>3. ASSUME LzHolds, lzData.left > 0, ~lzData.failure
      PROVE  btBuf[Block("bt")].first + btBuf[Block("bt")].num - lzData.left = lzData.pos
  BY <1>3, LzHasInHand, Fields DEF Data, LzInHand, BtSide, BtRing, BtBlockOK, BFirst, B
<1>4. ASSUME BtHolds, btData.left > 0, ~btData.failure
      PROVE  hashBuf[Block("hash")].first + hashBuf[Block("hash")].num - btData.left
                = btData.pos
  BY <1>4, BtInHand DEF HashSide, BtSource, H
<1> QED BY <1>1, <1>2, <1>3, <1>4 DEF InStep, BlocksExclusive, EntriesInStep

LEMMA DataWindowValid == Data => WindowValid
<1> SUFFICES ASSUME Data PROVE WindowValid OBVIOUS
<1>1. WindowStill BY Clean DEF Data, StopsClean
<1>2. /\ lzData.buffer = lzData.pos - WindowStart
      /\ btData.buffer = btData.pos - WindowStart
      /\ ~mf.directInput => mf.streamPos - WindowStart <= BlockSize
  BY DEF Data, Window
<1>3. ASSUME LzHolds
      PROVE  /\ lzData.buffer >= HistorySize \/ WindowStart = 0
             /\ lzData.pos + lzData.btNumAvail <= mf.streamPos
  <2>1. PICK c \in Nat, e \in Nat, past \in BOOLEAN :
          BtSide(c, e, past) /\ LzInHand(c, e, past) /\ c < e
    BY <1>3, LzHasInHand
  <2>2. lzData.buffer >= HistorySize \/ WindowStart = 0
    BY <1>2, <1>3 DEF Data, History, LzHolds, Serving
  <2>3. lzData.pos + lzData.btNumAvail <= mf.streamPos
    <3>t. /\ B(c).num \in Nat /\ B(c).avail \in Nat /\ lzData.left \in Nat
          /\ BFirst(c, e, past) \in Int
      BY Fields, SeenTypes DEF Data
    <3>1. BFirst(c, e, past) + B(c).avail <= mf.streamPos BY <2>1 DEF BtSide, BtRing, BtBlockOK
    <3>2. lzData.failure \/ lzData.pos + lzData.btNumAvail = BFirst(c, e, past) + B(c).avail
      BY <2>1, <3>t DEF LzInHand
    <3> QED BY <2>1, <3>1, <3>2 DEF LzInHand
  <2> QED BY <2>2, <2>3
<1>4. ASSUME BtHolds, btData.left > 0
      PROVE  /\ btData.buffer >= HistorySize \/ WindowStart = 0
             /\ btData.pos + btData.hashNumAvail <= mf.streamPos
  <2>1. PICK n \in Nat, m \in Nat, past \in BOOLEAN :
          HashSide(n, m, past) /\ n < m /\ ~Waits
    BY <1>4, BtInHand
  <2>2. btData.buffer >= HistorySize \/ WindowStart = 0
    BY <1>2, <1>4 DEF Data, History, BtHolds, Feeding, IInv, BtHandshake, Asleep
  <2>3. btData.pos + btData.hashNumAvail <= mf.streamPos
    <3>t. /\ H(n).first \in Nat /\ H(n).num \in Nat /\ H(n).avail \in Nat
          /\ btData.left \in Nat
      BY Fields DEF Data
    <3>1. H(n).first + H(n).avail <= mf.streamPos
      BY <2>1 DEF HashSide, HashRing, HashBlockOK
    <3>2. ~past
      BY <1>4, <2>1 DEF HashSide, BtSource
    <3>3. /\ btData.pos = H(n).first + H(n).num - btData.left
          /\ btData.hashNumAvail = H(n).avail - H(n).num + btData.left
      BY <2>1, <3>2 DEF HashSide, BtSource
    <3>4. btData.pos + btData.hashNumAvail = H(n).first + H(n).avail
      BY <3>3, <3>t
    <3> QED
      BY <3>1, <3>4
  <2> QED
    BY <2>2, <2>3
<1> QED BY <1>1, <1>2, <1>3, <1>4 DEF WindowValid, WindowCovers

-----------------------------------------------------------------------------
(* The match finder without threads. *)

(* What the encoder sees of the match finder. *)
Phase == IF lz \in {"ready", "waitFilled", "lock"} THEN "open"
         ELSE IF lz = "end" THEN "end" ELSE "closed"
Failed == mf.result # "ok" \/ lzData.failure

(* The steps of the match finder without threads, in these terms. *)
LEMMA FinderSteps ==
  /\ (Phase = "closed" /\ lzData.pos = 0 /\ lzData.btNumAvail = 0 /\ ~Failed)
        => Finder!Init
  /\ (Phase = "closed" /\ Phase' = "open" /\ lzData'.pos = 0
        /\ lzData'.btNumAvail = 0 /\ ~Failed') => Finder!Open
  /\ (/\ Phase = "open" /\ Phase' = "open" /\ lzData'.pos = lzData.pos
      /\ lzData'.btNumAvail \in lzData.btNumAvail..NumInput - lzData.pos
      /\ Failed => Failed') => Finder!Look
  /\ (/\ Phase = "open" /\ Phase' = "end" /\ lzData.btNumAvail = 0
      /\ Failed => Failed'
      /\ lzData.pos = NumInput \/ Failed'
      /\ lzData'.pos = lzData.pos /\ lzData'.btNumAvail = lzData.btNumAvail)
        => Finder!End
  /\ (/\ Phase = "open" /\ Phase' = "open" /\ lzData.btNumAvail > 0
      /\ lzData'.pos = lzData.pos + 1 /\ lzData'.btNumAvail = lzData.btNumAvail - 1
      /\ Failed' <=> Failed) => Finder!Consume
  /\ (/\ Phase \in {"open", "end"} /\ Phase' = "closed"
      /\ lzData'.pos = lzData.pos /\ lzData'.btNumAvail = lzData.btNumAvail
      /\ Failed' <=> Failed) => Finder!Close
  /\ (/\ Failed' /\ Phase' = Phase
      /\ lzData'.pos = lzData.pos /\ lzData'.btNumAvail = lzData.btNumAvail)
        => Finder!Error
  /\ (/\ Failed' <=> Failed
      /\ Phase' = Phase
      /\ lzData'.pos = lzData.pos /\ lzData'.btNumAvail = lzData.btNumAvail)
        => UNCHANGED Finder!vars
BY DEF Phase, Failed, Finder!Init, Finder!Open, Finder!Look, Finder!End, Finder!Consume,
   Finder!Close, Finder!Error, Finder!vars

LEMMA InitFinder == Init => Finder!Init
BY FinderSteps DEF Init, InitMf, InitLzData, Phase, Failed

(* HASH shows an error of the reading, and no more. *)
LEMMA HashRefines ==
  ASSUME Data, Hash
  PROVE  Finder!Error \/ UNCHANGED Finder!vars
<1>1. lz' = lz /\ Phase' = Phase
  BY DEF Hash, HashStart, HashEnterBt, HashEnterHash, HashMove, HashWaitFree, HashFill, Phase
<1>2. /\ lzData'.pos = lzData.pos /\ lzData'.btNumAvail = lzData.btNumAvail
      /\ lzData'.failure = lzData.failure
  BY DEF Hash, HashStart, HashEnterBt, HashEnterHash, HashMove, HashWaitFree, HashFill, Data,
     Stored
<1>3. mf'.result = mf.result \/ mf'.result # "ok"
  BY FillFacts DEF Fills, Over, Hash, HashStart, HashEnterBt, HashEnterHash, HashMove,
     HashWaitFree, Data, Stored
<1> QED BY <1>1, <1>2, <1>3, FinderSteps DEF Failed

LEMMA BtRefines == ASSUME Bt PROVE UNCHANGED Finder!vars
<1>1. UNCHANGED <<lz, lzData, mf>>
  BY DEF Bt, BtStart, BtWaitFree, BtFill, BtMatch, BtNextBlock, BtWaitFilled, BtTakeBlock,
     BtFilled, BtStop, BtStopPost, BtStopWait
<1> QED BY <1>1, FinderSteps DEF Phase, Failed

(* LZ takes a block: more is promised, or the input has ended. *)
LEMMA LzTakeBlockRefines ==
  ASSUME Data, LzTakeBlock
  PROVE  Finder!Look \/ Finder!End
<1> DEFINE d == btBuf[Block("bt")]
<1>u. /\ UNCHANGED mf /\ ~needStart["bt"]
      /\ lz = "lock" /\ lz' = IF d.avail = 0 THEN "end" ELSE "ready"
      /\ lzData' = [lzData EXCEPT !.left = IF d.bad THEN 1 ELSE d.num,
                                  !.btNumAvail = d.avail, !.failure = d.bad]
  BY DEF LzTakeBlock, Data, IInv, BtHandshake
<1>1. PICK c \in Nat, e \in Nat, past \in BOOLEAN : BtSide(c, e, past)
  BY <1>u, LzBlock DEF Serving
<1>2. LzUsing = 1 /\ filledSemaphore["bt"] \in Nat BY <1>u, UsingTypes DEF LzUsing, Data
<1>3. c < e /\ numProcessedBlocks["bt"] = BtPlace(c + 1) BY <1>1, <1>2, <1>u DEF BtSide, BtRing
<1>4. d = B(c) BY <1>3, Steps DEF Block, NumBlocks, B
<1> HIDE DEF d
<1>d. /\ lzData'.pos = lzData.pos /\ lzData'.btNumAvail = B(c).avail
  BY <1>u, <1>4 DEF Data, Stored
<1>t. /\ lzData.pos \in Nat /\ lzData.btNumAvail \in Nat /\ B(c).avail \in Nat
      /\ mf.streamPos \in Nat /\ mf.streamPos <= NumInput /\ NumInput \in Nat
      /\ BFirst(c, e, past) \in Int
  BY Fields, SeenTypes, Numbers DEF Data
<1>5. ~lzData.failure /\ lzData.pos = BFirst(c, e, past) /\ lzData.btNumAvail <= B(c).avail
  BY <1>1, <1>3, <1>u DEF BtSide, LzSource, LzWaits, BAvail
<1>6. BFirst(c, e, past) + B(c).avail <= mf.streamPos /\ (B(c).avail = 0 => AtEnd)
  BY <1>1, <1>3 DEF BtSide, BtRing, BtBlockOK
<1>7. Failed => Failed' BY <1>5, <1>u DEF Failed
<1>8. CASE B(c).avail = 0
  <2>1. Phase = "open" /\ Phase' = "end" /\ lzData.btNumAvail = 0 /\ lzData'.btNumAvail = 0
    BY <1>8, <1>u, <1>4, <1>5, <1>d, <1>t DEF Phase
  <2>2. lzData.pos = NumInput \/ Failed'
    <3>1. lzData.pos = mf.pos /\ AtEnd
      BY <1>3, <1>5, <1>6, <1>8 DEF BFirst
    <3> QED
      BY <3>1, <1>u DEF AtEnd, Over, Failed, Data, Window
  <2> QED
    BY <2>1, <2>2, <1>7, <1>d, FinderSteps
<1>9. CASE B(c).avail # 0
  BY <1>9, <1>u, <1>4, <1>5, <1>6, <1>d, <1>t, <1>7, FinderSteps DEF Phase
<1> QED BY <1>8, <1>9

LEMMA LzConsumeRefines == ASSUME Data, LzConsume PROVE Finder!Consume
<1>1. /\ lz = "ready" /\ lzData.left > 0 /\ UNCHANGED mf
      /\ lz' = IF lzData.left > 1 /\ lzData.btNumAvail = 1 THEN "end" ELSE "ready"
      /\ lzData' = [lzData EXCEPT !.pos = @ + 1, !.buffer = @ + 1,
                                  !.left = @ - 1, !.btNumAvail = @ - 1]
  BY DEF LzConsume
<1>2. /\ lzData.btNumAvail > 0
      /\ IF lzData.failure THEN lzData.left = 1 ELSE lzData.left <= lzData.btNumAvail
  BY <1>1, Entries
<1>3. lzData.left \in Nat /\ lzData.btNumAvail \in Nat BY Fields DEF Data
<1>4. lz' = "ready" BY <1>1, <1>2, <1>3
<1>5. /\ lzData'.pos = lzData.pos + 1 /\ lzData'.btNumAvail = lzData.btNumAvail - 1
      /\ lzData'.failure = lzData.failure
  BY <1>1 DEF Data, Stored
<1>6. Phase = "open" /\ Phase' = "open" /\ (Failed' <=> Failed)
  BY <1>1, <1>4, <1>5 DEF Phase, Failed
<1> QED BY <1>2, <1>5, <1>6, FinderSteps

LEMMA LzRefines ==
  ASSUME Data, Lz
  PROVE  Finder!Next \/ UNCHANGED Finder!vars
<1>1. CASE LzInit
  BY <1>1, FinderSteps DEF LzInit, Phase, InitLzData, InitMf, Failed, Finder!Next
<1>2. CASE LzTakeBlock BY <1>2, LzTakeBlockRefines DEF Finder!Next
<1>3. CASE LzConsume BY <1>3, LzConsumeRefines DEF Finder!Next
<1>4. CASE LzAfterFailure
  BY <1>4, FinderSteps DEF LzAfterFailure, Data, Stored, Failed, Phase, Finder!Next
<1>5. CASE LzStop BY <1>5, FinderSteps DEF LzStop, Phase, Failed, Finder!Next
<1>6. CASE LzCreate \/ LzNextBlock \/ LzWaitFilled \/ LzStopPost \/ LzStopWait
           \/ LzExitBt \/ LzExitHash \/ LzJoined
  BY <1>6, FinderSteps DEF LzCreate, LzNextBlock, LzWaitFilled, LzStopPost, LzStopWait,
     LzExitBt, LzExitHash, SendExit, LzJoined, Phase, Failed
<1> QED BY <1>1, <1>2, <1>3, <1>4, <1>5, <1>6 DEF Lz

LEMMA StepRefines == Data /\ [Next]_vars => [Finder!Next]_(Finder!vars)
  BY HashRefines, BtRefines, LzRefines, FinderSteps DEF Finder!Next, Destroyed, vars, Phase,
    Failed, Next

(* The types hold, with their bounds: no semaphore counts more blocks than *)
(* its ring has, no index leaves its ring, no position leaves the input,   *)
(* and the window's index stays in the window (or the input in memory).    *)
THEOREM TypesKept == Spec => []TypeOK
<1>1. Spec => []Data BY InitData, DataStep, PTL DEF Spec
<1> QED BY <1>1, DataTypes, PTL

(* Every position gets its own matches: a worker never writes into the     *)
(* block that its user has in hand, and the entries in hand belong to the  *)
(* next position, after any stops, restarts and failures.                  *)
THEOREM BlocksInStep == Spec => []InStep
<1>1. Spec => []Data BY InitData, DataStep, PTL DEF Spec
<1> QED BY <1>1, DataInStep, PTL

(* The window is moved only while nobody looks at it, and it always holds  *)
(* the history of LZ and BT, however far HASH is ahead, and the bytes they *)
(* have been promised.                                                     *)
THEOREM WindowIsValid == Spec => []WindowValid
<1>1. Spec => []Data BY InitData, DataStep, PTL DEF Spec
<1> QED BY <1>1, DataWindowValid, PTL

(* For the encoder the three threads are a match finder without threads:   *)
(* promised bytes stay promised, and the end is told at the end of the     *)
(* input or after an error.                                                *)
THEOREM FinderImplemented == Spec => ImplementsFinder
<1>1. Spec => []Data BY InitData, DataStep, PTL DEF Spec
<1> QED
  BY <1>1, InitFinder, StepRefines, PTL DEF Spec, ImplementsFinder, Finder!Spec

=============================================================================
