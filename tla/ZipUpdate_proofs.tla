--------------------------- MODULE ZipUpdate_proofs ---------------------------
(***************************************************************************)
(* Theorems about the multithreaded zip update, for any items, threads and *)
(* blocks, whatever fails.                                                 *)
(*                                                                         *)
(*   - Each step is described once, by what it does to the fields: Only    *)
(*     and Move say it of a thread, MainMove of the main thread.  That it  *)
(*     keeps the parts of Inv is proved from the descriptions alone.       *)
(*   - Queue and RealOK: the busy threads are listed in the order of their *)
(*     items; a thread writes to the archive itself only when its item is  *)
(*     the current one and it has been told so.                            *)
(*   - Life and StreamOK: what an item's thread has packed, where it is.   *)
(*   - ArcOK, ArcData: the archive is the entries before the current item, *)
(*     and what the current one has written of itself.                     *)
(*   - KeptOK, BlocksOK, ProgressOK: blocks and bytes, counted by sums     *)
(*     over threads and items; a step changes one term or moves one.       *)
(***************************************************************************)
EXTENDS ZipUpdate, SequenceTheorems, FiniteSetTheorems, WellFoundedInduction,
        TLAPS

(* A nonempty set of natural numbers has a least element. *)
LEMMA LeastNumber ==
    ASSUME NEW T \in SUBSET Nat, T # {}
    PROVE  \E x \in T : \A y \in T : x <= y
<1>1. IsWellFoundedOn(OpToRel(<, Nat), Nat) BY NatLessThanWellFounded
<1>2. PICK x \in T : \A y \in T : <<y, x>> \notin OpToRel(<, Nat) BY <1>1, WFMin
<1>3. \A y \in T : ~(y < x) BY <1>2 DEF OpToRel
<1>4. \A y \in T : x <= y BY <1>3
<1> QED BY <1>4

-----------------------------------------------------------------------------
(* Sums.                                                                   *)

AnyOf(s) == CHOOSE x \in s : TRUE

(* g[s] is the sum of f over s, for every s of SS. *)
SumTable(f, SS, g) ==
    g = [s \in SS |-> IF s = {} THEN 0 ELSE f[AnyOf(s)] + g[s \ {AnyOf(s)}]]

LEMMA AnyElement ==
    ASSUME NEW s, s # {}
    PROVE  AnyOf(s) \in s
BY DEF AnyOf

LEMMA OneLess ==
    ASSUME NEW s, IsFiniteSet(s), NEW x \in s
    PROVE  /\ IsFiniteSet(s \ {x}) /\ Cardinality(s) \in Nat \ {0}
           /\ Cardinality(s \ {x}) = Cardinality(s) - 1
BY FS_RemoveElement, FS_CardinalityType, FS_EmptySet

LEMMA SumTableExists ==
    ASSUME NEW f, NEW S, IsFiniteSet(S)
    PROVE  \E g : SumTable(f, SUBSET S, g)
<1> DEFINE Small(n) == {s \in SUBSET S : Cardinality(s) <= n}
           T == {n \in Nat : ~ \E g : SumTable(f, Small(n), g)}
<1>1. \A s \in SUBSET S : IsFiniteSet(s) /\ Cardinality(s) \in Nat
  BY FS_Subset, FS_CardinalityType
<1>2. T = {}
  <2> SUFFICES ASSUME T # {} PROVE FALSE OBVIOUS
  <2>1. PICK n \in T : \A k \in T : n <= k BY LeastNumber
  <2>2. CASE n = 0
    <3>1. \A s \in Small(0) : s = {} BY <1>1, FS_EmptySet
    <3>2. SumTable(f, Small(0), [s \in Small(0) |-> 0]) BY <3>1 DEF SumTable
    <3> QED BY <2>1, <2>2, <3>2
  <2>3. CASE n > 0
    <3>1. n - 1 \in Nat /\ n - 1 \notin T
      <4>1. n \in Nat /\ n - 1 \in Nat BY <2>3
      <4>2. ~(n <= n - 1) BY <4>1
      <4> QED BY <2>1, <4>1, <4>2
    <3>2. PICK g : SumTable(f, Small(n - 1), g) BY <3>1
    <3> DEFINE h == [s \in Small(n) |-> IF s = {} THEN 0 ELSE f[AnyOf(s)] + g[s \ {AnyOf(s)}]]
    <3>3. \A s \in Small(n) : s # {} => s \ {AnyOf(s)} \in Small(n - 1)
      BY <1>1, AnyElement, OneLess, <2>1
    <3>4. Small(n - 1) \subseteq Small(n) BY <1>1, <2>1
    <3> HIDE DEF Small
    <3>5. \A s \in Small(n - 1) : h[s] = g[s]
      <4> SUFFICES ASSUME NEW s \in Small(n - 1) PROVE h[s] = g[s] OBVIOUS
      <4>1. h[s] = IF s = {} THEN 0 ELSE f[AnyOf(s)] + g[s \ {AnyOf(s)}] BY <3>4
      <4>2. g[s] = IF s = {} THEN 0 ELSE f[AnyOf(s)] + g[s \ {AnyOf(s)}]
        BY <3>2, Zenon DEF SumTable
      <4> QED BY <4>1, <4>2
    <3>6. \A s \in Small(n) : h[s] = IF s = {} THEN 0 ELSE f[AnyOf(s)] + h[s \ {AnyOf(s)}]
      BY <3>3, <3>5
    <3>7. h = [s \in Small(n) |-> h[s]] OBVIOUS
    <3> HIDE DEF h
    <3>8. SumTable(f, Small(n), h) BY <3>6, <3>7, Zenon DEF SumTable
    <3> QED BY <2>1, <3>8
  <2> QED BY <2>1, <2>2, <2>3
<1>3. SUBSET S = Small(Cardinality(S)) BY FS_Subset, <1>1
<1>4. Cardinality(S) \in Nat /\ Cardinality(S) \notin T BY <1>1, <1>2
<1>5. \E g : SumTable(f, Small(Cardinality(S)), g) BY <1>4
<1> QED BY <1>3, <1>5

(* A table of a larger set agrees with that of a smaller one. *)
LEMMA SumTablesAgree ==
    \A f, S, R, g, h :
        IsFiniteSet(S) /\ R \subseteq S /\ SumTable(f, SUBSET S, g) /\ SumTable(f, SUBSET R, h)
            => g[R] = h[R]
<1> TAKE f, S, R, g, h
<1> HAVE /\ IsFiniteSet(S) /\ R \subseteq S
         /\ SumTable(f, SUBSET S, g) /\ SumTable(f, SUBSET R, h)
<1> DEFINE T == {n \in Nat : \E s \in SUBSET R : Cardinality(s) = n /\ g[s] # h[s]}
<1>1. \A s \in SUBSET R : IsFiniteSet(s) /\ Cardinality(s) \in Nat
  BY FS_Subset, FS_CardinalityType
<1>2. \A s \in SUBSET R :
        /\ g[s] = IF s = {} THEN 0 ELSE f[AnyOf(s)] + g[s \ {AnyOf(s)}]
        /\ h[s] = IF s = {} THEN 0 ELSE f[AnyOf(s)] + h[s \ {AnyOf(s)}]
  <2> SUFFICES ASSUME NEW s \in SUBSET R
               PROVE  /\ g[s] = IF s = {} THEN 0 ELSE f[AnyOf(s)] + g[s \ {AnyOf(s)}]
                      /\ h[s] = IF s = {} THEN 0 ELSE f[AnyOf(s)] + h[s \ {AnyOf(s)}]
    OBVIOUS
  <2>1. s \in SUBSET S OBVIOUS
  <2> QED BY <2>1, Zenon DEF SumTable
<1>3. T = {}
  <2> SUFFICES ASSUME T # {} PROVE FALSE OBVIOUS
  <2>1. PICK n \in T : \A k \in T : n <= k BY LeastNumber
  <2>2. PICK s \in SUBSET R : Cardinality(s) = n /\ g[s] # h[s] BY <2>1
  <2>3. s # {} BY <1>2, <2>2
  <2>4. s \ {AnyOf(s)} \in SUBSET R /\ Cardinality(s \ {AnyOf(s)}) = n - 1 /\ n - 1 \in Nat
    BY <1>1, <2>2, <2>3, AnyElement, OneLess
  <2>5. g[s \ {AnyOf(s)}] = h[s \ {AnyOf(s)}] BY <2>1, <2>4
  <2> QED BY <1>2, <2>2, <2>3, <2>5
<1> QED BY <1>1, <1>3, R \in SUBSET R

LEMMA SumByTable ==
    ASSUME NEW f, NEW S, IsFiniteSet(S), NEW g, SumTable(f, SUBSET S, g)
    PROVE  \A s \in SUBSET S : SumFunctionOnSet(f, s) = g[s]
<1> SUFFICES ASSUME NEW s \in SUBSET S PROVE SumFunctionOnSet(f, s) = g[s] OBVIOUS
<1>1. SumFunctionOnSet(f, s) = (CHOOSE h : SumTable(f, SUBSET s, h))[s]
  BY DEF SumFunctionOnSet, FoldFunctionOnSet, MapThenFoldSet, SumTable, AnyOf
<1>2. \E h : SumTable(f, SUBSET s, h) BY FS_Subset, SumTableExists
<1>3. PICK h : h = CHOOSE h1 : SumTable(f, SUBSET s, h1) OBVIOUS
<1>4. SumTable(f, SUBSET s, h) BY <1>2, <1>3
<1>5. s \in SUBSET s OBVIOUS
<1>6. g[s] = h[s] BY <1>4, SumTablesAgree
<1> QED BY <1>1, <1>3, <1>5, <1>6

(* The sum over a set is one element and the sum over the rest.            *)
LEMMA SumFacts ==
    ASSUME NEW S, IsFiniteSet(S), NEW f, \A x \in S : f[x] \in Nat
    PROVE  /\ SumFunctionOnSet(f, {}) = 0
           /\ SumFunctionOnSet(f, S) \in Nat
           /\ \A x \in S : SumFunctionOnSet(f, S) = f[x] + SumFunctionOnSet(f, S \ {x})
<1>1. PICK g : SumTable(f, SUBSET S, g) BY SumTableExists
<1>2. \A s \in SUBSET S : SumFunctionOnSet(f, s) = g[s] BY <1>1, SumByTable
<1>3. \A s \in SUBSET S : g[s] = IF s = {} THEN 0 ELSE f[AnyOf(s)] + g[s \ {AnyOf(s)}]
  BY <1>1, Zenon DEF SumTable
<1>4. \A s \in SUBSET S : IsFiniteSet(s) /\ Cardinality(s) \in Nat
  BY FS_Subset, FS_CardinalityType
<1> DEFINE Good(s) == g[s] \in Nat /\ \A x \in s : g[s] = f[x] + g[s \ {x}]
           T == {n \in Nat : \E s \in SUBSET S : Cardinality(s) = n /\ ~Good(s)}
<1>5. T = {}
  <2> SUFFICES ASSUME T # {} PROVE FALSE OBVIOUS
  <2>1. PICK n \in T : \A k \in T : n <= k BY LeastNumber
  <2>2. PICK s \in SUBSET S : Cardinality(s) = n /\ ~Good(s) BY <2>1
  <2>3. \A r \in SUBSET S : Cardinality(r) < n => Good(r) BY <1>4, <2>1
  <2>4. s # {} BY <1>3, <2>2
  <2> DEFINE a == AnyOf(s)
  <2>5. a \in s BY <2>4, AnyElement
  <2>6. g[s] = f[a] + g[s \ {a}] BY <1>3, <2>4
  <2> HIDE DEF a, Good
  <2>7. ASSUME NEW x \in s
        PROVE  s \ {x} \in SUBSET S /\ Cardinality(s \ {x}) < n /\ Good(s \ {x})
    BY <1>4, <2>2, <2>3, OneLess
  <2>8. g[s] \in Nat
    <3>1. Good(s \ {a}) /\ f[a] \in Nat BY <2>2, <2>5, <2>7
    <3>2. g[s \ {a}] \in Nat BY <3>1 DEF Good
    <3> QED BY <2>6, <3>1, <3>2
  <2>9. ASSUME NEW x \in s PROVE g[s] = f[x] + g[s \ {x}]
    <3>1. CASE x = a BY <2>6, <3>1
    <3>2. CASE x # a
      <4>1. g[s \ {a}] = f[x] + g[(s \ {a}) \ {x}] BY <2>5, <2>7, <3>2 DEF Good
      <4>2. g[s \ {x}] = f[a] + g[(s \ {x}) \ {a}] BY <2>5, <2>7, <3>2 DEF Good
      <4>3. (s \ {a}) \ {x} = (s \ {x}) \ {a} OBVIOUS
      <4>4. Good((s \ {a}) \ {x})
        <5>1. x \in s \ {a} /\ IsFiniteSet(s \ {a}) BY <1>4, <2>5, <2>7, <3>2
        <5>2. Cardinality((s \ {a}) \ {x}) = Cardinality(s \ {a}) - 1 BY <5>1, OneLess
        <5>3. (s \ {a}) \ {x} \in SUBSET S /\ Cardinality(s \ {a}) \in Nat BY <1>4, <2>5, <2>7
        <5>4. Cardinality(s \ {a}) < n /\ n \in Nat BY <2>5, <2>7
        <5>5. Cardinality((s \ {a}) \ {x}) < n BY <5>2, <5>3, <5>4
        <5> QED BY <5>3, <5>5, <2>3
      <4>5. g[(s \ {a}) \ {x}] \in Nat /\ f[x] \in Nat /\ f[a] \in Nat
        BY <4>4, <2>2, <2>5, <2>9 DEF Good
      <4>6. g[s] = f[a] + (f[x] + g[(s \ {a}) \ {x}]) BY <2>6, <4>1
      <4>7. g[s \ {x}] = f[a] + g[(s \ {a}) \ {x}] BY <4>2, <4>3
      <4> HIDE DEF T
      <4> QED BY <4>5, <4>6, <4>7
    <3> QED BY <3>1, <3>2
  <2> QED BY <2>2, <2>8, <2>9 DEF Good
<1>6. Good(S) BY <1>4, <1>5
<1> QED BY <1>2, <1>3, <1>6

LEMMA SumCongruent ==
    \A S, f, g :
        IsFiniteSet(S) /\ (\A x \in S : f[x] = g[x])
            => SumFunctionOnSet(f, S) = SumFunctionOnSet(g, S)
<1> TAKE S, f, g
<1> HAVE IsFiniteSet(S) /\ (\A x \in S : f[x] = g[x])
<1>1. PICK h : SumTable(f, SUBSET S, h) BY SumTableExists
<1>2. \A s \in SUBSET S : s # {} => f[AnyOf(s)] = g[AnyOf(s)] BY AnyElement
<1>3. \A s \in SUBSET S : h[s] = IF s = {} THEN 0 ELSE f[AnyOf(s)] + h[s \ {AnyOf(s)}]
  BY <1>1, Zenon DEF SumTable
<1>4. \A s \in SUBSET S : h[s] = IF s = {} THEN 0 ELSE g[AnyOf(s)] + h[s \ {AnyOf(s)}]
  BY <1>2, <1>3
<1>5. h = [s \in SUBSET S |-> h[s]] BY <1>1, Zenon DEF SumTable
<1>6. SumTable(g, SUBSET S, h) BY <1>4, <1>5, Zenon DEF SumTable
<1>7. S \in SUBSET S OBVIOUS
<1>8. SumFunctionOnSet(f, S) = h[S] BY <1>1, <1>7, SumByTable
<1>9. SumFunctionOnSet(g, S) = h[S] BY <1>6, <1>7, SumByTable
<1> QED BY <1>8, <1>9

(* One summand has changed. *)
LEMMA SumChanged ==
    \A S, f, g, y :
        /\ IsFiniteSet(S) /\ y \in S
        /\ \A x \in S : f[x] \in Nat /\ g[x] \in Nat
        /\ \A x \in S \ {y} : f[x] = g[x]
        => /\ SumFunctionOnSet(g, S) = SumFunctionOnSet(f, S) - f[y] + g[y]
           /\ f[y] <= SumFunctionOnSet(f, S)
           /\ SumFunctionOnSet(f, S) \in Nat /\ SumFunctionOnSet(g, S) \in Nat
<1> TAKE S, f, g, y
<1> HAVE /\ IsFiniteSet(S) /\ y \in S
         /\ \A x \in S : f[x] \in Nat /\ g[x] \in Nat
         /\ \A x \in S \ {y} : f[x] = g[x]
<1>1. /\ SumFunctionOnSet(f, S) \in Nat
      /\ SumFunctionOnSet(f, S) = f[y] + SumFunctionOnSet(f, S \ {y})
  BY SumFacts
<1>2. /\ SumFunctionOnSet(g, S) \in Nat
      /\ SumFunctionOnSet(g, S) = g[y] + SumFunctionOnSet(g, S \ {y})
  BY SumFacts
<1>3. IsFiniteSet(S \ {y}) BY FS_Subset
<1>4. SumFunctionOnSet(f, S \ {y}) = SumFunctionOnSet(g, S \ {y}) BY <1>3, SumCongruent
<1>5. SumFunctionOnSet(f, S \ {y}) \in Nat BY <1>3, SumFacts
<1>6. f[y] \in Nat /\ g[y] \in Nat OBVIOUS
<1> QED BY <1>1, <1>2, <1>4, <1>5, <1>6

(* A summand has come in. *)
LEMMA SumGrown ==
    \A S, f, g, y :
        /\ IsFiniteSet(S) /\ y \notin S
        /\ \A x \in S : f[x] \in Nat /\ f[x] = g[x]
        /\ g[y] \in Nat
        => /\ SumFunctionOnSet(g, S \cup {y}) = SumFunctionOnSet(f, S) + g[y]
           /\ SumFunctionOnSet(f, S) \in Nat
<1> TAKE S, f, g, y
<1> HAVE /\ IsFiniteSet(S) /\ y \notin S
         /\ \A x \in S : f[x] \in Nat /\ f[x] = g[x]
         /\ g[y] \in Nat
<1>1. IsFiniteSet(S \cup {y}) BY FS_AddElement
<1>2. \A x \in S \cup {y} : g[x] \in Nat OBVIOUS
<1>3. y \in S \cup {y} /\ (S \cup {y}) \ {y} = S OBVIOUS
<1>4. SumFunctionOnSet(g, S \cup {y}) = g[y] + SumFunctionOnSet(g, S)
  BY <1>1, <1>2, <1>3, SumFacts
<1>5. SumFunctionOnSet(f, S) = SumFunctionOnSet(g, S) /\ SumFunctionOnSet(f, S) \in Nat
  BY SumCongruent, SumFacts
<1> QED BY <1>4, <1>5

LEMMA SumOfZeros ==
    \A S, f :
        IsFiniteSet(S) /\ (\A x \in S : f[x] = 0) => SumFunctionOnSet(f, S) = 0
<1> TAKE S, f
<1> HAVE IsFiniteSet(S) /\ (\A x \in S : f[x] = 0)
<1> DEFINE h == [s \in SUBSET S |-> 0]
<1>1. \A s \in SUBSET S :
          h[s] = IF s = {} THEN 0 ELSE f[AnyOf(s)] + h[s \ {AnyOf(s)}]
  BY AnyElement
<1>2. h = [s \in SUBSET S |-> h[s]] OBVIOUS
<1>3. S \in SUBSET S /\ h[S] = 0 OBVIOUS
<1> HIDE DEF h
<1>4. SumTable(f, SUBSET S, h) BY <1>1, <1>2, Zenon DEF SumTable
<1> QED BY <1>3, <1>4, SumByTable
Places == {"none", "wait", "code", "alloc", "push", "post", "exit"}
States == {"preliminary", "final", "descriptor", "old", "central"}
Units == (Nat \X States) \cup (Nat \X Nat \X Nat)

Running == m.pc \in {"loop", "lock", "take"}
Closing == m.pc \in {"close", "join", "done"}

Busy(t) == ~th[t].isFree
Listed(t) == \E k \in 1..Len(mtSem.list) : mtSem.list[k] = t
Ended(t) == th[t].pc = "push" \/ Listed(t)
Live(t) == th[t].pc \in {"code", "alloc"}
Packs(t) == Running /\ Ended(t) /\ th[t].res = "ok"
Called(t) == th[t].compressEvent /\ ~th[t].exitThread

-----------------------------------------------------------------------------
(* The types of what decides on the steps; those of what is written are    *)
(* further down, in StreamOK, ArcType and BlocksOK.                        *)

MainType(x) ==
    x \in [pc : {"setup", "loop", "lock", "take", "close", "join", "done"},
           updates : Updates, outSeqMode : BOOLEAN,
           itemIndex : 1..Len(x.updates) + 1, mtItemIndex : 1..Len(x.updates) + 1,
           lastReal : 0..Len(x.updates), threadIndices : Seq(Threads),
           res : Results, closing : 0..NumThreads]
ThreadType(x) ==
    x \in [pc : Places, isFree : BOOLEAN, exitThread : BOOLEAN, compressEvent : BOOLEAN,
           item : 0..NumItems, res : Results, pass : Nat, n : Nat,
           packSize : {x.packSize}]
OutType(x) ==
    x \in [pos : {x.pos}, blocks : {x.blocks}, data : {x.data}, total : {x.total},
           realMode : BOOLEAN, unlockSent : BOOLEAN, stopEvent : BOOLEAN,
           realEvent : BOOLEAN, base : {x.base}]
RefType(x) ==
    x \in [skip : BOOLEAN, finished : BOOLEAN, blocks : {x.blocks}, data : {x.data},
           packSize : {x.packSize}]

MainOK ==
    /\ MainType(m)
    /\ m.pc = "join" => m.closing < NumThreads
    /\ m.pc \in {"lock", "take"} => m.itemIndex <= NumItems
    /\ m.pc = "done" => m.closing = NumThreads
ThreadsOK == th = [t \in Threads |-> th[t]] /\ \A t \in Threads : ThreadType(th[t])
OutsOK == out = [t \in Threads |-> out[t]] /\ \A t \in Threads : OutType(out[t])
RefsOK == /\ refs = [i \in 1..NumItems |-> refs[i]]
          /\ \A i \in 1..NumItems : RefType(refs[i])
SyncOK == /\ pool \in [total : {pool.total}, free : {pool.free}, sem : {pool.sem}]
          /\ mtSem \in [count : {mtSem.count}, list : Seq(Threads)]
FileOK == arc \in [data : {arc.data}, pos : {arc.pos}, curPos : {arc.curPos},
                   headerPos : {arc.headerPos}, failed : BOOLEAN]
ProgOK == /\ prog \in [total : {prog.total}, inSizes : {prog.inSizes}]
          /\ prog.inSizes = [t \in Threads |-> prog.inSizes[t]]

(* The stream below has failed only if a write has. *)
HitOK == hit \subseteq Faults /\ (arc.failed => "write" \in hit)

Shapes == MainOK /\ ThreadsOK /\ OutsOK /\ RefsOK /\ SyncOK /\ FileOK /\ ProgOK /\ HitOK

(* Before Setup nothing has happened. *)
AtSetup ==
    m.pc = "setup" =>
        /\ th = [t \in Threads |-> CThreadInfo]
        /\ out = [t \in Threads |-> COutMemStream]
        /\ refs = [i \in 1..NumItems |-> CMemBlocks2]
        /\ mtSem = [count |-> 0, list |-> <<>>]
        /\ m.itemIndex = 1 /\ m.mtItemIndex = 1 /\ m.lastReal = 0
        /\ m.threadIndices = <<>> /\ hit = {}
        /\ arc = [data |-> <<>>, pos |-> 0, curPos |-> 0, headerPos |-> 0,
                  failed |-> FALSE]
        /\ pool.free = pool.total /\ pool.sem = pool.total
        /\ prog.total = 0 /\ \A t \in Threads : prog.inSizes[t] = 0

Life(t) ==
    /\ th[t].pc = "push" => Busy(t) /\ ~Listed(t)
    /\ Listed(t) => Busy(t) /\ th[t].pc \in {"post", "wait", "exit"}
    /\ Live(t) => Busy(t) /\ ~Listed(t)
    /\ Called(t) => Busy(t) /\ ~Listed(t) /\ th[t].pc \in {"post", "wait"}
    /\ th[t].pc = "exit" => th[t].exitThread
    /\ th[t].exitThread \/ out[t].stopEvent => Closing
    /\ Running => th[t].pc # "none"
    /\ Closing /\ t < m.closing => th[t].pc \in {"none", "exit"}
    /\ Running /\ Busy(t) => Called(t) \/ Live(t) \/ Ended(t)

Posting == {t \in Threads : th[t].pc = "post"}

SemOK ==
    /\ mtSem.count \in Nat
    /\ IsInjective(mtSem.list)
    /\ Len(mtSem.list) = mtSem.count + Cardinality(Posting)
                            + (IF m.pc = "take" THEN 1 ELSE 0)

-----------------------------------------------------------------------------
(* Which thread has which item.                                            *)

ItemsOK ==
    /\ IsInjective(m.threadIndices)
    /\ \A t \in Threads : th[t].item # 0 =>
          th[t].item < m.mtItemIndex /\ Item(th[t].item).kind = "file"
    /\ \A t, u \in Threads : th[t].item = th[u].item /\ th[t].item # 0 => t = u
    /\ \A t \in Threads : Busy(t) => th[t].item # 0
    /\ \A i \in 1..NumItems :
          /\ refs[i].skip => Item(i).kind = "skip"
          /\ refs[i].finished => Item(i).kind = "file" /\ i < m.mtItemIndex

Owned(i) == \E t \in Threads : Busy(t) /\ th[t].item = i

Queue ==
    Running =>
    /\ m.itemIndex <= m.mtItemIndex /\ m.lastReal <= m.itemIndex
    /\ \A t \in Threads :
          Busy(t) <=> \E k \in 1..Len(m.threadIndices) : m.threadIndices[k] = t
    /\ \A j, k \in 1..Len(m.threadIndices) :
          j < k => th[m.threadIndices[j]].item < th[m.threadIndices[k]].item
    /\ \A t \in Threads : Busy(t) =>
          th[t].item >= m.itemIndex /\ ~refs[th[t].item].finished
    /\ \A i \in m.itemIndex..m.mtItemIndex - 1 :
          Item(i).kind = "file" => refs[i].finished \/ Owned(i)
    /\ m.pc \in {"lock", "take"} => Open
    /\ Open => /\ m.itemIndex < m.mtItemIndex
               /\ Item(m.itemIndex).kind = "file" /\ ~refs[m.itemIndex].finished

(* Who has been given the real stream.                                     *)
RealOK ==
    /\ \A t \in Threads : Busy(t) /\ ~out[t].unlockSent =>
          ~out[t].realMode /\ ~out[t].realEvent
    /\ \A t, u \in Threads :
          Busy(t) /\ Busy(u) /\ out[t].unlockSent /\ out[u].unlockSent => t = u
    /\ Running => \A t \in Threads : Busy(t) =>
          (out[t].unlockSent <=> Open /\ th[t].item = m.itemIndex)

-----------------------------------------------------------------------------
(* What is in the streams.                                                 *)

Packed(t) == PassUnits(th[t].item, th[t].pass, th[t].n)
PackedSize(i) == Item(i).passes[LastPass(i)]

StreamOK(t) ==
    LET o == out[t] IN
    /\ o.pos \in Nat /\ o.total \in Nat /\ o.base \in Nat /\ o.blocks \in Nat
    /\ o.data \in Seq(Units) /\ o.total <= Room(o)
    /\ Called(t) => o.pos = 0 /\ o.total = 0 /\ ~o.realMode
    /\ Live(t) => th[t].pass \in 1..LastPass(th[t].item) /\ th[t].n <= Size(t)
    /\ Live(t) \/ Packs(t) =>
          IF o.realMode THEN o.total = 0
          ELSE o.pos = th[t].n /\ o.total = th[t].n
                 /\ o.total <= Len(o.data) /\ Content(o) = Packed(t)
    /\ th[t].packSize \in Nat
    /\ Packs(t) =>
          /\ th[t].pass = LastPass(th[t].item) /\ th[t].n = Size(t)
          /\ ~o.realMode => th[t].packSize = th[t].n
    /\ Busy(t) /\ o.unlockSent => o.base <= arc.pos

KeptOK(i) ==
    /\ refs[i].packSize \in Nat /\ refs[i].data \in Seq(Units)
    /\ Running /\ refs[i].finished /\ i >= m.itemIndex =>
          /\ refs[i].packSize = PackedSize(i)
          /\ refs[i].data = PassUnits(i, LastPass(i), PackedSize(i))

Good == Running /\ ~arc.failed

(* What the archive must look like, for given items and a given output.    *)
Seal(mode, unit) ==
    IF mode /\ Len(unit) = 2 /\ unit[2] = "final"
    THEN Header(unit[1], "preliminary") ELSE unit
Alike(mode, a, b) ==
    [k \in DOMAIN a |-> Seal(mode, a[k])] = [k \in DOMAIN b |-> Seal(mode, b[k])]

LastPassOf(mode, item) == IF mode THEN 1 ELSE Len(item.passes)
PackedOf(mode, item, i) ==
    LET p == LastPassOf(mode, item) IN PassUnits(i, p, item.passes[p])
FileEntry(mode, item, i) ==
    IF mode
    THEN <<Header(i, "preliminary")>> \o PackedOf(mode, item, i) \o <<<<i, "descriptor">>>>
    ELSE <<Header(i, "final")>> \o PackedOf(mode, item, i)
EntryOf(updates, mode, i) ==
    CASE updates[i].kind = "skip" -> <<>>
      [] updates[i].kind = "old" -> <<<<i, "old">>>>
      [] updates[i].kind = "dir" -> <<Header(i, "final")>>
      [] updates[i].kind = "file" -> FileEntry(mode, updates[i], i)
EntriesOf(updates, mode, n) == FlattenSeq([i \in 1..n |-> EntryOf(updates, mode, i)])

ArcType ==
    /\ arc.data \in Seq(Units) /\ arc.pos \in 0..Len(arc.data)
    /\ arc.curPos \in Nat /\ arc.headerPos \in Nat

(* How long the archive is, and where it is written to.                    *)
ArcOK ==
    Good =>
      IF Open
      THEN \A f \in Threads : Busy(f) /\ th[f].item = m.itemIndex =>
              /\ arc.curPos = arc.headerPos + 1 /\ out[f].base = arc.curPos
              /\ arc.pos = Len(arc.data)
              /\ Len(arc.data) = arc.curPos + (IF out[f].realMode THEN th[f].n ELSE 0)
              /\ out[f].realMode /\ Ended(f) /\ th[f].res = "ok" =>
                    th[f].packSize = th[f].n
      ELSE arc.curPos = arc.pos /\ arc.pos = Len(arc.data)

(* What is in it.                                                          *)
ArcData ==
    Good =>
      LET before == EntriesOf(m.updates, m.outSeqMode, m.itemIndex - 1) IN
      IF Open
      THEN \A f \in Threads : Busy(f) /\ th[f].item = m.itemIndex =>
              /\ Len(before) = arc.headerPos
              /\ Alike(m.outSeqMode, arc.data,
                    before \o <<Header(m.itemIndex, "preliminary")>>
                       \o (IF out[f].realMode THEN Packed(f) ELSE <<>>))
      ELSE Alike(m.outSeqMode, arc.data, before)

-----------------------------------------------------------------------------
BlocksOK ==
    /\ pool.total \in Nat /\ pool.free \in Nat /\ pool.sem \in Nat
    /\ \A i \in 1..NumItems : refs[i].blocks \in Nat
                                /\ (refs[i].blocks # 0 => refs[i].finished)
    /\ BlocksKept

ProgressOK ==
    /\ prog.total \in Nat
    /\ \A t \in Threads :
          /\ prog.inSizes[t] \in Nat
          /\ th[t].item = 0 => prog.inSizes[t] = 0
          /\ Packs(t) => prog.inSizes[t] = Item(th[t].item).size
          /\ Running /\ ~Busy(t) /\ th[t].item # 0 =>
                prog.inSizes[t] = Item(th[t].item).size
    /\ ProgressExact

ResultOK ==
    /\ Running =>
          /\ \A t \in Threads : Ended(t) => th[t].res \in {"ok"} \cup hit
          /\ hit # {} => arc.failed \/ \E t \in Threads : Ended(t) /\ th[t].res # "ok"
    /\ Closing =>
          \/ m.res \in hit
          \/ /\ m.res = "ok" /\ hit = {} /\ \A t \in Threads : ~Busy(t)
             /\ Alike(m.outSeqMode, arc.data,
                      EntriesOf(m.updates, m.outSeqMode, NumItems) \o <<<<0, "central">>>>)

-----------------------------------------------------------------------------
(* The steps, field by field.  What a step of a thread leaves alone.       *)

OwnShape(t) ==
    /\ ThreadType(th[t]) /\ OutType(out[t])
    /\ th = [u \in Threads |-> th[u]] /\ out = [u \in Threads |-> out[u]]
    /\ NumItems \in Nat /\ SyncOK /\ FileOK /\ ProgOK /\ HitOK

(* What most steps leave alone. *)
OneThread(t) == th' = [u \in Threads |-> th'[u]] /\ \A u \in Threads \ {t} : th'[u] = th[u]
OneStream(t) == out' = [u \in Threads |-> out'[u]] /\ \A u \in Threads \ {t} : out'[u] = out[u]
SameItem(t) == /\ th'[t].isFree = th[t].isFree /\ th'[t].exitThread = th[t].exitThread
               /\ th'[t].item = th[t].item
SamePositions == arc'.curPos = arc.curPos /\ arc'.headerPos = arc.headerPos
SameUpdates == m'.updates = m.updates /\ m'.outSeqMode = m.outSeqMode

USE DEF OwnShape, OneThread, OneStream, SameItem, SamePositions, SameUpdates

Only(t) ==
    /\ UNCHANGED <<m, refs>>
    /\ th' = [u \in Threads |-> th'[u]] /\ out' = [u \in Threads |-> out'[u]]
    /\ \A u \in Threads \ {t} :
          th'[u] = th[u] /\ out'[u] = out[u] /\ prog'.inSizes[u] = prog.inSizes[u]
    /\ ThreadType(th'[t]) /\ OutType(out'[t])
    /\ SameItem(t)
    /\ out'[t].unlockSent = out[t].unlockSent /\ out'[t].base = out[t].base
    /\ SyncOK' /\ FileOK' /\ ProgOK' /\ HitOK'
    /\ pool'.total = pool.total
    /\ SamePositions

Turn(t, pc, res, pass, n, packSize) ==
    /\ th'[t].pc = pc /\ th'[t].res = res /\ th'[t].pass = pass
    /\ th'[t].n = n /\ th'[t].packSize = packSize
    /\ th'[t].compressEvent = th[t].compressEvent
TurnTo(t, pc) == Turn(t, pc, th[t].res, th[t].pass, th[t].n, th[t].packSize)
Stops(t, res) == Turn(t, "push", res, th[t].pass, th[t].n, th[t].packSize)
OneMore(t) == Turn(t, "code", th[t].res, th[t].pass, th[t].n + 1, th[t].packSize)

Stream(t, pos, blocks, data, total) ==
    /\ out'[t].pos = pos /\ out'[t].blocks = blocks
    /\ out'[t].data = data /\ out'[t].total = total
Flags(t, realMode, realEvent, stopEvent) ==
    /\ out'[t].realMode = realMode /\ out'[t].realEvent = realEvent
    /\ out'[t].stopEvent = stopEvent
SameFlags(t) == Flags(t, out[t].realMode, out[t].realEvent, out[t].stopEvent)

Reports(t, size) ==
    /\ prog'.inSizes[t] = size
    /\ prog'.total = (prog.total + size - prog.inSizes[t]) % SizeModulus
Read(t) == Reports(t, Min({th[t].n + 1, Item(th[t].item).size}))

Archive(data, pos) == arc'.data = data /\ arc'.pos = pos /\ arc'.failed = arc.failed
Appends(units) == Archive(Put(arc.data, arc.pos, units), arc.pos + Len(units))
WriteFailed ==
    /\ arc'.data = arc.data /\ arc'.pos = arc.pos /\ arc'.failed
    /\ hit' = hit \cup {"write"} /\ (arc.failed \/ CanFail("write"))

Wakes(t) ==
    /\ th[t].pc = "wait" /\ th[t].compressEvent
    /\ th'[t].pc = (IF th[t].exitThread THEN "exit" ELSE "code")
    /\ th'[t].pass = 1 /\ th'[t].n = 0 /\ ~th'[t].compressEvent
    /\ th'[t].res = th[t].res /\ th'[t].packSize = th[t].packSize
    /\ UNCHANGED <<out, pool, mtSem, arc, prog, hit>>

WritesMem(t) ==
    LET o == out[t] IN
    /\ Coding(t) /\ ~o.realMode /\ o.pos < Room(o)
    /\ OneMore(t) /\ SameFlags(t) /\ Read(t)
    /\ Stream(t, o.pos + 1, o.blocks, Put(o.data, o.pos, <<Unit(t)>>),
              Max({o.total, o.pos + 1}))
    /\ UNCHANGED <<pool, mtSem, arc, hit>>

IsStopped(t) ==
    LET o == out[t] IN
    /\ Coding(t) /\ o.stopEvent
    /\ Stops(t, "abort") /\ Stream(t, o.pos, o.blocks, o.data, o.total)
    /\ Flags(t, o.realMode, o.realEvent, FALSE)
    /\ UNCHANGED <<pool, mtSem, arc, prog, hit>>

GoesReal(t) ==
    LET o == out[t] IN
    /\ Coding(t) /\ ~o.realMode /\ o.realEvent /\ ~arc.failed
    /\ OneMore(t) /\ Flags(t, TRUE, FALSE, o.stopEvent) /\ Read(t)
    /\ Stream(t, o.pos, 0, <<>>, 0)
    /\ Appends(Content(o) \o <<Unit(t)>>)
    /\ pool' = FreeBlocks(pool, o.blocks)
    /\ UNCHANGED <<mtSem, hit>>

RealFails(t) ==
    LET o == out[t] IN
    /\ Coding(t) /\ ~o.realMode /\ o.realEvent
    /\ Stops(t, "write") /\ Flags(t, TRUE, FALSE, o.stopEvent)
    /\ Stream(t, o.pos, o.blocks, o.data, o.total)
    /\ WriteFailed
    /\ UNCHANGED <<pool, mtSem, prog>>

IsPromised(t) ==
    /\ Coding(t) /\ pool.sem >= 1
    /\ TurnTo(t, "alloc")
    /\ pool'.free = pool.free /\ pool'.sem = pool.sem - 1
    /\ UNCHANGED <<out, mtSem, arc, prog, hit>>

NoBlock(t) ==
    /\ th[t].pc = "alloc" /\ pool.free = 0 /\ Stops(t, "fail")
    /\ UNCHANGED <<out, pool, mtSem, arc, prog, hit>>

GetsBlock(t) ==
    LET o == out[t] IN
    /\ th[t].pc = "alloc" /\ pool.free # 0 /\ TurnTo(t, "code")
    /\ Stream(t, o.pos, o.blocks + 1, o.data, o.total) /\ SameFlags(t)
    /\ pool'.free = pool.free - 1 /\ pool'.sem = pool.sem
    /\ UNCHANGED <<mtSem, arc, prog, hit>>

WritesReal(t) ==
    /\ Coding(t) /\ out[t].realMode /\ ~arc.failed
    /\ OneMore(t) /\ Read(t) /\ Appends(<<Unit(t)>>)
    /\ UNCHANGED <<out, pool, mtSem, hit>>

WriteRealFails(t) ==
    /\ Coding(t) /\ out[t].realMode
    /\ Stops(t, "write") /\ WriteFailed
    /\ UNCHANGED <<out, pool, mtSem, prog>>

AtEnd(t) == th[t].pc = "code" /\ th[t].n = Size(t)
PassSize(t) == IF out[t].realMode THEN arc.pos - out[t].base ELSE out[t].pos

RepeatsReal(t) ==
    LET o == out[t] IN
    /\ AtEnd(t) /\ th[t].pass < NumPasses(t) /\ o.realMode
    /\ Turn(t, "code", th[t].res, th[t].pass + 1, 0, PassSize(t))
    /\ Archive(SubSeq(arc.data, 1, o.base), o.base)
    /\ UNCHANGED <<out, pool, mtSem, prog, hit>>

RepeatsMem(t) ==
    LET o == out[t] IN
    /\ AtEnd(t) /\ th[t].pass < NumPasses(t) /\ ~o.realMode
    /\ Turn(t, "code", th[t].res, th[t].pass + 1, 0, PassSize(t))
    /\ Stream(t, 0, o.blocks, o.data, 0) /\ SameFlags(t)
    /\ UNCHANGED <<pool, mtSem, arc, prog, hit>>

Ends(t) ==
    /\ AtEnd(t) /\ ~(th[t].pass < NumPasses(t))
    /\ Reports(t, Item(th[t].item).size)
    /\ \/ /\ Turn(t, "push", "ok", th[t].pass, th[t].n, PassSize(t))
          /\ UNCHANGED hit
       \/ /\ Turn(t, "push", "cancel", th[t].pass, th[t].n, PassSize(t))
          /\ CanFail("cancel") /\ hit' = hit \cup {"cancel"}
    /\ UNCHANGED <<out, pool, mtSem, arc>>

Pushes(t) ==
    /\ th[t].pc = "push" /\ TurnTo(t, "post")
    /\ mtSem'.list = <<t>> \o mtSem.list /\ mtSem'.count = mtSem.count
    /\ UNCHANGED <<out, pool, arc, prog, hit>>

Posts(t) ==
    /\ th[t].pc = "post" /\ TurnTo(t, "wait")
    /\ mtSem'.list = mtSem.list
    /\ mtSem'.count = Semaphore_ReleaseN(mtSem.count, NumThreads, 1)
    /\ UNCHANGED <<out, pool, arc, prog, hit>>

Fails(t) ==
    /\ Coding(t)
    /\ \E fault \in {"code", "cancel"} :
          CanFail(fault) /\ hit' = hit \cup {fault} /\ Stops(t, fault)
    /\ UNCHANGED <<out, pool, mtSem, arc, prog>>

Move(t) ==
    \/ Wakes(t) \/ WritesMem(t) \/ IsStopped(t) \/ GoesReal(t) \/ RealFails(t)
    \/ IsPromised(t) \/ NoBlock(t) \/ GetsBlock(t) \/ WritesReal(t) \/ WriteRealFails(t)
    \/ RepeatsReal(t) \/ RepeatsMem(t) \/ Ends(t) \/ Pushes(t) \/ Posts(t) \/ Fails(t)

USE DEF Items, NumItems, Event_Set, Event_Reset

LEMMA Lengths ==
    ASSUME Shapes
    PROVE  /\ NumItems \in Nat /\ m.updates \in Updates
           /\ m.updates \in Seq([kind : Kinds, size : Nat, passes : Seq(Nat)])
<1>1. m.updates \in Updates BY DEF Shapes, MainOK, MainType
<1>2. /\ m.updates \in Seq([kind : Kinds, size : Nat, passes : Seq(Nat)])
      /\ \A i \in DOMAIN m.updates : m.updates[i].kind = "file" =>
                /\ m.updates[i].passes # <<>>
                /\ \A p \in 1..Len(m.updates[i].passes) - 1 :
                      m.updates[i].passes[p] >= m.updates[i].size
  BY <1>1, ZipAssumption DEF ZipAssumption
<1>3. NumItems \in Nat BY <1>2
<1> QED BY <1>1, <1>2, <1>3

LEMMA ItemFacts ==
    ASSUME Shapes
    PROVE  \A i \in 1..NumItems : /\ Item(i).kind \in Kinds /\ Item(i).size \in Nat
                                  /\ Item(i).passes \in Seq(Nat)
                                  /\ Item(i).kind = "file" =>
                                        /\ Item(i).passes # <<>>
                                        /\ \A p \in 1..Len(Item(i).passes) - 1 :
                                              Item(i).passes[p] >= Item(i).size
<1>1. /\ m.updates \in Seq([kind : Kinds, size : Nat, passes : Seq(Nat)])
      /\ \A i \in DOMAIN m.updates : m.updates[i].kind = "file" =>
                /\ m.updates[i].passes # <<>>
                /\ \A p \in 1..Len(m.updates[i].passes) - 1 :
                      m.updates[i].passes[p] >= m.updates[i].size
  BY Lengths, ZipAssumption DEF ZipAssumption
<1> DEFINE R == [kind : Kinds, size : Nat, passes : Seq(Nat)]
<1>2. m.updates \in Seq(R) BY <1>1
<1> HIDE DEF R
<1>3. \A i \in 1..NumItems : m.updates[i] \in R BY <1>2
<1>4. \A i \in 1..NumItems : i \in DOMAIN m.updates BY <1>2
<1>5. \A x \in R : x.kind \in Kinds /\ x.size \in Nat /\ x.passes \in Seq(Nat) BY DEF R
<1> QED BY <1>1, <1>3, <1>4, <1>5 DEF Item

(* One thread and its stream, in a state of the right shape.               *)
LEMMA Basics ==
    ASSUME Shapes, NEW t \in Threads
    PROVE  OwnShape(t)
BY Lengths DEF Shapes, ThreadsOK, OutsOK

LEMMA Reported ==
    ASSUME ProgOK, NEW t \in Threads, NEW n, SetRatioInfo(t, n)
    PROVE  /\ Reports(t, n) /\ ProgOK'
           /\ \A u \in Threads \ {t} : prog'.inSizes[u] = prog.inSizes[u]
BY DEF SetRatioInfo, Reports, ProgOK

LEMMA Failing ==
    ASSUME FileOK, HitOK, NEW fails \in WriteFails, WriteHits(fails), fails,
           arc' = [arc EXCEPT !.failed = TRUE]
    PROVE  /\ WriteFailed /\ FileOK' /\ HitOK'
           /\ SamePositions
<1>1. hit' = hit \cup {"write"} /\ (arc.failed \/ CanFail("write"))
  BY DEF WriteFails, WriteHits
<1>2. /\ arc'.failed /\ arc'.data = arc.data /\ arc'.pos = arc.pos /\ FileOK'
      /\ SamePositions
  BY DEF FileOK
<1>3. HitOK' BY <1>1 DEF HitOK, CanFail
<1> QED BY <1>1, <1>2, <1>3 DEF WriteFailed

LEMMA Succeeding ==
    ASSUME FileOK, HitOK, NEW fails \in WriteFails, WriteHits(fails), ~fails
    PROVE  ~arc.failed /\ hit' = hit
BY DEF WriteFails, WriteHits, FileOK

LEMMA Appended ==
    ASSUME FileOK, HitOK, hit' = hit, NEW units, arc' = Written(arc, units)
    PROVE  /\ Appends(units) /\ FileOK' /\ HitOK'
           /\ SamePositions
BY DEF FileOK, HitOK, Written, Appends, Archive

LEMMA WakeMove ==
    ASSUME Shapes, NEW t \in Threads, Wake(t)
    PROVE  Only(t) /\ Wakes(t)
<1>0. OwnShape(t) BY Basics
<1>1. /\ UNCHANGED <<m, out, pool, refs, mtSem, arc, prog, hit>>
      /\ th[t].pc = "wait" /\ th[t].compressEvent
      /\ th' = [u \in Threads |-> th'[u]]
      /\ \A u \in Threads \ {t} : th'[u] = th[u]
      /\ th'[t] = [th[t] EXCEPT !.compressEvent = FALSE, !.pass = 1, !.n = 0,
                                !.pc = IF th[t].exitThread THEN "exit" ELSE "code"]
  BY <1>0 DEF Wake, Event_CanWait, Event_Wait
<1>2. /\ th'[t].pc = (IF th[t].exitThread THEN "exit" ELSE "code")
      /\ th'[t].pass = 1 /\ th'[t].n = 0 /\ th'[t].compressEvent = FALSE
      /\ th'[t].res = th[t].res /\ th'[t].packSize = th[t].packSize
      /\ SameItem(t)
  BY <1>0, <1>1 DEF ThreadType
<1>3. ThreadType(th'[t])
  <2>1. th'[t].pc \in Places /\ th'[t].pass \in Nat /\ th'[t].n \in Nat BY <1>2 DEF Places
  <2> QED BY <1>0, <1>1, <2>1 DEF ThreadType
<1>4. Only(t) BY <1>0, <1>1, <1>2, <1>3 DEF Only, SyncOK, FileOK, ProgOK, HitOK
<1>5. Wakes(t) BY <1>1, <1>2 DEF Wakes
<1> QED BY <1>4, <1>5

LEMMA WriteMemMove ==
    ASSUME Shapes, NEW t \in Threads, WriteMem(t)
    PROVE  Only(t) /\ WritesMem(t)
<1>0. OwnShape(t) BY Basics
<1>1. /\ UNCHANGED <<m, pool, refs, mtSem, arc, hit>>
      /\ Coding(t) /\ ~out[t].realMode /\ out[t].pos < Room(out[t])
      /\ th' = [u \in Threads |-> th'[u]] /\ out' = [u \in Threads |-> out'[u]]
      /\ \A u \in Threads \ {t} : th'[u] = th[u] /\ out'[u] = out[u]
      /\ th'[t] = [th[t] EXCEPT !.n = @ + 1, !.pc = "code"]
      /\ out'[t] = [out[t] EXCEPT !.data = Put(@, out[t].pos, <<Unit(t)>>),
                                  !.pos = @ + 1, !.total = Max({@, out[t].pos + 1})]
      /\ SetRatioInfo(t, Min({th[t].n + 1, Item(th[t].item).size}))
  BY <1>0 DEF WriteMem, Advance
<1>2. /\ OneMore(t)
      /\ SameItem(t)
  BY <1>0, <1>1 DEF ThreadType, OneMore, Turn
<1>2a. ThreadType(th'[t])
  <2>1. th'[t].pc \in Places /\ th'[t].n \in Nat
    BY <1>0, <1>2 DEF Places, ThreadType, OneMore, Turn
  <2> QED BY <1>0, <1>1, <2>1 DEF ThreadType
<1>3. /\ Stream(t, out[t].pos + 1, out[t].blocks, Put(out[t].data, out[t].pos, <<Unit(t)>>),
                Max({out[t].total, out[t].pos + 1}))
      /\ SameFlags(t) /\ OutType(out'[t])
      /\ out'[t].unlockSent = out[t].unlockSent /\ out'[t].base = out[t].base
  BY <1>0, <1>1 DEF OutType, Stream, SameFlags, Flags
<1>4. /\ Read(t) /\ ProgOK'
      /\ \A u \in Threads \ {t} : prog'.inSizes[u] = prog.inSizes[u]
  BY <1>0, <1>1 DEF SetRatioInfo, Read, Reports, ProgOK
<1>5. Only(t) BY <1>0, <1>1, <1>2, <1>2a, <1>3, <1>4 DEF Only, SyncOK, FileOK, HitOK
<1>6. WritesMem(t) BY <1>1, <1>2, <1>3, <1>4 DEF WritesMem
<1> QED BY <1>5, <1>6

LEMMA WaitStopMove ==
    ASSUME Shapes, NEW t \in Threads, WaitStop(t)
    PROVE  Only(t) /\ IsStopped(t)
<1>0. OwnShape(t) BY Basics
<1>1. /\ UNCHANGED <<m, pool, refs, mtSem, arc, prog, hit>>
      /\ Coding(t) /\ out[t].stopEvent
      /\ OneThread(t)
      /\ th'[t] = [th[t] EXCEPT !.pc = "push", !.res = "abort"]
      /\ OneStream(t)
      /\ out'[t] = [out[t] EXCEPT !.stopEvent = FALSE]
  BY <1>0 DEF WaitStop, Finished, NeedsBlock, Event_CanWait, Event_Wait
<1>2. /\ Stops(t, "abort")
      /\ SameItem(t)
  BY <1>0, <1>1 DEF ThreadType, Stops, Turn
<1>3. th'[t].pc \in Places /\ th'[t].res \in Results
  BY <1>0, <1>1, <1>2 DEF ThreadType, Places, Results, Stops, Turn
<1>4. ThreadType(th'[t])
  <2>1. /\ th'[t] = [th[t] EXCEPT !.pc = "push", !.res = "abort"] /\ ThreadType(th[t])
        /\ th'[t].pc \in Places /\ th'[t].res \in Results
    BY <1>0, <1>1, <1>3
  <2> QED BY <2>1 DEF ThreadType
<1>5. /\ Stream(t, out[t].pos, out[t].blocks, out[t].data, out[t].total)
      /\ Flags(t, out[t].realMode, out[t].realEvent, FALSE)
      /\ OutType(out'[t])
      /\ out'[t].unlockSent = out[t].unlockSent /\ out'[t].base = out[t].base
  BY <1>0, <1>1, ZenonT(60) DEF OutType, Stream, SameFlags, Flags
<1>6. Only(t) BY <1>0, <1>1, <1>2, <1>3, <1>4, <1>5 DEF Only, SyncOK, FileOK, ProgOK, HitOK
<1>7. IsStopped(t) BY <1>0, <1>1, <1>2, <1>3, <1>4, <1>5 DEF IsStopped
<1> QED BY <1>6, <1>7

LEMMA WaitRealMove ==
    ASSUME Shapes, NEW t \in Threads, WaitReal(t)
    PROVE  Only(t) /\ (GoesReal(t) \/ RealFails(t))
<1>0. OwnShape(t) BY Basics
<1>a. Coding(t) /\ ~out[t].realMode /\ out[t].realEvent
  BY DEF WaitReal, NeedsBlock, Event_CanWait
<1>b. PICK fails \in WriteFails :
        /\ WriteHits(fails)
        /\ IF fails
           THEN /\ arc' = [arc EXCEPT !.failed = TRUE]
                /\ out' = [out EXCEPT ![t].realEvent = FALSE, ![t].realMode = TRUE]
                /\ Finished(t, "write")
                /\ UNCHANGED <<pool, prog>>
           ELSE /\ arc' = Written(arc, Content(out[t]) \o <<Unit(t)>>)
                /\ out' = [out EXCEPT ![t] = [Freed(out[t]) EXCEPT
                              !.realEvent = FALSE, !.realMode = TRUE]]
                /\ pool' = FreeBlocks(pool, out[t].blocks)
                /\ Advance(t)
  BY DEF WaitReal, Event_Wait
<1>c. CASE fails
  <2>1. /\ UNCHANGED <<m, refs, mtSem, pool, prog>>
        /\ OneThread(t)
        /\ th'[t] = [th[t] EXCEPT !.pc = "push", !.res = "write"]
        /\ OneStream(t)
        /\ out'[t] = [out[t] EXCEPT !.realEvent = FALSE, !.realMode = TRUE]
    BY <1>0, <1>a, <1>b, <1>c DEF WaitReal, Finished
  <2>2. /\ Stops(t, "write")
        /\ SameItem(t)
    BY <1>0, <2>1 DEF ThreadType, Stops, Turn
  <2>3. th'[t].pc \in Places /\ th'[t].res \in Results
    BY <1>0, <2>1, <2>2 DEF ThreadType, Places, Results, Stops, Turn
  <2>4. ThreadType(th'[t]) BY <1>0, <2>1, <2>3 DEF ThreadType
  <2>5. /\ Stream(t, out[t].pos, out[t].blocks, out[t].data, out[t].total)
        /\ Flags(t, TRUE, FALSE, out[t].stopEvent)
        /\ OutType(out'[t])
        /\ out'[t].unlockSent = out[t].unlockSent /\ out'[t].base = out[t].base
    BY <1>0, <2>1 DEF OutType, Stream, SameFlags, Flags
  <2>6. WriteFailed /\ FileOK' /\ SamePositions BY <1>0, <1>b, <1>c, Failing
  <2>7. HitOK' BY <1>0, <1>b, <1>c, Failing
  <2>8. Only(t)
    BY <1>0, <2>1, <2>2, <2>3, <2>4, <2>5, <2>6, <2>7 DEF Only, SyncOK, FileOK, ProgOK, HitOK
  <2>9. RealFails(t)
    BY <1>0, <1>a, <1>b, <1>c, <2>1, <2>2, <2>3, <2>4, <2>5, <2>6, <2>7 DEF RealFails
  <2> QED BY <2>8, <2>9
<1>d. CASE ~fails
  <2>1. /\ UNCHANGED <<m, refs, mtSem>>
        /\ hit' = hit /\ ~arc.failed
        /\ OneThread(t)
        /\ th'[t] = [th[t] EXCEPT !.n = @ + 1, !.pc = "code"]
        /\ OneStream(t)
        /\ out'[t] = [out[t] EXCEPT !.blocks = 0, !.data = <<>>, !.total = 0, !.realEvent = FALSE, !.realMode = TRUE]
    BY <1>0, <1>a, <1>b, <1>d DEF WaitReal, Advance, Freed, WriteHits, WriteFails
  <2>2. /\ OneMore(t)
        /\ SameItem(t)
    BY <1>0, <2>1 DEF ThreadType, OneMore, Turn
  <2>3. th'[t].pc \in Places /\ th'[t].n \in Nat
    BY <1>0, <2>1, <2>2 DEF ThreadType, Places, Results, OneMore, Turn
  <2>4. ThreadType(th'[t]) BY <1>0, <2>1, <2>3 DEF ThreadType
  <2>5. /\ Stream(t, out[t].pos, 0, <<>>, 0)
        /\ Flags(t, TRUE, FALSE, out[t].stopEvent)
        /\ OutType(out'[t])
        /\ out'[t].unlockSent = out[t].unlockSent /\ out'[t].base = out[t].base
    BY <1>0, <2>1 DEF OutType, Stream, SameFlags, Flags
  <2>6. /\ Read(t)
        /\ ProgOK'
        /\ \A u \in Threads \ {t} : prog'.inSizes[u] = prog.inSizes[u]
    BY <1>0, <1>b, <1>d, Reported DEF Advance, Read
  <2>7. Appends(Content(out[t]) \o <<Unit(t)>>) /\ FileOK' /\ HitOK' /\ SamePositions
    BY <1>0, <1>b, <1>d, <2>1, Appended
  <2>8. pool' = FreeBlocks(pool, out[t].blocks) /\ SyncOK'
    BY <1>0, <1>a, <1>b, <1>d, <2>1 DEF WaitReal, Advance, FreeBlocks, SyncOK
  <2>9. Only(t)
    BY <1>0, <2>1, <2>2, <2>3, <2>4, <2>5, <2>6, <2>7, <2>8 DEF Only, SyncOK, FileOK, ProgOK,
       HitOK, FreeBlocks
  <2>10. GoesReal(t)
    BY <1>0, <1>a, <1>b, <1>d, <2>1, <2>2, <2>3, <2>4, <2>5, <2>6, <2>7, <2>8 DEF GoesReal
  <2> QED BY <2>9, <2>10
<1> QED BY <1>c, <1>d

LEMMA WaitBlockMove ==
    ASSUME Shapes, NEW t \in Threads, WaitBlock(t)
    PROVE  Only(t) /\ IsPromised(t)
<1>0. OwnShape(t) BY Basics
<1>1. /\ UNCHANGED <<m, out, refs, mtSem, arc, prog, hit>>
      /\ Coding(t) /\ pool.sem >= 1
      /\ OneThread(t)
      /\ th'[t] = [th[t] EXCEPT !.pc = "alloc"]
  BY <1>0 DEF WaitBlock, NeedsBlock, Semaphore_CanWait, Semaphore_Wait
<1>2. /\ TurnTo(t, "alloc")
      /\ SameItem(t)
  BY <1>0, <1>1 DEF ThreadType, TurnTo, Turn
<1>3. th'[t].pc \in Places BY <1>0, <1>1, <1>2 DEF ThreadType, Places, Results, TurnTo, Turn
<1>4. ThreadType(th'[t]) BY <1>0, <1>1, <1>3 DEF ThreadType
<1>5. pool'.free = pool.free /\ pool'.sem = pool.sem - 1 /\ pool'.total = pool.total /\ SyncOK'
  BY <1>0, <1>1 DEF WaitBlock, NeedsBlock, Semaphore_CanWait, Semaphore_Wait, SyncOK
<1>6. Only(t) BY <1>0, <1>1, <1>2, <1>3, <1>4, <1>5 DEF Only, SyncOK, FileOK, ProgOK, HitOK
<1>7. IsPromised(t) BY <1>0, <1>1, <1>2, <1>3, <1>4, <1>5 DEF IsPromised
<1> QED BY <1>6, <1>7

LEMMA AllocateBlockMove ==
    ASSUME Shapes, NEW t \in Threads, AllocateBlock(t)
    PROVE  Only(t) /\ (NoBlock(t) \/ GetsBlock(t))
<1>0. OwnShape(t) BY Basics
<1>a. CASE pool.free = 0
  <2>1. /\ UNCHANGED <<m, out, pool, refs, mtSem, arc, prog, hit>>
        /\ th[t].pc = "alloc"
        /\ OneThread(t)
        /\ th'[t] = [th[t] EXCEPT !.pc = "push", !.res = "fail"]
    BY <1>0, <1>a DEF AllocateBlock, Finished
  <2>2. /\ Stops(t, "fail")
        /\ SameItem(t)
    BY <1>0, <2>1 DEF ThreadType, Stops, Turn
  <2>3. th'[t].pc \in Places /\ th'[t].res \in Results
    BY <1>0, <2>1, <2>2 DEF ThreadType, Places, Results, Stops, Turn
  <2>4. ThreadType(th'[t]) BY <1>0, <2>1, <2>3 DEF ThreadType
  <2>5. Only(t) BY <1>0, <2>1, <2>2, <2>3, <2>4 DEF Only, SyncOK, FileOK, ProgOK, HitOK
  <2>6. NoBlock(t) BY <1>0, <1>a, <2>1, <2>2, <2>3, <2>4 DEF NoBlock
  <2> QED BY <2>5, <2>6
<1>b. CASE pool.free # 0
  <2>1. /\ UNCHANGED <<m, refs, mtSem, arc, prog, hit>>
        /\ th[t].pc = "alloc"
        /\ OneThread(t)
        /\ th'[t] = [th[t] EXCEPT !.pc = "code"]
        /\ OneStream(t)
        /\ out'[t] = [out[t] EXCEPT !.blocks = @ + 1]
    BY <1>0, <1>b DEF AllocateBlock
  <2>2. /\ TurnTo(t, "code")
        /\ SameItem(t)
    BY <1>0, <2>1 DEF ThreadType, TurnTo, Turn
  <2>3. th'[t].pc \in Places BY <1>0, <2>1, <2>2 DEF ThreadType, Places, Results, TurnTo, Turn
  <2>4. ThreadType(th'[t]) BY <1>0, <2>1, <2>3 DEF ThreadType
  <2>5. /\ Stream(t, out[t].pos, out[t].blocks + 1, out[t].data, out[t].total)
        /\ SameFlags(t)
        /\ OutType(out'[t])
        /\ out'[t].unlockSent = out[t].unlockSent /\ out'[t].base = out[t].base
    BY <1>0, <2>1 DEF OutType, Stream, SameFlags, Flags
  <2>6. pool'.free = pool.free - 1 /\ pool'.sem = pool.sem /\ pool'.total = pool.total /\ SyncOK'
    BY <1>0, <1>b, <2>1 DEF AllocateBlock, SyncOK
  <2>7. Only(t)
    BY <1>0, <2>1, <2>2, <2>3, <2>4, <2>5, <2>6 DEF Only, SyncOK, FileOK, ProgOK, HitOK
  <2>8. GetsBlock(t) BY <1>0, <1>b, <2>1, <2>2, <2>3, <2>4, <2>5, <2>6 DEF GetsBlock
  <2> QED BY <2>7, <2>8
<1> QED BY <1>a, <1>b

LEMMA WriteRealMove ==
    ASSUME Shapes, NEW t \in Threads, WriteReal(t)
    PROVE  Only(t) /\ (WritesReal(t) \/ WriteRealFails(t))
<1>0. OwnShape(t) BY Basics
<1>a. Coding(t) /\ out[t].realMode BY DEF WriteReal
<1>b. PICK fails \in WriteFails :
        /\ WriteHits(fails)
        /\ IF fails
           THEN /\ arc' = [arc EXCEPT !.failed = TRUE]
                /\ Finished(t, "write") /\ UNCHANGED prog
           ELSE /\ arc' = Written(arc, <<Unit(t)>>)
                /\ Advance(t)
  BY DEF WriteReal
<1>c. CASE fails
  <2>1. /\ UNCHANGED <<m, out, pool, refs, mtSem, prog>>
        /\ OneThread(t)
        /\ th'[t] = [th[t] EXCEPT !.pc = "push", !.res = "write"]
    BY <1>0, <1>a, <1>b, <1>c DEF WriteReal, Finished
  <2>2. /\ Stops(t, "write")
        /\ SameItem(t)
    BY <1>0, <2>1 DEF ThreadType, Stops, Turn
  <2>3. th'[t].pc \in Places /\ th'[t].res \in Results
    BY <1>0, <2>1, <2>2 DEF ThreadType, Places, Results, Stops, Turn
  <2>4. ThreadType(th'[t]) BY <1>0, <2>1, <2>3 DEF ThreadType
  <2>5. WriteFailed /\ FileOK' /\ SamePositions BY <1>0, <1>b, <1>c, Failing
  <2>6. HitOK' BY <1>0, <1>b, <1>c, Failing
  <2>7. Only(t)
    BY <1>0, <2>1, <2>2, <2>3, <2>4, <2>5, <2>6 DEF Only, SyncOK, FileOK, ProgOK, HitOK
  <2>8. WriteRealFails(t)
    BY <1>0, <1>a, <1>b, <1>c, <2>1, <2>2, <2>3, <2>4, <2>5, <2>6 DEF WriteRealFails
  <2> QED BY <2>7, <2>8
<1>d. CASE ~fails
  <2>1. /\ UNCHANGED <<m, out, pool, refs, mtSem>>
        /\ hit' = hit /\ ~arc.failed
        /\ OneThread(t)
        /\ th'[t] = [th[t] EXCEPT !.n = @ + 1, !.pc = "code"]
    BY <1>0, <1>a, <1>b, <1>d DEF WriteReal, Advance, WriteHits, WriteFails
  <2>2. /\ OneMore(t)
        /\ SameItem(t)
    BY <1>0, <2>1 DEF ThreadType, OneMore, Turn
  <2>3. th'[t].pc \in Places /\ th'[t].n \in Nat
    BY <1>0, <2>1, <2>2 DEF ThreadType, Places, Results, OneMore, Turn
  <2>4. ThreadType(th'[t]) BY <1>0, <2>1, <2>3 DEF ThreadType
  <2>5. /\ Read(t)
        /\ ProgOK'
        /\ \A u \in Threads \ {t} : prog'.inSizes[u] = prog.inSizes[u]
    BY <1>0, <1>b, <1>d, Reported DEF Advance, Read
  <2>6. Appends(<<Unit(t)>>) /\ FileOK' /\ HitOK' /\ SamePositions
    BY <1>0, <1>b, <1>d, <2>1, Appended DEF Advance
  <2>7. Only(t)
    BY <1>0, <2>1, <2>2, <2>3, <2>4, <2>5, <2>6 DEF Only, SyncOK, FileOK, ProgOK, HitOK
  <2>8. WritesReal(t)
    BY <1>0, <1>a, <1>b, <1>d, <2>1, <2>2, <2>3, <2>4, <2>5, <2>6 DEF WritesReal
  <2> QED BY <2>7, <2>8
<1> QED BY <1>c, <1>d

LEMMA EndPassMove ==
    ASSUME Shapes, NEW t \in Threads, EndPass(t)
    PROVE  Only(t) /\ (RepeatsReal(t) \/ RepeatsMem(t) \/ Ends(t))
<1>0. OwnShape(t) BY Basics
<1>a. AtEnd(t) BY DEF EndPass, AtEnd
<1>b. CASE th[t].pass < NumPasses(t) /\ out[t].realMode
  <2>1. /\ UNCHANGED <<m, out, pool, refs, mtSem, prog, hit>>
        /\ OneThread(t)
        /\ th'[t] = [th[t] EXCEPT !.pass = @ + 1, !.n = 0, !.packSize = PassSize(t)]
    BY <1>0, <1>a, <1>b DEF EndPass, PassSize
  <2>2. /\ Turn(t, "code", th[t].res, th[t].pass + 1, 0, PassSize(t))
        /\ SameItem(t)
    BY <1>0, <1>a, <2>1 DEF ThreadType, Turn, AtEnd
  <2>3. th'[t].pass \in Nat /\ th'[t].n \in Nat
    BY <1>0, <2>1, <2>2 DEF ThreadType, Places, Results, Turn, AtEnd
  <2>4. ThreadType(th'[t]) BY <1>0, <2>1, <2>3 DEF ThreadType
  <2>5. Archive(SubSeq(arc.data, 1, out[t].base), out[t].base) /\ FileOK' /\ HitOK' /\ SamePositions
    <3>1. /\ arc' = [arc EXCEPT !.pos = out[t].base, !.data = SubSeq(arc.data, 1, out[t].base)]
          /\ hit' = hit
      BY <1>a, <1>b, <2>1 DEF EndPass
    <3>2. /\ arc'.data = SubSeq(arc.data, 1, out[t].base) /\ arc'.pos = out[t].base
          /\ arc'.failed = arc.failed /\ SamePositions /\ FileOK'
      BY <1>0, <3>1 DEF FileOK
    <3> QED BY <1>0, <3>1, <3>2 DEF Archive, HitOK
  <2>6. Only(t) BY <1>0, <2>1, <2>2, <2>3, <2>4, <2>5 DEF Only, SyncOK, FileOK, ProgOK, HitOK
  <2>7. RepeatsReal(t) BY <1>0, <1>a, <1>b, <2>1, <2>2, <2>3, <2>4, <2>5 DEF RepeatsReal
  <2> QED BY <2>6, <2>7
<1>c. CASE th[t].pass < NumPasses(t) /\ ~out[t].realMode
  <2>1. /\ UNCHANGED <<m, pool, refs, mtSem, arc, prog, hit>>
        /\ OneThread(t)
        /\ th'[t] = [th[t] EXCEPT !.pass = @ + 1, !.n = 0, !.packSize = PassSize(t)]
        /\ OneStream(t)
        /\ out'[t] = [out[t] EXCEPT !.pos = 0, !.total = 0]
    BY <1>0, <1>a, <1>c DEF EndPass, PassSize
  <2>2. /\ Turn(t, "code", th[t].res, th[t].pass + 1, 0, PassSize(t))
        /\ SameItem(t)
    BY <1>0, <1>a, <2>1 DEF ThreadType, Turn, AtEnd
  <2>3. th'[t].pass \in Nat /\ th'[t].n \in Nat
    BY <1>0, <2>1, <2>2 DEF ThreadType, Places, Results, Turn, AtEnd
  <2>4. ThreadType(th'[t]) BY <1>0, <2>1, <2>3 DEF ThreadType
  <2>5. /\ Stream(t, 0, out[t].blocks, out[t].data, 0)
        /\ SameFlags(t)
        /\ OutType(out'[t])
        /\ out'[t].unlockSent = out[t].unlockSent /\ out'[t].base = out[t].base
    BY <1>0, <2>1 DEF OutType, Stream, SameFlags, Flags
  <2>6. Only(t) BY <1>0, <2>1, <2>2, <2>3, <2>4, <2>5 DEF Only, SyncOK, FileOK, ProgOK, HitOK
  <2>7. RepeatsMem(t) BY <1>0, <1>a, <1>c, <2>1, <2>2, <2>3, <2>4, <2>5 DEF RepeatsMem
  <2> QED BY <2>6, <2>7
<1>d. CASE ~(th[t].pass < NumPasses(t))
  <2>0. PICK res \in {"ok"} \cup IF CanFail("cancel") THEN {"cancel"} ELSE {} :
          /\ th' = [th EXCEPT ![t].pc = "push", ![t].res = res, ![t].packSize = PassSize(t)]
          /\ hit' = hit \cup ({res} \ {"ok"})
    BY <1>d DEF EndPass, PassSize
  <2>1. /\ UNCHANGED <<m, out, pool, refs, mtSem, arc>>
        /\ OneThread(t)
        /\ th'[t] = [th[t] EXCEPT !.pc = "push", !.res = res, !.packSize = PassSize(t)]
    BY <1>0, <1>a, <1>d, <2>0 DEF EndPass
  <2>2. /\ Turn(t, "push", res, th[t].pass, th[t].n, PassSize(t))
        /\ SameItem(t)
    BY <1>0, <2>1 DEF ThreadType, Turn
  <2>3. th'[t].pc \in Places /\ th'[t].res \in Results
    BY <1>0, <2>0, <2>1, <2>2 DEF ThreadType, Places, Results, Turn
  <2>4. ThreadType(th'[t]) BY <1>0, <2>1, <2>3 DEF ThreadType
  <2>5. /\ Reports(t, Item(th[t].item).size)
        /\ ProgOK'
        /\ \A u \in Threads \ {t} : prog'.inSizes[u] = prog.inSizes[u]
    <3>1. SetRatioInfo(t, Item(th[t].item).size) BY <1>d DEF EndPass
    <3> QED BY <1>0, <3>1, Reported
  <2>6. HitOK' BY <1>0, <2>0, <2>1 DEF CanFail, HitOK
  <2>7. Only(t)
    BY <1>0, <2>1, <2>2, <2>3, <2>4, <2>5, <2>6 DEF Only, SyncOK, FileOK, ProgOK, HitOK
  <2>8. Ends(t) BY <1>0, <1>a, <1>d, <2>0, <2>1, <2>2, <2>3, <2>4, <2>5, <2>6 DEF Ends
  <2> QED BY <2>7, <2>8
<1> QED BY <1>b, <1>c, <1>d

LEMMA PushItemMove ==
    ASSUME Shapes, NEW t \in Threads, PushItem(t)
    PROVE  Only(t) /\ Pushes(t)
<1>0. OwnShape(t) BY Basics
<1>1. /\ UNCHANGED <<m, out, pool, refs, arc, prog, hit>>
      /\ th[t].pc = "push"
      /\ OneThread(t)
      /\ th'[t] = [th[t] EXCEPT !.pc = "post"]
  BY <1>0 DEF PushItem
<1>2. /\ TurnTo(t, "post")
      /\ SameItem(t)
  BY <1>0, <1>1 DEF ThreadType, TurnTo, Turn
<1>3. th'[t].pc \in Places BY <1>0, <1>1, <1>2 DEF ThreadType, Places, Results, TurnTo, Turn
<1>4. ThreadType(th'[t]) BY <1>0, <1>1, <1>3 DEF ThreadType
<1>5. mtSem'.list = <<t>> \o mtSem.list /\ mtSem'.count = mtSem.count /\ SyncOK'
  <2>1. mtSem.list \in Seq(Threads) /\ <<t>> \o mtSem.list \in Seq(Threads) BY <1>0 DEF SyncOK
  <2>2. mtSem' = [mtSem EXCEPT !.list = <<t>> \o mtSem.list] BY DEF PushItem
  <2> QED BY <1>0, <1>1, <2>1, <2>2 DEF SyncOK
<1>6. Only(t) BY <1>0, <1>1, <1>2, <1>3, <1>4, <1>5 DEF Only, SyncOK, FileOK, ProgOK, HitOK
<1>7. Pushes(t) BY <1>0, <1>1, <1>2, <1>3, <1>4, <1>5 DEF Pushes
<1> QED BY <1>6, <1>7

LEMMA PostItemMove ==
    ASSUME Shapes, NEW t \in Threads, PostItem(t)
    PROVE  Only(t) /\ Posts(t)
<1>0. OwnShape(t) BY Basics
<1>1. /\ UNCHANGED <<m, out, pool, refs, arc, prog, hit>>
      /\ th[t].pc = "post"
      /\ OneThread(t)
      /\ th'[t] = [th[t] EXCEPT !.pc = "wait"]
  BY <1>0 DEF PostItem
<1>2. /\ TurnTo(t, "wait")
      /\ SameItem(t)
  BY <1>0, <1>1 DEF ThreadType, TurnTo, Turn
<1>3. th'[t].pc \in Places BY <1>0, <1>1, <1>2 DEF ThreadType, Places, Results, TurnTo, Turn
<1>4. ThreadType(th'[t]) BY <1>0, <1>1, <1>3 DEF ThreadType
<1>5. mtSem'.list = mtSem.list /\ SyncOK' /\ mtSem'.count = Semaphore_ReleaseN(mtSem.count, NumThreads, 1)
  BY <1>0, <1>1 DEF PostItem, SyncOK
<1>6. Only(t) BY <1>0, <1>1, <1>2, <1>3, <1>4, <1>5 DEF Only, SyncOK, FileOK, ProgOK, HitOK
<1>7. Posts(t) BY <1>0, <1>1, <1>2, <1>3, <1>4, <1>5 DEF Posts
<1> QED BY <1>6, <1>7

LEMMA CodeFailsMove ==
    ASSUME Shapes, NEW t \in Threads, CodeFails(t)
    PROVE  Only(t) /\ Fails(t)
<1>0. OwnShape(t) BY Basics
<1>b. PICK fault \in {"code", "cancel"} : CanFail(fault) /\ Fail(fault) /\ Finished(t, fault)
  BY DEF CodeFails
<1>1. /\ UNCHANGED <<m, out, pool, refs, mtSem, arc, prog>>
      /\ Coding(t)
      /\ OneThread(t)
      /\ th'[t] = [th[t] EXCEPT !.pc = "push", !.res = fault]
  BY <1>0, <1>b DEF CodeFails, Finished
<1>2. /\ Stops(t, fault)
      /\ SameItem(t)
  BY <1>0, <1>1 DEF ThreadType, Stops, Turn
<1>3. th'[t].pc \in Places /\ th'[t].res \in Results
  BY <1>0, <1>1, <1>2 DEF ThreadType, Places, Results, Stops, Turn
<1>4. ThreadType(th'[t]) BY <1>0, <1>1, <1>3 DEF ThreadType
<1>5. HitOK' BY <1>0, <1>b, <1>1 DEF Fail, CanFail, HitOK
<1>6. Only(t) BY <1>0, <1>1, <1>2, <1>3, <1>4, <1>5 DEF Only, SyncOK, FileOK, ProgOK, HitOK
<1>7. Fails(t) BY <1>0, <1>b, <1>1, <1>2, <1>3, <1>4, <1>5 DEF Fails, Fail
<1> QED BY <1>6, <1>7

(***************************************************************************)
(* Arithmetic.                                                             *)
(***************************************************************************)
LEMMA QuotientAndRemainder ==
    ASSUME NEW a \in Int, NEW n \in Nat \ {0},
           NEW q \in Int, q = a \div n, NEW r \in Int, r = a % n
    PROVE  a = n * q + r
OBVIOUS

LEMMA Division ==
    ASSUME NEW a \in Int, NEW n \in Nat \ {0}
    PROVE  \E q \in Int, r \in 0..n - 1 : r = a % n /\ a = n * q + r
  BY QuotientAndRemainder

(* A remainder may be taken before or after something is added.            *)
LEMMA RemainderOfSum ==
    ASSUME NEW n \in Nat \ {0}, NEW a \in Int, NEW d \in Int
    PROVE  ((a % n) + d) % n = (a + d) % n
<1>1. PICK q \in Int, r \in 0..n - 1 : r = a % n /\ a = n * q + r BY Division
<1>2. PICK p \in Int, s \in 0..n - 1 : s = (a + d) % n /\ a + d = n * p + s
  <2>1. a + d \in Int OBVIOUS
  <2> QED BY <2>1, Division
<1>3. PICK z \in Int, x \in 0..n - 1 : x = (r + d) % n /\ r + d = n * z + x
  <2>1. r + d \in Int BY <1>1
  <2> QED BY <2>1, Division
<1>4. n * (p - z - q) = x - s
  <2>1. n * (p - z - q) = n * p - n * z - n * q BY <1>1, <1>2, <1>3
  <2>2. /\ n * p \in Int /\ n * z \in Int /\ n * q \in Int
        /\ r \in Int /\ s \in Int /\ x \in Int
    BY <1>1, <1>2, <1>3
  <2>3. a = n * q + r /\ a + d = n * p + s /\ r + d = n * z + x BY <1>1, <1>2, <1>3
  <2> QED BY <2>1, <2>2, <2>3
<1>5. p - z - q \in Int /\ x - s \in Int /\ -n < x - s /\ x - s < n BY <1>1, <1>2, <1>3
<1>6. x - s = 0
  <2> DEFINE w == p - z - q
             y == x - s
  <2>1. w \in Int /\ y \in Int /\ n * w = y /\ -n < y /\ y < n BY <1>4, <1>5
  <2> HIDE DEF w, y
  <2>2. CASE w >= 1 BY <2>1, <2>2
  <2>3. CASE w <= -1 BY <2>1, <2>3
  <2>4. CASE w = 0
    <3>1. y = 0 BY <2>1, <2>4
    <3> QED BY <3>1 DEF y
  <2> QED BY <2>1, <2>2, <2>3, <2>4
<1>7. x \in Int /\ s \in Int BY <1>2, <1>3
<1>8. x = s BY <1>6, <1>7
<1> QED BY <1>1, <1>2, <1>3, <1>8

LEMMA MinTwo == \A a, b \in Int : Min({a, b}) = IF a <= b THEN a ELSE b
BY DEF Min

LEMMA MaxTwo == \A a, b \in Int : Max({a, b}) = IF a >= b THEN a ELSE b
BY DEF Max

LEMMA LeastOf ==
    ASSUME NEW T \in SUBSET Nat, T # {}
    PROVE  Min(T) \in T /\ \A y \in T : Min(T) <= y
BY LeastNumber DEF Min

-----------------------------------------------------------------------------
(* Threads.                                                                *)

LEMMA ManyThreads ==
    /\ NumThreads \in Nat \ {0} /\ BlockSize \in Nat \ {0} /\ SizeModulus \in Nat \ {0}
    /\ Threads = 0..NumThreads - 1 /\ Threads \subseteq Nat
    /\ IsFiniteSet(Threads) /\ Cardinality(Threads) = NumThreads
  BY ZipAssumption, FS_Interval DEF ZipAssumption, Threads

LEMMA NoMoreThanThreads ==
    ASSUME NEW list \in Seq(Threads), IsInjective(list)
    PROVE  Len(list) \in Nat /\ Len(list) <= NumThreads
<1>1. Len(list) \in Nat /\ list \in [1..Len(list) -> Threads] BY LenProperties
<1>2. list \in Injection(1..Len(list), Threads) BY <1>1 DEF Injection, IsInjective
<1>3. Cardinality(1..Len(list)) <= Cardinality(Threads) BY <1>2, ManyThreads, FS_Injection
<1>4. Cardinality(1..Len(list)) = Len(list) BY <1>1, FS_Interval
<1> QED BY <1>1, <1>3, <1>4, ManyThreads

(* Fewer than NumThreads: a thread is missing. *)
LEMMA OneIsMissing ==
    ASSUME NEW list \in Seq(Threads), Len(list) < NumThreads
    PROVE  \E t \in Threads : \A k \in 1..Len(list) : list[k] # t
<1> SUFFICES ASSUME \A t \in Threads : \E k \in 1..Len(list) : list[k] = t PROVE FALSE OBVIOUS
<1>1. Len(list) \in Nat /\ list \in [1..Len(list) -> Threads] BY LenProperties
<1>2. list \in Surjection(1..Len(list), Threads) BY <1>1 DEF Surjection
<1>3. Cardinality(Threads) <= Len(list)
  BY <1>2, <1>1, FS_SurjCardinalityBound DEF ExistsSurjection
<1> QED BY <1>1, <1>3, ManyThreads

-----------------------------------------------------------------------------
(* Sequences.                                                              *)

LEMMA PutAtEnd ==
    ASSUME NEW U, NEW data \in Seq(U), NEW units \in Seq(U)
    PROVE  Put(data, Len(data), units) = data \o units
<1>1. Len(data) \in Nat /\ Len(units) \in Nat OBVIOUS
<1>2. SubSeq(data, 1, Len(data)) = data BY SubSeqFull
<1>3. SubSeq(data, Len(data) + Len(units) + 1, Len(data)) = <<>> BY <1>1, SubSeqEmpty
<1>4. data \o units \in Seq(U) BY ConcatProperties
<1> QED BY <1>2, <1>3, <1>4, ConcatEmptySeq DEF Put

LEMMA PutIs ==
    ASSUME NEW U, NEW data \in Seq(U), NEW units \in Seq(U), NEW pos \in 0..Len(data)
    PROVE  /\ Put(data, pos, units) \in Seq(U)
           /\ Len(Put(data, pos, units)) = IF pos + Len(units) <= Len(data) THEN Len(data)
                                           ELSE pos + Len(units)
           /\ \A k \in 1..Len(Put(data, pos, units)) :
                 Put(data, pos, units)[k] =
                    IF k <= pos \/ k > pos + Len(units) THEN data[k] ELSE units[k - pos]
<1>1. Len(data) \in Nat /\ Len(units) \in Nat /\ pos \in Nat OBVIOUS
<1> DEFINE a == SubSeq(data, 1, pos)
           c == SubSeq(data, pos + Len(units) + 1, Len(data))
<1>2. /\ a \in Seq(U) /\ Len(a) = pos /\ \A k \in 1..pos : a[k] = data[k]
  BY <1>1, SubSeqProperties DEF a
<1>3. /\ c \in Seq(U)
      /\ Len(c) = (IF pos + Len(units) <= Len(data) THEN Len(data) - pos - Len(units) ELSE 0)
      /\ \A k \in 1..Len(c) : c[k] = data[pos + Len(units) + k]
  <2> DEFINE b == pos + Len(units) + 1
  <2>1. b \in Int /\ Len(data) \in Int BY <1>1
  <2>2. \A i \in b..Len(data) : data[i] \in U BY <1>1
  <2> HIDE DEF b
  <2>3. /\ SubSeq(data, b, Len(data)) \in Seq(U)
        /\ Len(SubSeq(data, b, Len(data))) = (IF b <= Len(data) THEN Len(data) - b + 1 ELSE 0)
        /\ \A i \in 1..Len(data) - b + 1 : SubSeq(data, b, Len(data))[i] = data[b + i - 1]
    BY <2>1, <2>2, SubSeqProperties
  <2>4. c = SubSeq(data, b, Len(data)) BY DEF b
  <2> HIDE DEF c
  <2>5. \A k \in 1..Len(c) : k \in 1..Len(data) - b + 1 /\ b + k - 1 = pos + Len(units) + k
    BY <1>1, <2>1, <2>3, <2>4 DEF b
  <2> QED BY <1>1, <2>3, <2>4, <2>5 DEF b
<1> HIDE DEF a, c
<1>4. /\ a \o units \in Seq(U) /\ Len(a \o units) = pos + Len(units)
      /\ \A i \in 1..pos + Len(units) :
            (a \o units)[i] = IF i <= pos THEN a[i] ELSE units[i - pos]
  BY <1>2, ConcatProperties
<1>5. /\ (a \o units) \o c \in Seq(U) /\ Len((a \o units) \o c) = pos + Len(units) + Len(c)
      /\ \A i \in 1..pos + Len(units) + Len(c) :
            ((a \o units) \o c)[i] = IF i <= pos + Len(units) THEN (a \o units)[i]
                                     ELSE c[i - (pos + Len(units))]
  <2> DEFINE b == a \o units
  <2>1. b \in Seq(U) /\ Len(b) = pos + Len(units) BY <1>4
  <2> HIDE DEF b
  <2>2. /\ b \o c \in Seq(U) /\ Len(b \o c) = Len(b) + Len(c)
        /\ \A i \in 1..Len(b) + Len(c) :
              (b \o c)[i] = IF i <= Len(b) THEN b[i] ELSE c[i - Len(b)]
    BY <1>3, <2>1, ConcatProperties, ZenonT(60)
  <2>3. /\ b \o c \in Seq(U) /\ Len(b \o c) = pos + Len(units) + Len(c)
        /\ \A i \in 1..pos + Len(units) + Len(c) :
              (b \o c)[i] = IF i <= pos + Len(units) THEN b[i] ELSE c[i - (pos + Len(units))]
    BY <2>1, <2>2
  <2> QED BY <2>3 DEF b
<1>6. Put(data, pos, units) = (a \o units) \o c BY DEF Put, a, c
<1>7. ASSUME NEW k \in 1..pos + Len(units) + Len(c)
      PROVE  ((a \o units) \o c)[k] =
                IF k <= pos \/ k > pos + Len(units) THEN data[k] ELSE units[k - pos]
  <2>0. Len(c) \in Nat BY <1>3
  <2>1. CASE k <= pos BY <1>1, <1>2, <1>4, <1>5, <2>0, <2>1
  <2>2. CASE k > pos /\ k <= pos + Len(units) BY <1>1, <1>4, <1>5, <2>0, <2>2
  <2>3. CASE k > pos + Len(units)
    <3>1. k - (pos + Len(units)) \in 1..Len(c) BY <1>1, <2>0, <2>3
    <3>2. ((a \o units) \o c)[k] = c[k - (pos + Len(units))] BY <1>1, <1>5, <2>0, <2>3
    <3> QED BY <1>1, <1>3, <2>0, <2>3, <3>1, <3>2
  <2>4. k \in Int /\ pos \in Int /\ pos + Len(units) \in Int BY <1>1
  <2>5. k <= pos \/ (k > pos /\ k <= pos + Len(units)) \/ k > pos + Len(units) BY <2>4
  <2> QED BY <2>1, <2>2, <2>3, <2>5, Zenon
<1>8. Len((a \o units) \o c) = IF pos + Len(units) <= Len(data) THEN Len(data)
                               ELSE pos + Len(units)
  <2>1. CASE pos + Len(units) <= Len(data)
    <3>1. Len(c) = Len(data) - pos - Len(units) BY <1>3, <2>1
    <3>2. Len((a \o units) \o c) = pos + Len(units) + Len(c) BY <1>5
    <3> QED BY <1>1, <2>1, <3>1, <3>2
  <2>2. CASE ~(pos + Len(units) <= Len(data)) BY <1>3, <2>2, <1>5, <1>1
  <2> QED BY <2>1, <2>2
<1> QED BY <1>5, <1>6, <1>7, <1>8

LEMMA PrefixIs ==
    ASSUME NEW U, NEW data \in Seq(U), NEW pos \in 0..Len(data)
    PROVE  /\ SubSeq(data, 1, pos) \in Seq(U) /\ Len(SubSeq(data, 1, pos)) = pos
           /\ \A k \in 1..pos : SubSeq(data, 1, pos)[k] = data[k]
  BY SubSeqProperties

(* f has, for every i, the first i of the sequences e in a row. *)
Rows(e, n, f) == f = [i \in 1..n |-> IF i = 1 THEN e[i] ELSE f[i - 1] \o e[i]]

LEMMA RowsExist ==
    ASSUME NEW e, NEW n \in Nat
    PROVE  \E f : Rows(e, n, f)
<1> DEFINE T == {k \in Nat : ~ \E f : Rows(e, k, f)}
<1> SUFFICES ASSUME T # {} PROVE FALSE OBVIOUS
<1>1. PICK k \in T : \A j \in T : k <= j BY LeastNumber
<1>2. CASE k = 0
  <2>1. 1..0 = {} OBVIOUS
  <2>2. Rows(e, 0, [i \in 1..0 |-> e[i]]) BY <2>1 DEF Rows
  <2> QED BY <1>1, <1>2, <2>2
<1>3. CASE k # 0
  <2>0. k \in Nat /\ k - 1 \in Nat /\ ~(k <= k - 1) BY <1>1, <1>3
  <2>1. k - 1 \notin T BY <1>1, <2>0
  <2>2. PICK g : Rows(e, k - 1, g) BY <2>0, <2>1
  <2> DEFINE h == [i \in 1..k |-> IF i = 1 THEN e[i] ELSE g[i - 1] \o e[i]]
  <2>3. \A i \in 1..k - 1 : g[i] = IF i = 1 THEN e[i] ELSE g[i - 1] \o e[i]
    BY <2>2, Zenon DEF Rows
  <2>4. \A i \in 1..k : h[i] = IF i = 1 THEN e[i] ELSE g[i - 1] \o e[i] OBVIOUS
  <2>5. h = [i \in 1..k |-> h[i]] OBVIOUS
  <2> HIDE DEF h
  <2>6. \A i \in 1..k - 1 : i \in 1..k BY <2>0
  <2>7. \A i \in 1..k - 1 : h[i] = g[i] BY <2>3, <2>4, <2>6, Zenon
  <2>8. \A i \in 1..k : i # 1 => i - 1 \in 1..k - 1 BY <2>0
  <2>9. \A i \in 1..k : h[i] = IF i = 1 THEN e[i] ELSE h[i - 1] \o e[i]
    BY <2>4, <2>7, <2>8, Zenon
  <2>10. Rows(e, k, h) BY <2>5, <2>9, Zenon DEF Rows
  <2> QED BY <1>1, <2>10
<1> QED BY <1>2, <1>3

LEMMA FlattenIs ==
    ASSUME NEW e, NEW n \in Nat \ {0}, NEW f, Rows(e, n, f)
    PROVE  FlattenSeq([i \in 1..n |-> e[i]]) = f[n]
<1> DEFINE s == [i \in 1..n |-> e[i]]
<1>1. Len(s) = n /\ n # 0 /\ \A i \in 1..n : s[i] = e[i] OBVIOUS
<1> HIDE DEF s
<1> DEFINE g == CHOOSE g1 : g1 = [i \in 1..Len(s) |-> IF i = 1 THEN s[i] ELSE g1[i - 1] \o s[i]]
<1>2. FlattenSeq(s) = g[Len(s)] BY <1>1 DEF FlattenSeq
<1>3. f = [i \in 1..Len(s) |-> IF i = 1 THEN s[i] ELSE f[i - 1] \o s[i]] BY <1>1 DEF Rows
<1>4. g = [i \in 1..Len(s) |-> IF i = 1 THEN s[i] ELSE g[i - 1] \o s[i]] BY <1>3
<1> HIDE DEF g
<1> DEFINE T == {i \in 1..n : f[i] # g[i]}
<1>5. T = {}
  <2> SUFFICES ASSUME T # {} PROVE FALSE OBVIOUS
  <2>1. T \subseteq Nat OBVIOUS
  <2>2. PICK i \in T : \A j \in T : i <= j BY <2>1, LeastNumber
  <2>3. i \in 1..n /\ f[i] # g[i] BY <2>2
  <2>4. /\ f[i] = IF i = 1 THEN s[i] ELSE f[i - 1] \o s[i]
        /\ g[i] = IF i = 1 THEN s[i] ELSE g[i - 1] \o s[i]
    BY <1>1, <1>3, <1>4, <2>3
  <2>5. i # 1 => i - 1 \in 1..n /\ ~(i <= i - 1) BY <2>3
  <2>6. i # 1 => f[i - 1] = g[i - 1] BY <2>2, <2>5
  <2> QED BY <2>3, <2>4, <2>6
<1>6. f[n] = g[n] BY <1>5
<1> QED BY <1>1, <1>2, <1>6 DEF s

(* The last sequence comes behind what the others give. *)
LEMMA FlattenOneMore ==
    ASSUME NEW U, NEW e, NEW n \in Nat, \A i \in 1..n : e[i] \in Seq(U)
    PROVE  /\ FlattenSeq([i \in 1..n |-> e[i]]) \in Seq(U)
           /\ n = 0 => FlattenSeq([i \in 1..n |-> e[i]]) = <<>>
           /\ n # 0 => FlattenSeq([i \in 1..n |-> e[i]])
                          = FlattenSeq([i \in 1..n - 1 |-> e[i]]) \o e[n]
<1>0. FlattenSeq([i \in 1..0 |-> e[i]]) = <<>> BY DEF FlattenSeq
<1>1. CASE n = 0 BY <1>0, <1>1, EmptySeq
<1>2. CASE n # 0
  <2>0. n \in Nat \ {0} BY <1>2
  <2>1. PICK f : Rows(e, n, f) BY RowsExist
  <2>2. FlattenSeq([i \in 1..n |-> e[i]]) = f[n] BY <2>0, <2>1, FlattenIs
  <2>3. \A i \in 1..n : f[i] = IF i = 1 THEN e[i] ELSE f[i - 1] \o e[i] BY <2>1, Zenon DEF Rows
  <2> DEFINE T == {i \in 1..n : f[i] \notin Seq(U)}
  <2>4. T = {}
    <3> SUFFICES ASSUME T # {} PROVE FALSE OBVIOUS
    <3>1. T \subseteq Nat OBVIOUS
    <3>2. PICK i \in T : \A j \in T : i <= j BY <3>1, LeastNumber
    <3>3. i \in 1..n /\ f[i] \notin Seq(U) BY <3>2
    <3>4. i # 1 => i - 1 \in 1..n /\ ~(i <= i - 1) BY <3>3
    <3>5. i # 1 => f[i - 1] \in Seq(U) BY <3>2, <3>4
    <3>6. e[i] \in Seq(U) BY <3>3
    <3>7. i # 1 => f[i - 1] \o e[i] \in Seq(U) BY <3>5, <3>6, ConcatProperties
    <3> QED BY <2>3, <3>3, <3>6, <3>7
  <2>5. n \in 1..n /\ f[n] \in Seq(U) BY <2>0, <2>4
  <2>6. CASE n = 1 BY <1>0, <2>6, <2>3, <2>5, <1>2, <2>2, ConcatEmptySeq
  <2>7. CASE n # 1
    <3>1. n - 1 \in Nat \ {0} /\ n - 1 \in 1..n BY <2>0, <2>7
    <3> DEFINE g == [i \in 1..n - 1 |-> f[i]]
    <3>2. \A i \in 1..n - 1 : i \in 1..n /\ (i # 1 => i - 1 \in 1..n - 1) BY <2>0
    <3>3. \A i \in 1..n - 1 : g[i] = f[i] OBVIOUS
    <3>4. g = [i \in 1..n - 1 |-> g[i]] OBVIOUS
    <3>5. g[n - 1] = f[n - 1] BY <3>1
    <3> HIDE DEF g
    <3>6. \A i \in 1..n - 1 : g[i] = IF i = 1 THEN e[i] ELSE g[i - 1] \o e[i]
      BY <2>3, <3>2, <3>3, Zenon
    <3>7. Rows(e, n - 1, g) BY <3>4, <3>6, Zenon DEF Rows
    <3>8. FlattenSeq([i \in 1..n - 1 |-> e[i]]) = g[n - 1] BY <3>1, <3>7, FlattenIs
    <3> QED BY <1>2, <2>2, <2>3, <2>5, <2>7, <3>5, <3>8
  <2> QED BY <2>6, <2>7
<1> QED BY <1>1, <1>2

-----------------------------------------------------------------------------
(* Units and entries.                                                      *)

LEMMA UnitFacts ==
    /\ \A i, p, n \in Nat : <<i, p, n>> \in Units
    /\ \A i \in Nat, state \in States : <<i, state>> \in Units
BY DEF Units

LEMMA PassUnitsIs ==
    ASSUME NEW i \in Nat, NEW p \in Nat, NEW n \in Nat
    PROVE  /\ PassUnits(i, p, n) \in Seq(Units) /\ Len(PassUnits(i, p, n)) = n
           /\ \A k \in 1..n : PassUnits(i, p, n)[k] = <<i, p, k>>
           /\ PassUnits(i, p, n + 1) = PassUnits(i, p, n) \o <<<<i, p, n + 1>>>>
           /\ PassUnits(i, p, 0) = <<>>
<1>1. \A k \in 1..n + 1 : <<i, p, k>> \in Units BY UnitFacts
<1>2. /\ PassUnits(i, p, n) \in Seq(Units) /\ Len(PassUnits(i, p, n)) = n
      /\ \A k \in 1..n : PassUnits(i, p, n)[k] = <<i, p, k>>
  BY <1>1 DEF PassUnits
<1>3. /\ PassUnits(i, p, n + 1) \in Seq(Units) /\ Len(PassUnits(i, p, n + 1)) = n + 1
      /\ \A k \in 1..n + 1 : PassUnits(i, p, n + 1)[k] = <<i, p, k>>
  BY <1>1 DEF PassUnits
<1>4. <<<<i, p, n + 1>>>> \in Seq(Units) /\ Len(<<<<i, p, n + 1>>>>) = 1 BY <1>1
<1> DEFINE a == PassUnits(i, p, n)
           b == PassUnits(i, p, n + 1)
           c == <<<<i, p, n + 1>>>>
<1>5. /\ a \o c \in Seq(Units) /\ Len(a \o c) = Len(a) + Len(c)
      /\ \A k \in 1..Len(a) + Len(c) :
            (a \o c)[k] = IF k <= Len(a) THEN a[k] ELSE c[k - Len(a)]
  BY <1>2, <1>4, ConcatProperties
<1>6. c[1] = <<i, p, n + 1>> OBVIOUS
<1> HIDE DEF a, b, c
<1>7. Len(a) = n /\ Len(b) = n + 1 /\ Len(c) = 1 /\ b \in Seq(Units)
  BY <1>2, <1>3, <1>4 DEF a, b, c
<1>8. \A k \in 1..Len(b) : b[k] = (a \o c)[k]
  <2> SUFFICES ASSUME NEW k \in 1..n + 1 PROVE b[k] = (a \o c)[k] BY <1>7
  <2>1. b[k] = <<i, p, k>> BY <1>3 DEF b
  <2>2. CASE k <= n BY <1>2, <2>2, <1>5, <1>7, <2>1 DEF a
  <2>3. CASE ~(k <= n) BY <2>3, <1>5, <1>6, <1>7, <2>1
  <2> QED BY <2>2, <2>3
<1>9. b = a \o c BY <1>5, <1>7, <1>8, SeqEqual
<1>10. PassUnits(i, p, 0) = <<>> BY DEF PassUnits
<1> QED BY <1>2, <1>9, <1>10 DEF a, b, c

-----------------------------------------------------------------------------
(* Archives that differ at most in what is sealed.                         *)

LEMMA SameInterval == \A p, q \in Nat : 1..p = 1..q => p = q
  OBVIOUS

LEMMA AlikeIs ==
    ASSUME NEW mode, NEW U, NEW a \in Seq(U), NEW b \in Seq(U)
    PROVE  Alike(mode, a, b) <=>
              Len(a) = Len(b) /\ \A k \in 1..Len(a) : Seal(mode, a[k]) = Seal(mode, b[k])
<1>1. DOMAIN a = 1..Len(a) /\ DOMAIN b = 1..Len(b) /\ Len(a) \in Nat /\ Len(b) \in Nat OBVIOUS
<1> DEFINE f == [k \in DOMAIN a |-> Seal(mode, a[k])]
           g == [k \in DOMAIN b |-> Seal(mode, b[k])]
<1>2. ASSUME f = g
      PROVE  Len(a) = Len(b) /\ \A k \in 1..Len(a) : Seal(mode, a[k]) = Seal(mode, b[k])
  <2>1. DOMAIN f = DOMAIN a /\ DOMAIN g = DOMAIN b OBVIOUS
  <2>2. 1..Len(a) = 1..Len(b) BY <1>1, <1>2, <2>1
  <2>3. Len(a) = Len(b) BY <1>1, <2>2, SameInterval
  <2>4. \A k \in 1..Len(a) : f[k] = Seal(mode, a[k]) /\ g[k] = Seal(mode, b[k]) BY <1>1, <2>2
  <2> HIDE DEF f, g
  <2> QED BY <1>2, <2>3, <2>4
<1>3. ASSUME Len(a) = Len(b), \A k \in 1..Len(a) : Seal(mode, a[k]) = Seal(mode, b[k])
      PROVE  f = g
  BY <1>1, <1>3
<1> QED BY <1>2, <1>3 DEF Alike

LEMMA AlikeItself == ASSUME NEW mode, NEW a PROVE Alike(mode, a, a)
BY DEF Alike

LEMMA AlikeConcat ==
    ASSUME NEW mode, NEW U, NEW a \in Seq(U), NEW b \in Seq(U),
           NEW c \in Seq(U), NEW d \in Seq(U),
           Alike(mode, a, b), Alike(mode, c, d)
    PROVE  Alike(mode, a \o c, b \o d)
<1>1. /\ Len(a) = Len(b) /\ \A k \in 1..Len(a) : Seal(mode, a[k]) = Seal(mode, b[k])
      /\ Len(c) = Len(d) /\ \A k \in 1..Len(c) : Seal(mode, c[k]) = Seal(mode, d[k])
  BY AlikeIs
<1>2. Len(a) \in Nat /\ Len(c) \in Nat OBVIOUS
<1>3. /\ a \o c \in Seq(U) /\ Len(a \o c) = Len(a) + Len(c)
      /\ \A k \in 1..Len(a) + Len(c) :
            (a \o c)[k] = IF k <= Len(a) THEN a[k] ELSE c[k - Len(a)]
  BY ConcatProperties
<1>4. /\ b \o d \in Seq(U) /\ Len(b \o d) = Len(a) + Len(c)
      /\ \A k \in 1..Len(a) + Len(c) :
            (b \o d)[k] = IF k <= Len(a) THEN b[k] ELSE d[k - Len(a)]
  BY <1>1, ConcatProperties
<1>5. ASSUME NEW k \in 1..Len(a) + Len(c)
      PROVE  Seal(mode, (a \o c)[k]) = Seal(mode, (b \o d)[k])
  <2>1. CASE k <= Len(a) BY <1>2, <1>3, <1>4, <2>1, <1>1
  <2>2. CASE ~(k <= Len(a))
    <3>1. k - Len(a) \in 1..Len(c) BY <1>2, <2>2
    <3>2. (a \o c)[k] = c[k - Len(a)] /\ (b \o d)[k] = d[k - Len(a)] BY <1>3, <1>4, <2>2
    <3> QED BY <1>1, <3>1, <3>2
  <2> QED BY <2>1, <2>2
<1> HIDE DEF Alike
<1> QED BY <1>3, <1>4, <1>5, AlikeIs

LEMMA AlikePrefix ==
    ASSUME NEW mode, NEW U, NEW a \in Seq(U), NEW b \in Seq(U), NEW c \in Seq(U),
           Alike(mode, a, b \o c)
    PROVE  Alike(mode, SubSeq(a, 1, Len(b)), b)
<1>1. /\ b \o c \in Seq(U) /\ Len(b \o c) = Len(b) + Len(c)
      /\ \A k \in 1..Len(b) + Len(c) :
            (b \o c)[k] = IF k <= Len(b) THEN b[k] ELSE c[k - Len(b)]
  BY ConcatProperties
<1>2. /\ Len(a) = Len(b) + Len(c)
      /\ \A k \in 1..Len(a) : Seal(mode, a[k]) = Seal(mode, (b \o c)[k])
  <2> DEFINE w == b \o c
  <2>1. w \in Seq(U) /\ Alike(mode, a, w) BY <1>1
  <2> HIDE DEF w
  <2>2. Len(a) = Len(w) /\ \A k \in 1..Len(a) : Seal(mode, a[k]) = Seal(mode, w[k])
    BY <2>1, AlikeIs
  <2> QED BY <1>1, <2>2 DEF w
<1>3. Len(b) \in 0..Len(a) /\ Len(b) \in Nat /\ Len(c) \in Nat BY <1>2
<1>4. /\ SubSeq(a, 1, Len(b)) \in Seq(U) /\ Len(SubSeq(a, 1, Len(b))) = Len(b)
      /\ \A k \in 1..Len(b) : SubSeq(a, 1, Len(b))[k] = a[k]
  BY <1>3, PrefixIs
<1>5. \A k \in 1..Len(b) : Seal(mode, SubSeq(a, 1, Len(b))[k]) = Seal(mode, b[k])
  BY <1>1, <1>2, <1>3, <1>4
<1> QED BY <1>4, <1>5, AlikeIs

(* The header in front of the packed data is written again.                *)
LEMMA AlikeHeader ==
    ASSUME NEW mode, NEW U, NEW a \in Seq(U), NEW b \in Seq(U), NEW c \in Seq(U),
           NEW old \in U, NEW new \in U,
           Alike(mode, a, (b \o <<old>>) \o c)
    PROVE  /\ Put(a, Len(b), <<new>>) \in Seq(U) /\ Len(Put(a, Len(b), <<new>>)) = Len(a)
           /\ Len(a) = Len(b) + 1 + Len(c)
           /\ Alike(mode, Put(a, Len(b), <<new>>), b \o (<<new>> \o c))
<1> DEFINE x == <<old>>
           y == <<new>>
           p == Put(a, Len(b), y)
<1>0. /\ x \in Seq(U) /\ y \in Seq(U) /\ Len(x) = 1 /\ Len(y) = 1 /\ y[1] = new
      /\ Len(a) \in Nat /\ Len(b) \in Nat /\ Len(c) \in Nat
  OBVIOUS
<1> HIDE DEF x, y
<1>1. /\ b \o x \in Seq(U) /\ Len(b \o x) = Len(b) + 1
      /\ \A k \in 1..Len(b) + 1 : (b \o x)[k] = IF k <= Len(b) THEN b[k] ELSE x[k - Len(b)]
  <2>1. /\ b \o x \in Seq(U) /\ Len(b \o x) = Len(b) + Len(x)
        /\ \A k \in 1..Len(b) + Len(x) :
              (b \o x)[k] = IF k <= Len(b) THEN b[k] ELSE x[k - Len(b)]
    BY <1>0, ConcatProperties
  <2>2. Len(x) = 1 BY <1>0
  <2> QED BY <2>1, <2>2, Zenon
<1>2. /\ (b \o x) \o c \in Seq(U) /\ Len((b \o x) \o c) = Len(b) + 1 + Len(c)
      /\ \A k \in 1..Len(b) + 1 + Len(c) :
            ((b \o x) \o c)[k] = IF k <= Len(b) + 1 THEN (b \o x)[k] ELSE c[k - (Len(b) + 1)]
  <2> DEFINE w == b \o x
  <2>1. w \in Seq(U) /\ Len(w) = Len(b) + 1 BY <1>1
  <2> HIDE DEF w
  <2>2. /\ w \o c \in Seq(U) /\ Len(w \o c) = Len(w) + Len(c)
        /\ \A k \in 1..Len(w) + Len(c) :
              (w \o c)[k] = IF k <= Len(w) THEN w[k] ELSE c[k - Len(w)]
    BY <2>1, ConcatProperties
  <2>3. /\ w \o c \in Seq(U) /\ Len(w \o c) = Len(b) + 1 + Len(c)
        /\ \A k \in 1..Len(b) + 1 + Len(c) :
              (w \o c)[k] = IF k <= Len(b) + 1 THEN w[k] ELSE c[k - (Len(b) + 1)]
    BY <2>1, <2>2
  <2> QED BY <2>3 DEF w
<1>3. /\ Len(a) = Len(b) + 1 + Len(c)
      /\ \A k \in 1..Len(a) : Seal(mode, a[k]) = Seal(mode, ((b \o x) \o c)[k])
  <2> DEFINE w == (b \o x) \o c
  <2>1. w \in Seq(U) /\ Alike(mode, a, w) /\ Len(w) = Len(b) + 1 + Len(c) BY <1>2 DEF x
  <2> HIDE DEF w
  <2>2. Len(a) = Len(w) /\ \A k \in 1..Len(a) : Seal(mode, a[k]) = Seal(mode, w[k])
    BY <2>1, AlikeIs
  <2> QED BY <2>1, <2>2 DEF w
<1>4. Len(b) \in 0..Len(a) BY <1>0, <1>3
<1>5. /\ p \in Seq(U) /\ Len(p) = Len(a)
      /\ \A k \in 1..Len(a) : p[k] = IF k = Len(b) + 1 THEN new ELSE a[k]
  <2>1. /\ p \in Seq(U)
        /\ Len(p) = IF Len(b) + Len(y) <= Len(a) THEN Len(a) ELSE Len(b) + Len(y)
        /\ \A k \in 1..Len(p) :
              p[k] = IF k <= Len(b) \/ k > Len(b) + Len(y) THEN a[k] ELSE y[k - Len(b)]
    <3> DEFINE n == Len(b)
    <3>1. n \in 0..Len(a) /\ y \in Seq(U) BY <1>0, <1>4
    <3> HIDE DEF n
    <3>2. /\ Put(a, n, y) \in Seq(U)
          /\ Len(Put(a, n, y)) = IF n + Len(y) <= Len(a) THEN Len(a) ELSE n + Len(y)
          /\ \A k \in 1..Len(Put(a, n, y)) :
                Put(a, n, y)[k] = IF k <= n \/ k > n + Len(y) THEN a[k] ELSE y[k - n]
      BY <3>1, PutIs
    <3> QED BY <3>2, Zenon DEF n
  <2> HIDE DEF p
  <2>2. Len(p) = Len(a) BY <1>0, <1>3, <2>1
  <2>3. ASSUME NEW k \in 1..Len(a) PROVE p[k] = IF k = Len(b) + 1 THEN new ELSE a[k]
    <3>1. CASE k = Len(b) + 1
      <4>1. p[k] = y[k - Len(b)] /\ k - Len(b) = 1 BY <1>0, <2>1, <2>2, <3>1
      <4> QED BY <1>0, <3>1, <4>1
    <3>2. CASE k # Len(b) + 1
      <4>1. p[k] = a[k] BY <1>0, <2>1, <2>2, <3>2
      <4> QED BY <3>2, <4>1
    <3> QED BY <3>1, <3>2
  <2> QED BY <2>1, <2>2, <2>3
<1>6. /\ y \o c \in Seq(U) /\ Len(y \o c) = 1 + Len(c)
      /\ \A k \in 1..1 + Len(c) : (y \o c)[k] = IF k <= 1 THEN y[k] ELSE c[k - 1]
  <2>1. /\ y \o c \in Seq(U) /\ Len(y \o c) = Len(y) + Len(c)
        /\ \A k \in 1..Len(y) + Len(c) :
              (y \o c)[k] = IF k <= Len(y) THEN y[k] ELSE c[k - Len(y)]
    BY <1>0, ConcatProperties
  <2>2. Len(y) = 1 BY <1>0
  <2> QED BY <2>1, <2>2, Zenon
<1>7. /\ b \o (y \o c) \in Seq(U) /\ Len(b \o (y \o c)) = Len(b) + 1 + Len(c)
      /\ \A k \in 1..Len(b) + 1 + Len(c) :
            (b \o (y \o c))[k] = IF k <= Len(b) THEN b[k] ELSE (y \o c)[k - Len(b)]
  <2> DEFINE w == y \o c
  <2>1. w \in Seq(U) /\ Len(w) = 1 + Len(c) BY <1>6
  <2> HIDE DEF w
  <2>2. /\ b \o w \in Seq(U) /\ Len(b \o w) = Len(b) + Len(w)
        /\ \A k \in 1..Len(b) + Len(w) :
              (b \o w)[k] = IF k <= Len(b) THEN b[k] ELSE w[k - Len(b)]
    BY <2>1, ConcatProperties, ZenonT(60)
  <2>3. Len(b) + Len(w) = Len(b) + 1 + Len(c) BY <1>0, <2>1
  <2> QED BY <2>2, <2>3 DEF w
<1> HIDE DEF p
<1>8. ASSUME NEW k \in 1..Len(a)
      PROVE  Seal(mode, p[k]) = Seal(mode, (b \o (y \o c))[k])
  <2>0. k \in 1..Len(b) + 1 + Len(c) /\ k \in Nat BY <1>3
  <2>1. CASE k <= Len(b)
    <3>1. ((b \o x) \o c)[k] = b[k] /\ (b \o (y \o c))[k] = b[k] /\ p[k] = a[k]
      BY <1>0, <1>1, <1>2, <1>5, <1>7, <2>0, <2>1
    <3> QED BY <1>3, <3>1
  <2>2. CASE k = Len(b) + 1 BY <1>0, <1>7, <2>0, <2>2, <1>6, <1>5
  <2>3. CASE k > Len(b) + 1 BY <1>0, <2>0, <2>3, <1>2, <1>7, <1>5, <1>6, <1>3
  <2>4. k <= Len(b) \/ k = Len(b) + 1 \/ k > Len(b) + 1 BY <1>0, <2>0
  <2> QED BY <2>1, <2>2, <2>3, <2>4, Zenon
<1>9. Alike(mode, p, b \o (y \o c)) BY <1>3, <1>5, <1>7, <1>8, AlikeIs
<1> QED BY <1>3, <1>5, <1>9 DEF p, y

(***************************************************************************)
(* The steps of the main thread, field by field.                           *)
(***************************************************************************)
Settled == SameUpdates /\ MainOK'

MainIs(pc, itemIndex, mtItemIndex, lastReal, threadIndices) ==
    /\ Settled
    /\ m'.pc = pc /\ m'.itemIndex = itemIndex /\ m'.mtItemIndex = mtItemIndex
    /\ m'.lastReal = lastReal /\ m'.threadIndices = threadIndices

(* Only the place, the result and the threads that are closed change.      *)
Closes(pc, res, closing) ==
    /\ MainIs(pc, m.itemIndex, m.mtItemIndex, m.lastReal, m.threadIndices)
    /\ m'.res = res /\ m'.closing = closing
Leaves(res) == Closes("close", res, 0)

Touches(k) ==
    /\ k \in Threads
    /\ OneThread(k)
    /\ ThreadType(th'[k])
    /\ th'[k].pc = th[k].pc /\ th'[k].res = th[k].res /\ th'[k].pass = th[k].pass
    /\ th'[k].n = th[k].n /\ th'[k].packSize = th[k].packSize
Stirs(k) ==
    /\ k \in Threads
    /\ OneStream(k)
    /\ OutType(out'[k])
Keeps(i) ==
    /\ i \in 1..NumItems
    /\ refs' = [j \in 1..NumItems |-> refs'[j]]
    /\ \A j \in (1..NumItems) \ {i} : refs'[j] = refs[j]
    /\ RefType(refs'[i])

Kind(i) == Item(i).kind

PassesOver ==
    /\ AtLoop /\ LooksAhead /\ Kind(m.mtItemIndex) \in {"old", "dir"}
    /\ MainIs("loop", m.itemIndex, m.mtItemIndex + 1, m.lastReal, m.threadIndices)
    /\ UNCHANGED <<th, out, pool, refs, mtSem, arc, prog, hit>>

Skips ==
    LET i == m.mtItemIndex IN
    /\ AtLoop /\ LooksAhead /\ Kind(i) = "skip"
    /\ MainIs("loop", m.itemIndex, i + 1, m.lastReal, m.threadIndices)
    /\ Keeps(i) /\ refs'[i].skip /\ refs'[i].finished = refs[i].finished
    /\ refs'[i].blocks = refs[i].blocks /\ refs'[i].data = refs[i].data
    /\ refs'[i].packSize = refs[i].packSize
    /\ UNCHANGED <<th, out, pool, mtSem, arc, prog, hit>>

GivesUp(res) ==
    /\ m.pc = "loop" /\ Leaves(res)
    /\ res \in hit' /\ hit \subseteq hit' /\ HitOK' /\ FileOK'
    /\ arc'.data = arc.data /\ arc'.pos = arc.pos
    /\ SamePositions
    /\ UNCHANGED <<th, out, pool, refs, mtSem, prog>>

Starts(k) ==
    LET i == m.mtItemIndex IN
    /\ AtLoop /\ LooksAhead /\ Kind(i) = "file" /\ th[k].isFree
    /\ MainIs("loop", m.itemIndex, i + 1, m.lastReal, Append(m.threadIndices, k))
    /\ Touches(k) /\ ~th'[k].isFree /\ th'[k].item = i
    /\ th'[k].compressEvent /\ th'[k].exitThread = th[k].exitThread
    /\ Stirs(k) /\ Stream(k, 0, 0, <<>>, 0) /\ Flags(k, FALSE, FALSE, out[k].stopEvent)
    /\ ~out'[k].unlockSent /\ out'[k].base = out[k].base
    /\ pool' = FreeBlocks(pool, out[k].blocks) /\ SyncOK'
    /\ prog'.total = prog.total /\ ProgOK' /\ prog'.inSizes[k] = 0
    /\ \A u \in Threads \ {k} : prog'.inSizes[u] = prog.inSizes[u]
    /\ UNCHANGED <<refs, mtSem, arc, hit>>

GoesOn ==
    /\ AtLoop /\ ~LooksAhead /\ refs[m.itemIndex].skip
    /\ MainIs("loop", m.itemIndex + 1, m.mtItemIndex, m.lastReal, m.threadIndices)
    /\ UNCHANGED <<th, out, pool, refs, mtSem, arc, prog, hit>>

WritesOwn(unit) ==
    /\ AtLoop /\ ~LooksAhead /\ Kind(m.itemIndex) \in {"old", "dir"}
    /\ MainIs("loop", m.itemIndex + 1, m.mtItemIndex, m.lastReal, m.threadIndices)
    /\ unit \in Units /\ EntryOf(m.updates, m.outSeqMode, m.itemIndex) = <<unit>>
    /\ ~arc.failed /\ Appends(<<unit>>) /\ arc'.curPos = arc.curPos + 1
    /\ arc'.headerPos \in {arc.headerPos, arc.curPos} /\ FileOK' /\ HitOK'
    /\ UNCHANGED <<th, out, pool, refs, mtSem, prog, hit>>

SendsKept ==
    LET i == m.itemIndex
        r == refs[i]
        one == Put(arc.data, arc.pos, <<Header(i, "final")>>)
        two == Put(one, arc.pos + 1, r.data)
        end == arc.pos + 1 + Len(r.data)
    IN
    /\ AtLoop /\ ~LooksAhead /\ Kind(i) = "file" /\ r.finished
    /\ MainIs("loop", i + 1, m.mtItemIndex, i, m.threadIndices)
    /\ Keeps(i) /\ refs'[i].skip = r.skip /\ refs'[i].finished
    /\ refs'[i].blocks = 0 /\ refs'[i].data = <<>> /\ refs'[i].packSize = r.packSize
    /\ pool' = FreeBlocks(pool, r.blocks) /\ SyncOK' /\ FileOK' /\ HitOK'
    /\ \/ /\ ~arc.failed /\ hit' = hit /\ arc'.headerPos = arc.curPos
          /\ arc'.curPos = (IF m.outSeqMode THEN arc.curPos + 1 + r.packSize + 1
                           ELSE arc.curPos + 1 + r.packSize)
          /\ IF m.outSeqMode
             THEN Archive(Put(two, end, <<<<i, "descriptor">>>>), end + 1)
             ELSE Archive(two, end)
       \/ /\ WriteFailed
          /\ SamePositions
    /\ UNCHANGED <<th, out, mtSem, prog>>

Fronts(f) == f \in Threads /\ Busy(f) /\ th[f].item = m.itemIndex

Opens(f) ==
    LET i == m.itemIndex IN
    /\ AtLoop /\ ~LooksAhead /\ Kind(i) = "file" /\ ~refs[i].finished
    /\ m.itemIndex < m.mtItemIndex
    /\ Fronts(f) /\ m.lastReal < i /\ ~arc.failed
    /\ MainIs("lock", i, m.mtItemIndex, i, m.threadIndices)
    /\ Stirs(f) /\ Stream(f, out[f].pos, out[f].blocks, out[f].data, out[f].total)
    /\ Flags(f, out[f].realMode, TRUE, out[f].stopEvent)
    /\ out'[f].unlockSent /\ out'[f].base = arc.curPos + 1
    /\ arc'.data = Put(arc.data, arc.pos, <<Header(i, "preliminary")>>)
    /\ arc'.pos = arc.curPos + 1 /\ arc'.curPos = arc.curPos + 1
    /\ arc'.headerPos = arc.curPos /\ ~arc'.failed /\ FileOK' /\ HitOK'
    /\ UNCHANGED <<th, pool, refs, mtSem, prog, hit>>

Waits ==
    /\ AtLoop /\ Open
    /\ MainIs("lock", m.itemIndex, m.mtItemIndex, m.lastReal, m.threadIndices)
    /\ UNCHANGED <<th, out, pool, refs, mtSem, arc, prog, hit>>

Locks ==
    /\ m.pc = "lock" /\ mtSem.count >= 1
    /\ MainIs("take", m.itemIndex, m.mtItemIndex, m.lastReal, m.threadIndices)
    /\ mtSem'.count = mtSem.count - 1 /\ mtSem'.list = mtSem.list /\ SyncOK'
    /\ UNCHANGED <<th, out, pool, refs, arc, prog, hit>>

(* The first of the list is taken from it.                                 *)
Drops(k) ==
    /\ m.pc = "take" /\ mtSem.list # <<>> /\ k = Head(mtSem.list)
    /\ mtSem'.list = Tail(mtSem.list) /\ mtSem'.count = mtSem.count /\ SyncOK'
    /\ Touches(k) /\ th'[k].isFree /\ th'[k].item = th[k].item
    /\ th'[k].compressEvent = th[k].compressEvent /\ th'[k].exitThread = th[k].exitThread
    /\ FileOK' /\ HitOK' /\ UNCHANGED prog

TakesFailed(k) ==
    /\ Drops(k) /\ th[k].res # "ok" /\ Leaves(th[k].res)
    /\ UNCHANGED <<out, pool, refs, arc, hit>>

TakesUnwritten(k) ==
    /\ Drops(k) /\ th[k].res = "ok" /\ Leaves("write") /\ WriteFailed
    /\ SamePositions
    /\ UNCHANGED <<out, pool, refs>>

Frees(k, base) ==
    /\ Stirs(k) /\ Stream(k, out[k].pos, 0, <<>>, 0) /\ SameFlags(k)
    /\ out'[k].unlockSent = out[k].unlockSent /\ out'[k].base = base

Removes(k) ==
    \E j \in 1..Len(m.threadIndices) :
        m.threadIndices[j] = k /\ m'.threadIndices = RemoveAt(m.threadIndices, j)

TakesFront(k) ==
    LET o == out[k]
        one == Put(arc.data, arc.pos, Content(o))
        next == arc.headerPos + 1 + th[k].packSize
    IN
    /\ Drops(k) /\ th[k].res = "ok" /\ th[k].item = m.itemIndex
    /\ MainIs("loop", m.itemIndex + 1, m.mtItemIndex, m.lastReal, m'.threadIndices)
    /\ Removes(k) /\ Frees(k, 0) /\ pool' = FreeBlocks(pool, o.blocks)
    /\ ~arc.failed /\ ~arc'.failed /\ arc'.headerPos = arc.headerPos
    /\ IF m.outSeqMode
       THEN /\ arc'.data = Put(one, arc.pos + Len(Content(o)), <<<<m.itemIndex, "descriptor">>>>)
            /\ arc'.pos = arc.pos + Len(Content(o)) + 1 /\ arc'.curPos = next + 1
       ELSE /\ arc'.data = Put(one, arc.headerPos, <<Header(m.itemIndex, "final")>>)
            /\ arc'.pos = next /\ arc'.curPos = next
    /\ UNCHANGED <<refs, hit>>

TakesLater(k) ==
    LET o == out[k]
        i == th[k].item
    IN
    /\ Drops(k) /\ th[k].res = "ok" /\ i # m.itemIndex
    /\ MainIs("loop", m.itemIndex, m.mtItemIndex, m.lastReal, m'.threadIndices)
    /\ Removes(k) /\ Frees(k, o.base)
    /\ Keeps(i) /\ refs'[i].skip = refs[i].skip /\ refs'[i].finished
    /\ refs'[i].data = Content(o) /\ refs'[i].packSize = th[k].packSize
    /\ refs'[i].blocks = Min({o.blocks, BlocksFor(o.total)})
    /\ pool' = FreeBlocks(pool, o.blocks - refs'[i].blocks)
    /\ UNCHANGED <<arc, hit>>

Finishes ==
    /\ m.pc = "loop" /\ m.itemIndex > NumItems /\ Leaves("ok")
    /\ ~arc.failed /\ Appends(<<<<0, "central">>>>)
    /\ SamePositions /\ FileOK' /\ HitOK'
    /\ UNCHANGED <<th, out, pool, refs, mtSem, prog, hit>>

Halts ==
    LET t == m.closing IN
    /\ m.pc = "close" /\ t < NumThreads /\ Closes("join", m.res, t)
    /\ Touches(t) /\ th'[t].exitThread /\ th'[t].compressEvent
    /\ th'[t].isFree = th[t].isFree /\ th'[t].item = th[t].item
    /\ Stirs(t) /\ Stream(t, out[t].pos, out[t].blocks, out[t].data, out[t].total)
    /\ Flags(t, out[t].realMode, out[t].realEvent, TRUE)
    /\ out'[t].unlockSent = out[t].unlockSent /\ out'[t].base = out[t].base
    /\ UNCHANGED <<pool, refs, mtSem, arc, prog, hit>>

Joins ==
    /\ m.pc = "join" /\ m.closing < NumThreads /\ th[m.closing].pc \in {"none", "exit"}
    /\ Closes("close", m.res, m.closing + 1)
    /\ UNCHANGED <<th, out, pool, refs, mtSem, arc, prog, hit>>

Returns ==
    /\ m.pc = "close" /\ m.closing = NumThreads /\ Closes("done", m.res, m.closing)
    /\ out' = [t \in Threads |-> out'[t]]
    /\ \A t \in Threads :
          /\ OutType(out'[t])
          /\ Stream(t, out[t].pos, 0, <<>>, 0) /\ SameFlags(t)
          /\ out'[t].unlockSent = out[t].unlockSent /\ out'[t].base = out[t].base
    /\ refs' = [i \in 1..NumItems |-> refs'[i]]
    /\ \A i \in 1..NumItems :
          /\ RefType(refs'[i]) /\ refs'[i].blocks = 0 /\ refs'[i].data = <<>>
          /\ refs'[i].skip = refs[i].skip /\ refs'[i].finished = refs[i].finished
          /\ refs'[i].packSize = refs[i].packSize
    /\ pool' = FreeBlocks(pool, StreamBlocks + KeptBlocks) /\ SyncOK'
    /\ UNCHANGED <<th, mtSem, arc, prog, hit>>

MainMove ==
    \/ PassesOver \/ Skips \/ (\E res \in Results : GivesUp(res)) \/ (\E k \in Threads : Starts(k))
    \/ GoesOn \/ (\E unit : WritesOwn(unit)) \/ SendsKept \/ (\E f \in Threads : Opens(f))
    \/ Waits \/ Locks \/ Finishes \/ Halts \/ Joins \/ Returns
    \/ \E k \in Threads :
          TakesFailed(k) \/ TakesUnwritten(k) \/ TakesFront(k) \/ TakesLater(k)

-----------------------------------------------------------------------------
LEMMA MainBasics ==
    ASSUME Shapes
    PROVE  /\ MainType(m) /\ m.pc \in {"setup", "loop", "lock", "take", "close", "join", "done"}
           /\ m.updates \in Updates /\ m.outSeqMode \in BOOLEAN
           /\ m.itemIndex \in 1..NumItems + 1 /\ m.mtItemIndex \in 1..NumItems + 1
           /\ m.lastReal \in 0..NumItems /\ m.threadIndices \in Seq(Threads)
           /\ m.res \in Results /\ m.closing \in 0..NumThreads
           /\ NumItems \in Nat /\ NumThreads \in Nat \ {0}
           /\ m.pc = "join" => m.closing < NumThreads
           /\ m.pc \in {"lock", "take"} => m.itemIndex <= NumItems
           /\ m.pc = "done" => m.closing = NumThreads
           /\ ThreadsOK /\ OutsOK /\ RefsOK /\ SyncOK /\ FileOK /\ ProgOK /\ HitOK
  BY Lengths, ManyThreads DEF Shapes, MainOK, MainType

LEMMA LeaveMove ==
    ASSUME Shapes, NEW res \in Results, Leave(res)
    PROVE  Leaves(res)
<1>1. m' = [m EXCEPT !.pc = "close", !.res = res, !.closing = 0] BY DEF Leave
<1>2. /\ m'.pc = "close" /\ m'.res = res /\ m'.closing = 0
      /\ SameUpdates
      /\ m'.itemIndex = m.itemIndex /\ m'.mtItemIndex = m.mtItemIndex
      /\ m'.lastReal = m.lastReal /\ m'.threadIndices = m.threadIndices
  BY <1>1, MainBasics DEF MainType
<1>2a. /\ MainType(m) /\ m'.res \in Results /\ m'.closing \in 0..NumThreads
       /\ m'.pc \in {"setup", "loop", "lock", "take", "close", "join", "done"}
  BY <1>2, MainBasics
<1>3. MainType(m') BY <1>1, <1>2, <1>2a DEF MainType
<1> QED BY <1>2, <1>3 DEF Leaves, Closes, MainIs, Settled, MainOK, MainType

LEMMA PassOverMove ==
    ASSUME Shapes, PassOver
    PROVE  PassesOver
  BY MainBasics DEF PassOver, Kind, MainType, AtLoop, LooksAhead, MainOK, PassesOver, MainIs,
    Settled

LEMMA NoStreamMove ==
    ASSUME Shapes, NoStream
    PROVE  Skips \/ \E res \in Results : GivesUp(res)
<1>0. /\ AtLoop /\ LooksAhead /\ UNCHANGED <<th, out, pool, mtSem, arc, prog>> BY DEF NoStream
<1>a. CASE /\ Item(m.mtItemIndex).kind = "skip"
           /\ refs' = [refs EXCEPT ![m.mtItemIndex].skip = TRUE]
           /\ m' = [m EXCEPT !.mtItemIndex = @ + 1]
           /\ UNCHANGED hit
  <2> DEFINE i == m.mtItemIndex
  <2>0. i \in 1..NumItems /\ i + 1 \in 1..NumItems + 1 BY <1>0, MainBasics DEF LooksAhead
  <2>1. /\ m'.pc = "loop" /\ m'.res = m.res /\ m'.closing = m.closing
        /\ SameUpdates
        /\ m'.itemIndex = m.itemIndex /\ m'.mtItemIndex = i + 1
        /\ m'.lastReal = m.lastReal /\ m'.threadIndices = m.threadIndices
    BY <1>0, <1>a, MainBasics DEF MainType, AtLoop
  <2>2. MainType(m') BY <1>a, <2>0, <2>1, MainBasics DEF MainType
  <2>3. MainIs("loop", m.itemIndex, i + 1, m.lastReal, m.threadIndices)
    BY <2>1, <2>2 DEF MainOK, MainType, MainIs, Settled
  <2>4. /\ refs = [j \in 1..NumItems |-> refs[j]] /\ RefType(refs[i])
    BY <2>0, MainBasics DEF RefsOK
  <2>5. /\ refs' = [j \in 1..NumItems |-> refs'[j]]
        /\ \A j \in (1..NumItems) \ {i} : refs'[j] = refs[j]
        /\ refs'[i] = [refs[i] EXCEPT !.skip = TRUE]
    BY <1>a, <2>0, <2>4
  <2>6. /\ refs'[i].skip /\ refs'[i].finished = refs[i].finished
        /\ refs'[i].blocks = refs[i].blocks /\ refs'[i].data = refs[i].data
        /\ refs'[i].packSize = refs[i].packSize /\ RefType(refs'[i])
    BY <2>4, <2>5 DEF RefType
  <2>7. Keeps(i) BY <2>0, <2>5, <2>6 DEF Keeps
  <2> QED BY <1>0, <1>a, <2>3, <2>6, <2>7 DEF Skips, Kind
<1>b. CASE /\ Item(m.mtItemIndex).kind \in {"file", "skip"}
           /\ CanFail("stream") /\ Fail("stream") /\ Leave("stream")
           /\ UNCHANGED refs
  BY <1>b, LeaveMove, <1>0, MainBasics DEF Results, Fail, CanFail, HitOK, FileOK, GivesUp,
     AtLoop
<1> QED BY <1>a, <1>b DEF NoStream

LEMMA FirstOfQueue ==
    ASSUME Shapes, Queue, Running, NEW f \in Threads, Fronts(f)
    PROVE  /\ m.threadIndices # <<>> /\ m.threadIndices[1] = f /\ FrontThread = f
           /\ Len(m.threadIndices) \in Nat /\ 1 \in 1..Len(m.threadIndices)
<1>0. m.threadIndices \in Seq(Threads) /\ NumItems \in Nat BY MainBasics
<1>1. Len(m.threadIndices) \in Nat /\ \A k \in 1..Len(m.threadIndices) : m.threadIndices[k] \in Threads
  BY <1>0
<1>2. PICK k \in 1..Len(m.threadIndices) : m.threadIndices[k] = f BY DEF Queue, Fronts
<1>3. 1 \in 1..Len(m.threadIndices) BY <1>1, <1>2
<1>4. m.threadIndices[1] \in Threads /\ Busy(m.threadIndices[1]) BY <1>1, <1>3 DEF Queue
<1>5. th[m.threadIndices[1]].item >= m.itemIndex BY <1>4 DEF Queue
<1>6. th[m.threadIndices[1]].item \in Nat /\ m.itemIndex \in Nat
  <2>1. ThreadType(th[m.threadIndices[1]]) BY <1>4, MainBasics DEF ThreadsOK
  <2> QED BY <1>0, <2>1, MainBasics DEF ThreadType
<1>7. k = 1 BY <1>1, <1>2, <1>3, <1>5, <1>6 DEF Queue, Fronts
<1>8. Head(m.threadIndices) = m.threadIndices[1] BY <1>0, <1>3
<1> QED BY <1>1, <1>2, <1>3, <1>7, <1>8 DEF FrontThread

LEMMA FrontOfFile ==
    ASSUME Shapes, ItemsOK, Queue, AtLoop, ~LooksAhead, Kind(m.itemIndex) = "file",
           ~refs[m.itemIndex].finished
    PROVE  m.itemIndex < m.mtItemIndex /\ Fronts(FrontThread)
<1>0. /\ m.threadIndices \in Seq(Threads) /\ NumItems \in Nat /\ NumThreads \in Nat \ {0}
      /\ m.itemIndex \in 1..NumItems /\ m.mtItemIndex \in 1..NumItems + 1
      /\ Len(m.threadIndices) \in Nat
  BY MainBasics DEF AtLoop
<1>r. Running BY DEF AtLoop, Running
<1>1. m.itemIndex < m.mtItemIndex
  <2> SUFFICES ASSUME ~(m.itemIndex < m.mtItemIndex) PROVE FALSE OBVIOUS
  <2>1. m.itemIndex = m.mtItemIndex BY <1>0, <1>r DEF Queue
  <2>2. Len(m.threadIndices) >= NumThreads BY <1>0, <2>1 DEF LooksAhead
  <2>3. 1 \in 1..Len(m.threadIndices) BY <1>0, <2>2
  <2> DEFINE t == m.threadIndices[1]
  <2>4. t \in Threads BY <1>0, <2>3
  <2> HIDE DEF t
  <2>5. Busy(t) BY <1>r, <2>3, <2>4 DEF Queue, t
  <2>6. th[t].item >= m.itemIndex BY <1>r, <2>4, <2>5 DEF Queue
  <2>7. th[t].item \in 0..NumItems BY <2>4, MainBasics DEF ThreadsOK, ThreadType
  <2>8. th[t].item < m.mtItemIndex BY <1>0, <2>4, <2>6, <2>7 DEF ItemsOK
  <2> QED BY <1>0, <2>1, <2>6, <2>7, <2>8
<1>2. PICK f \in Threads : Busy(f) /\ th[f].item = m.itemIndex
  BY <1>0, <1>1, <1>r DEF Queue, Kind, Owned
<1>3. Fronts(f) BY <1>2 DEF Fronts
<1>4. FrontThread = f BY <1>r, <1>3, FirstOfQueue
<1> QED BY <1>1, <1>3, <1>4

LEMMA StartFileMove ==
    ASSUME Shapes, Queue, StartFile
    PROVE  \E k \in Threads : Starts(k)
<1> DEFINE i == m.mtItemIndex
           free == {t \in Threads : th[t].isFree}
<1>0. /\ AtLoop /\ LooksAhead /\ Kind(i) = "file" /\ UNCHANGED <<refs, mtSem, arc, hit>>
  BY DEF StartFile, Kind
<1>1. i \in 1..NumItems /\ i + 1 \in 1..NumItems + 1 /\ m.threadIndices \in Seq(Threads)
  BY <1>0, MainBasics DEF LooksAhead
<1>2. PICK t \in Threads : \A j \in 1..Len(m.threadIndices) : m.threadIndices[j] # t
  BY <1>0, <1>1, OneIsMissing DEF LooksAhead
<1>3. ~Busy(t) BY <1>0, <1>2 DEF Queue, Running, AtLoop
<1>4. free # {} /\ free \in SUBSET Nat BY <1>3, ManyThreads DEF Busy
<1> DEFINE k == Min(free)
<1>5. k \in free BY <1>4, LeastOf
<1>6. /\ th' = [th EXCEPT ![k] = [@ EXCEPT !.isFree = FALSE, !.item = i, !.compressEvent = TRUE]]
      /\ out' = [out EXCEPT ![k] = InitStream(@)]
      /\ pool' = FreeBlocks(pool, out[k].blocks)
      /\ Reinit(k)
      /\ m' = [m EXCEPT !.mtItemIndex = @ + 1, !.threadIndices = Append(@, k)]
  BY <1>4 DEF StartFile
<1> HIDE DEF k, free
<1>7. k \in Threads /\ th[k].isFree BY <1>5 DEF free
<1>8. /\ ThreadType(th[k]) /\ OutType(out[k])
      /\ th = [u \in Threads |-> th[u]] /\ out = [u \in Threads |-> out[u]]
      /\ NumItems \in Nat /\ SyncOK /\ FileOK /\ ProgOK /\ HitOK
  BY <1>7, Basics
<1>9. /\ OneThread(k)
      /\ th'[k] = [th[k] EXCEPT !.isFree = FALSE, !.item = i, !.compressEvent = TRUE]
      /\ OneStream(k)
      /\ out'[k] = InitStream(out[k])
  BY <1>6, <1>7, <1>8
<1>10. /\ ~th'[k].isFree /\ th'[k].item = i /\ th'[k].compressEvent
       /\ th'[k].exitThread = th[k].exitThread
       /\ th'[k].pc = th[k].pc /\ th'[k].res = th[k].res /\ th'[k].pass = th[k].pass
       /\ th'[k].n = th[k].n /\ th'[k].packSize = th[k].packSize
  BY <1>8, <1>9 DEF ThreadType
<1>11. ThreadType(th'[k])
  <2>1. i \in 0..NumItems BY <1>1
  <2> HIDE DEF i
  <2> QED BY <1>8, <1>9, <2>1 DEF ThreadType
<1>12. Touches(k) BY <1>7, <1>9, <1>10, <1>11 DEF Touches
<1>13. /\ Stream(k, 0, 0, <<>>, 0) /\ Flags(k, FALSE, FALSE, out[k].stopEvent)
       /\ ~out'[k].unlockSent /\ out'[k].base = out[k].base
       /\ OutType(out'[k])
  BY <1>8, <1>9 DEF InitStream, Freed, OutType, Stream, Flags
<1>14. Stirs(k) BY <1>7, <1>9, <1>13 DEF Stirs
<1>15. pool' = FreeBlocks(pool, out[k].blocks) /\ SyncOK'
  BY <1>0, <1>6, <1>8 DEF FreeBlocks, SyncOK
<1>16. /\ prog'.total = prog.total /\ ProgOK' /\ prog'.inSizes[k] = 0
       /\ \A u \in Threads \ {k} : prog'.inSizes[u] = prog.inSizes[u]
  BY <1>6, <1>7, <1>8 DEF Reinit, ProgOK
<1>17. /\ m'.pc = "loop" /\ m'.res = m.res /\ m'.closing = m.closing
       /\ SameUpdates
       /\ m'.itemIndex = m.itemIndex /\ m'.mtItemIndex = i + 1
       /\ m'.lastReal = m.lastReal /\ m'.threadIndices = Append(m.threadIndices, k)
  BY <1>0, <1>6, MainBasics DEF MainType, AtLoop
<1>18. MainType(m')
  <2>1. m'.threadIndices \in Seq(Threads) /\ m'.mtItemIndex \in 1..Len(m'.updates) + 1
    BY <1>1, <1>7, <1>17, AppendProperties
  <2> HIDE DEF i
  <2> QED BY <1>6, <1>17, <2>1, MainBasics DEF MainType
<1>19. MainIs("loop", m.itemIndex, i + 1, m.lastReal, Append(m.threadIndices, k))
  BY <1>17, <1>18 DEF MainOK, MainType, MainIs, Settled
<1>20. Starts(k) BY <1>0, <1>7, <1>10, <1>12, <1>13, <1>14, <1>15, <1>16, <1>19 DEF Starts
<1> QED BY <1>7, <1>20

LEMMA NextItemMove ==
    ASSUME Shapes, AtLoop, NextItem
    PROVE  MainIs("loop", m.itemIndex + 1, m.mtItemIndex, m.lastReal, m.threadIndices)
<1>1. m' = [m EXCEPT !.itemIndex = @ + 1, !.pc = "loop"] BY DEF NextItem
<1>2. /\ m'.pc = "loop" /\ m'.res = m.res /\ m'.closing = m.closing
      /\ SameUpdates
      /\ m'.itemIndex = m.itemIndex + 1 /\ m'.mtItemIndex = m.mtItemIndex
      /\ m'.lastReal = m.lastReal /\ m'.threadIndices = m.threadIndices
  BY <1>1, MainBasics DEF MainType
<1>3. m'.itemIndex \in 1..Len(m'.updates) + 1 BY <1>2, MainBasics DEF AtLoop
<1>4. MainType(m') BY <1>1, <1>2, <1>3, MainBasics DEF MainType
<1> QED BY <1>2, <1>4 DEF MainOK, MainType, MainIs, Settled

LEMMA SkipItemMove ==
    ASSUME Shapes, SkipItem
    PROVE  GoesOn
BY NextItemMove DEF SkipItem, GoesOn, OtherThings

(* Something could not be written before anything else was done.           *)
LEMMA WriteGivesUp ==
    ASSUME Shapes, m.pc = "loop", NEW fails \in WriteFails, WriteHits(fails), fails,
           arc' = [arc EXCEPT !.failed = TRUE], Leave("write"),
           UNCHANGED <<th, out, pool, refs, mtSem, prog>>
    PROVE  GivesUp("write") /\ "write" \in Results
<1>0. FileOK /\ HitOK BY MainBasics
<1>1. /\ WriteFailed /\ FileOK' /\ HitOK'
      /\ SamePositions
  BY <1>0, Failing
<1>2. "write" \in Results BY DEF Results
<1>3. Leaves("write") BY <1>2, LeaveMove
<1> QED BY <1>1, <1>2, <1>3 DEF GivesUp, WriteFailed

LEMMA HeaderWritten ==
    ASSUME FileOK, NEW i, NEW state, arc' = WriteLocalHeader(arc, i, state)
    PROVE  /\ FileOK' /\ Appends(<<Header(i, state)>>)
           /\ arc'.curPos = arc.curPos + 1 /\ arc'.headerPos = arc.curPos
BY DEF FileOK, WriteLocalHeader, Written, Appends, Archive

LEMMA OwnItemMove ==
    ASSUME Shapes, OwnItem
    PROVE  (\E unit : WritesOwn(unit)) \/ \E res \in Results : GivesUp(res)
<1>0. /\ AtLoop /\ ~LooksAhead /\ Kind(m.itemIndex) \in {"old", "dir"}
      /\ UNCHANGED <<th, out, pool, refs, mtSem, prog>>
      /\ m.pc = "loop" /\ m.itemIndex \in 1..NumItems /\ m.itemIndex \in Nat
  BY MainBasics DEF OwnItem, Current, Kind, AtLoop, OtherThings
<1>1. PICK fails \in WriteFails :
        /\ WriteHits(fails)
        /\ IF fails
           THEN arc' = [arc EXCEPT !.failed = TRUE] /\ Leave("write")
           ELSE /\ NextItem
                /\ arc' = IF Current("dir")
                          THEN WriteLocalHeader(arc, m.itemIndex, "final")
                          ELSE [Written(arc, <<<<m.itemIndex, "old">>>>)
                                  EXCEPT !.curPos = @ + 1]
  BY DEF OwnItem
<1>2. CASE fails BY <1>0, <1>1, <1>2, WriteGivesUp
<1>3. CASE ~fails
  <2>0. FileOK /\ HitOK BY MainBasics
  <2>1. ~arc.failed /\ hit' = hit BY <1>1, <1>3, <2>0, Succeeding
  <2>2. MainIs("loop", m.itemIndex + 1, m.mtItemIndex, m.lastReal, m.threadIndices)
    BY <1>0, <1>1, <1>3, NextItemMove
  <2> DEFINE i == m.itemIndex
             unit == IF Kind(i) = "dir" THEN Header(i, "final") ELSE <<i, "old">>
  <2>3. unit \in Units BY <1>0, UnitFacts DEF Header, States
  <2>4. EntryOf(m.updates, m.outSeqMode, i) = <<unit>> BY <1>0 DEF EntryOf, Kind, Item
  <2>5. /\ FileOK' /\ Appends(<<unit>>) /\ arc'.curPos = arc.curPos + 1
        /\ arc'.headerPos \in {arc.headerPos, arc.curPos}
    <3>1. CASE Kind(i) = "dir" BY <1>0, <1>1, <1>3, <3>1, <2>0, HeaderWritten DEF Current, Kind
    <3>2. CASE Kind(i) = "old"
      <4>1. arc' = [Written(arc, <<<<i, "old">>>>) EXCEPT !.curPos = @ + 1]
        BY <1>0, <1>1, <1>3, <3>2 DEF Current, Kind
      <4>2. unit = <<i, "old">> BY <3>2
      <4> QED BY <2>0, <4>1, <4>2 DEF FileOK, Written, Appends, Archive
    <3> QED BY <1>0, <3>1, <3>2
  <2>6. HitOK' BY <2>0, <2>1, <2>5 DEF HitOK, Appends, Archive
  <2> HIDE DEF unit
  <2>7. WritesOwn(unit) BY <1>0, <2>1, <2>2, <2>3, <2>4, <2>5, <2>6 DEF WritesOwn
  <2> QED BY <2>7
<1> QED BY <1>2, <1>3

LEMMA HeaderIs ==
    ASSUME FileOK, NEW i, NEW state, NEW b, b = WriteLocalHeader(arc, i, state)
    PROVE  b = [data |-> Put(arc.data, arc.pos, <<Header(i, state)>>), pos |-> arc.pos + 1,
                curPos |-> arc.curPos + 1, headerPos |-> arc.curPos, failed |-> arc.failed]
BY DEF FileOK, WriteLocalHeader, Written

LEMMA WrittenIs ==
    ASSUME NEW a, NEW units, NEW b, b = Written(a, units),
           a = [data |-> a.data, pos |-> a.pos, curPos |-> a.curPos,
                headerPos |-> a.headerPos, failed |-> a.failed]
    PROVE  b = [data |-> Put(a.data, a.pos, units), pos |-> a.pos + Len(units),
                curPos |-> a.curPos, headerPos |-> a.headerPos, failed |-> a.failed]
BY DEF Written

LEMMA FinishedItemMove ==
    ASSUME Shapes, FinishedItem
    PROVE  SendsKept \/ \E res \in Results : GivesUp(res)
<1> DEFINE i == m.itemIndex
           r == refs[i]
           header == WriteLocalHeader(arc, i, "final")
           copied == Written(header, r.data)
<1>0. /\ AtLoop /\ ~LooksAhead /\ Kind(i) = "file" /\ r.finished
      /\ UNCHANGED <<th, out, mtSem, prog>>
      /\ m.pc = "loop" /\ i \in 1..NumItems
  BY MainBasics DEF FinishedItem, Current, Kind, AtLoop
<1>1. FileOK /\ HitOK /\ SyncOK /\ RefType(r) /\ refs = [j \in 1..NumItems |-> refs[j]]
  BY <1>0, MainBasics DEF RefsOK
<1>2. ASSUME refs' = [refs EXCEPT ![i].blocks = 0, ![i].data = <<>>],
             pool' = FreeBlocks(pool, r.blocks),
             m' = [m EXCEPT !.itemIndex = @ + 1, !.lastReal = i]
      PROVE  /\ MainIs("loop", i + 1, m.mtItemIndex, i, m.threadIndices)
             /\ Keeps(i) /\ refs'[i].skip = r.skip /\ refs'[i].finished
             /\ refs'[i].blocks = 0 /\ refs'[i].data = <<>> /\ refs'[i].packSize = r.packSize
             /\ pool' = FreeBlocks(pool, r.blocks) /\ SyncOK'
  <2>1. /\ m'.pc = "loop" /\ m'.res = m.res /\ m'.closing = m.closing
        /\ SameUpdates
        /\ m'.itemIndex = m.itemIndex + 1 /\ m'.mtItemIndex = m.mtItemIndex
        /\ m'.lastReal = i /\ m'.threadIndices = m.threadIndices
    BY <1>0, <1>2, MainBasics DEF MainType
  <2>2. m'.itemIndex \in 1..Len(m'.updates) + 1 /\ m'.lastReal \in 0..Len(m'.updates)
    BY <1>0, <2>1, MainBasics
  <2>3. MainType(m') BY <1>2, <2>1, <2>2, MainBasics DEF MainType
  <2>4. MainIs("loop", i + 1, m.mtItemIndex, i, m.threadIndices)
    BY <2>1, <2>3 DEF MainOK, MainType, MainIs, Settled
  <2>5. /\ refs' = [j \in 1..NumItems |-> refs'[j]]
        /\ \A j \in (1..NumItems) \ {i} : refs'[j] = refs[j]
        /\ refs'[i] = [refs[i] EXCEPT !.blocks = 0, !.data = <<>>]
    BY <1>0, <1>1, <1>2
  <2>6. /\ refs'[i].skip = r.skip /\ refs'[i].finished
        /\ refs'[i].blocks = 0 /\ refs'[i].data = <<>>
        /\ refs'[i].packSize = r.packSize /\ RefType(refs'[i])
    BY <1>0, <1>1, <2>5 DEF RefType
  <2>7. Keeps(i) BY <1>0, <2>5, <2>6 DEF Keeps
  <2>8. SyncOK' BY <1>0, <1>1, <1>2 DEF FreeBlocks, SyncOK
  <2> HIDE DEF i
  <2> QED BY <1>2, <2>4, <2>6, <2>7, <2>8
<1>3. CASE /\ ~arc.failed
           /\ arc' = IF m.outSeqMode
                     THEN WriteLocalHeader_Replace(copied, i, TRUE, r.packSize)
                     ELSE [copied EXCEPT !.curPos = @ + r.packSize]
           /\ refs' = [refs EXCEPT ![i].blocks = 0, ![i].data = <<>>]
           /\ pool' = FreeBlocks(pool, r.blocks)
           /\ m' = [m EXCEPT !.itemIndex = @ + 1, !.lastReal = i]
           /\ UNCHANGED hit
  <2> DEFINE one == Put(arc.data, arc.pos, <<Header(i, "final")>>)
             two == Put(one, arc.pos + 1, r.data)
             end == arc.pos + 1 + Len(r.data)
  <2>1. /\ header = [data |-> one, pos |-> arc.pos + 1, curPos |-> arc.curPos + 1,
                     headerPos |-> arc.curPos, failed |-> arc.failed]
    BY <1>1, HeaderIs DEF one
  <2>2. copied = [data |-> two, pos |-> end, curPos |-> arc.curPos + 1,
                  headerPos |-> arc.curPos, failed |-> arc.failed]
    BY <2>1, WrittenIs
  <2> HIDE DEF header, copied, one, two, end
  <2>3. /\ FileOK' /\ arc'.headerPos = arc.curPos
        /\ arc'.curPos = (IF m.outSeqMode THEN arc.curPos + 1 + r.packSize + 1
                           ELSE arc.curPos + 1 + r.packSize)
        /\ IF m.outSeqMode
           THEN Archive(Put(two, end, <<<<i, "descriptor">>>>), end + 1)
           ELSE Archive(two, end)
    <3>0. arc.failed \in BOOLEAN BY <1>1 DEF FileOK
    <3>1. CASE m.outSeqMode
      <4>1. arc' = [Written(copied, <<<<i, "descriptor">>>>) EXCEPT
                        !.curPos = copied.headerPos + 1 + r.packSize + 1]
        BY <1>3, <3>1 DEF WriteLocalHeader_Replace
      <4>2. arc' = [data |-> Put(two, end, <<<<i, "descriptor">>>>), pos |-> end + 1,
                    curPos |-> arc.curPos + 1 + r.packSize + 1,
                    headerPos |-> arc.curPos, failed |-> arc.failed]
        BY <2>2, <4>1 DEF Written
      <4> QED BY <3>0, <3>1, <4>2 DEF FileOK, Archive
    <3>2. CASE ~m.outSeqMode BY <1>3, <3>2, <2>2, <3>0 DEF FileOK, Archive
    <3> QED BY <3>1, <3>2
  <2>4. HitOK' BY <1>1, <1>3, <2>3 DEF HitOK, Archive
  <2>5. SendsKept BY <1>0, <1>2, <1>3, <2>3, <2>4 DEF SendsKept, one, two, end
  <2> QED BY <2>5
<1>4. CASE /\ TRUE \in WriteFails
           /\ WriteHits(TRUE)
           /\ arc' = [arc EXCEPT !.failed = TRUE]
           /\ \/ Leave("write") /\ UNCHANGED <<pool, refs>>
              \/ /\ ~arc.failed /\ ~m.outSeqMode
                 /\ refs' = [refs EXCEPT ![i].blocks = 0, ![i].data = <<>>]
                 /\ pool' = FreeBlocks(pool, r.blocks)
                 /\ m' = [m EXCEPT !.itemIndex = @ + 1, !.lastReal = i]
  <2>1. CASE Leave("write") /\ UNCHANGED <<pool, refs>>
    <3>1. GivesUp("write") /\ "write" \in Results BY <1>0, <1>4, <2>1, WriteGivesUp
    <3> QED BY <3>1
  <2>2. CASE /\ refs' = [refs EXCEPT ![i].blocks = 0, ![i].data = <<>>]
             /\ pool' = FreeBlocks(pool, r.blocks)
             /\ m' = [m EXCEPT !.itemIndex = @ + 1, !.lastReal = i]
    <3>1. /\ WriteFailed /\ FileOK' /\ HitOK'
          /\ SamePositions
      BY <1>1, <1>4, Failing
    <3> HIDE DEF header, copied
    <3>2. SendsKept BY <1>0, <1>2, <2>2, <3>1 DEF SendsKept
    <3> QED BY <3>2
  <2> QED BY <1>4, <2>1, <2>2
<1>5. i \in 1..NumItems BY <1>0
<1> HIDE DEF i
<1> QED BY <1>3, <1>4 DEF FinishedItem, i, r, header, copied

LEMMA FrontItemMove ==
    ASSUME Shapes, ItemsOK, Queue, RealOK, FrontItem
    PROVE  \/ \E f \in Threads : Opens(f)
           \/ Waits
           \/ \E res \in Results : GivesUp(res)
<1> DEFINE i == m.itemIndex
           front == FrontThread
           opens == m.lastReal < i
           a == IF opens THEN WriteLocalHeader(arc, i, "preliminary") ELSE arc
           fails == IF opens THEN WriteFails ELSE {FALSE}
<1>0. /\ AtLoop /\ ~LooksAhead /\ Kind(i) = "file" /\ ~refs[i].finished
      /\ UNCHANGED <<th, pool, refs, mtSem, prog>>
      /\ m.pc = "loop" /\ i \in 1..NumItems
  BY MainBasics DEF FrontItem, Current, Kind, AtLoop
<1>1. FileOK /\ HitOK /\ m.lastReal \in 0..NumItems BY MainBasics
<1>2. m.itemIndex < m.mtItemIndex /\ Fronts(front) /\ Running
  BY <1>0, FrontOfFile DEF AtLoop, Running
<1>3. /\ front \in Threads /\ Busy(front) /\ th[front].item = i
      /\ ThreadType(th[front]) /\ OutType(out[front]) /\ out = [u \in Threads |-> out[u]]
  BY <1>2, Basics DEF Fronts
<1>4. m.lastReal <= i /\ (out[front].unlockSent <=> Open) BY <1>2, <1>3 DEF Queue, RealOK
<1>5. Open <=> ~opens BY <1>0, <1>1, <1>4 DEF Open
<1>6. PICK f \in fails :
        /\ WriteHits(f)
        /\ IF f
           THEN arc' = [arc EXCEPT !.failed = TRUE] /\ Leave("write") /\ UNCHANGED out
           ELSE /\ m' = [m EXCEPT !.pc = "lock", !.lastReal = i]
                /\ IF out[front].unlockSent
                   THEN UNCHANGED out /\ arc' = a
                   ELSE /\ out' = [out EXCEPT ![front] = SetRealStreamMode(@, a.curPos)]
                        /\ arc' = [a EXCEPT !.pos = a.curPos]
  BY DEF FrontItem, FrontThread
<1>7. ASSUME m' = [m EXCEPT !.pc = "lock", !.lastReal = i]
      PROVE  MainIs("lock", i, m.mtItemIndex, i, m.threadIndices)
  <2>1. /\ m'.pc = "lock" /\ m'.res = m.res /\ m'.closing = m.closing
        /\ SameUpdates
        /\ m'.itemIndex = m.itemIndex /\ m'.mtItemIndex = m.mtItemIndex
        /\ m'.lastReal = i /\ m'.threadIndices = m.threadIndices
    BY <1>7, MainBasics DEF MainType
  <2>2. m'.lastReal \in 0..Len(m'.updates) BY <1>0, <2>1, MainBasics
  <2>3. MainType(m') BY <1>7, <2>1, <2>2, MainBasics DEF MainType
  <2>4. m'.itemIndex <= Len(m'.updates) BY <1>0, <2>1
  <2> QED BY <2>1, <2>3, <2>4 DEF MainOK, MainType, MainIs, Settled
<1> HIDE DEF front
<1>8. CASE f
  <2>1. opens /\ f \in WriteFails BY <1>6, <1>8
  <2> HIDE DEF i
  <2>2. GivesUp("write") /\ "write" \in Results BY <1>0, <1>6, <1>8, <2>1, WriteGivesUp
  <2> QED BY <2>2
<1>9. CASE ~f /\ ~opens BY <1>0, <1>1, <1>4, <1>5, <1>6, <1>9, <1>7 DEF WriteHits, Waits
<1>10. CASE ~f /\ opens
  <2>1. ~arc.failed /\ hit' = hit BY <1>1, <1>6, <1>10, Succeeding
  <2>2. /\ out' = [out EXCEPT ![front] = SetRealStreamMode(@, a.curPos)]
        /\ arc' = [a EXCEPT !.pos = a.curPos] /\ a = WriteLocalHeader(arc, i, "preliminary")
    BY <1>4, <1>5, <1>6, <1>10
  <2>3. a = [data |-> Put(arc.data, arc.pos, <<Header(i, "preliminary")>>),
             pos |-> arc.pos + 1, curPos |-> arc.curPos + 1,
             headerPos |-> arc.curPos, failed |-> arc.failed]
    BY <1>1, <2>2 DEF FileOK, WriteLocalHeader, Written
  <2>4. /\ arc'.data = Put(arc.data, arc.pos, <<Header(i, "preliminary")>>)
        /\ arc'.pos = arc.curPos + 1 /\ arc'.curPos = arc.curPos + 1
        /\ arc'.headerPos = arc.curPos /\ arc'.failed = arc.failed /\ FileOK'
    BY <1>1, <2>2, <2>3 DEF FileOK
  <2>5. HitOK' BY <1>1, <2>1, <2>4 DEF HitOK
  <2>6. a.curPos = arc.curPos + 1 BY <2>3
  <2> HIDE DEF a
  <2>7. /\ OneStream(front)
        /\ out'[front] = [out[front] EXCEPT !.base = arc.curPos + 1, !.unlockSent = TRUE,
                                            !.realEvent = TRUE]
    BY <1>3, <2>2, <2>6 DEF SetRealStreamMode
  <2>8. /\ Stream(front, out[front].pos, out[front].blocks, out[front].data, out[front].total)
        /\ Flags(front, out[front].realMode, TRUE, out[front].stopEvent)
        /\ out'[front].unlockSent /\ out'[front].base = arc.curPos + 1
        /\ OutType(out'[front])
    BY <1>3, <2>7 DEF OutType, Stream, Flags
  <2>9. Stirs(front) BY <1>3, <2>7, <2>8 DEF Stirs
  <2>10. MainIs("lock", i, m.mtItemIndex, i, m.threadIndices) BY <1>6, <1>7, <1>10
  <2> HIDE DEF i
  <2>11. Opens(front)
    BY <1>0, <1>2, <1>3, <1>10, <2>1, <2>4, <2>5, <2>8, <2>9, <2>10 DEF Opens, i
  <2> QED BY <1>3, <2>11
<1> QED BY <1>8, <1>9, <1>10

LEMMA LockMove ==
    ASSUME Shapes, Lock
    PROVE  Locks
<1>1. /\ m.pc = "lock" /\ mtSem.count >= 1
      /\ mtSem' = [mtSem EXCEPT !.count = mtSem.count - 1]
      /\ m' = [m EXCEPT !.pc = "take"]
      /\ UNCHANGED <<th, out, pool, refs, arc, prog, hit>>
  BY MainBasics DEF Lock, Semaphore_CanWait, Semaphore_Wait, SyncOK
<1>2. /\ m'.pc = "take" /\ m'.res = m.res /\ m'.closing = m.closing
      /\ SameUpdates
      /\ m'.itemIndex = m.itemIndex /\ m'.mtItemIndex = m.mtItemIndex
      /\ m'.lastReal = m.lastReal /\ m'.threadIndices = m.threadIndices
      /\ m'.itemIndex <= Len(m'.updates)
  BY <1>1, MainBasics DEF MainType
<1>3. MainType(m') BY <1>1, <1>2, MainBasics DEF MainType
<1>4. mtSem'.count = mtSem.count - 1 /\ mtSem'.list = mtSem.list /\ SyncOK'
  BY <1>1, MainBasics DEF SyncOK
<1> QED BY <1>1, <1>2, <1>3, <1>4 DEF MainOK, MainType, MainIs, Settled, Locks

LEMMA WriteCentralDirMove ==
    ASSUME Shapes, WriteCentralDir
    PROVE  Finishes \/ \E res \in Results : GivesUp(res)
<1>0. /\ m.pc = "loop" /\ m.itemIndex > NumItems
      /\ UNCHANGED <<th, out, pool, mtSem, prog, refs>> /\ FileOK /\ HitOK
  BY MainBasics DEF WriteCentralDir, OtherThings
<1>1. CASE CanFail("cancel") /\ Fail("cancel") /\ Leave("cancel") /\ UNCHANGED arc
  <2>1. "cancel" \in Results BY DEF Results
  <2>2. Leaves("cancel") BY <1>1, <2>1, LeaveMove
  <2>3. hit' = hit \cup {"cancel"} /\ HitOK' /\ FileOK'
    BY <1>0, <1>1 DEF Fail, CanFail, HitOK, FileOK
  <2>4. GivesUp("cancel") BY <1>0, <1>1, <2>2, <2>3 DEF GivesUp
  <2> QED BY <2>1, <2>4
<1>2. CASE \E fails \in WriteFails :
            /\ WriteHits(fails)
            /\ IF fails
               THEN arc' = [arc EXCEPT !.failed = TRUE] /\ Leave("write")
               ELSE arc' = Written(arc, <<<<0, "central">>>>) /\ Leave("ok")
  <2>1. PICK fails \in WriteFails :
            /\ WriteHits(fails)
            /\ IF fails
               THEN arc' = [arc EXCEPT !.failed = TRUE] /\ Leave("write")
               ELSE arc' = Written(arc, <<<<0, "central">>>>) /\ Leave("ok")
    BY <1>2
  <2>2. CASE fails BY <1>0, <2>1, <2>2, WriteGivesUp
  <2>3. CASE ~fails
    <3>1. ~arc.failed /\ hit' = hit BY <1>0, <2>1, <2>3, Succeeding
    <3>2. /\ Appends(<<<<0, "central">>>>) /\ FileOK' /\ HitOK'
          /\ SamePositions
      BY <1>0, <2>1, <2>3, <3>1, Appended
    <3>3. "ok" \in Results BY DEF Results
    <3>4. Leaves("ok") BY <2>1, <2>3, <3>3, LeaveMove
    <3> QED BY <1>0, <3>1, <3>2, <3>4 DEF Finishes
  <2> QED BY <2>2, <2>3
<1> QED BY <1>1, <1>2 DEF WriteCentralDir

LEMMA StopWaitMove ==
    ASSUME Shapes, StopWait
    PROVE  Halts
<1> DEFINE t == m.closing
<1>0. /\ m.pc = "close" /\ t < NumThreads /\ t \in Threads
      /\ UNCHANGED <<pool, refs, mtSem, arc, prog, hit>>
  BY MainBasics, ManyThreads DEF StopWait
<1>1. /\ th' = [th EXCEPT ![t].exitThread = TRUE, ![t].compressEvent = TRUE]
      /\ out' = [out EXCEPT ![t].stopEvent = TRUE]
      /\ m' = [m EXCEPT !.pc = "join"]
  BY DEF StopWait
<1>2. /\ m'.pc = "join" /\ m'.res = m.res /\ m'.closing = m.closing
      /\ SameUpdates
      /\ m'.itemIndex = m.itemIndex /\ m'.mtItemIndex = m.mtItemIndex
      /\ m'.lastReal = m.lastReal /\ m'.threadIndices = m.threadIndices
  BY <1>1, MainBasics DEF MainType
<1>3. MainType(m') BY <1>1, <1>2, MainBasics DEF MainType
<1>4. Closes("join", m.res, t)
  BY <1>0, <1>2, <1>3 DEF MainOK, MainType, MainIs, Settled, Closes
<1> HIDE DEF t
<1>5. /\ ThreadType(th[t]) /\ OutType(out[t])
      /\ th = [u \in Threads |-> th[u]] /\ out = [u \in Threads |-> out[u]]
  BY <1>0, Basics
<1>6. /\ OneThread(t)
      /\ th'[t] = [th[t] EXCEPT !.exitThread = TRUE, !.compressEvent = TRUE]
      /\ OneStream(t)
      /\ out'[t] = [out[t] EXCEPT !.stopEvent = TRUE]
  BY <1>0, <1>1, <1>5
<1>7. /\ th'[t].exitThread /\ th'[t].compressEvent
      /\ th'[t].isFree = th[t].isFree /\ th'[t].item = th[t].item
      /\ th'[t].pc = th[t].pc /\ th'[t].res = th[t].res /\ th'[t].pass = th[t].pass
      /\ th'[t].n = th[t].n /\ th'[t].packSize = th[t].packSize
      /\ ThreadType(th'[t])
  BY <1>5, <1>6 DEF ThreadType
<1>8. /\ Stream(t, out[t].pos, out[t].blocks, out[t].data, out[t].total)
      /\ Flags(t, out[t].realMode, out[t].realEvent, TRUE) /\ OutType(out'[t])
      /\ out'[t].unlockSent = out[t].unlockSent /\ out'[t].base = out[t].base
  BY <1>5, <1>6 DEF OutType, Stream, Flags
<1>9. Touches(t) /\ Stirs(t) BY <1>0, <1>6, <1>7, <1>8 DEF Touches, Stirs
<1> QED BY <1>0, <1>4, <1>7, <1>8, <1>9 DEF Halts, t

LEMMA CloseMove ==
    ASSUME Shapes, Close
    PROVE  Joins
<1>0. /\ m.pc = "join" /\ th[m.closing].pc \in {"none", "exit"}
      /\ m' = [m EXCEPT !.pc = "close", !.closing = @ + 1]
      /\ UNCHANGED <<th, out, pool, refs, mtSem, arc, prog, hit>>
  BY DEF Close
<1>2. /\ m'.pc = "close" /\ m'.res = m.res /\ m'.closing = m.closing + 1
      /\ SameUpdates
      /\ m'.itemIndex = m.itemIndex /\ m'.mtItemIndex = m.mtItemIndex
      /\ m'.lastReal = m.lastReal /\ m'.threadIndices = m.threadIndices
  BY <1>0, MainBasics DEF MainType
<1>3. m.closing < NumThreads /\ m'.closing \in 0..NumThreads BY <1>0, <1>2, MainBasics
<1>4. MainType(m') BY <1>0, <1>2, <1>3, MainBasics DEF MainType
<1> QED BY <1>0, <1>2, <1>3, <1>4 DEF MainOK, MainType, MainIs, Settled, Closes, Joins

LEMMA ReturnMove ==
    ASSUME Shapes, Return
    PROVE  Returns
<1>0. /\ m.pc = "close" /\ m.closing = NumThreads
      /\ out' = [t \in Threads |-> Freed(out[t])]
      /\ refs' = [i \in DOMAIN refs |-> [refs[i] EXCEPT !.blocks = 0, !.data = <<>>]]
      /\ pool' = FreeBlocks(pool, StreamBlocks + KeptBlocks)
      /\ m' = [m EXCEPT !.pc = "done"]
      /\ UNCHANGED <<th, mtSem, arc, prog, hit>>
  BY DEF Return
<1>2. /\ m'.pc = "done" /\ m'.res = m.res /\ m'.closing = m.closing
      /\ SameUpdates
      /\ m'.itemIndex = m.itemIndex /\ m'.mtItemIndex = m.mtItemIndex
      /\ m'.lastReal = m.lastReal /\ m'.threadIndices = m.threadIndices
  BY <1>0, MainBasics DEF MainType
<1>3. MainType(m') BY <1>0, <1>2, MainBasics DEF MainType
<1>4. Closes("done", m.res, m.closing)
  BY <1>0, <1>2, <1>3 DEF MainOK, MainType, MainIs, Settled, Closes
<1>5. out' = [t \in Threads |-> out'[t]] BY <1>0
<1>6. ASSUME NEW t \in Threads
      PROVE  /\ OutType(out'[t]) /\ Stream(t, out[t].pos, 0, <<>>, 0) /\ SameFlags(t)
             /\ out'[t].unlockSent = out[t].unlockSent /\ out'[t].base = out[t].base
  <2>1. out'[t] = [out[t] EXCEPT !.blocks = 0, !.data = <<>>, !.total = 0] /\ OutType(out[t])
    BY <1>0, Basics DEF Freed
  <2> QED BY <2>1 DEF OutType, Stream, SameFlags, Flags
<1>7. DOMAIN refs = 1..NumItems /\ \A i \in 1..NumItems : RefType(refs[i])
  BY MainBasics DEF RefsOK
<1>8. refs' = [i \in 1..NumItems |-> refs'[i]] BY <1>0, <1>7
<1>9. ASSUME NEW i \in 1..NumItems
      PROVE  /\ RefType(refs'[i]) /\ refs'[i].blocks = 0 /\ refs'[i].data = <<>>
             /\ refs'[i].skip = refs[i].skip /\ refs'[i].finished = refs[i].finished
             /\ refs'[i].packSize = refs[i].packSize
  <2>1. refs'[i] = [refs[i] EXCEPT !.blocks = 0, !.data = <<>>] /\ RefType(refs[i])
    BY <1>0, <1>7
  <2> QED BY <2>1 DEF RefType
<1>10. SyncOK' BY <1>0, MainBasics DEF FreeBlocks, SyncOK
<1> QED BY <1>0, <1>4, <1>5, <1>6, <1>8, <1>9, <1>10 DEF Returns

(* The first of a list is one of it. *)
LEMMA HeadIsListed ==
    ASSUME Shapes, mtSem.list # <<>>
    PROVE  /\ Head(mtSem.list) \in Threads /\ Listed(Head(mtSem.list))
           /\ Head(mtSem.list) = mtSem.list[1] /\ Len(mtSem.list) \in Nat \ {0}
           /\ Tail(mtSem.list) \in Seq(Threads) /\ Len(Tail(mtSem.list)) = Len(mtSem.list) - 1
           /\ \A j \in 1..Len(mtSem.list) - 1 : Tail(mtSem.list)[j] = mtSem.list[j + 1]
  BY MainBasics, SMTT(30) DEF SyncOK, Listed

LEMMA ListToTake ==
    ASSUME Shapes, SemOK, m.pc = "take"
    PROVE  mtSem.list # <<>>
<1>1. mtSem.list \in Seq(Threads) BY MainBasics DEF SyncOK
<1>2. Cardinality(Posting) \in Nat BY ManyThreads, FS_Subset, FS_CardinalityType DEF Posting
<1>3. Len(mtSem.list) > 0 BY <1>2 DEF SemOK
<1> QED BY <1>1, <1>3

(* Where a thread is in threadIndices. *)
PlaceOf(k) == SelectInSeq(m.threadIndices, LAMBDA j : j = k)

LEMMA PlaceIs ==
    ASSUME Shapes, Queue, Running, NEW k \in Threads, Busy(k)
    PROVE  /\ PlaceOf(k) \in 1..Len(m.threadIndices) /\ m.threadIndices[PlaceOf(k)] = k
           /\ \A j \in 1..Len(m.threadIndices) : m.threadIndices[j] = k => PlaceOf(k) <= j
<1> DEFINE I == {j \in 1..Len(m.threadIndices) : m.threadIndices[j] = k}
<1>1. m.threadIndices \in Seq(Threads) BY MainBasics
<1>2. I \in SUBSET Nat /\ I # {} BY <1>1 DEF Queue
<1>3. PlaceOf(k) = Min(I) BY <1>2 DEF PlaceOf, SelectInSeq
<1>4. Min(I) \in I /\ \A y \in I : Min(I) <= y BY <1>2, LeastOf
<1> QED BY <1>3, <1>4

LEMMA OpenIsOwned ==
    ASSUME Shapes, Queue, Running, Open
    PROVE  \E f \in Threads : Fronts(f)
  BY MainBasics DEF Open, Queue, Owned, Fronts

LEMMA RemovedTypes ==
    ASSUME NEW s \in Seq(Threads), NEW j \in 1..Len(s)
    PROVE  /\ RemoveAt(s, j) \in Seq(Threads) /\ Len(RemoveAt(s, j)) = Len(s) - 1
           /\ \A i \in 1..Len(s) - 1 : RemoveAt(s, j)[i] = IF i < j THEN s[i] ELSE s[i + 1]
<1> DEFINE a == SubSeq(s, 1, j - 1)
           b == SubSeq(s, j + 1, Len(s))
<1>0. Len(s) \in Nat /\ j \in Nat OBVIOUS
<1>1. a \in Seq(Threads) /\ Len(a) = j - 1 /\ \A i \in 1..j - 1 : a[i] = s[i] BY <1>0, PrefixIs
<1>2. b \in Seq(Threads) /\ Len(b) = Len(s) - j /\ \A i \in 1..Len(s) - j : b[i] = s[j + i]
  BY <1>0, SubSeqProperties
<1>3. RemoveAt(s, j) = a \o b BY DEF RemoveAt
<1> HIDE DEF a, b
<1>4. /\ a \o b \in Seq(Threads) /\ Len(a \o b) = Len(a) + Len(b)
      /\ \A i \in 1..Len(a) + Len(b) :
            (a \o b)[i] = IF i <= Len(a) THEN a[i] ELSE b[i - Len(a)]
  BY <1>1, <1>2, ConcatProperties
<1>5. ASSUME NEW i \in 1..Len(s) - 1
      PROVE  (a \o b)[i] = IF i < j THEN s[i] ELSE s[i + 1]
  <2>1. i \in 1..Len(a) + Len(b) BY <1>0, <1>1, <1>2
  <2>2. CASE i < j BY <1>0, <1>1, <2>2, <1>4, <2>1
  <2>3. CASE ~(i < j) BY <1>0, <1>1, <2>3, <1>2, <1>4, <2>1
  <2> QED BY <2>2, <2>3
<1> QED BY <1>0, <1>1, <1>2, <1>3, <1>4, <1>5

LEMMA TakeMove ==
    ASSUME Shapes, SemOK, ItemsOK, Queue, \A t \in Threads : Life(t), Take
    PROVE  \E k \in Threads :
              TakesFailed(k) \/ TakesUnwritten(k) \/ TakesFront(k) \/ TakesLater(k)
<1> DEFINE k == Head(mtSem.list)
           o == out[k]
           i == th[k].item
           t == PlaceOf(k)
           rest == RemoveAt(m.threadIndices, t)
<1>0. m.pc = "take" /\ Running /\ mtSem.list # <<>> BY ListToTake DEF Take, Running
<1>1. k \in Threads /\ Listed(k) /\ Busy(k) BY <1>0, HeadIsListed DEF Life
<1>2. /\ mtSem' = [mtSem EXCEPT !.list = Tail(@)]
      /\ th' = [th EXCEPT ![k].isFree = TRUE]
      /\ UNCHANGED prog
      /\ CASE th[k].res # "ok" ->
               Leave(th[k].res) /\ UNCHANGED <<out, pool, refs, arc, hit>>
            [] th[k].res = "ok" /\ (t = 0 \/ (t = 1 /\ i # m.itemIndex)) ->
               Leave("fail") /\ UNCHANGED <<out, pool, refs, arc, hit>>
            [] th[k].res = "ok" /\ t = 1 /\ i = m.itemIndex ->
               /\ \E fails \in WriteFails :
                   /\ WriteHits(fails)
                   /\ IF fails
                      THEN /\ arc' = [arc EXCEPT !.failed = TRUE] /\ Leave("write")
                           /\ UNCHANGED <<out, pool>>
                      ELSE /\ arc' = WriteLocalHeader_Replace(
                                        Written(arc, Content(o)), i,
                                        m.outSeqMode, th[k].packSize)
                           /\ out' = [out EXCEPT ![k] = [Freed(@) EXCEPT !.base = 0]]
                           /\ pool' = FreeBlocks(pool, o.blocks)
                           /\ m' = [m EXCEPT !.pc = "loop", !.threadIndices = rest,
                                             !.itemIndex = @ + 1]
               /\ UNCHANGED refs
            [] OTHER ->
               /\ refs' = [refs EXCEPT ![i] = [@ EXCEPT
                              !.finished = TRUE, !.data = Content(o),
                              !.blocks = Min({o.blocks, BlocksFor(o.total)}),
                              !.packSize = th[k].packSize]]
               /\ out' = [out EXCEPT ![k] = Freed(@)]
               /\ pool' = FreeBlocks(pool, o.blocks - refs'[i].blocks)
               /\ m' = [m EXCEPT !.pc = "loop", !.threadIndices = rest]
               /\ UNCHANGED <<arc, hit>>
  BY <1>0 DEF Take, PlaceOf
<1>3. /\ t \in 1..Len(m.threadIndices) /\ m.threadIndices[t] = k
      /\ \A j \in 1..Len(m.threadIndices) : m.threadIndices[j] = k => t <= j
  BY <1>0, <1>1, PlaceIs
<1>4. i = m.itemIndex <=> t = 1
  <2>1. ASSUME i = m.itemIndex PROVE t = 1
    <3>1. m.threadIndices[1] = k /\ 1 \in 1..Len(m.threadIndices)
      BY <1>0, <1>1, <2>1, FirstOfQueue DEF Fronts
    <3>2. t <= 1 /\ Len(m.threadIndices) \in Nat BY <1>3, <3>1, MainBasics
    <3> HIDE DEF t
    <3> QED BY <1>3, <3>2
  <2>2. ASSUME t = 1 PROVE i = m.itemIndex
    <3>1. PICK f \in Threads : Fronts(f) BY <1>0, OpenIsOwned DEF Queue
    <3>2. m.threadIndices[1] = f BY <1>0, <3>1, FirstOfQueue
    <3>3. f = k BY <1>3, <2>2, <3>2
    <3> QED BY <3>1, <3>3 DEF Fronts
  <2> QED BY <2>1, <2>2
<1>5. t # 0
  <2> HIDE DEF t
  <2> QED BY <1>3
<1>b. /\ ThreadType(th[k]) /\ OutType(out[k])
      /\ th = [u \in Threads |-> th[u]] /\ out = [u \in Threads |-> out[u]]
      /\ SyncOK /\ FileOK /\ HitOK
  BY <1>1, Basics
<1>m. /\ m.itemIndex \in 1..NumItems /\ i \in 1..NumItems /\ NumItems \in Nat
      /\ m.threadIndices \in Seq(Threads)
  BY <1>0, MainBasics, <1>1, <1>b DEF ItemsOK, ThreadType
<1>6. mtSem'.list = Tail(mtSem.list) /\ mtSem'.count = mtSem.count
      /\ mtSem' \in [count : {mtSem'.count}, list : Seq(Threads)]
  BY <1>0, <1>2, <1>b, HeadIsListed DEF SyncOK
<1>r. rest \in Seq(Threads)
  <2> HIDE DEF t
  <2> QED BY <1>3, <1>m, RemovedTypes
<1> HIDE DEF k, o, i, t, rest
<1>7. /\ OneThread(k)
      /\ th'[k] = [th[k] EXCEPT !.isFree = TRUE]
  BY <1>1, <1>2, <1>b
<1>8. /\ th'[k].isFree /\ th'[k].item = th[k].item
      /\ th'[k].compressEvent = th[k].compressEvent /\ th'[k].exitThread = th[k].exitThread
      /\ th'[k].pc = th[k].pc /\ th'[k].res = th[k].res /\ th'[k].pass = th[k].pass
      /\ th'[k].n = th[k].n /\ th'[k].packSize = th[k].packSize /\ ThreadType(th'[k])
  BY <1>7, <1>b DEF ThreadType
<1>9. Touches(k) BY <1>1, <1>7, <1>8 DEF Touches
<1>10. ASSUME pool' \in [total : {pool'.total}, free : {pool'.free}, sem : {pool'.sem}],
              FileOK', HitOK'
       PROVE  Drops(k)
  BY <1>0, <1>2, <1>6, <1>8, <1>9, <1>10 DEF Drops, SyncOK, k
<1>11. CASE th[k].res # "ok"
  BY <1>2, <1>11, <1>b, LeaveMove, <1>10, <1>1 DEF ThreadType, SyncOK, FileOK, HitOK,
     TakesFailed
<1>12. CASE th[k].res = "ok" /\ t = 1
  <2>1. PICK fails \in WriteFails :
                   /\ WriteHits(fails)
                   /\ IF fails
                      THEN /\ arc' = [arc EXCEPT !.failed = TRUE] /\ Leave("write")
                           /\ UNCHANGED <<out, pool>>
                      ELSE /\ arc' = WriteLocalHeader_Replace(
                                        Written(arc, Content(o)), i,
                                        m.outSeqMode, th[k].packSize)
                           /\ out' = [out EXCEPT ![k] = [Freed(@) EXCEPT !.base = 0]]
                           /\ pool' = FreeBlocks(pool, o.blocks)
                           /\ m' = [m EXCEPT !.pc = "loop", !.threadIndices = rest,
                                             !.itemIndex = @ + 1]
    BY <1>2, <1>4, <1>12
  <2>2. UNCHANGED refs /\ i = m.itemIndex BY <1>2, <1>4, <1>12
  <2>3. CASE fails
    <3>1. /\ WriteFailed /\ FileOK' /\ HitOK'
          /\ SamePositions
      BY <1>b, <2>1, <2>3, Failing
    <3>2. Leaves("write") BY <2>1, <2>3, LeaveMove DEF Results
    <3>3. Drops(k) BY <1>10, <1>b, <2>1, <2>3, <3>1 DEF SyncOK
    <3> QED BY <1>1, <1>12, <2>1, <2>2, <2>3, <3>1, <3>2, <3>3 DEF TakesUnwritten
  <2>4. CASE ~fails
    <3>1. ~arc.failed /\ hit' = hit BY <1>b, <2>1, <2>4, Succeeding
    <3>2. /\ arc' = WriteLocalHeader_Replace(Written(arc, Content(o)), i,
                                        m.outSeqMode, th[k].packSize)
          /\ out' = [out EXCEPT ![k] = [Freed(@) EXCEPT !.base = 0]]
          /\ pool' = FreeBlocks(pool, o.blocks)
          /\ m' = [m EXCEPT !.pc = "loop", !.threadIndices = rest, !.itemIndex = @ + 1]
      BY <2>1, <2>4
    <3>3. pool' \in [total : {pool'.total}, free : {pool'.free}, sem : {pool'.sem}]
      BY <1>b, <3>2 DEF SyncOK, FreeBlocks
    <3>4. Frees(k, 0)
      <4>1. /\ OneStream(k)
            /\ out'[k] = [out[k] EXCEPT !.blocks = 0, !.data = <<>>, !.total = 0, !.base = 0]
        BY <1>1, <1>b, <3>2 DEF Freed
      <4> QED BY <1>1, <1>b, <4>1 DEF OutType, Stream, SameFlags, Flags, Stirs, Frees
    <3>5. /\ m'.pc = "loop" /\ m'.res = m.res /\ m'.closing = m.closing
          /\ SameUpdates
          /\ m'.itemIndex = m.itemIndex + 1 /\ m'.mtItemIndex = m.mtItemIndex
          /\ m'.lastReal = m.lastReal /\ m'.threadIndices = rest
      BY <3>2, MainBasics DEF MainType
    <3>6. m'.itemIndex \in 1..Len(m'.updates) + 1 BY <1>m, <3>5
    <3>7. MainType(m') BY <1>r, <3>2, <3>5, <3>6, MainBasics DEF MainType
    <3>8. MainIs("loop", m.itemIndex + 1, m.mtItemIndex, m.lastReal, m'.threadIndices)
      BY <3>5, <3>7 DEF MainOK, MainType, MainIs, Settled
    <3>9. Removes(k) BY <1>3, <3>5 DEF Removes, rest
    <3> DEFINE one == Put(arc.data, arc.pos, Content(o))
               next == arc.headerPos + 1 + th[k].packSize
               w == Written(arc, Content(o))
    <3>10. w = [data |-> one, pos |-> arc.pos + Len(Content(o)), curPos |-> arc.curPos,
                headerPos |-> arc.headerPos, failed |-> arc.failed]
      BY <1>b, WrittenIs DEF FileOK
    <3>11. arc.failed \in BOOLEAN BY <1>b DEF FileOK
    <3> HIDE DEF w, one
    <3>12. /\ ~arc'.failed /\ arc'.headerPos = arc.headerPos /\ FileOK'
           /\ IF m.outSeqMode
              THEN /\ arc'.data = Put(one, arc.pos + Len(Content(o)), <<<<m.itemIndex, "descriptor">>>>)
                   /\ arc'.pos = arc.pos + Len(Content(o)) + 1 /\ arc'.curPos = next + 1
              ELSE /\ arc'.data = Put(one, arc.headerPos, <<Header(m.itemIndex, "final")>>)
                   /\ arc'.pos = next /\ arc'.curPos = next
      <4>1. CASE m.outSeqMode
        <5>1. arc' = [Written(w, <<<<i, "descriptor">>>>) EXCEPT
                          !.curPos = w.headerPos + 1 + th[k].packSize + 1]
          BY <3>2, <4>1 DEF WriteLocalHeader_Replace, w
        <5>2. arc' = [data |-> Put(one, arc.pos + Len(Content(o)), <<<<i, "descriptor">>>>),
                      pos |-> arc.pos + Len(Content(o)) + 1,
                      curPos |-> arc.headerPos + 1 + th[k].packSize + 1,
                      headerPos |-> arc.headerPos, failed |-> arc.failed]
          BY <3>10, <5>1 DEF Written
        <5> QED BY <2>2, <3>1, <3>11, <4>1, <5>2 DEF FileOK
      <4>2. CASE ~m.outSeqMode
        <5>1. arc' = [w EXCEPT !.data = Put(@, w.headerPos, <<Header(i, "final")>>),
                               !.pos = w.headerPos + 1 + th[k].packSize,
                               !.curPos = w.headerPos + 1 + th[k].packSize]
          BY <3>2, <4>2 DEF WriteLocalHeader_Replace, w
        <5>2. arc' = [data |-> Put(one, arc.headerPos, <<Header(i, "final")>>),
                      pos |-> next, curPos |-> next,
                      headerPos |-> arc.headerPos, failed |-> arc.failed]
          BY <3>10, <5>1
        <5> QED BY <2>2, <3>1, <3>11, <4>2, <5>2 DEF FileOK
      <4> QED BY <4>1, <4>2
    <3>13. HitOK' BY <1>b, <3>1, <3>12 DEF HitOK
    <3>14. Drops(k) BY <1>10, <3>3, <3>12, <3>13
    <3>15. TakesFront(k)
      BY <1>12, <2>2, <3>1, <3>2, <3>4, <3>8, <3>9, <3>12, <3>14 DEF TakesFront, one, o, i
    <3> QED BY <1>1, <3>15
  <2> QED BY <2>3, <2>4
<1>13. CASE th[k].res = "ok" /\ t # 1
  <2>1. /\ refs' = [refs EXCEPT ![i] = [@ EXCEPT
                              !.finished = TRUE, !.data = Content(o),
                              !.blocks = Min({o.blocks, BlocksFor(o.total)}),
                              !.packSize = th[k].packSize]]
        /\ out' = [out EXCEPT ![k] = Freed(@)]
        /\ pool' = FreeBlocks(pool, o.blocks - refs'[i].blocks)
        /\ m' = [m EXCEPT !.pc = "loop", !.threadIndices = rest]
        /\ UNCHANGED <<arc, hit>>
    BY <1>2, <1>5, <1>13
  <2>2. i # m.itemIndex BY <1>4, <1>13
  <2>3. pool' \in [total : {pool'.total}, free : {pool'.free}, sem : {pool'.sem}]
    BY <1>b, <2>1 DEF SyncOK, FreeBlocks
  <2>4. Frees(k, o.base)
    <3>1. /\ OneStream(k)
          /\ out'[k] = [out[k] EXCEPT !.blocks = 0, !.data = <<>>, !.total = 0]
      BY <1>1, <1>b, <2>1 DEF Freed
    <3> QED BY <1>1, <1>b, <3>1 DEF OutType, Stream, SameFlags, Flags, Stirs, Frees, o
  <2>5. /\ m'.pc = "loop" /\ m'.res = m.res /\ m'.closing = m.closing
        /\ SameUpdates
        /\ m'.itemIndex = m.itemIndex /\ m'.mtItemIndex = m.mtItemIndex
        /\ m'.lastReal = m.lastReal /\ m'.threadIndices = rest
    BY <2>1, MainBasics DEF MainType
  <2>6. MainType(m') BY <1>r, <2>1, <2>5, MainBasics DEF MainType
  <2>7. MainIs("loop", m.itemIndex, m.mtItemIndex, m.lastReal, m'.threadIndices)
    BY <2>5, <2>6 DEF MainOK, MainType, MainIs, Settled
  <2>8. Removes(k) BY <1>3, <2>5 DEF Removes, rest
  <2>9. Drops(k) BY <1>10, <1>b, <2>1, <2>3 DEF FileOK, HitOK
  <2>10. refs = [j \in 1..NumItems |-> refs[j]] /\ RefType(refs[i])
    BY <1>m, MainBasics DEF RefsOK
  <2>11. /\ refs' = [j \in 1..NumItems |-> refs'[j]]
         /\ \A j \in (1..NumItems) \ {i} : refs'[j] = refs[j]
         /\ refs'[i] = [refs[i] EXCEPT !.finished = TRUE, !.data = Content(o),
                              !.blocks = Min({o.blocks, BlocksFor(o.total)}),
                              !.packSize = th[k].packSize]
    BY <1>m, <2>1, <2>10
  <2>12. /\ refs'[i].skip = refs[i].skip /\ refs'[i].finished
         /\ refs'[i].data = Content(o) /\ refs'[i].packSize = th[k].packSize
         /\ refs'[i].blocks = Min({o.blocks, BlocksFor(o.total)}) /\ RefType(refs'[i])
    BY <2>10, <2>11 DEF RefType
  <2>13. Keeps(i) BY <1>m, <2>11, <2>12 DEF Keeps
  <2>14. TakesLater(k)
    BY <1>13, <2>1, <2>2, <2>4, <2>7, <2>8, <2>9, <2>12, <2>13 DEF TakesLater, o, i
  <2> QED BY <1>1, <2>14
<1> QED BY <1>11, <1>12, <1>13

LEMMA MainMoves ==
    ASSUME Shapes, SemOK, ItemsOK, Queue, RealOK, \A t \in Threads : Life(t), Main
    PROVE  Setup \/ MainMove
BY PassOverMove, NoStreamMove, StartFileMove, SkipItemMove, OwnItemMove, FinishedItemMove,
   FrontItemMove, LockMove, TakeMove, WriteCentralDirMove, StopWaitMove, CloseMove, ReturnMove
   DEF Main, MainMove

LEMMA ThreadMoves ==
    ASSUME Shapes, NEW t \in Threads, Thread(t) \/ CodeFails(t)
    PROVE  Only(t) /\ Move(t)
BY WakeMove, WriteMemMove, WaitStopMove, WaitRealMove, WaitBlockMove, AllocateBlockMove,
   WriteRealMove, EndPassMove, PushItemMove, PostItemMove, CodeFailsMove DEF Thread, Move

-----------------------------------------------------------------------------
(* The invariant, and what the steps of a thread preserve.                 *)
Inv ==
    /\ Shapes /\ AtSetup /\ SemOK /\ ItemsOK /\ Queue /\ RealOK
    /\ \A t \in Threads : Life(t) /\ StreamOK(t)
    /\ \A i \in 1..NumItems : KeptOK(i)
    /\ ArcType /\ ArcOK /\ ArcData /\ BlocksOK /\ ProgressOK /\ ResultOK

(* The places it goes through.                                             *)
Goes(t) ==
    \/ /\ th[t].pc = "wait" /\ th[t].compressEvent /\ ~th'[t].compressEvent
       /\ th'[t].pc = (IF th[t].exitThread THEN "exit" ELSE "code")
       /\ mtSem'.list = mtSem.list /\ th'[t].res = th[t].res
    \/ /\ th[t].pc \in {"code", "alloc"} /\ th'[t].pc \in {"code", "alloc", "push"}
       /\ th'[t].compressEvent = th[t].compressEvent /\ mtSem'.list = mtSem.list
    \/ /\ th[t].pc = "push" /\ th'[t].pc = "post"
       /\ th'[t].compressEvent = th[t].compressEvent /\ mtSem'.list = <<t>> \o mtSem.list
       /\ th'[t].res = th[t].res
    \/ /\ th[t].pc = "post" /\ th'[t].pc = "wait"
       /\ th'[t].compressEvent = th[t].compressEvent /\ mtSem'.list = mtSem.list
       /\ th'[t].res = th[t].res

LEMMA PlacesOfMove ==
    ASSUME NEW t \in Threads, Shapes, Only(t), Move(t)
    PROVE  Goes(t) /\ (out'[t].stopEvent => out[t].stopEvent)
<1>1. CASE Wakes(t) BY <1>1 DEF Wakes, Goes
<1>2. CASE WritesMem(t) \/ IsStopped(t) \/ GoesReal(t) \/ RealFails(t)
  BY <1>2 DEF WritesMem, IsStopped, GoesReal, RealFails, Goes, Coding, OneMore, Stops, Turn,
     Flags, SameFlags
<1>3. CASE IsPromised(t) \/ NoBlock(t) \/ GetsBlock(t) \/ WritesReal(t) \/ WriteRealFails(t)
  BY <1>3 DEF IsPromised, NoBlock, GetsBlock, WritesReal, WriteRealFails, Goes, Coding, OneMore,
     Stops, TurnTo, Turn, Flags, SameFlags
<1>4. CASE RepeatsReal(t) \/ RepeatsMem(t) \/ Ends(t)
  BY <1>4 DEF RepeatsReal, RepeatsMem, Ends, AtEnd, Goes, Turn, Flags, SameFlags
<1>5. CASE Pushes(t) \/ Posts(t) \/ Fails(t)
  BY <1>5 DEF Pushes, Posts, Fails, Goes, Coding, TurnTo, Stops, Turn
<1> QED BY <1>1, <1>2, <1>3, <1>4, <1>5 DEF Move

LEMMA ListAfter ==
    ASSUME NEW t \in Threads, Shapes, Goes(t)
    PROVE  /\ \A u \in Threads : u # t => (Listed(u)' <=> Listed(u))
           /\ Listed(t)' <=> (Listed(t) \/ th[t].pc = "push")
<1>1. mtSem.list \in Seq(Threads) BY MainBasics DEF SyncOK
<1>2. CASE mtSem'.list = mtSem.list /\ th[t].pc # "push" BY <1>2 DEF Listed
<1>3. CASE mtSem'.list = <<t>> \o mtSem.list /\ th[t].pc = "push"
  <2>1. /\ Len(mtSem.list) \in Nat /\ Len(mtSem'.list) = Len(mtSem.list) + 1
        /\ mtSem'.list[1] = t
        /\ \A j \in 1..Len(mtSem.list) : mtSem'.list[j + 1] = mtSem.list[j]
    BY <1>1, <1>3
  <2>2. ASSUME NEW u \in Threads, u # t, Listed(u)' PROVE Listed(u)
    <3>1. PICK j \in 1..Len(mtSem'.list) : mtSem'.list[j] = u BY <2>2 DEF Listed
    <3>2. j # 1 /\ j - 1 \in 1..Len(mtSem.list) /\ (j - 1) + 1 = j BY <2>1, <2>2, <3>1
    <3> QED BY <2>1, <3>1, <3>2 DEF Listed
  <2>3. ASSUME NEW u \in Threads, Listed(u) PROVE Listed(u)' BY <2>3, <2>1 DEF Listed
  <2>4. Listed(t)' BY <2>1 DEF Listed
  <2> QED BY <1>3, <2>2, <2>3, <2>4
<1> QED BY <1>2, <1>3 DEF Goes

LEMMA OnlyShapes ==
    ASSUME NEW t \in Threads, Shapes, Only(t)
    PROVE  Shapes'
<1>1. MainOK' /\ RefsOK' BY DEF Only, Shapes, MainOK, MainType, RefsOK, RefType
<1>2. ThreadsOK'
  <2>1. th' = [u \in Threads |-> th'[u]] /\ m' = m BY DEF Only
  <2>2. ASSUME NEW u \in Threads PROVE ThreadType(th'[u]) BY Basics DEF Only
  <2>3. \A u \in Threads : ThreadType(th[u])' BY <2>1, <2>2 DEF ThreadType
  <2> QED BY <2>1, <2>3 DEF ThreadsOK, ThreadType
<1>3. OutsOK' BY MainBasics DEF Only, OutsOK, OutType
<1> QED BY <1>1, <1>2, <1>3 DEF Only, Shapes

LEMMA OnlyStarted ==
    ASSUME NEW t \in Threads, Inv, Only(t), Move(t)
    PROVE  m.pc # "setup" /\ AtSetup'
<1>1. Goes(t) BY PlacesOfMove DEF Inv
<1>2. th[t].pc # "none" BY <1>1 DEF Goes
<1>3. m.pc # "setup" BY <1>2 DEF Inv, AtSetup, CThreadInfo
<1> QED BY <1>3 DEF Only, AtSetup

LEMMA OnlyLife ==
    ASSUME NEW t \in Threads, Inv, Only(t), Move(t)
    PROVE  \A u \in Threads : Life(u)'
<1>1. Shapes /\ Goes(t) /\ m' = m /\ (out'[t].stopEvent => out[t].stopEvent)
  BY PlacesOfMove DEF Inv, Only
<1>2. /\ \A u \in Threads : u # t => (Listed(u)' <=> Listed(u))
      /\ Listed(t)' <=> (Listed(t) \/ th[t].pc = "push")
  BY <1>1, ListAfter
<1>3. ASSUME NEW u \in Threads, u # t PROVE Life(u)'
  BY <1>2, <1>3, <1>1 DEF Inv, Only, Life, Busy, Live, Called, Ended, Running, Closing
<1>4. Life(t)'
  <2>1. /\ Life(t) /\ th'[t].isFree = th[t].isFree /\ th'[t].exitThread = th[t].exitThread
    BY DEF Inv, Only
  <2>2. m.closing \in 0..NumThreads /\ th[t].exitThread \in BOOLEAN
    BY <1>1, MainBasics, Basics DEF ThreadType
  <2> QED BY <1>1, <1>2, <2>1, <2>2 DEF Life, Busy, Live, Called, Ended, Running, Closing, Goes
<1> QED BY <1>3, <1>4
LEMMA OnlySem ==
    ASSUME NEW t \in Threads, Inv, Only(t), Move(t)
    PROVE  SemOK'
<1>1. Shapes /\ Goes(t) /\ m' = m /\ SemOK /\ Life(t) BY PlacesOfMove DEF Inv, Only
<1>2. mtSem.list \in Seq(Threads) /\ Len(mtSem.list) \in Nat /\ SyncOK /\ SyncOK'
  BY <1>1, MainBasics DEF SyncOK, Only
<1>3. IsFiniteSet(Posting) /\ Cardinality(Posting) \in Nat
  BY ManyThreads, FS_Subset, FS_CardinalityType DEF Posting
<1>4. OneThread(t) BY DEF Only
<1>5. CASE th[t].pc = "push"
  <2>1. th'[t].pc = "post" /\ mtSem'.list = <<t>> \o mtSem.list /\ mtSem'.count = mtSem.count
    BY <1>5 DEF Move, Wakes, WritesMem, IsStopped, GoesReal, RealFails, IsPromised, NoBlock,
       GetsBlock, WritesReal, WriteRealFails, RepeatsReal, RepeatsMem, Ends, Pushes, Posts,
       Fails, Coding, AtEnd, TurnTo, Turn
  <2>2. Posting' = Posting \cup {t} /\ t \notin Posting BY <1>4, <1>5, <2>1 DEF Posting
  <2>3. Cardinality(Posting') = Cardinality(Posting) + 1 BY <1>3, <2>2, FS_AddElement
  <2>4. /\ Len(mtSem'.list) = Len(mtSem.list) + 1 /\ mtSem'.list[1] = t
        /\ \A j \in 2..Len(mtSem.list) + 1 : mtSem'.list[j] = mtSem.list[j - 1]
    BY <1>2, <2>1
  <2>5. \A j \in 1..Len(mtSem.list) : mtSem.list[j] # t BY <1>1, <1>5 DEF Life, Listed
  <2>6. IsInjective(mtSem'.list)
    <3>1. DOMAIN mtSem.list = 1..Len(mtSem.list) /\ DOMAIN mtSem'.list = 1..Len(mtSem'.list)
      BY <1>2 DEF SyncOK
    <3>2. ASSUME NEW a \in 1..Len(mtSem.list) + 1, NEW b \in 1..Len(mtSem.list) + 1,
                 mtSem'.list[a] = mtSem'.list[b]
          PROVE  a = b
      <4>1. \A j \in 2..Len(mtSem.list) + 1 : j - 1 \in 1..Len(mtSem.list) BY <1>2
      <4>2. CASE a = 1 \/ b = 1
        <5>1. \A j \in 1..Len(mtSem.list) + 1 : j # 1 => mtSem'.list[j] # t
          BY <1>2, <2>4, <2>5, <4>1, SMTT(30)
        <5> QED BY <2>4, <3>2, <4>2, <5>1
      <4>3. CASE a # 1 /\ b # 1
        <5>1. a \in 2..Len(mtSem.list) + 1 /\ b \in 2..Len(mtSem.list) + 1 BY <1>2, <4>3
        <5>2. mtSem.list[a - 1] = mtSem.list[b - 1] BY <2>4, <3>2, <5>1
        <5>3. a - 1 = b - 1 BY <1>1, <3>1, <4>1, <5>1, <5>2 DEF SemOK, IsInjective
        <5> QED BY <5>1, <5>3
      <4> QED BY <4>2, <4>3
    <3> QED BY <2>4, <3>1, <3>2 DEF IsInjective
  <2> QED BY <1>1, <1>2, <1>3, <2>1, <2>3, <2>4, <2>6 DEF SemOK
<1>6. CASE th[t].pc = "post"
  <2>1. /\ th'[t].pc = "wait" /\ mtSem'.list = mtSem.list
        /\ mtSem'.count = Semaphore_ReleaseN(mtSem.count, NumThreads, 1)
    BY <1>6 DEF Move, Wakes, WritesMem, IsStopped, GoesReal, RealFails, IsPromised, NoBlock,
       GetsBlock, WritesReal, WriteRealFails, RepeatsReal, RepeatsMem, Ends, Pushes, Posts,
       Fails, Coding, AtEnd, TurnTo, Turn
  <2>2. Posting' = Posting \ {t} /\ t \in Posting BY <1>4, <1>6, <2>1 DEF Posting
  <2>3. Cardinality(Posting') = Cardinality(Posting) - 1 /\ Cardinality(Posting) # 0
    BY <1>3, <2>2, FS_RemoveElement, FS_EmptySet
  <2>4. Len(mtSem.list) <= NumThreads BY <1>1, <1>2, NoMoreThanThreads DEF SemOK
  <2>5. mtSem.count + 1 <= NumThreads /\ mtSem.count \in Nat
    BY <1>1, <1>2, <1>3, <2>3, <2>4, ManyThreads DEF SemOK
  <2>6. mtSem'.count = mtSem.count + 1 BY <2>1, <2>5, ManyThreads DEF Semaphore_ReleaseN
  <2> QED BY <1>1, <1>2, <1>3, <2>1, <2>3, <2>5, <2>6 DEF SemOK
<1>7. CASE th[t].pc \notin {"push", "post"}
  <2>1. th'[t].pc # "post" BY <1>1, <1>7 DEF Goes
  <2>2. Posting' = Posting BY <1>4, <1>7, <2>1 DEF Posting
  <2>3. mtSem' = mtSem
    BY <1>7 DEF Move, Wakes, WritesMem, IsStopped, GoesReal, RealFails, IsPromised, NoBlock,
       GetsBlock, WritesReal, WriteRealFails, RepeatsReal, RepeatsMem, Ends, Pushes, Posts,
       Fails, Coding, AtEnd, TurnTo, Turn
  <2> QED BY <1>1, <2>2, <2>3 DEF SemOK
<1> QED BY <1>5, <1>6, <1>7

LEMMA OnlyOwners ==
    ASSUME NEW t \in Threads, Inv, Only(t), Move(t)
    PROVE  /\ ItemsOK' /\ Queue' /\ \A i \in 1..NumItems : KeptOK(i)'
           /\ \A u \in Threads : th'[u].item = th[u].item /\ Busy(u)' = Busy(u)
                                   /\ out'[u].unlockSent = out[u].unlockSent
<1>1. /\ m' = m /\ refs' = refs
      /\ \A u \in Threads : th'[u].item = th[u].item /\ th'[u].isFree = th[u].isFree
                               /\ out'[u].unlockSent = out[u].unlockSent
  BY DEF Only
<1>2. ItemsOK /\ Queue /\ (\A i \in 1..NumItems : KeptOK(i)) /\ m.threadIndices \in Seq(Threads)
  BY MainBasics DEF Inv
<1>3. ItemsOK' BY <1>1, <1>2 DEF ItemsOK, Busy, Item
<1>4. Queue'
  <2>1. \A k \in 1..Len(m.threadIndices) : m.threadIndices[k] \in Threads BY <1>2
  <2> SUFFICES ASSUME Running' PROVE Queue' BY DEF Queue
  <2>2. Running BY <1>1 DEF Running
  <2>3. /\ m.itemIndex <= m.mtItemIndex /\ m.lastReal <= m.itemIndex
        /\ m.pc \in {"lock", "take"} => Open
        /\ Open => /\ m.itemIndex < m.mtItemIndex
                   /\ Item(m.itemIndex).kind = "file" /\ ~refs[m.itemIndex].finished
    BY <1>2, <2>2 DEF Queue
  <2>4. \A u \in Threads :
          ~th'[u].isFree <=> \E k \in 1..Len(m.threadIndices) : m.threadIndices[k] = u
    BY <1>1, <1>2, <2>2 DEF Queue, Busy
  <2>5. \A j, k \in 1..Len(m.threadIndices) :
          j < k => th'[m.threadIndices[j]].item < th'[m.threadIndices[k]].item
    BY <1>1, <1>2, <2>1, <2>2 DEF Queue
  <2>6. \A u \in Threads : ~th'[u].isFree =>
          th'[u].item >= m.itemIndex /\ ~refs[th'[u].item].finished
    BY <1>1, <1>2, <2>2 DEF Queue, Busy
  <2>7. \A i \in m.itemIndex..m.mtItemIndex - 1 :
          Item(i).kind = "file" => refs[i].finished \/ \E u \in Threads : ~th'[u].isFree /\ th'[u].item = i
    BY <1>1, <1>2, <2>2 DEF Queue, Busy, Owned
  <2> QED BY <1>1, <2>3, <2>4, <2>5, <2>6, <2>7 DEF Queue, Busy, Owned, Open, Item
<1>5. \A i \in 1..NumItems : KeptOK(i)'
  BY <1>1, <1>2 DEF KeptOK, Running, PackedSize, LastPass, Item
<1> QED BY <1>1, <1>3, <1>4, <1>5 DEF Busy

LEMMA FileFacts ==
    ASSUME Shapes, ItemsOK, NEW t \in Threads, Busy(t)
    PROVE  /\ th[t].item \in 1..NumItems /\ Item(th[t].item).kind = "file"
           /\ Item(th[t].item).size \in Nat
           /\ LastPass(th[t].item) \in Nat \ {0}
           /\ LastPass(th[t].item) <= Len(Item(th[t].item).passes)
           /\ Len(Item(th[t].item).passes) \in Nat \ {0} /\ NumItems \in Nat
           /\ \A p \in 1..Len(Item(th[t].item).passes) : Item(th[t].item).passes[p] \in Nat
           /\ NumPasses(t) = LastPass(th[t].item)
           /\ \A p \in 1..Len(Item(th[t].item).passes) - 1 :
                 Item(th[t].item).passes[p] >= Item(th[t].item).size
<1>1. th[t].item # 0 /\ th[t].item \in 0..NumItems /\ NumItems \in Nat
  BY Basics DEF ItemsOK, ThreadType
<1>2. th[t].item \in 1..NumItems BY <1>1
<1>3. Item(th[t].item).kind = "file" BY <1>1 DEF ItemsOK
<1>4. /\ Item(th[t].item).size \in Nat
      /\ Item(th[t].item).passes \in Seq(Nat) /\ Item(th[t].item).passes # <<>>
      /\ \A p \in 1..Len(Item(th[t].item).passes) - 1 :
                 Item(th[t].item).passes[p] >= Item(th[t].item).size
  BY <1>2, <1>3, ItemFacts
<1>5. /\ Len(Item(th[t].item).passes) \in Nat \ {0}
      /\ \A p \in 1..Len(Item(th[t].item).passes) : Item(th[t].item).passes[p] \in Nat
  <2> DEFINE passes == Item(th[t].item).passes
  <2>1. passes \in Seq(Nat) /\ passes # <<>> BY <1>4
  <2> HIDE DEF passes
  <2>2. Len(passes) \in Nat \ {0} /\ \A p \in 1..Len(passes) : passes[p] \in Nat BY <2>1
  <2> QED BY <2>2 DEF passes
<1> QED BY <1>1, <1>2, <1>3, <1>4, <1>5 DEF LastPass, NumPasses

LEMMA LiveFacts ==
    ASSUME Inv, NEW t \in Threads, Live(t)
    PROVE  /\ Busy(t) /\ ~Listed(t) /\ ~Called(t) /\ ~Ended(t)
           /\ th[t].item \in 1..NumItems /\ Item(th[t].item).kind = "file"
           /\ Item(th[t].item).size \in Nat
           /\ th[t].pass \in 1..LastPass(th[t].item) /\ LastPass(th[t].item) \in Nat
           /\ th[t].pass \in 1..Len(Item(th[t].item).passes)
           /\ th[t].n \in Nat /\ Size(t) \in Nat /\ th[t].n <= Size(t)
           /\ th[t].item \in Nat /\ th[t].pass \in Nat
           /\ NumPasses(t) = LastPass(th[t].item)
           /\ out[t].pos \in Nat /\ out[t].total \in Nat /\ out[t].data \in Seq(Units)
           /\ out[t].blocks \in Nat /\ out[t].base \in Nat /\ out[t].total <= Room(out[t])
           /\ IF out[t].realMode THEN out[t].total = 0
              ELSE out[t].pos = th[t].n /\ out[t].total = th[t].n
                     /\ out[t].total <= Len(out[t].data) /\ Content(out[t]) = Packed(t)
           /\ th[t].packSize \in Nat
           /\ out[t].unlockSent => out[t].base <= arc.pos
<1>1. Shapes /\ ItemsOK /\ Life(t) /\ StreamOK(t) BY DEF Inv
<1>2. Busy(t) /\ ~Listed(t) BY <1>1 DEF Life
<1>3. ~Called(t) /\ ~Ended(t) BY <1>1, <1>2 DEF Life, Live, Ended
<1>4. /\ th[t].pass \in 1..LastPass(th[t].item) /\ th[t].n <= Size(t)
      /\ out[t].pos \in Nat /\ out[t].total \in Nat /\ out[t].data \in Seq(Units)
      /\ out[t].blocks \in Nat /\ out[t].base \in Nat /\ out[t].total <= Room(out[t])
      /\ IF out[t].realMode THEN out[t].total = 0
         ELSE out[t].pos = th[t].n /\ out[t].total = th[t].n
                /\ out[t].total <= Len(out[t].data) /\ Content(out[t]) = Packed(t)
      /\ th[t].packSize \in Nat
      /\ out[t].unlockSent => out[t].base <= arc.pos
  BY <1>1, <1>2 DEF StreamOK
<1>5. /\ th[t].item \in 1..NumItems /\ Item(th[t].item).kind = "file"
      /\ Item(th[t].item).size \in Nat /\ NumItems \in Nat
      /\ LastPass(th[t].item) \in Nat \ {0}
      /\ LastPass(th[t].item) <= Len(Item(th[t].item).passes)
      /\ Len(Item(th[t].item).passes) \in Nat \ {0}
      /\ \A p \in 1..Len(Item(th[t].item).passes) : Item(th[t].item).passes[p] \in Nat
      /\ NumPasses(t) = LastPass(th[t].item)
  BY <1>1, <1>2, FileFacts
<1>6. th[t].n \in Nat BY <1>1, Basics DEF ThreadType
<1>7. th[t].pass \in 1..Len(Item(th[t].item).passes) BY <1>4, <1>5
<1>8. Size(t) \in Nat BY <1>5, <1>7 DEF Size
<1> QED BY <1>2, <1>3, <1>4, <1>5, <1>6, <1>7, <1>8

LEMMA CodingFacts ==
    ASSUME NEW t \in Threads, Coding(t)
    PROVE  Live(t) /\ th[t].n < Size(t) /\ th[t].pc = "code"
BY DEF Coding, Live

LEMMA RealIsFront ==
    ASSUME Inv, NEW t \in Threads, Busy(t), out[t].realMode \/ out[t].realEvent
    PROVE  /\ out[t].unlockSent
           /\ \A u \in Threads : Busy(u) /\ out[u].unlockSent => u = t
           /\ Running => Open /\ Fronts(t)
  BY DEF Inv, RealOK, Fronts

(* Which steps of a thread touch the archive.                              *)
LEMMA OnlyFile ==
    ASSUME NEW t \in Threads, Inv, Only(t), Move(t)
    PROVE  \/ arc'.data = arc.data /\ arc'.pos = arc.pos /\ (arc.failed => arc'.failed)
           \/ GoesReal(t) \/ WritesReal(t) \/ RepeatsReal(t)
<1>1. CASE Wakes(t) \/ WritesMem(t) \/ IsStopped(t) \/ IsPromised(t) \/ NoBlock(t) \/ GetsBlock(t)
           \/ RepeatsMem(t) \/ Ends(t) \/ Pushes(t) \/ Posts(t) \/ Fails(t)
  BY <1>1 DEF Wakes, WritesMem, IsStopped, IsPromised, NoBlock, GetsBlock, RepeatsMem, Ends,
     Pushes, Posts, Fails
<1>2. CASE RealFails(t) \/ WriteRealFails(t) BY <1>2 DEF RealFails, WriteRealFails, WriteFailed
<1> QED BY <1>1, <1>2 DEF Move

LEMMA OnlyRealMode ==
    ASSUME NEW t \in Threads, Inv, Only(t), Move(t)
    PROVE  RealOK'
<1>1. /\ \A u \in Threads : th'[u].item = th[u].item /\ Busy(u)' = Busy(u)
                            /\ out'[u].unlockSent = out[u].unlockSent
      /\ m' = m /\ RealOK /\ \A u \in Threads \ {t} : out'[u] = out[u]
  BY OnlyOwners DEF Only, Inv
<1>2. (out'[t].realMode => out[t].realMode \/ out[t].realEvent)
      /\ (out'[t].realEvent => out[t].realEvent)
  <2>1. CASE Wakes(t) \/ WritesMem(t) \/ IsStopped(t) \/ IsPromised(t) \/ NoBlock(t) \/ GetsBlock(t)
             \/ RepeatsMem(t) \/ RepeatsReal(t) \/ Ends(t)
    BY <2>1 DEF Wakes, WritesMem, IsStopped, IsPromised, NoBlock, GetsBlock, RepeatsMem, Ends,
       RepeatsReal, SameFlags, Flags
  <2>2. CASE GoesReal(t) \/ RealFails(t) \/ WritesReal(t) \/ WriteRealFails(t)
    BY <2>2 DEF GoesReal, RealFails, WritesReal, WriteRealFails, Flags
  <2>3. CASE Pushes(t) \/ Posts(t) \/ Fails(t) BY <2>3 DEF Pushes, Posts, Fails
  <2> QED BY <2>1, <2>2, <2>3 DEF Move
<1>3. \A u \in Threads : Busy(u) /\ ~out[u].unlockSent => ~out'[u].realMode /\ ~out'[u].realEvent
  BY <1>1, <1>2 DEF RealOK
<1>4. Running' = Running /\ Open' = Open BY <1>1 DEF Running, Open
<1> QED BY <1>1, <1>3, <1>4 DEF RealOK

LEMMA AppendTypes ==
    ASSUME ArcType, NEW units \in Seq(Units), Appends(units)
    PROVE  /\ arc'.data \in Seq(Units) /\ arc'.pos \in 0..Len(arc'.data)
           /\ arc'.pos = arc.pos + Len(units) /\ arc'.pos >= arc.pos /\ arc.pos \in Nat
           /\ arc.pos = Len(arc.data) =>
                 arc'.data = arc.data \o units /\ arc'.pos = Len(arc'.data)
<1>1. /\ arc.data \in Seq(Units) /\ arc.pos \in 0..Len(arc.data)
      /\ Len(arc.data) \in Nat /\ Len(units) \in Nat
      /\ arc'.data = Put(arc.data, arc.pos, units) /\ arc'.pos = arc.pos + Len(units)
  BY DEF ArcType, Appends, Archive
<1>2. /\ arc'.data \in Seq(Units)
      /\ Len(arc'.data) = IF arc.pos + Len(units) <= Len(arc.data) THEN Len(arc.data)
                          ELSE arc.pos + Len(units)
  BY <1>1, PutIs
<1>3. ASSUME arc.pos = Len(arc.data)
      PROVE  arc'.data = arc.data \o units /\ arc'.pos = Len(arc'.data)
  <2>1. arc'.data = arc.data \o units BY <1>1, <1>3, PutAtEnd
  <2>2. Len(arc'.data) = Len(arc.data) + Len(units) BY <1>1, <2>1
  <2> QED BY <1>1, <1>3, <2>1, <2>2
<1> QED BY <1>1, <1>2, <1>3

(* What goes to the archive when the stream does.                          *)
LEMMA PackedFacts ==
    ASSUME Inv, NEW t \in Threads, Live(t)
    PROVE  /\ Packed(t) \in Seq(Units) /\ Len(Packed(t)) = th[t].n
           /\ Unit(t) \in Units /\ <<Unit(t)>> \in Seq(Units) /\ Len(<<Unit(t)>>) = 1
           /\ Packed(t) \o <<Unit(t)>> \in Seq(Units)
           /\ Len(Packed(t) \o <<Unit(t)>>) = th[t].n + 1
           /\ Packed(t) \o <<Unit(t)>> = PassUnits(th[t].item, th[t].pass, th[t].n + 1)
<1>1. th[t].n \in Nat /\ th[t].item \in Nat /\ th[t].pass \in Nat /\ th[t].n + 1 \in Nat
  BY LiveFacts
<1>2. /\ Packed(t) \in Seq(Units) /\ Len(Packed(t)) = th[t].n
      /\ PassUnits(th[t].item, th[t].pass, th[t].n + 1) = Packed(t) \o <<Unit(t)>>
  BY <1>1, PassUnitsIs, ZenonT(60) DEF Packed, Unit
<1>3. Unit(t) \in Units BY <1>1, UnitFacts DEF Unit
<1>4. <<Unit(t)>> \in Seq(Units) /\ Len(<<Unit(t)>>) = 1 BY <1>3
<1>5. /\ Packed(t) \o <<Unit(t)>> \in Seq(Units)
      /\ Len(Packed(t) \o <<Unit(t)>>) = Len(Packed(t)) + Len(<<Unit(t)>>)
  BY <1>2, <1>4, ConcatProperties
<1> QED BY <1>2, <1>3, <1>4, <1>5

LEMMA RealUnits ==
    ASSUME Inv, NEW t \in Threads, NEW units, Appends(units),
           \/ GoesReal(t) /\ units = Content(out[t]) \o <<Unit(t)>>
           \/ WritesReal(t) /\ units = <<Unit(t)>>
    PROVE  units \in Seq(Units)
<1>1. Live(t) BY CodingFacts DEF GoesReal, WritesReal
<1>2. CASE GoesReal(t) /\ units = Content(out[t]) \o <<Unit(t)>>
  BY <1>1, <1>2, LiveFacts, PackedFacts DEF GoesReal
<1>3. CASE WritesReal(t) /\ units = <<Unit(t)>> BY <1>1, <1>3, PackedFacts
<1> QED BY <1>2, <1>3

LEMMA OnlyArcType ==
    ASSUME NEW t \in Threads, Inv, Only(t), Move(t)
    PROVE  ArcType' /\ (arc'.pos >= arc.pos \/ RepeatsReal(t))
<1>1. /\ ArcType /\ SamePositions
      /\ arc.pos \in Nat
  BY DEF Inv, Only, ArcType
<1>2. CASE arc'.data = arc.data /\ arc'.pos = arc.pos BY <1>1, <1>2 DEF ArcType
<1>3. ASSUME NEW units, units \in Seq(Units), Appends(units) PROVE ArcType' /\ arc'.pos >= arc.pos
  BY <1>1, <1>3, AppendTypes DEF ArcType
<1>4. CASE GoesReal(t)
  <2> DEFINE units == Content(out[t]) \o <<Unit(t)>>
  <2>1. Appends(units) BY <1>4 DEF GoesReal
  <2>2. units \in Seq(Units) BY <1>4, <2>1, RealUnits
  <2> HIDE DEF units
  <2> QED BY <1>3, <2>1, <2>2
<1>5. CASE WritesReal(t) BY <1>5, RealUnits, <1>3 DEF WritesReal
<1>6. CASE RepeatsReal(t)
  BY <1>6, LiveFacts, RealIsFront, <1>1, PrefixIs DEF RepeatsReal, AtEnd, Live, Archive, ArcType
<1> QED BY <1>2, <1>4, <1>5, <1>6, OnlyFile

LEMMA OtherStream ==
    ASSUME NEW t \in Threads, Inv, Only(t), Move(t), NEW u \in Threads, u # t
    PROVE  StreamOK(u)'
<1>1. /\ StreamOK(u) /\ th'[u] = th[u] /\ out'[u] = out[u] /\ m' = m /\ RealOK BY DEF Inv, Only
<1>2. Listed(u)' <=> Listed(u) BY PlacesOfMove, ListAfter DEF Inv
<1>3. /\ Called(u)' <=> Called(u)
      /\ Live(u)' <=> Live(u)
      /\ Packs(u)' <=> Packs(u)
      /\ Busy(u)' <=> Busy(u)
      /\ Size(u)' = Size(u) /\ Packed(u)' = Packed(u)
      /\ LastPass(th[u].item)' = LastPass(th[u].item)
  BY <1>1, <1>2 DEF Called, Live, Packs, Busy, Ended, Size, Packed, LastPass, Running, Item
<1>4. ASSUME Busy(u), out[u].unlockSent PROVE out[u].base <= arc'.pos
  <2>1. out[u].base <= arc.pos /\ out[u].base \in Nat BY <1>1, <1>4 DEF StreamOK
  <2>2. CASE arc'.pos >= arc.pos BY OnlyArcType, <2>1, <2>2 DEF Inv, ArcType
  <2>3. CASE RepeatsReal(t) BY <2>3, LiveFacts, <1>4, RealIsFront DEF RepeatsReal, AtEnd, Live
  <2> QED BY <2>2, <2>3, OnlyArcType
<1> HIDE DEF Listed
<1> QED BY <1>1, <1>3, <1>4 DEF StreamOK

LEMMA OwnBase ==
    ASSUME NEW t \in Threads, Inv, Only(t), Move(t)
    PROVE  /\ out'[t].base \in Nat
           /\ Busy(t)' /\ out'[t].unlockSent => out'[t].base <= arc'.pos
  BY OnlyArcType DEF Inv, Only, StreamOK, ArcType, Busy, RepeatsReal, Archive

LEMMA PassSizeIs ==
    ASSUME NEW t \in Threads, Inv, AtEnd(t)
    PROVE  PassSize(t) \in Nat /\ (~out[t].realMode => PassSize(t) = th[t].n)
  BY LiveFacts, RealIsFront DEF AtEnd, Live, Inv, ArcType, PassSize

(* Nothing is in a stream that has nothing.                                *)
LEMMA EmptyContent ==
    ASSUME NEW i \in Nat, NEW p \in Nat, NEW o, o.total = 0, o.data \in Seq(Units)
    PROVE  Content(o) = PassUnits(i, p, 0) /\ Content(o) = <<>> /\ o.total <= Len(o.data)
<1>1. Content(o) = <<>> BY SubSeqEmpty DEF Content
<1>2. PassUnits(i, p, 0) = <<>> BY PassUnitsIs
<1> QED BY <1>1, <1>2

(* A thread that has stopped with a failure.                               *)
LEMMA StoppedStream ==
    ASSUME NEW t \in Threads, Inv, Only(t), Move(t), Live(t),
           th'[t].pc = "push", th'[t].res # "ok", th'[t].compressEvent = th[t].compressEvent,
           th'[t].packSize \in Nat,
           out'[t].pos = out[t].pos, out'[t].blocks = out[t].blocks,
           out'[t].data = out[t].data, out'[t].total = out[t].total
    PROVE  StreamOK(t)'
  BY LiveFacts, OwnBase DEF Only, Called, Live, Packs, Room, StreamOK

LEMMA WokenStream ==
    ASSUME NEW t \in Threads, Inv, Only(t), Move(t), Wakes(t)
    PROVE  StreamOK(t)'
<1>1. /\ StreamOK(t) /\ Life(t) /\ Shapes /\ ItemsOK /\ ThreadType(th[t])
      /\ out' = out /\ arc' = arc /\ m' = m /\ mtSem' = mtSem
      /\ th[t].pc = "wait" /\ th[t].compressEvent /\ ~th'[t].compressEvent
      /\ th'[t].pc = (IF th[t].exitThread THEN "exit" ELSE "code")
      /\ th'[t].pass = 1 /\ th'[t].n = 0 /\ th'[t].packSize = th[t].packSize
      /\ th'[t].item = th[t].item /\ th'[t].exitThread = th[t].exitThread
      /\ th'[t].isFree = th[t].isFree /\ th'[t].res = th[t].res
  BY Basics DEF Inv, Wakes, Only
<1>2. ~Called(t)' BY <1>1 DEF Called
<1>3. CASE th[t].exitThread
  BY <1>1, <1>3, <1>2 DEF Live, Life, Running, Closing, Packs, StreamOK, Room, Busy
<1>4. CASE ~th[t].exitThread
  <2>1. Called(t) /\ Busy(t) /\ ~Listed(t) BY <1>1, <1>4 DEF Called, Life
  <2>2. out[t].pos = 0 /\ out[t].total = 0 /\ ~out[t].realMode /\ out[t].data \in Seq(Units)
    BY <1>1, <2>1 DEF StreamOK
  <2>3. ~Packs(t)' BY <1>1, <1>4, <2>1 DEF Packs, Ended, Listed
  <2>4. /\ LastPass(th[t].item) \in Nat \ {0} /\ th[t].item \in Nat
        /\ LastPass(th[t].item) <= Len(Item(th[t].item).passes)
        /\ Len(Item(th[t].item).passes) \in Nat \ {0}
        /\ \A p \in 1..Len(Item(th[t].item).passes) : Item(th[t].item).passes[p] \in Nat
    BY <1>1, <2>1, FileFacts
  <2>5. th'[t].pass \in 1..LastPass(th[t].item) /\ th'[t].n <= Size(t)'
    BY <1>1, <2>4 DEF Size, Item
  <2>6. Content(out[t]) = PassUnits(th[t].item, 1, 0) /\ out[t].total <= Len(out[t].data)
    BY <2>2, <2>4, EmptyContent
  <2>7. Packed(t)' = PassUnits(th[t].item, 1, 0) /\ LastPass(th[t].item)' = LastPass(th[t].item)
    BY <1>1 DEF Packed, LastPass, Item
  <2> QED BY <1>1, <1>2, <2>2, <2>3, <2>5, <2>6, <2>7 DEF StreamOK, Room, Busy, Content
<1> QED BY <1>3, <1>4

(* A unit that is put behind n others.                                     *)
LEMMA PutContinues ==
    ASSUME NEW U, NEW data \in Seq(U), NEW n \in 0..Len(data), NEW unit \in U
    PROVE  /\ Put(data, n, <<unit>>) \in Seq(U) /\ Len(Put(data, n, <<unit>>)) \in Nat
           /\ n + 1 <= Len(Put(data, n, <<unit>>))
           /\ SubSeq(Put(data, n, <<unit>>), 1, n + 1) = SubSeq(data, 1, n) \o <<unit>>
<1> DEFINE y == <<unit>>
           p == Put(data, n, y)
           s == SubSeq(data, 1, n)
           z == n + 1
<1>0. y \in Seq(U) /\ Len(y) = 1 /\ y[1] = unit /\ n \in Nat /\ Len(data) \in Nat /\ z = n + 1
  OBVIOUS
<1> HIDE DEF y, z
<1>1. /\ p \in Seq(U)
      /\ Len(p) = IF n + Len(y) <= Len(data) THEN Len(data) ELSE n + Len(y)
      /\ \A k \in 1..Len(p) :
            p[k] = IF k <= n \/ k > n + Len(y) THEN data[k] ELSE y[k - n]
  BY <1>0, PutIs
<1> HIDE DEF p
<1>2. z \in 0..Len(p) /\ Len(p) \in Nat /\ z <= Len(p) BY <1>0, <1>1
<1>3. s \in Seq(U) /\ Len(s) = n /\ \A k \in 1..n : s[k] = data[k] BY PrefixIs
<1> HIDE DEF s
<1> DEFINE q == SubSeq(p, 1, z)
           r == s \o y
<1>4. q \in Seq(U) /\ Len(q) = z /\ \A k \in 1..z : q[k] = p[k] BY <1>1, <1>2, PrefixIs
<1>5. /\ r \in Seq(U) /\ Len(r) = Len(s) + Len(y)
      /\ \A k \in 1..Len(s) + Len(y) : r[k] = IF k <= Len(s) THEN s[k] ELSE y[k - Len(s)]
  BY <1>0, <1>3, ConcatProperties
<1> HIDE DEF q, r
<1>6. ASSUME NEW k \in 1..z PROVE q[k] = r[k]
  <2>0. k \in 1..Len(p) /\ k \in 1..Len(s) + Len(y) BY <1>0, <1>2, <1>3
  <2>1. CASE k <= n BY <1>0, <2>1, <1>1, <1>3, <1>4, <1>5, <2>0
  <2>2. CASE k = n + 1 BY <1>0, <2>2, <1>1, <2>0, <1>3, <1>5, <1>4
  <2> QED BY <1>0, <2>1, <2>2
<1>7. q = r BY <1>0, <1>3, <1>4, <1>5, <1>6, SeqEqual
<1> QED BY <1>0, <1>1, <1>2, <1>7 DEF p, q, r, s, y, z

LEMMA FilledStream ==
    ASSUME NEW t \in Threads, Inv, Only(t), Move(t), WritesMem(t)
    PROVE  StreamOK(t)'
<1> DEFINE o == out[t]
           data == Put(o.data, o.pos, <<Unit(t)>>)
<1>0. Live(t) /\ th[t].n < Size(t) /\ ~o.realMode BY CodingFacts DEF WritesMem
<1>1. /\ m' = m /\ th'[t].item = th[t].item /\ th'[t].exitThread = th[t].exitThread
      /\ th'[t].pc = "code" /\ th'[t].pass = th[t].pass /\ th'[t].n = th[t].n + 1
      /\ th'[t].res = th[t].res /\ th'[t].packSize = th[t].packSize
      /\ th'[t].compressEvent = th[t].compressEvent
      /\ out'[t].pos = o.pos + 1 /\ out'[t].blocks = o.blocks
      /\ out'[t].data = data /\ out'[t].total = Max({o.total, o.pos + 1})
      /\ out'[t].realMode = o.realMode /\ o.pos < Room(o) /\ mtSem' = mtSem
  BY DEF WritesMem, Only, OneMore, Turn, Stream, SameFlags, Flags
<1>2. /\ ~Called(t) /\ ~Ended(t) /\ th[t].pass \in 1..LastPass(th[t].item)
      /\ th[t].n \in Nat /\ Size(t) \in Nat /\ th[t].item \in Nat /\ th[t].pass \in Nat
      /\ o.pos \in Nat /\ o.data \in Seq(Units) /\ o.blocks \in Nat
      /\ o.pos = th[t].n /\ o.total = th[t].n
      /\ o.total <= Len(o.data) /\ Content(o) = Packed(t) /\ th[t].packSize \in Nat
  BY <1>0, LiveFacts
<1>3. Unit(t) \in Units /\ <<Unit(t)>> \in Seq(Units) /\ Len(<<Unit(t)>>) = 1
  BY <1>0, PackedFacts
<1>4. out'[t].total = th[t].n + 1 BY <1>1, <1>2, MaxTwo
<1>5. /\ data \in Seq(Units) /\ Len(data) \in Nat /\ th[t].n + 1 <= Len(data)
      /\ SubSeq(data, 1, th[t].n + 1) = PassUnits(th[t].item, th[t].pass, th[t].n + 1)
  <2>1. o.pos \in 0..Len(o.data) /\ o.data \in Seq(Units) BY <1>2
  <2>2. /\ data \in Seq(Units) /\ Len(data) \in Nat /\ o.pos + 1 <= Len(data)
        /\ SubSeq(data, 1, o.pos + 1) = SubSeq(o.data, 1, o.pos) \o <<Unit(t)>>
    <3> HIDE DEF o
    <3> QED BY <1>3, <2>1, PutContinues
  <2>3. Packed(t) \o <<Unit(t)>> = PassUnits(th[t].item, th[t].pass, th[t].n + 1)
    BY <1>0, PackedFacts
  <2> HIDE DEF data
  <2> QED BY <1>2, <2>2, <2>3 DEF Content
<1>6. th[t].n + 1 <= Room(out[t])' /\ th[t].n + 1 <= Size(t)'
  <2>1. Room(out[t])' = Room(o) /\ Room(o) \in Nat BY <1>1, <1>2, ManyThreads, SMTT(30) DEF Room
  <2>2. Size(t)' = Size(t) BY <1>1 DEF Size, Item
  <2> QED BY <1>0, <1>1, <1>2, <2>1, <2>2
<1>7. ~Called(t)' /\ ~Packs(t)' /\ LastPass(th[t].item)' = LastPass(th[t].item)
  BY <1>1, <1>2 DEF Called, Packs, Ended, Listed, LastPass, Item
<1>8. Content(out[t])' = Packed(t)' BY <1>1, <1>4, <1>5 DEF Content, Packed
<1>9. /\ out'[t].base \in Nat
      /\ Busy(t)' /\ out'[t].unlockSent => out'[t].base <= arc'.pos
  BY OwnBase
<1> HIDE DEF o, data
<1> QED BY <1>0, <1>1, <1>2, <1>4, <1>5, <1>6, <1>7, <1>8, <1>9 DEF StreamOK

(* A thread that goes on coding, with its place in its stream.             *)
LEMMA GoingOn ==
    ASSUME NEW t \in Threads, Inv, Only(t), Move(t), Live(t), Live(t)',
           th'[t].compressEvent = th[t].compressEvent, mtSem' = mtSem,
           th'[t].pass \in 1..LastPass(th[t].item), th'[t].n \in Nat,
           th'[t].n <= Size(t)', th'[t].packSize \in Nat,
           out'[t].pos \in Nat, out'[t].total \in Nat, out'[t].blocks \in Nat,
           out'[t].data \in Seq(Units), out'[t].total <= Room(out'[t]),
           IF out'[t].realMode THEN out'[t].total = 0
           ELSE out'[t].pos = th'[t].n /\ out'[t].total = th'[t].n
                  /\ out'[t].total <= Len(out'[t].data)
                  /\ Content(out'[t]) = PassUnits(th[t].item, th'[t].pass, th'[t].n)
    PROVE  StreamOK(t)'
  BY LiveFacts, OwnBase DEF Only, Called, Packs, Ended, Listed, Live, Packed, LastPass, Item,
    Room, Content, StreamOK

LEMMA SizeStays ==
    ASSUME NEW t \in Threads, Only(t), th'[t].pass = th[t].pass
    PROVE  Size(t)' = Size(t)
BY DEF Only, Size, Item

LEMMA BlockStream ==
    ASSUME NEW t \in Threads, Inv, Only(t), Move(t), IsPromised(t) \/ GetsBlock(t)
    PROVE  StreamOK(t)'
<1>1. Live(t) BY DEF IsPromised, GetsBlock, Live, Coding
<1>2. /\ Live(t)' /\ th'[t].compressEvent = th[t].compressEvent /\ mtSem' = mtSem
      /\ th'[t].pass = th[t].pass /\ th'[t].n = th[t].n /\ th'[t].packSize = th[t].packSize
      /\ out'[t].pos = out[t].pos /\ out'[t].data = out[t].data /\ out'[t].total = out[t].total
      /\ out'[t].realMode = out[t].realMode
      /\ out'[t].blocks \in {out[t].blocks, out[t].blocks + 1}
  BY DEF IsPromised, GetsBlock, TurnTo, Turn, Stream, SameFlags, Flags, Live
<1>3. /\ th[t].pass \in 1..LastPass(th[t].item)
      /\ th[t].n \in Nat /\ Size(t) \in Nat /\ th[t].n <= Size(t)
      /\ out[t].pos \in Nat /\ out[t].total \in Nat /\ out[t].data \in Seq(Units)
      /\ out[t].blocks \in Nat /\ out[t].total <= Room(out[t])
      /\ IF out[t].realMode THEN out[t].total = 0
         ELSE out[t].pos = th[t].n /\ out[t].total = th[t].n
                /\ out[t].total <= Len(out[t].data) /\ Content(out[t]) = Packed(t)
      /\ th[t].packSize \in Nat
  BY <1>1, LiveFacts
<1>4. Size(t)' = Size(t) /\ Content(out'[t]) = Content(out[t]) BY <1>2, SizeStays DEF Content
<1>5. out'[t].blocks \in Nat /\ out'[t].total <= Room(out'[t])
  <2>1. BlockSize \in Nat \ {0} BY ManyThreads
  <2>2. CASE out'[t].blocks = out[t].blocks BY <1>2, <1>3, <2>2 DEF Room
  <2>3. CASE out'[t].blocks = out[t].blocks + 1
    <3>1. (out[t].blocks + 1) * BlockSize = out[t].blocks * BlockSize + BlockSize BY <1>3, <2>1
    <3>2. out[t].blocks * BlockSize \in Nat BY <1>3, <2>1
    <3> QED BY <1>2, <1>3, <2>1, <2>3, <3>1, <3>2, SMTT(30) DEF Room
  <2> QED BY <1>2, <2>2, <2>3
<1> QED BY <1>1, <1>2, <1>3, <1>4, <1>5, GoingOn DEF Packed

LEMMA RealStream ==
    ASSUME NEW t \in Threads, Inv, Only(t), Move(t), GoesReal(t) \/ WritesReal(t)
    PROVE  StreamOK(t)'
<1>1. Live(t) /\ th[t].n < Size(t) BY CodingFacts DEF GoesReal, WritesReal
<1>2. /\ Live(t)' /\ th'[t].compressEvent = th[t].compressEvent /\ mtSem' = mtSem
      /\ th'[t].pass = th[t].pass /\ th'[t].n = th[t].n + 1 /\ th'[t].packSize = th[t].packSize
      /\ out'[t].pos = out[t].pos /\ out'[t].realMode
      /\ out'[t].total \in {out[t].total, 0}
      /\ out'[t].data \in {out[t].data, <<>>} /\ out'[t].blocks \in {out[t].blocks, 0}
      /\ out'[t] = out[t] \/ out'[t].total = 0
  BY DEF GoesReal, WritesReal, OneMore, Turn, Stream, Flags, Live
<1>3. /\ th[t].pass \in 1..LastPass(th[t].item)
      /\ th[t].n \in Nat /\ Size(t) \in Nat /\ th[t].n <= Size(t)
      /\ out[t].pos \in Nat /\ out[t].total \in Nat /\ out[t].data \in Seq(Units)
      /\ out[t].blocks \in Nat /\ out[t].total <= Room(out[t])
      /\ out[t].realMode => out[t].total = 0
      /\ th[t].packSize \in Nat
  BY <1>1, LiveFacts
<1>4. Size(t)' = Size(t) BY <1>2, SizeStays
<1>5. out'[t].total = 0 BY <1>2, <1>3
<1>6. out'[t].blocks \in Nat /\ out'[t].data \in Seq(Units)
  <2>1. <<>> \in Seq(Units) OBVIOUS
  <2>2. out'[t].data \in Seq(Units) BY <1>2, <1>3, <2>1, Zenon
  <2>3. out'[t].blocks \in Nat BY <1>2, <1>3
  <2> QED BY <2>2, <2>3
<1>7. Room(out'[t]) \in Nat BY <1>6, ManyThreads DEF Room
<1>8. th'[t].n \in Nat /\ th'[t].n <= Size(t)' /\ out'[t].total <= Room(out'[t])
  BY <1>1, <1>2, <1>3, <1>4, <1>5, <1>7
<1> QED BY <1>1, <1>2, <1>3, <1>5, <1>6, <1>8, GoingOn, SMTT(30)

LEMMA RepeatedStream ==
    ASSUME NEW t \in Threads, Inv, Only(t), Move(t), RepeatsReal(t) \/ RepeatsMem(t)
    PROVE  StreamOK(t)'
<1>1. Live(t) /\ AtEnd(t) /\ th[t].pass < NumPasses(t)
  BY DEF RepeatsReal, RepeatsMem, AtEnd, Live
<1>2. /\ Live(t)' /\ th'[t].compressEvent = th[t].compressEvent /\ mtSem' = mtSem
      /\ th'[t].pass = th[t].pass + 1 /\ th'[t].n = 0 /\ th'[t].packSize = PassSize(t)
      /\ out'[t].pos \in {out[t].pos, 0} /\ out'[t].realMode = out[t].realMode
      /\ out'[t].total \in {out[t].total, 0}
      /\ out'[t].data = out[t].data /\ out'[t].blocks = out[t].blocks
      /\ out[t].realMode \/ (out'[t].pos = 0 /\ out'[t].total = 0)
  BY DEF RepeatsReal, RepeatsMem, Turn, Stream, SameFlags, Flags, Live
<1>3. /\ th[t].pass \in 1..LastPass(th[t].item) /\ LastPass(th[t].item) \in Nat
      /\ th[t].item \in Nat /\ NumPasses(t) = LastPass(th[t].item)
      /\ out[t].pos \in Nat /\ out[t].total \in Nat /\ out[t].data \in Seq(Units)
      /\ out[t].blocks \in Nat /\ out[t].total <= Room(out[t])
      /\ out[t].realMode => out[t].total = 0
  BY <1>1, LiveFacts
<1>4. th'[t].pass \in 1..LastPass(th[t].item) /\ th'[t].pass \in Nat BY <1>1, <1>2, <1>3
<1>5. out'[t].total = 0 BY <1>2, <1>3
<1>6. th'[t].n <= Size(t)'
  <2>1. /\ LastPass(th[t].item) <= Len(Item(th[t].item).passes)
        /\ Len(Item(th[t].item).passes) \in Nat
        /\ \A p \in 1..Len(Item(th[t].item).passes) : Item(th[t].item).passes[p] \in Nat
    BY <1>1, LiveFacts, FileFacts DEF Inv
  <2>2. Item(th[t].item).passes[th'[t].pass] \in Nat BY <1>3, <1>4, <2>1
  <2>3. Size(t)' = Item(th[t].item).passes[th'[t].pass] BY DEF Only, Size, Item
  <2> QED BY <1>2, <2>2, <2>3
<1>7. Room(out'[t]) \in Nat BY <1>2, <1>3, ManyThreads DEF Room
<1>8. /\ Content(out'[t]) = PassUnits(th[t].item, th'[t].pass, 0)
      /\ out'[t].total <= Len(out'[t].data)
  BY <1>2, <1>3, <1>4, <1>5, EmptyContent
<1>9. th'[t].packSize \in Nat BY <1>1, <1>2, PassSizeIs
<1> QED BY <1>1, <1>2, <1>3, <1>4, <1>5, <1>6, <1>7, <1>8, <1>9, GoingOn, SMTT(30)

LEMMA EndedStream ==
    ASSUME NEW t \in Threads, Inv, Only(t), Move(t), Ends(t)
    PROVE  StreamOK(t)'
<1>1. Live(t) /\ AtEnd(t) /\ ~(th[t].pass < NumPasses(t)) /\ th[t].n = Size(t)
  BY DEF Ends, AtEnd, Live
<1>2. /\ th'[t].pc = "push" /\ th'[t].compressEvent = th[t].compressEvent
      /\ mtSem' = mtSem /\ out' = out /\ arc' = arc /\ m' = m
      /\ th'[t].pass = th[t].pass /\ th'[t].n = th[t].n /\ th'[t].packSize = PassSize(t)
      /\ th'[t].item = th[t].item /\ th'[t].exitThread = th[t].exitThread
      /\ th'[t].isFree = th[t].isFree
  BY DEF Ends, Turn, Only
<1>3. /\ th[t].pass \in 1..LastPass(th[t].item) /\ LastPass(th[t].item) \in Nat
      /\ NumPasses(t) = LastPass(th[t].item)
  BY <1>1, LiveFacts
<1>4. th[t].pass = LastPass(th[t].item) BY <1>1, <1>3
<1>5. PassSize(t) \in Nat /\ (~out[t].realMode => PassSize(t) = th[t].n) BY <1>1, PassSizeIs
<1>6. /\ ~Called(t)' /\ ~Live(t)' /\ Packed(t)' = Packed(t)
      /\ LastPass(th[t].item)' = LastPass(th[t].item) /\ Size(t)' = Size(t)
      /\ Content(out[t])' = Content(out[t]) /\ Room(out[t])' = Room(out[t])
  <2>1. ~Called(t) BY <1>1, LiveFacts
  <2> QED BY <1>2, <2>1 DEF Called, Live, Packed, LastPass, Item, Size, Content, Room
<1>7. StreamOK(t) BY DEF Inv
<1>8. (Busy(t)' <=> Busy(t)) BY <1>2 DEF Busy
<1> QED BY <1>1, <1>2, <1>4, <1>5, <1>6, <1>7, <1>8 DEF StreamOK

LEMMA PostedStream ==
    ASSUME NEW t \in Threads, Inv, Only(t), Move(t), Pushes(t) \/ Posts(t)
    PROVE  StreamOK(t)'
<1>1. /\ th[t].pc \in {"push", "post"} /\ th'[t].pc \in {"post", "wait"}
      /\ th'[t].compressEvent = th[t].compressEvent
      /\ out' = out /\ arc' = arc /\ m' = m
      /\ th'[t].pass = th[t].pass /\ th'[t].n = th[t].n /\ th'[t].packSize = th[t].packSize
      /\ th'[t].item = th[t].item /\ th'[t].exitThread = th[t].exitThread
      /\ th'[t].isFree = th[t].isFree /\ th'[t].res = th[t].res
  BY DEF Pushes, Posts, TurnTo, Turn, Only
<1>2. (Listed(t)' => Listed(t) \/ th[t].pc = "push") BY PlacesOfMove, ListAfter DEF Inv
<1>3. /\ ~Live(t)'
      /\ Called(t)' <=> Called(t)
      /\ Packs(t)' => Packs(t)
      /\ Packed(t)' = Packed(t)
      /\ LastPass(th[t].item)' = LastPass(th[t].item) /\ Size(t)' = Size(t)
      /\ Content(out[t])' = Content(out[t]) /\ Room(out[t])' = Room(out[t])
      /\ Busy(t)' <=> Busy(t)
  BY <1>1, <1>2 DEF Called, Live, Packed, LastPass, Item, Size, Content, Room, Packs, Ended,
     Running, Busy
<1>4. StreamOK(t) BY DEF Inv
<1> HIDE DEF Listed
<1> QED BY <1>1, <1>3, <1>4 DEF StreamOK

LEMMA OnlyStreams ==
    ASSUME NEW t \in Threads, Inv, Only(t), Move(t)
    PROVE  \A u \in Threads : StreamOK(u)'
<1>1. CASE IsStopped(t) \/ RealFails(t) \/ NoBlock(t) \/ WriteRealFails(t) \/ Fails(t)
  <2>1. Live(t) BY <1>1 DEF IsStopped, RealFails, NoBlock, WriteRealFails, Fails, Coding, Live
  <2>2. /\ th'[t].pc = "push" /\ th'[t].res # "ok" /\ th'[t].compressEvent = th[t].compressEvent
        /\ th'[t].packSize = th[t].packSize
    BY <1>1 DEF IsStopped, RealFails, NoBlock, WriteRealFails, Fails, Stops, Turn
  <2>3. /\ out'[t].pos = out[t].pos /\ out'[t].blocks = out[t].blocks
        /\ out'[t].data = out[t].data /\ out'[t].total = out[t].total
    BY <1>1 DEF IsStopped, RealFails, NoBlock, WriteRealFails, Fails, Stream
  <2>4. th'[t].packSize \in Nat BY <2>1, <2>2, LiveFacts
  <2> QED BY <2>1, <2>2, <2>3, <2>4, StoppedStream, OtherStream
<1> QED
  BY <1>1, OtherStream, WokenStream, FilledStream, BlockStream, RealStream, RepeatedStream,
     EndedStream, PostedStream DEF Move

Before == EntriesOf(m.updates, m.outSeqMode, m.itemIndex - 1)

FrontPlace(f) ==
    /\ arc.curPos = arc.headerPos + 1 /\ out[f].base = arc.curPos
    /\ arc.pos = Len(arc.data)
    /\ Len(arc.data) = arc.curPos + (IF out[f].realMode THEN th[f].n ELSE 0)
    /\ out[f].realMode /\ Ended(f) /\ th[f].res = "ok" => th[f].packSize = th[f].n
FrontData(f) ==
    /\ Len(Before) = arc.headerPos
    /\ Alike(m.outSeqMode, arc.data,
             Before \o <<Header(m.itemIndex, "preliminary")>>
                \o (IF out[f].realMode THEN Packed(f) ELSE <<>>))

LEMMA FrontOK ==
    ASSUME ArcOK, ArcData, Good
    PROVE  /\ Open => \A f \in Threads : Fronts(f) => FrontPlace(f) /\ FrontData(f)
           /\ ~Open => /\ arc.curPos = arc.pos /\ arc.pos = Len(arc.data)
                       /\ Alike(m.outSeqMode, arc.data, Before)
BY DEF ArcOK, ArcData, Fronts, FrontPlace, FrontData, Before

LEMMA FrontOKNow ==
    ASSUME Good' =>
             /\ Open' => \A f \in Threads : Fronts(f)' => FrontPlace(f)' /\ FrontData(f)'
             /\ ~Open' => /\ arc'.curPos = arc'.pos /\ arc'.pos = Len(arc'.data)
                          /\ Alike(m'.outSeqMode, arc'.data, Before')
    PROVE  ArcOK' /\ ArcData'
BY DEF ArcOK, ArcData, Fronts, FrontPlace, FrontData, Before

LEMMA EntryTypes ==
    ASSUME Shapes
    PROVE  \A n \in 0..NumItems :
              \A i \in 1..n : EntryOf(m.updates, m.outSeqMode, i) \in Seq(Units)
<1> SUFFICES ASSUME NEW i \in 1..NumItems
             PROVE  EntryOf(m.updates, m.outSeqMode, i) \in Seq(Units)
  BY MainBasics
<1> DEFINE item == m.updates[i]
           mode == m.outSeqMode
           p == LastPassOf(mode, item)
           packed == PassUnits(i, p, item.passes[p])
           pre == <<Header(i, "preliminary")>>
           fin == <<Header(i, "final")>>
           des == <<<<i, "descriptor">>>>
<1>1. /\ item.kind \in Kinds /\ item.passes \in Seq(Nat) /\ i \in Nat
      /\ item.kind = "file" => item.passes # <<>>
  BY ItemFacts, MainBasics DEF Item
<1>2. <<i, "old">> \in Units /\ <<i, "final">> \in Units /\ <<i, "preliminary">> \in Units
      /\ <<i, "descriptor">> \in Units
  BY <1>1, UnitFacts DEF States
<1>3. /\ pre \in Seq(Units) /\ fin \in Seq(Units) /\ des \in Seq(Units)
      /\ <<<<i, "old">>>> \in Seq(Units) /\ <<>> \in Seq(Units)
  BY <1>2 DEF Header
<1>4. ASSUME item.kind = "file" PROVE FileEntry(mode, item, i) \in Seq(Units)
  <2>1. p \in Nat /\ item.passes[p] \in Nat
    <3> DEFINE passes == item.passes
    <3>1. passes \in Seq(Nat) /\ passes # <<>> BY <1>1, <1>4
    <3>2. p = IF mode THEN 1 ELSE Len(passes) BY DEF LastPassOf
    <3> HIDE DEF passes
    <3>3. Len(passes) \in Nat \ {0} /\ \A q \in 1..Len(passes) : passes[q] \in Nat BY <3>1
    <3>4. p \in 1..Len(passes) BY <3>2, <3>3
    <3>5. passes[p] \in Nat /\ p \in Nat BY <3>3, <3>4
    <3> QED BY <3>5 DEF passes
  <2>2. packed \in Seq(Units) BY <1>1, <2>1, PassUnitsIs
  <2> HIDE DEF packed, pre, fin, des
  <2>3. pre \o packed \in Seq(Units) BY <1>3, <2>2, ConcatProperties
  <2>4. (pre \o packed) \o des \in Seq(Units) BY <1>3, <2>3, ConcatProperties
  <2>5. fin \o packed \in Seq(Units) BY <1>3, <2>2, ConcatProperties
  <2>6. FileEntry(mode, item, i) = IF mode THEN (pre \o packed) \o des ELSE fin \o packed
    BY DEF FileEntry, PackedOf, pre, fin, des, packed
  <2> QED BY <2>4, <2>5, <2>6
<1> QED BY <1>1, <1>3, <1>4 DEF EntryOf, Kinds

LEMMA EntriesGrow ==
    ASSUME Shapes, NEW n \in 0..NumItems
    PROVE  /\ EntriesOf(m.updates, m.outSeqMode, n) \in Seq(Units)
           /\ n = 0 => EntriesOf(m.updates, m.outSeqMode, n) = <<>>
           /\ n # 0 => EntriesOf(m.updates, m.outSeqMode, n)
                          = EntriesOf(m.updates, m.outSeqMode, n - 1)
                              \o EntryOf(m.updates, m.outSeqMode, n)
<1> DEFINE e == [i \in 1..NumItems |-> EntryOf(m.updates, m.outSeqMode, i)]
<1>0. n \in Nat /\ NumItems \in Nat BY MainBasics
<1>1. \A i \in 1..n : e[i] \in Seq(Units) /\ e[i] = EntryOf(m.updates, m.outSeqMode, i)
  BY <1>0, EntryTypes
<1>2. \A k \in 0..n : [i \in 1..k |-> EntryOf(m.updates, m.outSeqMode, i)] = [i \in 1..k |-> e[i]]
  BY <1>0
<1>3. \A k \in 0..n : EntriesOf(m.updates, m.outSeqMode, k) = FlattenSeq([i \in 1..k |-> e[i]])
  BY <1>2 DEF EntriesOf
<1> HIDE DEF e
<1>4. /\ FlattenSeq([i \in 1..n |-> e[i]]) \in Seq(Units)
      /\ n = 0 => FlattenSeq([i \in 1..n |-> e[i]]) = <<>>
      /\ n # 0 => FlattenSeq([i \in 1..n |-> e[i]])
                     = FlattenSeq([i \in 1..n - 1 |-> e[i]]) \o e[n]
  BY <1>0, <1>1, FlattenOneMore
<1> DEFINE Flat(k) == FlattenSeq([i \in 1..k |-> e[i]])
<1>5. \A k \in 0..n : EntriesOf(m.updates, m.outSeqMode, k) = Flat(k) BY <1>3
<1>6. /\ Flat(n) \in Seq(Units) /\ (n = 0 => Flat(n) = <<>>)
      /\ (n # 0 => Flat(n) = Flat(n - 1) \o e[n])
  BY <1>4
<1> HIDE DEF Flat
<1>7. CASE n = 0
  <2>1. n \in 0..n BY <1>0
  <2> QED BY <1>5, <1>6, <1>7, <2>1
<1>8. CASE n # 0
  <2>1. n - 1 \in 0..n /\ n \in 1..n /\ n \in 0..n BY <1>0, <1>8
  <2> QED BY <1>1, <1>5, <1>6, <1>8, <2>1
<1> QED BY <1>7, <1>8

LEMMA BeforeTypes ==
    ASSUME Shapes
    PROVE  /\ Before \in Seq(Units) /\ Len(Before) \in Nat
           /\ m.itemIndex \in Nat /\ Header(m.itemIndex, "preliminary") \in Units
           /\ <<Header(m.itemIndex, "preliminary")>> \in Seq(Units)
           /\ Before \o <<Header(m.itemIndex, "preliminary")>> \in Seq(Units)
           /\ Len(Before \o <<Header(m.itemIndex, "preliminary")>>) = Len(Before) + 1
<1>1. m.itemIndex - 1 \in 0..NumItems /\ m.itemIndex \in Nat BY MainBasics
<1>2. Before \in Seq(Units) BY <1>1, EntriesGrow DEF Before
<1>3. Header(m.itemIndex, "preliminary") \in Units BY <1>1, UnitFacts DEF Header, States
<1> HIDE DEF Before
<1> DEFINE h == <<Header(m.itemIndex, "preliminary")>>
<1>4. h \in Seq(Units) /\ Len(h) = 1 BY <1>3
<1> HIDE DEF h
<1>5. Before \o h \in Seq(Units) /\ Len(Before \o h) = Len(Before) + Len(h)
  BY <1>2, <1>4, ConcatProperties
<1>6. Len(Before) \in Nat BY <1>2
<1> QED BY <1>1, <1>2, <1>3, <1>4, <1>5, <1>6 DEF h

LEMMA OnlyGood ==
    ASSUME NEW t \in Threads, Inv, Only(t), Move(t), Good'
    PROVE  /\ Good /\ Running /\ Open' = Open /\ Before' = Before
           /\ \A f \in Threads : Fronts(f)' = Fronts(f)
<1>1. m' = m /\ Running BY DEF Only, Good, Running
<1>2. ~arc.failed BY OnlyFile DEF Good, GoesReal, WritesReal, RepeatsReal, Appends, Archive
<1>3. \A f \in Threads : th'[f].item = th[f].item /\ th'[f].isFree = th[f].isFree BY DEF Only
<1> QED BY <1>1, <1>2, <1>3 DEF Good, Open, Before, Fronts, Busy

(* The thread that writes to the archive is the one that has the front.    *)
LEMMA RealWriter ==
    ASSUME NEW t \in Threads, Inv, Running, GoesReal(t) \/ WritesReal(t) \/ RepeatsReal(t)
    PROVE  Live(t) /\ Open /\ Fronts(t) /\ \A f \in Threads : Fronts(f) => f = t
<1>1. Live(t) /\ (out[t].realMode \/ out[t].realEvent)
  BY CodingFacts DEF GoesReal, WritesReal, RepeatsReal, AtEnd, Live
<1>2. Open /\ Fronts(t) BY <1>1, LiveFacts, RealIsFront
<1>3. ASSUME NEW f \in Threads, Fronts(f) PROVE f = t
  BY <1>1, <1>2, <1>3, LiveFacts DEF Fronts, Inv, ItemsOK
<1> QED BY <1>1, <1>2, <1>3

(* A step of the front thread that leaves the archive as it is.            *)
LEMMA QuietFront ==
    ASSUME NEW t \in Threads, Inv, Only(t), Move(t), Good', Fronts(t),
           FrontPlace(t), arc'.data = arc.data, arc'.pos = arc.pos,
           ~GoesReal(t), ~WritesReal(t), ~RepeatsReal(t)
    PROVE  /\ out'[t].realMode = out[t].realMode
           /\ out[t].realMode => th'[t].n = th[t].n /\ th'[t].pass = th[t].pass
           /\ out[t].realMode /\ Ended(t)' /\ th'[t].res = "ok" => th'[t].packSize = th[t].n
<1>0. Good /\ Running /\ Life(t) /\ StreamOK(t) BY OnlyGood DEF Inv
<1>1. /\ out[t].realMode /\ Ended(t) /\ th[t].res = "ok" => th[t].packSize = th[t].n
      /\ Ended(t)' => Ended(t) \/ th'[t].pc = "push"
  BY PlacesOfMove, ListAfter DEF Inv, FrontPlace, Ended
<1>2. CASE Wakes(t) BY <1>0, <1>2 DEF Life, Running, Closing, StreamOK, Called, Wakes
<1>3. CASE WritesMem(t) \/ RepeatsMem(t) BY <1>3 DEF WritesMem, RepeatsMem, SameFlags, Flags
<1>4. CASE IsStopped(t) \/ NoBlock(t) \/ Fails(t) \/ WriteRealFails(t)
  BY <1>4 DEF IsStopped, NoBlock, Fails, WriteRealFails, Stops, Turn, Flags
<1>5. CASE RealFails(t) BY <1>5 DEF RealFails, WriteFailed, Good
<1>6. CASE IsPromised(t) \/ GetsBlock(t)
  BY <1>6, LiveFacts, PlacesOfMove, ListAfter DEF IsPromised, GetsBlock, Coding, Live, Inv,
     TurnTo, Turn, SameFlags, Flags, Ended
<1>7. CASE Ends(t)
  BY <1>7, <1>0, Basics DEF Ends, Turn, PassSize, FrontPlace, StreamOK, Inv, ThreadType
<1>8. CASE Pushes(t) \/ Posts(t) BY <1>8, <1>1 DEF Pushes, Posts, TurnTo, Turn
<1> QED BY <1>2, <1>3, <1>4, <1>5, <1>6, <1>7, <1>8 DEF Move

LEMMA QuietStep ==
    ASSUME NEW t \in Threads, Inv, Only(t), Move(t),
           ~GoesReal(t), ~WritesReal(t), ~RepeatsReal(t)
    PROVE  ArcOK' /\ ArcData'
<1>1. arc'.data = arc.data /\ arc'.pos = arc.pos
      /\ SamePositions
  BY OnlyFile DEF Only
<1> SUFFICES ASSUME Good'
             PROVE  /\ Open' => \A f \in Threads : Fronts(f)' => FrontPlace(f)' /\ FrontData(f)'
                    /\ ~Open' => /\ arc'.curPos = arc'.pos /\ arc'.pos = Len(arc'.data)
                                 /\ Alike(m'.outSeqMode, arc'.data, Before')
  BY FrontOKNow
<1>2. /\ Good /\ Running /\ Open' = Open /\ Before' = Before /\ m' = m
      /\ \A f \in Threads : Fronts(f)' = Fronts(f)
  BY OnlyGood DEF Only
<1>3. /\ Open => \A f \in Threads : Fronts(f) => FrontPlace(f) /\ FrontData(f)
      /\ ~Open => /\ arc.curPos = arc.pos /\ arc.pos = Len(arc.data)
                  /\ Alike(m.outSeqMode, arc.data, Before)
  BY <1>2, FrontOK DEF Inv
<1> HIDE DEF Before
<1>4. ASSUME Open, NEW f \in Threads, Fronts(f) PROVE FrontPlace(f)' /\ FrontData(f)'
  BY <1>3, <1>4, <1>1, QuietFront, PlacesOfMove, ListAfter, <1>2 DEF Only, Inv, FrontPlace,
     Ended, FrontData, Packed
<1> QED BY <1>1, <1>2, <1>3, <1>4

(* A step that changes the archive: it is now the header and the thread's  *)
(* own data up to n.                                                       *)
LEMMA WriterFront ==
    ASSUME NEW t \in Threads, Inv, Only(t), Move(t), Good', Live(t), Live(t)', Open,
           \A f \in Threads : Fronts(f) => f = t, mtSem' = mtSem, FrontPlace(t),
           Len(Before) = arc.headerPos, out'[t].realMode, th'[t].n \in Nat,
           arc'.pos = Len(arc'.data), Len(arc'.data) = arc.curPos + th'[t].n,
           Alike(m.outSeqMode, arc'.data,
                 Before \o <<Header(m.itemIndex, "preliminary")>>
                    \o PassUnits(th[t].item, th'[t].pass, th'[t].n))
    PROVE  ArcOK' /\ ArcData'
<1>1. /\ Open' = Open /\ Before' = Before /\ m' = m
      /\ \A f \in Threads : Fronts(f)' = Fronts(f)
      /\ SamePositions
      /\ out'[t].base = out[t].base /\ th'[t].item = th[t].item
  BY OnlyGood DEF Only
<1>2. ~Ended(t)'
  <2>1. ~Listed(t) BY LiveFacts
  <2> QED BY <2>1 DEF Ended, Listed, Live
<1> HIDE DEF Before
<1>3. FrontPlace(t)' BY <1>1, <1>2 DEF FrontPlace
<1>4. FrontData(t)' BY <1>1 DEF FrontData, Packed
<1> QED BY <1>1, <1>3, <1>4, FrontOKNow

LEMMA WriterStep ==
    ASSUME NEW t \in Threads, Inv, Only(t), Move(t), Good',
           GoesReal(t) \/ WritesReal(t) \/ RepeatsReal(t)
    PROVE  ArcOK' /\ ArcData'
<1> DEFINE h == <<Header(m.itemIndex, "preliminary")>>
           bh == Before \o h
<1>1. Good /\ Running BY OnlyGood
<1>2. Live(t) /\ Open /\ Fronts(t) /\ \A f \in Threads : Fronts(f) => f = t BY <1>1, RealWriter
<1>3. FrontPlace(t) /\ FrontData(t) BY <1>1, <1>2, FrontOK DEF Inv
<1>4. bh \in Seq(Units) /\ Len(bh) = Len(Before) + 1 /\ Len(Before) \in Nat
  BY BeforeTypes DEF Inv
<1>5. /\ th[t].n \in Nat /\ th[t].item \in Nat /\ th[t].pass \in Nat
      /\ Packed(t) \in Seq(Units) /\ Len(Packed(t)) = th[t].n
      /\ <<Unit(t)>> \in Seq(Units) /\ Len(<<Unit(t)>>) = 1
      /\ Packed(t) \o <<Unit(t)>> = PassUnits(th[t].item, th[t].pass, th[t].n + 1)
      /\ Packed(t) \o <<Unit(t)>> \in Seq(Units) /\ Len(Packed(t) \o <<Unit(t)>>) = th[t].n + 1
  BY <1>2, LiveFacts, PackedFacts
<1>6. /\ arc.data \in Seq(Units) /\ arc.pos = Len(arc.data) /\ arc.pos \in Nat
      /\ Len(Before) = arc.headerPos /\ arc.curPos = Len(bh) /\ arc.curPos \in Nat
      /\ arc'.data \in Seq(Units) /\ ArcType
  BY <1>3, <1>4, OnlyArcType DEF Inv, ArcType, FrontPlace, FrontData
<1> HIDE DEF bh
<1>7. CASE GoesReal(t)
  <2>1. /\ ~out[t].realMode /\ Content(out[t]) = Packed(t)
        /\ Appends(Content(out[t]) \o <<Unit(t)>>)
        /\ out'[t].realMode /\ th'[t].n = th[t].n + 1 /\ th'[t].pass = th[t].pass
        /\ Live(t)' /\ mtSem' = mtSem
    BY <1>2, <1>7, LiveFacts DEF GoesReal, OneMore, Turn, Flags, Live
  <2> DEFINE w == Packed(t) \o <<Unit(t)>>
  <2>2. Appends(w) /\ w \in Seq(Units) /\ Len(w) = th[t].n + 1 BY <1>5, <2>1
  <2> HIDE DEF w
  <2>3. /\ arc'.data = arc.data \o w /\ arc'.pos = Len(arc'.data)
        /\ arc'.pos = arc.pos + Len(w)
    BY <1>6, <2>2, AppendTypes
  <2>4. Len(arc.data) = arc.curPos BY <1>3, <1>6, <2>1 DEF FrontPlace
  <2>5. Alike(m.outSeqMode, arc.data, bh \o <<>>) BY <1>3, <2>1 DEF FrontData, bh
  <2>6. bh \o <<>> = bh BY <1>4
  <2>7. Alike(m.outSeqMode, w, w) BY AlikeItself
  <2>8. Alike(m.outSeqMode, arc.data \o w, bh \o w)
    BY <1>4, <1>6, <2>2, <2>5, <2>6, <2>7, AlikeConcat
  <2>9. Alike(m.outSeqMode, arc'.data, bh \o PassUnits(th[t].item, th'[t].pass, th'[t].n))
    BY <1>5, <2>1, <2>3, <2>8 DEF w
  <2>10. Len(arc'.data) = arc.curPos + th'[t].n /\ th'[t].n \in Nat
    BY <1>5, <1>6, <2>1, <2>2, <2>3, <2>4
  <2> QED BY <1>2, <1>3, <1>6, <2>1, <2>3, <2>9, <2>10, WriterFront DEF bh
<1>8. CASE WritesReal(t)
  <2>1. /\ out[t].realMode /\ out' = out /\ Appends(<<Unit(t)>>)
        /\ th'[t].n = th[t].n + 1 /\ th'[t].pass = th[t].pass
        /\ Live(t)' /\ mtSem' = mtSem
    BY <1>8 DEF WritesReal, OneMore, Turn, Live
  <2> DEFINE w == <<Unit(t)>>
             p == Packed(t)
  <2>2. Appends(w) /\ w \in Seq(Units) /\ Len(w) = 1 /\ p \in Seq(Units) BY <1>5, <2>1
  <2> HIDE DEF w, p
  <2>3. /\ arc'.data = arc.data \o w /\ arc'.pos = Len(arc'.data)
        /\ arc'.pos = arc.pos + Len(w)
    BY <1>6, <2>2, AppendTypes
  <2>4. Len(arc.data) = arc.curPos + th[t].n BY <1>3, <1>6, <2>1 DEF FrontPlace
  <2>5. Alike(m.outSeqMode, arc.data, bh \o p) BY <1>3, <2>1 DEF FrontData, bh, p
  <2>6. bh \o p \in Seq(Units) BY <1>4, <2>2, ConcatProperties
  <2>7. Alike(m.outSeqMode, w, w) BY AlikeItself
  <2>8. Alike(m.outSeqMode, arc.data \o w, (bh \o p) \o w)
    BY <1>6, <2>2, <2>5, <2>6, <2>7, AlikeConcat
  <2>9. (bh \o p) \o w = bh \o (p \o w) BY <1>4, <2>2, ConcatAssociative, SMTT(30)
  <2>10. Alike(m.outSeqMode, arc'.data, bh \o PassUnits(th[t].item, th'[t].pass, th'[t].n))
    BY <1>5, <2>1, <2>3, <2>8, <2>9 DEF w, p
  <2>11. Len(arc'.data) = arc.curPos + th'[t].n /\ th'[t].n \in Nat
    <3>1. PICK n \in Nat, c \in Nat : n = th[t].n /\ c = arc.curPos BY <1>5, <1>6
    <3>2. arc.pos = c + n BY <1>6, <2>4, <3>1
    <3>3. PICK l \in Nat : l = Len(arc'.data) /\ l = c + n + 1 BY <2>2, <2>3, <3>1, <3>2
    <3>4. th'[t].n = n + 1 /\ arc.curPos = c BY <2>1, <3>1
    <3>5. l = c + (n + 1) /\ n + 1 \in Nat BY <3>3
    <3> QED BY <3>3, <3>4, <3>5
  <2> QED BY <1>2, <1>3, <1>6, <2>1, <2>3, <2>10, <2>11, WriterFront DEF bh
<1>9. CASE RepeatsReal(t)
  <2>1. /\ out[t].realMode /\ out' = out /\ arc'.data = SubSeq(arc.data, 1, out[t].base)
        /\ arc'.pos = out[t].base /\ th'[t].n = 0 /\ th'[t].pass = th[t].pass + 1
        /\ Live(t)' /\ mtSem' = mtSem
    BY <1>9 DEF RepeatsReal, Turn, Live, Archive
  <2> DEFINE p == Packed(t)
  <2>2. p \in Seq(Units) BY <1>5
  <2>3. Alike(m.outSeqMode, arc.data, bh \o p) BY <1>3, <2>1 DEF FrontData, bh
  <2> HIDE DEF p
  <2>4. out[t].base = arc.curPos /\ arc.curPos <= Len(arc.data)
    BY <1>3, <1>5, <1>6, <2>1 DEF FrontPlace
  <2>5. Alike(m.outSeqMode, SubSeq(arc.data, 1, Len(bh)), bh)
    BY <1>4, <1>6, <2>2, <2>3, AlikePrefix
  <2>6. bh \o <<>> = bh /\ th[t].pass + 1 \in Nat BY <1>4, <1>5
  <2>7. PassUnits(th[t].item, th'[t].pass, th'[t].n) = <<>>
    <3>1. PassUnits(th[t].item, th[t].pass + 1, 0) = <<>> BY <1>5, <2>6, PassUnitsIs
    <3> QED BY <2>1, <3>1
  <2>8. Alike(m.outSeqMode, arc'.data, bh \o PassUnits(th[t].item, th'[t].pass, th'[t].n))
    BY <1>6, <2>1, <2>4, <2>5, <2>6, <2>7
  <2>9. Len(arc'.data) = arc.curPos BY <1>6, <2>4, <2>1, PrefixIs
  <2>10. Len(arc'.data) = arc.curPos + th'[t].n /\ th'[t].n \in Nat /\ arc'.pos = Len(arc'.data)
    BY <1>6, <2>1, <2>4, <2>9
  <2> QED BY <1>2, <1>3, <1>6, <2>1, <2>8, <2>10, WriterFront DEF bh
<1> QED BY <1>7, <1>8, <1>9

LEMMA OnlyArc ==
    ASSUME NEW t \in Threads, Inv, Only(t), Move(t)
    PROVE  ArcOK' /\ ArcData'
<1>1. CASE ~Good' BY <1>1 DEF ArcOK, ArcData
<1> QED BY <1>1, QuietStep, WriterStep

Allocating == {t \in Threads : th[t].pc = "alloc"}
BlocksOf == [t \in Threads |-> out[t].blocks]
KeptOf == [i \in 1..NumItems |-> refs[i].blocks]

LEMMA SomeAllocate ==
    /\ IsFiniteSet(Allocating) /\ Cardinality(Allocating) \in Nat
    /\ \A t \in Allocating : Cardinality(Allocating) # 0
  BY ManyThreads, FS_Subset, FS_CardinalityType, FS_EmptySet DEF Allocating

LEMMA BlockSums ==
    ASSUME Shapes, BlocksOK, \A t \in Threads : StreamOK(t)
    PROVE  /\ StreamBlocks = SumFunctionOnSet(BlocksOf, Threads) /\ StreamBlocks \in Nat
           /\ KeptBlocks = SumFunctionOnSet(KeptOf, 1..NumItems) /\ KeptBlocks \in Nat
           /\ IsFiniteSet(1..NumItems)
           /\ \A t \in Threads : BlocksOf[t] \in Nat /\ BlocksOf[t] <= StreamBlocks
           /\ \A i \in 1..NumItems : KeptOf[i] \in Nat
           /\ pool.free + StreamBlocks + KeptBlocks = pool.total
           /\ pool.sem + Cardinality(Allocating) = pool.free
           /\ pool.total \in Nat /\ pool.free \in Nat /\ pool.sem \in Nat
<1>1. DOMAIN refs = 1..NumItems /\ NumItems \in Nat BY MainBasics DEF RefsOK
<1>2. StreamBlocks = SumFunctionOnSet(BlocksOf, Threads)
  BY DEF StreamBlocks, BlocksOf, SumFunction
<1>3. KeptBlocks = SumFunctionOnSet(KeptOf, 1..NumItems)
  BY <1>1 DEF KeptBlocks, KeptOf, SumFunction
<1>4. IsFiniteSet(1..NumItems) BY <1>1, FS_Interval
<1>5. \A t \in Threads : BlocksOf[t] \in Nat BY DEF StreamOK, BlocksOf
<1>6. \A i \in 1..NumItems : KeptOf[i] \in Nat BY DEF BlocksOK, KeptOf
<1>7. StreamBlocks \in Nat /\ KeptBlocks \in Nat
  BY <1>2, <1>3, <1>4, <1>5, <1>6, ManyThreads, SumFacts
<1>8. \A t \in Threads : BlocksOf[t] <= StreamBlocks BY <1>2, <1>5, ManyThreads, SumChanged
<1>9. /\ pool.free + StreamBlocks + KeptBlocks = pool.total
      /\ pool.sem + Cardinality(Allocating) = pool.free
      /\ pool.total \in Nat /\ pool.free \in Nat /\ pool.sem \in Nat
  BY DEF BlocksOK, BlocksKept, Allocating
<1> QED BY <1>1, <1>2, <1>3, <1>4, <1>5, <1>6, <1>7, <1>8, <1>9

(* There is room in the semaphore for what is freed.                       *)
LEMMA FreeIs ==
    ASSUME SyncOK, BlocksOK, NEW n \in Nat, pool.free + n <= pool.total,
           pool' = FreeBlocks(pool, n)
    PROVE  pool'.total = pool.total /\ pool'.free = pool.free + n /\ pool'.sem = pool.sem + n
<1>1. /\ pool.total \in Nat /\ pool.free \in Nat /\ pool.sem \in Nat
      /\ pool.sem + Cardinality(Allocating) = pool.free /\ Cardinality(Allocating) \in Nat
  BY SomeAllocate DEF BlocksOK, BlocksKept, Allocating
<1>2. pool.sem + n <= (IF pool.total = 0 THEN 1 ELSE pool.total) BY <1>1
<1>3. /\ pool'.total = pool.total /\ pool'.free = pool.free + n
      /\ pool'.sem = Semaphore_ReleaseN(pool.sem, IF pool.total = 0 THEN 1 ELSE pool.total, n)
  BY DEF FreeBlocks, SyncOK
<1>4. Semaphore_ReleaseN(pool.sem, IF pool.total = 0 THEN 1 ELSE pool.total, n) = pool.sem + n
  <2> DEFINE most == IF pool.total = 0 THEN 1 ELSE pool.total
  <2>1. ~(pool.sem + n > most) BY <1>1, <1>2
  <2> HIDE DEF most
  <2>2. Semaphore_ReleaseN(pool.sem, most, n) = pool.sem + n BY <2>1 DEF Semaphore_ReleaseN
  <2> QED BY <2>2 DEF most
<1> QED BY <1>3, <1>4

LEMMA BlocksOKNow ==
    ASSUME Shapes', pool'.total \in Nat, pool'.free \in Nat, pool'.sem \in Nat,
           \A i \in 1..NumItems : refs'[i].blocks \in Nat
                                    /\ (refs'[i].blocks # 0 => refs'[i].finished),
           m'.updates = m.updates,
           pool'.free + SumFunctionOnSet(BlocksOf', Threads)
              + SumFunctionOnSet(KeptOf', 1..NumItems) = pool'.total,
           pool'.sem + Cardinality(Allocating') = pool'.free,
           m'.pc = "done" => pool'.free = pool'.total
    PROVE  BlocksOK'
  BY DEF Shapes, RefsOK, StreamBlocks, BlocksOf, SumFunction, KeptBlocks, KeptOf, BlocksKept,
    Allocating, BlocksOK

LEMMA ThreadSumChanged ==
    \A f, g, y :
        /\ y \in Threads
        /\ \A u \in Threads : f[u] \in Nat /\ g[u] \in Nat
        /\ \A u \in Threads \ {y} : f[u] = g[u]
        => /\ SumFunctionOnSet(g, Threads) = SumFunctionOnSet(f, Threads) - f[y] + g[y]
           /\ f[y] <= SumFunctionOnSet(f, Threads)
           /\ SumFunctionOnSet(f, Threads) \in Nat /\ SumFunctionOnSet(g, Threads) \in Nat
<1>1. IsFiniteSet(Threads) BY ManyThreads
<1> QED
  <2> TAKE f, g, y
  <2> HAVE /\ y \in Threads
           /\ \A u \in Threads : f[u] \in Nat /\ g[u] \in Nat
           /\ \A u \in Threads \ {y} : f[u] = g[u]
  <2> QED BY <1>1, SumChanged

LEMMA NotDone ==
    ASSUME NEW t \in Threads, Inv, Only(t), Move(t)
    PROVE  m'.pc # "done"
<1>1. th[t].pc \notin {"none", "exit"} BY PlacesOfMove DEF Inv, Goes
<1>2. m.pc = "done" => Closing /\ t < m.closing BY MainBasics, ManyThreads DEF Inv, Closing
<1>3. m.pc # "done" BY <1>1, <1>2 DEF Inv, Life
<1> QED BY <1>3 DEF Only

LEMMA OnlyBlocks ==
    ASSUME NEW t \in Threads, Inv, Only(t), Move(t)
    PROVE  BlocksOK' /\ ~NoBlock(t)
<1>1. /\ Shapes /\ SyncOK /\ BlocksOK /\ Shapes' /\ (\A u \in Threads : StreamOK(u))
  BY OnlyShapes, MainBasics DEF Inv
<1>2. /\ StreamBlocks = SumFunctionOnSet(BlocksOf, Threads) /\ StreamBlocks \in Nat
      /\ KeptBlocks = SumFunctionOnSet(KeptOf, 1..NumItems) /\ KeptBlocks \in Nat
      /\ \A u \in Threads : BlocksOf[u] \in Nat /\ BlocksOf[u] <= StreamBlocks
      /\ pool.free + StreamBlocks + KeptBlocks = pool.total
      /\ pool.sem + Cardinality(Allocating) = pool.free
      /\ pool.total \in Nat /\ pool.free \in Nat /\ pool.sem \in Nat
  BY <1>1, BlockSums
<1>2a. /\ StreamBlocks \in Nat /\ KeptBlocks \in Nat
       /\ pool.free + StreamBlocks + KeptBlocks = pool.total
       /\ pool.sem + Cardinality(Allocating) = pool.free
       /\ pool.total \in Nat /\ pool.free \in Nat /\ pool.sem \in Nat
       /\ Cardinality(Allocating) \in Nat
  BY <1>2, SomeAllocate
<1>3. /\ \A u \in Threads \ {t} : th'[u] = th[u] /\ out'[u] = out[u]
      /\ pool'.total = pool.total /\ m' = m /\ refs' = refs /\ SyncOK'
  BY DEF Only
<1>4. SumFunctionOnSet(KeptOf', 1..NumItems) = KeptBlocks /\ pool'.total = pool.total
  BY <1>3, <1>2 DEF KeptOf
<1>5. /\ \A i \in 1..NumItems : refs'[i].blocks \in Nat
                                    /\ (refs'[i].blocks # 0 => refs'[i].finished)
      /\ m'.pc # "done" /\ m'.updates = m.updates
  BY <1>1, <1>3, NotDone DEF BlocksOK
<1>6. IsFiniteSet(Allocating) /\ Cardinality(Allocating) \in Nat
      /\ (t \in Allocating => Cardinality(Allocating) # 0)
  BY SomeAllocate
<1>7. ~NoBlock(t) BY <1>2, <1>6 DEF NoBlock, Allocating
<1>8. ASSUME NEW d \in Int, out'[t].blocks = out[t].blocks + d, out'[t].blocks \in Nat
      PROVE  SumFunctionOnSet(BlocksOf', Threads) = StreamBlocks + d
             /\ SumFunctionOnSet(BlocksOf', Threads) \in Nat
  <2>1. \A u \in Threads \ {t} : BlocksOf[u] = BlocksOf'[u] BY <1>3 DEF BlocksOf
  <2>2. BlocksOf'[t] = BlocksOf[t] + d /\ BlocksOf'[t] \in Nat BY <1>8 DEF BlocksOf
  <2>3. \A u \in Threads : BlocksOf[u] \in Nat /\ BlocksOf'[u] \in Nat BY <1>2, <2>1, <2>2
  <2>4. SumFunctionOnSet(BlocksOf', Threads)
           = SumFunctionOnSet(BlocksOf, Threads) - BlocksOf[t] + BlocksOf'[t]
        /\ SumFunctionOnSet(BlocksOf', Threads) \in Nat
    BY <2>1, <2>3, ThreadSumChanged
  <2> QED BY <1>2, <2>2, <2>3, <2>4
<1>9. out[t].blocks \in Nat BY <1>1 DEF StreamOK
<1>10. CASE IsPromised(t)
  <2>1. th[t].pc = "code" /\ th'[t].pc = "alloc" /\ pool'.free = pool.free
        /\ pool'.sem = pool.sem - 1 /\ pool.sem >= 1 /\ out' = out
    BY <1>10 DEF IsPromised, Coding, TurnTo, Turn
  <2>2. Allocating' = Allocating \cup {t} /\ t \notin Allocating BY <1>3, <2>1 DEF Allocating
  <2>3. Cardinality(Allocating') = Cardinality(Allocating) + 1 BY <1>6, <2>2, FS_AddElement
  <2>4. SumFunctionOnSet(BlocksOf', Threads) = StreamBlocks BY <2>1, <1>2 DEF BlocksOf
  <2> QED
    <3>1. pool'.total \in Nat /\ pool'.free \in Nat /\ pool'.sem \in Nat
      BY <1>2a, <1>4, <2>1, <2>3, <2>4
    <3>2. pool'.free + SumFunctionOnSet(BlocksOf', Threads)
              + SumFunctionOnSet(KeptOf', 1..NumItems) = pool'.total
      BY <1>2a, <1>4, <2>1, <2>3, <2>4
    <3>3. pool'.sem + Cardinality(Allocating') = pool'.free BY <1>2a, <2>1, <2>3, <2>4
    <3> QED BY <1>1, <1>5, <1>7, <3>1, <3>2, <3>3, BlocksOKNow
<1>11. CASE GetsBlock(t)
  <2>1. th[t].pc = "alloc" /\ th'[t].pc = "code" /\ pool'.free = pool.free - 1
        /\ pool'.sem = pool.sem /\ pool.free # 0 /\ out'[t].blocks = out[t].blocks + 1
    BY <1>11 DEF GetsBlock, TurnTo, Turn, Stream
  <2>2. Allocating' = Allocating \ {t} /\ t \in Allocating BY <1>3, <2>1 DEF Allocating
  <2>3. Cardinality(Allocating') = Cardinality(Allocating) - 1 BY <1>6, <2>2, FS_RemoveElement
  <2>4. SumFunctionOnSet(BlocksOf', Threads) = StreamBlocks + 1 BY <1>8, <1>9, <2>1
  <2> QED
    <3>1. pool'.total \in Nat /\ pool'.free \in Nat /\ pool'.sem \in Nat
      BY <1>2a, <1>4, <2>1, <2>3, <2>4, SMTT(30)
    <3>2. pool'.free + SumFunctionOnSet(BlocksOf', Threads)
              + SumFunctionOnSet(KeptOf', 1..NumItems) = pool'.total
      BY <1>2a, <1>4, <2>1, <2>3, <2>4, SMTT(30)
    <3>3. pool'.sem + Cardinality(Allocating') = pool'.free BY <1>2a, <2>1, <2>3, <2>4
    <3> QED BY <1>1, <1>5, <1>7, <3>1, <3>2, <3>3, BlocksOKNow
<1>12. CASE GoesReal(t)
  <2>1. th[t].pc = "code" /\ th'[t].pc = "code" /\ out'[t].blocks = 0
        /\ pool' = FreeBlocks(pool, out[t].blocks)
    BY <1>12 DEF GoesReal, Coding, OneMore, Turn, Stream
  <2>2. Allocating' = Allocating BY <1>3, <2>1 DEF Allocating
  <2>3. out[t].blocks <= StreamBlocks BY <1>2 DEF BlocksOf
  <2>4. pool'.free = pool.free + out[t].blocks /\ pool'.sem = pool.sem + out[t].blocks
    BY <1>2, <1>9, <2>3, <1>1, <2>1, FreeIs, SMTT(30)
  <2>5. SumFunctionOnSet(BlocksOf', Threads) = StreamBlocks + (0 - out[t].blocks)
        /\ SumFunctionOnSet(BlocksOf', Threads) \in Nat
    BY <1>9, <2>1, <1>8
  <2> QED
    <3>1. pool'.total \in Nat /\ pool'.free \in Nat /\ pool'.sem \in Nat
      BY <1>2a, <1>4, <1>9, <2>2, <2>4, <2>5, SMTT(30)
    <3>2. pool'.free + SumFunctionOnSet(BlocksOf', Threads)
              + SumFunctionOnSet(KeptOf', 1..NumItems) = pool'.total
      BY <1>2a, <1>4, <1>9, <2>2, <2>4, <2>5, SMTT(30)
    <3>3. pool'.sem + Cardinality(Allocating') = pool'.free BY <1>2a, <1>9, <2>2, <2>4, <2>5
    <3> QED BY <1>1, <1>5, <1>7, <3>1, <3>2, <3>3, BlocksOKNow
<1>13. CASE ~IsPromised(t) /\ ~GetsBlock(t) /\ ~GoesReal(t)
  <2>1. th[t].pc # "alloc" /\ th'[t].pc # "alloc" /\ pool' = pool
        /\ out'[t].blocks = out[t].blocks
    <3>1. CASE Wakes(t) \/ WritesMem(t) \/ IsStopped(t) \/ RealFails(t)
      BY <3>1 DEF Wakes, WritesMem, IsStopped, RealFails, Coding, Stops, OneMore, Turn, Stream
    <3>2. CASE WritesReal(t) \/ WriteRealFails(t) \/ RepeatsReal(t) \/ RepeatsMem(t)
      BY <3>2 DEF WritesReal, WriteRealFails, RepeatsReal, RepeatsMem, Coding, AtEnd, Stops,
         OneMore, Turn, Stream
    <3>3. CASE Ends(t) \/ Pushes(t) \/ Posts(t) \/ Fails(t)
      BY <3>3 DEF Ends, Pushes, Posts, Fails, Coding, AtEnd, Stops, TurnTo, Turn
    <3> QED BY <1>7, <1>13, <3>1, <3>2, <3>3 DEF Move
  <2>2. Allocating' = Allocating BY <1>3, <2>1 DEF Allocating
  <2>3. BlocksOf' = BlocksOf BY <1>3, <2>1 DEF BlocksOf
  <2> QED BY <1>1, <1>2, <1>3, <1>4, <1>5, <1>6, <1>7, <2>1, <2>2, <2>3, BlocksOKNow
<1> QED BY <1>7, <1>10, <1>11, <1>12, <1>13

(* The files that are done, and their sizes.                               *)
InWork(i) == \E t \in Threads : th[t].item = i
DoneItems == {i \in 1..m.mtItemIndex - 1 : Item(i).kind = "file" /\ ~InWork(i)}
SizesOf(done) == [i \in done |-> Item(i).size]
DoneSize == SumFunctionOnSet(SizesOf(DoneItems), DoneItems)
ReadSize == SumFunctionOnSet(prog.inSizes, Threads)

LEMMA ProgressIs ==
    ASSUME ProgOK
    PROVE  ProgressExact <=> prog.total = (ReadSize + DoneSize) % SizeModulus
  BY DEF ProgOK, SumFunction, ReadSize, ProgressExact, DoneSize, SizesOf, DoneItems, InWork

LEMMA ProgressIsNow ==
    ASSUME ProgOK', prog'.total = (ReadSize' + DoneSize') % SizeModulus
    PROVE  ProgressExact'
  BY DEF ProgOK, SumFunction, ReadSize, ProgressExact, DoneSize, SizesOf, DoneItems, InWork

LEMMA DoneFacts ==
    ASSUME Shapes
    PROVE  /\ IsFiniteSet(DoneItems) /\ DoneSize \in Nat
           /\ \A i \in DoneItems : i \in 1..NumItems /\ Item(i).size \in Nat
<1>1. NumItems \in Nat /\ m.mtItemIndex \in 1..NumItems + 1 BY MainBasics
<1>2. \A i \in DoneItems : i \in 1..NumItems BY <1>1 DEF DoneItems
<1>3. \A i \in DoneItems : Item(i).size \in Nat BY <1>2, ItemFacts
<1>4. IsFiniteSet(DoneItems)
  <2>1. IsFiniteSet(1..NumItems) BY <1>1, FS_Interval
  <2>2. DoneItems \subseteq 1..NumItems BY <1>2
  <2> QED BY <2>1, <2>2, FS_Subset
<1>5. \A i \in DoneItems : SizesOf(DoneItems)[i] \in Nat BY <1>3 DEF SizesOf
<1>6. DoneSize \in Nat BY <1>4, <1>5, SumFacts DEF DoneSize
<1> QED BY <1>2, <1>3, <1>4, <1>6

LEMMA OnlyProgressSum ==
    ASSUME NEW t \in Threads, Inv, Only(t), NEW size \in Nat, Reports(t, size)
    PROVE  ProgressExact' /\ prog'.total \in Nat
<1>1. /\ ProgOK /\ ProgOK' /\ Shapes /\ SizeModulus \in Nat \ {0}
      /\ prog.total = (ReadSize + DoneSize) % SizeModulus
      /\ \A u \in Threads : prog.inSizes[u] \in Nat
  BY MainBasics, ManyThreads, ProgressIs DEF Inv, Only, ProgressOK
<1>2. DoneSize' = DoneSize /\ DoneSize \in Nat
  <2>1. \A u \in Threads : th'[u].item = th[u].item BY DEF Only
  <2>2. DoneItems' = DoneItems /\ m' = m BY <2>1 DEF DoneItems, InWork, Item, Only
  <2>3. SizesOf(DoneItems)' = SizesOf(DoneItems) BY <2>2 DEF SizesOf, Item
  <2> QED BY <1>1, <2>2, <2>3, DoneFacts DEF DoneSize
<1>3. /\ \A u \in Threads \ {t} : prog.inSizes[u] = prog'.inSizes[u]
      /\ prog'.inSizes[t] = size
      /\ prog'.total = (prog.total + size - prog.inSizes[t]) % SizeModulus
  BY DEF Only, Reports
<1>4. ReadSize' = ReadSize - prog.inSizes[t] + size /\ ReadSize \in Nat
  <2>1. \A u \in Threads : prog.inSizes[u] \in Nat /\ prog'.inSizes[u] \in Nat BY <1>1, <1>3
  <2> DEFINE f == prog.inSizes
             g == prog'.inSizes
  <2>2. /\ \A u \in Threads : f[u] \in Nat /\ g[u] \in Nat
        /\ \A u \in Threads \ {t} : f[u] = g[u]
        /\ g[t] = size /\ f[t] = prog.inSizes[t]
    BY <1>3, <2>1
  <2> HIDE DEF f, g
  <2>3. /\ SumFunctionOnSet(g, Threads) = SumFunctionOnSet(f, Threads) - f[t] + g[t]
        /\ SumFunctionOnSet(f, Threads) \in Nat
    BY <2>2, ThreadSumChanged
  <2> QED BY <2>2, <2>3 DEF f, g, ReadSize
<1> DEFINE a == ReadSize + DoneSize
           d == size - prog.inSizes[t]
<1>5. a \in Int /\ d \in Int /\ ReadSize' + DoneSize = a + d
  <2>1. PICK r \in Nat : r = prog.inSizes[t] BY <1>1
  <2> QED BY <1>2, <1>4, <2>1
<1>5a. prog.total = a % SizeModulus /\ a % SizeModulus \in Int BY <1>1, <1>5
<1>5b. prog.total + size - prog.inSizes[t] = (a % SizeModulus) + d BY <1>1, <1>5a
<1> HIDE DEF a, d
<1>6. ((a % SizeModulus) + d) % SizeModulus = (a + d) % SizeModulus BY <1>1, <1>5, RemainderOfSum
<1>7. prog'.total = (ReadSize' + DoneSize') % SizeModulus BY <1>2, <1>3, <1>5, <1>5b, <1>6
<1>8. prog'.total \in Nat BY <1>1, <1>5, <1>3, <1>5b, <1>6
<1>9. ProgressExact' BY <1>1, <1>7, ProgressIsNow
<1> QED BY <1>8, <1>9

(* Which steps report, and what the others keep.                           *)
LEMMA OnlyReports ==
    ASSUME NEW t \in Threads, Inv, Only(t), Move(t)
    PROVE  \/ prog' = prog /\ ~Ends(t)
           \/ /\ Live(t) /\ \E size \in Nat : Reports(t, size)
              /\ th'[t].pc = "code"
           \/ Ends(t) /\ Live(t) /\ Reports(t, Item(th[t].item).size)
<1>1. CASE WritesMem(t) \/ GoesReal(t) \/ WritesReal(t)
  <2>1. Coding(t) /\ Read(t) /\ th'[t].pc = "code"
    BY <1>1 DEF WritesMem, GoesReal, WritesReal, OneMore, Turn
  <2>2. th[t].n \in Nat /\ Item(th[t].item).size \in Nat /\ Live(t)
    BY <2>1, CodingFacts, LiveFacts
  <2>3. Min({th[t].n + 1, Item(th[t].item).size}) \in Nat BY <2>2, MinTwo
  <2> QED BY <2>1, <2>2, <2>3 DEF Read
<1>2. CASE Ends(t) BY <1>2 DEF Ends, AtEnd, Live
<1>3. CASE Wakes(t) \/ IsStopped(t) \/ RealFails(t) \/ IsPromised(t) \/ NoBlock(t)
  BY <1>2, <1>3 DEF Wakes, IsStopped, RealFails, IsPromised, NoBlock
<1>4. CASE \/ GetsBlock(t) \/ WriteRealFails(t) \/ RepeatsReal(t) \/ RepeatsMem(t)
           \/ Pushes(t) \/ Posts(t) \/ Fails(t)
  BY <1>2, <1>4 DEF GetsBlock, WriteRealFails, RepeatsReal, RepeatsMem, Pushes, Posts, Fails
<1> QED BY <1>1, <1>2, <1>3, <1>4 DEF Move

(* A thread that packs after its step packed before, or has just ended.    *)
LEMMA OnlyPacks ==
    ASSUME NEW t \in Threads, Inv, Only(t), Move(t), Ended(t)', Running
    PROVE  \/ Ended(t) /\ th'[t].res = th[t].res /\ Goes(t)
           \/ Live(t) /\ th'[t].pc = "push" /\ Busy(t)
  BY PlacesOfMove, ListAfter, Basics DEF Inv, Running, Closing, ThreadType, Goes, Life, Ended,
    Live, Called, Busy

(* How a thread comes to its end.                                          *)
LEMMA StopsWithFailure ==
    ASSUME NEW t \in Threads, Inv, Only(t), Move(t), Live(t), th'[t].pc = "push"
    PROVE  \/ IsStopped(t) /\ th'[t].res = "abort"
           \/ NoBlock(t) /\ th'[t].res = "fail"
           \/ th'[t].res = "write" /\ WriteFailed
           \/ th'[t].res \in {"code", "cancel"} /\ hit' = hit \cup {th'[t].res}
           \/ Ends(t) /\ th'[t].res = "ok" /\ hit' = hit
<1>1. CASE Wakes(t) \/ Pushes(t) \/ Posts(t) BY <1>1 DEF Wakes, Pushes, Posts, Live
<1>2. CASE WritesMem(t) \/ GoesReal(t) \/ IsPromised(t) \/ GetsBlock(t) \/ WritesReal(t)
  BY <1>2 DEF WritesMem, GoesReal, IsPromised, GetsBlock, WritesReal, OneMore, TurnTo, Turn
<1>3. CASE RepeatsReal(t) \/ RepeatsMem(t) BY <1>3 DEF RepeatsReal, RepeatsMem, Turn
<1>4. CASE IsStopped(t) \/ NoBlock(t) \/ RealFails(t) \/ WriteRealFails(t) \/ Fails(t)
  BY <1>4 DEF IsStopped, NoBlock, RealFails, WriteRealFails, Fails, Stops, Turn
<1>5. CASE Ends(t) BY <1>5 DEF Ends, Turn
<1> QED BY <1>1, <1>2, <1>3, <1>4, <1>5 DEF Move

LEMMA OnlyProgress ==
    ASSUME NEW t \in Threads, Inv, Only(t), Move(t)
    PROVE  ProgressOK'
<1>1. /\ Shapes /\ ProgOK /\ ProgOK' /\ ItemsOK
      /\ prog.total \in Nat /\ ProgressExact
      /\ \A u \in Threads :
          /\ prog.inSizes[u] \in Nat
          /\ th[u].item = 0 => prog.inSizes[u] = 0
          /\ Packs(u) => prog.inSizes[u] = Item(th[u].item).size
          /\ Running /\ ~Busy(u) /\ th[u].item # 0 =>
                prog.inSizes[u] = Item(th[u].item).size
  BY DEF Inv, ProgressOK, Only, Shapes
<1>2. /\ m' = m /\ \A u \in Threads : th'[u].item = th[u].item /\ th'[u].isFree = th[u].isFree
      /\ \A u \in Threads \ {t} : th'[u] = th[u] /\ prog'.inSizes[u] = prog.inSizes[u]
      /\ \A u \in Threads : Item(th[u].item)' = Item(th[u].item)
      /\ \A u \in Threads : u # t => (Listed(u)' <=> Listed(u))
  BY <1>1, PlacesOfMove, ListAfter DEF Only, Item
<1>3. ASSUME NEW u \in Threads, u # t
      PROVE  /\ prog'.inSizes[u] \in Nat
             /\ th'[u].item = 0 => prog'.inSizes[u] = 0
             /\ Packs(u)' => prog'.inSizes[u] = Item(th[u].item)'.size
             /\ Running' /\ ~Busy(u)' /\ th'[u].item # 0 =>
                   prog'.inSizes[u] = Item(th[u].item)'.size
  BY <1>2, <1>3, <1>1 DEF Packs, Ended, Running, Busy
<1>4. CASE prog' = prog /\ ~Ends(t)
  BY <1>1, <1>2, <1>4, OnlyBlocks, StopsWithFailure, OnlyPacks, <1>3 DEF ProgressExact, Item,
     Packs, Running, ProgressOK, Busy
<1>5. CASE Live(t) /\ th'[t].pc = "code" /\ \E size \in Nat : Reports(t, size)
  <2>1. PICK size \in Nat : Reports(t, size) BY <1>5
  <2>2. ProgressExact' /\ prog'.total \in Nat BY <2>1, OnlyProgressSum
  <2>3. Busy(t) /\ th[t].item # 0 /\ ~Ended(t) BY <1>1, <1>5, LiveFacts DEF ItemsOK
  <2>4. ~Ended(t)' BY <1>5, <2>3, <1>1, PlacesOfMove, ListAfter DEF Ended, Live
  <2>5. prog'.inSizes[t] \in Nat BY <2>1 DEF Reports
  <2> QED BY <1>1, <1>2, <1>3, <2>2, <2>3, <2>4, <2>5 DEF ProgressOK, Packs, Busy
<1>6. CASE Ends(t) /\ Live(t) /\ Reports(t, Item(th[t].item).size)
  BY <1>1, <1>6, LiveFacts, OnlyProgressSum, <1>2, <1>3, SMTT(30) DEF ItemsOK, Reports,
     ProgressOK, Busy
<1> QED BY <1>4, <1>5, <1>6, OnlyReports

LEMMA HitGrows ==
    ASSUME NEW t \in Threads, Inv, Only(t), Move(t)
    PROVE  /\ hit \subseteq hit' /\ (arc.failed => arc'.failed)
           /\ hit' = hit \/ (Live(t) /\ th'[t].pc = "push")
<1>1. CASE Wakes(t) \/ Pushes(t) \/ Posts(t) BY <1>1 DEF Wakes, Pushes, Posts
<1>2. CASE \/ WritesMem(t) \/ GoesReal(t) \/ IsPromised(t) \/ GetsBlock(t) \/ WritesReal(t)
  BY <1>2 DEF WritesMem, GoesReal, IsPromised, GetsBlock, WritesReal, Appends, Archive
<1>3. CASE RepeatsReal(t) \/ RepeatsMem(t) \/ IsStopped(t) \/ NoBlock(t)
  BY <1>3 DEF RepeatsReal, RepeatsMem, IsStopped, NoBlock, Archive
<1>4. CASE RealFails(t) \/ WriteRealFails(t) \/ Fails(t)
  BY <1>4 DEF RealFails, WriteRealFails, Fails, Stops, Turn, Coding, Live, WriteFailed
<1>5. CASE Ends(t) BY <1>5 DEF Ends, AtEnd, Turn, Live
<1> QED BY <1>1, <1>2, <1>3, <1>4, <1>5 DEF Move

LEMMA NotStopped ==
    ASSUME NEW t \in Threads, Inv, Running, IsStopped(t)
    PROVE  FALSE
  BY DEF Inv, IsStopped, Running, Closing, Life

(* When the call is over with S_OK nobody has anything to do.              *)
LEMMA IdleMove ==
    ASSUME NEW t \in Threads, Inv, Only(t), Move(t), ~Busy(t)
    PROVE  arc' = arc /\ hit' = hit
<1>1. Life(t) BY DEF Inv
<1>2. ~Live(t) /\ th[t].pc # "push" BY <1>1 DEF Life
<1>3. CASE Wakes(t) \/ Posts(t) BY <1>3 DEF Wakes, Posts
<1>4. th[t].pc \notin {"code", "alloc", "push"} BY <1>2 DEF Live
<1>5. CASE \/ WritesMem(t) \/ IsStopped(t) \/ GoesReal(t) \/ RealFails(t) \/ IsPromised(t)
           \/ NoBlock(t) \/ GetsBlock(t) \/ WritesReal(t) \/ WriteRealFails(t)
           \/ RepeatsReal(t) \/ RepeatsMem(t) \/ Ends(t) \/ Pushes(t) \/ Fails(t)
  BY <1>4, <1>5 DEF WritesMem, IsStopped, GoesReal, RealFails, IsPromised, NoBlock, GetsBlock,
     WritesReal, WriteRealFails, RepeatsReal, RepeatsMem, Ends, Pushes, Fails, Coding, AtEnd
<1> QED BY <1>3, <1>5 DEF Move

LEMMA OnlyResult ==
    ASSUME NEW t \in Threads, Inv, Only(t), Move(t)
    PROVE  ResultOK'
<1>1. Shapes /\ ResultOK /\ Goes(t) /\ m' = m BY PlacesOfMove DEF Inv, Only
<1>2. /\ \A u \in Threads : th'[u].isFree = th[u].isFree
      /\ \A u \in Threads \ {t} : th'[u] = th[u]
      /\ \A u \in Threads : u # t => (Listed(u)' <=> Listed(u))
      /\ Listed(t)' <=> (Listed(t) \/ th[t].pc = "push")
  BY <1>1, ListAfter DEF Only
<1>3. hit \subseteq hit' /\ (arc.failed => arc'.failed) BY HitGrows
<1>4. CASE Running
  <2>0. Running /\ ~Closing /\ Running' /\ ~Closing' BY <1>1, <1>4 DEF Running, Closing
  <2>1. \A u \in Threads \ {t} : (Ended(u)' <=> Ended(u)) /\ th'[u].res = th[u].res
    <3> HIDE DEF Listed
    <3> QED BY <1>2 DEF Ended
  <2>2. Ended(t)' => \/ Ended(t) /\ th'[t].res = th[t].res
                     \/ Live(t) /\ th'[t].pc = "push"
    BY <2>0, OnlyPacks
  <2>3. Ended(t) => Ended(t)' /\ th'[t].res = th[t].res
    BY <1>1, Basics, <2>0, <1>2 DEF ThreadType, Inv, Life, Ended, Called, Goes
  <2>4. Live(t) /\ th'[t].pc = "push" =>
           /\ th'[t].res \in {"ok"} \cup hit'
           /\ Ended(t)'
           /\ \/ arc'.failed \/ th'[t].res # "ok" \/ hit' = hit
    BY <2>0, NotStopped, OnlyBlocks, StopsWithFailure DEF Ended, WriteFailed
  <2>5. \A u \in Threads : Ended(u)' => th'[u].res \in {"ok"} \cup hit'
    BY <1>1, <1>3, <2>0, <2>1, <2>2, <2>4 DEF ResultOK
  <2>6. hit' # {} => arc'.failed \/ \E u \in Threads : Ended(u)' /\ th'[u].res # "ok"
    BY <1>3, <1>1, <2>0, <2>1, <2>3, <2>4, HitGrows DEF ResultOK
  <2> QED BY <2>0, <2>5, <2>6 DEF ResultOK
<1>5. CASE Closing BY <1>1, <1>5, <1>3, IdleMove, <1>2 DEF Running, Closing, ResultOK, Busy
<1>6. CASE ~Running /\ ~Closing BY <1>1, <1>6 DEF ResultOK, Running, Closing
<1> QED BY <1>4, <1>5, <1>6

LEMMA ThreadKeepsInv ==
    ASSUME NEW t \in Threads, Inv, Only(t), Move(t)
    PROVE  Inv'
  BY OnlyShapes, OnlyStarted, OnlySem, OnlyOwners, OnlyRealMode, OnlyLife, OnlyStreams,
    OnlyArcType, OnlyArc, OnlyBlocks, OnlyProgress, OnlyResult DEF Inv, Only

(***************************************************************************)
(* What the steps of the main thread preserve.                             *)
(***************************************************************************)
Takes(k) == TakesFailed(k) \/ TakesUnwritten(k) \/ TakesFront(k) \/ TakesLater(k)

LEMMA MainSettled ==
    ASSUME MainMove
    PROVE  /\ Settled /\ m'.pc # "setup" /\ m.pc # "setup" /\ m.pc # "done"
           /\ Running' => Running
           /\ m'.itemIndex = m.itemIndex \/ m'.itemIndex = m.itemIndex + 1
           /\ m.pc = "loop" \/ m.pc = "lock" \/ m.pc = "take" \/ Closing
<1>1. CASE \/ PassesOver \/ Skips \/ (\E res \in Results : GivesUp(res))
           \/ (\E k \in Threads : Starts(k)) \/ GoesOn \/ (\E unit : WritesOwn(unit)) \/ SendsKept
  BY <1>1 DEF PassesOver, Skips, GivesUp, Starts, GoesOn, WritesOwn, SendsKept, MainIs, Leaves,
     Closes, AtLoop, Running
<1>2. CASE \/ (\E f \in Threads : Opens(f)) \/ Waits \/ Locks \/ Finishes \/ Halts \/ Joins
           \/ Returns
  BY <1>2 DEF Opens, Waits, Locks, Finishes, Halts, Joins, Returns, MainIs, Leaves, Closes,
     AtLoop, Running, Closing
<1>3. CASE \E k \in Threads : Takes(k)
  BY <1>3 DEF Takes, TakesFailed, TakesUnwritten, TakesFront, TakesLater, Drops, MainIs, Leaves,
     Closes, Running
<1> QED BY <1>1, <1>2, <1>3 DEF MainMove, Takes

(* A thread keeps its place; at most one of them is given something.       *)
LEMMA MainTouches ==
    ASSUME MainMove
    PROVE  th' = th \/ \E k \in Threads : Touches(k)
<1>1. CASE \/ PassesOver \/ Skips \/ (\E res \in Results : GivesUp(res)) \/ GoesOn
           \/ (\E unit : WritesOwn(unit)) \/ SendsKept \/ (\E f \in Threads : Opens(f))
           \/ Waits \/ Locks \/ Finishes \/ Joins \/ Returns
  BY <1>1 DEF PassesOver, Skips, GivesUp, GoesOn, WritesOwn, SendsKept, Opens, Waits, Locks,
     Finishes, Joins, Returns
<1>2. CASE Halts BY <1>2 DEF Halts, Touches
<1>3. CASE \E k \in Threads : Starts(k) \/ Takes(k)
  BY <1>3 DEF Starts, Takes, TakesFailed, TakesUnwritten, TakesFront, TakesLater, Drops
<1> QED BY <1>1, <1>2, <1>3 DEF MainMove, Takes

LEMMA MainThreads ==
    ASSUME Inv, MainMove
    PROVE  /\ ThreadsOK'
           /\ \A u \in Threads :
                 /\ th'[u].pc = th[u].pc /\ th'[u].res = th[u].res /\ th'[u].pass = th[u].pass
                 /\ th'[u].n = th[u].n /\ th'[u].packSize = th[u].packSize
<1>1. /\ m'.updates = m.updates /\ \A u \in Threads : ThreadType(th[u])
      /\ th = [u \in Threads |-> th[u]]
  BY MainSettled, Basics, MainBasics DEF Settled, Inv, ThreadsOK
<1>2. CASE th' = th BY <1>1, <1>2 DEF ThreadsOK, ThreadType
<1>3. CASE \E k \in Threads : Touches(k)
  <2>1. PICK k \in Threads : Touches(k) BY <1>3
  <2>2. \A u \in Threads : ThreadType(th'[u]) /\ (u # k => th'[u] = th[u])
    BY <1>1, <2>1 DEF Touches
  <2>3. \A u \in Threads : ThreadType(th[u])' BY <1>1, <2>2 DEF ThreadType
  <2> QED BY <2>1, <2>2, <2>3 DEF ThreadsOK, Touches
<1> QED BY <1>2, <1>3, MainTouches

LEMMA MainStirs ==
    ASSUME MainMove
    PROVE  /\ out' = out \/ Returns \/ \E k \in Threads : Stirs(k)
           /\ refs' = refs \/ Returns \/ \E i \in 1..NumItems : Keeps(i)
<1>1. CASE \/ PassesOver \/ Skips \/ (\E res \in Results : GivesUp(res)) \/ GoesOn
           \/ (\E unit : WritesOwn(unit)) \/ SendsKept
  BY <1>1 DEF PassesOver, Skips, GivesUp, GoesOn, WritesOwn, SendsKept, Keeps
<1>2. CASE \/ (\E f \in Threads : Opens(f)) \/ Waits \/ Locks \/ Finishes \/ Joins \/ Returns
           \/ Halts
  BY <1>2 DEF Opens, Waits, Locks, Finishes, Joins, Halts, Stirs
<1>3. CASE \E k \in Threads : Starts(k) \/ Takes(k)
  BY <1>3 DEF Starts, Takes, TakesFailed, TakesUnwritten, TakesFront, TakesLater, Frees, Keeps
<1> QED BY <1>1, <1>2, <1>3 DEF MainMove, Takes

LEMMA MainRest ==
    ASSUME Inv, MainMove
    PROVE  SyncOK' /\ FileOK' /\ ProgOK' /\ HitOK'
<1>0. SyncOK /\ FileOK /\ ProgOK /\ HitOK BY MainBasics DEF Inv
<1>1. CASE \/ PassesOver \/ Skips \/ (\E res \in Results : GivesUp(res)) \/ GoesOn
           \/ (\E unit : WritesOwn(unit)) \/ SendsKept
  BY <1>0, <1>1 DEF PassesOver, Skips, GivesUp, GoesOn, WritesOwn, SendsKept, SyncOK, FileOK,
     ProgOK, HitOK
<1>2. CASE \/ (\E f \in Threads : Opens(f)) \/ Waits \/ Locks \/ Finishes \/ Joins \/ Returns
           \/ Halts
  BY <1>0, <1>2 DEF Opens, Waits, Locks, Finishes, Joins, Halts, Returns, SyncOK, FileOK,
     ProgOK, HitOK
<1>3. CASE \E k \in Threads : Starts(k) BY <1>0, <1>3 DEF Starts, SyncOK, FileOK, ProgOK, HitOK
<1>4. ASSUME NEW k \in Threads, Takes(k) PROVE SyncOK' /\ FileOK' /\ ProgOK' /\ HitOK'
  BY <1>4, <1>0 DEF Takes, TakesFailed, TakesUnwritten, TakesFront, TakesLater, Drops, ProgOK
<1> QED BY <1>1, <1>2, <1>3, <1>4 DEF MainMove, Takes

LEMMA MainShapes ==
    ASSUME Inv, MainMove
    PROVE  Shapes'
<1>1. Settled /\ MainOK' /\ m'.updates = m.updates BY MainSettled DEF Settled
<1>2. OutsOK' BY MainBasics, MainStirs DEF Inv, OutsOK, OutType, Returns, Stirs
<1>3. RefsOK' BY MainBasics, <1>1, MainStirs DEF Inv, RefsOK, RefType, Returns, Keeps
<1> QED BY <1>1, <1>2, <1>3, MainThreads, MainRest DEF Shapes

LEMMA MainStarted == ASSUME MainMove PROVE AtSetup'
BY MainSettled DEF AtSetup

(* The steps that leave the threads and the list alone.                    *)
Aside ==
    \/ PassesOver \/ Skips \/ (\E res \in Results : GivesUp(res)) \/ GoesOn
    \/ (\E unit : WritesOwn(unit)) \/ SendsKept \/ (\E f \in Threads : Opens(f))
    \/ Waits \/ Locks \/ Finishes \/ Joins \/ Returns

LEMMA MainCases ==
    ASSUME MainMove
    PROVE  Aside \/ Halts \/ (\E k \in Threads : Starts(k)) \/ \E k \in Threads : Takes(k)
BY DEF MainMove, Aside, Takes

LEMMA AsideKeeps ==
    ASSUME Inv, Aside
    PROVE  /\ th' = th /\ mtSem'.list = mtSem.list
           /\ \A u \in Threads : out'[u].stopEvent = out[u].stopEvent
           /\ \/ Running /\ Running' /\ ~Closing'
              \/ Closing' /\ m'.closing = 0
              \/ /\ Closing /\ Closing'
                 /\ \/ m'.closing = m.closing
                    \/ m'.closing = m.closing + 1 /\ th[m.closing].pc \in {"none", "exit"}
<1>1. CASE \/ PassesOver \/ Skips \/ (\E res \in Results : GivesUp(res)) \/ GoesOn
           \/ (\E unit : WritesOwn(unit)) \/ SendsKept
  BY <1>1 DEF PassesOver, Skips, GivesUp, GoesOn, WritesOwn, SendsKept, MainIs, Leaves, Closes,
     AtLoop, Running, Closing
<1>2. CASE \E f \in Threads : Opens(f)
  BY <1>2 DEF Opens, Stirs, Flags, AtLoop, MainIs, Running, Closing
<1>3. CASE Waits \/ Locks \/ Finishes \/ Joins
  BY <1>3 DEF Waits, Locks, Finishes, Joins, MainIs, Leaves, Closes, AtLoop, Running, Closing
<1>4. CASE Returns BY <1>4 DEF Returns, SameFlags, Flags, Closes, MainIs, Closing
<1> QED BY <1>1, <1>2, <1>3, <1>4 DEF Aside

(* What the other steps do to the thread they are about.                   *)
LEMMA StartsWaiting ==
    ASSUME Inv, NEW k \in Threads, Starts(k)
    PROVE  /\ ~Busy(k) /\ ~Live(k) /\ ~Ended(k) /\ ~Listed(k) /\ ~th[k].exitThread
           /\ th[k].pc \in {"wait", "post"} /\ Running /\ Running' /\ ~Closing'
           /\ \A u \in Threads : u # k => th'[u] = th[u] /\ out'[u] = out[u]
           /\ mtSem' = mtSem
<1>1. m.pc = "loop" /\ th[k].isFree /\ m'.pc = "loop" /\ mtSem' = mtSem
  BY DEF Starts, AtLoop, MainIs
<1>2. Running /\ Running' /\ ~Closing /\ ~Closing' /\ ~Busy(k)
  BY <1>1 DEF Running, Closing, Busy
<1>3. Life(k) /\ th[k].pc \in Places /\ th[k].exitThread \in BOOLEAN
  BY Basics DEF Inv, ThreadType
<1> HIDE DEF Listed
<1>4. ~Live(k) /\ ~Ended(k) /\ ~Listed(k) /\ ~th[k].exitThread BY <1>2, <1>3 DEF Life, Ended
<1>5. th[k].pc \in {"wait", "post"} BY <1>2, <1>3, <1>4 DEF Life, Ended, Live, Places
<1>6. \A u \in Threads : u # k => th'[u] = th[u] /\ out'[u] = out[u]
  BY DEF Starts, Touches, Stirs
<1> QED BY <1>1, <1>2, <1>4, <1>5, <1>6

LEMMA TakesListed ==
    ASSUME Inv, NEW k \in Threads, Takes(k)
    PROVE  /\ Drops(k) /\ m.pc = "take" /\ Running /\ Listed(k) /\ Busy(k) /\ ~Called(k) /\ Ended(k)
           /\ ~Live(k) /\ th[k].pc # "push"
           /\ \A u \in Threads : u # k => th'[u] = th[u] /\ out'[u] = out[u]
           /\ ~Listed(k)' /\ \A u \in Threads : u # k => (Listed(u)' <=> Listed(u))
           /\ ~Busy(k)'
           /\ (Running' /\ ~Closing') \/ (Closing' /\ m'.closing = 0)
<1>1. Drops(k) BY DEF Takes, TakesFailed, TakesUnwritten, TakesFront, TakesLater
<1>2. m.pc = "take" /\ mtSem.list # <<>> /\ k = Head(mtSem.list) /\ mtSem'.list = Tail(mtSem.list)
      /\ \A u \in Threads : u # k => th'[u] = th[u]
  BY <1>1 DEF Drops, Touches
<1>3. Running /\ Shapes /\ Life(k) /\ SemOK BY <1>2 DEF Running, Inv
<1>4. /\ Listed(k) /\ k = mtSem.list[1] /\ Len(mtSem.list) \in Nat \ {0}
      /\ mtSem'.list \in Seq(Threads) /\ Len(mtSem'.list) = Len(mtSem.list) - 1
      /\ \A j \in 1..Len(mtSem.list) - 1 : mtSem'.list[j] = mtSem.list[j + 1]
  BY <1>2, <1>3, HeadIsListed
<1>5. Busy(k) /\ ~Called(k) /\ Ended(k) /\ ~Live(k) /\ th[k].pc # "push"
  BY <1>3, <1>4 DEF Life, Ended
<1>6. ~Listed(k)'
  <2>1. \A j \in 1..Len(mtSem.list) : mtSem.list[j] = k => j = 1
    BY <1>3, <1>4, MainBasics DEF SemOK, IsInjective, SyncOK
  <2>2. \A j \in 1..Len(mtSem.list) - 1 : j + 1 \in 1..Len(mtSem.list) /\ j + 1 # 1 BY <1>4
  <2> QED BY <1>4, <2>1, <2>2 DEF Listed
<1>7. ASSUME NEW u \in Threads, u # k PROVE Listed(u)' <=> Listed(u)
  <2>1. ASSUME Listed(u)' PROVE Listed(u)
    <3>1. PICK j \in 1..Len(mtSem'.list) : mtSem'.list[j] = u BY <2>1 DEF Listed
    <3>2. j \in 1..Len(mtSem.list) - 1 /\ j + 1 \in 1..Len(mtSem.list) BY <1>4
    <3> QED BY <1>4, <3>1, <3>2 DEF Listed
  <2>2. ASSUME Listed(u) PROVE Listed(u)'
    <3>1. PICK j \in 1..Len(mtSem.list) : mtSem.list[j] = u BY <2>2 DEF Listed
    <3>2. j # 1 /\ j - 1 \in 1..Len(mtSem.list) - 1 /\ (j - 1) + 1 = j BY <1>4, <1>7, <3>1
    <3>3. mtSem'.list[j - 1] = u /\ j - 1 \in 1..Len(mtSem'.list) BY <1>4, <3>1, <3>2
    <3> QED BY <3>3 DEF Listed
  <2> QED BY <2>1, <2>2
<1>8. (Running' /\ ~Closing') \/ (Closing' /\ m'.closing = 0)
  BY DEF Takes, TakesFailed, TakesUnwritten, TakesFront, TakesLater, MainIs, Leaves, Closes,
     Running, Closing
<1>9. \A u \in Threads : u # k => out'[u] = out[u]
  BY DEF Takes, TakesFailed, TakesUnwritten, TakesFront, TakesLater, Frees, Stirs
<1>10. ~Busy(k)' BY <1>1 DEF Drops, Busy
<1> QED BY <1>1, <1>2, <1>3, <1>4, <1>5, <1>6, <1>7, <1>8, <1>9, <1>10

LEMMA MainLife ==
    ASSUME Inv, MainMove
    PROVE  \A u \in Threads : Life(u)'
<1> SUFFICES ASSUME NEW u \in Threads PROVE Life(u)' OBVIOUS
<1>1. Life(u) /\ Shapes /\ m.closing \in 0..NumThreads /\ u \in Nat
      /\ th[u].exitThread \in BOOLEAN
  BY MainBasics, ManyThreads, Basics DEF Inv, ThreadType
<1>2. CASE Aside
  BY <1>2, AsideKeeps, <1>1 DEF Listed, Running, Closing, Life, Busy, Live, Called, Ended
<1>3. CASE Halts
  BY <1>3, <1>1 DEF Halts, Closes, MainIs, Closing, Touches, Running, Listed, Life, Busy, Live,
     Called, Ended
<1>4. ASSUME NEW k \in Threads, Starts(k) PROVE Life(u)'
  <2>1. /\ ~Live(k) /\ ~Listed(k) /\ ~th[k].exitThread /\ th[k].pc \in {"wait", "post"}
        /\ Running /\ Running' /\ ~Closing' /\ mtSem' = mtSem
        /\ (u # k => th'[u] = th[u] /\ out'[u] = out[u])
    BY <1>4, StartsWaiting
  <2>2. Listed(u)' <=> Listed(u) BY <2>1 DEF Listed
  <2>3. ~Closing BY <2>1 DEF Running, Closing
  <2> HIDE DEF Listed
  <2>4. CASE u = k
    BY <1>4, <1>1, <2>1, <2>2, <2>3, <2>4 DEF Starts, Flags, Touches, Life, Busy, Live, Called,
       Ended
  <2>5. CASE u # k BY <1>1, <2>1, <2>2, <2>3, <2>5 DEF Life, Busy, Live, Called, Ended
  <2> QED BY <2>4, <2>5
<1>5. ASSUME NEW k \in Threads, Takes(k) PROVE Life(u)'
  <2>1. /\ Drops(k) /\ Running /\ Listed(k) /\ Busy(k) /\ ~Called(k) /\ ~Live(k)
        /\ th[k].pc # "push"
        /\ (u # k => th'[u] = th[u] /\ out'[u] = out[u])
        /\ ~Listed(k)' /\ (u # k => (Listed(u)' <=> Listed(u)))
        /\ (Running' /\ ~Closing') \/ (Closing' /\ m'.closing = 0)
    BY <1>5, TakesListed
  <2>2. ~Closing BY <2>1 DEF Running, Closing
  <2>3. (Running' => Running) /\ ~(Closing' /\ u < m'.closing) BY <1>1, <2>1
  <2> HIDE DEF Listed
  <2>4. CASE u = k
    <3>1. /\ th'[k].isFree /\ th'[k].compressEvent = th[k].compressEvent
          /\ th'[k].exitThread = th[k].exitThread /\ th'[k].pc = th[k].pc
      BY <2>1 DEF Drops, Touches
    <3>2. out'[k].stopEvent = out[k].stopEvent
      BY <1>5 DEF Takes, TakesFailed, TakesUnwritten, TakesFront, TakesLater, Frees, SameFlags,
         Flags
    <3> QED BY <1>1, <2>1, <2>2, <2>3, <2>4, <3>1, <3>2 DEF Life, Busy, Live, Called, Ended
  <2>5. CASE u # k BY <1>1, <2>1, <2>2, <2>3, <2>5 DEF Life, Busy, Live, Called, Ended
  <2> QED BY <2>4, <2>5
<1> QED BY <1>2, <1>3, <1>4, <1>5, MainCases

LEMMA MainSem ==
    ASSUME Inv, MainMove
    PROVE  SemOK'
<1>1. SemOK /\ Shapes BY DEF Inv
<1>2. Posting' = Posting BY MainThreads DEF Posting
<1>3. CASE mtSem' = mtSem /\ m.pc # "take" /\ m'.pc # "take" BY <1>1, <1>2, <1>3 DEF SemOK
<1>4. CASE Locks
  BY <1>4, ManyThreads, FS_Subset, FS_CardinalityType, <1>1, <1>2 DEF Locks, MainIs, Posting,
     SemOK
<1>5. ASSUME NEW k \in Threads, Takes(k) PROVE SemOK'
  <2>1. /\ m.pc = "take" /\ mtSem.list # <<>> /\ mtSem'.list = Tail(mtSem.list)
        /\ mtSem'.count = mtSem.count /\ m'.pc # "take"
    BY <1>5 DEF Takes, TakesFailed, TakesUnwritten, TakesFront, TakesLater, Drops, MainIs,
       Leaves, Closes
  <2>2. /\ Len(mtSem.list) \in Nat \ {0} /\ Tail(mtSem.list) \in Seq(Threads)
        /\ Len(Tail(mtSem.list)) = Len(mtSem.list) - 1
        /\ \A j \in 1..Len(mtSem.list) - 1 : Tail(mtSem.list)[j] = mtSem.list[j + 1]
    BY <1>1, <2>1, HeadIsListed
  <2>3. IsInjective(Tail(mtSem.list))
    <3>1. /\ DOMAIN mtSem.list = 1..Len(mtSem.list)
          /\ DOMAIN Tail(mtSem.list) = 1..Len(mtSem.list) - 1
      BY <1>1, <2>2, MainBasics DEF SyncOK
    <3>2. ASSUME NEW a \in 1..Len(mtSem.list) - 1, NEW b \in 1..Len(mtSem.list) - 1,
                 Tail(mtSem.list)[a] = Tail(mtSem.list)[b]
          PROVE  a = b
      <4>1. a + 1 \in 1..Len(mtSem.list) /\ b + 1 \in 1..Len(mtSem.list) BY <2>2
      <4>2. mtSem.list[a + 1] = mtSem.list[b + 1] BY <2>2, <3>2
      <4>3. a + 1 = b + 1 BY <1>1, <3>1, <4>1, <4>2 DEF SemOK, IsInjective
      <4> QED BY <4>1, <4>3
    <3> QED BY <3>1, <3>2 DEF IsInjective
  <2>4. IsFiniteSet(Posting) /\ Cardinality(Posting) \in Nat
    BY ManyThreads, FS_Subset, FS_CardinalityType DEF Posting
  <2> QED BY <1>1, <1>2, <2>1, <2>2, <2>3, <2>4 DEF SemOK
<1>6. CASE \/ PassesOver \/ Skips \/ (\E res \in Results : GivesUp(res)) \/ GoesOn
           \/ (\E unit : WritesOwn(unit)) \/ SendsKept \/ (\E f \in Threads : Opens(f))
           \/ Waits \/ Finishes \/ Joins \/ Returns \/ Halts \/ (\E k \in Threads : Starts(k))
  <2>1. mtSem' = mtSem /\ m.pc # "take" /\ m'.pc # "take"
    BY <1>6 DEF PassesOver, Skips, GivesUp, GoesOn, WritesOwn, SendsKept, Opens, Waits,
       Finishes, Joins, Returns, Halts, Starts, MainIs, Leaves, Closes, AtLoop
  <2> QED BY <1>3, <2>1
<1> QED BY <1>4, <1>5, <1>6, MainCases DEF Aside

-----------------------------------------------------------------------------
(* The current item has been looked at when nothing more is started.       *)
LEMMA AheadOfCurrent ==
    ASSUME Inv, AtLoop, ~LooksAhead
    PROVE  m.itemIndex < m.mtItemIndex /\ m.itemIndex \in 1..NumItems
<1>1. /\ Shapes /\ Queue /\ ItemsOK /\ Running /\ NumItems \in Nat
      /\ m.itemIndex \in 1..NumItems + 1 /\ m.mtItemIndex \in 1..NumItems + 1
      /\ m.itemIndex <= NumItems
      /\ m.threadIndices \in Seq(Threads) /\ NumThreads \in Nat \ {0}
  BY MainBasics DEF Inv, AtLoop, Running
<1>2. CASE m.mtItemIndex > NumItems BY <1>1, <1>2
<1>3. CASE ~(Len(m.threadIndices) < NumThreads)
  <2>1. Len(m.threadIndices) \in Nat /\ 1 \in 1..Len(m.threadIndices) BY <1>1, <1>3
  <2>2. PICK t \in Threads : m.threadIndices[1] = t BY <1>1, <2>1
  <2>3. Busy(t) BY <1>1, <2>1, <2>2 DEF Queue
  <2>4. th[t].item >= m.itemIndex /\ th[t].item < m.mtItemIndex /\ th[t].item \in Nat
    BY <1>1, <2>3, Basics DEF Queue, ItemsOK, ThreadType
  <2> QED BY <1>1, <2>4
<1> QED BY <1>1, <1>2, <1>3 DEF LooksAhead

(* An item that is not a file, or is finished, is not open, and no thread  *)
(* has it.                                                                 *)
LEMMA NobodysItem ==
    ASSUME Inv, Running, m.itemIndex \in 1..NumItems,
           \/ Item(m.itemIndex).kind # "file"
           \/ refs[m.itemIndex].finished
           \/ refs[m.itemIndex].skip
    PROVE  /\ ~Open
           /\ \A t \in Threads : Busy(t) => th[t].item >= m.itemIndex + 1 /\ ~out[t].unlockSent
  BY Basics DEF Inv, Queue, ItemsOK, ThreadType, RealOK

(* The front item is open and belongs to the one thread.                   *)
LEMMA FrontsAlone ==
    ASSUME Inv, NEW k \in Threads, Fronts(k)
    PROVE  \A t \in Threads : t # k => th[t].item # m.itemIndex
  BY DEF Inv, Fronts, ItemsOK

LEMMA SameItems ==
    ASSUME Inv, m'.updates = m.updates, IsInjective(m'.threadIndices),
           m'.mtItemIndex = m.mtItemIndex \/ m'.mtItemIndex = m.mtItemIndex + 1,
           \A t \in Threads : th'[t].item = th[t].item /\ (th[t].isFree => th'[t].isFree),
           \A i \in 1..NumItems :
              /\ refs'[i].skip => refs[i].skip \/ Item(i).kind = "skip"
              /\ refs'[i].finished =>
                    refs[i].finished \/ (Item(i).kind = "file" /\ i < m.mtItemIndex)
    PROVE  ItemsOK'
  BY MainBasics, Basics, SMTT(30) DEF Inv, ThreadType, ItemsOK, Item, Busy

LEMMA AsideItems ==
    ASSUME Inv, Aside
    PROVE  ItemsOK'
<1>1. /\ m'.updates = m.updates /\ IsInjective(m.threadIndices) /\ th' = th
      /\ m.mtItemIndex \in Nat
  BY AsideKeeps, MainSettled, MainBasics DEF Inv, ItemsOK, Aside, MainMove, Settled
<1>2. CASE Skips BY <1>2, <1>1, SameItems DEF Skips, Keeps, Kind, MainIs
<1>3. CASE SendsKept \/ Returns
  BY <1>3, <1>1, SameItems DEF SendsKept, Returns, Keeps, MainIs, Closes
<1>4. CASE \/ PassesOver \/ (\E res \in Results : GivesUp(res)) \/ GoesOn
           \/ (\E unit : WritesOwn(unit)) \/ (\E f \in Threads : Opens(f))
           \/ Waits \/ Locks \/ Finishes \/ Joins
  <2>1. /\ refs' = refs /\ m'.threadIndices = m.threadIndices
        /\ m'.mtItemIndex = m.mtItemIndex \/ m'.mtItemIndex = m.mtItemIndex + 1
    BY <1>4 DEF PassesOver, GivesUp, GoesOn, WritesOwn, Opens, Waits, Locks, Finishes, Joins,
       MainIs, Leaves, Closes
  <2> QED BY <1>1, <2>1, SameItems
<1> QED BY <1>2, <1>3, <1>4 DEF Aside

(* r has what s has but for k, and in the same order.                      *)
SameBut(k, s, r) ==
    /\ \A t : (\E i \in 1..Len(r) : r[i] = t) <=> (t # k /\ \E i \in 1..Len(s) : s[i] = t)
    /\ \A a, b \in 1..Len(r) : a < b =>
          \E c, d \in 1..Len(s) : c < d /\ r[a] = s[c] /\ r[b] = s[d]

(* The queue without one of its threads.                                   *)
LEMMA RemovedFromQueue ==
    ASSUME NEW s \in Seq(Threads), IsInjective(s), NEW j \in 1..Len(s), NEW r, r = RemoveAt(s, j)
    PROVE  r \in Seq(Threads) /\ IsInjective(r) /\ SameBut(s[j], s, r)
<1>1. /\ r \in Seq(Threads) /\ Len(r) = Len(s) - 1 /\ Len(s) \in Nat
      /\ \A i \in 1..Len(s) - 1 : r[i] = IF i < j THEN s[i] ELSE s[i + 1]
  BY RemovedTypes, SMTT(30)
<1> DEFINE old(i) == IF i < j THEN i ELSE i + 1
<1>2. \A i \in 1..Len(r) : old(i) \in 1..Len(s) /\ old(i) # j /\ r[i] = s[old(i)] BY <1>1
<1>3. \A a, b \in 1..Len(r) : a < b => old(a) < old(b) BY <1>1
<1>4. \A a, b \in 1..Len(r) : old(a) = old(b) => a = b BY <1>1
<1>5. \A i \in 1..Len(s) : i # j => \E a \in 1..Len(r) : old(a) = i
  <2> TAKE i \in 1..Len(s)
  <2> HAVE i # j
  <2>1. CASE i < j BY <1>1, <2>1
  <2>2. CASE i > j
    <3>1. i - 1 \in 1..Len(r) /\ old(i - 1) = i BY <1>1, <2>2
    <3> QED BY <3>1
  <2> QED BY <2>1, <2>2
<1>6. DOMAIN s = 1..Len(s) /\ DOMAIN r = 1..Len(r) BY <1>1
<1> HIDE DEF old
<1>7. \A a, b \in 1..Len(s) : s[a] = s[b] => a = b BY <1>6 DEF IsInjective
<1>8. IsInjective(r) BY <1>2, <1>4, <1>7, <1>6 DEF IsInjective
<1>9. ASSUME NEW t PROVE (\E i \in 1..Len(r) : r[i] = t) <=> (t # s[j] /\ \E i \in 1..Len(s) : s[i] = t)
  <2>1. ASSUME NEW i \in 1..Len(r), r[i] = t PROVE t # s[j] /\ \E b \in 1..Len(s) : s[b] = t
    BY <1>2, <1>7, <2>1
  <2>2. ASSUME NEW i \in 1..Len(s), s[i] = t, t # s[j] PROVE \E a \in 1..Len(r) : r[a] = t
    <3>1. PICK a \in 1..Len(r) : old(a) = i BY <1>5, <2>2
    <3> QED BY <1>2, <2>2, <3>1
  <2> QED BY <2>1, <2>2
<1>10. ASSUME NEW a \in 1..Len(r), NEW b \in 1..Len(r), a < b
       PROVE  \E c, d \in 1..Len(s) : c < d /\ r[a] = s[c] /\ r[b] = s[d]
  BY <1>2, <1>3, <1>10
<1> QED BY <1>1, <1>8, <1>9, <1>10 DEF SameBut

LEMMA TakesItems ==
    ASSUME Inv, NEW k \in Threads, Takes(k)
    PROVE  ItemsOK'
<1>1. /\ m'.updates = m.updates /\ m.mtItemIndex \in Nat /\ m.threadIndices \in Seq(Threads)
      /\ IsInjective(m.threadIndices) /\ m'.mtItemIndex = m.mtItemIndex /\ ItemsOK
  BY MainBasics DEF Inv, ItemsOK, Takes, TakesFailed, TakesUnwritten, TakesFront, TakesLater,
     MainIs, Leaves, Closes, Settled
<1>2. \A t \in Threads : th'[t].item = th[t].item /\ (th[t].isFree => th'[t].isFree)
  BY TakesListed DEF Drops
<1>3. IsInjective(m'.threadIndices)
  BY <1>1, RemovedFromQueue DEF TakesFailed, TakesUnwritten, MainIs, Leaves, Closes, Removes,
     Takes, TakesFront, TakesLater
<1>4. \A i \in 1..NumItems :
              /\ refs'[i].skip => refs[i].skip
              /\ refs'[i].finished =>
                    refs[i].finished \/ (Item(i).kind = "file" /\ i < m.mtItemIndex)
  BY <1>1, TakesListed DEF ItemsOK, TakesLater, Keeps, Takes, TakesFailed, TakesUnwritten,
     TakesFront
<1> QED BY <1>1, <1>2, <1>3, <1>4, SameItems

LEMMA StartsItems ==
    ASSUME Inv, NEW k \in Threads, Starts(k)
    PROVE  ItemsOK'
<1>1. /\ ItemsOK /\ Queue /\ Running /\ ~Busy(k) /\ m.threadIndices \in Seq(Threads)
      /\ m.mtItemIndex \in 1..NumItems + 1 /\ NumItems \in Nat
      /\ \A t \in Threads : th[t].item \in Nat /\ (t # k => th'[t] = th[t])
  BY MainBasics, Basics, StartsWaiting DEF Inv, ThreadType
<1>2. /\ m'.updates = m.updates /\ m'.mtItemIndex = m.mtItemIndex + 1 /\ refs' = refs
      /\ m'.threadIndices = Append(m.threadIndices, k) /\ th'[k].item = m.mtItemIndex
      /\ Item(m.mtItemIndex).kind = "file"
  BY DEF Starts, MainIs, Settled, Kind
<1>3. IsInjective(m'.threadIndices) BY <1>1, <1>2 DEF Queue, ItemsOK, IsInjective
<1>4. \A t \in Threads : th'[t].item # 0 =>
          th'[t].item < m'.mtItemIndex /\ m'.updates[th'[t].item].kind = "file"
  BY <1>1, <1>2, SMTT(30) DEF ItemsOK, Item
<1>5. \A t, u \in Threads : th'[t].item = th'[u].item /\ th'[t].item # 0 => t = u
  BY <1>1, <1>2 DEF ItemsOK
<1>6. \A t \in Threads : ~th'[t].isFree => th'[t].item # 0 BY <1>1, <1>2 DEF ItemsOK, Busy
<1>7. \A i \in 1..NumItems :
          /\ refs'[i].skip => Item(i).kind = "skip"
          /\ refs'[i].finished => Item(i).kind = "file" /\ i < m'.mtItemIndex
  BY <1>1, <1>2 DEF ItemsOK
<1> QED BY <1>2, <1>3, <1>4, <1>5, <1>6, <1>7 DEF ItemsOK, Item, Busy

LEMMA MainItems ==
    ASSUME Inv, MainMove
    PROVE  ItemsOK'
<1>1. CASE Halts BY <1>1, SameItems DEF Inv, ItemsOK, Halts, Closes, MainIs, Settled, Touches
<1> QED BY <1>1, MainCases, AsideItems, StartsItems, TakesItems

LEMMA QueueFacts ==
    ASSUME Inv, Running
    PROVE  /\ Queue /\ ItemsOK /\ RealOK /\ Shapes
           /\ m.itemIndex \in 1..NumItems + 1 /\ m.mtItemIndex \in 1..NumItems + 1
           /\ m.lastReal \in 0..NumItems /\ NumItems \in Nat
           /\ m.threadIndices \in Seq(Threads)
           /\ m.itemIndex <= m.mtItemIndex /\ m.lastReal <= m.itemIndex
           /\ \A t \in Threads : th[t].item \in 0..NumItems
           /\ \A t \in Threads : Busy(t) =>
                 /\ th[t].item \in 1..NumItems /\ th[t].item >= m.itemIndex
                 /\ th[t].item < m.mtItemIndex /\ ~refs[th[t].item].finished
                 /\ Item(th[t].item).kind = "file"
  BY MainBasics, Basics DEF Inv, ThreadType, Queue, ItemsOK

LEMMA SameQueue ==
    ASSUME Inv, Running, m'.updates = m.updates, th' = th, m'.threadIndices = m.threadIndices,
           \A i \in 1..NumItems : refs'[i].finished = refs[i].finished,
           m'.itemIndex = m.itemIndex \/ m'.itemIndex = m.itemIndex + 1,
           m'.itemIndex <= m'.mtItemIndex, m'.lastReal <= m'.itemIndex,
           \A t \in Threads : Busy(t) => th[t].item >= m'.itemIndex,
           \/ m'.mtItemIndex = m.mtItemIndex
           \/ m'.mtItemIndex = m.mtItemIndex + 1 /\ Item(m.mtItemIndex).kind # "file",
           m'.pc \in {"lock", "take"} => Open',
           Open' => /\ m'.itemIndex < m'.mtItemIndex
                    /\ Item(m'.itemIndex).kind = "file" /\ ~refs[m'.itemIndex].finished
    PROVE  Queue'
<1>1. /\ Queue /\ m.itemIndex \in 1..NumItems + 1 /\ m.mtItemIndex \in 1..NumItems + 1
      /\ NumItems \in Nat /\ m.threadIndices \in Seq(Threads)
      /\ \A t \in Threads : Busy(t) => th[t].item \in 1..NumItems /\ ~refs[th[t].item].finished
  BY QueueFacts
<1>2. \A t \in Threads :
          ~th'[t].isFree <=> \E k \in 1..Len(m.threadIndices) : m.threadIndices[k] = t
  BY <1>1 DEF Queue, Busy
<1>3. \A j, k \in 1..Len(m.threadIndices) :
          j < k => th'[m.threadIndices[j]].item < th'[m.threadIndices[k]].item
  BY <1>1 DEF Queue
<1>4. \A t \in Threads : ~th'[t].isFree =>
          th'[t].item >= m'.itemIndex /\ ~refs'[th'[t].item].finished
  BY <1>1 DEF Busy
<1>5. ASSUME NEW i \in m'.itemIndex..m'.mtItemIndex - 1, m'.updates[i].kind = "file"
      PROVE  refs'[i].finished \/ \E t \in Threads : ~th'[t].isFree /\ th'[t].item = i
  <2>1. i \in m.itemIndex..m.mtItemIndex - 1
    <3>1. i # m.mtItemIndex \/ m'.mtItemIndex = m.mtItemIndex BY <1>5 DEF Item
    <3> QED BY <1>1, <3>1
  <2>2. i \in 1..NumItems BY <1>1, <2>1
  <2>3. refs[i].finished \/ Owned(i) BY <1>1, <1>5, <2>1 DEF Queue, Item
  <2> QED BY <2>2, <2>3 DEF Owned, Busy
<1>6. Open' => /\ m'.itemIndex < m'.mtItemIndex
               /\ m'.updates[m'.itemIndex].kind = "file" /\ ~refs'[m'.itemIndex].finished
  BY <1>1 DEF Open, Item
<1> QED BY <1>2, <1>3, <1>4, <1>5, <1>6 DEF Queue, Busy, Owned, Item

(* The current item is done, and nobody has it.                            *)
LEMMA NextQueue ==
    ASSUME Inv, AtLoop, ~LooksAhead,
           \A t \in Threads : Busy(t) => th[t].item >= m.itemIndex + 1,
           m'.updates = m.updates, th' = th, m'.threadIndices = m.threadIndices,
           \A i \in 1..NumItems : refs'[i].finished = refs[i].finished,
           m'.itemIndex = m.itemIndex + 1, m'.mtItemIndex = m.mtItemIndex,
           m'.lastReal = m.lastReal \/ m'.lastReal = m.itemIndex, m'.pc = "loop"
    PROVE  Queue' /\ ~Open'
  BY AheadOfCurrent, QueueFacts, SameQueue DEF AtLoop, Running, Open

LEMMA AsideQueue ==
    ASSUME Inv, Aside, Running'
    PROVE  Queue'
<1>1. /\ Running /\ m'.updates = m.updates /\ th' = th
  BY MainSettled, AsideKeeps DEF Aside, MainMove, Settled
<1>2. /\ Queue /\ m.itemIndex \in 1..NumItems + 1 /\ m.mtItemIndex \in 1..NumItems + 1
      /\ m.lastReal \in 0..NumItems /\ NumItems \in Nat
      /\ m.itemIndex <= m.mtItemIndex /\ m.lastReal <= m.itemIndex
      /\ \A t \in Threads : Busy(t) => th[t].item >= m.itemIndex
  BY <1>1, QueueFacts
<1>3. CASE PassesOver \/ Skips
  <2>1. /\ m'.pc = "loop" /\ m'.itemIndex = m.itemIndex /\ m'.mtItemIndex = m.mtItemIndex + 1
        /\ m'.lastReal = m.lastReal /\ m'.threadIndices = m.threadIndices
        /\ Item(m.mtItemIndex).kind # "file"
        /\ \A i \in 1..NumItems : refs'[i].finished = refs[i].finished
    BY <1>3 DEF PassesOver, Skips, MainIs, Kind, Keeps
  <2>2. Open' = Open /\ m'.itemIndex <= m'.mtItemIndex /\ m'.lastReal <= m'.itemIndex
    BY <1>1, <1>2, <2>1 DEF Open
  <2>3. Open' => /\ m'.itemIndex < m'.mtItemIndex
                 /\ Item(m'.itemIndex).kind = "file" /\ ~refs[m'.itemIndex].finished
    BY <1>1, <1>2, <2>1, <2>2 DEF Queue
  <2>4. \A t \in Threads : Busy(t) => th[t].item >= m'.itemIndex BY <1>2, <2>1
  <2> QED BY <1>1, <2>1, <2>2, <2>3, <2>4, SameQueue
<1>4. CASE GoesOn \/ (\E unit : WritesOwn(unit)) \/ SendsKept
  <2>1. /\ AtLoop /\ ~LooksAhead /\ m'.pc = "loop" /\ m'.itemIndex = m.itemIndex + 1
        /\ m'.mtItemIndex = m.mtItemIndex /\ m'.threadIndices = m.threadIndices
        /\ m'.lastReal = m.lastReal \/ m'.lastReal = m.itemIndex
        /\ \A i \in 1..NumItems : refs'[i].finished = refs[i].finished
        /\ \/ Item(m.itemIndex).kind # "file"
           \/ refs[m.itemIndex].finished
           \/ refs[m.itemIndex].skip
    <3>1. CASE GoesOn BY <3>1 DEF GoesOn, MainIs
    <3>2. CASE \E unit : WritesOwn(unit) BY <3>2 DEF WritesOwn, MainIs, Kind
    <3>3. CASE SendsKept
      <4>1. \A i \in 1..NumItems : refs'[i].finished = refs[i].finished
        BY <1>1, <3>3, QueueFacts, MainBasics DEF SendsKept, Keeps, RefsOK, RefType
      <4> QED BY <3>3, <4>1 DEF SendsKept, MainIs
    <3> QED BY <1>4, <3>1, <3>2, <3>3
  <2>2. \A t \in Threads : Busy(t) => th[t].item >= m.itemIndex + 1
    BY <1>1, <2>1, AheadOfCurrent, NobodysItem
  <2> QED BY <1>1, <2>1, <2>2, NextQueue
<1>5. CASE (\E f \in Threads : Opens(f)) \/ Waits \/ Locks
  <2>1. /\ m'.pc \in {"lock", "take"} /\ m'.itemIndex = m.itemIndex /\ refs' = refs
        /\ m'.mtItemIndex = m.mtItemIndex /\ m'.threadIndices = m.threadIndices
    BY <1>5 DEF Opens, Waits, Locks, MainIs
  <2>2. /\ m'.lastReal = m'.itemIndex /\ m.itemIndex <= NumItems /\ m.itemIndex < m.mtItemIndex
        /\ Item(m.itemIndex).kind = "file" /\ ~refs[m.itemIndex].finished
    <3>1. CASE \E f \in Threads : Opens(f) BY <3>1 DEF Opens, MainIs, AtLoop, Kind
    <3>2. CASE Waits \/ Locks BY <1>1, <1>2, <3>2, <2>1 DEF Waits, Locks, MainIs, Queue, Open
    <3> QED BY <1>5, <3>1, <3>2
  <2>3. Open' /\ m'.itemIndex <= m'.mtItemIndex /\ m'.lastReal <= m'.itemIndex
    BY <1>1, <1>2, <2>1, <2>2 DEF Open
  <2>4. \A t \in Threads : Busy(t) => th[t].item >= m'.itemIndex BY <1>2, <2>1
  <2> QED BY <1>1, <2>1, <2>2, <2>3, <2>4, SameQueue
<1>6. CASE (\E res \in Results : GivesUp(res)) \/ Finishes \/ Joins \/ Returns
  BY <1>6 DEF GivesUp, Finishes, Joins, Returns, MainIs, Leaves, Closes, Running
<1> QED BY <1>3, <1>4, <1>5, <1>6 DEF Aside

LEMMA StartsQueue ==
    ASSUME Inv, NEW k \in Threads, Starts(k)
    PROVE  Queue'
<1>1. /\ ~Busy(k) /\ Running /\ \A t \in Threads : t # k => th'[t] = th[t] BY StartsWaiting
<1>2. /\ Queue /\ m.itemIndex \in 1..NumItems + 1 /\ m.mtItemIndex \in 1..NumItems + 1
      /\ m.lastReal \in 0..NumItems /\ NumItems \in Nat /\ m.threadIndices \in Seq(Threads)
      /\ m.itemIndex <= m.mtItemIndex /\ m.lastReal <= m.itemIndex
      /\ \A t \in Threads : Busy(t) =>
            /\ th[t].item \in 1..NumItems /\ th[t].item >= m.itemIndex
            /\ th[t].item < m.mtItemIndex /\ ~refs[th[t].item].finished
  BY <1>1, QueueFacts
<1>3. /\ m'.updates = m.updates /\ m'.mtItemIndex = m.mtItemIndex + 1 /\ refs' = refs
      /\ m'.itemIndex = m.itemIndex /\ m'.lastReal = m.lastReal /\ m'.pc = "loop"
      /\ m'.threadIndices = Append(m.threadIndices, k)
      /\ th'[k].item = m.mtItemIndex /\ ~th'[k].isFree
      /\ Item(m.mtItemIndex).kind = "file" /\ m.mtItemIndex \in 1..NumItems
  BY <1>2 DEF Starts, MainIs, Settled, Kind, LooksAhead
<1>4. /\ Len(m.threadIndices) \in Nat /\ Len(m'.threadIndices) = Len(m.threadIndices) + 1
      /\ m'.threadIndices[Len(m.threadIndices) + 1] = k
      /\ \A j \in 1..Len(m.threadIndices) :
            m'.threadIndices[j] = m.threadIndices[j] /\ m.threadIndices[j] \in Threads
  BY <1>2, <1>3
<1>5. \A j \in 1..Len(m.threadIndices) : m.threadIndices[j] # k /\ Busy(m.threadIndices[j])
  BY <1>1, <1>2, <1>4 DEF Queue
<1>6. \A j \in 1..Len(m.threadIndices) + 1 :
         j \in 1..Len(m.threadIndices) \/ j = Len(m.threadIndices) + 1
  BY <1>4
<1>7. ASSUME NEW t \in Threads
      PROVE  ~th'[t].isFree <=> \E j \in 1..Len(m'.threadIndices) : m'.threadIndices[j] = t
  <2>1. CASE t = k BY <1>4, <1>3, <2>1
  <2>2. CASE t # k
    <3>1. Busy(t) <=> \E j \in 1..Len(m.threadIndices) : m.threadIndices[j] = t
      BY <1>1, <1>2 DEF Queue
    <3>2. (\E j \in 1..Len(m'.threadIndices) : m'.threadIndices[j] = t)
             <=> \E j \in 1..Len(m.threadIndices) : m.threadIndices[j] = t
      BY <1>4, <1>6, <2>2
    <3> QED BY <1>1, <2>2, <3>1, <3>2 DEF Busy
  <2> QED BY <2>1, <2>2
<1>8. ASSUME NEW a \in 1..Len(m'.threadIndices), NEW b \in 1..Len(m'.threadIndices), a < b
      PROVE  th'[m'.threadIndices[a]].item < th'[m'.threadIndices[b]].item
  <2>1. a \in 1..Len(m.threadIndices) BY <1>4, <1>8
  <2>2. m'.threadIndices[a] = m.threadIndices[a] /\ m.threadIndices[a] \in Threads
        /\ m.threadIndices[a] # k /\ Busy(m.threadIndices[a])
    BY <1>4, <1>5, <2>1
  <2>3. th'[m.threadIndices[a]] = th[m.threadIndices[a]] BY <1>1, <2>2
  <2>4. CASE b = Len(m.threadIndices) + 1 BY <1>2, <1>3, <1>4, <2>2, <2>3, <2>4
  <2>5. CASE b \in 1..Len(m.threadIndices)
    <3>1. th'[m.threadIndices[b]] = th[m.threadIndices[b]] /\ m'.threadIndices[b] = m.threadIndices[b]
      BY <1>1, <1>4, <1>5, <2>5
    <3>2. th[m.threadIndices[a]].item < th[m.threadIndices[b]].item
      BY <1>1, <1>2, <1>8, <2>1, <2>5 DEF Queue
    <3> QED BY <2>2, <2>3, <3>1, <3>2
  <2> QED BY <1>4, <1>6, <2>4, <2>5
<1>9. ~refs[m.mtItemIndex].finished BY <1>2, <1>3 DEF Inv, ItemsOK
<1>10. \A t \in Threads : ~th'[t].isFree =>
          th'[t].item >= m'.itemIndex /\ ~refs'[th'[t].item].finished
  BY <1>1, <1>2, <1>3, <1>9 DEF Busy
<1>11. ASSUME NEW i \in m'.itemIndex..m'.mtItemIndex - 1, m'.updates[i].kind = "file"
       PROVE  refs'[i].finished \/ \E t \in Threads : ~th'[t].isFree /\ th'[t].item = i
  <2>1. CASE i = m.mtItemIndex BY <1>3, <2>1
  <2>2. CASE i # m.mtItemIndex
    <3>1. i \in m.itemIndex..m.mtItemIndex - 1 BY <1>2, <1>3, <2>2
    <3>2. refs[i].finished \/ Owned(i) BY <1>1, <1>2, <1>3, <1>11, <3>1 DEF Queue, Item
    <3> QED BY <1>1, <1>3, <3>2 DEF Owned, Busy
  <2> QED BY <2>1, <2>2
<1>12. Open' => /\ m'.itemIndex < m'.mtItemIndex
                /\ m'.updates[m'.itemIndex].kind = "file" /\ ~refs'[m'.itemIndex].finished
  BY <1>3, <1>1, <1>2 DEF Open, Queue, Item
<1>13. m'.itemIndex <= m'.mtItemIndex /\ m'.lastReal <= m'.itemIndex BY <1>2, <1>3
<1> QED BY <1>3, <1>7, <1>8, <1>10, <1>11, <1>12, <1>13 DEF Queue, Busy, Owned, Item

LEMMA TakesQueue ==
    ASSUME Inv, NEW k \in Threads, TakesFront(k) \/ TakesLater(k)
    PROVE  Queue'
<1>1. /\ Drops(k) /\ m.pc = "take" /\ Running /\ Busy(k) /\ ~Busy(k)'
      /\ \A t \in Threads : t # k => th'[t] = th[t]
  BY TakesListed DEF Takes
<1>2. /\ Queue /\ ItemsOK /\ m.itemIndex \in 1..NumItems + 1 /\ m.mtItemIndex \in 1..NumItems + 1
      /\ m.lastReal \in 0..NumItems /\ NumItems \in Nat /\ m.threadIndices \in Seq(Threads)
      /\ \A t \in Threads : Busy(t) =>
            /\ th[t].item \in 1..NumItems /\ th[t].item >= m.itemIndex
            /\ th[t].item < m.mtItemIndex /\ ~refs[th[t].item].finished
  BY <1>1, QueueFacts
<1>3. /\ m'.updates = m.updates /\ m'.mtItemIndex = m.mtItemIndex /\ m'.pc = "loop"
      /\ m'.lastReal = m.lastReal /\ Removes(k) /\ th'[k].item = th[k].item /\ th'[k].isFree
  BY <1>1 DEF TakesFront, TakesLater, MainIs, Settled, Drops
<1>4. Open /\ m.lastReal = m.itemIndex /\ m.itemIndex < m.mtItemIndex /\ m.itemIndex <= NumItems
      /\ Item(m.itemIndex).kind = "file" /\ ~refs[m.itemIndex].finished
  BY <1>1, <1>2 DEF Queue, Open
<1>5. PICK j \in 1..Len(m.threadIndices) :
         m.threadIndices[j] = k /\ m'.threadIndices = RemoveAt(m.threadIndices, j)
  BY <1>3 DEF Removes
<1>6. /\ \A t : (\E i \in 1..Len(m'.threadIndices) : m'.threadIndices[i] = t)
                   <=> (t # k /\ \E i \in 1..Len(m.threadIndices) : m.threadIndices[i] = t)
      /\ \A a, b \in 1..Len(m'.threadIndices) : a < b =>
                 \E c, d \in 1..Len(m.threadIndices) :
                     /\ c < d /\ m'.threadIndices[a] = m.threadIndices[c]
                     /\ m'.threadIndices[b] = m.threadIndices[d]
  <2>1. IsInjective(m.threadIndices) BY <1>2 DEF ItemsOK
  <2>2. SameBut(m.threadIndices[j], m.threadIndices, m'.threadIndices)
    BY <1>2, <1>5, <2>1, RemovedFromQueue
  <2> QED BY <1>5, <2>2 DEF SameBut
<1>7. \A t \in Threads :
          ~th'[t].isFree <=> \E i \in 1..Len(m'.threadIndices) : m'.threadIndices[i] = t
  <2> SUFFICES ASSUME NEW t \in Threads
               PROVE  ~th'[t].isFree <=> \E i \in 1..Len(m'.threadIndices) : m'.threadIndices[i] = t
    OBVIOUS
  <2>1. Busy(t) <=> \E i \in 1..Len(m.threadIndices) : m.threadIndices[i] = t
    BY <1>1, <1>2 DEF Queue
  <2>2. (\E i \in 1..Len(m'.threadIndices) : m'.threadIndices[i] = t)
                   <=> (t # k /\ \E i \in 1..Len(m.threadIndices) : m.threadIndices[i] = t)
    BY <1>6
  <2>3. ~th'[t].isFree <=> t # k /\ Busy(t) BY <1>1, <1>3 DEF Busy
  <2> QED BY <2>1, <2>2, <2>3
<1>8. \A a, b \in 1..Len(m'.threadIndices) :
          a < b => th'[m'.threadIndices[a]].item < th'[m'.threadIndices[b]].item
  <2> SUFFICES ASSUME NEW a \in 1..Len(m'.threadIndices), NEW b \in 1..Len(m'.threadIndices), a < b
               PROVE  th'[m'.threadIndices[a]].item < th'[m'.threadIndices[b]].item
    OBVIOUS
  <2>1. PICK c \in 1..Len(m.threadIndices), d \in 1..Len(m.threadIndices) :
            /\ c < d /\ m'.threadIndices[a] = m.threadIndices[c]
            /\ m'.threadIndices[b] = m.threadIndices[d]
    BY <1>6
  <2>2. th[m.threadIndices[c]].item < th[m.threadIndices[d]].item BY <1>1, <1>2, <2>1 DEF Queue
  <2>3. \A t \in Threads : th'[t].item = th[t].item BY <1>1, <1>3
  <2>4. m.threadIndices[c] \in Threads /\ m.threadIndices[d] \in Threads BY <1>2
  <2> QED BY <2>1, <2>2, <2>3, <2>4
<1>9. CASE TakesFront(k)
  <2>1. m'.itemIndex = m.itemIndex + 1 /\ refs' = refs /\ th[k].item = m.itemIndex
    BY <1>9 DEF TakesFront, MainIs
  <2>2. ~Open' /\ m'.itemIndex <= m'.mtItemIndex /\ m'.lastReal <= m'.itemIndex
    BY <1>2, <1>3, <1>4, <2>1 DEF Open
  <2>3. ASSUME NEW t \in Threads, ~th'[t].isFree
        PROVE  th'[t].item >= m'.itemIndex /\ ~refs'[th'[t].item].finished
    BY <1>1, <1>3, <2>3, <1>2, <2>1 DEF Busy, ItemsOK
  <2>4. ASSUME NEW i \in m'.itemIndex..m'.mtItemIndex - 1, m'.updates[i].kind = "file"
        PROVE  refs'[i].finished \/ \E t \in Threads : ~th'[t].isFree /\ th'[t].item = i
    <3>1. i \in m.itemIndex..m.mtItemIndex - 1 /\ i # m.itemIndex BY <1>2, <1>3, <2>1
    <3>2. refs[i].finished \/ Owned(i) BY <1>1, <1>2, <1>3, <2>4, <3>1 DEF Queue, Item
    <3> QED BY <1>1, <2>1, <3>1, <3>2 DEF Owned, Busy
  <2> QED BY <1>3, <1>7, <1>8, <2>2, <2>3, <2>4 DEF Queue, Busy, Owned, Item
<1>10. CASE TakesLater(k)
  <2>1. /\ m'.itemIndex = m.itemIndex /\ th[k].item # m.itemIndex
        /\ th[k].item \in 1..NumItems /\ refs'[th[k].item].finished
        /\ \A i \in 1..NumItems : i # th[k].item => refs'[i] = refs[i]
    BY <1>10 DEF TakesLater, MainIs, Keeps
  <2>2. Open' /\ m'.itemIndex < m'.mtItemIndex /\ m'.lastReal <= m'.itemIndex
        /\ m'.updates[m'.itemIndex].kind = "file" /\ ~refs'[m'.itemIndex].finished
    BY <1>2, <1>3, <1>4, <2>1 DEF Open, Item
  <2>3. ASSUME NEW t \in Threads, ~th'[t].isFree
        PROVE  th'[t].item >= m'.itemIndex /\ ~refs'[th'[t].item].finished
    BY <1>1, <1>3, <2>3, <1>2, <2>1 DEF Busy, ItemsOK
  <2>4. ASSUME NEW i \in m'.itemIndex..m'.mtItemIndex - 1, m'.updates[i].kind = "file"
        PROVE  refs'[i].finished \/ \E t \in Threads : ~th'[t].isFree /\ th'[t].item = i
    <3>1. i \in m.itemIndex..m.mtItemIndex - 1 /\ i \in 1..NumItems BY <1>2, <1>3, <2>1
    <3>2. refs[i].finished \/ Owned(i) BY <1>1, <1>2, <1>3, <2>4, <3>1 DEF Queue, Item
    <3> QED BY <1>1, <2>1, <3>1, <3>2 DEF Owned, Busy
  <2>5. m'.itemIndex <= m'.mtItemIndex BY <1>2, <1>3, <1>4, <2>1
  <2> QED BY <1>3, <1>7, <1>8, <2>2, <2>3, <2>4, <2>5 DEF Queue, Busy, Owned, Item
<1> QED BY <1>9, <1>10

LEMMA MainQueue ==
    ASSUME Inv, MainMove
    PROVE  Queue'
<1>1. CASE ~Running' BY <1>1 DEF Queue
<1>2. CASE Halts \/ \E k \in Threads : TakesFailed(k) \/ TakesUnwritten(k)
  <2>1. ~Running'
    BY <1>2 DEF Halts, TakesFailed, TakesUnwritten, Leaves, Closes, MainIs, Running
  <2> QED BY <1>1, <2>1
<1>3. CASE Aside /\ Running' BY <1>3, AsideQueue
<1> QED BY <1>1, <1>2, <1>3, StartsQueue, TakesQueue, MainCases DEF Takes

LEMMA SameReal ==
    ASSUME Inv,
           \A t \in Threads : Busy(t)' =>
              /\ Busy(t) /\ th'[t].item = th[t].item
              /\ out'[t].unlockSent = out[t].unlockSent /\ out'[t].realMode = out[t].realMode
              /\ out'[t].realEvent = out[t].realEvent,
           Running' => \A t \in Threads : Busy(t)' =>
              (out[t].unlockSent <=> Open' /\ th[t].item = m'.itemIndex)
    PROVE  RealOK'
  BY DEF Inv, RealOK

LEMMA StartsReal ==
    ASSUME Inv, NEW k \in Threads, Starts(k)
    PROVE  RealOK'
<1>1. /\ ~Busy(k) /\ Running
      /\ \A t \in Threads : t # k => th'[t] = th[t] /\ out'[t] = out[t]
  BY StartsWaiting
<1>2. /\ RealOK /\ Queue /\ m.itemIndex \in 1..NumItems + 1 /\ m.mtItemIndex \in 1..NumItems + 1
      /\ NumItems \in Nat
  BY <1>1, QueueFacts
<1>3. /\ ~out'[k].unlockSent /\ ~out'[k].realMode /\ ~out'[k].realEvent
      /\ th'[k].item = m.mtItemIndex
  BY DEF Starts, Flags
<1>4. m'.itemIndex = m.itemIndex /\ m'.lastReal = m.lastReal /\ m'.updates = m.updates
  BY DEF Starts, MainIs, Settled
<1>5. Open' = Open /\ (Open => m.itemIndex < m.mtItemIndex) BY <1>1, <1>2, <1>4 DEF Open, Queue
<1>6. \A t \in Threads : Busy(t)' /\ ~out'[t].unlockSent => ~out'[t].realMode /\ ~out'[t].realEvent
  BY <1>1, <1>2, <1>3 DEF RealOK, Busy
<1>7. \A t, u \in Threads :
         Busy(t)' /\ Busy(u)' /\ out'[t].unlockSent /\ out'[u].unlockSent => t = u
  BY <1>1, <1>2, <1>3 DEF RealOK, Busy
<1>8. ASSUME NEW t \in Threads, Busy(t)'
      PROVE  out'[t].unlockSent <=> Open' /\ th'[t].item = m'.itemIndex
  BY <1>2, <1>3, <1>4, <1>5, <1>1, <1>8 DEF Busy, RealOK
<1> QED BY <1>6, <1>7, <1>8 DEF RealOK

LEMMA OpensReal ==
    ASSUME Inv, NEW f \in Threads, Opens(f)
    PROVE  /\ RealOK' /\ ~Open /\ Open' /\ Running
           /\ \A t \in Threads : Busy(t) => ~out[t].unlockSent
           /\ \A t \in Threads : t # f => th[t].item # m.itemIndex
  BY QueueFacts, FrontsAlone, SMTT(30) DEF Opens, AtLoop, MainIs, Settled, Stirs, Running,
     Fronts, Open, RealOK, Busy

(* The current item is another one now, and nobody has the archive.        *)
LEMMA PassedItem ==
    ASSUME Inv, NEW unit, GoesOn \/ WritesOwn(unit) \/ SendsKept
    PROVE  /\ ~Open /\ ~Open' /\ Running /\ m.itemIndex \in 1..NumItems
           /\ \A t \in Threads : Busy(t) => th[t].item >= m.itemIndex + 1 /\ ~out[t].unlockSent
           /\ AtLoop /\ ~LooksAhead /\ m'.itemIndex = m.itemIndex + 1 /\ m'.pc = "loop"
           /\ th' = th /\ out' = out /\ mtSem' = mtSem /\ prog' = prog
           /\ SameUpdates
           /\ m'.mtItemIndex = m.mtItemIndex
  BY AheadOfCurrent, NobodysItem, QueueFacts DEF GoesOn, MainIs, Settled, WritesOwn, Kind,
    SendsKept, AtLoop, Running, Open

LEMMA MainReal ==
    ASSUME Inv, MainMove
    PROVE  RealOK'
<1>1. RealOK /\ m'.updates = m.updates BY MainSettled DEF Inv, Settled
<1>2. CASE PassesOver \/ Skips \/ Waits \/ Locks
  BY <1>2, <1>1, SameReal DEF PassesOver, Skips, Waits, Locks, MainIs, AtLoop, Running, Open,
     Busy, RealOK
<1>3. ASSUME NEW unit, GoesOn \/ WritesOwn(unit) \/ SendsKept PROVE RealOK'
  BY <1>3, PassedItem, SameReal DEF Busy
<1>4. CASE (\E res \in Results : GivesUp(res)) \/ Finishes \/ Joins \/ Halts \/ Returns
  <2>1. ~Running'
    BY <1>4 DEF GivesUp, Finishes, Joins, Halts, Returns, MainIs, Leaves, Closes, Running
  <2>2. \A t \in Threads : th'[t].isFree = th[t].isFree /\ th'[t].item = th[t].item
    BY <1>4 DEF GivesUp, Finishes, Joins, Halts, Returns, Touches
  <2>3. \A t \in Threads :
              /\ out'[t].unlockSent = out[t].unlockSent /\ out'[t].realMode = out[t].realMode
              /\ out'[t].realEvent = out[t].realEvent
    BY <1>4 DEF GivesUp, Finishes, Joins, Halts, Returns, Stirs, Flags, SameFlags
  <2> QED BY <2>1, <2>2, <2>3, SameReal DEF Busy
<1>5. ASSUME NEW k \in Threads, Takes(k) PROVE RealOK'
  <2>1. /\ Drops(k) /\ Running /\ Busy(k) /\ ~Busy(k)'
        /\ \A t \in Threads : t # k => th'[t] = th[t] /\ out'[t] = out[t]
    BY <1>5, TakesListed
  <2>2. \A t \in Threads : Busy(t)' => Busy(t) /\ t # k BY <2>1 DEF Busy
  <2>3. ASSUME Running', NEW t \in Threads, Busy(t)'
        PROVE  out[t].unlockSent <=> Open' /\ th[t].item = m'.itemIndex
    <3>1. out[t].unlockSent <=> Open /\ th[t].item = m.itemIndex
      BY <1>1, <2>1, <2>2, <2>3 DEF RealOK
    <3>2. CASE TakesFront(k)
      <4>1. /\ th[k].item = m.itemIndex /\ m'.itemIndex = m.itemIndex + 1
            /\ m'.lastReal = m.lastReal
        BY <3>2 DEF TakesFront, MainIs
      <4>2. th[t].item # m.itemIndex BY <2>1, <2>2, <2>3, <4>1, FrontsAlone DEF Fronts
      <4>3. m.lastReal <= m.itemIndex /\ m.lastReal \in Nat /\ m.itemIndex \in Nat
        BY <2>1, QueueFacts
      <4>4. ~Open' BY <4>1, <4>3 DEF Open
      <4> QED BY <3>1, <4>2, <4>4
    <3>3. CASE TakesLater(k)
      <4>1. m'.itemIndex = m.itemIndex /\ m'.lastReal = m.lastReal
        BY <3>3 DEF TakesLater, MainIs
      <4>2. Open' = Open BY <1>1, <4>1 DEF Open
      <4> QED BY <3>1, <4>1, <4>2
    <3>4. CASE TakesFailed(k) \/ TakesUnwritten(k)
      BY <2>3, <3>4 DEF TakesFailed, TakesUnwritten, Leaves, Closes, MainIs, Running
    <3> QED BY <1>5, <3>2, <3>3, <3>4 DEF Takes
  <2> QED BY <2>1, <2>2, <2>3, SameReal
<1> QED BY <1>2, <1>3, <1>4, <1>5, StartsReal, OpensReal DEF MainMove, Takes

LEMMA SameStream ==
    ASSUME Inv, MainMove, NEW u \in Threads,
           th'[u].item = th[u].item, Busy(u)' => Busy(u), Called(u)' => Called(u),
           Listed(u)' => Listed(u),
           out'[u].pos = out[u].pos, out'[u].blocks = out[u].blocks, out'[u].data = out[u].data,
           out'[u].total = out[u].total, out'[u].realMode = out[u].realMode,
           out'[u].base \in Nat,
           Busy(u)' /\ out'[u].unlockSent => out'[u].base <= arc'.pos
    PROVE  StreamOK(u)'
<1>1. /\ StreamOK(u) /\ SameUpdates
      /\ (Running' => Running)
      /\ th'[u].pc = th[u].pc /\ th'[u].res = th[u].res /\ th'[u].pass = th[u].pass
      /\ th'[u].n = th[u].n /\ th'[u].packSize = th[u].packSize
  BY MainSettled, MainThreads DEF Inv, Settled
<1>2. Item(th[u].item)' = Item(th[u].item) /\ LastPass(th[u].item)' = LastPass(th[u].item)
      /\ Size(u)' = Size(u) /\ Packed(u)' = Packed(u) /\ Content(out[u])' = Content(out[u])
      /\ Room(out[u])' = Room(out[u])
  BY <1>1 DEF Item, LastPass, Size, Packed, Content, Room
<1>3. Live(u)' = Live(u) /\ (Packs(u)' => Packs(u))
  <2> HIDE DEF Listed
  <2> QED BY <1>1 DEF Live, Packs, Ended
<1> HIDE DEF Called, Packs, Live
<1> QED BY <1>1, <1>2, <1>3 DEF StreamOK

(* The blocks of a stream that nobody writes to have been given back.      *)
LEMMA EmptyStream ==
    ASSUME Inv, MainMove, NEW u \in Threads, ~Called(u)', ~Live(u), ~Packs(u)',
           out'[u].pos = out[u].pos, out'[u].blocks = 0, out'[u].data = <<>>, out'[u].total = 0,
           out'[u].base \in Nat,
           Busy(u)' /\ out'[u].unlockSent => out'[u].base <= arc'.pos
    PROVE  StreamOK(u)'
<1>1. /\ StreamOK(u) /\ th'[u].pc = th[u].pc /\ th'[u].packSize = th[u].packSize
  BY MainThreads DEF Inv
<1>2. ~Live(u)' BY <1>1 DEF Live
<1>3. <<>> \in Seq(Units) /\ Room(out[u])' = 0 BY ManyThreads DEF Room
<1> HIDE DEF Called, Packs, Live
<1> QED BY <1>1, <1>2, <1>3 DEF StreamOK

LEMMA AsideStream ==
    ASSUME Inv, Aside, NEW u \in Threads
    PROVE  StreamOK(u)'
<1>1. /\ MainMove /\ StreamOK(u) /\ th' = th /\ mtSem'.list = mtSem.list
      /\ (Busy(u)' => Busy(u)) /\ (Called(u)' => Called(u)) /\ (Listed(u)' => Listed(u))
  BY AsideKeeps DEF Inv, Aside, MainMove, Busy, Called, Listed
<1>2. out[u].base \in Nat /\ (Busy(u) /\ out[u].unlockSent => out[u].base <= arc.pos)
      /\ ArcType /\ arc.pos \in Nat
  BY <1>1 DEF StreamOK, Inv, ArcType
<1>3. CASE out' = out /\ (arc'.pos = arc.pos \/ arc'.pos = arc.pos + 1)
  BY <1>1, <1>2, <1>3, SameStream
<1>4. ASSUME NEW unit, GoesOn \/ WritesOwn(unit) \/ SendsKept PROVE StreamOK(u)'
  BY <1>4, PassedItem, <1>1, <1>2, SameStream
<1>5. CASE \/ PassesOver \/ Skips \/ (\E res \in Results : GivesUp(res)) \/ Waits \/ Locks
           \/ Finishes \/ Joins
  BY <1>5, <1>3 DEF PassesOver, Skips, GivesUp, Waits, Locks, Finishes, Joins, Appends, Archive
<1>6. ASSUME NEW f \in Threads, Opens(f) PROVE StreamOK(u)'
  <2>1. Busy(u) => ~out[u].unlockSent BY <1>6, OpensReal
  <2>2. CASE u # f BY <1>6, <2>2, <1>1, <1>2, <2>1, SameStream DEF Opens, Stirs
  <2>3. CASE u = f BY <1>6, <2>3, <1>2, <1>1, SameStream DEF Opens, Stream, Flags, ArcType
  <2> QED BY <2>2, <2>3
<1>7. CASE Returns
  <2>1. /\ out'[u].pos = out[u].pos /\ out'[u].blocks = 0 /\ out'[u].data = <<>>
        /\ out'[u].total = 0 /\ out'[u].base = out[u].base /\ arc' = arc
        /\ out'[u].unlockSent = out[u].unlockSent
    BY <1>7 DEF Returns, Stream
  <2>2. ~Running' /\ th[u].pc \in {"none", "exit"}
    <3>1. Closing /\ u < m.closing /\ ~Running'
      BY <1>7, ManyThreads DEF Returns, Closing, Closes, MainIs, Running
    <3> QED BY <3>1 DEF Inv, Life
  <2>3. ~Called(u)' /\ ~Live(u) /\ ~Packs(u)' BY <1>1, <2>2 DEF Inv, Life, Live, Packs
  <2> QED BY <1>1, <1>2, <2>1, <2>3, EmptyStream
<1> QED BY <1>4, <1>5, <1>6, <1>7 DEF Aside

LEMMA StartsStream ==
    ASSUME Inv, NEW k \in Threads, Starts(k), NEW u \in Threads
    PROVE  StreamOK(u)'
<1>1. /\ ~Busy(k) /\ ~Live(k) /\ ~Ended(k) /\ ~Listed(k) /\ ~th[k].exitThread
      /\ \A t \in Threads : t # k => th'[t] = th[t] /\ out'[t] = out[t]
      /\ mtSem' = mtSem
  BY StartsWaiting
<1>2. MainMove /\ arc' = arc /\ StreamOK(u) BY DEF MainMove, Starts, Inv
<1>3. CASE u # k BY <1>1, <1>3, <1>2, SameStream DEF Busy, Called, Listed, StreamOK
<1>4. CASE u = k
  <2>1. /\ out'[k].pos = 0 /\ out'[k].blocks = 0 /\ out'[k].data = <<>> /\ out'[k].total = 0
        /\ ~out'[k].realMode /\ ~out'[k].unlockSent /\ out'[k].base = out[k].base
    BY DEF Starts, Stream, Flags
  <2>2. th'[k].pc = th[k].pc /\ th'[k].packSize = th[k].packSize BY <1>2, MainThreads
  <2>3. ~Live(k)' /\ ~Packs(k)' BY <1>1, <2>2 DEF Live, Packs, Ended, Listed
  <2>4. <<>> \in Seq(Units) /\ Room(out[k])' = 0 BY <2>1, ManyThreads DEF Room
  <2>5. out[k].base \in Nat /\ th[k].packSize \in Nat BY <1>2, <1>4 DEF StreamOK
  <2> HIDE DEF Live, Packs, Called
  <2> QED BY <1>4, <2>1, <2>2, <2>3, <2>4, <2>5 DEF StreamOK
<1> QED BY <1>3, <1>4

LEMMA TakesStream ==
    ASSUME Inv, NEW k \in Threads, Takes(k), NEW u \in Threads
    PROVE  StreamOK(u)'
<1>1. /\ Drops(k) /\ Running /\ Busy(k) /\ ~Called(k) /\ ~Live(k) /\ ~Busy(k)'
      /\ \A t \in Threads : t # k => th'[t] = th[t] /\ out'[t] = out[t]
      /\ ~Listed(k)' /\ \A t \in Threads : t # k => (Listed(t)' <=> Listed(t))
      /\ th[k].pc # "push"
  BY TakesListed
<1>2. MainMove /\ StreamOK(u) BY DEF MainMove, Takes, Inv
<1>2a. out[u].base \in Nat /\ (Busy(u) /\ out[u].unlockSent => out[u].base <= arc.pos)
  BY <1>2 DEF StreamOK
<1>3. CASE u # k
  <2>1. th'[u] = th[u] /\ out'[u] = out[u] /\ (Busy(u)' => Busy(u)) /\ (Called(u)' => Called(u))
        /\ (Listed(u)' => Listed(u))
    <3> HIDE DEF Listed
    <3> QED BY <1>1, <1>3 DEF Busy, Called
  <2>2. Busy(u) /\ out[u].unlockSent => out[u].base <= arc'.pos
    BY <1>2a, <1>1, <1>3, FrontsAlone DEF TakesFront, Fronts, Inv, RealOK, Takes, TakesFailed,
       TakesUnwritten, TakesLater, WriteFailed
  <2> QED BY <1>2, <1>2a, <2>1, <2>2, SameStream
<1>4. CASE u = k
  <2>1. th'[k].item = th[k].item /\ th'[k].pc = th[k].pc
        /\ th'[k].compressEvent = th[k].compressEvent /\ th'[k].exitThread = th[k].exitThread
    BY <1>1 DEF Drops, Touches
  <2>2. ~Called(k)' /\ ~Packs(k)'
    <3> HIDE DEF Listed
    <3> QED BY <1>1, <2>1 DEF Called, Packs, Ended
  <2>3. CASE out' = out BY <1>1, <1>2, <1>2a, <1>4, <2>1, <2>2, <2>3, SameStream
  <2>4. CASE \E base \in Nat : Frees(k, base)
    BY <1>1, <1>2, <1>4, <2>2, <2>4, EmptyStream DEF Frees, Stream
  <2>5. out[k].base \in Nat /\ 0 \in Nat BY <1>2a, <1>4
  <2> QED BY <2>3, <2>4, <2>5 DEF Takes, TakesFailed, TakesUnwritten, TakesFront, TakesLater
<1> QED BY <1>3, <1>4

LEMMA MainStreams ==
    ASSUME Inv, MainMove
    PROVE  \A u \in Threads : StreamOK(u)'
<1>1. ASSUME Halts, NEW u \in Threads PROVE StreamOK(u)'
  <2>1. /\ mtSem' = mtSem /\ arc' = arc /\ th'[u].item = th[u].item
        /\ th'[u].isFree = th[u].isFree
        /\ out'[u].pos = out[u].pos /\ out'[u].blocks = out[u].blocks
        /\ out'[u].data = out[u].data /\ out'[u].total = out[u].total
        /\ out'[u].realMode = out[u].realMode /\ out'[u].base = out[u].base
        /\ out'[u].unlockSent = out[u].unlockSent
    BY <1>1 DEF Halts, Touches, Stirs, Stream, Flags
  <2>2. th'[u] = th[u] \/ th'[u].exitThread BY <1>1 DEF Halts, Touches
  <2>3. (Called(u)' => Called(u)) /\ (Busy(u)' => Busy(u)) /\ (Listed(u)' => Listed(u))
    BY <2>1, <2>2 DEF Called, Busy, Listed
  <2>4. out[u].base \in Nat /\ (Busy(u) /\ out[u].unlockSent => out[u].base <= arc.pos)
    BY DEF Inv, StreamOK
  <2> QED BY <2>1, <2>3, <2>4, SameStream
<1> QED BY <1>1, AsideStream, StartsStream, TakesStream, MainCases

LEMMA SameKept ==
    ASSUME Inv, MainMove, NEW i \in 1..NumItems,
           refs'[i].packSize = refs[i].packSize, refs'[i].data = refs[i].data,
           refs'[i].finished = refs[i].finished
    PROVE  KeptOK(i)'
  BY MainSettled, MainBasics DEF Inv, Settled, PackedSize, LastPass, Item, KeptOK

(* What a thread that has finished has in its stream.                      *)
LEMMA DoneContent ==
    ASSUME Inv, NEW k \in Threads, Packs(k), Busy(k)
    PROVE  /\ th[k].item \in 1..NumItems /\ th[k].pass = LastPass(th[k].item)
           /\ th[k].n = PackedSize(th[k].item) /\ PackedSize(th[k].item) \in Nat
           /\ LastPass(th[k].item) \in Nat
           /\ Content(out[k]) \in Seq(Units) /\ th[k].packSize \in Nat
           /\ out[k].realMode => Content(out[k]) = <<>>
           /\ ~out[k].realMode =>
                 /\ Content(out[k]) = PassUnits(th[k].item, LastPass(th[k].item), PackedSize(th[k].item))
                 /\ th[k].packSize = PackedSize(th[k].item)
<1>1. StreamOK(k) /\ Shapes /\ ItemsOK BY DEF Inv
<1>2. /\ th[k].item \in 1..NumItems /\ LastPass(th[k].item) \in Nat \ {0}
      /\ LastPass(th[k].item) <= Len(Item(th[k].item).passes)
      /\ Len(Item(th[k].item).passes) \in Nat \ {0}
      /\ \A p \in 1..Len(Item(th[k].item).passes) : Item(th[k].item).passes[p] \in Nat
      /\ NumItems \in Nat
  BY <1>1, FileFacts
<1>3. PackedSize(th[k].item) \in Nat BY <1>2 DEF PackedSize
<1>4. /\ th[k].pass = LastPass(th[k].item) /\ th[k].n = Size(k)
      /\ (~out[k].realMode => th[k].packSize = th[k].n)
      /\ IF out[k].realMode THEN out[k].total = 0 ELSE Content(out[k]) = Packed(k)
      /\ th[k].packSize \in Nat /\ out[k].data \in Seq(Units)
  BY <1>1 DEF StreamOK
<1>5. th[k].n = PackedSize(th[k].item) BY <1>4 DEF Size, PackedSize
<1>6. th[k].item \in Nat BY <1>2
<1>7. out[k].realMode => Content(out[k]) = <<>> BY <1>4, <1>6, EmptyContent
<1>8. ~out[k].realMode => Content(out[k])
          = PassUnits(th[k].item, LastPass(th[k].item), PackedSize(th[k].item))
  BY <1>4, <1>5 DEF Packed
<1>9. Content(out[k]) \in Seq(Units)
  <2>1. <<>> \in Seq(Units) OBVIOUS
  <2>2. PassUnits(th[k].item, LastPass(th[k].item), PackedSize(th[k].item)) \in Seq(Units)
    BY <1>2, <1>3, <1>6, PassUnitsIs
  <2> QED BY <1>7, <1>8, <2>1, <2>2
<1> QED BY <1>2, <1>3, <1>4, <1>5, <1>7, <1>8, <1>9

LEMMA MainKept ==
    ASSUME Inv, MainMove
    PROVE  \A i \in 1..NumItems : KeptOK(i)'
<1> SUFFICES ASSUME NEW i \in 1..NumItems PROVE KeptOK(i)' OBVIOUS
<1>1. CASE refs' = refs BY <1>1, SameKept
<1>2. CASE Skips BY <1>2, SameKept DEF Skips, Keeps
<1>3. CASE SendsKept
  <2>1. CASE i # m.itemIndex BY <1>3, <2>1, SameKept DEF SendsKept, Keeps
  <2>2. CASE i = m.itemIndex
    <3>1. refs'[i].packSize = refs[i].packSize /\ refs'[i].data = <<>>
          /\ m'.itemIndex = m.itemIndex + 1
      BY <1>3, <2>2 DEF SendsKept, MainIs
    <3>2. ~(i >= m'.itemIndex) /\ refs[i].packSize \in Nat /\ <<>> \in Seq(Units)
      BY <2>2, <3>1 DEF Inv, KeptOK
    <3> QED BY <3>1, <3>2 DEF KeptOK
  <2> QED BY <2>1, <2>2
<1>4. CASE Returns
  <2>1. refs'[i].packSize = refs[i].packSize /\ refs'[i].data = <<>> /\ ~Running'
    BY <1>4 DEF Returns, Closes, MainIs, Running
  <2>2. refs[i].packSize \in Nat /\ <<>> \in Seq(Units) BY DEF Inv, KeptOK
  <2> QED BY <2>1, <2>2 DEF KeptOK
<1>5. ASSUME NEW k \in Threads, TakesLater(k) PROVE KeptOK(i)'
  <2>1. CASE i # th[k].item BY <1>5, <2>1, SameKept DEF TakesLater, Keeps
  <2>2. CASE i = th[k].item
    <3>1. /\ Busy(k) /\ Packs(k) /\ Running /\ th[k].item # m.itemIndex
      BY <1>5, TakesListed DEF Takes, TakesLater, Packs
    <3>2. ~out[k].realMode BY <3>1 DEF Inv, RealOK
    <3>3. /\ Content(out[k]) = PassUnits(i, LastPass(i), PackedSize(i)) /\ PackedSize(i) \in Nat
          /\ th[k].packSize = PackedSize(i) /\ Content(out[k]) \in Seq(Units)
      BY <2>2, <3>1, <3>2, DoneContent
    <3>4. refs'[i].data = Content(out[k]) /\ refs'[i].packSize = th[k].packSize
      BY <1>5, <2>2 DEF TakesLater
    <3>5. PackedSize(i)' = PackedSize(i) /\ LastPass(i)' = LastPass(i)
      BY MainSettled DEF PackedSize, LastPass, Item, Settled
    <3> QED BY <3>3, <3>4, <3>5 DEF KeptOK
  <2> QED BY <2>1, <2>2
<1>6. \/ refs' = refs \/ Skips \/ SendsKept \/ Returns \/ \E k \in Threads : TakesLater(k)
  <2>1. CASE Aside
    BY <2>1 DEF Aside, PassesOver, GivesUp, GoesOn, WritesOwn, Opens, Waits, Locks, Finishes,
       Joins
  <2>2. CASE Halts \/ (\E k \in Threads : Starts(k)) \/ \E k \in Threads : Takes(k)
    BY <2>2 DEF Halts, Starts, Takes, TakesFailed, TakesUnwritten, TakesFront
  <2> QED BY <2>1, <2>2, MainCases
<1> QED BY <1>1, <1>2, <1>3, <1>4, <1>5, <1>6

(* A step that leaves the archive, the current item and its thread alone.  *)
LEMMA SameArchiveData ==
    ASSUME Inv, MainMove, arc'.data = arc.data, arc'.pos = arc.pos,
           arc'.curPos = arc.curPos, arc'.headerPos = arc.headerPos, arc.failed => arc'.failed,
           Running' => /\ m'.itemIndex = m.itemIndex /\ m'.lastReal = m.lastReal
                       /\ \A f \in Threads : Fronts(f)' /\ Open =>
                             /\ Fronts(f) /\ th'[f].item = th[f].item
                             /\ out'[f].base = out[f].base /\ out'[f].realMode = out[f].realMode
                             /\ Listed(f)' <=> Listed(f)
    PROVE  ArcOK' /\ ArcData'
<1> SUFFICES ASSUME Good'
             PROVE  /\ Open' => \A f \in Threads : Fronts(f)' => FrontPlace(f)' /\ FrontData(f)'
                    /\ ~Open' => /\ arc'.curPos = arc'.pos /\ arc'.pos = Len(arc'.data)
                                 /\ Alike(m'.outSeqMode, arc'.data, Before')
  BY FrontOKNow
<1>1. /\ Running' /\ Running /\ Good
      /\ SameUpdates
  BY MainSettled DEF Good, Settled
<1>2. Open' = Open /\ Before' = Before BY <1>1 DEF Open, Before
<1>3. /\ Open => \A f \in Threads : Fronts(f) => FrontPlace(f) /\ FrontData(f)
      /\ ~Open => /\ arc.curPos = arc.pos /\ arc.pos = Len(arc.data)
                  /\ Alike(m.outSeqMode, arc.data, Before)
  BY <1>1, FrontOK DEF Inv
<1> HIDE DEF Before
<1>4. ASSUME Open, NEW f \in Threads, Fronts(f)' PROVE FrontPlace(f)' /\ FrontData(f)'
  <2>1. /\ Fronts(f) /\ th'[f].item = th[f].item
        /\ out'[f].base = out[f].base /\ out'[f].realMode = out[f].realMode
        /\ Listed(f)' <=> Listed(f)
    BY <1>1, <1>4
  <2>2. FrontPlace(f) /\ FrontData(f) BY <1>3, <1>4, <2>1
  <2>3. /\ th'[f].n = th[f].n /\ th'[f].pass = th[f].pass /\ th'[f].pc = th[f].pc
        /\ th'[f].res = th[f].res /\ th'[f].packSize = th[f].packSize
    BY MainThreads
  <2>4. Ended(f)' <=> Ended(f)
    <3> HIDE DEF Listed
    <3> QED BY <2>1, <2>3 DEF Ended
  <2> HIDE DEF Ended
  <2>5. FrontPlace(f)' BY <2>1, <2>2, <2>3, <2>4 DEF FrontPlace
  <2>6. FrontData(f)' BY <1>1, <1>2, <2>1, <2>2, <2>3 DEF FrontData, Packed
  <2> QED BY <2>5, <2>6
<1> QED BY <1>1, <1>2, <1>3, <1>4

LEMMA SameArcType ==
    ASSUME Inv, arc'.data = arc.data, arc'.pos = arc.pos,
           arc'.curPos = arc.curPos, arc'.headerPos = arc.headerPos
    PROVE  ArcType'
BY DEF Inv, ArcType

(* The entry of the current item is complete.                              *)
LEMMA EntryComplete ==
    ASSUME Inv, MainMove, Good, m.itemIndex \in 1..NumItems,
           m'.itemIndex = m.itemIndex + 1, ~Open', arc'.data \in Seq(Units),
           Alike(m.outSeqMode, arc'.data,
                 Before \o EntryOf(m.updates, m.outSeqMode, m.itemIndex)),
           arc'.pos = Len(arc'.data), arc'.curPos = arc'.pos, arc'.headerPos \in Nat
    PROVE  ArcType' /\ ArcOK' /\ ArcData'
<1>1. /\ SameUpdates /\ Shapes BY MainSettled DEF Settled, Inv
<1>2. Len(arc'.data) \in Nat OBVIOUS
<1>3. ArcType' BY <1>2 DEF ArcType
<1> DEFINE e == EntryOf(m.updates, m.outSeqMode, m.itemIndex)
<1>4. EntriesOf(m.updates, m.outSeqMode, m.itemIndex) = Before \o e
  <2>1. m.itemIndex \in 0..NumItems /\ m.itemIndex # 0 OBVIOUS
  <2> QED BY <1>1, <2>1, EntriesGrow DEF Before
<1>5. Before' = EntriesOf(m.updates, m.outSeqMode, m.itemIndex) BY <1>1 DEF Before
<1> HIDE DEF Before
<1>6. Alike(m'.outSeqMode, arc'.data, Before') BY <1>1, <1>4, <1>5
<1> QED BY <1>3, <1>6, FrontOKNow

(* The entry of the current item has been written behind the others.       *)
LEMMA EntryWritten ==
    ASSUME Inv, MainMove, NEW units \in Seq(Units), Good, m.itemIndex \in 1..NumItems,
           m'.itemIndex = m.itemIndex + 1, ~Open', NEW data \in Seq(Units),
           Alike(m.outSeqMode, data, Before), arc'.data = data \o units,
           Alike(m.outSeqMode, units, EntryOf(m.updates, m.outSeqMode, m.itemIndex)),
           arc'.pos = Len(arc'.data), arc'.curPos = arc'.pos, arc'.headerPos \in Nat
    PROVE  ArcType' /\ ArcOK' /\ ArcData'
<1> DEFINE e == EntryOf(m.updates, m.outSeqMode, m.itemIndex)
<1>1. Before \in Seq(Units) /\ e \in Seq(Units) /\ data \o units \in Seq(Units)
  BY EntryTypes, ConcatProperties, BeforeTypes DEF Inv
<1> HIDE DEF Before, e
<1>2. Alike(m.outSeqMode, units, e) BY DEF e
<1>3. Alike(m.outSeqMode, data \o units, Before \o e) BY <1>1, <1>2, AlikeConcat
<1> QED BY <1>1, <1>3, EntryComplete DEF e

(* What is known of the archive between two items.                         *)
LEMMA BetweenItems ==
    ASSUME Inv, Good, ~Open
    PROVE  /\ arc.data \in Seq(Units) /\ arc.pos = Len(arc.data) /\ arc.curPos = arc.pos
           /\ Len(arc.data) \in Nat /\ arc.headerPos \in Nat
           /\ Alike(m.outSeqMode, arc.data, Before)
  BY FrontOK DEF Inv, ArcType

LEMMA PassesEntry ==
    ASSUME Inv, MainMove, Good', NEW unit, GoesOn \/ WritesOwn(unit)
    PROVE  ArcType' /\ ArcOK' /\ ArcData'
<1>1. /\ ~Open /\ ~Open' /\ Running /\ m.itemIndex \in 1..NumItems
      /\ m'.itemIndex = m.itemIndex + 1
  BY PassedItem
<1>2. Good BY <1>1 DEF Good, GoesOn, WritesOwn
<1>3. /\ arc.data \in Seq(Units) /\ arc.pos = Len(arc.data) /\ arc.curPos = arc.pos
      /\ Len(arc.data) \in Nat /\ arc.headerPos \in Nat
      /\ Alike(m.outSeqMode, arc.data, Before)
  BY <1>1, <1>2, BetweenItems
<1> HIDE DEF Before
<1>4. CASE GoesOn
  <2>1. refs[m.itemIndex].skip /\ arc' = arc BY <1>4 DEF GoesOn
  <2>2. Item(m.itemIndex).kind = "skip" BY <1>1, <2>1 DEF Inv, ItemsOK
  <2>3. EntryOf(m.updates, m.outSeqMode, m.itemIndex) = <<>> BY <2>2 DEF EntryOf, Item
  <2>4. <<>> \in Seq(Units) OBVIOUS
  <2>5. Alike(m.outSeqMode, <<>>, EntryOf(m.updates, m.outSeqMode, m.itemIndex))
    BY <2>3, AlikeItself
  <2>6. arc'.data = arc.data \o <<>> BY <1>3, <2>1, ConcatEmptySeq
  <2> QED BY <1>1, <1>2, <1>3, <2>1, <2>4, <2>5, <2>6, EntryWritten
<1>5. CASE WritesOwn(unit)
  <2> DEFINE w == <<unit>>
  <2>1. /\ EntryOf(m.updates, m.outSeqMode, m.itemIndex) = w /\ unit \in Units
        /\ Appends(w) /\ arc'.curPos = arc.curPos + 1
        /\ arc'.headerPos \in {arc.headerPos, arc.curPos}
    BY <1>5 DEF WritesOwn
  <2>2. w \in Seq(Units) /\ Len(w) = 1 BY <2>1
  <2> HIDE DEF w
  <2>3. /\ arc'.data = arc.data \o w /\ arc'.pos = Len(arc'.data)
        /\ arc'.pos = arc.pos + Len(w)
    BY <1>3, <2>1, <2>2, AppendTypes DEF Inv
  <2>4. Alike(m.outSeqMode, w, EntryOf(m.updates, m.outSeqMode, m.itemIndex))
    BY <2>1, AlikeItself
  <2>5. arc'.curPos = arc'.pos /\ arc'.headerPos \in Nat BY <1>3, <2>1, <2>2, <2>3
  <2> QED BY <1>1, <1>2, <1>3, <2>2, <2>3, <2>4, <2>5, EntryWritten
<1> QED BY <1>4, <1>5

(* The entry of a file, with its header before or behind the data.         *)
LEMMA FileEntryIs ==
    ASSUME Inv, NEW i \in 1..NumItems, Item(i).kind = "file", NEW p \in Seq(Units),
           p = PassUnits(i, LastPass(i), PackedSize(i)), NEW state \in {"preliminary", "final"},
           m.outSeqMode \/ state = "final"
    PROVE  /\ i \in Nat /\ <<Header(i, state)>> \in Seq(Units)
           /\ <<<<i, "descriptor">>>> \in Seq(Units)
           /\ m.outSeqMode =>
                 Alike(m.outSeqMode, (<<Header(i, state)>> \o p) \o <<<<i, "descriptor">>>>,
                       EntryOf(m.updates, m.outSeqMode, i))
           /\ ~m.outSeqMode =>
                 Alike(m.outSeqMode, <<Header(i, state)>> \o p,
                       EntryOf(m.updates, m.outSeqMode, i))
<1> DEFINE h == <<Header(i, state)>>
           q == <<Header(i, "preliminary")>>
           d == <<<<i, "descriptor">>>>
           e == EntryOf(m.updates, m.outSeqMode, i)
<1>1. /\ i \in Nat /\ Header(i, state) \in Units /\ Header(i, "preliminary") \in Units
      /\ <<i, "descriptor">> \in Units
  <2>1. i \in Nat BY MainBasics DEF Inv
  <2> QED BY <2>1, UnitFacts DEF Header, States
<1>2. h \in Seq(Units) /\ q \in Seq(Units) /\ d \in Seq(Units) BY <1>1
<1>3. PackedOf(m.outSeqMode, m.updates[i], i) = p
  BY DEF PackedOf, LastPassOf, LastPass, PackedSize, Item
<1>4. m.outSeqMode => e = (q \o p) \o d BY <1>3 DEF EntryOf, FileEntry, Item
<1>5. ~m.outSeqMode => e = h \o p BY <1>3 DEF EntryOf, FileEntry, Item
<1>6. m.outSeqMode => Alike(m.outSeqMode, h, q)
  <2> SUFFICES ASSUME m.outSeqMode PROVE Alike(m.outSeqMode, h, q) OBVIOUS
  <2>1. Seal(m.outSeqMode, Header(i, state)) = Header(i, "preliminary") BY DEF Header, Seal
  <2>2. Seal(m.outSeqMode, Header(i, "preliminary")) = Header(i, "preliminary")
    BY DEF Header, Seal
  <2>3. Len(h) = 1 /\ Len(q) = 1 /\ h[1] = Header(i, state) /\ q[1] = Header(i, "preliminary")
    OBVIOUS
  <2> HIDE DEF h, q
  <2>4. Len(h) = Len(q) /\ \A k \in 1..Len(h) : Seal(m.outSeqMode, h[k]) = Seal(m.outSeqMode, q[k])
    <3>1. Len(h) = Len(q) /\ \A k \in 1..Len(h) : k = 1 BY <2>3
    <3>2. Seal(m.outSeqMode, h[1]) = Seal(m.outSeqMode, q[1]) BY <2>1, <2>2, <2>3, Zenon
    <3> QED BY <3>1, <3>2, Zenon
  <2> QED BY <1>2, <2>4, AlikeIs
<1> HIDE DEF h, q, d, e
<1>7. Alike(m.outSeqMode, p, p) /\ Alike(m.outSeqMode, d, d) /\ Alike(m.outSeqMode, h \o p, h \o p)
  BY AlikeItself
<1>8. m.outSeqMode => Alike(m.outSeqMode, (h \o p) \o d, e)
  <2> SUFFICES ASSUME m.outSeqMode PROVE Alike(m.outSeqMode, (h \o p) \o d, e) OBVIOUS
  <2>1. Alike(m.outSeqMode, h \o p, q \o p) BY <1>2, <1>6, <1>7, AlikeConcat
  <2>2. h \o p \in Seq(Units) /\ q \o p \in Seq(Units) BY <1>2, ConcatProperties
  <2>3. Alike(m.outSeqMode, (h \o p) \o d, (q \o p) \o d)
    BY <1>2, <1>7, <2>1, <2>2, AlikeConcat
  <2> QED BY <1>4, <2>3
<1>9. ~m.outSeqMode => Alike(m.outSeqMode, h \o p, e) BY <1>5, <1>7
<1> QED BY <1>1, <1>2, <1>8, <1>9 DEF h, d, e

LEMMA JoinThree ==
    \A s, t, u \in Seq(Units) : (s \o t) \o u = s \o (t \o u)
BY ConcatAssociative

LEMMA KeptEntry ==
    ASSUME Inv, MainMove, Good', SendsKept
    PROVE  ArcType' /\ ArcOK' /\ ArcData'
<1> DEFINE i == m.itemIndex
           h == <<Header(i, "final")>>
           p == refs[i].data
           d == <<<<i, "descriptor">>>>
           one == arc.data \o h
           two == one \o p
<1>1. /\ ~Open /\ ~Open' /\ Running /\ m.itemIndex \in 1..NumItems
      /\ m'.itemIndex = m.itemIndex + 1
  BY PassedItem
<1>2. Good /\ Item(i).kind = "file" /\ refs[i].finished
  BY <1>1 DEF Good, SendsKept, WriteFailed, Kind
<1>3. /\ arc.data \in Seq(Units) /\ arc.pos = Len(arc.data) /\ arc.curPos = arc.pos
      /\ Len(arc.data) \in Nat /\ arc.headerPos \in Nat
      /\ Alike(m.outSeqMode, arc.data, Before)
  BY <1>1, <1>2, BetweenItems
<1>4. /\ refs[i].packSize = PackedSize(i) /\ p = PassUnits(i, LastPass(i), PackedSize(i))
      /\ p \in Seq(Units) /\ refs[i].packSize \in Nat
  BY <1>1, <1>2 DEF Inv, KeptOK
<1>5. Len(p) = refs[i].packSize
  <2>1. i \in Nat /\ LastPass(i) \in Nat
    <3>1. /\ NumItems \in Nat /\ m.updates[i].passes \in Seq(Nat)
      BY <1>1, Lengths, ItemFacts DEF Inv, Item
    <3> QED BY <1>1, <3>1 DEF LastPass, Item
  <2>2. PackedSize(i) \in Nat BY <1>4
  <2>3. Len(PassUnits(i, LastPass(i), PackedSize(i))) = PackedSize(i)
    <3> HIDE DEF i
    <3> QED BY <2>1, <2>2, PassUnitsIs
  <2> QED BY <1>4, <2>3
<1>6. /\ h \in Seq(Units) /\ d \in Seq(Units)
      /\ m.outSeqMode =>
            Alike(m.outSeqMode, (h \o p) \o d, EntryOf(m.updates, m.outSeqMode, i))
      /\ ~m.outSeqMode =>
            Alike(m.outSeqMode, h \o p, EntryOf(m.updates, m.outSeqMode, i))
  BY <1>1, <1>2, <1>4, FileEntryIs
<1>7. Len(h) = 1 /\ Len(d) = 1 OBVIOUS
<1>8. /\ arc'.headerPos = arc.curPos
      /\ arc'.curPos = (IF m.outSeqMode THEN arc.curPos + 1 + refs[i].packSize + 1
                        ELSE arc.curPos + 1 + refs[i].packSize)
      /\ IF m.outSeqMode
         THEN Archive(Put(Put(Put(arc.data, arc.pos, h), arc.pos + 1, p),
                          arc.pos + 1 + Len(p), d), arc.pos + 1 + Len(p) + 1)
         ELSE Archive(Put(Put(arc.data, arc.pos, h), arc.pos + 1, p), arc.pos + 1 + Len(p))
  BY DEF SendsKept, Good, WriteFailed
<1> HIDE DEF h, d, p, Before
<1>9. /\ one \in Seq(Units) /\ Len(one) = arc.pos + 1 /\ Put(arc.data, arc.pos, h) = one
  <2>1. arc.data \o h \in Seq(Units) /\ Len(arc.data \o h) = Len(arc.data) + Len(h)
    BY <1>3, <1>6, ConcatProperties
  <2>2. Put(arc.data, Len(arc.data), h) = arc.data \o h BY <1>3, <1>6, PutAtEnd
  <2> QED BY <1>3, <1>7, <2>1, <2>2
<1> HIDE DEF one
<1>10. /\ two \in Seq(Units) /\ Len(two) = arc.pos + 1 + Len(p)
       /\ Put(one, arc.pos + 1, p) = two
  <2>1. one \o p \in Seq(Units) /\ Len(one \o p) = Len(one) + Len(p)
    BY <1>4, <1>9, ConcatProperties
  <2>2. Put(one, Len(one), p) = one \o p BY <1>4, <1>9, PutAtEnd
  <2> QED BY <1>9, <2>1, <2>2
<1>11. two = arc.data \o (h \o p) /\ h \o p \in Seq(Units)
  <2>1. (arc.data \o h) \o p = arc.data \o (h \o p) BY <1>3, <1>4, <1>6, JoinThree
  <2>2. h \o p \in Seq(Units) BY <1>4, <1>6, ConcatProperties
  <2> QED BY <2>1, <2>2 DEF one
<1> HIDE DEF two
<1>12. CASE m.outSeqMode
  <2> DEFINE w == (h \o p) \o d
  <2>1. /\ arc'.data = Put(two, arc.pos + 1 + Len(p), d)
        /\ arc'.pos = arc.pos + 1 + Len(p) + 1
        /\ arc'.curPos = arc.curPos + 1 + refs[i].packSize + 1
    BY <1>8, <1>9, <1>10, <1>12 DEF Archive
  <2>2. Put(two, Len(two), d) = two \o d BY <1>6, <1>10, PutAtEnd
  <2>3. arc'.data = arc.data \o w /\ w \in Seq(Units)
    <3>1. arc'.data = two \o d BY <1>10, <2>1, <2>2
    <3> DEFINE v == h \o p
    <3>2. v \in Seq(Units) /\ two = arc.data \o v BY <1>11
    <3> HIDE DEF v
    <3>3. (arc.data \o v) \o d = arc.data \o (v \o d) BY <1>3, <1>6, <3>2, JoinThree
    <3>4. v \o d \in Seq(Units) BY <1>6, <3>2, ConcatProperties
    <3> QED BY <3>1, <3>2, <3>3, <3>4 DEF v
  <2>4. Len(two \o d) = Len(two) + Len(d) BY <1>6, <1>10, ConcatProperties
  <2>5. arc'.pos = Len(arc'.data) /\ arc'.curPos = arc'.pos /\ arc'.headerPos \in Nat
    BY <1>10, <2>1, <2>2, <1>3, <1>5, <1>7, <1>8, <2>4
  <2>6. Alike(m.outSeqMode, w, EntryOf(m.updates, m.outSeqMode, m.itemIndex)) BY <1>6, <1>12
  <2> HIDE DEF w
  <2> QED BY <1>1, <1>2, <1>3, <2>3, <2>5, <2>6, EntryWritten
<1>13. CASE ~m.outSeqMode
  <2> DEFINE w == h \o p
  <2>1. /\ arc'.data = two /\ arc'.pos = arc.pos + 1 + Len(p)
        /\ arc'.curPos = arc.curPos + 1 + refs[i].packSize
    BY <1>8, <1>9, <1>10, <1>13 DEF Archive
  <2>3. arc'.data = arc.data \o w /\ w \in Seq(Units) BY <1>11, <2>1
  <2>5. arc'.pos = Len(arc'.data) /\ arc'.curPos = arc'.pos /\ arc'.headerPos \in Nat
    BY <1>3, <1>5, <1>8, <1>10, <2>1
  <2>6. Alike(m.outSeqMode, w, EntryOf(m.updates, m.outSeqMode, m.itemIndex)) BY <1>6, <1>13
  <2> HIDE DEF w
  <2> QED BY <1>1, <1>2, <1>3, <2>3, <2>5, <2>6, EntryWritten
<1> QED BY <1>12, <1>13

(* The front thread is given the archive behind the header.                *)
LEMMA OpensEntry ==
    ASSUME Inv, MainMove, NEW f \in Threads, Opens(f)
    PROVE  ArcType' /\ ArcOK' /\ ArcData'
<1> DEFINE h == <<Header(m.itemIndex, "preliminary")>>
<1>1. /\ ~Open /\ Open' /\ Running
      /\ \A t \in Threads : Busy(t) => ~out[t].unlockSent
      /\ \A t \in Threads : t # f => th[t].item # m.itemIndex
  BY OpensReal
<1>2. Good BY <1>1 DEF Good, Opens
<1>3. /\ arc.data \in Seq(Units) /\ arc.pos = Len(arc.data) /\ arc.curPos = arc.pos
      /\ Len(arc.data) \in Nat /\ arc.headerPos \in Nat
      /\ Alike(m.outSeqMode, arc.data, Before)
  BY <1>1, <1>2, BetweenItems
<1>4. /\ Before \in Seq(Units) /\ Len(Before) \in Nat /\ h \in Seq(Units) /\ Len(h) = 1
      /\ Before \o h \in Seq(Units)
  BY BeforeTypes DEF Inv
<1>5. Before' = Before /\ m'.outSeqMode = m.outSeqMode /\ m'.itemIndex = m.itemIndex
  BY DEF Opens, MainIs, Settled, Before
<1>6. /\ arc'.data = Put(arc.data, arc.pos, h) /\ arc'.pos = arc.curPos + 1
      /\ arc'.curPos = arc.curPos + 1 /\ arc'.headerPos = arc.curPos
      /\ out'[f].base = arc.curPos + 1 /\ out'[f].realMode = out[f].realMode /\ th' = th
      /\ Busy(f)
  BY DEF Opens, Flags, Fronts
<1> HIDE DEF Before, h
<1>7. arc'.data = arc.data \o h /\ Len(arc.data \o h) = Len(arc.data) + 1
      /\ arc.data \o h \in Seq(Units)
  <2>1. Put(arc.data, Len(arc.data), h) = arc.data \o h BY <1>3, <1>4, PutAtEnd
  <2>2. Len(arc.data \o h) = Len(arc.data) + Len(h) /\ arc.data \o h \in Seq(Units)
    BY <1>3, <1>4, ConcatProperties
  <2> QED BY <1>3, <1>4, <1>6, <2>1, <2>2
<1>8. ~out'[f].realMode BY <1>1, <1>6 DEF Inv, RealOK
<1>9. ArcType' BY <1>3, <1>6, <1>7 DEF ArcType
<1>10. Len(arc.data) = Len(Before) BY <1>3, <1>4, AlikeIs
<1>11. FrontPlace(f)' BY <1>3, <1>6, <1>7, <1>8 DEF FrontPlace
<1>12. FrontData(f)'
  <2>1. Alike(m.outSeqMode, h, h) BY AlikeItself
  <2>2. Alike(m.outSeqMode, arc.data \o h, Before \o h) BY <1>3, <1>4, <2>1, AlikeConcat
  <2>3. (Before \o h) \o <<>> = Before \o h BY <1>4, ConcatEmptySeq
  <2>4. Len(Before)' = arc'.headerPos BY <1>3, <1>5, <1>6, <1>10
  <2> QED BY <1>5, <1>7, <1>8, <2>2, <2>3, <2>4 DEF FrontData, h
<1>13. \A g \in Threads : Fronts(g)' => g = f BY <1>1, <1>5, <1>6 DEF Fronts
<1> QED BY <1>1, <1>9, <1>11, <1>12, <1>13, FrontOKNow

(* What is in the archive when the front thread has ended: its whole data, *)
(* when what it still has in blocks is put behind it.                      *)
LEMMA FrontComplete ==
    ASSUME Inv, Good, m.pc = "take",
           NEW k \in Threads, Fronts(k), Packs(k), NEW one,
           one = Put(arc.data, arc.pos, Content(out[k]))
    PROVE  /\ Open /\ m.itemIndex \in 1..NumItems /\ Item(m.itemIndex).kind = "file"
           /\ PackedSize(m.itemIndex) \in Nat /\ th[k].packSize = PackedSize(m.itemIndex)
           /\ one \in Seq(Units) /\ Len(one) = arc.headerPos + 1 + th[k].packSize
           /\ arc.pos + Len(Content(out[k])) = Len(one)
           /\ Len(Before) = arc.headerPos
           /\ LET p == PassUnits(m.itemIndex, LastPass(m.itemIndex), PackedSize(m.itemIndex))
              IN p \in Seq(Units) /\
                 Alike(m.outSeqMode, one,
                       (Before \o <<Header(m.itemIndex, "preliminary")>>) \o p)
<1> DEFINE i == m.itemIndex
           p == PassUnits(i, LastPass(i), PackedSize(i))
           bh == Before \o <<Header(m.itemIndex, "preliminary")>>
           c == Content(out[k])
<1>1. Running /\ Busy(k) /\ th[k].item = i /\ Shapes BY DEF Good, Fronts, Inv
<1>2. /\ th[k].item \in 1..NumItems /\ th[k].pass = LastPass(i) /\ th[k].n = PackedSize(i)
      /\ PackedSize(i) \in Nat /\ LastPass(i) \in Nat /\ c \in Seq(Units)
      /\ out[k].realMode => c = <<>>
      /\ ~out[k].realMode => c = p /\ th[k].packSize = PackedSize(i)
  BY <1>1, DoneContent
<1>3. p \in Seq(Units) /\ Len(p) = PackedSize(i) /\ Packed(k) = p
  <2>1. i \in Nat BY <1>1, <1>2
  <2> HIDE DEF i
  <2>2. p \in Seq(Units) /\ Len(p) = PackedSize(i) BY <1>2, <2>1, PassUnitsIs
  <2> QED BY <1>1, <1>2, <2>2 DEF Packed
<1>4. Open /\ Item(i).kind = "file" BY <1>1 DEF Inv, Queue
<1>5. FrontPlace(k) /\ FrontData(k) BY <1>4, FrontOK DEF Inv
<1>6. /\ Before \in Seq(Units) /\ Len(Before) \in Nat /\ bh \in Seq(Units)
      /\ Len(bh) = Len(Before) + 1
  BY <1>1, BeforeTypes
<1>7. arc.data \in Seq(Units) /\ arc.headerPos \in Nat BY DEF Inv, ArcType
<1> HIDE DEF p, bh, c, i, Before
<1>8. one = arc.data \o c
  <2>1. arc.pos = Len(arc.data) BY <1>5 DEF FrontPlace
  <2>2. Put(arc.data, Len(arc.data), c) = arc.data \o c BY <1>2, <1>7, PutAtEnd
  <2> QED BY <2>1, <2>2 DEF c
<1>9. one \in Seq(Units) /\ Len(one) = Len(arc.data) + Len(c)
  BY <1>2, <1>7, ConcatProperties, <1>8
<1>10. /\ arc.curPos = arc.headerPos + 1 /\ arc.pos = Len(arc.data)
       /\ Len(arc.data) = arc.curPos + (IF out[k].realMode THEN th[k].n ELSE 0)
       /\ out[k].realMode => th[k].packSize = th[k].n
  BY <1>5 DEF Packs, FrontPlace
<1>11. CASE out[k].realMode
  <2>1. c = <<>> /\ Len(c) = 0 /\ one = arc.data BY <1>2, <1>11, <1>7, ConcatEmptySeq, <1>8
  <2>2. Alike(m.outSeqMode, one, bh \o p) BY <1>3, <1>5, <1>11, <2>1 DEF FrontData, bh
  <2>3. th[k].packSize = PackedSize(i) BY <1>2, <1>10, <1>11
  <2>4. Len(one) = arc.headerPos + 1 + th[k].packSize /\ arc.pos + Len(c) = Len(one)
    BY <1>2, <1>7, <1>10, <1>11, <2>1
  <2> QED BY <1>1, <1>2, <1>3, <1>4, <1>5, <1>9, <2>2, <2>3, <2>4 DEF FrontData, bh, p, c, i
<1>12. CASE ~out[k].realMode
  <2>1. c = p /\ Len(c) = PackedSize(i) /\ th[k].packSize = PackedSize(i) BY <1>2, <1>3, <1>12
  <2>2. Alike(m.outSeqMode, arc.data, bh \o <<>>) BY <1>5, <1>12 DEF FrontData, bh
  <2>3. bh \o <<>> = bh BY <1>6, ConcatEmptySeq
  <2>4. Alike(m.outSeqMode, p, p) BY AlikeItself
  <2>5. Alike(m.outSeqMode, arc.data \o p, bh \o p)
    BY <1>3, <1>6, <1>7, <2>2, <2>3, <2>4, AlikeConcat
  <2>6. Len(one) = arc.headerPos + 1 + th[k].packSize /\ arc.pos + Len(c) = Len(one)
    BY <1>2, <1>7, <1>9, <1>10, <1>12, <2>1
  <2> QED
    BY <1>1, <1>2, <1>3, <1>4, <1>5, <1>8, <1>9, <2>1, <2>5, <2>6 DEF FrontData, bh, p, c, i
<1> QED BY <1>11, <1>12

LEMMA AlikeThird ==
    ASSUME NEW mode, NEW a, NEW b, NEW c, Alike(mode, a, b), Alike(mode, b, c)
    PROVE  Alike(mode, a, c)
BY DEF Alike

LEMMA AlikeLength ==
    \A mode, U : \A a, b \in Seq(U) : Alike(mode, a, b) => Len(a) = Len(b)
BY AlikeIs

LEMMA JoinLength ==
    \A s, t \in Seq(Units) : s \o t \in Seq(Units) /\ Len(s \o t) = Len(s) + Len(t)
BY ConcatProperties

LEMMA SealedHeader ==
    \A mode, U : \A a, b, c \in Seq(U) : \A old, new \in U :
        Alike(mode, a, (b \o <<old>>) \o c)
            => /\ Put(a, Len(b), <<new>>) \in Seq(U)
               /\ Alike(mode, Put(a, Len(b), <<new>>), b \o (<<new>> \o c))
BY AlikeHeader, ZenonT(60)

LEMMA HeaderRewritten ==
    ASSUME NEW mode, NEW a \in Seq(Units), NEW b \in Seq(Units), NEW c \in Seq(Units),
           NEW old \in Units, NEW new \in Units, Alike(mode, a, (b \o <<old>>) \o c)
    PROVE  /\ Put(a, Len(b), <<new>>) \in Seq(Units) /\ Len(Put(a, Len(b), <<new>>)) = Len(a)
           /\ Alike(mode, Put(a, Len(b), <<new>>), b \o (<<new>> \o c))
<1> DEFINE x == <<old>>
           y == <<new>>
<1>1. x \in Seq(Units) /\ y \in Seq(Units) /\ Len(x) = 1 /\ Len(y) = 1 OBVIOUS
<1>2. Put(a, Len(b), y) \in Seq(Units) /\ Alike(mode, Put(a, Len(b), y), b \o (y \o c))
  BY SealedHeader
<1>3. Alike(mode, a, (b \o x) \o c) /\ Len(b) \in Nat /\ Len(c) \in Nat OBVIOUS
<1> HIDE DEF x, y
<1>4. y \o c \in Seq(Units) /\ Len(y \o c) = 1 + Len(c) BY <1>1, JoinLength
<1>5. b \o x \in Seq(Units) /\ Len(b \o x) = Len(b) + 1 BY <1>1, JoinLength
<1>6. b \o (y \o c) \in Seq(Units) /\ Len(b \o (y \o c)) = Len(b) + (1 + Len(c))
  BY <1>4, JoinLength, ZenonT(60)
<1>7. (b \o x) \o c \in Seq(Units) /\ Len((b \o x) \o c) = (Len(b) + 1) + Len(c)
  BY <1>5, JoinLength
<1>8. Len(Put(a, Len(b), y)) = Len(b \o (y \o c)) BY <1>2, <1>6, AlikeLength, Zenon
<1>9. Len(a) = Len((b \o x) \o c) BY <1>3, <1>7, AlikeLength, Zenon
<1>10. Len(Put(a, Len(b), y)) = Len(a) BY <1>3, <1>6, <1>7, <1>8, <1>9
<1> QED BY <1>2, <1>10 DEF y

LEMMA FrontEntry ==
    ASSUME Inv, MainMove, NEW k \in Threads, TakesFront(k)
    PROVE  ArcType' /\ ArcOK' /\ ArcData'
<1> DEFINE i == m.itemIndex
           p == PassUnits(i, LastPass(i), PackedSize(i))
           h == <<Header(i, "preliminary")>>
           f == <<Header(i, "final")>>
           d == <<<<i, "descriptor">>>>
           e == EntryOf(m.updates, m.outSeqMode, i)
           c == Content(out[k])
           one == Put(arc.data, arc.pos, c)
<1>1. /\ m.pc = "take" /\ Running /\ Busy(k) /\ Ended(k) /\ th[k].res = "ok"
      /\ th[k].item = m.itemIndex /\ Good /\ Shapes
  BY TakesListed DEF Takes, TakesFront, Good, Inv
<1>2. Fronts(k) /\ Packs(k) BY <1>1 DEF Fronts, Packs
<1>3. /\ Open /\ m.itemIndex \in 1..NumItems /\ Item(m.itemIndex).kind = "file"
      /\ PackedSize(m.itemIndex) \in Nat /\ th[k].packSize = PackedSize(m.itemIndex)
      /\ one \in Seq(Units) /\ Len(one) = arc.headerPos + 1 + th[k].packSize
      /\ arc.pos + Len(c) = Len(one)
      /\ Len(Before) = arc.headerPos
      /\ p \in Seq(Units) /\ Alike(m.outSeqMode, one, (Before \o h) \o p)
  BY <1>1, <1>2, FrontComplete
<1>4. ~Open' BY <1>1, <1>3, QueueFacts DEF Open, TakesFront, MainIs
<1>5. m'.itemIndex = m.itemIndex + 1 /\ arc'.headerPos = arc.headerPos /\ arc.headerPos \in Nat
  BY DEF TakesFront, MainIs, Inv, ArcType
<1>6. /\ i \in Nat /\ h \in Seq(Units) /\ f \in Seq(Units) /\ d \in Seq(Units) /\ Len(d) = 1
      /\ m.outSeqMode => Alike(m.outSeqMode, (h \o p) \o d, e)
      /\ ~m.outSeqMode => Alike(m.outSeqMode, f \o p, e)
  <2>1. ASSUME m.outSeqMode
        PROVE  h \in Seq(Units) /\ Alike(m.outSeqMode, (h \o p) \o d, e)
    BY <1>3, <2>1, FileEntryIs
  <2>2. /\ i \in Nat /\ f \in Seq(Units) /\ d \in Seq(Units)
        /\ ~m.outSeqMode => Alike(m.outSeqMode, f \o p, e)
    BY <1>3, FileEntryIs
  <2>3. h \in Seq(Units) /\ Len(d) = 1 BY <1>1, BeforeTypes
  <2> QED BY <2>1, <2>2, <2>3
<1>7. Before \in Seq(Units) /\ e \in Seq(Units) BY <1>3, <1>1, EntryTypes, BeforeTypes
<1>8. /\ Header(i, "preliminary") \in Units /\ Header(i, "final") \in Units
  BY <1>6, UnitFacts DEF Header, States
<1>9. IF m.outSeqMode
      THEN /\ arc'.data = Put(one, arc.pos + Len(c), d)
           /\ arc'.pos = arc.pos + Len(c) + 1
           /\ arc'.curPos = arc.headerPos + 1 + th[k].packSize + 1
      ELSE /\ arc'.data = Put(one, arc.headerPos, f)
           /\ arc'.pos = arc.headerPos + 1 + th[k].packSize
           /\ arc'.curPos = arc.headerPos + 1 + th[k].packSize
  BY DEF TakesFront
<1>10. Alike(m.outSeqMode, Before, Before) BY AlikeItself
<1>11. CASE m.outSeqMode
  <2> HIDE DEF Before, p, h, d, e, c, one
  <2>1. arc'.data = one \o d
    <3>1. Put(one, Len(one), d) = one \o d BY <1>3, <1>6, PutAtEnd
    <3> QED BY <1>3, <1>9, <1>11, <3>1
  <2>2. Len(one \o d) = Len(one) + 1 /\ one \o d \in Seq(Units)
    <3>1. Len(one \o d) = Len(one) + Len(d) /\ one \o d \in Seq(Units)
      BY <1>3, <1>6, ConcatProperties
    <3> QED BY <1>6, <3>1
  <2>3. arc'.pos = Len(arc'.data) /\ arc'.curPos = arc'.pos BY <1>3, <1>9, <1>11, <2>1, <2>2
  <2>4. /\ Before \o h \in Seq(Units) /\ (Before \o h) \o p \in Seq(Units)
        /\ h \o p \in Seq(Units) /\ (h \o p) \o d \in Seq(Units)
    BY <1>3, <1>6, <1>7, ConcatProperties
  <2>5. ((Before \o h) \o p) \o d = Before \o ((h \o p) \o d)
    <3>1. /\ Before \in Seq(Units) /\ h \in Seq(Units) /\ p \in Seq(Units) /\ d \in Seq(Units)
          /\ h \o p \in Seq(Units)
      BY <1>3, <1>6, <1>7, <2>4
    <3>2. (Before \o h) \o p = Before \o (h \o p) BY <3>1, JoinThree, Zenon
    <3>3. (Before \o (h \o p)) \o d = Before \o ((h \o p) \o d) BY <3>1, JoinThree, ZenonT(60)
    <3> QED BY <3>2, <3>3
  <2>6. Alike(m.outSeqMode, d, d) BY AlikeItself
  <2>7. Alike(m.outSeqMode, one \o d, ((Before \o h) \o p) \o d)
    BY <1>3, <1>6, <2>4, <2>6, AlikeConcat
  <2>8. Alike(m.outSeqMode, (h \o p) \o d, e) BY <1>6, <1>11
  <2>9. Alike(m.outSeqMode, Before \o ((h \o p) \o d), Before \o e)
    BY <1>7, <1>10, <2>4, <2>8, AlikeConcat
  <2>10. Alike(m.outSeqMode, arc'.data, Before \o e) BY <2>1, <2>5, <2>7, <2>9, AlikeThird
  <2> QED BY <1>1, <1>3, <1>4, <1>5, <2>1, <2>2, <2>3, <2>10, EntryComplete DEF e
<1>12. CASE ~m.outSeqMode
  <2>1. /\ arc'.data = Put(one, Len(Before), f)
        /\ arc'.pos = Len(one) /\ arc'.curPos = Len(one)
    BY <1>3, <1>9, <1>12
  <2>2. Alike(m.outSeqMode, one, (Before \o <<Header(i, "preliminary")>>) \o p) BY <1>3
  <2> HIDE DEF Before, p, e, c, one
  <2>3. /\ Put(one, Len(Before), f) \in Seq(Units) /\ Len(Put(one, Len(Before), f)) = Len(one)
        /\ Alike(m.outSeqMode, Put(one, Len(Before), f), Before \o (f \o p))
    <3> DEFINE old == Header(i, "preliminary")
               new == Header(i, "final")
    <3>1. /\ one \in Seq(Units) /\ Before \in Seq(Units) /\ p \in Seq(Units)
          /\ old \in Units /\ new \in Units
          /\ Alike(m.outSeqMode, one, (Before \o <<old>>) \o p)
      BY <1>3, <1>7, <1>8, <2>2
    <3> HIDE DEF old, new
    <3>2. /\ Put(one, Len(Before), <<new>>) \in Seq(Units)
          /\ Len(Put(one, Len(Before), <<new>>)) = Len(one)
          /\ Alike(m.outSeqMode, Put(one, Len(Before), <<new>>), Before \o (<<new>> \o p))
      BY <3>1, HeaderRewritten
    <3> QED BY <3>2 DEF new
  <2> HIDE DEF f
  <2>4. f \o p \in Seq(Units) BY <1>3, <1>6, ConcatProperties
  <2>5. Alike(m.outSeqMode, f \o p, e) BY <1>6, <1>12
  <2>6. Alike(m.outSeqMode, Before \o (f \o p), Before \o e)
    BY <1>7, <1>10, <2>4, <2>5, AlikeConcat
  <2>7. Alike(m.outSeqMode, arc'.data, Before \o e) BY <2>1, <2>3, <2>6, AlikeThird
  <2> QED BY <1>1, <1>3, <1>4, <1>5, <2>1, <2>3, <2>7, EntryComplete DEF e
<1> QED BY <1>11, <1>12

LEMMA MainArc ==
    ASSUME Inv, MainMove
    PROVE  ArcType' /\ ArcOK' /\ ArcData'
<1>1. CASE ~Good' /\ ArcType' BY <1>1 DEF ArcOK, ArcData
<1>2. CASE PassesOver \/ Skips \/ Waits \/ Locks
  BY <1>2, SameArchiveData, SameArcType DEF PassesOver, Skips, Waits, Locks, MainIs, Settled,
     Fronts, Busy, Listed
<1>3. CASE \/ (\E res \in Results : GivesUp(res)) \/ Joins \/ Halts \/ Returns
           \/ (\E k \in Threads : TakesFailed(k) \/ TakesUnwritten(k))
  <2>1. /\ arc'.data = arc.data /\ arc'.pos = arc.pos /\ arc'.curPos = arc.curPos
        /\ arc'.headerPos = arc.headerPos /\ ~Running'
    BY <1>3 DEF GivesUp, Joins, Halts, Returns, TakesFailed, TakesUnwritten, WriteFailed,
       Leaves, Closes, MainIs, Running
  <2> QED BY <1>1, <2>1, SameArcType DEF Good
<1>4. CASE Finishes
  <2> DEFINE w == <<<<0, "central">>>>
  <2>1. /\ Appends(w) /\ SamePositions /\ ~Running'
    BY <1>4 DEF Finishes, Leaves, Closes, MainIs, Running
  <2>2. w \in Seq(Units)
    <3>1. <<0, "central">> \in Units BY UnitFacts DEF States
    <3> QED BY <3>1
  <2> HIDE DEF w
  <2>3. ArcType /\ arc'.data \in Seq(Units) /\ arc'.pos \in 0..Len(arc'.data)
    BY <2>1, <2>2, AppendTypes DEF Inv
  <2> QED BY <1>1, <2>1, <2>3 DEF Good, ArcType
<1>5. ASSUME NEW k \in Threads, Starts(k) PROVE ArcType' /\ ArcOK' /\ ArcData'
  <2>1. /\ arc' = arc /\ m'.itemIndex = m.itemIndex /\ m'.lastReal = m.lastReal /\ mtSem' = mtSem
        /\ Running /\ \A u \in Threads : u # k => th'[u] = th[u] /\ out'[u] = out[u]
        /\ th'[k].item = m.mtItemIndex
    BY <1>5, StartsWaiting DEF Starts, MainIs
  <2>2. ASSUME Open, NEW f \in Threads, Fronts(f)' PROVE f # k
    BY <2>1, <2>2, QueueFacts DEF Queue, Fronts
  <2>3. \A f \in Threads : f # k => Fronts(f)' = Fronts(f) BY <2>1 DEF Fronts, Busy
  <2>4. \A f \in Threads : Listed(f)' = Listed(f) BY <2>1 DEF Listed
  <2> HIDE DEF Listed, Fronts
  <2> QED BY <2>1, <2>2, <2>3, <2>4, SameArchiveData, SameArcType
<1>6. ASSUME NEW k \in Threads, TakesLater(k) PROVE ArcType' /\ ArcOK' /\ ArcData'
  <2>1. /\ Busy(k) /\ \A u \in Threads : u # k => th'[u] = th[u] /\ out'[u] = out[u]
        /\ ~Busy(k)' /\ \A u \in Threads : u # k => (Listed(u)' <=> Listed(u))
    BY <1>6, TakesListed DEF Takes
  <2>2. arc' = arc /\ m'.itemIndex = m.itemIndex /\ m'.lastReal = m.lastReal
    BY <1>6 DEF TakesLater, MainIs
  <2>3. \A f \in Threads : Fronts(f)' => f # k /\ Fronts(f) BY <2>1, <2>2 DEF Fronts, Busy
  <2> HIDE DEF Listed, Fronts
  <2> QED BY <2>1, <2>2, <2>3, SameArchiveData, SameArcType
<1>7. ASSUME NEW unit, GoesOn \/ WritesOwn(unit) PROVE ArcType' /\ ArcOK' /\ ArcData'
  BY <1>7, PassedItem, PassesEntry, <1>1, SameArcType DEF Running, GoesOn, WritesOwn, Appends,
     Archive, Inv, Good
<1>8. CASE SendsKept
  BY <1>8, KeptEntry, PassedItem, <1>1, SameArcType DEF Good, Running, SendsKept, WriteFailed,
     Archive
<1> QED BY <1>2, <1>3, <1>4, <1>5, <1>6, <1>7, <1>8, OpensEntry, FrontEntry DEF MainMove

LEMMA ItemSumChanged ==
    \A f, g, y :
        /\ NumItems \in Nat /\ y \in 1..NumItems
        /\ \A i \in 1..NumItems : f[i] \in Nat /\ g[i] \in Nat
        /\ \A i \in (1..NumItems) \ {y} : f[i] = g[i]
        => /\ SumFunctionOnSet(g, 1..NumItems) = SumFunctionOnSet(f, 1..NumItems) - f[y] + g[y]
           /\ f[y] <= SumFunctionOnSet(f, 1..NumItems)
           /\ SumFunctionOnSet(f, 1..NumItems) \in Nat /\ SumFunctionOnSet(g, 1..NumItems) \in Nat
<1> TAKE f, g, y
<1> HAVE /\ NumItems \in Nat /\ y \in 1..NumItems
         /\ \A i \in 1..NumItems : f[i] \in Nat /\ g[i] \in Nat
         /\ \A i \in (1..NumItems) \ {y} : f[i] = g[i]
<1> DEFINE S == 1..NumItems
<1>1. IsFiniteSet(S) BY FS_Interval
<1>2. /\ y \in S /\ \A i \in S : f[i] \in Nat /\ g[i] \in Nat
      /\ \A i \in S \ {y} : f[i] = g[i]
  OBVIOUS
<1> HIDE DEF S
<1>3. /\ SumFunctionOnSet(g, S) = SumFunctionOnSet(f, S) - f[y] + g[y]
      /\ f[y] <= SumFunctionOnSet(f, S)
      /\ SumFunctionOnSet(f, S) \in Nat /\ SumFunctionOnSet(g, S) \in Nat
  BY <1>1, <1>2, SumChanged
<1> QED BY <1>3 DEF S

KeptNumbers ==
    \A i \in 1..NumItems : refs[i].blocks \in Nat /\ (refs[i].blocks # 0 => refs[i].finished)

BlockSumsAre(s, k) ==
    /\ s = SumFunctionOnSet(BlocksOf, Threads)
    /\ k = SumFunctionOnSet(KeptOf, 1..NumItems)

(* n blocks have gone from the streams and the items to the free list.     *)
LEMMA BlocksFreed ==
    ASSUME Inv, MainMove, NEW n \in Nat, pool' = FreeBlocks(pool, n),
           NEW s \in Nat, NEW k \in Nat, BlockSumsAre(s, k)',
           s + k + n = StreamBlocks + KeptBlocks, KeptNumbers',
           m'.pc = "done" => s + k = 0
    PROVE  BlocksOK'
<1>1. /\ Shapes' /\ SyncOK /\ BlocksOK /\ m'.updates = m.updates
  BY MainShapes, MainSettled, MainBasics DEF Inv, Settled
<1>2. /\ StreamBlocks \in Nat /\ KeptBlocks \in Nat
      /\ pool.free + StreamBlocks + KeptBlocks = pool.total
      /\ pool.sem + Cardinality(Allocating) = pool.free
      /\ pool.total \in Nat /\ pool.free \in Nat /\ pool.sem \in Nat
  BY <1>1, BlockSums DEF Inv
<1>3. pool.free + n <= pool.total BY <1>2
<1>4. pool'.total = pool.total /\ pool'.free = pool.free + n /\ pool'.sem = pool.sem + n
  BY <1>1, <1>3, FreeIs
<1>5. Allocating' = Allocating /\ Cardinality(Allocating) \in Nat
  BY MainThreads, SomeAllocate DEF Allocating
<1>6. pool'.total \in Nat /\ pool'.free \in Nat /\ pool'.sem \in Nat BY <1>2, <1>4
<1>7. pool'.free + s + k = pool'.total BY <1>2, <1>4
<1>8. pool'.sem + Cardinality(Allocating') = pool'.free BY <1>2, <1>4, <1>5
<1>9. m'.pc = "done" => pool'.free = pool'.total BY <1>6, <1>7
<1>10. \A i \in 1..NumItems : refs'[i].blocks \in Nat
                                /\ (refs'[i].blocks # 0 => refs'[i].finished)
  BY <1>1 DEF KeptNumbers
<1>11. s = SumFunctionOnSet(BlocksOf', Threads) /\ k = SumFunctionOnSet(KeptOf', 1..NumItems)
  BY <1>1 DEF BlockSumsAre
<1>12. pool'.free + SumFunctionOnSet(BlocksOf', Threads)
              + SumFunctionOnSet(KeptOf', 1..NumItems) = pool'.total
  BY <1>7, <1>11, Zenon
<1> QED BY <1>1, <1>6, <1>8, <1>9, <1>10, <1>12, BlocksOKNow

LEMMA SameBlocks ==
    ASSUME Inv, MainMove, pool' = pool, m'.pc # "done",
           \A t \in Threads : out'[t].blocks = out[t].blocks,
           \A i \in 1..NumItems : refs'[i].blocks = refs[i].blocks
                                    /\ refs'[i].finished = refs[i].finished
    PROVE  BlocksOK'
<1>1. /\ Shapes' /\ BlocksOK /\ m'.updates = m.updates
  BY MainShapes, MainSettled DEF Inv, Settled
<1>2. /\ StreamBlocks = SumFunctionOnSet(BlocksOf, Threads)
      /\ KeptBlocks = SumFunctionOnSet(KeptOf, 1..NumItems)
      /\ pool.free + StreamBlocks + KeptBlocks = pool.total
      /\ pool.sem + Cardinality(Allocating) = pool.free
      /\ pool.total \in Nat /\ pool.free \in Nat /\ pool.sem \in Nat
  BY <1>1, BlockSums DEF Inv
<1>3. Allocating' = Allocating BY MainThreads DEF Allocating
<1>4. BlocksOf' = BlocksOf /\ KeptOf' = KeptOf BY <1>1 DEF BlocksOf, KeptOf
<1>5. \A i \in 1..NumItems : refs'[i].blocks \in Nat
                               /\ (refs'[i].blocks # 0 => refs'[i].finished)
  BY <1>1 DEF BlocksOK
<1> HIDE DEF NumItems, Items
<1> QED BY <1>1, <1>2, <1>3, <1>4, <1>5, BlocksOKNow

(* One stream has changed the number of its blocks.                        *)
LEMMA StreamSum ==
    ASSUME Inv, NEW k \in Threads, Stirs(k), out'[k].blocks = 0
    PROVE  /\ SumFunctionOnSet(BlocksOf', Threads) \in Nat /\ out[k].blocks \in Nat
           /\ SumFunctionOnSet(BlocksOf', Threads) + out[k].blocks = StreamBlocks
<1>1. /\ StreamBlocks = SumFunctionOnSet(BlocksOf, Threads)
      /\ \A t \in Threads : BlocksOf[t] \in Nat
  BY BlockSums DEF Inv
<1>2. \A t \in Threads \ {k} : BlocksOf[t] = BlocksOf'[t] BY DEF BlocksOf, Stirs
<1>3. BlocksOf'[k] = 0 /\ BlocksOf[k] = out[k].blocks BY DEF BlocksOf
<1>4. \A t \in Threads : BlocksOf[t] \in Nat /\ BlocksOf'[t] \in Nat BY <1>1, <1>2, <1>3
<1>5. /\ SumFunctionOnSet(BlocksOf', Threads)
           = SumFunctionOnSet(BlocksOf, Threads) - BlocksOf[k] + BlocksOf'[k]
      /\ SumFunctionOnSet(BlocksOf, Threads) \in Nat
      /\ SumFunctionOnSet(BlocksOf', Threads) \in Nat
  BY <1>2, <1>4, ThreadSumChanged
<1> QED BY <1>1, <1>3, <1>4, <1>5

LEMMA KeptSum ==
    ASSUME Inv, m'.updates = m.updates, NEW i \in 1..NumItems, Keeps(i), refs'[i].blocks \in Nat
    PROVE  /\ SumFunctionOnSet(KeptOf', 1..NumItems) \in Nat /\ refs[i].blocks \in Nat
           /\ SumFunctionOnSet(KeptOf', 1..NumItems) + refs[i].blocks
                 = KeptBlocks + refs'[i].blocks
<1>1. /\ KeptBlocks = SumFunctionOnSet(KeptOf, 1..NumItems) /\ NumItems \in Nat
      /\ \A j \in 1..NumItems : KeptOf[j] \in Nat
  BY BlockSums, MainBasics DEF Inv
<1>2. \A j \in (1..NumItems) \ {i} : KeptOf[j] = KeptOf'[j] BY DEF KeptOf, Keeps
<1>3. KeptOf'[i] = refs'[i].blocks /\ KeptOf[i] = refs[i].blocks BY DEF KeptOf
<1>4. \A j \in 1..NumItems : KeptOf[j] \in Nat /\ KeptOf'[j] \in Nat BY <1>1, <1>2, <1>3
<1>5. /\ SumFunctionOnSet(KeptOf', 1..NumItems)
           = SumFunctionOnSet(KeptOf, 1..NumItems) - KeptOf[i] + KeptOf'[i]
      /\ SumFunctionOnSet(KeptOf, 1..NumItems) \in Nat
      /\ SumFunctionOnSet(KeptOf', 1..NumItems) \in Nat
  BY <1>1, <1>2, <1>4, ItemSumChanged
<1>6. KeptOf[i] \in Nat /\ KeptOf'[i] \in Nat BY <1>4
<1> QED BY <1>1, <1>3, <1>5, <1>6

LEMMA BlocksForIs ==
    ASSUME NEW size \in Nat
    PROVE  BlocksFor(size) \in Nat
<1> DEFINE a == size + BlockSize - 1
           q == a \div BlockSize
           r == a % BlockSize
<1>1. BlockSize \in Nat \ {0} BY ManyThreads
<1>2. a \in Int /\ a >= 0 /\ q \in Int /\ r \in 0..BlockSize - 1 BY <1>1
<1>3. a = BlockSize * q + r BY <1>1, <1>2, QuotientAndRemainder
<1> HIDE DEF a, q, r
<1>4. q >= 0 BY <1>2, <1>1, <1>3
<1> QED BY <1>2, <1>4 DEF BlocksFor, q, a

LEMMA SameKeptNumbers ==
    ASSUME Inv, MainMove,
           \A i \in 1..NumItems : refs'[i].blocks = refs[i].blocks
                                    /\ refs'[i].finished = refs[i].finished
    PROVE  KeptNumbers' /\ SumFunctionOnSet(KeptOf', 1..NumItems) = KeptBlocks
<1>1. m'.updates = m.updates /\ BlocksOK /\ Shapes BY MainSettled DEF Inv, Settled
<1>2. KeptNumbers' BY <1>1 DEF KeptNumbers, BlocksOK
<1>3. KeptOf' = KeptOf BY <1>1 DEF KeptOf
<1>4. KeptBlocks = SumFunctionOnSet(KeptOf, 1..NumItems) BY <1>1, BlockSums DEF Inv
<1> QED BY <1>2, <1>3, <1>4

LEMMA AddTwice ==
    ASSUME NEW a \in Nat, NEW b \in Nat, NEW c \in Nat, NEW d \in Nat, NEW e \in Nat, NEW f \in Nat,
           a + c = d, b + e = f
    PROVE  a + b + (c + e) = d + f
OBVIOUS

(* The blocks of one stream go back.                                       *)
LEMMA StreamFreed ==
    ASSUME Inv, MainMove, NEW k \in Threads, Stirs(k), out'[k].blocks = 0, refs' = refs,
           pool' = FreeBlocks(pool, out[k].blocks), m'.pc # "done"
    PROVE  BlocksOK'
<1>1. PICK s, kept : /\ s = SumFunctionOnSet(BlocksOf', Threads)
                     /\ kept = SumFunctionOnSet(KeptOf', 1..NumItems)
  OBVIOUS
<1>2. KeptNumbers' /\ kept = KeptBlocks BY <1>1, SameKeptNumbers
<1>3. s \in Nat /\ out[k].blocks \in Nat /\ s + out[k].blocks = StreamBlocks BY <1>1, StreamSum
<1>4. StreamBlocks \in Nat /\ KeptBlocks \in Nat BY BlockSums DEF Inv
<1>5. m'.updates = m.updates BY MainSettled DEF Settled
<1>6. BlockSumsAre(s, kept)' BY <1>1, <1>5 DEF BlockSumsAre
<1>7. s + kept + out[k].blocks = StreamBlocks + KeptBlocks
  <2>1. kept = KeptBlocks BY <1>2
  <2>2. s + kept + (out[k].blocks + 0) = StreamBlocks + KeptBlocks
    <3>1. kept \in Nat /\ kept + 0 = KeptBlocks BY <1>4, <2>1
    <3> QED BY <1>3, <1>4, <3>1, AddTwice
  <2>3. out[k].blocks + 0 = out[k].blocks BY <1>3
  <2> QED BY <2>2, <2>3
<1>8. kept \in Nat BY <1>2, <1>4
<1> QED BY <1>2, <1>3, <1>6, <1>7, <1>8, BlocksFreed

(* Data that was kept is written.                                          *)
LEMMA KeptSent ==
    ASSUME Inv, MainMove, SendsKept
    PROVE  BlocksOK'
<1> DEFINE i == m.itemIndex
<1>1. PICK s, kept : /\ s = SumFunctionOnSet(BlocksOf', Threads)
                     /\ kept = SumFunctionOnSet(KeptOf', 1..NumItems)
  OBVIOUS
<1>2. /\ m'.updates = m.updates /\ Keeps(i) /\ i \in 1..NumItems /\ refs'[i].blocks = 0
      /\ out' = out /\ pool' = FreeBlocks(pool, refs[i].blocks) /\ m'.pc # "done"
      /\ refs'[i].finished
  BY MainSettled DEF Settled, SendsKept, Keeps, MainIs
<1>3. kept \in Nat /\ refs[i].blocks \in Nat /\ kept + refs[i].blocks = KeptBlocks
  BY <1>2, <1>1, KeptSum, BlockSums DEF Inv
<1>4. /\ StreamBlocks \in Nat /\ KeptBlocks \in Nat
      /\ StreamBlocks = SumFunctionOnSet(BlocksOf, Threads)
  BY BlockSums DEF Inv
<1>5. s = StreamBlocks BY <1>2, <1>1, <1>4 DEF BlocksOf
<1>6. BlockSumsAre(s, kept)' BY <1>1, <1>2 DEF BlockSumsAre
<1>7. KeptNumbers' BY <1>2 DEF Inv, BlocksOK, KeptNumbers, Keeps
<1> HIDE DEF i
<1>8. s + kept + refs[i].blocks = StreamBlocks + KeptBlocks BY <1>3, <1>4, <1>5
<1> QED BY <1>2, <1>3, <1>4, <1>5, <1>6, <1>7, <1>8, BlocksFreed

(* What a thread has finished early is kept, and the other blocks go back. *)
LEMMA LaterKept ==
    ASSUME Inv, MainMove, NEW k \in Threads, TakesLater(k)
    PROVE  BlocksOK'
<1>1. PICK i : i = th[k].item OBVIOUS
<1>2. PICK s, kept, b : /\ s = SumFunctionOnSet(BlocksOf', Threads)
                        /\ kept = SumFunctionOnSet(KeptOf', 1..NumItems)
                        /\ b = refs'[i].blocks
  OBVIOUS
<1>3. /\ m'.updates = m.updates /\ Keeps(i) /\ i \in 1..NumItems
      /\ Stirs(k) /\ out'[k].blocks = 0 /\ m'.pc # "done"
      /\ refs'[i].finished /\ b = Min({out[k].blocks, BlocksFor(out[k].total)})
      /\ pool' = FreeBlocks(pool, out[k].blocks - b)
  BY <1>1, <1>2, MainSettled DEF Settled, TakesLater, Keeps, Frees, Stream, MainIs
<1>4. out[k].blocks \in Nat /\ BlocksFor(out[k].total) \in Nat BY BlocksForIs DEF Inv, StreamOK
<1>5. b \in Nat /\ b <= out[k].blocks BY <1>3, <1>4, MinTwo
<1>6. refs[i].blocks = 0
  <2>1. Drops(k) /\ Takes(k) BY DEF TakesLater, Takes
  <2>2. Running /\ Busy(k) BY <2>1, TakesListed
  <2>3. ~refs[i].finished BY <1>1, <2>2, QueueFacts
  <2> QED BY <1>3, <2>3 DEF Inv, BlocksOK
<1>7. kept \in Nat /\ kept = KeptBlocks + b /\ KeptBlocks \in Nat
  <2>1. kept + refs[i].blocks = KeptBlocks + b /\ kept \in Nat BY <1>2, <1>3, <1>5, KeptSum
  <2>2. KeptBlocks \in Nat BY BlockSums DEF Inv
  <2> QED BY <1>5, <1>6, <2>1, <2>2
<1>8. s \in Nat /\ s + out[k].blocks = StreamBlocks /\ StreamBlocks \in Nat
  BY BlockSums, <1>2, <1>3, StreamSum DEF Inv
<1>9. BlockSumsAre(s, kept)' BY <1>2, <1>3 DEF BlockSumsAre
<1>10. KeptNumbers' BY <1>2, <1>3, <1>5 DEF Inv, BlocksOK, KeptNumbers, Keeps
<1>11. PICK n : n = out[k].blocks - b OBVIOUS
<1>12. n \in Nat /\ n + b = out[k].blocks BY <1>4, <1>5, <1>11
<1>13. s + kept + n = StreamBlocks + KeptBlocks BY <1>7, <1>8, <1>12, <1>4, <1>5
<1> QED BY <1>3, <1>7, <1>8, <1>9, <1>10, <1>11, <1>12, <1>13, BlocksFreed

(* Everything is given back at the end.                                    *)
LEMMA AllReturned ==
    ASSUME Inv, MainMove, Returns
    PROVE  BlocksOK'
<1>1. m'.updates = m.updates /\ NumItems \in Nat BY MainSettled, MainBasics DEF Settled, Inv
<1>2. IsFiniteSet(Threads) /\ IsFiniteSet(1..NumItems) BY <1>1, FS_Interval, ManyThreads
<1>3. 0 = SumFunctionOnSet(BlocksOf', Threads)
  BY <1>2, SumOfZeros DEF Returns, Stream, BlocksOf
<1>4. 0 = SumFunctionOnSet(KeptOf', 1..NumItems) BY <1>1, <1>2, SumOfZeros DEF Returns, KeptOf
<1>5. BlockSumsAre(0, 0)' BY <1>1, <1>3, <1>4 DEF BlockSumsAre
<1>6. KeptNumbers' BY <1>1 DEF Returns, KeptNumbers
<1>7. PICK n : n = StreamBlocks + KeptBlocks OBVIOUS
<1>8. n \in Nat BY <1>7, BlockSums DEF Inv
<1>9. pool' = FreeBlocks(pool, n) BY <1>7 DEF Returns
<1>10. 0 + 0 + n = StreamBlocks + KeptBlocks BY <1>7, <1>8
<1>11. 0 + 0 = 0 /\ 0 \in Nat OBVIOUS
<1> QED BY <1>5, <1>6, <1>8, <1>9, <1>10, <1>11, BlocksFreed

LEMMA MainBlocks ==
    ASSUME Inv, MainMove
    PROVE  BlocksOK'
<1>1. CASE SendsKept BY <1>1, KeptSent
<1>2. CASE \E k \in Threads : Starts(k) BY <1>2, StreamFreed DEF Starts, Stream, MainIs
<1>3. CASE \E k \in Threads : TakesFront(k)
  BY <1>3, StreamFreed DEF TakesFront, Frees, Stream, MainIs
<1>4. CASE \E k \in Threads : TakesLater(k) BY <1>4, LaterKept
<1>5. CASE Returns BY <1>5, AllReturned
<1>6. CASE \/ PassesOver \/ Skips \/ (\E res \in Results : GivesUp(res)) \/ GoesOn
           \/ (\E unit : WritesOwn(unit)) \/ (\E f \in Threads : Opens(f)) \/ Waits
           \/ Locks \/ Finishes \/ Halts \/ Joins
           \/ \E k \in Threads : TakesFailed(k) \/ TakesUnwritten(k)
  <2>1. pool' = pool /\ m'.pc # "done"
    BY <1>6 DEF PassesOver, Skips, GivesUp, GoesOn, WritesOwn, Opens, Waits, Locks, Finishes,
       Halts, Joins, TakesFailed, TakesUnwritten, MainIs, Leaves, Closes
  <2>2. \A t \in Threads : out'[t].blocks = out[t].blocks
    BY <1>6 DEF PassesOver, Skips, GivesUp, GoesOn, WritesOwn, Opens, Waits, Locks, Finishes,
       Halts, Joins, TakesFailed, TakesUnwritten, Stirs, Stream
  <2>3. \A i \in 1..NumItems : refs'[i].blocks = refs[i].blocks
                                  /\ refs'[i].finished = refs[i].finished
    BY <1>6 DEF PassesOver, Skips, GivesUp, GoesOn, WritesOwn, Opens, Waits, Locks, Finishes,
       Halts, Joins, TakesFailed, TakesUnwritten, Keeps
  <2> QED BY <2>1, <2>2, <2>3, SameBlocks
<1> QED BY <1>1, <1>2, <1>3, <1>4, <1>5, <1>6 DEF MainMove

LEMMA ProgressFacts ==
    ASSUME Inv
    PROVE  /\ ProgOK /\ prog.total \in Nat
           /\ prog.total = (ReadSize + DoneSize) % SizeModulus
           /\ \A u \in Threads :
                /\ prog.inSizes[u] \in Nat
                /\ th[u].item = 0 => prog.inSizes[u] = 0
                /\ Packs(u) => prog.inSizes[u] = Item(th[u].item).size
                /\ Running /\ ~Busy(u) /\ th[u].item # 0 =>
                      prog.inSizes[u] = Item(th[u].item).size
BY ProgressIs DEF Inv, ProgressOK, Shapes

(* The same threads are at work on the same files.                         *)
LEMMA SameWork ==
    ASSUME Inv, MainMove, prog' = prog,
           \A u \in Threads : th'[u].item = th[u].item,
           \/ m'.mtItemIndex = m.mtItemIndex
           \/ m'.mtItemIndex = m.mtItemIndex + 1 /\ Kind(m.mtItemIndex) # "file",
           \A u \in Threads : Packs(u)' => Packs(u),
           \A u \in Threads : Running' /\ ~Busy(u)' => Running /\ (Packs(u) \/ ~Busy(u))
    PROVE  ProgressOK'
<1>1. /\ m'.updates = m.updates /\ ProgOK' /\ \A i : Item(i)' = Item(i)
      /\ m.mtItemIndex \in Nat
  BY MainSettled, MainRest, MainBasics DEF Settled, Item, Inv
<1>2. DoneItems' = DoneItems BY <1>1 DEF InWork, Kind, DoneItems
<1>3. DoneSize' = DoneSize BY <1>1, <1>2 DEF SizesOf, DoneSize
<1>4. ReadSize' = ReadSize BY DEF ReadSize
<1>5. ProgressExact' BY <1>1, <1>3, <1>4, ProgressFacts, ProgressIsNow
<1>6. ASSUME NEW u \in Threads
      PROVE  /\ prog'.inSizes[u] \in Nat
             /\ th'[u].item = 0 => prog'.inSizes[u] = 0
             /\ Packs(u)' => prog'.inSizes[u] = Item(th[u].item)'.size
             /\ Running' /\ ~Busy(u)' /\ th'[u].item # 0 =>
                   prog'.inSizes[u] = Item(th[u].item)'.size
  BY <1>1, ProgressFacts DEF Item
<1>7. prog'.total \in Nat BY ProgressFacts
<1> QED BY <1>5, <1>6, <1>7 DEF ProgressOK

(* A thread leaves a file that is done, and starts another.                *)
LEMMA StartsDone ==
    ASSUME Inv, MainMove, NEW k \in Threads, Starts(k), NEW j, j = th[k].item
    PROVE  /\ j = 0 => DoneItems' = DoneItems
           /\ j # 0 => j \notin DoneItems /\ DoneItems' = DoneItems \cup {j}
           /\ j # 0 => j \in 1..NumItems /\ Item(j).kind = "file"
<1>0. PICK i : i = m.mtItemIndex OBVIOUS
<1>1. /\ m'.updates = m.updates /\ m'.mtItemIndex = i + 1 /\ i \in Nat
      /\ th'[k].item = i /\ \A u \in Threads : u # k => th'[u] = th[u]
      /\ \A x : Item(x)' = Item(x)
  <2>1. m'.updates = m.updates BY MainSettled DEF Settled
  <2>2. m'.mtItemIndex = i + 1 /\ th'[k].item = i BY <1>0 DEF Starts, MainIs
  <2>3. i \in Nat BY <1>0, MainBasics DEF Inv
  <2>4. \A u \in Threads : u # k => th'[u] = th[u] BY StartsWaiting
  <2> QED BY <2>1, <2>2, <2>3, <2>4 DEF Item
<1>2. /\ \A t \in Threads : th[t].item # 0 => th[t].item < i /\ Item(th[t].item).kind = "file"
      /\ \A t, u \in Threads : th[t].item = th[u].item /\ th[t].item # 0 => t = u
      /\ \A t \in Threads : th[t].item \in Nat /\ th[t].item <= NumItems /\ NumItems \in Nat
  BY QueueFacts, StartsWaiting, <1>0, MainBasics DEF Inv, ItemsOK
<1>3. \A x \in Nat \ {0} : InWork(x)' <=> x = i \/ (InWork(x) /\ x # j)
  BY <1>1, <1>2 DEF InWork
<1>4. DoneItems' = {x \in 1..i : Item(x).kind = "file" /\ ~InWork(x)'} BY <1>1 DEF DoneItems
<1>5. j \in Nat /\ (j # 0 => j < i /\ Item(j).kind = "file" /\ InWork(j) /\ j \in 1..NumItems)
  BY <1>2 DEF InWork
<1>6. \A x \in 1..i - 1 : x \in Nat /\ x # 0 /\ x # i BY <1>1
<1>7. 1..i = (1..i - 1) \cup {i} \/ i = 0 BY <1>1
<1>8. i # 0 BY <1>0, MainBasics DEF Inv
<1> HIDE DEF InWork, Item
<1>9. InWork(i)' BY <1>1, <1>3, <1>8
<1>10. \A x : x \in DoneItems' <=>
                x \in 1..i - 1 /\ Item(x).kind = "file" /\ (~InWork(x) \/ x = j)
  BY <1>3, <1>6, <1>4, <1>7, <1>8, <1>9
<1>11. \A x : x \in DoneItems <=> x \in 1..i - 1 /\ Item(x).kind = "file" /\ ~InWork(x)
  BY <1>0 DEF DoneItems
<1>12. j # 0 => j \in 1..i - 1 BY <1>1, <1>5
<1> QED BY <1>5, <1>6, <1>10, <1>11, <1>12

(* What was read of the file that is done is counted as its size.          *)
LEMMA StartsSums ==
    ASSUME Inv, MainMove, NEW k \in Threads, Starts(k)
    PROVE  ReadSize' + DoneSize' = ReadSize + DoneSize
<1>1. PICK j, size : j = th[k].item /\ size = prog.inSizes[k] OBVIOUS
<1>2. /\ m'.updates = m.updates /\ \A x : Item(x)' = Item(x) /\ Shapes
  BY MainSettled DEF Settled, Inv, Item
<1>3. /\ size \in Nat /\ (j = 0 => size = 0) /\ (j # 0 => size = Item(j).size)
  BY <1>1, StartsWaiting, ProgressFacts
<1>4. ReadSize' + size = ReadSize /\ ReadSize \in Nat /\ ReadSize' \in Nat
  <2> DEFINE f == prog.inSizes
             g == prog'.inSizes
  <2>1. /\ \A u \in Threads : f[u] \in Nat
        /\ \A u \in Threads \ {k} : f[u] = g[u]
        /\ g[k] = 0 /\ f[k] = size
    BY <1>1, ProgressFacts DEF Starts
  <2> HIDE DEF f, g
  <2>2. \A u \in Threads : f[u] \in Nat /\ g[u] \in Nat BY <2>1
  <2>3. /\ SumFunctionOnSet(g, Threads) = SumFunctionOnSet(f, Threads) - f[k] + g[k]
        /\ SumFunctionOnSet(f, Threads) \in Nat /\ SumFunctionOnSet(g, Threads) \in Nat
    BY <2>1, <2>2, ThreadSumChanged
  <2>4. ReadSize = SumFunctionOnSet(f, Threads) /\ ReadSize' = SumFunctionOnSet(g, Threads)
    BY DEF f, g, ReadSize
  <2> QED BY <1>3, <2>1, <2>3, <2>4
<1>5. DoneSize' = DoneSize + size /\ DoneSize \in Nat
  <2>1. CASE j = 0
    <3>1. DoneItems' = DoneItems BY <1>1, <2>1, StartsDone
    <3>2. SizesOf(DoneItems)' = SizesOf(DoneItems) BY <1>2, <3>1 DEF SizesOf
    <3>3. DoneSize' = DoneSize /\ DoneSize \in Nat BY <1>2, <3>1, <3>2, DoneFacts DEF DoneSize
    <3> QED BY <1>3, <2>1, <3>3
  <2>2. CASE j # 0
    <3>1. j \notin DoneItems /\ DoneItems' = DoneItems \cup {j} /\ size \in Nat
      BY <1>1, <1>3, <2>2, StartsDone
    <3> DEFINE f == SizesOf(DoneItems)
               g == SizesOf(DoneItems)'
               S == DoneItems
    <3>2. IsFiniteSet(S) /\ \A x \in S : f[x] \in Nat /\ f[x] = g[x]
      BY <1>2, <3>1, DoneFacts DEF SizesOf
    <3>3. g[j] = size /\ g[j] \in Nat BY <1>2, <1>3, <2>2, <3>1 DEF SizesOf
    <3>4. j \notin S BY <3>1
    <3>5. DoneSize = SumFunctionOnSet(f, S) /\ DoneSize' = SumFunctionOnSet(g, S \cup {j})
      BY <3>1 DEF DoneSize
    <3> HIDE DEF f, g, S
    <3>6. /\ SumFunctionOnSet(g, S \cup {j}) = SumFunctionOnSet(f, S) + g[j]
          /\ SumFunctionOnSet(f, S) \in Nat
      BY <3>2, <3>3, <3>4, SumGrown
    <3> QED BY <3>3, <3>5, <3>6
  <2> QED BY <2>1, <2>2
<1>6. PICK a, b, c, d : a = ReadSize' /\ b = DoneSize' /\ c = ReadSize /\ d = DoneSize OBVIOUS
<1>7. a \in Nat /\ d \in Nat /\ a + size = c /\ b = d + size BY <1>4, <1>5, <1>6
<1>8. a + b = c + d BY <1>3, <1>7
<1> QED BY <1>6, <1>8

LEMMA StartsProgress ==
    ASSUME Inv, MainMove, NEW k \in Threads, Starts(k)
    PROVE  ProgressOK'
<1>1. /\ prog'.total = prog.total /\ ProgOK' /\ prog'.inSizes[k] = 0
      /\ \A u \in Threads : u # k => prog'.inSizes[u] = prog.inSizes[u]
  BY DEF Starts
<1>2. /\ \A u \in Threads : u # k => th'[u] = th[u]
      /\ mtSem' = mtSem /\ Running /\ ~Ended(k) /\ th[k].pc # "push"
  BY StartsWaiting
<1>3. Busy(k)' /\ th'[k].item # 0 /\ th'[k].pc = th[k].pc
  BY MainBasics DEF Inv, Starts, Touches, Busy
<1>4. \A u \in Threads : Listed(u)' <=> Listed(u) BY <1>2 DEF Listed
<1>5. ~Packs(k)' /\ \A u \in Threads : u # k => (Packs(u)' => Packs(u)) /\ (Busy(u)' <=> Busy(u))
  BY <1>2, <1>3, <1>4 DEF Packs, Ended, Busy
<1>6. ProgressExact' BY <1>1, StartsSums, ProgressFacts, ProgressIsNow
<1>7. ASSUME NEW u \in Threads
      PROVE  /\ prog'.inSizes[u] \in Nat
             /\ th'[u].item = 0 => prog'.inSizes[u] = 0
             /\ Packs(u)' => prog'.inSizes[u] = Item(th[u].item)'.size
             /\ Running' /\ ~Busy(u)' /\ th'[u].item # 0 =>
                   prog'.inSizes[u] = Item(th[u].item)'.size
  BY <1>1, <1>3, <1>5, <1>2, MainSettled, ProgressFacts DEF Item, Settled
<1>8. prog'.total \in Nat BY <1>1, ProgressFacts
<1> QED BY <1>6, <1>7, <1>8 DEF ProgressOK

LEMMA MainProgress ==
    ASSUME Inv, MainMove
    PROVE  ProgressOK'
<1>1. CASE \E k \in Threads : Starts(k) BY <1>1, StartsProgress
<1>2. CASE \E k \in Threads : Takes(k)
  <2>1. PICK k \in Threads : Takes(k) BY <1>2
  <2>2. /\ prog' = prog /\ th'[k].item = th[k].item /\ m'.mtItemIndex = m.mtItemIndex
    BY <2>1 DEF Takes, TakesFailed, TakesUnwritten, TakesFront, TakesLater, Drops, Leaves,
       Closes, MainIs
  <2>3. /\ \A u \in Threads : u # k => th'[u] = th[u] /\ (Listed(u)' <=> Listed(u))
        /\ ~Listed(k)' /\ Ended(k) /\ th[k].pc # "push" /\ Running
    BY <2>1, TakesListed
  <2>4. th'[k].pc = th[k].pc BY MainThreads
  <2>5. \A u \in Threads : Packs(u)' => Packs(u) BY <2>3, <2>4 DEF Packs, Ended
  <2>6. Running' => Packs(k)
    BY <2>1, <2>3 DEF Takes, TakesFailed, TakesUnwritten, TakesFront, TakesLater, Packs,
       Running, Leaves, Closes, MainIs
  <2>7. \A u \in Threads : Running' /\ ~Busy(u)' => Running /\ (Packs(u) \/ ~Busy(u))
    BY <2>3, <2>6 DEF Busy
  <2>8. \A u \in Threads : th'[u].item = th[u].item BY <2>2, <2>3
  <2> QED BY <2>2, <2>5, <2>7, <2>8, SameWork
<1>3. CASE Aside \/ Halts
  <2>1. /\ prog' = prog /\ mtSem'.list = mtSem.list
        /\ \A u \in Threads : th'[u].item = th[u].item /\ th'[u].isFree = th[u].isFree
    <3>1. CASE Aside
      <4>1. th' = th /\ mtSem'.list = mtSem.list BY <3>1, AsideKeeps
      <4>2. prog' = prog
        BY <3>1 DEF Aside, PassesOver, Skips, GivesUp, GoesOn, WritesOwn, SendsKept, Opens,
           Waits, Locks, Finishes, Joins, Returns
      <4> QED BY <4>1, <4>2
    <3>2. CASE Halts BY <3>2 DEF Halts, Touches
    <3> QED BY <1>3, <3>1, <3>2
  <2>2. \/ m'.mtItemIndex = m.mtItemIndex
        \/ m'.mtItemIndex = m.mtItemIndex + 1 /\ Kind(m.mtItemIndex) # "file"
    BY <1>3 DEF Aside, PassesOver, Skips, GivesUp, GoesOn, WritesOwn, SendsKept, Opens, Waits,
       Locks, Finishes, Joins, Returns, Halts, Leaves, Closes, MainIs
  <2>3. \A u \in Threads : (Listed(u)' <=> Listed(u)) /\ (Busy(u)' <=> Busy(u))
    BY <2>1 DEF Listed, Busy
  <2>4. Running' => Running BY MainSettled
  <2>5. \A u \in Threads : Packs(u)' => Packs(u)
    <3> HIDE DEF Listed, Running
    <3> QED BY <2>3, <2>4, MainThreads DEF Packs, Ended
  <2>6. \A u \in Threads : Running' /\ ~Busy(u)' => Running /\ (Packs(u) \/ ~Busy(u))
    BY <2>3, <2>4
  <2> QED BY <2>1, <2>2, <2>5, <2>6, SameWork
<1> QED BY <1>1, <1>2, <1>3, MainCases

LEMMA ResultFacts ==
    ASSUME Inv
    PROVE  /\ Running => \A t \in Threads : Ended(t) => Busy(t) /\ th[t].res \in {"ok"} \cup hit
           /\ Running /\ hit # {} =>
                 arc.failed \/ \E t \in Threads : Ended(t) /\ th[t].res # "ok"
BY DEF Inv, ResultOK, Life, Ended

(* The call goes on: what has failed is still seen.                        *)
LEMMA StillRunning ==
    ASSUME Inv, MainMove, Running', hit \subseteq hit', hit' = hit \/ arc'.failed,
           arc.failed => arc'.failed,
           \A t \in Threads : Ended(t)' => Ended(t),
           \A t \in Threads : Ended(t) /\ th[t].res # "ok" => Ended(t)'
    PROVE  ResultOK'
<1>1. Running /\ ~Closing' BY MainSettled DEF Running, Closing
<1>2. \A t \in Threads : th'[t].res = th[t].res BY MainThreads
<1>3. \A t \in Threads : Ended(t)' => th'[t].res \in {"ok"} \cup hit'
  <2> HIDE DEF Ended, Running
  <2> QED BY <1>1, <1>2, ResultFacts
<1>4. hit' # {} => arc'.failed \/ \E t \in Threads : Ended(t)' /\ th'[t].res # "ok"
  <2> HIDE DEF Ended, Running
  <2> QED BY <1>1, <1>2, ResultFacts
<1> QED BY <1>1, <1>3, <1>4 DEF ResultOK

(* The last item is written: the central directory is put behind it.       *)
LEMMA FinishedResult ==
    ASSUME Inv, MainMove, Finishes
    PROVE  ResultOK'
<1>1. /\ SameUpdates /\ m'.res = "ok"
      /\ ~Running' /\ th' = th /\ hit' = hit /\ ~arc.failed /\ m.pc = "loop"
      /\ m.itemIndex > NumItems /\ Appends(<<<<0, "central">>>>)
  BY DEF Finishes, Leaves, Closes, MainIs, Settled, Running
<1>2. Running /\ Good BY <1>1 DEF Running, Good
<1>3. NumItems \in Nat /\ m.itemIndex = NumItems + 1 /\ ~Open
  BY <1>1, <1>2, QueueFacts DEF Open
<1>4. \A t \in Threads : ~Busy(t) BY <1>2, <1>3, QueueFacts
<1>5. hit = {} BY <1>1, <1>2, <1>4, ResultFacts
<1>6. /\ arc.data \in Seq(Units) /\ arc.pos = Len(arc.data)
      /\ Alike(m.outSeqMode, arc.data, Before)
  BY <1>2, <1>3, BetweenItems
<1>7. Before \in Seq(Units) /\ Before = EntriesOf(m.updates, m.outSeqMode, NumItems)
  BY <1>3, BeforeTypes DEF Inv, Before
<1>8. PICK units : units = <<<<0, "central">>>> OBVIOUS
<1>9. units \in Seq(Units) BY <1>8 DEF Units, States
<1>10. arc'.data = arc.data \o units BY <1>1, <1>6, <1>8, <1>9, AppendTypes DEF Inv
<1>11. Alike(m.outSeqMode, arc.data \o units, Before \o units)
  BY <1>6, <1>7, <1>9, AlikeItself, AlikeConcat
<1>12. Alike(m'.outSeqMode, arc'.data,
             EntriesOf(m'.updates, m'.outSeqMode, NumItems') \o <<<<0, "central">>>>)
  BY <1>1, <1>7, <1>8, <1>10, <1>11
<1>13. \A t \in Threads : ~Busy(t)' BY <1>1, <1>4 DEF Busy
<1> QED BY <1>1, <1>5, <1>12, <1>13 DEF ResultOK

(* Nothing is decided any more.                                            *)
LEMMA ClosingResult ==
    ASSUME Inv, MainMove, Halts \/ Joins \/ Returns
    PROVE  ResultOK'
<1>1. /\ m'.res = m.res /\ SameUpdates
      /\ hit' = hit /\ arc' = arc /\ Closing /\ ~Running'
  BY DEF Halts, Joins, Returns, Closes, MainIs, Settled, Closing, Running
<1>2. \A t \in Threads : Busy(t)' <=> Busy(t) BY DEF Halts, Joins, Returns, Touches, Busy
<1>3. \/ m.res \in hit
      \/ /\ m.res = "ok" /\ hit = {} /\ \A t \in Threads : ~Busy(t)
         /\ Alike(m.outSeqMode, arc.data,
                  EntriesOf(m.updates, m.outSeqMode, NumItems) \o <<<<0, "central">>>>)
  BY <1>1 DEF Inv, ResultOK
<1>4. CASE m.res \in hit BY <1>1, <1>4 DEF ResultOK
<1>5. CASE /\ m.res = "ok" /\ hit = {} /\ \A t \in Threads : ~Busy(t)
           /\ Alike(m.outSeqMode, arc.data,
                    EntriesOf(m.updates, m.outSeqMode, NumItems) \o <<<<0, "central">>>>)
  BY <1>1, <1>2, <1>5 DEF ResultOK
<1> QED BY <1>3, <1>4, <1>5

(* The call leaves with a failure there has been.                          *)
LEMMA FailedResult ==
    ASSUME ~Running', m'.res \in hit'
    PROVE  ResultOK'
BY DEF ResultOK

LEMMA MainResult ==
    ASSUME Inv, MainMove
    PROVE  ResultOK'
<1>1. CASE Finishes BY <1>1, FinishedResult
<1>2. CASE Halts \/ Joins \/ Returns BY <1>2, ClosingResult
<1>3. CASE \E res \in Results : GivesUp(res)
  BY <1>3, FailedResult DEF GivesUp, Leaves, Closes, MainIs, Running
<1>4. CASE \E k \in Threads : TakesFailed(k) \/ TakesUnwritten(k)
  BY <1>4, TakesListed, ResultFacts, FailedResult DEF Takes, TakesFailed, TakesUnwritten,
     WriteFailed, Leaves, Closes, MainIs, Running
<1>5. CASE \E k \in Threads : TakesFront(k) \/ TakesLater(k)
  <2>1. PICK k \in Threads : TakesFront(k) \/ TakesLater(k) BY <1>5
  <2>2. /\ hit' = hit /\ (arc.failed => arc'.failed) /\ th[k].res = "ok" /\ Running'
    BY <2>1 DEF TakesFront, TakesLater, MainIs, Running
  <2>3. /\ \A u \in Threads : u # k => th'[u] = th[u] /\ (Listed(u)' <=> Listed(u))
        /\ ~Listed(k)' /\ th[k].pc # "push"
    BY <2>1, TakesListed DEF Takes
  <2>4. th'[k].pc = th[k].pc BY MainThreads
  <2>5. /\ \A t \in Threads : Ended(t)' => Ended(t)
        /\ \A t \in Threads : Ended(t) /\ th[t].res # "ok" => Ended(t)'
    <3> HIDE DEF Listed
    <3> QED BY <2>2, <2>3, <2>4 DEF Ended
  <2> QED BY <2>2, <2>5, StillRunning
<1>6. CASE \/ PassesOver \/ Skips \/ GoesOn \/ (\E unit : WritesOwn(unit)) \/ SendsKept
           \/ (\E f \in Threads : Opens(f)) \/ Waits \/ Locks \/ \E k \in Threads : Starts(k)
  <2>1. mtSem'.list = mtSem.list /\ Running'
    <3>1. Running'
      BY <1>6 DEF PassesOver, Skips, GoesOn, WritesOwn, SendsKept, Opens, Waits, Locks, Starts,
         MainIs, Running
    <3>2. mtSem'.list = mtSem.list
      BY <1>6 DEF PassesOver, Skips, GoesOn, WritesOwn, SendsKept, Opens, Waits, Locks, Starts
    <3> QED BY <3>1, <3>2
  <2>2. /\ hit \subseteq hit' /\ (hit' = hit \/ arc'.failed) /\ (arc.failed => arc'.failed)
    BY <1>6 DEF PassesOver, Skips, GoesOn, WritesOwn, SendsKept, Opens, Waits, Locks, Starts,
       WriteFailed, Archive
  <2>3. \A t \in Threads : Ended(t)' <=> Ended(t) BY <2>1, MainThreads DEF Listed, Ended
  <2> QED BY <2>1, <2>2, <2>3, StillRunning
<1> QED BY <1>1, <1>2, <1>3, <1>4, <1>5, <1>6 DEF MainMove

(* Nothing has been given to a thread yet.                                 *)
Fresh ==
    /\ Shapes /\ AtSetup
    /\ m.pc \in {"setup", "loop", "close"}
    /\ m.pc = "close" => m.closing = 0 /\ m.res \in hit
    /\ m.pc # "close" => hit = {}
    /\ m.itemIndex = 1 /\ m.mtItemIndex = 1 /\ m.lastReal = 0 /\ m.threadIndices = <<>>
    /\ \A t \in Threads :
          /\ th[t].pc \in {"none", "wait"} /\ (m.pc = "loop" => th[t].pc = "wait")
          /\ th[t].isFree /\ ~th[t].exitThread /\ ~th[t].compressEvent
          /\ th[t].item = 0 /\ th[t].packSize = 0
          /\ out[t] = COutMemStream /\ prog.inSizes[t] = 0
    /\ \A i \in 1..NumItems : refs[i] = CMemBlocks2
    /\ mtSem = [count |-> 0, list |-> <<>>]
    /\ arc = [data |-> <<>>, pos |-> 0, curPos |-> 0, headerPos |-> 0, failed |-> FALSE]
    /\ pool.total \in Nat /\ pool.free = pool.total /\ pool.sem = pool.total
    /\ prog.total = 0

LEMMA FreshIdle ==
    ASSUME Fresh
    PROVE  /\ NumItems \in Nat /\ ~Open
           /\ \A t \in Threads : ~Busy(t) /\ ~Listed(t) /\ ~Ended(t) /\ ~Live(t)
                                   /\ ~Packs(t) /\ ~Called(t)
  BY MainBasics DEF Fresh, Open, Listed, Busy, Ended, Live, Packs, Called

LEMMA FreshLife ==
    ASSUME Fresh
    PROVE  SemOK /\ \A t \in Threads : Life(t)
<1>1. \A t \in Threads : Life(t)
  BY FreshIdle, ManyThreads DEF Fresh, COutMemStream, Running, Closing, Life
<1>2. mtSem.count = 0 /\ mtSem.list = <<>> /\ m.pc # "take" BY DEF Fresh
<1>3. Posting = {} BY DEF Posting, Fresh
<1>4. Cardinality(Posting) = 0 BY <1>3, FS_EmptySet
<1>5. IsInjective(mtSem.list) BY <1>2 DEF IsInjective
<1>6. Len(mtSem.list) = 0 BY <1>2
<1>7. SemOK BY <1>2, <1>4, <1>5, <1>6 DEF SemOK
<1> QED BY <1>1, <1>7

LEMMA FreshItems ==
    ASSUME Fresh
    PROVE  ItemsOK /\ Queue /\ RealOK
  BY FreshIdle DEF Fresh, IsInjective, ItemsOK, CMemBlocks2, Queue, RealOK

LEMMA FreshStreams ==
    ASSUME Fresh
    PROVE  /\ \A t \in Threads : StreamOK(t)
           /\ \A i \in 1..NumItems : KeptOK(i)
<1>1. <<>> \in Seq(Units) OBVIOUS
<1>2. ASSUME NEW t \in Threads PROVE StreamOK(t)
  <2>1. /\ ~Busy(t) /\ ~Called(t) /\ ~Live(t) /\ ~Packs(t) /\ th[t].packSize = 0
        /\ out[t].pos = 0 /\ out[t].total = 0 /\ out[t].base = 0 /\ out[t].blocks = 0
        /\ out[t].data = <<>>
    BY FreshIdle DEF Fresh, COutMemStream
  <2>2. out[t].total <= Room(out[t]) BY <2>1, ManyThreads DEF Room
  <2> HIDE DEF Busy, Called, Live, Packs
  <2> QED BY <1>1, <2>1, <2>2 DEF StreamOK
<1>3. ASSUME NEW i \in 1..NumItems PROVE KeptOK(i)
  <2>1. refs[i].packSize = 0 /\ refs[i].data = <<>> /\ ~refs[i].finished
    BY DEF Fresh, CMemBlocks2
  <2> QED BY <1>1, <2>1 DEF KeptOK
<1> QED BY <1>2, <1>3

LEMMA FreshArchive ==
    ASSUME Fresh
    PROVE  ArcType /\ ArcOK /\ ArcData
  BY FreshIdle, EntriesGrow, AlikeItself DEF Fresh, ArcType, ArcOK, ArcData

LEMMA FreshBlocks ==
    ASSUME Fresh
    PROVE  BlocksOK
<1>1. IsFiniteSet(Threads) /\ IsFiniteSet(1..NumItems)
  BY FreshIdle, ManyThreads, FS_Interval, SMTT(30)
<1>2. StreamBlocks = 0
  BY <1>1, SumOfZeros DEF StreamBlocks, SumFunction, BlocksOf, Fresh, COutMemStream
<1>3. KeptBlocks = 0
  BY MainBasics, <1>1, SumOfZeros, SMTT(30) DEF Fresh, RefsOK, KeptBlocks, SumFunction, KeptOf,
     CMemBlocks2
<1>4. Cardinality({t \in Threads : th[t].pc = "alloc"}) = 0
  <2>1. {t \in Threads : th[t].pc = "alloc"} = {} BY DEF Fresh
  <2> QED BY <2>1, FS_EmptySet
<1>5. pool.total \in Nat /\ pool.free = pool.total /\ pool.sem = pool.total BY DEF Fresh
<1>6. BlocksKept BY <1>5, <1>2, <1>3, <1>4 DEF BlocksKept
<1>7. \A i \in 1..NumItems : refs[i].blocks = 0 BY DEF Fresh, CMemBlocks2
<1> QED BY <1>5, <1>6, <1>7 DEF BlocksOK

LEMMA FreshProgress ==
    ASSUME Fresh
    PROVE  ProgressOK /\ ResultOK
<1>1. ReadSize = 0 BY ManyThreads, SumOfZeros DEF ReadSize, Fresh
<1>2. DoneItems = {} /\ DoneSize = 0 BY FS_EmptySet, SumOfZeros DEF DoneItems, Fresh, DoneSize
<1>3. prog.total = 0 /\ ProgOK /\ \A t \in Threads : prog.inSizes[t] = 0 /\ th[t].item = 0
  BY DEF Fresh, Shapes
<1>4. prog.total = (ReadSize + DoneSize) % SizeModulus BY ManyThreads, <1>1, <1>2, <1>3
<1>5. ProgressOK BY <1>3, <1>4, ProgressIs, FreshIdle DEF ProgressOK
<1>6. ResultOK BY FreshIdle DEF Fresh, Running, Closing, ResultOK
<1> QED BY <1>5, <1>6

LEMMA FreshKeeps == Fresh => Inv
  BY FreshLife, FreshItems, FreshStreams, FreshArchive, FreshBlocks, FreshProgress DEF Fresh, Inv

LEMMA InitFresh == Init => Fresh
<1> SUFFICES ASSUME Init PROVE Fresh OBVIOUS
<1>1. PICK items \in Updates, mode \in OutSeqModes :
        /\ m = [pc |-> "setup", updates |-> items, outSeqMode |-> mode,
                itemIndex |-> 1, mtItemIndex |-> 1, lastReal |-> 0,
                threadIndices |-> <<>>, res |-> "ok", closing |-> 0]
        /\ refs = [i \in 1..Len(items) |-> CMemBlocks2]
  BY DEF Init
<1>2. PICK blocks \in BlockCounts : pool = [total |-> blocks, free |-> blocks, sem |-> blocks]
  BY DEF Init
<1>3. /\ th = [t \in Threads |-> CThreadInfo] /\ out = [t \in Threads |-> COutMemStream]
      /\ mtSem = [count |-> 0, list |-> <<>>]
      /\ arc = [data |-> <<>>, pos |-> 0, curPos |-> 0, headerPos |-> 0, failed |-> FALSE]
      /\ prog = [total |-> 0, inSizes |-> [t \in Threads |-> 0]] /\ hit = {}
  BY DEF Init
<1>4. mode \in BOOLEAN /\ blocks \in Nat /\ Len(items) \in Nat /\ NumThreads \in Nat \ {0}
  BY ZipAssumption DEF ZipAssumption
<1>5. /\ Items = items /\ NumItems = Len(items) /\ m.updates = items BY <1>1
<1>6. MainOK
  <2>1. <<>> \in Seq(Threads) /\ "ok" \in Results BY DEF Results
  <2>2. /\ 1 \in 1..Len(items) + 1 /\ 0 \in 0..Len(items) /\ 0 \in 0..NumThreads BY <1>4
  <2>3. MainType(m) BY <1>1, <1>4, <1>5, <2>1, <2>2 DEF MainType
  <2> QED BY <1>1, <2>3 DEF MainOK
<1>7. ThreadsOK
  <2>1. "ok" \in Results /\ 0 \in 0..NumItems BY <1>4, <1>5 DEF Results
  <2> HIDE DEF NumItems
  <2> QED BY <1>3, <2>1 DEF ThreadsOK, ThreadType, CThreadInfo, Places
<1>8. OutsOK /\ RefsOK
  BY <1>1, <1>3, <1>5 DEF OutsOK, OutType, COutMemStream, RefsOK, RefType, CMemBlocks2
<1>9. SyncOK /\ FileOK /\ ProgOK /\ HitOK BY <1>2, <1>3 DEF SyncOK, FileOK, ProgOK, HitOK
<1>10. Shapes BY <1>6, <1>7, <1>8, <1>9 DEF Shapes
<1>11. AtSetup BY <1>1, <1>2, <1>3, <1>5 DEF AtSetup
<1> QED BY <1>1, <1>2, <1>3, <1>4, <1>5, <1>10, <1>11 DEF Fresh, CThreadInfo

LEMMA SetupFresh ==
    ASSUME Inv, Setup
    PROVE  Fresh'
<1>1. /\ m.pc = "setup" /\ Shapes /\ AtSetup
      /\ UNCHANGED <<out, pool, refs, mtSem, arc, prog>>
  BY DEF Setup, Inv
<1>2. PICK n \in 0..NumThreads :
        /\ th' = [t \in Threads |->
                    IF t < n THEN [CThreadInfo EXCEPT !.pc = "wait"] ELSE CThreadInfo]
        /\ IF n = NumThreads
           THEN m' = [m EXCEPT !.pc = "loop"] /\ UNCHANGED hit
           ELSE CanFail("create") /\ Fail("create") /\ Leave("create")
  BY DEF Setup
<1>3. /\ m \in [pc : {"setup", "loop", "lock", "take", "close", "join", "done"},
           updates : Updates, outSeqMode : BOOLEAN,
           itemIndex : 1..NumItems + 1, mtItemIndex : 1..NumItems + 1,
           lastReal : 0..NumItems, threadIndices : Seq(Threads),
           res : Results, closing : 0..NumThreads]
      /\ NumItems \in Nat /\ NumThreads \in Nat \ {0}
  BY <1>1, MainBasics DEF MainType
<1>4. /\ m.itemIndex = 1 /\ m.mtItemIndex = 1 /\ m.lastReal = 0 /\ m.threadIndices = <<>>
      /\ hit = {} /\ mtSem = [count |-> 0, list |-> <<>>]
      /\ arc = [data |-> <<>>, pos |-> 0, curPos |-> 0, headerPos |-> 0, failed |-> FALSE]
      /\ pool.free = pool.total /\ pool.sem = pool.total /\ prog.total = 0
      /\ \A t \in Threads : out[t] = COutMemStream /\ prog.inSizes[t] = 0
      /\ \A i \in 1..NumItems : refs[i] = CMemBlocks2
  BY <1>1 DEF AtSetup
<1>5. pool.total \in Nat BY DEF Inv, BlocksOK
<1>6. /\ m'.pc = "loop" /\ n = NumThreads /\ hit' = hit /\ m' = [m EXCEPT !.pc = "loop"]
      \/ /\ m'.pc = "close" /\ m'.res = "create" /\ m'.closing = 0
         /\ hit' = {"create"} /\ "create" \in Faults
         /\ m' = [m EXCEPT !.pc = "close", !.res = "create", !.closing = 0]
  BY <1>2, <1>3, <1>4 DEF CanFail, Fail, Leave
<1>7. /\ m'.updates = m.updates /\ m'.itemIndex = 1 /\ m'.mtItemIndex = 1 /\ m'.lastReal = 0
      /\ m'.threadIndices = <<>> /\ m'.pc \in {"loop", "close"} /\ NumItems' = NumItems
  BY <1>3, <1>4, <1>6
<1>8. MainOK'
  <2>1. "create" \in Results /\ 0 \in 0..NumThreads BY <1>3 DEF Results
  <2>2. m' \in [pc : {"setup", "loop", "lock", "take", "close", "join", "done"},
           updates : Updates, outSeqMode : BOOLEAN,
           itemIndex : 1..NumItems + 1, mtItemIndex : 1..NumItems + 1,
           lastReal : 0..NumItems, threadIndices : Seq(Threads),
           res : Results, closing : 0..NumThreads]
    <3> HIDE DEF NumItems
    <3> QED BY <1>3, <1>6, <2>1, ZenonT(60)
  <2>3. MainType(m)' BY <1>7, <2>2 DEF MainType
  <2> QED BY <1>7, <2>3 DEF MainOK
<1>9. \A t \in Threads :
        /\ th'[t] = [CThreadInfo EXCEPT !.pc = "wait"] \/ th'[t] = CThreadInfo
        /\ n = NumThreads => th'[t] = [CThreadInfo EXCEPT !.pc = "wait"]
  BY <1>2, ManyThreads
<1>10. \A t \in Threads :
        /\ th'[t].pc \in {"none", "wait"} /\ (n = NumThreads => th'[t].pc = "wait")
        /\ th'[t].isFree /\ ~th'[t].exitThread /\ ~th'[t].compressEvent
        /\ th'[t].item = 0 /\ th'[t].packSize = 0
  BY <1>9 DEF CThreadInfo
<1>11. ThreadsOK'
  <2>1. "ok" \in Results /\ 0 \in 0..NumItems BY <1>3 DEF Results
  <2>2. th' = [t \in Threads |-> th'[t]] BY <1>2
  <2>3. ASSUME NEW t \in Threads PROVE ThreadType(th[t])'
    <3>1. 0 \in 0..NumItems' BY <1>7, <2>1
    <3>2. PICK pc \in {"none", "wait"} :
             th'[t] = [pc |-> pc, isFree |-> TRUE, exitThread |-> FALSE,
                       compressEvent |-> FALSE, item |-> 0, res |-> "ok",
                       pass |-> 1, n |-> 0, packSize |-> 0]
      BY <1>9 DEF CThreadInfo
    <3> HIDE DEF NumItems
    <3> QED BY <2>1, <3>1, <3>2 DEF ThreadType, Places
  <2> QED BY <2>2, <2>3 DEF ThreadsOK
<1>12. OutsOK' /\ RefsOK' /\ SyncOK' /\ FileOK' /\ ProgOK' /\ HitOK'
  <2>1. OutsOK' /\ SyncOK' /\ FileOK' /\ ProgOK'
    BY <1>1 DEF Shapes, OutsOK, OutType, SyncOK, FileOK, ProgOK
  <2>2. RefsOK' BY <1>1, <1>7 DEF Shapes, RefsOK, RefType
  <2>3. HitOK' BY <1>1, <1>4, <1>6 DEF HitOK
  <2> QED BY <2>1, <2>2, <2>3
<1>13. Shapes' /\ AtSetup' BY <1>7, <1>8, <1>11, <1>12 DEF Shapes, AtSetup
<1>14. /\ m'.pc = "close" => m'.closing = 0 /\ m'.res \in hit'
       /\ m'.pc # "close" => hit' = {}
       /\ m'.pc = "loop" => n = NumThreads
  BY <1>4, <1>6
<1>15. \A i \in 1..NumItems' : refs'[i] = CMemBlocks2 BY <1>1, <1>4, <1>7
<1>16. /\ \A t \in Threads : out'[t] = COutMemStream /\ prog'.inSizes[t] = 0
       /\ mtSem' = [count |-> 0, list |-> <<>>]
       /\ arc' = [data |-> <<>>, pos |-> 0, curPos |-> 0, headerPos |-> 0, failed |-> FALSE]
       /\ pool'.total \in Nat /\ pool'.free = pool'.total /\ pool'.sem = pool'.total
       /\ prog'.total = 0
  BY <1>1, <1>4, <1>5
<1> HIDE DEF NumItems, Items
<1> QED BY <1>7, <1>10, <1>13, <1>14, <1>15, <1>16 DEF Fresh

LEMMA MainKeepsInv ==
    ASSUME Inv, MainMove
    PROVE  Inv'
<1>1. Shapes' /\ AtSetup' /\ SemOK' /\ ItemsOK' /\ Queue' /\ RealOK'
  BY MainShapes, MainStarted, MainSem, MainItems, MainQueue, MainReal
<1>2. \A u \in Threads : Life(u)' /\ StreamOK(u)' BY MainLife, MainStreams
<1>3. \A i \in 1..NumItems : KeptOK(i)' BY MainKept
<1>4. m'.updates = m.updates BY MainSettled DEF Settled
<1>5. ArcType' /\ ArcOK' /\ ArcData' /\ BlocksOK' /\ ProgressOK' /\ ResultOK'
  BY MainArc, MainBlocks, MainProgress, MainResult
<1> QED BY <1>1, <1>2, <1>3, <1>4, <1>5 DEF Inv

LEMMA SameInv == ASSUME Inv, UNCHANGED vars PROVE Inv'
<1>1. /\ m' = m /\ th' = th /\ out' = out /\ pool' = pool /\ refs' = refs /\ mtSem' = mtSem
      /\ arc' = arc /\ prog' = prog /\ hit' = hit
  BY DEF vars
<1>2. Shapes'
  BY <1>1 DEF Inv, Shapes, MainOK, MainType, ThreadsOK, ThreadType, OutsOK, OutType, RefsOK,
     RefType, SyncOK, FileOK, ProgOK, HitOK
<1>3. AtSetup' BY <1>1 DEF Inv, AtSetup
<1>4. SemOK' BY <1>1 DEF Inv, SemOK, Posting
<1>5. ItemsOK' BY <1>1 DEF Inv, ItemsOK, Busy, Item
<1>6. Queue' BY <1>1 DEF Inv, Queue, Running, Busy, Open, Owned, Item
<1>7. RealOK' BY <1>1 DEF Inv, RealOK, Running, Busy, Open
<1>8. \A t \in Threads : Life(t)'
  BY <1>1 DEF Inv, Life, Busy, Listed, Live, Called, Closing, Running, Ended
<1>9. ASSUME NEW t \in Threads PROVE StreamOK(t)'
  BY <1>1 DEF Inv, StreamOK, Busy, Listed, Live, Called, Running, Ended, Packs, Packed,
     LastPass, Size, Item
<1>10. \A i \in 1..NumItems' : KeptOK(i)'
  BY <1>1 DEF Inv, KeptOK, Running, PackedSize, LastPass, Item
<1>11. ArcType' /\ ArcOK' /\ ArcData'
  BY <1>1 DEF Inv, ArcType, ArcOK, ArcData, Good, Running, Open, Busy, Ended, Listed, Packed
<1>12. BlocksOK' BY <1>1 DEF Inv, BlocksOK, BlocksKept, StreamBlocks, KeptBlocks
<1>13. ProgressOK'
  BY <1>1 DEF Inv, ProgressOK, Packs, Running, Ended, Listed, Busy, Item, ProgressExact
<1>14. ResultOK' BY <1>1 DEF Inv, ResultOK, Running, Closing, Ended, Listed, Busy
<1> QED
  BY <1>2, <1>3, <1>4, <1>5, <1>6, <1>7, <1>8, <1>9, <1>10, <1>11, <1>12, <1>13, <1>14 DEF Inv

LEMMA Invariance == Spec => []Inv
<1>1. Init => Inv BY InitFresh, FreshKeeps
<1>2. Inv /\ [Next]_vars => Inv'
  <2> SUFFICES ASSUME Inv, [Next]_vars PROVE Inv' OBVIOUS
  <2>1. CASE Main
    <3>1. Setup \/ MainMove BY <2>1, MainMoves DEF Inv
    <3>2. CASE Setup
      <4>1. Fresh' BY <3>2, SetupFresh
      <4> QED BY <4>1, FreshKeeps, PTL
    <3>3. CASE MainMove BY <3>3, MainKeepsInv
    <3> QED BY <3>1, <3>2, <3>3
  <2>2. CASE \E t \in Threads : Thread(t) \/ CodeFails(t)
    BY <2>2, ThreadMoves, ThreadKeepsInv DEF Inv
  <2>3. CASE UNCHANGED vars BY <2>3, SameInv
  <2> QED BY <2>1, <2>2, <2>3 DEF Next, Returned
<1> QED BY <1>1, <1>2, PTL DEF Spec

(* The types, and the ranges of what is counted.                           *)
THEOREM ZipTypeCorrect == Spec => []TypeOK
<1>1. Inv => TypeOK
  <2> SUFFICES ASSUME Inv PROVE TypeOK OBVIOUS
  <2>1. /\ m.pc \in {"setup", "loop", "lock", "take", "close", "join", "done"}
        /\ m.itemIndex \in 1..NumItems + 1 /\ m.mtItemIndex \in 1..NumItems + 1
        /\ m.res \in Results /\ m.threadIndices \in Seq(Threads)
        /\ ThreadsOK /\ OutsOK /\ SyncOK /\ HitOK
    BY MainBasics DEF Inv
  <2>2. IsInjective(m.threadIndices) /\ ToSet(m.threadIndices) \subseteq Threads
    BY <2>1 DEF Inv, ItemsOK, ToSet
  <2>3. hit \subseteq Faults BY <2>1 DEF HitOK
  <2>4. ASSUME NEW t \in Threads
        PROVE  /\ th[t].pc \in {"none", "wait", "code", "alloc", "push", "post", "exit"}
               /\ th[t].res \in Results /\ th[t].item \in 0..NumItems
               /\ th[t].packSize \in Nat
               /\ 0 <= out[t].pos /\ out[t].total <= Room(out[t])
    BY <2>1 DEF ThreadsOK, Inv, StreamOK, ThreadType, Places
  <2>5. IsInjective(mtSem.list) /\ mtSem.count <= Len(mtSem.list)
    BY ManyThreads, FS_Subset, FS_CardinalityType DEF Inv, SemOK, Posting
  <2>6. 0 <= arc.pos /\ arc.pos <= Len(arc.data) BY DEF Inv, ArcType
  <2> QED BY <2>1, <2>2, <2>3, <2>4, <2>5, <2>6 DEF TypeOK
<1> QED BY <1>1, Invariance, PTL

(* Every block has one owner, the semaphore promises no more than there    *)
(* are, and at the end all are free: for any pool, any number of threads.  *)
THEOREM ZipBlocksKept == Spec => []BlocksKept
<1>1. Inv => BlocksKept BY DEF Inv, BlocksOK
<1> QED BY <1>1, Invariance, PTL

(* The progress total is what is done and what has been read, modulo its   *)
(* width.                                                                  *)
THEOREM ZipProgressExact == Spec => []ProgressExact
<1>1. Inv => ProgressExact BY DEF Inv, ProgressOK
<1> QED BY <1>1, Invariance, PTL

-----------------------------------------------------------------------------
LEMMA EntriesAre == \A n : EntriesUpTo(n) = EntriesOf(m.updates, m.outSeqMode, n)
  BY DEF Entry, EntryOf, FileEntry, PackedOf, LastPassOf, LastPass, Item, EntriesUpTo, EntriesOf

LEMMA SameIsAlike ==
    \A a, b : SameArchive(a, b) <=> Alike(m.outSeqMode, a, b)
  BY DEF Sealed, Seal, SameArchive, Alike

(* Packed data looks like nothing else.                                    *)
LEMMA OnlyItself ==
    ASSUME NEW mode, NEW x, NEW i, NEW p, NEW k, Seal(mode, x) = Seal(mode, <<i, p, k>>)
    PROVE  x = <<i, p, k>>
  BY DEF Seal, Header

(* What is behind the header is the thread's own data, to the letter.      *)
LEMMA BehindIs ==
    \A mode, a, b, c, i, p, n, r :
        /\ a \in Seq(Units) /\ b \in Seq(Units) /\ c \in Seq(Units)
        /\ i \in Nat /\ p \in Nat /\ n \in Nat
        /\ c = PassUnits(i, p, n) /\ Alike(mode, a, b \o c)
        /\ r = SubSeq(a, Len(b) + 1, Len(a))
        => r = c
<1> TAKE mode, a, b, c, i, p, n, r
<1> HAVE /\ a \in Seq(Units) /\ b \in Seq(Units) /\ c \in Seq(Units)
         /\ i \in Nat /\ p \in Nat /\ n \in Nat
         /\ c = PassUnits(i, p, n) /\ Alike(mode, a, b \o c)
         /\ r = SubSeq(a, Len(b) + 1, Len(a))
<1>1. c \in Seq(Units) /\ Len(c) = n /\ \A k \in 1..n : c[k] = <<i, p, k>> BY DEF PassUnits
<1>2. Alike(mode, a, b \o c) OBVIOUS
<1>3. Len(a) \in Nat /\ Len(b) \in Nat /\ b \o c \in Seq(Units) /\ Len(b \o c) = Len(b) + n
  <2>1. Len(a) \in Nat /\ Len(b) \in Nat OBVIOUS
  <2>2. b \o c \in Seq(Units) /\ Len(b \o c) = Len(b) + Len(c) BY <1>1, JoinLength, Zenon
  <2> QED BY <1>1, <2>1, <2>2
<1>4. /\ Len(a) = Len(b \o c)
      /\ \A k \in 1..Len(a) : Seal(mode, a[k]) = Seal(mode, (b \o c)[k])
  <2>1. PICK d \in Seq(Units) : d = b \o c BY <1>3
  <2>2. Alike(mode, a, d) BY <1>2, <2>1
  <2>3. Len(a) = Len(d) /\ \A k \in 1..Len(a) : Seal(mode, a[k]) = Seal(mode, d[k])
    BY <2>2, AlikeIs
  <2> QED BY <2>1, <2>3
<1>5. ASSUME NEW k \in 1..n PROVE a[Len(b) + k] = <<i, p, k>>
  <2>1. Len(b) + k \in 1..Len(a) /\ (b \o c)[Len(b) + k] = c[k] BY <1>1, <1>3, <1>4
  <2>2. Seal(mode, a[Len(b) + k]) = Seal(mode, <<i, p, k>>) BY <1>1, <1>4, <2>1
  <2> QED BY <2>2, OnlyItself
<1>6. r \in Seq(Units) /\ Len(r) = n /\ \A k \in 1..n : r[k] = a[Len(b) + k] BY <1>3, <1>4
<1>7. \A k \in 1..n : r[k] = c[k] BY <1>1, <1>5, <1>6
<1> QED BY <1>1, <1>6, <1>7, SeqEqual

LEMMA OpenArchive ==
    ASSUME Inv, Good, Open, NEW f \in Threads, Fronts(f)
    PROVE  /\ arc.headerPos = Len(Before) /\ Len(Before) \in Nat
           /\ Alike(m.outSeqMode, SubSeq(arc.data, 1, Len(Before) + 1),
                    Before \o <<Header(m.itemIndex, "preliminary")>>)
           /\ SubSeq(arc.data, Len(Before) + 1 + 1, Len(arc.data))
                = IF out[f].realMode THEN PassUnits(th[f].item, th[f].pass, th[f].n) ELSE <<>>
<1>1. Len(Before) = arc.headerPos /\ FrontData(f) BY FrontOK DEF Inv, FrontData
<1>2. PICK i, p, n : i = th[f].item /\ p = th[f].pass /\ n = IF out[f].realMode THEN th[f].n ELSE 0
  OBVIOUS
<1>3. i \in Nat /\ p \in Nat /\ n \in Nat BY MainBasics, <1>2 DEF Inv, ThreadsOK, ThreadType
<1>4. PassUnits(i, p, n) \in Seq(Units) /\ PassUnits(i, p, 0) = <<>> BY <1>3, PassUnitsIs
<1>5. PassUnits(i, p, n)
        = IF out[f].realMode THEN PassUnits(th[f].item, th[f].pass, th[f].n) ELSE <<>>
  BY <1>2, <1>4
<1>6. PICK b : b = Before \o <<Header(m.itemIndex, "preliminary")>> OBVIOUS
<1>7. b \in Seq(Units) /\ Len(b) = Len(Before) + 1 /\ Len(Before) \in Nat
  BY <1>6, BeforeTypes DEF Inv
<1>8. Alike(m.outSeqMode, arc.data, b \o PassUnits(i, p, n))
  BY <1>1, <1>5, <1>6 DEF FrontData, Packed
<1>9. arc.data \in Seq(Units) BY DEF Inv, ArcType
<1>10. Alike(m.outSeqMode, SubSeq(arc.data, 1, Len(b)), b)
  BY <1>4, <1>7, <1>8, <1>9, AlikePrefix
<1>11. SubSeq(arc.data, Len(b) + 1, Len(arc.data)) = PassUnits(i, p, n)
  <2>1. PICK mode, a, c, r :
          /\ mode = m.outSeqMode /\ a = arc.data
          /\ c = PassUnits(i, p, n) /\ r = SubSeq(a, Len(b) + 1, Len(a))
    OBVIOUS
  <2>2. c \in Seq(Units) /\ Alike(mode, a, b \o c) /\ a \in Seq(Units)
    BY <1>4, <1>8, <1>9, <2>1
  <2>3. c = PassUnits(i, p, n) /\ r = SubSeq(a, Len(b) + 1, Len(a)) BY <2>1
  <2>4. b \in Seq(Units) BY <1>7
  <2>5. r = c BY <1>3, <2>2, <2>3, <2>4, BehindIs, SMTT(30)
  <2> QED BY <2>1, <2>5
<1> QED BY <1>1, <1>5, <1>6, <1>7, <1>10, <1>11

LEMMA ArchiveWhileRunning ==
    ASSUME Inv, m.pc \in {"loop", "lock", "take"}, ~arc.failed
    PROVE  LET before == EntriesUpTo(m.itemIndex - 1)
               base == Len(before) + 1
           IN
           IF Open
           THEN LET f == FrontThread
                    behind == SubSeq(arc.data, base + 1, Len(arc.data))
                    T == th[f]
                IN /\ T.item = m.itemIndex /\ arc.headerPos = base - 1
                   /\ SameArchive(SubSeq(arc.data, 1, base),
                         before \o <<Header(m.itemIndex, "preliminary")>>)
                   /\ behind = IF out[f].realMode
                               THEN PassUnits(T.item, T.pass, T.n) ELSE <<>>
           ELSE SameArchive(arc.data, before) /\ arc.curPos = arc.pos
                  /\ arc.pos = Len(before)
<1>1. Running /\ Good /\ Shapes BY DEF Running, Good, Inv
<1>2. EntriesUpTo(m.itemIndex - 1) = Before BY EntriesAre DEF Before
<1>3. CASE Open
  <2>1. PICK f \in Threads : Fronts(f) BY <1>1, <1>3, OpenIsOwned DEF Inv
  <2>2. FrontThread = f BY <1>1, <2>1, FirstOfQueue DEF Inv
  <2>3. /\ arc.headerPos = Len(Before) /\ Len(Before) \in Nat
        /\ Alike(m.outSeqMode, SubSeq(arc.data, 1, Len(Before) + 1),
                 Before \o <<Header(m.itemIndex, "preliminary")>>)
        /\ SubSeq(arc.data, Len(Before) + 1 + 1, Len(arc.data))
             = IF out[f].realMode THEN PassUnits(th[f].item, th[f].pass, th[f].n) ELSE <<>>
    BY <1>1, <1>3, <2>1, OpenArchive
  <2>4. SameArchive(SubSeq(arc.data, 1, Len(Before) + 1),
                    Before \o <<Header(m.itemIndex, "preliminary")>>)
    BY <2>3, SameIsAlike
  <2>5. th[f].item = m.itemIndex /\ arc.headerPos = Len(Before) + 1 - 1
    BY <2>1, <2>3 DEF Fronts
  <2>6. PICK e : e = EntriesUpTo(m.itemIndex - 1) OBVIOUS
  <2>7. e = Before BY <1>2, <2>6
  <2>8. /\ th[FrontThread].item = m.itemIndex /\ arc.headerPos = Len(e) + 1 - 1
        /\ SameArchive(SubSeq(arc.data, 1, Len(e) + 1),
                       e \o <<Header(m.itemIndex, "preliminary")>>)
    BY <2>2, <2>4, <2>5, <2>7
  <2>9. SubSeq(arc.data, Len(e) + 1 + 1, Len(arc.data))
           = IF out[FrontThread].realMode
             THEN PassUnits(th[FrontThread].item, th[FrontThread].pass, th[FrontThread].n)
             ELSE <<>>
    BY <2>2, <2>3, <2>7
  <2>10. th[FrontThread].item = m.itemIndex BY <2>8
  <2>11. arc.headerPos = Len(EntriesUpTo(m.itemIndex - 1)) + 1 - 1 BY <2>6, <2>8
  <2>12. SameArchive(SubSeq(arc.data, 1, Len(EntriesUpTo(m.itemIndex - 1)) + 1),
                     EntriesUpTo(m.itemIndex - 1) \o <<Header(m.itemIndex, "preliminary")>>)
    BY <2>6, <2>8, Zenon
  <2>13. SubSeq(arc.data, Len(EntriesUpTo(m.itemIndex - 1)) + 1 + 1, Len(arc.data))
           = IF out[FrontThread].realMode
             THEN PassUnits(th[FrontThread].item, th[FrontThread].pass, th[FrontThread].n)
             ELSE <<>>
    BY <2>6, <2>9
  <2> QED
    <3>1. ASSUME NEW base, base = Len(e) + 1
          PROVE  IF Open
                 THEN /\ th[FrontThread].item = m.itemIndex /\ arc.headerPos = base - 1
                      /\ SameArchive(SubSeq(arc.data, 1, base),
                            e \o <<Header(m.itemIndex, "preliminary")>>)
                      /\ SubSeq(arc.data, base + 1, Len(arc.data))
                           = IF out[FrontThread].realMode
                             THEN PassUnits(th[FrontThread].item, th[FrontThread].pass,
                                            th[FrontThread].n)
                             ELSE <<>>
                 ELSE SameArchive(arc.data, e) /\ arc.curPos = arc.pos /\ arc.pos = Len(e)
      BY <1>3, <2>8, <2>9, <3>1
    <3> QED BY <2>6, <3>1
<1>4. CASE ~Open BY <1>1, <1>4, BetweenItems, BeforeTypes, AlikeLength, SameIsAlike, <1>2
<1> QED BY <1>3, <1>4

LEMMA ArchiveAtTheEnd ==
    ASSUME Inv, m.pc = "done"
    PROVE  /\ m.res = "ok" =>
                 SameArchive(arc.data, EntriesUpTo(NumItems) \o <<<<0, "central">>>>)
           /\ IF hit = {} THEN m.res = "ok" ELSE m.res \in hit
           /\ \A t \in Threads : th[t].pc \in {"none", "exit"}
<1>1. /\ Closing /\ m.closing = NumThreads BY MainBasics DEF Closing, Inv
<1>2. \/ m.res \in hit
      \/ /\ m.res = "ok" /\ hit = {}
         /\ Alike(m.outSeqMode, arc.data,
                  EntriesOf(m.updates, m.outSeqMode, NumItems) \o <<<<0, "central">>>>)
  BY <1>1 DEF Inv, ResultOK
<1>3. "ok" \notin hit BY MainBasics, ZipAssumption DEF Inv, HitOK, ZipAssumption
<1>4. EntriesUpTo(NumItems) = EntriesOf(m.updates, m.outSeqMode, NumItems) BY EntriesAre
<1>5. \A t \in Threads : th[t].pc \in {"none", "exit"} BY ManyThreads, <1>1 DEF Inv, Life
<1>6. m.res = "ok" => SameArchive(arc.data, EntriesUpTo(NumItems) \o <<<<0, "central">>>>)
  BY <1>2, <1>3, <1>4, SameIsAlike
<1> QED BY <1>2, <1>3, <1>5, <1>6

(* The archive is in order in every state of a run that has not failed, a  *)
(* call that returns S_OK has written all of it, and otherwise it returns  *)
(* a failure there has been; no thread is left behind.                     *)
THEOREM ZipArchiveInOrder == Spec => []ArchiveInOrder
<1>1. Inv => ArchiveInOrder BY ArchiveWhileRunning, ArchiveAtTheEnd DEF ArchiveInOrder
<1> QED BY <1>1, Invariance, PTL

=============================================================================
