---------------------------- MODULE CacheStream ----------------------------
(***************************************************************************)
(* CCacheOutStream (Archive/Zip/ZipUpdate.cpp): the stream between the zip *)
(* writer and the output file.  A circular cache holds the end of what has *)
(* been written, so that a local header can be rewritten before it reaches *)
(* a medium that cannot go back.  The writer says with SetRestriction what *)
(* it may still change; the stream tells the stream below it, which may    *)
(* make everything else final (IStream.h, IStreamSetRestriction).          *)
(*                                                                         *)
(* The client is COutArchive (ZipOut.cpp) with the streams it creates: it  *)
(* appends, and between SetRestrictionFromCurrent and ClearRestriction it  *)
(* goes back to places behind the point where it called the first.  The    *)
(* output may also be sequential (no seeking, no restrictions).  A byte is *)
(* <<position, version>>: the version changes when it is written again.    *)
(***************************************************************************)
EXTENDS Integers, Sequences, SequencesExt, FiniteSetsExt

CONSTANTS
    CacheBlockSize,   \* kCacheBlockSize
    CacheBlocks,      \* kCacheSize = CacheBlocks * kCacheBlockSize
    MaxSize,          \* the client's file does not grow beyond
    MaxClientWrite,   \* bytes in one call of Write
    Seekable,         \* whether there is an IOutStream: subset of BOOLEAN
    MayFail           \* whether the stream below may fail

ASSUME CacheAssumption ==
    /\ CacheBlockSize \in Nat \ {0} /\ CacheBlocks \in Nat \ {0}
    /\ MaxSize \in Nat /\ MaxClientWrite \in Nat \ {0}
    /\ Seekable \subseteq BOOLEAN /\ MayFail \in BOOLEAN

CacheSize == CacheBlocks * CacheBlockSize
Inf == MaxSize + 1        \* (UInt64)(Int64)-1

VARIABLES
    s,       \* the fields of CCacheOutStream, and the stream below it
    file     \* what the client has written, and where it may go back to

cacheVars == <<s, file>>

None == <<-1, 0>>         \* a byte of the cache that has not been written
Zero == <<-2, 0>>         \* a byte in a gap

-----------------------------------------------------------------------------
(* The stream below.  Bytes before "final" may have been flushed for good. *)

Put(data, pos, bytes) ==
    SubSeq(data, 1, Min({pos, Len(data)}))
        \o [k \in 1..pos - Len(data) |-> Zero] \o bytes
        \o SubSeq(data, pos + Len(bytes) + 1, Len(data))

Final(phy) ==
    [phy EXCEPT !.final = Max({@, Min({Len(phy.data), phy.begin})})]

(* Every operation of the stream below may fail; _hres keeps the error. *)
Failed(x) == [x EXCEPT !.hres = "error", !.cachedSize = 0]
OrFails(x, y) == IF MayFail THEN {y, Failed(x)} ELSE {y}

(* begin = end: all that is written is final up to the position.  It is    *)
(* "expected that current stream seek position is equal to stream size".   *)
PhySetRestriction(x, begin, end) ==
    LET unrestricted == begin = end
        phy == [x.phy EXCEPT
                   !.begin = IF unrestricted THEN Inf ELSE begin,
                   !.atEnd = @ /\ (unrestricted => x.phy.pos = Len(x.phy.data))]
    IN  IF ~x.seekable THEN {x} ELSE OrFails(x, [x EXCEPT !.phy = Final(phy)])

PhyWrite(x, bytes) ==
    LET phy == [x.phy EXCEPT !.data = Put(@, x.phy.pos, bytes), !.pos = @ + Len(bytes)]
    IN  OrFails(x, [x EXCEPT !.phy = Final(phy),
                             !.phyPos = @ + Len(bytes),
                             !.phySize = Max({@, x.phyPos + Len(bytes)})])

PhySetSize(x, size) ==
    OrFails(x, [x EXCEPT
        !.phy.data = IF size <= Len(@) THEN SubSeq(@, 1, size) ELSE Put(@, size, <<>>),
        !.phySize = size])

(* Then(xs, F): the next call, where the one before has succeeded. *)
Then(xs, F(_)) == UNION {IF x.hres = "ok" THEN F(x) ELSE {x} : x \in xs}

SeekPhy(x, pos) ==
    IF pos = x.phyPos THEN {x}
    ELSE IF ~x.seekable THEN {[x EXCEPT !.hres = "notimpl"]}
    ELSE OrFails(x, [x EXCEPT !.phyPos = pos, !.phy.pos = pos])

-----------------------------------------------------------------------------
CacheByte(x, pos) == x.cache[pos % CacheSize]
CachedEnd(x) == x.cachedPos + x.cachedSize

(* Faulty: data in front of the end of the file is taken for final. *)
RestrictionForWrite_Plain(x, size) == [begin |-> x.begin, end |-> x.end]

RestrictionForWrite(x, size) ==
    IF x.phyPos = x.phySize
    THEN LET begin == IF x.begin = x.end THEN x.virtPos ELSE x.begin IN
         IF x.phyPos + size <= begin
         THEN [begin |-> 0, end |-> 0]
         ELSE [begin |-> Min({begin, x.phyPos}), end |-> Inf]
    ELSE [begin |-> IF x.begin = x.end \/ x.begin > x.phyPos THEN x.phyPos
                    ELSE x.begin,
          end |-> Inf]

(* E_FAIL unless the cached data belongs where the stream below is. *)
SetRestriction_ForWrite(x, size) ==
    LET r == RestrictionForWrite(x, size) IN
    IF x.seekable /\ x.phyPos # x.cachedPos THEN {[x EXCEPT !.hres = "fail"]}
    ELSE PhySetRestriction(x, r.begin, r.end)

(* One write of FlushFromCache: up to the end of the cache's memory. *)
FlushPart(x, size) ==
    LET cur == Min({CacheSize - (x.cachedPos % CacheSize), size})
        bytes == [k \in 1..cur |-> CacheByte(x, x.cachedPos + k - 1)]
        Out(y) == PhyWrite(y, bytes)
        Leave(y) == {[y EXCEPT !.cachedPos = @ + cur, !.cachedSize = @ - cur]}
    IN  Then(Then(SetRestriction_ForWrite(x, cur), Out), Leave)

(* Seek to the cached data and write it, in two parts when it wraps. *)
FlushFromCache(x, size) ==
    LET n == Min({size, x.cachedSize})
        First(y) == FlushPart(y, n)
        Second(y) == LET rest == n - (x.cachedSize - y.cachedSize) IN
                     IF rest = 0 THEN {y} ELSE FlushPart(y, rest)
    IN  IF n = 0 THEN {x} ELSE Then(Then(SeekPhy(x, x.cachedPos), First), Second)

BlockRest(pos) == CacheBlockSize - (pos % CacheBlockSize)

(* Whole blocks in front of the restricted area go down, one at a time;    *)
(* the cache holds no more than CacheBlocks of them.                       *)
FlushNextBlock(x) ==
    LET size == BlockRest(x.cachedPos)
        begin == IF x.begin = x.end THEN x.virtPos ELSE x.begin
    IN  IF x.hres # "ok" \/ x.cachedSize < size \/ x.cachedPos + size > begin
        THEN {x}
        ELSE FlushFromCache(x, size)

FlushNonRestrictedBlocks(x) ==
    LET After[n \in 0..CacheBlocks] ==
            IF n = 0 THEN {x} ELSE UNION {FlushNextBlock(y) : y \in After[n - 1]}
    IN  After[CacheBlocks]

FlushCache(x) == FlushFromCache(x, x.cachedSize)

-----------------------------------------------------------------------------
(* Write: a call takes at most the rest of a cache block.                  *)

(* Data that does not continue the cached data makes the cache go down. *)
Continue(x) ==
    IF x.cachedSize # 0 /\ (x.virtPos < x.cachedPos \/ x.virtPos > CachedEnd(x))
    THEN FlushCache(x) ELSE {x}

(* A full cache loses its first block. *)
MakeRoom(x) ==
    IF x.virtPos = CachedEnd(x) /\ x.cachedSize = CacheSize
    THEN FlushFromCache(x, BlockRest(x.cachedPos)) ELSE {x}

Start(x) == IF x.cachedSize = 0 THEN [x EXCEPT !.cachedPos = x.virtPos] ELSE x

(* Faulty: a write that reaches the end of the cached data goes on. *)
Amount_Over(x, size) == Min({size, BlockRest(x.virtPos)})

(* Old data is rewritten in place, without going beyond it; new data does  *)
(* not run into the start of the cached data.                              *)
Amount(x, size) ==
    LET n == Min({size, BlockRest(x.virtPos)})
        rest == CachedEnd(x) - x.virtPos
        gap == (x.cachedPos % CacheSize) - (x.virtPos % CacheSize)
    IN  IF rest > 0 THEN Min({n, rest})
        ELSE IF x.cachedSize # 0 /\ gap > 0 THEN Min({n, gap}) ELSE n

(* A full block without restriction goes down directly. *)
IsDirect(x, size) == /\ x.cachedSize = 0 /\ x.begin = x.end
                     /\ Amount(x, size) = CacheBlockSize

NewByte(p) ==
    <<p, IF p < Len(file.data) THEN 1 - file.data[p + 1][2] ELSE 0>>
NewBytes(pos, n) == [k \in 1..n |-> NewByte(pos + k - 1)]

Moved(x, pos) == [x EXCEPT !.virtPos = pos, !.virtSize = Max({@, pos})]

WriteDirect(x, n) ==
    LET Limit(y) == PhySetRestriction(y, y.begin, y.end)
        Out(y) == PhyWrite(y, NewBytes(y.virtPos, n))
        Done(y) == {Moved(y, y.virtPos + n)}
    IN  Then(Then(Then(SeekPhy(x, x.virtPos), Limit), Out), Done)

WriteCached(x, n) ==
    LET At(k) == (k - x.virtPos) % CacheSize IN
    FlushNonRestrictedBlocks([Moved(x, x.virtPos + n) EXCEPT
        !.cachedSize = Max({@, x.virtPos + n - x.cachedPos}),
        !.cache = [k \in DOMAIN @ |->
                     IF At(k) < n THEN NewByte(x.virtPos + At(k)) ELSE @[k]]])

CallWrite(x, size) ==
    LET Room(y) == MakeRoom(Start(y))
        Out(y) == IF IsDirect(y, size) THEN WriteDirect(y, CacheBlockSize)
                  ELSE WriteCached(y, Amount(y, size))
    IN  Then(Then(Continue(x), Room), Out)

(* SetSize: what is cached behind the new end is dropped; the stream below *)
(* is cut unless it ends before.                                           *)
SetSizeCall(x, size) ==
    LET inside == x.cachedSize # 0 /\ size > x.cachedPos /\ size <= CachedEnd(x)
        Dropped == IF size <= x.cachedPos \/ x.cachedSize = 0
                   THEN {[x EXCEPT !.cachedSize = 0, !.cachedPos = size]}
                   ELSE IF inside THEN {[x EXCEPT !.cachedSize = size - x.cachedPos]}
                   ELSE FlushCache(x)
        Sized(y) == {[y EXCEPT !.virtSize = size]}
        Limit(y) ==
            IF y.cachedSize # 0
            THEN PhySetRestriction(y, Min({y.begin, y.cachedPos}), Inf)
            ELSE PhySetRestriction(y, y.begin, y.end)
        Resize(y) == PhySetSize(y, size)
        Cut(y) == IF size = y.phySize \/ (inside /\ y.phySize <= size) THEN {y}
                  ELSE Then(Then(SeekPhy(y, size), Limit), Resize)
    IN  Then(Then(Dropped, Sized), Cut)

FinalFlushCall(x) ==
    LET Resize(y) == IF y.seekable /\ y.virtSize # y.phySize
                     THEN PhySetSize(y, y.virtSize) ELSE {y}
        Back(y) == IF y.seekable THEN SeekPhy(y, y.virtPos) ELSE {y}
    IN  Then(Then(FlushCache([x EXCEPT !.begin = 0, !.end = 0]), Resize), Back)

-----------------------------------------------------------------------------
CacheInit ==
    /\ \E seekable \in Seekable :
        s = [hres |-> "ok", cachedSize |-> 0, cachedPos |-> 0, virtPos |-> 0,
             virtSize |-> 0, phyPos |-> 0, phySize |-> 0, begin |-> 0, end |-> 0,
             cache |-> [k \in 0..CacheSize - 1 |-> None], seekable |-> seekable,
             phy |-> [data |-> <<>>, pos |-> 0, begin |-> Inf, final |-> 0,
                      atEnd |-> TRUE]]
    /\ file = [pc |-> "open", data |-> <<>>, begin |-> Inf]

(* What the cache's memory holds beside the cached data means nothing. *)
Clean(x) ==
    [x EXCEPT !.cache = [k \in DOMAIN @ |->
        IF (k - x.cachedPos) % CacheSize < x.cachedSize THEN @[k] ELSE None]]
Becomes(xs) == s' \in {Clean(x) : x \in xs}

(* After an error every call returns _hres and changes nothing that counts. *)
Usable == file.pc = "open" /\ s.hres = "ok"
Restricted == file.begin # Inf
AtEnd == s.virtPos = Len(file.data)

Write ==
    /\ Usable /\ (Restricted \/ AtEnd)
    /\ \E size \in 1..Min({MaxClientWrite, MaxSize - s.virtPos}) :
          Becomes(CallWrite(s, size))
    /\ LET n == s'.virtPos - s.virtPos IN
       file' = [file EXCEPT !.data = Put(@, s.virtPos, NewBytes(s.virtPos, n))]

(* COutArchive::SeekToCurPos, COffsetOutStream::Seek. *)
Seek ==
    /\ Usable /\ Restricted
    /\ \E pos \in file.begin..Len(file.data) : s' = [s EXCEPT !.virtPos = pos]
    /\ UNCHANGED file

(* COffsetOutStream::SetSize, after a Seek to the same place. *)
SetSize ==
    /\ Usable /\ Restricted
    /\ Becomes(SetSizeCall(s, s.virtPos))
    /\ file' = [file EXCEPT !.data = SubSeq(@, 1, s.virtPos)]

SetRestrictionFromCurrent ==
    /\ Usable /\ s.seekable /\ AtEnd
    /\ Becomes(FlushNonRestrictedBlocks([s EXCEPT !.begin = s.virtPos, !.end = Inf]))
    /\ file' = [file EXCEPT !.begin = s.virtPos]

ClearRestriction ==
    /\ Usable /\ Restricted /\ AtEnd
    /\ Becomes(FlushNonRestrictedBlocks([s EXCEPT !.begin = 0, !.end = 0]))
    /\ file' = [file EXCEPT !.begin = Inf]

FinalFlush ==
    /\ file.pc = "open"
    /\ IF s.hres = "ok"
       THEN ~Restricted /\ AtEnd /\ Becomes(FinalFlushCall(s))
       ELSE UNCHANGED s
    /\ file' = [file EXCEPT !.pc = "flushed"]

Flushed == file.pc = "flushed" /\ UNCHANGED cacheVars

CacheNext == \/ Write \/ Seek \/ SetSize \/ SetRestrictionFromCurrent
        \/ ClearRestriction \/ FinalFlush \/ Flushed

CacheSpec == CacheInit /\ [][CacheNext]_cacheVars

-----------------------------------------------------------------------------
Cached(pos) == s.cachedPos <= pos /\ pos < CachedEnd(s)

(* The cache and the stream below it together hold the client's file, and  *)
(* after FinalFlush the stream below does: nothing is lost when the cache  *)
(* wraps, when cached data is rewritten or cut, or behind a Seek, and what *)
(* is unsent never exceeds the cache.  A sequential stream is never asked  *)
(* to seek, and cached data is never written to another place than its     *)
(* own: _hres is S_OK or an error of the stream below.                     *)
FileIntact ==
    /\ s.hres \in {"ok", "error"} /\ s.cachedSize \in 0..CacheSize
    /\ s.hres = "ok" =>
         /\ s.virtSize = Len(file.data)
         /\ s.phyPos = s.phy.pos /\ s.phySize = Len(s.phy.data)
         /\ \A pos \in 0..Len(file.data) - 1 :
               file.data[pos + 1] = IF Cached(pos) THEN CacheByte(s, pos)
                                    ELSE s.phy.data[pos + 1]
         /\ file.pc = "flushed" => s.phy.data = file.data

(* IStream.h: "Another regions of output stream will be supposed as        *)
(* non-restricted ... it's not expected the call IOutStream::SetSize() to  *)
(* region that was written before as unrestricted": what the stream below  *)
(* may have flushed for good is never written again or cut, and it is told *)
(* to lift the restriction only at its end.                                *)
FinalStays ==
    [][ /\ SubSeq(s.phy.data, 1, s.phy.final) = SubSeq(s'.phy.data, 1, s.phy.final)
        /\ s'.phy.atEnd ]_cacheVars
=============================================================================
