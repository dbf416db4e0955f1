# Verification of the 7-Zip multithreading engine

The repository is the record of a Linux course: shell and make exercises, and
under `src/work/7zip` a source tree of 7-Zip 25.01, which makes up nearly all of
it. The logic that is hard to get right there, and hard to test, is what moves
data between threads. This project models that engine in TLA+, checks it with
TLC on small instances and proves its central properties with TLAPS for every
size.

Paths below are relative to `src/work/7zip`; `7zip/` stands for `CPP/7zip/`.

## 1. The system

| part | code | state it keeps | operations | here |
|---|---|---|---|---|
| events, semaphores | `C/Threads.c` (POSIX half) | `_state` or `_count` under a mutex, a condition variable | Set, Reset, Wait, ReleaseN | `SyncObjects`, `PosixSync`, `SyncObject` |
| pipe between two coders | `7zip/Common/StreamBinder` | a pointer to the writer's buffer, an event, a semaphore | Read, Write, CloseRead, CloseWrite, Create_ReInit | `StreamBinder`, `BytePipe` |
| coder mixer | `7zip/Archive/Common/CoderMixer2`, `7zip/Common/VirtThread` | a thread, two events and a result per coder, a binder per bond | ReInit2, Code, destruction | `CoderMixer` |
| encoder engine | `C/MtCoder.c` | a ring of blocks, a token, a semaphore, free buffers, the writer's index | MtCoder_Code, ThreadFunc, MtCoder_Destruct | `MtCoder`, `EncodeJob` |
| match finder | `C/LzFindMt.c`, window of `C/LzFind.c` | two rings of blocks, two locks, start and stop events, the input window | Create, Init, look, consume, ReleaseStream, Destruct; HASH, BT | `LzFindMt`, `MatchFinder` |
| decoder engine, its LZMA2 client | `C/MtDec.c`, `C/Lzma2DecMt.c` | a ring of threads that parse, decode and write in turn, the input they have read, a cross block | Lzma2DecMt_Decode, MtDec_Code, MtDec_PrepareRead, MtDec_Read, MtDec_Free | `MtDec`, `DecodeJob` |
| callers of the engines | `C/Lzma2Enc.c`, `C/XzEnc.c`, `C/XzDec.c`, `C/LzmaEnc.c` | options, streams | the callbacks | environment of the models |
| BZip2 encoder threads | `7zip/Compress/BZip2Encoder.cpp` | a ring of turns to write, the events of a barrier, a lock for reading | Code, ThreadFunc, Create, Free | `BZip2Encoder` |
| BZip2 decoder thread | `7zip/Compress/BZip2Decoder.cpp` | a scout ahead of the decoder | Code | not modelled |
| Zip update threads | `7zip/Archive/Zip/ZipUpdate.cpp`, `ZipOut.cpp`, `ZipAddCommon.cpp`, `7zip/Common/MemBlocks`, `OutMemStream`, `ProgressMt` | a thread and a memory stream per file at work, a pool of blocks, finished items, the archive's positions | Update2, WaitAndCode, Write, Seek, SetSize | `ZipUpdate` |
| cache below the zip writer | `CCacheOutStream` in `ZipUpdate.cpp` | a circular cache, three positions, a restricted region | Write, Seek, SetSize, SetRestriction, FinalFlush | `CacheStream` |
| wait for several objects | `CPP/Windows/Synchronization.cpp` | one mutex and condition variable for all | WaitForMultiObj_Any_Infinite | in `ZipUpdate` |
| codecs, ciphers, formats, UI | `7zip/Compress`, `7zip/Crypto`, `7zip/Archive`, `7zip/UI`, `C`, `Asm` | sequential | | not modelled |
| exercises | `src/work` outside `7zip` | none | | not modelled |

How they interact:

```
   7zDecode / 7zEncode                Lzma2Enc / XzEnc         LzmaEnc
          |                                  |                    |
     CMixerMT::Code                     MtCoder_Code         LZ (the encoder)
      |    |     |                       |    |    |            | blocks, lock btSync.cs
   coder  coder  coder  (threads)      coder threads           BT
      \  / \    /                       |  token: read         | blocks, lock hashSync.cs
   StreamBinder per bond                |  cs: who writes      HASH (reads, moves window)
          |                             |                      |
          +------------- events and semaphores of Threads.c ---+

   Lzma2DecMt_Decode                     Zip: Update2 (main thread)
          |                                |            |  semaphore: a file is done
     MtDec_Code                            |       coder threads
     |    |    |                           |            |
   thread -> thread -> thread (ring)       |       COutMemStream <- pool of blocks
     tokens: canRead, canWrite             |            |  (or the real stream)
          |                               COutArchive --+
   one thread: MtDec_Read                  |
                                        CCacheOutStream -> file
```

Calls go down; data goes through memory that is shared without locks and is
handed over by an event, a semaphore or a token. There is no callback into a
component that is not also a call of the thread that is in it.

What makes each part correct, and what is hard about it:

* *Events and semaphores.* A call is atomic and no wake-up is lost, although a
  sleeper can wake without a reason and all sleepers wake at once.
* *StreamBinder.* The reader copies out of the writer's memory with no lock;
  either end may leave in any order; a buffer may be taken in parts. Bytes
  arrive once and in order, the ends are reported truthfully, nobody sleeps for
  ever.
* *Mixer.* Unbuffered pipes join the coders in a tree. A coder that stops early
  has to let its neighbours go; one fault makes others fail, and the gravest cause has
  to be reported; binders are reset without locks for the next folder.
* *MtCoder.* Blocks finish in any order and are written in order by whichever
  thread finds its block next. Reading and writing have no lock of their own.
  Any step can fail: reading, encoding, writing, the creation of a thread.
* *LzFindMt.* Three threads share one window that one of them moves. The
  encoder can stop the pipeline at any point and start it again on a new input
  with semaphores that were not restored.
* *MtDec.* A ring of threads hands on the right to read and then the right to
  write. Any thread may find the end, an error, too little memory or that the
  next thread cannot be created; the ring then drains, and one thread goes on from
  the first block that was not written, out of the buffers the ring has filled.
* *BZip2 encoder.* Threads read blocks under a lock and write them by turns that
  belong to the blocks and not to the threads. The threads live on from call to
  call behind a barrier of two phases, while all their events are reset.
* *Zip update.* Files are compressed at a time and written in order. A thread
  without a block waits for a block, for the archive or for the order to stop; the
  archive has no lock, only the main thread's knowledge of whose turn it is. A pass
  may be repeated over data that is in memory, in the archive, or on its way.
* *CCacheOutStream.* What is cached, what is restricted and what the medium may
  finalize have to agree while the writer goes back to change a header.

`PROJECT.json` lists the hazards line by line with the properties that cover
them.

## 2. Modules

| module | what it is |
|---|---|
| `SyncObjects` | one call of an event or a semaphore as an operator on its value; used by all components |
| `PosixSync` | the same calls as mutex and condition-variable code, step by step |
| `SyncObject` | abstract: calls take effect one at a time |
| `StreamBinder` | each step of the binder that the other thread can see |
| `BytePipe` | abstract: an unbuffered pipe whose ends may leave early |
| `CoderMixer` | the mixer and its coder threads, composed over one `BytePipe` per bond |
| `MCCoderMixer` | trees of three coders for TLC |
| `MtCoder` | the encoder engine |
| `EncodeJob` | abstract: one thread that writes block after block |
| `LzFindMt` | the match finder's threads, rings, locks, window |
| `MatchFinder` | abstract: what the encoder may rely on |
| `MtDec` | the decoder engine with `Lzma2DecMt_Decode` and the decoding by one thread after it |
| `DecodeJob` | abstract: the output of decoding by one thread; the result may be an error only for its cause |
| `MCMtDec` | inputs for TLC |
| `ZipUpdate` | Update2 with its threads, memory streams and the archive |
| `MCZipUpdate` | lists of items for TLC |
| `CacheStream` | the cache between the zip writer and the file (sequential) |
| `BZip2Encoder` | the BZip2 encoder's threads; implements `EncodeJob` too |
| `Streams_proofs` | theorems about `StreamBinder`, `PosixSync` and `CacheStream`; for this one module that extends all three, `PosixSync` names its specification `SyncSpec` and its types `SyncTypeOK`, `CacheStream` its specification `CacheSpec` |
| `MtCoder_proofs`, `LzFindMt_proofs`, `BZip2Encoder_proofs`, `CoderMixer_proofs`, `ZipUpdate_proofs` | theorems |
| `MtDec_steps_proofs`, `MtDec_proofs` | the invariant of `MtDec` with the steps of the caller; the steps of the threads and the theorems |

The chain of abstraction is: `PosixSync` implements `SyncObject`, which
justifies that the other modules use the one-step operators of `SyncObjects`;
`StreamBinder` implements `BytePipe`; `CoderMixer` uses one `BytePipe` per bond
and is itself shown to keep the rules of a `BytePipe`'s environment
(`PipesKeepRules`).

Definitions named `X_Something` and commented "Faulty" are variants of `X` with a
plausible bug. No specification uses them; they are there to see that a property
notices the bug.

### State and actions

*Grain.* A step is what other threads can see as a whole: a call of an event or
semaphore, a critical section, or a stretch of code on data that only this
thread owns. Where data is shared without a lock the stretch is cut at every
access that another thread could notice (`ReadCopy` and `WriteStore` in
`StreamBinder`, `Count` and `Compare` in `MtCoder`, the three steps of
`MtSync_StopWriting` in `LzFindMt`). `WaitStart` and `CheckExit` in `CoderMixer`
are separate because `Exit` is a plain variable.

*Program counters* (`pc`, `rpc`, `wpc`, `mpc`, `place`, `mixer`, `hash`, `bt`,
`lz`) name the next piece of code. Every other variable has the name it has in
the source, except histories: `written` (what the Write callback received),
`fault` (which coder failed by itself), `outBuf` (which block a buffer holds).

*StreamBinder.* `buf` is the position in the stream instead of a pointer, so that
order is visible; bytes have no values. `ReadCall/ReadLock/ReadCopy/ReadRelease`
are `Read` cut at its wait and its post, `WriteCall/WriteStore/WriteSet/
WriteLock/WriteFinish` are `Write`; `WriteCallCut` is a `Write` after the cut.

*CoderMixer.* `created`, `StartEvent`, `FinishedEvent`, `Exit` are `CVirtThread`.
`Mix...` are the loops of `CMixerMT::Code` and of the destructor, one step per
coder. A coder is external: it reads, writes and ends as it likes, but a cut
Write ends it. `Faults` gives each coder the faults it may have of its own: no thread,
or one of the results that `MixerResult` tells apart, or an exception. The main coder is
called by the mixer's own thread: when it returns an error, the mixer goes on to the wait
and the scan of all results, and only its exception ends `Code` on the spot, with the
other coders still running and no result (`EndCode`, `MixMainDone`). `Held` is what `CReleaser` has still to close. `MixAgain` is the
next folder with the same bonds, `ReInit2` and `Init`; it follows only the results
after which `7zExtract.cpp` goes on.

*MtCoder.* `ReadWait ... Compare` follow `ThreadFunc2` and `ThreadFunc` line by
line: wait for the token, read, wait for the semaphore, create the next thread,
pass the token on, pop a buffer, encode, store, claim the output, write, return
the buffer, post, look at the next ready block, leave. `CallCode ... Combine` are
`MtCoder_Code`, `Destruct ... FreeEnd` the destruction.

*LzFindMt.* `FreeBlock`, `StartWorker`, `WaitFilled`, `StopWriting`, `PostStop`,
`WaitStopped`, `Lock`, `Unlock` are the `MtSync_*` functions and are used for both
`CMtSync` objects. A block is its first position, its number of entries and the
available bytes it states. The window is `mf`: `pos`, `streamPos` and the index of
the current byte in the buffer. `NeedMove`, `MoveOffset` and `AfterRead` come from
`LzFind.c`; the encoder's part comes from `LzFindMt.c` as `LzmaEnc.c` calls it.

*MtDec.* `th[t]` holds a thread's place in `MtDec_ThreadFunc2`, its two events and
its input buffers; `p` the fields of `CMtDec` and the tokens' shared data; `job` the
call of `Lzma2DecMt_Decode` and what it has written. `ReadWait`, `Read`, `ParseLink`,
`Pass`, `Code`, `Write` are the parts of the thread function between its waits;
`Parse`, `PreCode`, `CodeUnprepared`, `NeedContinue` the four callbacks of LZMA2.
Input is counted in units that stand for LZMA2 chunks; a block is good, damaged,
oversized or followed by data that does not belong to it. `PrepareRead`, `MtRead`
and `MtReadCross` are `Lzma2Dec_Prepare_ST`, `MtDec_PrepareRead` and `MtDec_Read`;
`StBlock`, `StStops`, `StRead` and `StEnd` are `Lzma2Dec_Decode_ST` and the end of the call.

*ZipUpdate.* `m` are the locals of the main thread, `th[t]` a `CThreadInfo`, `out[t]`
its `COutMemStream`, `pool` the free list and semaphore of `CMemBlockManagerMt`,
`refs` the items finished early, `mtSem` the list of threads that are done, `arc` the
archive's positions and contents. One unit of data goes through `Write` at a time:
`WriteMem`, `WaitStop`, `WaitReal`, `WaitBlock` and `AllocateBlock`, `WriteReal`.
`EndPass` is the end of a pass of `CAddCommon::Compress`. The main loop is cut at its
`continue`s: `PassOver`, `NoStream`, `StartFile`, `SkipItem`, `OwnItem`,
`FinishedItem`, `FrontItem`, then `Lock` and `Take`. Destructors run after every way
out (`Leave`): `StopWait`, `Close`, `Return`.

*BZip2Encoder.* `enc` holds the fields of `CEncoder` that all threads see, `th[t]` a
`CThreadInfo`. `Wake`, `Enter`, `Read` are the head of `ThreadFunc` up to
`CS.Leave()`; `WaitTurn`, `Write`, `PassTurn` are `EncodeBlock3` from its wait on;
`FinishStream` and `StartWaiting` the two phases of the barrier on the side of the
thread, `WaitFinished ... Return` on the side of `CodeReal`. A block is its number
in the input, and `m_BlockIndex` its place in the ring of events.

*CacheStream.* A call is one step, since one thread at a time has the stream; each
use of the stream below in it may fail. `s` has the names of the code and the
stream below (`phy`), which remembers how much it was allowed to finalize.

## 3. Runs

| run | instance | states | shows |
|---|---|---|---|
| `posixsync` | 3 threads, count up to 2 | 174 thousand | every call of an event or semaphore is atomic; no lost wake-up |
| `binder` | 6 bytes, Read up to 4, Write up to 3 | 2 thousand | lent buffer, order, truthful ends, posts, `BytePipe`; Read and Write return |
| `codermixer` | 3 coders: chain with the main coder inside or at its end, BCJ2 decoder, BCJ2 encoder; 2 calls; 1 byte per bond; threads not created, E_ABORT, E_OUTOFMEMORY, another error, S_FALSE, E_FAIL and exceptions | 1.6 million | cause reported, pipes used by their rules, Code and destructor return |
| `mtcoder_faults` | 2 threads, ring of 3, 4 blocks, 2 calls, every fault | 0.7 million | exclusion, order, truthful result, `EncodeJob`; MtCoder_Code returns |
| `mtcoder_reuse` | 2 threads, 2 blocks, 2 calls without settling | violation | the first finding below |
| `lzfindmt_stops` | rings of 2 blocks, 6 bytes, 2 inputs, every fault | 1.1 million | exclusion, positions in step, stops, `MatchFinder` |
| `lzfindmt_window` | 34 bytes through a window of 23, read errors, threads not created | 0.25 million | nobody looks at the window while it moves, history stays; waits of the encoder end |
| `mtdec_faults` | 3 threads, 2 calls, buffers of 2 units, inputs of up to 4 blocks, cut anywhere, 2 failures | 0.19 million | tokens, clean hand-over to one thread, `DecodeJob`; Lzma2DecMt_Decode returns, threads can be joined |
| `mtdec_writeerror` | 2 threads, a failing write | violation | the second finding |
| `zip` | 3 threads, 0 or 2 blocks, 5 and 6 items, both kinds of output, 1 failure | 0.65 million | blocks, order of the archive, progress, result; Update2 returns |
| `cachestream` | cache of 2 blocks of 2 bytes, 6 bytes, failures | 1.7 million | the file is intact, final data stays |
| `bzip2` | 3 threads, 4 blocks, 2 calls, every fault | 1.6 million | one turn, calls that do not mix, `EncodeJob`; Code returns |

Why these bounds are enough for the cases that matter:

* Six bytes, writes of 3 and reads of 4 let a buffer be taken in parts, in full
  and not at all, and each end leave between any two of these, and the binder be
  used again.
* Three coders give a coder that both reads and writes between two others, a
  coder with two inputs and one with two outputs; in the fourth tree the two coders that
  are not the main one are neighbours. A bond of one byte has all the ways in which a
  stream can end for its two coders: taken, cut, cut off early, or whole but unread; what
  more bytes add is the pipe's own affair, and `binder` has six of them. `MCFaults` lets
  every two results that follow each other in weight meet. A second call shows what the first left behind.
* A ring of three with four blocks wraps; two threads suffice for every pair of
  threads (reader, writer, late leaver), and a block can become ready behind one
  that is still being encoded.
* A ring of two blocks is the smallest in which worker and user are at different
  blocks; block sizes are the smallest that still give blocks of two positions,
  end-of-input blocks and a BT block from two hash blocks. In `lzfindmt_window`
  the window is moved more than once while BT and LZ lag behind by full rings.
* Three decoder threads and inputs of four blocks let the ring wrap while an error
  is behind, in front of and beside a thread; two failures show what a second one does to the cleaning up
  after the first. The inputs have blocks that end in the middle and at the end of
  a buffer and that need a buffer more.
* The lists of items in `MCZipUpdate` have more files than threads and files that
  need more blocks than there are, so that a thread gets the archive while it waits,
  while it writes, before a repeated pass and after its end, and is reused in each
  case. With no block at all each file depends on being given the archive. Progress
  counters are modulo 16, which the differences of a repeated pass cross.
* Three BZip2 threads and four blocks let the turns go round with a thread that has
  two blocks while another is still at its first; the second call begins with what
  the first left in the events.
* A cache of two blocks wraps within six bytes; that lets the rewritten place be in
  front of the cache, in it, across its end, and already in the file.

TLC checks deadlock in every run; a step that does nothing stands for the end of
a program (`Destroyed`).

### Fairness

Runs that check a call's return assume weak fairness of each thread: a thread that can take a
step takes one some day, which is what the operating system's scheduler gives.
The caller of a component is fair only inside a call: it need not call again, and
need not stop. In `CoderMixer` and `StreamBinder` the coders are assumed to go on
when their Read or Write has returned, and to stop some day. Waits on events,
semaphores and locks need no strong fairness here: in no run does a waiting
thread lose what it waits for to others for ever, which is a result of the runs.
In `ZipUpdate` the failure of a coder and a cancelling callback (`CodeFails`) are not
part of what a thread does fairly: nothing forces them, so a thread that waits for a
block is not saved by failing. The same holds for the failures of the other
modules: a fault is one of several outcomes of a step that is fair as a whole.

## 4. Findings

`mtcoder_reuse` (`C/MtCoder.c:350-351`). A thread that leaves increments
`numFinishedThreads` and then compares the number with `numStartedThreads`. If a
second thread increments after it and compares first, `MtCoder_Code` returns and
the first thread's comparison is still to come. `Lzma2Enc_Encode2` keeps the
object and calls `MtCoder_Code` again, which sets `numStartedThreads` to 1; the
late comparison of 1 with 1 sets `finishedEvent`, and the second call returns
`SZ_OK` with nothing written, while its threads run on. The other MtCoder runs
have `SettledReuse = TRUE`: the second call comes only when the threads are back
in their wait, so that they show what holds apart from this.

`mtdec_writeerror` (`C/MtDec.c:740-751`). When the Write callback fails,
`MtDec_ThreadFunc2` interrupts the other threads but keeps the error nowhere, and
`Lzma2DecMt_Decode` returns `SZ_OK` where `C/Lzma2DecMt.h:36` promises
`SZ_ERROR_WRITE`. `7zip/Compress/Lzma2Decoder.cpp` looks at the error its own stream
wrapper has kept, so that 7-Zip reports it; a C program that trusts the result does
not see it.

A result without a run. In `BZip2Encoder.cpp:902` `WriteBytes` throws when the
output stream fails, and `EncodeBlock3` is left before line 916 sets the
`CanWriteEvent` of the next place. A thread whose block has a later turn waits for it
for ever, never comes to `FinishStream`, and so `CodeReal` waits for ever in line 998:
compression with several threads to a full disk can hang instead of reporting the
error. No comment or document promises the contrary. `BZip2Encoder` describes the
situation (`TurnLost`), and `CodeReturns` there says that it is the only one in which
Code does not return; an error of the input or of the progress callback passes the
turn on, or has no turn.

## 5. Theorems

TLC checks one instance; these hold for all values of the constants that satisfy
the named assumptions of the modules.

`Streams_proofs` begins with `StreamBinder` (it assumes the sizes are positive). The
invariant is `IInv == TypeOK /\ Accounting /\ OpenTokens /\ Places`. The safety properties are
not inductive because they do not say who may act next; the strengthening treats
event and semaphore as one token that is at the writer, in the event, at the
reader or in the semaphore, and says for each place what the unlocked buffer
contains. From it follow `TypeOK`, `LentBufferStable`, `ReadsInOrder`,
`TruthfulEnds`, `PostsFit`, and that every step is a step of
`BytePipe` or a stutter (`BinderImplementsPipe`).

Its second part is about `PosixSync` (any set of threads, any maximum count).
`SyncInv == SyncTypeOK /\ MutexInv /\ CallInv /\ NoLostWakeup`: the holder of the mutex is
the one thread between lock and unlock, what each call has done so far, and the
wake-ups. It gives `SyncTypeOK`, `NoLostWakeup`, and the refinement of `SyncObject`
(`CallsAreAtomic`).

`CoderMixer_proofs` (assumes `CoderMixerAssumption`: a bond joins two different coders
of the mixer, sizes are positive, and each coder's faults are among those the code
distinguishes). None of the three
properties is inductive. `CauseReported` speaks of the end of a call and
`PipesKeepRules` of its beginning, where all bonds have to be closed; both need to know
what each coder has done by then. The invariant
`IInv == TypeOK /\ (\A b \in AllBonds : PipeOK(b)) /\ (\A c \in Coders : CoderOK(c) /\ ThreadOK(c) /\ Phase(c)) /\ Mixer`
follows each coder through a call. It is `Ready` before it is started, `Launched` until Code
waits for it and `Back` afterwards. A coder that may still run has all its ends of bonds open; one
that is done has closed them, and its `Result` is its fault, if it had one. `Launched`
says that the order to start is in one place only: in the start event, with the thread,
or answered in the finished event. `PipeOK` says that a Write in progress belongs to the
coder that waits in it. So all bonds are closed when `MixAgain` resets them, and the
results among which `MixerResult` chooses are those of this call. A failed creation of
a thread ends the mixer (`Phase` at `failed` and after); coders that were never started
are then only told to exit. `CauseReported` gives the order of weight of `Code`: E_ABORT,
E_OUTOFMEMORY, any other error, S_FALSE, E_FAIL. There is one consequence that Code can
return: a coder that takes the early end of its input for bad data returns S_FALSE, and as
the scan for S_FALSE (`CoderMixer2.cpp:1120`) comes before the one that finds E_FAIL
(1122-1127), it hides an E_FAIL of the coder before it. No doc or comment promises
otherwise, so this is stated in the property (`Misled`) and is no finding.

`MtCoder_proofs` (assumes `SettledReuse`, see the finding).
`IInv == IndexesOK /\ CallBegins /\ OneToken /\ OneWriter`: besides the two parts
of `TurnsExclusive`, that a thread which does not exist is nowhere and that a call
begins with all threads asleep and without a token. It gives `TurnsExclusive`:
reading and writing, for which the code has no lock, are mutually exclusive for
any number of threads and blocks and under every failure.

Parts II and III of the module (same assumption) go on from there to
`TypeOK` (`EncoderTypes`), `ResourcesExclusive` (`ResourcesAreExclusive`), `CallComplete`
(`CallsAreComplete`) and `ImplementsJob` (`EncodesLikeOneCoder`). The
code keeps places in the ring and no numbers of blocks, so that the invariant speaks of
the number of blocks read so far and of those written so far. `Counting` and `Quiet` say
who has been created, who takes part in the call, and that all threads sleep after it.
`SlotsOK` says that what the semaphore still allows, the blocks under way and the posts
still to come add up to no more than the ring has places, and that the blocks under way are those after the
last written one: so a place of the ring stands for one block. `Pool` says that each
buffer is either in the free list, once, or with one holder. `Content` and `Reading` say which
block is in which buffer and slot, and `Finals` that a call which
reports no error has read to the end and has nothing left in the ring.

`LzFindMt_proofs` (assumes `LzFindMtAssumption`, the least sizes that the code
ensures). `IInv == Typed /\ Lives /\ BtHandshake /\ HashHandshake /\ Locks /\ Rings`
says for each field of the two `CMtSync` objects where the three threads may be
while it is set: who has been created, what `canStart`, `stopWriting` and
`wasStopped` still mean, who has a lock, and that the blocks in hand are in no
semaphore. `StopsClean` alone says nothing of the way to a stop; the handshakes are
what carries an order from LZ to BT to HASH and its confirmation back. One lemma per
action, and under it one step for the parts the action leaves as they are and one for
each that it may disturb.

The second invariant, `Data == IInv /\ Stored /\ Window /\ Awake /\ History /\ Flow`, is
about what flows. The code keeps places in the rings; the proof numbers the blocks from
the start of the pipeline, HASH being at block m, BT with n in hand or awaiting it and
at work on e, and LZ at c (`Flow` says that such numbers exist). `HashBlockOK` and
`BtBlockOK` say that
blocks follow one another in the input, that each promises no less than the one before,
and that a block without enough bytes is followed by the end; `BtSource` and `LzSource`
give the positions of BT and LZ from the block in hand, `Construction` those of the
block BT is filling. While the input goes on a block has a bounded number of positions,
so that a thread lags behind the one before it by less than its ring: with
`KeepSizeBefore` this gives `History`, which is why a window may be moved for HASH
although LZ is far behind. `Feeding` and `Serving` say when all this is promised:
between a stop and the next start the blocks of the rings mean nothing. From `Data`
follow `TypeOK` (`TypesKept`), `InStep` (`BlocksInStep`), `WindowValid`
(`WindowIsValid`) and that every step is a step of `MatchFinder` or a stutter
(`FinderImplemented`).

`BZip2Encoder_proofs` (assumes `BZip2EncoderAssumption`: more than one thread). It gives
`TurnsOK` (`TurnsAreSafe`) and that the encoder implements `EncodeJob`
(`EncodesLikeOneThread`), which is `ImplementsJob` without the return of the calls. The
invariant has three parts. `Phases` says for each place of the caller in the barrier
where the threads may be and which of their events are set. `Blocks` and `Turn` say
that the blocks under way are those after the last written one, without a gap, that
each is in the hands of one thread, and where the turn is. From this follows by
counting (an injection of the blocks into the threads) that no more blocks are under
way than the ring has places, and by arithmetic with remainders that a place stands for
one block: this is why the event that wakes a thread is that of the next block, which
no variable of the code says. `Outcome` says what is known of an error before all
threads have reported it.

`MtDec_proofs` (assumes `MtDecAssumption`: at least two threads, a buffer of at least
one unit, inputs of at least one block and no empty block). None of its properties is
inductive: they do not say which thread has which part of the input. `Inv` (in
`MtDec_steps_proofs`) says for each place of the call what the threads hold.

* While the threads run (`Turn`) there are a writer `w`, a number `k` of threads that
  work on blocks from that writer on, and the index `B` of the writer's block. `Ring`
  says that a thread works exactly if it is one of these `k`, that the write token is at
  `w` and the read token, if it has not been kept, at the thread behind them, and that
  threads are started in the order of the ring. `Rules` says what an error, an
  interruption or a thread that keeps the token means for those behind it; `Flows` that
  the pieces of input in the threads' buffers, then the cross block, then the stream
  follow one another without gap or overlap from the first block that is not written.
* When the threads are done, `AfterTurn` says that all of them sleep with no token, and
  `Kept` and, for the decoding by one thread, `Single` that the filled threads from
  `filledThreadStart` on, the cross block and what is unread are the rest of the input.

There is one lemma per action. `..Moves` lemmas first say what a step does to the
fields of which `Inv` speaks, whatever links a buffer has; the lemmas about the ring
and about the links of a buffer (`LinksHold`) then never look at the code again. From
`Inv` follow `TypeOK` (`TypesKept`), `TokensUnique` (`TokensKept`) and `HandoverClean`
(`HandoverKept`). That every step is a step of `DecodeJob` or a stutter
(`WritesLikeOneThread`) needs one fact more, `EndRead`: when a read has told the end of
the input, somebody still takes what remains of it before the threads are done; without
it the result could be that of an input that was cut off too early.

`DecodeJob` promises the output of one thread and not its result. When the ring reaches the
end of what can be decoded, `Lzma2DecMt_Decode` may return SZ_OK over an input that is damaged
or cut off (`Lzma2DecMt.c:931-936`), where `Lzma2Dec_Decode_ST` returns SZ_ERROR_DATA or
SZ_ERROR_INPUT_EOF (763-782); with `finishMode` its caller compares the sizes
(`Lzma2Decoder.cpp:177-183`). So "ok" means a whole input only if the threads have given up
and one thread has decoded the rest (`GoOnAlone`). Any other result has a cause in the input,
in its reading, or in what stops the call: a failed write, the progress callback, or no memory for
the decoding by one thread (`Lzma2Dec_Prepare_ST`, 611-634 and 655-658).

The inputs of `MtDec` are given by the last unit of each block rather than by sizes: the
sum of the sizes would be a recursion over the input, about which nothing can be proved
here, and the code, too, finds a block by its end.

The last part of `Streams_proofs` is about `CacheStream` (`CacheAssumption`: sizes of
blocks, cache and writes are positive). It gives `FileIntact` (`CacheHoldsFile`) and the
action property `FinalStays` (`FinalKept`), for a cache of any size. A call of the client
is one step of the model and a chain of operations in the code, each of which may end it with an error; so the proof
has one lemma per operation and chains them as the call does. What they hand on is
`Sound(x, d, o)`: `x` is the stream so far, `d` what the client has written and `o` the
stream below as it was when the call began.

* `Below`: nothing that was final in `o` has been touched. This is `FinalStays`
  when the call ends.
* `Limits`: what is final lies before the cached data and before the restricted area.
  `FinalStays` is not inductive without it: it is why the regions that
  `SetRestriction_ForWrite` computes (`RestrictForWrite`) never cover bytes that come
  down again. It also says that a stream without seeking stands where the cached data
  belongs, so that it is never asked to seek.
* `Holds`: each byte of `d` is in the cache if it is cached, else in the stream below.

`CacheInv` is that of the present state, with `Client`, which says where `COutArchive` stands
between its calls. The rest is arithmetic: positions of the file less than a round apart
have different places in the cache's memory (`Apart`), a block never lies across its end
(`BlockEnds`), and the amount that `Write` takes therefore neither runs into the start of
the cached data nor beyond old data (`AmountFacts`). The loop of
`FlushNonRestrictedBlocks` needs an induction over its rounds; as the
provers have no induction over an operator, `LoopSound` argues with the least round
after which the invariant would not hold.

`ZipUpdate_proofs` (assumes `ZipAssumption`: at least one thread, blocks of positive size,
and a pass over a file is repeated only when it did not make the data smaller) gives
`TypeOK`, `BlocksKept`, `ArchiveInOrder` and `ProgressExact`, for any list of items, any
number of threads and of blocks, and any failures. None is inductive. `ArchiveInOrder`
speaks of the item that is being written and says nothing of those that threads hold in
memory and that are appended later; it needs to know that each of them is complete, is
where the main thread will look for it, and that no other thread writes meanwhile. `Inv`
consists of

* `Queue` and `ItemsOK`: the busy threads are those in `threadIndices`, in the order of
  their items; every file that has been started is finished in memory or has a thread.
  So the thread of the current item is the first one, as the code takes for granted
  when it looks at `threadIndices.Front()` only.
* `RealOK`: the one thread that may write to the archive is that of the current item,
  after `SetRealStreamMode`, and no event of an earlier item tells another one so.
* `Life`: in which places a thread can be that waits for an order, has finished its
  item, is listed as finished, or has to go. `SemOK`: `mtSem` promises as many threads
  as are listed, less those that have not yet posted.
* `StreamOK` and `KeptOK`: what is packed so far is in the stream's memory, or in the
  archive from `base` on; a finished item has all of its last pass.
* `ArcOK` and `ArcData`: positions, and the archive as the entries of the items before
  the current one, its header and what its thread has written of it.
* `BlocksOK` and `ProgressOK`: the two sums, over threads and over items. A step changes
  one term or moves one from a thread to its item, and so a few lemmas about
  `SumFunctionOnSet` suffice. `ResultOK`: every error has a cause, and a cause is not
  forgotten.

A step is described once by what it does to the fields (`Only` and `Move` for the
threads, `MainMove` for the main thread; `Fresh` for the state that `Setup` leaves, which
satisfies `Inv` by itself), and the lemmas about the parts of `Inv` use these
descriptions only.

All safety properties of the runs are proved. Only model-checked is liveness. The
inductive invariants were checked with TLC on the instances of the runs before they were
proved. Liveness under fairness, ENABLED,
induction over data and recursive operators are out of the proof system's reach and stay
with TLC. No module of the project uses recursive operators.

## 6. Not modelled

* *Data.* Bytes, matches, hash tables, trees, compression. The models say which
  bytes go where, not what they are.
* *Normalization* of 32-bit positions in the match finder: positions are unbounded
  in `LzFindMt`. HASH, BT and LZ subtract from their own words and tables near 2^32;
  what an entry means afterwards is a matter of data in tables that are not modelled.
* *Zip update*: one thread (`Update2St`), the choice of methods and of the number of
  threads, the contents of headers, and how the two progress callbacks are mixed.
* *XZ and LZMA2*: of the clients of the engines only `Lzma2DecMt_Decode` is modelled; the
  XZ decoder, and both encoders, are callbacks that may fail.
* *BZip2*: the decoder with its scout thread, and the mode of one thread.
* *Zip update, between the passes of one file*: failures of seeking or cutting the input,
  the output and the temporary stream, and the E_FAIL after an encoder that did not finish
  (`ZipAddCommon.cpp:251-254`, 468-469). They end the coder like any other error of it, which is
  modelled.
* *Win32* synchronization objects, thread affinity, thread groups.
* *Failures that cannot happen on POSIX*: setting or waiting for an event that
  exists. So `CVirtThread::Start` succeeds. (If it failed half-way, the destructor
  of the mixer could wait for a coder whose input is closed only later.)
* *Progress callbacks* that cancel have no action of their own except in `BZip2Encoder`
  (`PassTurn`) and `MtDec` (`AfterProgress`, `StStops`): elsewhere they are errors of a coder
  or of a write.
* The components marked `not_modelled` in `PROJECT.json`, with their reasons.

## 7. Plan

Done, in this order: `SyncObjects`, `StreamBinder` (the smallest piece with an
unlocked hand-over), `MtCoder`, `LzFindMt`, `PosixSync` under all of them,
`CoderMixer`, which composes coders over the pipe, `MtDec` with its LZMA2 client,
`ZipUpdate` with the pool of blocks and the wait for several objects, `CacheStream`
below it, and `BZip2Encoder`.

What is left, the most useful first:

1. The scout thread of the BZip2 decoder.
2. Normalization of positions on words of a few bits, against distances in unbounded
   integers.
3. The XZ client of `MtDec`: blocks of known size, and the index that is checked
   against them.
