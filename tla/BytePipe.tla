------------------------------ MODULE BytePipe ------------------------------
(***************************************************************************)
(* The promise of CStreamBinder to the two coders it connects: an          *)
(* unbuffered pipe that carries one stream of bytes, in which either end   *)
(* may leave early.                                                        *)
(***************************************************************************)
EXTENDS Naturals

CONSTANTS StreamLen, MaxWrite, MaxRead

VARIABLES
    taken,   \* bytes the reader has received
    acked,   \* bytes reported to the writer by Writes that returned
    asked,   \* size of the Write in progress, 0 if there is none
    cut,     \* the last Write was told that nobody reads any more
    eof,     \* the last Read was told that the stream has ended
    rOpen, wOpen

pipeVars == <<taken, acked, asked, cut, eof, rOpen, wOpen>>

Init ==
    /\ taken = 0 /\ acked = 0 /\ asked = 0
    /\ cut = FALSE /\ eof = FALSE
    /\ rOpen = TRUE /\ wOpen = TRUE

BeginWrite(size) ==
    /\ wOpen /\ asked = 0
    /\ acked + size <= StreamLen
    /\ asked' = size
    /\ UNCHANGED <<taken, acked, cut, eof, rOpen, wOpen>>

(* The reader receives the next bytes of the Write in progress. *)
Take(count) ==
    /\ rOpen /\ asked # 0
    /\ taken + count <= acked + asked
    /\ taken' = taken + count
    /\ eof' = FALSE
    /\ UNCHANGED <<acked, asked, cut, rOpen, wOpen>>

(* A Write reports the bytes that were taken, all of them unless the       *)
(* reader left in the middle.                                              *)
EndWrite ==
    /\ asked # 0 /\ taken > acked
    /\ taken = acked + asked \/ ~rOpen
    /\ acked' = taken /\ asked' = 0 /\ cut' = FALSE
    /\ UNCHANGED <<taken, eof, rOpen, wOpen>>

(* A Write of which nothing was taken is cut, and only if reading ended. *)
CutWrite ==
    /\ wOpen /\ ~rOpen /\ taken = acked
    /\ asked' = 0 /\ cut' = TRUE
    /\ UNCHANGED <<taken, acked, eof, rOpen, wOpen>>

(* End of stream: the writer closed and everything it sent was taken. *)
ReadEof ==
    /\ rOpen /\ ~wOpen /\ taken = acked
    /\ eof' = TRUE
    /\ UNCHANGED <<taken, acked, asked, cut, rOpen, wOpen>>

CloseRead ==
    /\ rOpen /\ rOpen' = FALSE
    /\ UNCHANGED <<taken, acked, asked, cut, eof, wOpen>>

CloseWrite ==
    /\ wOpen /\ asked = 0 /\ wOpen' = FALSE
    /\ UNCHANGED <<taken, acked, asked, cut, eof, rOpen>>

Reset ==
    /\ ~rOpen /\ ~wOpen
    /\ taken' = 0 /\ acked' = 0 /\ asked' = 0
    /\ cut' = FALSE /\ eof' = FALSE
    /\ rOpen' = TRUE /\ wOpen' = TRUE

Next ==
    \/ \E size \in 1..MaxWrite : BeginWrite(size)
    \/ \E count \in 1..MaxRead : Take(count)
    \/ EndWrite \/ CutWrite \/ ReadEof
    \/ CloseRead \/ CloseWrite \/ Reset

Spec == Init /\ [][Next]_pipeVars
=============================================================================
