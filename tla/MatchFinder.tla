---------------------------- MODULE MatchFinder ----------------------------
(***************************************************************************)
(* What the LZMA encoder may rely on in a match finder (IMatchFinder2 of   *)
(* C/LzFind.h), whichever threads find the matches.  Of NumInput bytes,    *)
(* pos are consumed and avail more are promised to be in the window.  The  *)
(* encoder plans ahead for the promised bytes (Skip of many of them), so   *)
(* a promise is never taken back; and it takes avail = 0 for the end of    *)
(* the input, so that is told only at the end, or after an error that the  *)
(* encoder will find in the end (failed).                                  *)
(***************************************************************************)
EXTENDS Naturals

CONSTANT NumInput

VARIABLES phase, pos, avail, failed

vars == <<phase, pos, avail, failed>>

Init == phase = "closed" /\ pos = 0 /\ avail = 0 /\ ~failed

(* Init of a new input. *)
Open ==
    /\ phase = "closed"
    /\ phase' = "open" /\ pos' = 0 /\ avail' = 0 /\ ~failed'

(* GetNumAvailableBytes. *)
Look ==
    /\ phase = "open"
    /\ avail' \in avail..NumInput - pos
    /\ failed => failed'
    /\ UNCHANGED <<phase, pos>>

(* GetNumAvailableBytes returns 0. *)
End ==
    /\ phase = "open" /\ phase' = "end"
    /\ avail = 0
    /\ failed => failed'
    /\ pos = NumInput \/ failed'
    /\ UNCHANGED <<pos, avail>>

(* GetMatches, or one byte of Skip. *)
Consume ==
    /\ phase = "open"
    /\ avail > 0
    /\ pos' = pos + 1 /\ avail' = avail - 1
    /\ UNCHANGED <<phase, failed>>

(* ReleaseStream; errors of the reading may come up to then. *)
Close ==
    /\ phase \in {"open", "end"}
    /\ phase' = "closed"
    /\ UNCHANGED <<pos, avail, failed>>

Error == failed' /\ UNCHANGED <<phase, pos, avail>>

Next == Open \/ Look \/ End \/ Consume \/ Close \/ Error

Spec == Init /\ [][Next]_vars
=============================================================================
