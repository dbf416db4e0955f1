----------------------------- MODULE DecodeJob -----------------------------
(***************************************************************************)
(* The promise of a multithreaded decoder: whichever threads do the work,  *)
(* the output is that of one thread that decodes and writes the blocks of  *)
(* the input in order.  It passes on all that can be decoded ("we want to  *)
(* decode all data before error") and reports no error without a reason.   *)
(* The result is not that of one thread: when the threads come to the end  *)
(* of what can be decoded, the call may end with "ok" although the input   *)
(* is damaged or cut off, and leaves it to the caller to compare sizes.    *)
(* Only when the threads have given up and one thread decodes alone does   *)
(* "ok" mean that the input was whole.                                     *)
(***************************************************************************)
EXTENDS Naturals, Sequences

VARIABLES busy,        \* a call is being executed
          reach,       \* blocks that can be decoded before the first error
          complete,    \* ... and they are the whole input
          readFailed,  \* the input stream has failed
          alone,       \* one thread decodes the rest, the others are done
          stopped,     \* the output stream or the progress callback has, or
                       \* there is no memory even for one thread
          emitted,     \* the blocks written so far
          result       \* "ok" or another, when the call is over

jobVars == <<busy, reach, complete, readFailed, alone, stopped, emitted, result>>

Init == /\ ~busy /\ ~readFailed /\ ~alone /\ ~stopped /\ result = "ok"
        /\ reach = 0 /\ emitted = <<>> /\ complete = TRUE

Start ==
    /\ ~busy /\ busy'
    /\ reach' \in Nat /\ complete' \in BOOLEAN
    /\ ~readFailed' /\ ~alone' /\ ~stopped' /\ emitted' = <<>> /\ result' = "ok"

(* Block after block, none left out, none after the first bad one. *)
Emit ==
    /\ busy /\ ~stopped /\ Len(emitted) < reach
    /\ emitted' = Append(emitted, Len(emitted) + 1)
    /\ UNCHANGED <<busy, reach, complete, readFailed, alone, stopped, result>>

(* The input ends earlier than it should. *)
ReadFails ==
    /\ busy /\ ~readFailed /\ readFailed'
    /\ reach' \in Len(emitted)..reach /\ complete' \in {complete, FALSE}
    /\ UNCHANGED <<busy, alone, stopped, emitted, result>>

Stop ==
    /\ busy /\ ~stopped /\ stopped'
    /\ UNCHANGED <<busy, reach, complete, readFailed, alone, emitted, result>>

GoOnAlone ==
    /\ busy /\ ~alone /\ alone'
    /\ UNCHANGED <<busy, reach, complete, readFailed, stopped, emitted, result>>

Return ==
    /\ busy /\ ~busy' /\ ~alone'
    /\ stopped => stopped'
    /\ stopped' \/ Len(emitted) = reach
    /\ result' = "ok" => ~readFailed /\ (alone => complete)
    /\ result' # "ok" => readFailed \/ stopped' \/ ~complete
    /\ UNCHANGED <<reach, complete, readFailed, emitted>>

Next == Start \/ Emit \/ ReadFails \/ Stop \/ GoOnAlone \/ Return

Spec == Init /\ [][Next]_jobVars
=============================================================================
