----------------------------- MODULE EncodeJob -----------------------------
(***************************************************************************)
(* The promise of MtCoder_Code: it behaves like one thread that encodes    *)
(* and writes the blocks of the input one after the other.  Once something *)
(* has failed it may pass over blocks, but can no longer return SZ_OK.     *)
(***************************************************************************)
EXTENDS Naturals, Sequences

CONSTANT NumInput

VARIABLES busy,      \* a call is being executed
          failed,    \* something has failed in it
          result,    \* its result, when it is no longer busy
          written    \* the blocks written so far

jobVars == <<busy, failed, result, written>>

Init == ~busy /\ ~failed /\ result = "ok" /\ written = <<>>

Start ==
    /\ ~busy /\ busy'
    /\ ~failed' /\ result' = "ok" /\ written' = <<>>

Emit(block) ==
    /\ busy
    /\ \A i \in 1..Len(written) : written[i] < block
    /\ ~failed => block = Len(written) + 1
    /\ written' = Append(written, block)
    /\ UNCHANGED <<busy, failed, result>>

Fail == busy /\ failed' /\ UNCHANGED <<busy, result, written>>

ReturnOk ==
    /\ busy /\ ~failed /\ Len(written) = NumInput
    /\ ~busy'
    /\ UNCHANGED <<failed, result, written>>

ReturnError ==
    /\ busy /\ ~busy'
    /\ result' # "ok"
    /\ UNCHANGED <<failed, written>>

Next ==
    \/ Start \/ Fail \/ ReturnOk \/ ReturnError
    \/ \E block \in 1..NumInput : Emit(block)

Spec == Init /\ [][Next]_jobVars
=============================================================================
