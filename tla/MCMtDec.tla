------------------------------ MODULE MCMtDec ------------------------------
(* Instances of MtDec for TLC. *)
EXTENDS MtDec

Ok(e) == [end |-> e, kind |-> "ok"]
To(e, k) == [end |-> e, kind |-> k]

(* With InBufSize = 2: blocks that end with a link, inside one and in the  *)
(* third one; damaged, unreadable and oversized blocks. There are more     *)
(* blocks than threads, so that the ring turns over.                       *)
MCInputs == {<<Ok(1), Ok(3), Ok(4), Ok(5)>>, <<Ok(1), Ok(3), To(4, "bad")>>,
             <<Ok(1), To(2, "bad"), To(4, "bad"), Ok(5)>>,
             <<Ok(2), Ok(5), To(6, "junk")>>, <<Ok(1), To(4, "big"), Ok(5)>>}
=============================================================================
