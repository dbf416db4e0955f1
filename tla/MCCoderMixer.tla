---------------------------- MODULE MCCoderMixer ----------------------------
(***************************************************************************)
(* Mixers of three coders for TLC.  Bonds are pairs <<reader, writer>>.    *)
(***************************************************************************)
EXTENDS CoderMixer, TLC

(* A decoder after another: 2 feeds 1, 1 feeds 0, the unpack coder.  The   *)
(* main coder is in the middle, and both its neighbours are threads.       *)
Chain == [bonds |-> {<<0, 1>>, <<1, 2>>}, main |-> 1]

(* BCJ2: the unpack coder has several packed streams, when it decodes ...  *)
Decoder == [bonds |-> {<<0, 1>>, <<0, 2>>}, main |-> 0]

(* ... and when it encodes. *)
Encoder == [bonds |-> {<<1, 0>>, <<2, 0>>}, main |-> 0]

(* The chain again; 1 and 2 are neighbours without the main coder. *)
Line == [Chain EXCEPT !.main = 0]

MCBindInfos == {Chain, Line, Decoder, Encoder}

(* Every two results that follow each other in weight can meet, with the   *)
(* lighter one in the coder that comes first.                              *)
MCFaults == (0 :> {"other", "fail", "throw"})
            @@ (1 :> {"create", "memory", "data", "throw"})
            @@ (2 :> {"create", "abort", "other", "fail"})
=============================================================================
