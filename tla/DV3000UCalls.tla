---------------------------- MODULE DV3000UCalls ----------------------------
(***************************************************************************)
(* DV3000U implements VocoderCalls: the line, the packets and the          *)
(* questions of OpenDevice are hidden.                                     *)
(***************************************************************************)
EXTENDS DV3000U

call ==
  CASE pc \in {"closed", "ready", "failed"} -> pc
    [] Waiting /\ stage = "data" -> "busy"
    [] Waiting /\ stage # "data" -> "opening"

made == IF Waiting /\ stage = "data" THEN frame ELSE <<>>

result == IF pc = "ready" /\ stage = "data" THEN SubSeq(got, 3, Len(got)) ELSE <<>>

Calls == INSTANCE VocoderCalls WITH Results <- Frames, None <- <<>>

(***************************************************************************)
(* Every step of the vocoder, of the line and of the call is a step        *)
(* VocoderCalls allows, or changes nothing that VocoderCalls shows.  So    *)
(* when DecodeData (EncodeAudio) succeeds, what it gives is what the       *)
(* vocoder made of the frame of this call: not of an earlier one, nor of   *)
(* an answer some of whose bytes have been lost, nor bytes within an       *)
(* answer that look like one.                                              *)
(***************************************************************************)
ImplementsCalls == Calls!Spec
=============================================================================
