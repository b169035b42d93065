----------------------------- MODULE DStarVoice -----------------------------
(***************************************************************************)
(* DStarDecode implements VoiceStream: the bits, the register and the      *)
(* index are hidden.                                                       *)
(***************************************************************************)
EXTENDS DStarDecode

phase ==
  CASE ~running -> "stopped"
    [] running /\ readmode = "nullmode" -> "search"
    [] running /\ readmode = "headmode" -> "header"
    [] running /\ readmode = "datamode" -> "frames"

number == IF phase = "frames" THEN voiceframecount ELSE 0

Voice == INSTANCE VoiceStream WITH owed <- audio_ready

(***************************************************************************)
(* Every step of the decoder is a step VoiceStream allows, or changes      *)
(* nothing that VoiceStream shows.                                         *)
(***************************************************************************)
ImplementsVoiceStream == Voice!Spec
=============================================================================
