----------------------------- MODULE VoiceStream -----------------------------
(***************************************************************************)
(* What CDStarDecode promises to those it calls (lib/DStarDecode.cc, read  *)
(* without its bits): in which order the slow-data parser, the vocoder and *)
(* the console hear of headers, frames and losses, how the frames are      *)
(* numbered, and that the caller of Process gets the audio of each frame   *)
(* before the next one is decoded.  DStarVoice shows that DStarDecode      *)
(* implements it.                                                          *)
(***************************************************************************)
EXTENDS Integers, Sequences

CONSTANT SyncPeriod

VARIABLES
  phase,    \* "search", "header", "frames", or "stopped" by the vocoder
  number,   \* of the frame to come; 0 outside "frames"
  owed,     \* there is audio that the caller has not had
  calls     \* what the last step told the surroundings

vars == <<phase, number, owed, calls>>

Init ==
  /\ phase = "search"
  /\ number = 0
  /\ owed = FALSE
  /\ calls = <<>>

\* the caller gets what it is owed
HandOver ==
  /\ phase # "stopped"
  /\ owed' = FALSE
  /\ calls' \in IF owed THEN {<<"audio">>} ELSE {<<"silence">>, <<"long silence">>}
  /\ UNCHANGED <<phase, number>>

\* a bit that completes nothing
Quiet ==
  /\ phase # "stopped"
  /\ calls' = <<>>
  /\ UNCHANGED <<phase, number, owed>>

\* on with phase ph and number n, unless a terminal sync ends the frames
GoOn(ph, n, told) ==
  \/ /\ phase' = ph
     /\ number' = n
     /\ calls' = told
  \/ /\ phase' = "search"
     /\ number' = 0
     /\ calls' = told \o <<"termsync", "Reset">>

\* the vocoder fails in the last of the calls told
Stop(told) ==
  /\ phase' = "stopped"
  /\ number' = 0
  /\ calls' = told

End ==
  /\ phase \in {"search", "frames"}
  /\ phase' = "search"
  /\ number' = 0
  /\ calls' = <<"termsync", "Reset">>
  /\ UNCHANGED owed

StartHeader ==
  /\ phase = "search"
  /\ phase' = "header"
  /\ number' = 0
  /\ calls' = <<"headsync">>
  /\ UNCHANGED owed

EndHeader ==
  /\ phase = "header"
  /\ phase' = "frames"
  /\ number' = 0
  /\ calls' = <<"SetHeader">>
  /\ UNCHANGED owed

\* a frame ends, and nothing is owed from the one before
FrameEnds == phase = "frames" /\ ~owed

Decoded == <<"DecodeData">>

Frame ==
  LET told == <<"Add3">> \o Decoded
  IN  /\ FrameEnds
      /\ \/ GoOn("frames", (number + 1) % SyncPeriod, told) /\ owed' = TRUE
         \/ Stop(told) /\ owed' = FALSE

\* the frames are lost where a sync was due
Lose ==
  LET told == <<"Add3", "missing", "Reset">> \o Decoded
  IN  /\ FrameEnds
      /\ number = 0
      /\ \/ GoOn("search", 0, told) /\ owed' = TRUE
         \/ /\ phase' = "header"
            /\ number' = 0
            /\ calls' = told \o <<"headsync">>
            /\ owed' = TRUE
         \/ Stop(told) /\ owed' = FALSE

\* the frames are lost, and found again, at a sync that was not due
Relock ==
  LET told == <<"Add3", "unexpected", "Reset">> \o Decoded
      found == told \o <<"datasync">> \o Decoded
  IN  /\ FrameEnds
      /\ number # 0
      /\ \/ GoOn("frames", 1, found) /\ owed' = TRUE
         \/ Stop(told) /\ owed' = FALSE
         \/ Stop(found) /\ owed' = TRUE

\* the only way to lose audio: a frame is found while some is owed
Lock ==
  LET told == <<"datasync">> \o Decoded
  IN  /\ phase = "search"
      /\ \/ GoOn("frames", 1, told) /\ owed' = TRUE
         \/ Stop(told) /\ UNCHANGED owed

Next ==
  \/ HandOver
  \/ Quiet
  \/ End
  \/ StartHeader
  \/ EndHeader
  \/ Frame
  \/ Lose
  \/ Relock
  \/ Lock

Spec == Init /\ [][Next]_vars
=============================================================================
