----------------------------- MODULE DStarFrames -----------------------------
(***************************************************************************)
(* What the decoder (DStarDecode) makes of the bit stream, told by history *)
(* variables that follow the bits and the decoder's calls, never its       *)
(* index, voiceframecount or audio_ready.                                  *)
(***************************************************************************)
EXTENDS DStarDecode

VARIABLES
  since,     \* bits since the header or frame at hand began
  unsynced,  \* frames since the one with the last sync, up to SyncPeriod
  half       \* bits since the last frame with a first half of slow data

hvars == <<sr, readmode, index, voiceframecount, audio_ready, first_time, inp,
           running, calls, since, unsynced, half>>

tells(name) == \E n \in DOMAIN calls' : calls'[n] = name

\* CSlowData: odd frames bring a first half, the even ones after it the second
FirstHalf == voiceframecount % 2 = 1
SecondHalf == voiceframecount # 0 /\ voiceframecount % 2 = 0

HInit ==
  /\ Init
  /\ since = 0
  /\ unsynced = 0
  /\ half = FrameBits

\* the first frame after a header is one in which a sync is due
Follow ==
  /\ since' = IF \/ readmode' = "nullmode"
                 \/ \E name \in {"headsync", "datasync", "SetHeader", "Add3"} : tells(name)
              THEN 0
              ELSE since + 1
  /\ unsynced' = IF tells("SetHeader") THEN SyncPeriod - 1
                 ELSE IF readmode' # "datamode" \/ tells("datasync") THEN 0
                 ELSE IF tells("Add3") /\ IsDataSync(sr') THEN 0
                 ELSE IF tells("Add3") /\ unsynced < SyncPeriod THEN unsynced + 1
                 ELSE unsynced
  /\ half' = IF tells("Add3") /\ FirstHalf THEN 0
             ELSE IF half < FrameBits THEN half + 1 ELSE half

HNext ==
  /\ Next
  /\ IF inp' = 0 THEN UNCHANGED <<since, unsynced, half>> ELSE Follow

\* the runtime calls Process again as long as bits come in
HSpec == HInit /\ [][HNext]_hvars /\ WF_hvars(HNext)

-----------------------------------------------------------------------------
(***************************************************************************)
(* A header and a voice frame are handed on after exactly as many bits as  *)
(* they have, counted from where the header sync, the header, the frame    *)
(* before or a data sync ended: whatever path led there, no bit is left    *)
(* out and none is used twice (index is reset in seven places of Process). *)
(***************************************************************************)
WholeFrames ==
  [][ /\ tells("SetHeader") => since + 1 = HeaderBits
      /\ tells("Add3") => since + 1 = FrameBits ]_hvars

(***************************************************************************)
(* A frame is complained of exactly when it has a sync at another distance *)
(* than SyncPeriod from the one before, or none at that distance (or right *)
(* after a header): voiceframecount keeps step with the syncs whether the  *)
(* frames follow a header, a sync found in the stream or a lost one.       *)
(***************************************************************************)
SyncJudged ==
  [][ tells("Add3") =>
        ((tells("missing") \/ tells("unexpected")) <=>
           (IsDataSync(sr') # (unsynced = SyncPeriod - 1))) ]_hvars

(***************************************************************************)
(* Slow data comes in two halves; when the parser gets a second half, the  *)
(* first half it keeps is of the voice frame right before, not of one      *)
(* before a lost sync or another transmission.                             *)
(***************************************************************************)
HalvesAdjacent ==
  [][ tells("Add3") /\ SecondHalf => half + 1 = FrameBits ]_hvars

(***************************************************************************)
(* audiobuffer holds one frame.  A frame that ends where its number says   *)
(* never overwrites one the caller has not had: only a sync found in the   *)
(* stream, which moves the frame boundaries, does.                         *)
(***************************************************************************)
NoAudioLost ==
  [][ audio_ready /\ tells("DecodeData") =>
        tells("datasync") /\ ~tells("Add3") ]_hvars

(***************************************************************************)
(* No mode holds the decoder: a header ends, and a decoder that has locked *)
(* on bits that only looked like a sync gives the frames up, unless more   *)
(* such bits keep coming.                                                  *)
(***************************************************************************)
NoModeHolds ==
  /\ readmode = "headmode" ~> readmode = "datamode"
  /\ []<>(readmode # "datamode") \/ []<>IsDataSync(sr) \/ <>~running
=============================================================================
