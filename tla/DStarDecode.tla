----------------------------- MODULE DStarDecode -----------------------------
(***************************************************************************)
(* CDStarDecode (lib/DStarDecode.cc): the bit stream of a receiver in, the *)
(* frames of a transmission out to the slow-data parser and the vocoder,   *)
(* the vocoder's audio out to the caller.                                  *)
(*                                                                         *)
(* A step is the start of a call of Process (it hands over the audio of    *)
(* the call before) or one turn of its loop (one bit).  What a step tells  *)
(* its surroundings, in order, is left in calls: calls of CSlowData        *)
(* ("Add3", "Reset", "SetHeader") and of the vocoder ("DecodeData"), lines *)
(* on the console ("headsync", "datasync", "termsync", "missing",          *)
(* "unexpected") and what the caller gets to hear ("audio", "silence").    *)
(*                                                                         *)
(* voiceframecount is kept modulo SyncPeriod: the code looks at it only    *)
(* so, except when it prints it.                                           *)
(***************************************************************************)
EXTENDS SyncWords, Sequences

CONSTANTS
  HeaderBits,     \* bits of a radio header: 660
  SyncPeriod      \* every so many voice frames one carries a sync: 21

ASSUME DecodeAssumption ==
  /\ HeaderBits \in Nat \ {0}
  /\ SyncPeriod \in Nat \ {0, 1}

\* bits of a voice frame, and of one call of Process: as many as the register
FrameBits == Width

VARIABLES
  sr,                \* the sync register
  readmode,          \* what the bits are taken for
  index,             \* bits of the header or frame at hand
  voiceframecount,   \* number of the frame at hand
  audio_ready,       \* audiobuffer holds a frame the caller has not had
  first_time,        \* no call of Process has been made
  inp,               \* bits of this call taken; FrameBits between calls
  running,           \* no call has returned true, which ends the block
  calls              \* what the last step told the surroundings

vars == <<sr, readmode, index, voiceframecount, audio_ready, first_time, inp,
          running, calls>>

Told == {"Add3", "Reset", "SetHeader", "DecodeData", "headsync", "datasync",
         "termsync", "missing", "unexpected", "audio", "silence", "long silence"}

(***************************************************************************)
(* The numbers of the frames.                                              *)
(***************************************************************************)
\* a plausible slip: the count stands still
NextFrameStuck == voiceframecount
NextFrame == (voiceframecount + 1) % SyncPeriod

\* a plausible slip: the sync just found is not counted as frame 0
AfterSyncZero == 0
\* the number of the frame that follows a sync found in the bit stream
AfterSync == 1

\* this frame should carry a sync
SyncDue == voiceframecount = 0

\* a plausible slip: index is compared before it counts the bit at hand
FrameFullLate == index >= FrameBits
\* the bit at hand is the last of a voice frame
FrameFull == index + 1 >= FrameBits

\* a plausible slip: so for the header
HeaderFullLate == index >= HeaderBits
\* the bit at hand is the last of a header
HeaderFull == index + 1 >= HeaderBits

Init ==
  /\ sr = Zero
  /\ readmode = "nullmode"
  /\ index = 0
  /\ voiceframecount = 0
  /\ audio_ready = FALSE
  /\ first_time = TRUE
  /\ inp = FrameBits
  /\ running = TRUE
  /\ calls = <<>>

\* what the caller gets: the frame decoded last, or silence, the first time
\* enough of it for three frames
Handed == IF audio_ready THEN "audio"
          ELSE IF first_time THEN "long silence" ELSE "silence"

\* a plausible slip: audio_ready is not taken back
CallAudioStays ==
  /\ running
  /\ inp = FrameBits
  /\ inp' = 0
  /\ calls' = <<Handed>>
  /\ first_time' = FALSE
  /\ UNCHANGED <<sr, readmode, index, voiceframecount, audio_ready, running>>

\* a call of Process begins
Call ==
  /\ running
  /\ inp = FrameBits
  /\ inp' = 0
  /\ calls' = <<Handed>>
  /\ audio_ready' = FALSE
  /\ first_time' = FALSE
  /\ UNCHANGED <<sr, readmode, index, voiceframecount, running>>

InCall == running /\ inp < FrameBits

(***************************************************************************)
(* How a turn of the loop ends: Continue skips the test for the terminal   *)
(* sync, Finish makes it, Fail leaves Process with true.                   *)
(***************************************************************************)
Continue(mode, idx, frame, told) ==
  /\ inp' = inp + 1
  /\ readmode' = mode
  /\ index' = idx
  /\ voiceframecount' = frame
  /\ calls' = told
  /\ UNCHANGED <<running, first_time>>

Finish(mode, idx, frame, told) ==
  IF IsTermSync(sr')
  THEN Continue("nullmode", 0, 0, told \o <<"termsync", "Reset">>)
  ELSE Continue(mode, idx, frame, told)

Fail(mode, idx, frame, told) ==
  /\ running' = FALSE
  /\ readmode' = mode
  /\ index' = idx
  /\ voiceframecount' = frame
  /\ calls' = told
  /\ inp' = FrameBits
  /\ UNCHANGED first_time

(***************************************************************************)
(* headmode: the bit goes into the header and nowhere else.                *)
(***************************************************************************)
HeaderBit ==
  /\ InCall
  /\ readmode = "headmode"
  /\ ~HeaderFull
  /\ Continue("headmode", index + 1, voiceframecount, <<>>)
  /\ UNCHANGED <<sr, audio_ready>>

LastHeaderBit ==
  /\ InCall
  /\ readmode = "headmode"
  /\ HeaderFull
  /\ Continue("datamode", 0, 0, <<"SetHeader">>)
  /\ UNCHANGED <<sr, audio_ready>>

(***************************************************************************)
(* datamode: the bit goes into the register, and the last one of a frame   *)
(* makes the register the frame.                                           *)
(***************************************************************************)
FrameBit(in) ==
  /\ InCall
  /\ readmode = "datamode"
  /\ ~FrameFull
  /\ sr' = Pushed(sr, in)
  /\ Finish("datamode", index + 1, voiceframecount, <<>>)
  /\ UNCHANGED audio_ready

LastFrameBit(in) ==
  /\ InCall
  /\ readmode = "datamode"
  /\ FrameFull
  /\ sr' = Pushed(sr, in)

\* a frame with a sync when one is due, or without when none is
FrameInOrder(in, ok) ==
  /\ LastFrameBit(in)
  /\ IsDataSync(sr') <=> SyncDue
  /\ IF ok THEN /\ Finish("datamode", 0, NextFrame, <<"Add3", "DecodeData">>)
                /\ audio_ready' = TRUE
           ELSE /\ Fail("datamode", index + 1, NextFrame, <<"Add3", "DecodeData">>)
                /\ UNCHANGED audio_ready

(***************************************************************************)
(* The sync that was due is missing: back to nullmode, and still in this   *)
(* turn the register is searched for a header sync.                        *)
(***************************************************************************)
MissingSync(in, ok) ==
  LET told == <<"Add3", "missing", "Reset", "DecodeData">>
  IN  /\ LastFrameBit(in)
      /\ SyncDue
      /\ ~IsDataSync(sr')
      /\ IF ok THEN /\ audio_ready' = TRUE
                    /\ IF IsHeadSync(sr')
                       THEN Continue("headmode", 0, 0, told \o <<"headsync">>)
                       ELSE Finish("nullmode", 0, NextFrame, told)
               ELSE /\ UNCHANGED audio_ready
                    /\ Fail("nullmode", index + 1, NextFrame, told)

(***************************************************************************)
(* A sync that is not due: back to nullmode, and still in this turn the    *)
(* search finds that same sync, so that the frame is decoded once more,    *)
(* now as the first of a superframe.  good is how many of the two calls of *)
(* the vocoder succeed.                                                    *)
(***************************************************************************)
UnexpectedSync(in, good) ==
  LET told == <<"Add3", "unexpected", "Reset", "DecodeData">>
  IN  /\ LastFrameBit(in)
      /\ ~SyncDue
      /\ IsDataSync(sr')
      /\ \/ /\ good = 0
            /\ UNCHANGED audio_ready
            /\ Fail("nullmode", index + 1, NextFrame, told)
         \/ /\ good = 1
            /\ audio_ready' = TRUE
            /\ Fail("datamode", 0, NextFrame, told \o <<"datasync", "DecodeData">>)
         \/ /\ good = 2
            /\ audio_ready' = TRUE
            /\ Finish("datamode", 0, AfterSync, told \o <<"datasync", "DecodeData">>)

(***************************************************************************)
(* nullmode: the register is searched for a header sync, then for a data   *)
(* sync, which is where a frame ends.                                      *)
(***************************************************************************)
SearchBit(in) ==
  /\ InCall
  /\ readmode = "nullmode"
  /\ sr' = Pushed(sr, in)
  /\ ~IsHeadSync(sr')
  /\ ~IsDataSync(sr')
  /\ Finish("nullmode", index, voiceframecount, <<>>)
  /\ UNCHANGED audio_ready

HeadFound(in) ==
  /\ InCall
  /\ readmode = "nullmode"
  /\ sr' = Pushed(sr, in)
  /\ IsHeadSync(sr')
  /\ Continue("headmode", 0, 0, <<"headsync">>)
  /\ UNCHANGED audio_ready

DataFound(in, ok) ==
  /\ InCall
  /\ readmode = "nullmode"
  /\ sr' = Pushed(sr, in)
  /\ IsDataSync(sr')
  /\ IF ok THEN /\ Finish("datamode", 0, AfterSync, <<"datasync", "DecodeData">>)
                /\ audio_ready' = TRUE
           ELSE /\ Fail("datamode", 0, voiceframecount, <<"datasync", "DecodeData">>)
                /\ UNCHANGED audio_ready

\* one turn of the loop, with the bit in
Take(in) ==
  \/ HeaderBit
  \/ LastHeaderBit
  \/ FrameBit(in)
  \/ SearchBit(in)
  \/ HeadFound(in)
  \/ \E ok \in BOOLEAN : \/ FrameInOrder(in, ok)
                        \/ MissingSync(in, ok)
                        \/ DataFound(in, ok)
  \/ \E good \in 0 .. 2 : UnexpectedSync(in, good)

Next == Call \/ \E in \in Bit : Take(in)

Spec == Init /\ [][Next]_vars

TypeOK ==
  /\ sr \in Words
  /\ readmode \in {"nullmode", "headmode", "datamode"}
  /\ index \in 0 .. FrameBits \cup 0 .. HeaderBits - 1
  /\ voiceframecount \in 0 .. SyncPeriod - 1
  /\ audio_ready \in BOOLEAN
  /\ first_time \in BOOLEAN
  /\ inp \in 0 .. FrameBits
  /\ running \in BOOLEAN
  /\ calls \in Seq(Told)
=============================================================================
