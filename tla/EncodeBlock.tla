----------------------------- MODULE EncodeBlock -----------------------------
(***************************************************************************)
(* dstar_encode_sb (lib/dstar_encode_sb_impl.cc): each call of             *)
(* general_work has the vocoder encode some pieces of 160 samples, one     *)
(* after the other, to frames of twelve bytes.  CDV3000U::GetData adds the *)
(* slow data: a sync in one frame of SyncPeriod, and null data in the      *)
(* others.  A piece of sound is told by its number.                        *)
(***************************************************************************)
EXTENDS Integers, Sequences

CONSTANTS
  SyncPeriod,   \* 21
  MaxFrames     \* the bound of the model: the sound ends after so many pieces

ASSUME EncodeAssumption ==
  /\ SyncPeriod \in Nat \ {0}
  /\ MaxFrames \in Nat

VARIABLES
  encoder,      \* "unbuilt", "closed" (device_is_closed), "working", "done" (WORK_DONE), "gone"
  framecount,
  taken,        \* pieces of sound consumed
  stream        \* the frames that went downstream: a piece of sound, and slow data

evars == <<encoder, framecount, taken, stream>>

EncoderInit ==
  /\ encoder = "unbuilt"
  /\ framecount = 0
  /\ taken = 0
  /\ stream = <<>>

\* the constructor; opened is what became of OpenDevice
BuildEncoder(opened) ==
  /\ encoder = "unbuilt"
  /\ encoder' = IF opened THEN "working" ELSE "closed"
  /\ UNCHANGED <<framecount, taken, stream>>

\* a plausible slip: the syncs come after SyncPeriod frames, not with the first
SlowDataLate(count) == IF (count + 1) % SyncPeriod = 0 THEN "sync" ELSE "null"
\* what GetData puts behind the nine bytes of the vocoder
SlowData(count) == IF count % SyncPeriod = 0 THEN "sync" ELSE "null"

\* general_work with room for n frames, and all of them encoded
Encode(n) ==
  /\ encoder = "working"
  /\ taken + n <= MaxFrames
  /\ stream' = stream \o [i \in 1 .. n |-> <<taken + i, SlowData(framecount + i - 1)>>]
  /\ framecount' = framecount + n
  /\ taken' = taken + n
  /\ UNCHANGED encoder

\* general_work in which the vocoder fails after count frames of this call:
\* WORK_DONE, nothing is consumed, and the frames of this call are not sent
EncodeFails(count) ==
  /\ encoder = "working"
  /\ taken + count < MaxFrames
  /\ encoder' = "done"
  /\ framecount' = framecount + count
  /\ UNCHANGED <<taken, stream>>

EncodeClosed ==
  /\ encoder = "closed"
  /\ encoder' = "done"
  /\ UNCHANGED <<framecount, taken, stream>>

(***************************************************************************)
(* The stream is the sound from its first piece on, with none left out or  *)
(* repeated, and its syncs are where a receiver that counts from the first *)
(* of them expects the others, however the scheduler cuts it into calls,   *)
(* and whatever the call does in which the vocoder fails                   *)
(* (include/ambe3000/dstar_encode_sb.h: "Starting with the first frame,    *)
(* the slow data bytes are a voice sync flag").                            *)
(***************************************************************************)
StreamFramed ==
  \A k \in DOMAIN stream :
    stream[k] = <<k, IF (k - 1) % SyncPeriod = 0 THEN "sync" ELSE "null">>
=============================================================================
