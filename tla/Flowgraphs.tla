----------------------------- MODULE Flowgraphs -----------------------------
(***************************************************************************)
(* The two blocks in one process, each built, run and destroyed once, in   *)
(* any order: dstar_encode_sb to record a file (examples/audio2data.grc),  *)
(* and dstar_decode_bs to play it afterwards (data2audio.grc), or to       *)
(* decode what a receiver gets (DStarReceiver.grc).  The file begins with  *)
(* a frame, so that each 96 bits of it are one, and Process can be told    *)
(* frame by frame.                                                         *)
(***************************************************************************)
EXTENDS EncodeBlock, DecodeBlock, VocoderDevices

CONSTANT MaxChunks      \* the bound of the model on what the decoder is fed

ASSUME ChunksAssumption == MaxChunks \in Nat

VARIABLES
  source,       \* of the decoder's input: "file" or "air"
  locked,       \* Process is in datamode
  voiceframecount

vars == <<evars, dvars, fvars, source, locked, voiceframecount>>

Init ==
  /\ EncoderInit
  /\ DecoderInit
  /\ DevicesInit
  /\ source \in {"file", "air"}
  /\ locked = FALSE
  /\ voiceframecount = 0

fileVars == <<source, locked, voiceframecount>>

(***************************************************************************)
(* The encoder.  A vocoder that is not there any more fails at once.       *)
(***************************************************************************)
ConstructEncoder ==
  /\ \/ OpenSucceeds("encoder") /\ BuildEncoder(TRUE)
     \/ OpenFails("encoder") /\ BuildEncoder(FALSE)
  /\ UNCHANGED <<dvars, fileVars>>

EncodeWork ==
  /\ \/ \E n \in 1 .. MaxFrames : Has("encoder") /\ Encode(n)
     \/ \E count \in 0 .. MaxFrames : (count > 0 => Has("encoder")) /\ EncodeFails(count)
     \/ EncodeClosed
  /\ UNCHANGED <<dvars, fvars, fileVars>>

DestroyEncoder ==
  /\ encoder \in {"closed", "working", "done"}
  /\ encoder' = "gone"
  /\ CloseDevice("encoder")
  /\ UNCHANGED <<framecount, taken, stream, dvars, fileVars>>

(***************************************************************************)
(* The decoder.                                                            *)
(***************************************************************************)
ConstructDecoder ==
  /\ \/ OpenSucceeds("decoder") /\ BuildDecoder(TRUE)
     \/ OpenFails("decoder") /\ BuildDecoder(FALSE)
  /\ UNCHANGED <<evars, fileVars>>

Recorded == encoder \in {"done", "gone"}

\* Process on the next frame of the file: it decodes a frame that is locked, whether
\* or not its slow data is what its number asks for, and the first that has a sync;
\* the syncs that are not expected lock again
FeedFile ==
  LET frame == stream[Len(chunks) + 1]
      sync == frame[2] = "sync"
      expected == voiceframecount % SyncPeriod = 0
  IN  /\ source = "file"
      /\ Recorded
      /\ Len(chunks) < Len(stream)
      /\ Len(chunks) < MaxChunks
      /\ Arrive(IF locked \/ sync THEN frame[1] ELSE Silence)
      /\ locked' = (IF locked THEN sync \/ ~expected ELSE sync)
      /\ voiceframecount' = IF sync /\ (locked => ~expected) THEN 1
                            ELSE IF locked THEN voiceframecount + 1 ELSE voiceframecount
      /\ UNCHANGED source

\* 96 bits from the air end a voice frame or do not
FeedAir ==
  /\ source = "air"
  /\ Len(chunks) < MaxChunks
  /\ \E sound \in {Silence, Len(chunks) + 1} : Arrive(sound)
  /\ UNCHANGED fileVars

Feed ==
  /\ FeedFile \/ FeedAir
  /\ UNCHANGED <<evars, fvars>>

NeedsVocoder(n) == \E i \in consumed + 1 .. consumed + n : chunks[i] # Silence

DecodeWork ==
  /\ \/ \E n \in 1 .. MaxChunks : Decode(n) /\ (NeedsVocoder(n) => Has("decoder"))
     \/ \E n \in 1 .. MaxChunks : DecodeFails(n) /\ (NeedsVocoder(n - 1) => Has("decoder"))
     \/ DecodeClosed
  /\ UNCHANGED <<evars, fvars, fileVars>>

Sink ==
  /\ \E n \in 1 .. BufferSlots - 1 : Listen(n)
  /\ UNCHANGED <<evars, fvars, fileVars>>

\* ~dstar_decode_bs_impl, and then the destructor of its dstarDecode
DestroyDecoder ==
  /\ decoder \in {"closed", "working", "done"}
  /\ decoder' = "closing"
  /\ CloseDevice("decoder")
  /\ UNCHANGED <<evars, first_time, audio, chunks, consumed, ring, windex, rindex,
                 heard, overrun, fileVars>>

DestroyDStarDecode ==
  /\ decoder = "closing"
  /\ decoder' = "gone"
  /\ CloseDevice("decoder")
  /\ UNCHANGED <<evars, first_time, audio, chunks, consumed, ring, windex, rindex,
                 heard, overrun, fileVars>>

Others ==
  /\ OtherOpens \/ OtherCloses
  /\ UNCHANGED <<evars, dvars, fileVars>>

Next ==
  \/ ConstructEncoder \/ EncodeWork \/ DestroyEncoder
  \/ ConstructDecoder \/ Feed \/ DecodeWork \/ Sink \/ DestroyDecoder \/ DestroyDStarDecode
  \/ Others

Spec == Init /\ [][Next]_vars

States == {"unbuilt", "closed", "working", "done", "closing", "gone"}

TypeOK ==
  /\ encoder \in States
  /\ framecount \in 0 .. MaxFrames
  /\ taken \in 0 .. MaxFrames
  /\ stream \in Seq(Nat \X {"sync", "null"})
  /\ decoder \in States
  /\ first_time \in BOOLEAN
  /\ audio \in Nat
  /\ chunks \in Seq(Nat)
  /\ consumed \in 0 .. Len(chunks)
  /\ ring \in [0 .. BufferSlots - 1 -> Nat]
  /\ windex \in 0 .. BufferSlots - 1
  /\ rindex \in 0 .. BufferSlots - 1
  /\ heard \in Seq(Nat)
  /\ overrun \in BOOLEAN
  /\ owner \in [0 .. Descriptors - 1 -> Block \cup {"other", "free"}]
  /\ fd \in [Block -> {None} \cup 0 .. Descriptors - 1]
  /\ closed \subseteq Block
  /\ stale \in BOOLEAN
  /\ source \in {"file", "air"}
  /\ locked \in BOOLEAN
  /\ voiceframecount \in Nat

-----------------------------------------------------------------------------
(***************************************************************************)
(* A recording is played as it was: the encoder's first frame brings the   *)
(* decoder into step with its count, and every sync after it is where that *)
(* count asks for one, so that the sound comes without a gap, from its     *)
(* first piece on, three slots late (unless the first call overran).       *)
(***************************************************************************)
PlayedBack ==
  source = "file" =>
    /\ chunks # <<>> => locked /\ voiceframecount = Len(chunks)
    /\ ~overrun => \A i \in DOMAIN heard : heard[i] = IF i <= 3 THEN Silence ELSE i - 3

(***************************************************************************)
(* A block whose device was opened keeps it until it is destroyed: the     *)
(* only close that can take it away is one of a number closed before, by   *)
(* the destructors of a block that could not open its device, or by the    *)
(* second one of a decoder.                                                *)
(***************************************************************************)
DeviceStays ==
  \A b \in Block : fd[b] # None /\ b \notin closed /\ ~stale => Has(b)

(***************************************************************************)
(* No path leaves a descriptor open for which there is no block: neither   *)
(* the errors of OpenDevice nor the destructors.                           *)
(***************************************************************************)
NoLeak ==
  \A d \in Open : owner[d] \in Block =>
    fd[owner[d]] = d /\ owner[d] \notin closed
=============================================================================
