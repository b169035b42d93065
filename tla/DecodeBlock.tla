----------------------------- MODULE DecodeBlock -----------------------------
(***************************************************************************)
(* dstar_decode_bs (lib/dstar_decode_bs_impl.cc) and the buffer behind it. *)
(* general_work calls CDStarDecode::Process once for each 96 bits, and     *)
(* Process puts the sound it has into the next slots of 160 samples: one   *)
(* slot, but for the first call of all, which puts silence into three.     *)
(*                                                                         *)
(* The buffer is GNU Radio's: slots in a ring, mapped twice, so that a     *)
(* block may write past its end; the writer is promised the slots that the *)
(* reader has not still to read, but one.  Where the slots written are     *)
(* more than that, the reader's count of them comes out wrong.             *)
(***************************************************************************)
EXTENDS Integers, Sequences

CONSTANT BufferSlots    \* the slots of the ring: about 204

ASSUME RingAssumption == BufferSlots \in Nat /\ BufferSlots > 1

VARIABLES
  decoder,      \* "unbuilt", "closed", "working", "done", "gone", as the encoder
  first_time,
  audio,        \* the sound in audiobuffer; Silence while not audio_ready
  chunks,       \* what each 96 bits of the input bring, all that have come
  consumed,     \* how many of them have been consumed
  ring, windex, rindex,
  heard,        \* what the sink has read
  overrun       \* a call wrote more slots than there was room for

dvars == <<decoder, first_time, audio, chunks, consumed, ring, windex, rindex,
           heard, overrun>>

Silence == 0

DecoderInit ==
  /\ decoder = "unbuilt"
  /\ first_time = TRUE
  /\ audio = Silence
  /\ chunks = <<>>
  /\ consumed = 0
  /\ ring = [slot \in 0 .. BufferSlots - 1 |-> Silence]
  /\ windex = 0
  /\ rindex = 0
  /\ heard = <<>>
  /\ overrun = FALSE

BuildDecoder(opened) ==
  /\ decoder = "unbuilt"
  /\ decoder' = IF opened THEN "working" ELSE "closed"
  /\ UNCHANGED <<first_time, audio, chunks, consumed, ring, windex, rindex, heard, overrun>>

\* 96 bits come, and Process will find this sound in them, or Silence
Arrive(sound) ==
  /\ chunks' = Append(chunks, sound)
  /\ UNCHANGED <<decoder, first_time, audio, consumed, ring, windex, rindex, heard, overrun>>

Available == (windex - rindex) % BufferSlots
Space == BufferSlots - 1 - Available
Waiting == Len(chunks) - consumed

\* the slots that n calls of Process write, one after the other: each hands over
\* what the one before it decoded
Slots(n) ==
  (IF first_time THEN <<Silence, Silence>> ELSE <<>>)
    \o <<audio>> \o SubSeq(chunks, consumed + 1, consumed + n - 1)

\* the ring with these slots written from windex on
Written(slots) ==
  [slot \in DOMAIN ring |->
     LET here == {i \in DOMAIN slots : (windex + i - 1) % BufferSlots = slot}
     IN  IF here = {} THEN ring[slot]
         ELSE slots[CHOOSE i \in here : \A j \in here : j <= i]]

\* a plausible slip: the call returns the room it was given
ReturnedRoom(n) == n
\* what general_work returns: the sum of the output_counts of Process
Returned(n) == Len(Slots(n))

\* a plausible slip: as much is consumed as was written
ConsumedWritten(n) == Returned(n)
\* what consume_each is told, in pieces of 96 bits
Consumed(n) == n

\* general_work with room for n slots
Decode(n) ==
  /\ decoder = "working"
  /\ n <= Space /\ n <= Waiting
  /\ ring' = Written(Slots(n))
  /\ windex' = (windex + Returned(n)) % BufferSlots
  /\ overrun' = (overrun \/ Len(Slots(n)) > Space)
  /\ audio' = chunks[consumed + n]
  /\ first_time' = FALSE
  /\ consumed' = consumed + Consumed(n)
  /\ UNCHANGED <<decoder, chunks, rindex, heard>>

\* Process fails in the last of n calls, where there is a voice frame to decode,
\* after it has handed over what there was
DecodeFails(n) ==
  /\ decoder = "working"
  /\ n <= Space /\ n <= Waiting
  /\ chunks[consumed + n] # Silence
  /\ decoder' = "done"
  /\ ring' = Written(Slots(n))
  /\ overrun' = (overrun \/ Len(Slots(n)) > Space)
  /\ first_time' = FALSE
  /\ audio' = Silence
  /\ UNCHANGED <<chunks, consumed, windex, rindex, heard>>

DecodeClosed ==
  /\ decoder = "closed"
  /\ decoder' = "done"
  /\ UNCHANGED <<first_time, audio, chunks, consumed, ring, windex, rindex, heard, overrun>>

\* the sink reads n of the slots it is told of
Listen(n) ==
  /\ n <= Available
  /\ heard' = heard \o [i \in 1 .. n |-> ring[(rindex + i - 1) % BufferSlots]]
  /\ rindex' = (rindex + n) % BufferSlots
  /\ UNCHANGED <<decoder, first_time, audio, chunks, consumed, ring, windex, overrun>>

(***************************************************************************)
(* What is heard is three slots of silence, and then the sound of all 96   *)
(* bits in their order, each once: the two slots by which the first call   *)
(* exceeds the others remain the only ones, however the scheduler cuts the *)
(* stream into calls, and though slots written before a failure are not    *)
(* returned.  But only if there is room for those two: where the first     *)
(* call is given all there is, the ring takes the samples for fewer.       *)
(***************************************************************************)
HeardInTime ==
  ~overrun => \A i \in DOMAIN heard : heard[i] = IF i <= 3 THEN Silence ELSE chunks[i - 3]
=============================================================================
