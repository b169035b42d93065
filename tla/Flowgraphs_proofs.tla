-------------------------- MODULE Flowgraphs_proofs --------------------------
(***************************************************************************)
(* For every period of the syncs, size of the ring, number of descriptors  *)
(* and all bounds: what the encoder sends is the sound, framed; what the   *)
(* decoder makes of a stream is heard in its order, each piece once; and   *)
(* what the blocks open is theirs and is closed.                           *)
(***************************************************************************)
EXTENDS Flowgraphs, SequenceTheorems, WellFoundedInduction, TLAPS

(***************************************************************************)
(* The stream.  As long as the encoder works, it has counted, taken and    *)
(* sent the same number of frames.                                         *)
(***************************************************************************)
Frame == Nat \X {"sync", "null"}

EncoderInv ==
  /\ encoder \in States
  /\ framecount \in 0 .. MaxFrames
  /\ taken \in 0 .. MaxFrames
  /\ stream \in Seq(Frame)
  /\ Len(stream) = taken
  /\ encoder \notin {"done", "gone"} => framecount = taken
  /\ StreamFramed

\* what StreamFramed says of frame k
Framed(k) == <<k, IF (k - 1) % SyncPeriod = 0 THEN "sync" ELSE "null">>

\* the frames of one call
Batch(n) == [i \in 1 .. n |-> <<taken + i, SlowData(framecount + i - 1)>>]

LEMMA SlowDataIsOne == \A count \in Nat : SlowData(count) \in {"sync", "null"}
  BY DEF SlowData

LEMMA BatchType ==
  ASSUME EncoderInv, NEW n \in Nat
  PROVE  /\ Batch(n) \in Seq(Frame)
         /\ Len(Batch(n)) = n
<1>1. \A i \in 1 .. n : <<taken + i, SlowData(framecount + i - 1)>> \in Frame
  <2> SUFFICES ASSUME NEW i \in 1 .. n
               PROVE  taken + i \in Nat /\ SlowData(framecount + i - 1) \in {"sync", "null"}
    BY DEF Frame
  <2>1. taken + i \in Nat /\ framecount + i - 1 \in Nat
    BY DEF EncoderInv
  <2> QED
    BY <2>1, SlowDataIsOne
<1> QED
  BY <1>1 DEF Batch

\* one call appends frames that go on where the stream ends
LEMMA BatchFramed ==
  ASSUME EncoderInv, framecount = taken, NEW n \in Nat, NEW k \in 1 .. taken + n
  PROVE  (stream \o Batch(n))[k] = Framed(k)
<1>1. /\ Len(stream) = taken /\ Len(Batch(n)) = n /\ taken \in Nat
      /\ stream \in Seq(Frame) /\ Batch(n) \in Seq(Frame)
  BY BatchType DEF EncoderInv
<1>2. k \in 1 .. Len(stream) + Len(Batch(n))
  BY <1>1
<1>3. CASE k <= taken
  <2>1. (stream \o Batch(n))[k] = stream[k]
    BY <1>1, <1>2, <1>3, ConcatProperties
  <2>2. k \in DOMAIN stream
    BY <1>1, <1>3
  <2>3. stream[k] = Framed(k)
    BY <2>2 DEF EncoderInv, StreamFramed, Framed
  <2> QED
    BY <2>1, <2>3
<1>4. CASE k > taken
  <2>1. k - taken \in 1 .. n /\ ~(k <= Len(stream))
    BY <1>1, <1>4
  <2>2. (stream \o Batch(n))[k] = Batch(n)[k - taken]
    BY <1>1, <1>2, <2>1, ConcatProperties
  <2>3. Batch(n)[k - taken] = <<taken + (k - taken), SlowData(framecount + (k - taken) - 1)>>
    BY <2>1 DEF Batch
  <2>4. taken + (k - taken) = k /\ framecount + (k - taken) - 1 = k - 1
    BY <1>1
  <2> QED
    BY <2>2, <2>3, <2>4 DEF SlowData, Framed
<1> QED
  BY <1>1, <1>3, <1>4

LEMMA EncodeKeeps ==
  ASSUME EncoderInv, NEW n \in 1 .. MaxFrames, Encode(n)
  PROVE  EncoderInv'
<1>1. n \in Nat /\ stream' = stream \o Batch(n)
  BY EncodeAssumption DEF Encode, Batch
<1>2. Len(stream) = taken /\ framecount = taken /\ taken \in Nat /\ stream \in Seq(Frame)
  BY DEF Encode, EncoderInv
<1>3. /\ stream' \in Seq(Frame)
      /\ Len(stream') = taken + n
  <2>1. Batch(n) \in Seq(Frame) /\ Len(Batch(n)) = n
    BY <1>1, BatchType
  <2> QED
    BY <1>1, <1>2, <2>1, ConcatProperties
<1>4. \A k \in 1 .. taken + n : stream'[k] = Framed(k)
  BY <1>1, <1>2, BatchFramed
<1>5. DOMAIN stream' = 1 .. taken + n
  BY <1>3
<1>6. StreamFramed'
  BY <1>4, <1>5 DEF StreamFramed, Framed
<1>7. framecount' = taken' /\ taken' = taken + n /\ taken' \in 0 .. MaxFrames
  BY <1>1, <1>2, EncodeAssumption DEF Encode
<1>8. encoder' \in States
  BY DEF Encode, EncoderInv
<1> QED
  BY <1>3, <1>6, <1>7, <1>8 DEF EncoderInv

\* the encoder keeps it, and nothing else touches what it is about
LEMMA EncoderInvariant == Spec => []EncoderInv
<1>1. Init => EncoderInv
  <2> SUFFICES ASSUME Init PROVE EncoderInv
    OBVIOUS
  <2>1. framecount \in 0 .. MaxFrames /\ taken \in 0 .. MaxFrames
    BY EncodeAssumption DEF Init, EncoderInit
  <2>2. stream \in Seq(Frame) /\ Len(stream) = taken
    BY DEF Init, EncoderInit
  <2> QED
    BY <2>1, <2>2 DEF Init, EncoderInit, EncoderInv, StreamFramed, States
<1>2. EncoderInv /\ [Next]_vars => EncoderInv'
  <2> SUFFICES ASSUME EncoderInv, [Next]_vars PROVE EncoderInv'
    OBVIOUS
  <2>0. ASSUME UNCHANGED evars PROVE EncoderInv'
    BY <2>0 DEF evars, EncoderInv, StreamFramed
  <2>1. CASE UNCHANGED vars
    BY <2>0, <2>1 DEF vars
  <2>2. CASE ConstructEncoder
    <3>1. UNCHANGED <<framecount, taken, stream>> /\ encoder' \notin {"done", "gone"}
      BY <2>2 DEF ConstructEncoder, BuildEncoder
    <3>2. encoder' \in States
      BY <2>2 DEF ConstructEncoder, BuildEncoder, States
    <3>3. encoder = "unbuilt"
      BY <2>2 DEF ConstructEncoder, BuildEncoder
    <3> QED
      BY <3>1, <3>2, <3>3, Zenon DEF EncoderInv, StreamFramed
  <2>3. CASE EncodeWork
    <3>1. ASSUME NEW n \in 1 .. MaxFrames, Encode(n) PROVE EncoderInv'
      BY <3>1, EncodeKeeps
    <3>2. ASSUME NEW count \in 0 .. MaxFrames, EncodeFails(count) PROVE EncoderInv'
      <4>1. framecount' \in 0 .. MaxFrames
        BY <3>2, EncodeAssumption DEF EncodeFails, EncoderInv
      <4>2. encoder' = "done" /\ UNCHANGED <<taken, stream>>
        BY <3>2 DEF EncodeFails
      <4> QED
        BY <4>1, <4>2 DEF EncoderInv, StreamFramed, States
    <3>3. CASE EncodeClosed
      BY <3>3 DEF EncodeClosed, EncoderInv, StreamFramed, States
    <3> QED
      BY <2>3, <3>1, <3>2, <3>3 DEF EncodeWork
  <2>4. CASE DestroyEncoder
    BY <2>4 DEF DestroyEncoder, EncoderInv, StreamFramed, States
  <2>5. CASE ConstructDecoder
    BY <2>0, <2>5 DEF ConstructDecoder
  <2>6. CASE Feed \/ DecodeWork \/ Sink \/ DestroyDecoder \/ DestroyDStarDecode \/ Others
    BY <2>0, <2>6 DEF Feed, DecodeWork, Sink, DestroyDecoder, DestroyDStarDecode, Others
  <2> QED
    BY <2>1, <2>2, <2>3, <2>4, <2>5, <2>6 DEF Next
<1> QED
  BY <1>1, <1>2, PTL DEF Spec

(***************************************************************************)
(* However the scheduler cuts the sound into calls, and whatever the call  *)
(* does in which the vocoder fails: frame k of the stream has piece k of   *)
(* the sound, and a sync exactly if it is the first of a period.           *)
(***************************************************************************)
THEOREM RecordingFramed == Spec => []StreamFramed
<1>1. EncoderInv => StreamFramed
  BY DEF EncoderInv
<1> QED
  BY <1>1, EncoderInvariant, PTL

(***************************************************************************)
(* The descriptors.                                                        *)
(***************************************************************************)
LEMMA LowestIsFree ==
  ASSUME owner \in [0 .. Descriptors - 1 -> Block \cup {"other", "free"}], Free # {}
  PROVE  Lowest \in Free
<1>1. Free \subseteq Nat
  BY DevicesAssumption DEF Free, Open
<1>2. PICK d \in Free : \A e \in Free : ~ (<<e, d>> \in OpToRel(<, Nat))
  BY <1>1, NatLessThanWellFounded, WFMin
<1>3. \A e \in Free : d <= e
  <2> SUFFICES ASSUME NEW e \in Free, ~ (d <= e) PROVE FALSE
    OBVIOUS
  <2>1. <<e, d>> \in Nat \X Nat /\ e < d
    BY <1>1
  <2>2. <<e, d>> \in OpToRel(<, Nat)
    BY <2>1 DEF OpToRel
  <2> QED
    BY <1>2, <2>2
<1> QED
  BY <1>2, <1>3 DEF Lowest

FdTypeOK ==
  /\ owner \in [0 .. Descriptors - 1 -> Block \cup {"other", "free"}]
  /\ fd \in [Block -> {None} \cup 0 .. Descriptors - 1]
  /\ closed \subseteq Block
  /\ stale \in BOOLEAN

Unbuilt(b) == IF b = "encoder" THEN encoder = "unbuilt" ELSE decoder = "unbuilt"

DeviceInv ==
  /\ FdTypeOK
  /\ \A b \in Block : Unbuilt(b) => fd[b] = None /\ b \notin closed
  /\ NoLeak
  /\ DeviceStays

\* no descriptor is that of a block that has opened none
LEMMA NothingOpenYet ==
  ASSUME DeviceInv, NEW b \in Block, Unbuilt(b), NEW d \in DOMAIN owner
  PROVE  owner[d] # b
BY DEF DeviceInv, FdTypeOK, NoLeak, Open, None, Block

LEMMA OpeningKeeps ==
  ASSUME DeviceInv, NEW b \in Block, Unbuilt(b), OpenSucceeds(b),
         \A c \in Block : Unbuilt(c)' => c # b /\ Unbuilt(c)
  PROVE  DeviceInv'
<1>0. /\ Free # {} /\ fd' = [fd EXCEPT ![b] = Lowest]
      /\ owner' = [owner EXCEPT ![Lowest] = b]
      /\ closed' = closed /\ stale' = stale
  BY DEF OpenSucceeds
<1>1. Lowest \in Free /\ Lowest \in DOMAIN owner /\ owner[Lowest] = "free"
  BY <1>0, LowestIsFree DEF DeviceInv, FdTypeOK, Free, Open
<1>2. FdTypeOK'
  BY <1>0, <1>1 DEF DeviceInv, FdTypeOK
<1>3. \A c \in Block : Unbuilt(c)' => fd'[c] = None /\ c \notin closed'
  BY <1>0 DEF DeviceInv, FdTypeOK
<1>4. b \notin closed
  BY DEF DeviceInv
<1>5. NoLeak'
  <2> SUFFICES ASSUME NEW d \in DOMAIN owner', owner'[d] \in Block
               PROVE  fd'[owner'[d]] = d /\ owner'[d] \notin closed'
    BY DEF NoLeak, Open
  <2>1. CASE d = Lowest
    BY <1>0, <1>1, <1>4, <2>1 DEF DeviceInv, FdTypeOK
  <2>2. CASE d # Lowest
    <3>1. d \in DOMAIN owner /\ owner'[d] = owner[d]
      BY <1>0, <2>2 DEF DeviceInv, FdTypeOK
    <3>2. owner[d] # b
      BY <3>1, NothingOpenYet
    <3>3. d \in Open
      BY <3>1 DEF Open, Block
    <3> QED
      BY <1>0, <3>1, <3>2, <3>3 DEF DeviceInv, NoLeak, FdTypeOK
  <2> QED
    BY <2>1, <2>2
<1>6. DeviceStays'
  <2> SUFFICES ASSUME NEW c \in Block, fd'[c] # None, c \notin closed', ~stale'
               PROVE  fd'[c] \in DOMAIN owner' /\ owner'[fd'[c]] = c
    BY DEF DeviceStays, Has
  <2>1. CASE c = b
    BY <1>0, <1>1, <2>1 DEF DeviceInv, FdTypeOK
  <2>2. CASE c # b
    <3>1. fd'[c] = fd[c]
      BY <1>0, <2>2 DEF DeviceInv, FdTypeOK
    <3>2. fd[c] \in DOMAIN owner /\ owner[fd[c]] = c
      BY <1>0, <3>1 DEF DeviceInv, DeviceStays, Has
    <3>3. fd[c] # Lowest
      BY <1>1, <3>2 DEF Block
    <3> QED
      BY <1>0, <3>1, <3>2, <3>3 DEF DeviceInv, FdTypeOK
  <2> QED
    BY <2>1, <2>2
<1> QED
  BY <1>2, <1>3, <1>5, <1>6 DEF DeviceInv

LEMMA FailedOpeningKeeps ==
  ASSUME DeviceInv, NEW b \in Block, Unbuilt(b), OpenFails(b),
         \A c \in Block : Unbuilt(c)' => c # b /\ Unbuilt(c)
  PROVE  DeviceInv'
<1>1. /\ owner' = owner /\ stale' = stale
      /\ \/ fd' = [fd EXCEPT ![b] = None] /\ closed' = closed
         \/ Free # {} /\ fd' = [fd EXCEPT ![b] = Lowest] /\ closed' = closed \cup {b}
  BY DEF OpenFails, FailedCloses, NumberFailed, None
<1>2. Free # {} => Lowest \in 0 .. Descriptors - 1
  BY LowestIsFree DEF DeviceInv, FdTypeOK, Free, Open
<1>3. FdTypeOK'
  BY <1>1, <1>2 DEF DeviceInv, FdTypeOK
<1>4. \A c \in Block : Unbuilt(c)' => fd'[c] = None /\ c \notin closed'
  BY <1>1 DEF DeviceInv, FdTypeOK
<1>5. NoLeak'
  <2> SUFFICES ASSUME NEW d \in DOMAIN owner, owner[d] \in Block
               PROVE  fd'[owner[d]] = d /\ owner[d] \notin closed'
    BY <1>1 DEF NoLeak, Open
  <2>1. owner[d] # b
    BY NothingOpenYet
  <2>2. d \in Open
    BY DEF Open, Block
  <2> QED
    BY <1>1, <2>1, <2>2 DEF DeviceInv, NoLeak, FdTypeOK
<1>6. DeviceStays'
  <2> SUFFICES ASSUME NEW c \in Block, fd'[c] # None, c \notin closed', ~stale'
               PROVE  fd'[c] \in DOMAIN owner /\ owner[fd'[c]] = c
    BY <1>1 DEF DeviceStays, Has
  <2>1. c # b /\ fd'[c] = fd[c] /\ c \notin closed /\ ~stale
    BY <1>1 DEF DeviceInv, FdTypeOK
  <2> QED
    BY <2>1 DEF DeviceInv, DeviceStays, Has
<1> QED
  BY <1>3, <1>4, <1>5, <1>6 DEF DeviceInv

LEMMA ClosingKeeps ==
  ASSUME DeviceInv, NEW b \in Block, CloseDevice(b),
         \A c \in Block : Unbuilt(c)' => c # b /\ Unbuilt(c)
  PROVE  DeviceInv'
<1>1. /\ owner' = [d \in DOMAIN owner |-> IF d = fd[b] THEN "free" ELSE owner[d]]
      /\ stale' = (stale \/ b \in closed) /\ closed' = closed \cup {b} /\ fd' = fd
  BY DEF CloseDevice
<1>2. FdTypeOK'
  BY <1>1 DEF DeviceInv, FdTypeOK
<1>3. \A c \in Block : Unbuilt(c)' => fd'[c] = None /\ c \notin closed'
  BY <1>1 DEF DeviceInv, FdTypeOK
<1>4. NoLeak'
  <2> SUFFICES ASSUME NEW d \in DOMAIN owner', owner'[d] \in Block
               PROVE  fd[owner'[d]] = d /\ owner'[d] \notin closed'
    BY <1>1 DEF NoLeak, Open
  <2>1. d \in DOMAIN owner /\ d # fd[b] /\ owner'[d] = owner[d]
    BY <1>1 DEF Block
  <2>2. d \in Open
    BY <2>1 DEF Open, Block
  <2>3. fd[owner[d]] = d /\ owner[d] \notin closed
    BY <2>1, <2>2 DEF DeviceInv, NoLeak
  <2> QED
    BY <1>1, <2>1, <2>3
<1>5. DeviceStays'
  <2> SUFFICES ASSUME NEW c \in Block, fd[c] # None, c \notin closed', ~stale'
               PROVE  fd[c] \in DOMAIN owner' /\ owner'[fd[c]] = c
    BY <1>1 DEF DeviceStays, Has
  <2>1. c # b /\ c \notin closed /\ b \notin closed /\ ~stale
    BY <1>1 DEF DeviceInv, FdTypeOK
  <2>2. fd[c] \in DOMAIN owner /\ owner[fd[c]] = c
    BY <2>1 DEF DeviceInv, DeviceStays, Has
  <2>3. fd[c] # fd[b]
    <3>1. CASE fd[b] = None
      BY <3>1
    <3>2. CASE fd[b] # None
      <4>1. owner[fd[b]] = b
        BY <2>1, <3>2 DEF DeviceInv, DeviceStays, Has
      <4> QED
        BY <2>1, <2>2, <4>1
    <3> QED
      BY <3>1, <3>2
  <2> QED
    BY <1>1, <2>2, <2>3
<1> QED
  BY <1>2, <1>3, <1>4, <1>5 DEF DeviceInv

LEMMA OthersKeep ==
  ASSUME DeviceInv, OtherOpens \/ OtherCloses, UNCHANGED <<encoder, decoder>>
  PROVE  DeviceInv'
<1>1. PICK d \in DOMAIN owner :
        /\ owner[d] \in {"free", "other"}
        /\ \E o \in {"free", "other"} : owner' = [owner EXCEPT ![d] = o]
  <2>1. CASE OtherOpens
    <3>1. Lowest \in Free /\ owner' = [owner EXCEPT ![Lowest] = "other"]
      BY <2>1, LowestIsFree DEF OtherOpens, DeviceInv, FdTypeOK
    <3>2. Lowest \in DOMAIN owner /\ owner[Lowest] = "free"
      BY <3>1 DEF Free, Open
    <3> QED
      BY <3>1, <3>2
  <2>2. CASE OtherCloses
    BY <2>2 DEF OtherCloses, Open
  <2> QED
    BY <2>1, <2>2
<1>2. fd' = fd /\ closed' = closed /\ stale' = stale
  BY DEF OtherOpens, OtherCloses
<1>3. PICK o \in {"free", "other"} : owner' = [owner EXCEPT ![d] = o]
  BY <1>1
<1>4. FdTypeOK'
  BY <1>2, <1>3 DEF DeviceInv, FdTypeOK
<1>5. \A c \in Block : Unbuilt(c)' => fd'[c] = None /\ c \notin closed'
  BY <1>2 DEF DeviceInv, Unbuilt
<1>6. \A e \in DOMAIN owner, c \in Block : owner'[e] = c <=> owner[e] = c
  BY <1>1, <1>3 DEF Block, DeviceInv, FdTypeOK
<1>7. DOMAIN owner' = DOMAIN owner
  BY <1>3 DEF DeviceInv, FdTypeOK
<1>8. NoLeak'
  <2> SUFFICES ASSUME NEW e \in DOMAIN owner, owner'[e] \in Block
               PROVE  fd[owner'[e]] = e /\ owner'[e] \notin closed
    BY <1>2, <1>7 DEF NoLeak, Open
  <2>1. owner[e] = owner'[e]
    BY <1>6
  <2>2. e \in Open
    BY <2>1 DEF Open, Block
  <2> QED
    BY <2>1, <2>2 DEF DeviceInv, NoLeak
<1>9. DeviceStays'
  <2> SUFFICES ASSUME NEW c \in Block, fd[c] # None, c \notin closed, ~stale
               PROVE  fd[c] \in DOMAIN owner /\ owner'[fd[c]] = c
    BY <1>2, <1>7 DEF DeviceStays, Has
  <2> QED
    BY <1>6 DEF DeviceInv, DeviceStays, Has
<1> QED
  BY <1>4, <1>5, <1>8, <1>9 DEF DeviceInv
\* the steps that open and close nothing, and build no block
LEMMA UntouchedKeeps ==
  ASSUME DeviceInv, UNCHANGED fvars,
         \A c \in Block : Unbuilt(c)' => Unbuilt(c)
  PROVE  DeviceInv'
BY DEF DeviceInv, FdTypeOK, NoLeak, DeviceStays, Has, Open, fvars

LEMMA DeviceInvariant == Spec => []DeviceInv
<1>1. Init => DeviceInv
  <2> SUFFICES ASSUME Init PROVE DeviceInv
    OBVIOUS
  <2>1. /\ owner = [d \in 0 .. Descriptors - 1 |-> "free"]
        /\ fd = [b \in Block |-> None] /\ closed = {} /\ stale = FALSE
    BY DEF Init, DevicesInit
  <2>2. FdTypeOK
    BY <2>1 DEF FdTypeOK
  <2>3. Open = {}
    BY <2>1 DEF Open
  <2> QED
    BY <2>1, <2>2, <2>3 DEF DeviceInv, NoLeak, DeviceStays
<1>2. DeviceInv /\ [Next]_vars => DeviceInv'
  <2> SUFFICES ASSUME DeviceInv, [Next]_vars PROVE DeviceInv'
    OBVIOUS
  <2>1. CASE UNCHANGED vars
    BY <2>1, UntouchedKeeps DEF vars, evars, dvars, Unbuilt
  <2>2. CASE ConstructEncoder
    <3>1. Unbuilt("encoder") /\ \A c \in Block : Unbuilt(c)' => c # "encoder" /\ Unbuilt(c)
      BY <2>2 DEF ConstructEncoder, BuildEncoder, Unbuilt, dvars, Block
    <3>2. OpenSucceeds("encoder") \/ OpenFails("encoder")
      BY <2>2 DEF ConstructEncoder
    <3> QED
      BY <3>1, <3>2, OpeningKeeps, FailedOpeningKeeps DEF Block
  <2>3. CASE ConstructDecoder
    <3>1. Unbuilt("decoder") /\ \A c \in Block : Unbuilt(c)' => c # "decoder" /\ Unbuilt(c)
      BY <2>3 DEF ConstructDecoder, BuildDecoder, Unbuilt, evars, Block
    <3>2. OpenSucceeds("decoder") \/ OpenFails("decoder")
      BY <2>3 DEF ConstructDecoder
    <3> QED
      BY <3>1, <3>2, OpeningKeeps, FailedOpeningKeeps DEF Block
  <2>4. CASE DestroyEncoder
    <3>1. \A c \in Block : Unbuilt(c)' => c # "encoder" /\ Unbuilt(c)
      BY <2>4 DEF DestroyEncoder, Unbuilt, dvars, Block
    <3> QED
      BY <2>4, <3>1, ClosingKeeps DEF DestroyEncoder, Block
  <2>5. CASE DestroyDecoder \/ DestroyDStarDecode
    <3>1. \A c \in Block : Unbuilt(c)' => c # "decoder" /\ Unbuilt(c)
      BY <2>5 DEF DestroyDecoder, DestroyDStarDecode, Unbuilt, evars, Block
    <3> QED
      BY <2>5, <3>1, ClosingKeeps DEF DestroyDecoder, DestroyDStarDecode, Block
  <2>6. CASE Others
    BY <2>6, OthersKeep DEF Others, evars, dvars
  <2>7. CASE EncodeWork
    <3>1. encoder' = "unbuilt" => encoder = "unbuilt"
      BY <2>7 DEF EncodeWork, Encode, EncodeFails, EncodeClosed
    <3> QED
      BY <2>7, <3>1, UntouchedKeeps DEF EncodeWork, Unbuilt, dvars
  <2>8. CASE Feed \/ DecodeWork \/ Sink
    <3>1. decoder' = "unbuilt" => decoder = "unbuilt"
      BY <2>8 DEF Feed, FeedFile, FeedAir, Arrive, DecodeWork, Decode, DecodeFails,
                  DecodeClosed, Sink, Listen
    <3>2. UNCHANGED evars /\ UNCHANGED fvars
      BY <2>8 DEF Feed, DecodeWork, Sink
    <3> QED
      BY <3>1, <3>2, UntouchedKeeps DEF Unbuilt, evars
  <2> QED
    BY <2>1, <2>2, <2>3, <2>4, <2>5, <2>6, <2>7, <2>8 DEF Next
<1> QED
  BY <1>1, <1>2, PTL DEF Spec

(***************************************************************************)
(* However the openings, the failures and the destructors of the two       *)
(* blocks mix with the files of others, no descriptor of a vocoder stays   *)
(* open without its block.                                                 *)
(***************************************************************************)
THEOREM NoDescriptorLeaks == Spec => []NoLeak
<1>1. DeviceInv => NoLeak
  BY DEF DeviceInv
<1> QED
  BY <1>1, DeviceInvariant, PTL

(***************************************************************************)
(* And no block loses its descriptor to a close, as long as none has       *)
(* closed a number for the second time.                                    *)
(***************************************************************************)
THEOREM DeviceKept == Spec => []DeviceStays
<1>1. DeviceInv => DeviceStays
  BY DEF DeviceInv
<1> QED
  BY <1>1, DeviceInvariant, PTL

(***************************************************************************)
(* Counting in a ring of m places.                                         *)
(***************************************************************************)
LEMMA Remainder ==
  ASSUME NEW a \in Int, NEW m \in Nat \ {0}
  PROVE  /\ a % m \in 0 .. m - 1
         /\ a \div m \in Int
         /\ a = m * (a \div m) + (a % m)
OBVIOUS

LEMMA RemainderIsOne ==
  ASSUME NEW m \in Nat \ {0}, NEW q \in Int, NEW r \in Int,
         NEW b \in 0 .. m - 1, NEW c \in 0 .. m - 1,
         m * q + b = m * r + c
  PROVE  b = c
<1>1. CASE q = r
  BY <1>1
<1>2. CASE q > r
  <2>1. m * (q - r) >= m
    BY <1>2
  <2>2. m * (q - r) = m * q - m * r
    OBVIOUS
  <2> QED
    BY <2>1, <2>2
<1>3. CASE q < r
  <2>1. m * (r - q) >= m
    BY <1>3
  <2>2. m * (r - q) = m * r - m * q
    OBVIOUS
  <2> QED
    BY <2>1, <2>2
<1> QED
  BY <1>1, <1>2, <1>3

\* places that are apart by less than a round, and not at all, differ
LEMMA PlacesDiffer ==
  ASSUME NEW m \in Nat \ {0}, NEW a \in Nat, NEW d \in 1 .. m - 1
  PROVE  (a + d) % m # a % m
<1>1. PICK q \in Int : a = m * q + (a % m)
  <2>1. a \in Int
    OBVIOUS
  <2> QED
    BY <2>1, Remainder, Zenon
<1>2. PICK r \in Int : a + d = m * r + ((a + d) % m)
  <2>1. a + d \in Int
    OBVIOUS
  <2> QED
    BY <2>1, Remainder, Zenon
<1>3. SUFFICES ASSUME (a + d) % m = a % m PROVE FALSE
  OBVIOUS
<1>4. m * r = m * q + d
  <2> DEFINE x == a % m
             y == m * q
             z == m * r
  <2>1. x \in Int /\ y \in Int /\ z \in Int /\ a = y + x /\ a + d = z + x
    BY <1>1, <1>2, <1>3
  <2> HIDE DEF x, y, z
  <2>2. z = y + d
    BY <2>1
  <2> QED
    BY <2>2 DEF y, z
<1>5. d \in 0 .. m - 1 /\ 0 \in 0 .. m - 1
  OBVIOUS
<1>6. m * r + 0 = m * q + d
  BY <1>4
<1> QED
  BY <1>5, <1>6, RemainderIsOne

\* it does not matter when the round is taken off
LEMMA PlaceAfter ==
  ASSUME NEW m \in Nat \ {0}, NEW a \in Nat, NEW c \in Nat
  PROVE  ((a % m) + c) % m = (a + c) % m
<1>1. PICK q \in Int : a = m * q + (a % m)
  <2>1. a \in Int
    OBVIOUS
  <2> QED
    BY <2>1, Remainder, Zenon
<1>2. a % m \in Nat /\ (a % m) + c \in Int
  OBVIOUS
<1>3. PICK r \in Int : (a % m) + c = m * r + (((a % m) + c) % m)
  <2>1. (a % m) + c \in Int
    BY <1>2
  <2> QED
    BY <2>1, Remainder, Zenon
<1>4. PICK s \in Int : a + c = m * s + ((a + c) % m)
  <2>1. a + c \in Int
    OBVIOUS
  <2> QED
    BY <2>1, Remainder, Zenon
<1>5. /\ ((a % m) + c) % m \in 0 .. m - 1
      /\ (a + c) % m \in 0 .. m - 1
  BY <1>2, Remainder
<1>6. m * (q + r) + (((a % m) + c) % m) = m * s + ((a + c) % m)
  <2> DEFINE x == a % m
             y == m * q
             z == m * r
             w == ((a % m) + c) % m
             u == m * s
             v == (a + c) % m
  <2>1. /\ x \in Int /\ y \in Int /\ z \in Int /\ w \in Int /\ u \in Int /\ v \in Int
        /\ a = y + x /\ x + c = z + w /\ a + c = u + v
    BY <1>1, <1>2, <1>3, <1>4, <1>5
  <2>2. m * (q + r) = y + z
    OBVIOUS
  <2> HIDE DEF x, y, z, w, u, v
  <2>3. y + z + w = u + v
    BY <2>1
  <2> QED
    BY <2>2, <2>3 DEF w, u, v
<1>7. q + r \in Int
  OBVIOUS
<1> QED
  BY <1>5, <1>6, <1>7, RemainderIsOne

\* how far one place is behind another
LEMMA PlacesApart ==
  ASSUME NEW m \in Nat \ {0}, NEW a \in Nat, NEW d \in 0 .. m - 1
  PROVE  (((a + d) % m) - (a % m)) % m = d
<1> DEFINE x == a % m
           y == (a + d) % m
<1>1. PICK q \in Int : a = m * q + x
  <2>1. a \in Int
    OBVIOUS
  <2> QED
    BY <2>1, Remainder, Zenon DEF x, y
<1>2. PICK r \in Int : a + d = m * r + y
  <2>1. a + d \in Int
    OBVIOUS
  <2> QED
    BY <2>1, Remainder, Zenon DEF x, y
<1>3. x \in Nat /\ y \in Nat /\ y - x \in Int
  OBVIOUS
<1>4. PICK s \in Int : y - x = m * s + ((y - x) % m)
  BY <1>3, Remainder
<1>5. (y - x) % m \in 0 .. m - 1
  BY <1>3, Remainder
<1>6. m * (s + (r - q)) + ((y - x) % m) = m * 0 + d
  <2> DEFINE z == (y - x) % m
             u == m * q
             v == m * r
             w == m * s
  <2>1. /\ u \in Int /\ v \in Int /\ w \in Int /\ z \in Int
        /\ a = u + x /\ a + d = v + y /\ y - x = w + z
    BY <1>1, <1>2, <1>4, <1>5
  <2>2. m * (s + (r - q)) = w + (v - u)
    OBVIOUS
  <2>3. m * 0 = 0
    OBVIOUS
  <2> HIDE DEF x, y, z, u, v, w
  <2>4. w + (v - u) + z = d
    BY <1>3, <2>1
  <2> QED
    BY <2>2, <2>3, <2>4 DEF z
<1>7. s + (r - q) \in Int /\ 0 \in Int
  OBVIOUS
<1> HIDE DEF x, y
<1>8. (y - x) % m = d
  BY <1>5, <1>6, <1>7, RemainderIsOne
<1> QED
  BY <1>8 DEF x, y

(***************************************************************************)
(* The ring.  Piece(i) is what the sink has to hear in the i-th place, and *)
(* Sent is how many slots the decoder has returned.                        *)
(***************************************************************************)
Piece(i) == IF i <= 3 THEN Silence ELSE chunks[i - 3]
Sent == IF consumed = 0 THEN 0 ELSE consumed + 2
Fresh == decoder \in {"unbuilt", "closed", "working"}

RingTypeOK ==
  /\ decoder \in States
  /\ first_time \in BOOLEAN
  /\ audio \in Nat
  /\ chunks \in Seq(Nat)
  /\ consumed \in 0 .. Len(chunks)
  /\ ring \in [0 .. BufferSlots - 1 -> Nat]
  /\ windex \in 0 .. BufferSlots - 1
  /\ rindex \in 0 .. BufferSlots - 1
  /\ heard \in Seq(Nat)
  /\ overrun \in BOOLEAN

\* what the next call hands over
AudioOK ==
  Fresh => /\ first_time <=> consumed = 0
           /\ audio = IF consumed = 0 THEN Silence ELSE chunks[consumed]

\* the slots that the sink has still to hear are those between the indices
RingOK ==
  ~overrun =>
    /\ windex = Sent % BufferSlots
    /\ rindex = Len(heard) % BufferSlots
    /\ Sent - Len(heard) \in 0 .. BufferSlots - 1
    /\ \A i \in Len(heard) + 1 .. Sent : ring[(i - 1) % BufferSlots] = Piece(i)
    /\ \A i \in DOMAIN heard : heard[i] = Piece(i)

RingInv == RingTypeOK /\ AudioOK /\ RingOK

LEMMA SlotsInRing == BufferSlots \in Nat \ {0} /\ BufferSlots > 1
BY RingAssumption

\* the slots of a call are the pieces after those sent
LEMMA SlotsArePieces ==
  ASSUME RingTypeOK, AudioOK, decoder = "working", NEW n \in Nat \ {0}, n <= Waiting
  PROVE  /\ Slots(n) \in Seq(Nat)
         /\ Len(Slots(n)) = IF consumed = 0 THEN n + 2 ELSE n
         /\ \A i \in 1 .. Len(Slots(n)) : Slots(n)[i] = Piece(Sent + i)
<1> DEFINE first == IF first_time THEN <<Silence, Silence>> ELSE <<>>
           rest == SubSeq(chunks, consumed + 1, consumed + n - 1)
           lead == first \o <<audio>>
<1>1. /\ consumed \in Nat /\ Len(chunks) \in Nat /\ consumed + n <= Len(chunks)
      /\ audio \in Nat /\ chunks \in Seq(Nat)
  BY DEF RingTypeOK, Waiting
<1>2. /\ first_time <=> consumed = 0
      /\ audio = IF consumed = 0 THEN Silence ELSE chunks[consumed]
  BY DEF AudioOK, Fresh
<1>3. /\ rest \in Seq(Nat)
      /\ Len(rest) = n - 1
      /\ \A i \in 1 .. n - 1 : rest[i] = chunks[consumed + i]
  <2>1. \A i \in consumed + 1 .. consumed + n - 1 : chunks[i] \in Nat
    BY <1>1
  <2>2. /\ rest \in Seq(Nat)
        /\ Len(rest) = IF consumed + 1 <= consumed + n - 1
                       THEN (consumed + n - 1) - (consumed + 1) + 1 ELSE 0
        /\ \A i \in 1 .. (consumed + n - 1) - (consumed + 1) + 1 :
             rest[i] = chunks[(consumed + 1) + i - 1]
    <3>1. consumed + 1 \in Int /\ consumed + n - 1 \in Int
      BY <1>1
    <3> QED
      BY <2>1, <3>1, SubSeqProperties
  <2>3. /\ (consumed + n - 1) - (consumed + 1) + 1 = n - 1
        /\ \A i \in 1 .. n - 1 : (consumed + 1) + i - 1 = consumed + i
        /\ consumed + 1 <= consumed + n - 1 <=> n - 1 # 0
    BY <1>1
  <2> HIDE DEF rest
  <2> QED
    BY <1>1, <2>2, <2>3
<1>4. Slots(n) = lead \o rest
  BY DEF Slots
<1>5. CASE consumed = 0
  <2>1. /\ first \in Seq(Nat) /\ Len(first) = 2
        /\ first[1] = Silence /\ first[2] = Silence
    <3>1. first = <<Silence, Silence>>
      BY <1>2, <1>5, Zenon
    <3> HIDE DEF first
    <3> QED
      BY <3>1 DEF Silence
  <2>2. <<audio>> \in Seq(Nat) /\ Len(<<audio>>) = 1 /\ <<audio>>[1] = Silence
    BY <1>1, <1>2, <1>5
  <2> HIDE DEF first
  <2>3. /\ lead \in Seq(Nat)
        /\ Len(lead) = 2 + 1
        /\ \A i \in 1 .. 2 + 1 : lead[i] = IF i <= 2 THEN first[i] ELSE <<audio>>[i - 2]
    <3>1. /\ first \o <<audio>> \in Seq(Nat)
          /\ Len(first \o <<audio>>) = Len(first) + Len(<<audio>>)
          /\ \A i \in 1 .. Len(first) + Len(<<audio>>) :
               (first \o <<audio>>)[i] = IF i <= Len(first) THEN first[i]
                                         ELSE <<audio>>[i - Len(first)]
      BY <2>1, <2>2, ConcatProperties, Zenon
    <3> QED
      BY <2>1, <2>2, <3>1, Zenon
  <2> HIDE DEF lead
  <2>4. lead \in Seq(Nat) /\ Len(lead) = 3 /\ \A i \in 1 .. 3 : lead[i] = Silence
    <3>1. /\ lead[1] = first[1]
          /\ lead[2] = first[2]
          /\ lead[3] = <<audio>>[1]
      BY <2>3
    <3> QED
      BY <2>1, <2>2, <2>3, <3>1
  <2> HIDE DEF lead, rest
  <2>5. /\ Slots(n) \in Seq(Nat)
        /\ Len(Slots(n)) = n + 2
        /\ \A i \in 1 .. n + 2 : Slots(n)[i] = IF i <= 3 THEN lead[i] ELSE rest[i - 3]
    <3>1. /\ lead \o rest \in Seq(Nat)
          /\ Len(lead \o rest) = Len(lead) + Len(rest)
          /\ \A i \in 1 .. Len(lead) + Len(rest) :
               (lead \o rest)[i] = IF i <= Len(lead) THEN lead[i] ELSE rest[i - Len(lead)]
      BY <1>3, <2>4, ConcatProperties, Zenon
    <3>2. 3 + (n - 1) = n + 2
      OBVIOUS
    <3> QED
      BY <1>3, <1>4, <2>4, <3>1, <3>2, Zenon
  <2>6. ASSUME NEW i \in 1 .. n + 2 PROVE Slots(n)[i] = Piece(Sent + i)
    <3>1. Sent + i = i
      BY <1>5 DEF Sent
    <3>2. CASE i <= 3
      BY <2>4, <2>5, <3>1, <3>2 DEF Piece
    <3>3. CASE i > 3
      <4>1. i - 3 \in 1 .. n - 1 /\ consumed + (i - 3) = i - 3
        BY <1>5, <3>3
      <4>2. rest[i - 3] = chunks[i - 3]
        BY <1>3, <4>1
      <4> QED
        BY <2>5, <3>1, <3>3, <4>2 DEF Piece
    <3> QED
      BY <3>2, <3>3
  <2> QED
    BY <1>5, <2>5, <2>6
<1>6. CASE consumed # 0
  <2>1. lead = <<audio>>
    <3>1. first = <<>>
      BY <1>2, <1>6, Zenon
    <3>2. <<>> \o <<audio>> = <<audio>>
      OBVIOUS
    <3> QED
      BY <3>1, <3>2, Zenon
  <2> HIDE DEF lead
  <2>2. lead \in Seq(Nat) /\ Len(lead) = 1 /\ lead[1] = chunks[consumed]
    BY <1>1, <1>2, <1>6, <2>1
  <2> HIDE DEF lead, rest
  <2>3. /\ Slots(n) \in Seq(Nat)
        /\ Len(Slots(n)) = n
        /\ \A i \in 1 .. n : Slots(n)[i] = IF i <= 1 THEN lead[i] ELSE rest[i - 1]
    <3>1. /\ lead \o rest \in Seq(Nat)
          /\ Len(lead \o rest) = Len(lead) + Len(rest)
          /\ \A i \in 1 .. Len(lead) + Len(rest) :
               (lead \o rest)[i] = IF i <= Len(lead) THEN lead[i] ELSE rest[i - Len(lead)]
      BY <1>3, <2>2, ConcatProperties, Zenon
    <3>2. 1 + (n - 1) = n
      OBVIOUS
    <3> QED
      BY <1>3, <1>4, <2>2, <3>1, <3>2, Zenon
  <2>4. ASSUME NEW i \in 1 .. n PROVE Slots(n)[i] = Piece(Sent + i)
    <3>1. Piece(Sent + i) = chunks[consumed + (i - 1)]
      <4>1. (Sent + i) - 3 = consumed + (i - 1) /\ ~(Sent + i <= 3)
        BY <1>1, <1>6 DEF Sent
      <4> QED
        BY <4>1, Zenon DEF Piece
    <3>2. CASE i = 1
      <4>1. consumed + (i - 1) = consumed
        BY <1>1, <3>2
      <4>2. Slots(n)[i] = lead[1]
        BY <2>3, <3>2
      <4> QED
        BY <2>2, <3>1, <4>1, <4>2, Zenon
    <3>3. CASE i # 1
      <4>1. i - 1 \in 1 .. n - 1 /\ ~(i <= 1)
        BY <3>3
      <4>2. Slots(n)[i] = rest[i - 1] /\ rest[i - 1] = chunks[consumed + (i - 1)]
        BY <1>3, <2>3, <4>1, Zenon
      <4> QED
        BY <3>1, <4>2, Zenon
    <3> QED
      BY <3>2, <3>3
  <2> QED
    BY <1>6, <2>3, <2>4
<1> QED
  BY <1>5, <1>6

\* of some writes to a slot one is the last
LEMMA LastWrite ==
  ASSUME NEW k \in Nat, NEW S \in SUBSET (1 .. k), S # {}
  PROVE  \E i \in S : \A j \in S : j <= i
<1> DEFINE T == {k - i : i \in S}
<1>1. T \subseteq Nat /\ T # {}
  <2>1. \A i \in S : k - i \in Nat
    OBVIOUS
  <2>2. PICK i \in S : TRUE
    OBVIOUS
  <2>3. k - i \in T
    BY <2>2
  <2> QED
    BY <2>1, <2>3
<1>2. PICK t \in T : \A u \in T : ~ (<<u, t>> \in OpToRel(<, Nat))
  BY <1>1, NatLessThanWellFounded, WFMin
<1>3. PICK i \in S : t = k - i
  OBVIOUS
<1>4. ASSUME NEW j \in S PROVE j <= i
  <2>1. k - j \in T /\ t \in Nat /\ k - j \in Nat
    BY <1>1
  <2>2. ~ (k - j < t)
    <3>1. <<k - j, t>> \in OpToRel(<, Nat) <=> k - j < t
      BY <2>1 DEF OpToRel
    <3> HIDE DEF T
    <3> QED
      BY <1>2, <2>1, <3>1
  <2> QED
    BY <1>3, <2>1, <2>2
<1> QED
  BY <1>4

LEMMA WrittenType ==
  ASSUME RingTypeOK, NEW slots \in Seq(Nat)
  PROVE  Written(slots) \in [0 .. BufferSlots - 1 -> Nat]
<1>1. DOMAIN ring = 0 .. BufferSlots - 1 /\ \A slot \in DOMAIN ring : ring[slot] \in Nat
  BY DEF RingTypeOK
<1>2. ASSUME NEW slot \in DOMAIN ring PROVE Written(slots)[slot] \in Nat
  <2> DEFINE here == {i \in DOMAIN slots : (windex + i - 1) % BufferSlots = slot}
             last == CHOOSE i \in here : \A j \in here : j <= i
  <2>1. Written(slots)[slot] = IF here = {} THEN ring[slot] ELSE slots[last]
    BY DEF Written
  <2>2. CASE here = {}
    BY <1>1, <2>1, <2>2
  <2>3. CASE here # {}
    <3>1. Len(slots) \in Nat /\ here \in SUBSET (1 .. Len(slots))
      OBVIOUS
    <3> HIDE DEF here
    <3>2. \E i \in here : \A j \in here : j <= i
      BY <2>3, <3>1, LastWrite
    <3>3. last \in here
      BY <3>2
    <3>4. slots[last] \in Nat
      <4> HIDE DEF last
      <4>1. last \in 1 .. Len(slots)
        BY <3>1, <3>3
      <4> QED
        BY <4>1, ElementOfSeq
    <3> QED
      BY <2>1, <2>3, <3>4
  <2> QED
    BY <2>2, <2>3
<1> QED
  BY <1>1, <1>2 DEF Written

\* the place that is written i-th
LEMMA PlaceWritten ==
  ASSUME RingTypeOK, windex = Sent % BufferSlots, NEW i \in Nat \ {0}
  PROVE  (windex + i - 1) % BufferSlots = (Sent + (i - 1)) % BufferSlots
<1>1. Sent \in Nat /\ i - 1 \in Nat
  BY DEF Sent, RingTypeOK
<1>2. ((Sent % BufferSlots) + (i - 1)) % BufferSlots = (Sent + (i - 1)) % BufferSlots
  BY <1>1, SlotsInRing, PlaceAfter, Zenon
<1> QED
  BY <1>2

\* what a call writes lies where it should
LEMMA SlotsWritten ==
  ASSUME RingTypeOK, windex = Sent % BufferSlots, NEW slots \in Seq(Nat),
         Len(slots) < BufferSlots, NEW i \in 1 .. Len(slots)
  PROVE  Written(slots)[(Sent + (i - 1)) % BufferSlots] = slots[i]
<1> DEFINE slot == (Sent + (i - 1)) % BufferSlots
           here == {j \in DOMAIN slots : (windex + j - 1) % BufferSlots = slot}
<1>1. Sent \in Nat /\ Len(slots) \in Nat /\ DOMAIN slots = 1 .. Len(slots)
  BY DEF Sent, RingTypeOK
<1>2. slot \in DOMAIN ring
  BY <1>1, SlotsInRing DEF RingTypeOK
<1>3. i \in here
  BY <1>1, PlaceWritten
<1>4. ASSUME NEW j \in here PROVE j = i
  <2>1. j \in 1 .. Len(slots) /\ (Sent + (j - 1)) % BufferSlots = slot
    BY <1>1, PlaceWritten
  <2> HIDE DEF here, slot
  <2>2. CASE j > i
    <3>1. /\ j - i \in 1 .. BufferSlots - 1
          /\ Sent + (i - 1) \in Nat
          /\ (Sent + (i - 1)) + (j - i) = Sent + (j - 1)
      BY <1>1, <2>1, <2>2, SlotsInRing
    <3>2. ((Sent + (i - 1)) + (j - i)) % BufferSlots # slot
      BY <3>1, SlotsInRing, PlacesDiffer, Zenon DEF slot
    <3> QED
      BY <2>1, <3>1, <3>2, Zenon
  <2>3. CASE j < i
    <3>1. /\ i - j \in 1 .. BufferSlots - 1
          /\ Sent + (j - 1) \in Nat
          /\ (Sent + (j - 1)) + (i - j) = Sent + (i - 1)
      BY <1>1, <2>1, <2>3, SlotsInRing
    <3>2. ((Sent + (j - 1)) + (i - j)) % BufferSlots # (Sent + (j - 1)) % BufferSlots
      BY <3>1, SlotsInRing, PlacesDiffer, Zenon
    <3> QED
      BY <2>1, <3>1, <3>2, Zenon DEF slot
  <2> QED
    BY <2>1, <2>2, <2>3
<1>5. Written(slots)[slot] =
        IF here = {} THEN ring[slot] ELSE slots[CHOOSE k \in here : \A j \in here : j <= k]
  BY <1>2 DEF Written
<1> HIDE DEF slot, here
<1>6. here = {i}
  BY <1>3, <1>4
<1>7. (CHOOSE k \in here : \A j \in here : j <= k) = i
  <2>1. \E k \in here : \A j \in here : j <= k
    BY <1>6
  <2> QED
    BY <1>6, <2>1
<1> QED
  BY <1>5, <1>6, <1>7 DEF slot

\* and the slots that were sent before, less than a round ago, stay
LEMMA SlotsLeft ==
  ASSUME RingTypeOK, windex = Sent % BufferSlots, NEW slots \in Seq(Nat),
         NEW i \in 1 .. Sent, (Sent - i) + Len(slots) + 1 <= BufferSlots
  PROVE  Written(slots)[(i - 1) % BufferSlots] = ring[(i - 1) % BufferSlots]
<1> DEFINE slot == (i - 1) % BufferSlots
           here == {j \in DOMAIN slots : (windex + j - 1) % BufferSlots = slot}
<1>1. Sent \in Nat /\ Len(slots) \in Nat /\ DOMAIN slots = 1 .. Len(slots)
  BY DEF Sent, RingTypeOK
<1>2. slot \in DOMAIN ring
  BY <1>1, SlotsInRing DEF RingTypeOK
<1>3. ASSUME NEW j \in here PROVE FALSE
  <2>1. j \in 1 .. Len(slots) /\ (Sent + (j - 1)) % BufferSlots = slot
    BY <1>1, PlaceWritten
  <2> HIDE DEF here, slot
  <2>2. /\ (Sent + (j - 1)) - (i - 1) \in 1 .. BufferSlots - 1
        /\ i - 1 \in Nat
        /\ (i - 1) + ((Sent + (j - 1)) - (i - 1)) = Sent + (j - 1)
    BY <1>1, <2>1, SlotsInRing
  <2>3. ((i - 1) + ((Sent + (j - 1)) - (i - 1))) % BufferSlots # slot
    BY <2>2, SlotsInRing, PlacesDiffer, Zenon DEF slot
  <2> QED
    BY <2>1, <2>2, <2>3, Zenon
<1>4. here = {}
  BY <1>3
<1> QED
  BY <1>2, <1>4 DEF Written

-----------------------------------------------------------------------------
\* how many slots the sink may read
LEMMA AvailableSlots ==
  ASSUME RingTypeOK, RingOK, ~overrun
  PROVE  /\ Available = Sent - Len(heard)
         /\ Sent \in Nat /\ Len(heard) \in Nat
         /\ Len(heard) <= Sent
<1>1. Sent \in Nat /\ Len(heard) \in Nat /\ Sent - Len(heard) \in 0 .. BufferSlots - 1
  BY DEF Sent, RingTypeOK, RingOK
<1>2. Len(heard) + (Sent - Len(heard)) = Sent /\ Len(heard) <= Sent
  BY <1>1, SlotsInRing
<1>3. (((Len(heard) + (Sent - Len(heard))) % BufferSlots) - (Len(heard) % BufferSlots)) % BufferSlots
        = Sent - Len(heard)
  BY <1>1, SlotsInRing, PlacesApart, Zenon
<1>4. windex = Sent % BufferSlots /\ rindex = Len(heard) % BufferSlots
  BY DEF RingOK
<1> QED
  BY <1>1, <1>2, <1>3, <1>4, Zenon DEF Available

\* a call that fits leaves in the ring what the sink has still to hear, and
\* puts behind it what it writes
LEMMA RingAfterCall ==
  ASSUME RingInv, decoder = "working", NEW n \in Nat \ {0}, n <= Waiting,
         ~overrun, Len(Slots(n)) <= Space
  PROVE  /\ \A i \in Len(heard) + 1 .. Sent + Len(Slots(n)) :
              Written(Slots(n))[(i - 1) % BufferSlots] = Piece(i)
         /\ Sent + Len(Slots(n)) - Len(heard) \in 0 .. BufferSlots - 1
<1>1. /\ Slots(n) \in Seq(Nat)
      /\ \A i \in 1 .. Len(Slots(n)) : Slots(n)[i] = Piece(Sent + i)
  BY SlotsArePieces DEF RingInv
<1>2. /\ Space = BufferSlots - 1 - (Sent - Len(heard))
      /\ Sent \in Nat /\ Len(heard) \in Nat /\ Len(heard) <= Sent
  BY AvailableSlots DEF RingInv, Space
<1> DEFINE k == Len(Slots(n))
<1>3. k \in Nat
  BY <1>1
<1>4. windex = Sent % BufferSlots
  BY DEF RingInv, RingOK
<1> HIDE DEF k
<1>5. k <= Space
  BY DEF k
<1>6. Sent + k - Len(heard) \in 0 .. BufferSlots - 1
  BY <1>2, <1>3, <1>5, SlotsInRing
<1>7. ASSUME NEW i \in Len(heard) + 1 .. Sent + k
      PROVE  Written(Slots(n))[(i - 1) % BufferSlots] = Piece(i)
  <2>1. CASE i <= Sent
    <3>1. i \in 1 .. Sent /\ (Sent - i) + k + 1 <= BufferSlots
      BY <1>2, <1>3, <1>5, <2>1, SlotsInRing
    <3>2. Written(Slots(n))[(i - 1) % BufferSlots] = ring[(i - 1) % BufferSlots]
      BY <1>1, <1>4, <3>1, SlotsLeft DEF RingInv, k
    <3>3. i \in Len(heard) + 1 .. Sent
      BY <1>2, <1>3, <2>1
    <3> QED
      BY <3>2, <3>3 DEF RingInv, RingOK
  <2>2. CASE i > Sent
    <3>1. i - Sent \in 1 .. k /\ Sent + ((i - Sent) - 1) = i - 1 /\ Sent + (i - Sent) = i
      BY <1>2, <1>3, <2>2
    <3>2. k < BufferSlots
      BY <1>2, <1>3, <1>5, SlotsInRing
    <3>3. Written(Slots(n))[(Sent + ((i - Sent) - 1)) % BufferSlots] = Slots(n)[i - Sent]
      BY <1>1, <1>4, <3>1, <3>2, SlotsWritten DEF RingInv, k
    <3>4. Slots(n)[i - Sent] = Piece(Sent + (i - Sent))
      BY <1>1, <3>1 DEF k
    <3> QED
      BY <3>1, <3>3, <3>4, Zenon
  <2> QED
    BY <1>2, <1>3, <2>1, <2>2
<1> QED
  BY <1>6, <1>7 DEF k

LEMMA DecodeKeeps ==
  ASSUME RingInv, NEW n \in 1 .. MaxChunks, Decode(n)
  PROVE  RingInv'
<1> DEFINE k == Len(Slots(n))
<1>0. /\ n \in Nat \ {0} /\ decoder = "working" /\ n <= Waiting
      /\ decoder' = decoder /\ chunks' = chunks /\ rindex' = rindex /\ heard' = heard
      /\ ring' = Written(Slots(n)) /\ windex' = (windex + k) % BufferSlots
      /\ overrun' = (overrun \/ k > Space)
      /\ audio' = chunks[consumed + n] /\ first_time' = FALSE /\ consumed' = consumed + n
  BY ChunksAssumption DEF Decode, Returned, Consumed
<1>1. /\ consumed \in Nat /\ consumed + n \in 1 .. Len(chunks) /\ chunks \in Seq(Nat)
      /\ consumed' \in 1 .. Len(chunks)
  BY <1>0 DEF RingInv, RingTypeOK, Waiting
<1>2. /\ Slots(n) \in Seq(Nat)
      /\ k = IF consumed = 0 THEN n + 2 ELSE n
  BY <1>0, SlotsArePieces DEF RingInv
<1>3. k \in Nat /\ Sent' = Sent + k /\ Sent \in Nat
  BY <1>0, <1>1, <1>2 DEF Sent
<1>4. \A i \in Int : Piece(i)' = Piece(i)
  BY <1>0 DEF Piece
<1> HIDE DEF k
<1>5. RingTypeOK'
  <2>1. ring' \in [0 .. BufferSlots - 1 -> Nat]
    BY <1>0, <1>2, WrittenType DEF RingInv
  <2>2. windex' \in 0 .. BufferSlots - 1
    <3>1. windex + k \in Nat
      BY <1>3 DEF RingInv, RingTypeOK
    <3> QED
      BY <1>0, <3>1, SlotsInRing
  <2>3. audio' \in Nat
    BY <1>0, <1>1, ElementOfSeq
  <2>4. consumed' \in 0 .. Len(chunks')
    BY <1>0, <1>1
  <2>5. /\ decoder' \in States /\ chunks' \in Seq(Nat) /\ heard' \in Seq(Nat)
        /\ rindex' \in 0 .. BufferSlots - 1
    BY <1>0, Zenon DEF RingInv, RingTypeOK
  <2>6. first_time' \in BOOLEAN /\ overrun' \in BOOLEAN
    BY <1>0, Zenon DEF RingInv, RingTypeOK
  <2> QED
    BY <2>1, <2>2, <2>3, <2>4, <2>5, <2>6, Zenon DEF RingTypeOK
<1>6. AudioOK'
  <2>1. consumed' # 0 /\ first_time' = FALSE /\ audio' = chunks'[consumed']
    BY <1>0, <1>1
  <2> QED
    BY <2>1 DEF AudioOK
<1>7. RingOK'
  <2> SUFFICES ASSUME ~overrun' PROVE RingOK'
    BY DEF RingOK
  <2>1. ~overrun /\ k <= Space
    <3>1. ~overrun /\ ~(k > Space)
      BY <1>0, Zenon
    <3>2. Space \in Int
      BY AvailableSlots, SlotsInRing, <3>1 DEF RingInv, Space
    <3> QED
      BY <1>3, <3>1, <3>2
  <2>2. windex' = Sent' % BufferSlots
    <3>1. windex = Sent % BufferSlots
      BY <2>1 DEF RingInv, RingOK
    <3>2. ((Sent % BufferSlots) + k) % BufferSlots = (Sent + k) % BufferSlots
      BY <1>3, SlotsInRing, PlaceAfter, Zenon
    <3> QED
      BY <1>0, <1>3, <3>1, <3>2, Zenon
  <2>3. rindex' = Len(heard') % BufferSlots
    BY <1>0, <2>1 DEF RingInv, RingOK
  <2>4. /\ \A i \in Len(heard) + 1 .. Sent + k :
             Written(Slots(n))[(i - 1) % BufferSlots] = Piece(i)
        /\ Sent + k - Len(heard) \in 0 .. BufferSlots - 1
    BY <1>0, <2>1, RingAfterCall DEF k
  <2>5. \A i \in Len(heard') + 1 .. Sent' : ring'[(i - 1) % BufferSlots] = Piece(i)'
    <3>1. \A i \in Len(heard) + 1 .. Sent + k : i \in Int
      BY <1>3
    <3> QED
      BY <1>0, <1>3, <1>4, <2>4, <3>1, Zenon
  <2>6. Sent' - Len(heard') \in 0 .. BufferSlots - 1
    <3>1. Len(heard) \in Nat
      BY DEF RingInv, RingTypeOK
    <3> QED
      BY <1>0, <1>3, <2>4, <3>1
  <2>7. \A i \in DOMAIN heard' : heard'[i] = Piece(i)'
    <3>1. \A i \in DOMAIN heard : i \in Int /\ heard[i] = Piece(i)
      BY <2>1 DEF RingInv, RingOK, RingTypeOK
    <3> QED
      BY <1>0, <1>4, <3>1, Zenon
  <2> QED
    BY <2>2, <2>3, <2>5, <2>6, <2>7 DEF RingOK
<1> QED
  BY <1>5, <1>6, <1>7 DEF RingInv

\* a call that fails writes behind what has been sent, and returns none of it
LEMMA DecodeFailsKeeps ==
  ASSUME RingInv, NEW n \in 1 .. MaxChunks, DecodeFails(n)
  PROVE  RingInv'
<1> DEFINE k == Len(Slots(n))
<1>0. /\ n \in Nat \ {0} /\ decoder = "working" /\ n <= Waiting /\ decoder' = "done"
      /\ ring' = Written(Slots(n)) /\ overrun' = (overrun \/ k > Space)
      /\ first_time' = FALSE /\ audio' = Silence
      /\ chunks' = chunks /\ consumed' = consumed /\ windex' = windex
      /\ rindex' = rindex /\ heard' = heard
  BY ChunksAssumption DEF DecodeFails
<1>1. Slots(n) \in Seq(Nat) /\ k \in Nat /\ Sent' = Sent /\ Sent \in Nat
  BY <1>0, SlotsArePieces DEF Sent, RingInv, RingTypeOK
<1>2. \A i : Piece(i)' = Piece(i)
  BY <1>0 DEF Piece
<1> HIDE DEF k
<1>3. RingTypeOK'
  <2>1. ring' \in [0 .. BufferSlots - 1 -> Nat]
    BY <1>0, <1>1, WrittenType DEF RingInv
  <2>2. audio' \in Nat /\ decoder' \in States
    BY <1>0 DEF Silence, States
  <2>3. first_time' \in BOOLEAN /\ overrun' \in BOOLEAN
    BY <1>0, Zenon DEF RingInv, RingTypeOK
  <2> QED
    BY <1>0, <2>1, <2>2, <2>3, Zenon DEF RingInv, RingTypeOK
<1>4. AudioOK'
  BY <1>0 DEF AudioOK, Fresh
<1>5. RingOK'
  <2> SUFFICES ASSUME ~overrun' PROVE RingOK'
    BY DEF RingOK
  <2>1. ~overrun /\ k <= Space
    <3>1. ~overrun /\ ~(k > Space)
      BY <1>0, Zenon
    <3>2. Space \in Int
      BY AvailableSlots, SlotsInRing, <3>1 DEF RingInv, Space
    <3> QED
      BY <1>1, <3>1, <3>2
  <2>2. \A i \in Len(heard) + 1 .. Sent + k :
          Written(Slots(n))[(i - 1) % BufferSlots] = Piece(i)
    BY <1>0, <2>1, RingAfterCall DEF k
  <2>3. \A i \in Len(heard) + 1 .. Sent : i \in Len(heard) + 1 .. Sent + k
    BY <1>1 DEF RingInv, RingTypeOK
  <2>4. \A i \in Len(heard') + 1 .. Sent' : ring'[(i - 1) % BufferSlots] = Piece(i)'
    BY <1>0, <1>1, <1>2, <2>2, <2>3, Zenon
  <2> QED
    BY <1>0, <1>1, <1>2, <2>1, <2>4, Zenon DEF RingInv, RingOK
<1> QED
  BY <1>3, <1>4, <1>5 DEF RingInv

\* the sink goes on where it stopped
LEMMA ListenKeeps ==
  ASSUME RingInv, NEW n \in 1 .. BufferSlots - 1, Listen(n)
  PROVE  RingInv'
<1> DEFINE read == [i \in 1 .. n |-> ring[(rindex + i - 1) % BufferSlots]]
<1>0. /\ n <= Available /\ heard' = heard \o read
      /\ rindex' = (rindex + n) % BufferSlots
      /\ decoder' = decoder /\ first_time' = first_time /\ audio' = audio
      /\ chunks' = chunks /\ consumed' = consumed /\ ring' = ring /\ windex' = windex
      /\ overrun' = overrun
  BY DEF Listen
<1>1. n \in Nat \ {0} /\ rindex \in Nat /\ heard \in Seq(Nat) /\ Len(heard) \in Nat
  BY SlotsInRing DEF RingInv, RingTypeOK
<1>2. read \in Seq(Nat) /\ Len(read) = n
  <2>1. \A i \in 1 .. n : (rindex + i - 1) % BufferSlots \in 0 .. BufferSlots - 1
    BY <1>1, SlotsInRing
  <2>2. \A i \in 1 .. n : ring[(rindex + i - 1) % BufferSlots] \in Nat
    BY <2>1, Zenon DEF RingInv, RingTypeOK
  <2> QED
    BY <1>1, <2>2
<1>3. /\ heard' \in Seq(Nat)
      /\ Len(heard') = Len(heard) + n
      /\ \A i \in 1 .. Len(heard) + n :
           heard'[i] = IF i <= Len(heard) THEN heard[i] ELSE read[i - Len(heard)]
  <2> HIDE DEF read
  <2>1. /\ heard \o read \in Seq(Nat)
        /\ Len(heard \o read) = Len(heard) + Len(read)
        /\ \A i \in 1 .. Len(heard) + Len(read) :
             (heard \o read)[i] = IF i <= Len(heard) THEN heard[i] ELSE read[i - Len(heard)]
    BY <1>1, <1>2, ConcatProperties, Zenon
  <2> QED
    BY <1>0, <1>2, <2>1, Zenon
<1>4. Sent' = Sent /\ \A i : Piece(i)' = Piece(i)
  BY <1>0, Zenon DEF Sent, Piece
<1>5. RingTypeOK'
  <2>1. rindex' \in 0 .. BufferSlots - 1
    <3>1. rindex + n \in Nat
      BY <1>1
    <3> QED
      BY <1>0, <3>1, SlotsInRing
  <2> QED
    BY <1>0, <1>3, <2>1, Zenon DEF RingInv, RingTypeOK
<1>6. AudioOK'
  BY <1>0, Zenon DEF RingInv, AudioOK, Fresh
<1>7. RingOK'
  <2> SUFFICES ASSUME ~overrun PROVE RingOK'
    BY <1>0 DEF RingOK
  <2>1. n <= Sent - Len(heard) /\ Sent \in Nat /\ Sent - Len(heard) \in 0 .. BufferSlots - 1
    BY <1>0, AvailableSlots, Zenon DEF RingInv, RingOK
  <2>2. rindex' = Len(heard') % BufferSlots
    <3>1. rindex = Len(heard) % BufferSlots
      BY DEF RingInv, RingOK
    <3>2. ((Len(heard) % BufferSlots) + n) % BufferSlots = (Len(heard) + n) % BufferSlots
      BY <1>1, SlotsInRing, PlaceAfter, Zenon
    <3> QED
      BY <1>0, <1>3, <3>1, <3>2, Zenon
  <2>3. Sent - (Len(heard) + n) \in 0 .. BufferSlots - 1
    BY <1>1, <2>1, SlotsInRing
  <2>4. \A i \in (Len(heard) + n) + 1 .. Sent : i \in Len(heard) + 1 .. Sent
    BY <1>1, <2>1
  <2>5. ASSUME NEW i \in 1 .. Len(heard) + n PROVE heard'[i] = Piece(i)
    <3>1. CASE i <= Len(heard)
      <4>1. i \in DOMAIN heard
        BY <1>1, <3>1
      <4> QED
        BY <1>3, <3>1, <4>1 DEF RingInv, RingOK
    <3>2. CASE i > Len(heard)
      <4>1. /\ i - Len(heard) \in 1 .. n
            /\ i \in Len(heard) + 1 .. Sent
            /\ (i - Len(heard)) - 1 \in Nat
            /\ Len(heard) + ((i - Len(heard)) - 1) = i - 1
            /\ ~(i <= Len(heard))
        BY <1>1, <2>1, <3>2
      <4>2. heard'[i] = read[i - Len(heard)]
        BY <1>3, <4>1
      <4>3. read[i - Len(heard)] = ring[(rindex + (i - Len(heard)) - 1) % BufferSlots]
        BY <4>1
      <4>4. rindex + (i - Len(heard)) - 1 = rindex + ((i - Len(heard)) - 1)
        BY <1>1, <4>1
      <4>5. ((Len(heard) % BufferSlots) + ((i - Len(heard)) - 1)) % BufferSlots
              = (Len(heard) + ((i - Len(heard)) - 1)) % BufferSlots
        BY <1>1, <4>1, SlotsInRing, PlaceAfter, Zenon
      <4>6. rindex = Len(heard) % BufferSlots
        BY DEF RingInv, RingOK
      <4>7. ring[(i - 1) % BufferSlots] = Piece(i)
        BY <4>1, Zenon DEF RingInv, RingOK
      <4> HIDE DEF read
      <4> QED
        BY <4>1, <4>2, <4>3, <4>4, <4>5, <4>6, <4>7, Zenon
    <3> QED
      BY <1>1, <3>1, <3>2
  <2>6. DOMAIN heard' = 1 .. Len(heard) + n
    BY <1>3
  <2>7. \A i \in Len(heard') + 1 .. Sent' : ring'[(i - 1) % BufferSlots] = Piece(i)'
    <3>1. \A i \in (Len(heard) + n) + 1 .. Sent : ring[(i - 1) % BufferSlots] = Piece(i)
      BY <2>4, Zenon DEF RingInv, RingOK
    <3> QED
      BY <1>0, <1>3, <1>4, <3>1, Zenon
  <2>8. windex' = Sent' % BufferSlots
    BY <1>0, <1>4, Zenon DEF RingInv, RingOK
  <2>9. \A i \in DOMAIN heard' : heard'[i] = Piece(i)'
    BY <1>4, <2>5, <2>6, Zenon
  <2>10. Sent' - Len(heard') \in 0 .. BufferSlots - 1
    BY <1>3, <1>4, <2>3, Zenon
  <2> QED
    BY <2>2, <2>7, <2>8, <2>9, <2>10, Zenon DEF RingOK
<1> QED
  BY <1>5, <1>6, <1>7 DEF RingInv

\* what arrives comes behind everything that has been sent
LEMMA ArriveKeeps ==
  ASSUME RingInv, NEW sound \in Nat, Arrive(sound)
  PROVE  RingInv'
<1>0. /\ chunks' = Append(chunks, sound)
      /\ decoder' = decoder /\ first_time' = first_time /\ audio' = audio
      /\ consumed' = consumed /\ ring' = ring /\ windex' = windex /\ rindex' = rindex
      /\ heard' = heard /\ overrun' = overrun
  BY DEF Arrive
<1>1. chunks \in Seq(Nat) /\ consumed \in 0 .. Len(chunks) /\ Len(heard) \in Nat
  BY DEF RingInv, RingTypeOK
<1>2. /\ chunks' \in Seq(Nat)
      /\ Len(chunks') = Len(chunks) + 1
      /\ \A i \in 1 .. Len(chunks) : chunks'[i] = chunks[i]
  BY <1>0, <1>1, AppendProperties
<1>3. Sent' = Sent /\ Sent \in Nat
  BY <1>0, <1>1 DEF Sent
<1>4. \A i \in 1 .. Sent : Piece(i)' = Piece(i)
  <2> SUFFICES ASSUME NEW i \in 1 .. Sent, ~(i <= 3) PROVE chunks'[i - 3] = chunks[i - 3]
    BY <1>0 DEF Piece
  <2>1. i - 3 \in 1 .. Len(chunks)
    BY <1>1 DEF Sent
  <2> QED
    BY <1>2, <2>1
<1>5. RingTypeOK'
  <2>1. consumed' \in 0 .. Len(chunks')
    BY <1>0, <1>1, <1>2
  <2> QED
    BY <1>0, <1>2, <2>1, Zenon DEF RingInv, RingTypeOK
<1>6. AudioOK'
  <2>1. consumed # 0 => chunks'[consumed] = chunks[consumed]
    BY <1>1, <1>2
  <2> QED
    BY <1>0, <2>1, Zenon DEF RingInv, AudioOK, Fresh
<1>7. RingOK'
  <2> SUFFICES ASSUME ~overrun PROVE RingOK'
    BY <1>0 DEF RingOK
  <2>1. Len(heard) <= Sent /\ DOMAIN heard = 1 .. Len(heard)
    BY <1>1, AvailableSlots DEF RingInv, RingTypeOK
  <2>2. /\ \A i \in Len(heard) + 1 .. Sent : i \in 1 .. Sent
        /\ \A i \in DOMAIN heard : i \in 1 .. Sent
    BY <1>1, <1>3, <2>1
  <2> QED
    BY <1>0, <1>3, <1>4, <2>2, Zenon DEF RingInv, RingOK
<1> QED
  BY <1>5, <1>6, <1>7 DEF RingInv

\* the decoder is built and destroyed around all this
LEMMA RingLeft ==
  ASSUME RingInv, decoder' \in States, decoder' \in {"working", "closed"} => Fresh,
         decoder' # "unbuilt" \/ decoder = "unbuilt",
         UNCHANGED <<first_time, audio, chunks, consumed, ring, windex, rindex, heard, overrun>>
  PROVE  RingInv'
<1>1. Fresh' => Fresh
  BY DEF Fresh
<1>2. RingTypeOK'
  BY DEF RingInv, RingTypeOK
<1>3. AudioOK'
  BY <1>1 DEF RingInv, AudioOK
<1>4. Sent' = Sent /\ \A i : Piece(i)' = Piece(i)
  BY Zenon DEF Sent, Piece
<1>5. RingOK'
  BY <1>4, Zenon DEF RingInv, RingOK
<1> QED
  BY <1>2, <1>3, <1>5 DEF RingInv

(***************************************************************************)
(* The file.  Its first frame has a sync, and Process has counted as many  *)
(* frames as it was fed ever since.                                        *)
(***************************************************************************)
FileOK ==
  /\ source \in {"file", "air"}
  /\ locked \in BOOLEAN
  /\ voiceframecount \in Nat
  /\ source = "file" =>
       /\ \A i \in DOMAIN chunks : chunks[i] = i
       /\ chunks = <<>> => ~locked /\ voiceframecount = 0
       /\ chunks # <<>> => locked /\ voiceframecount = Len(chunks)

\* the next frame of the file goes on with the count
LEMMA FeedFileKeeps ==
  ASSUME EncoderInv, RingInv, FileOK, FeedFile
  PROVE  RingInv' /\ FileOK'
<1> DEFINE k == Len(chunks) + 1
           frame == stream[k]
           sync == frame[2] = "sync"
           expected == voiceframecount % SyncPeriod = 0
           sound == IF locked \/ sync THEN frame[1] ELSE Silence
<1>0. /\ source = "file" /\ k - 1 < Len(stream) /\ source' = source
      /\ Arrive(sound)
      /\ locked' = (IF locked THEN sync \/ ~expected ELSE sync)
      /\ voiceframecount' = IF sync /\ (locked => ~expected) THEN 1
                            ELSE IF locked THEN voiceframecount + 1 ELSE voiceframecount
  BY DEF FeedFile, RingInv, RingTypeOK
<1>1. chunks \in Seq(Nat) /\ Len(chunks) \in Nat /\ stream \in Seq(Frame)
  BY DEF RingInv, RingTypeOK, EncoderInv
<1>2. k \in 1 .. Len(stream) /\ k \in DOMAIN stream /\ k - 1 = Len(chunks) /\ k \in Nat
  BY <1>0, <1>1
<1>3. frame = Framed(k)
  BY <1>2, Zenon DEF EncoderInv, StreamFramed, Framed
<1>4. frame[1] = k /\ (sync <=> (k - 1) % SyncPeriod = 0)
  <2> HIDE DEF k, frame
  <2>1. frame[1] = k /\ frame[2] = IF (k - 1) % SyncPeriod = 0 THEN "sync" ELSE "null"
    BY <1>3 DEF Framed
  <2> QED
    BY <2>1
<1>5. SyncPeriod \in Nat \ {0}
  BY EncodeAssumption
<1>6. /\ chunks = <<>> => ~locked /\ voiceframecount = 0 /\ Len(chunks) = 0
      /\ chunks # <<>> => locked /\ voiceframecount = Len(chunks) /\ Len(chunks) # 0
  BY <1>0, <1>1 DEF FileOK
<1> HIDE DEF k, frame, sync, expected
<1>7. /\ locked \/ sync
      /\ locked' = TRUE
      /\ voiceframecount' = k
  <2>1. CASE chunks = <<>>
    <3>1. k - 1 = 0 /\ k = 1
      BY <1>2, <1>6, <2>1
    <3>2. (k - 1) % SyncPeriod = 0
      BY <1>5, <3>1
    <3>3. sync
      BY <1>4, <3>2
    <3> QED
      BY <1>0, <1>6, <2>1, <3>1, <3>3, Zenon
  <2>2. CASE chunks # <<>>
    <3>1. voiceframecount = k - 1 /\ locked
      BY <1>2, <1>6, <2>2
    <3>2. expected <=> sync
      BY <1>4, <3>1 DEF expected
    <3>3. voiceframecount + 1 = k
      BY <1>2, <3>1
    <3> QED
      BY <1>0, <3>1, <3>2, <3>3, Zenon
  <2> QED
    BY <2>1, <2>2
<1>8. sound = k
  BY <1>4, <1>7, Zenon
<1> HIDE DEF sound
<1>9. RingInv'
  BY <1>0, <1>2, <1>8, ArriveKeeps, Zenon
<1>10. /\ chunks' \in Seq(Nat) /\ Len(chunks') = k
       /\ \A i \in 1 .. Len(chunks) : chunks'[i] = chunks[i]
       /\ chunks'[k] = k
  <2>1. chunks' = Append(chunks, k)
    BY <1>0, <1>8, Zenon DEF Arrive
  <2> QED
    BY <1>1, <1>2, <2>1, AppendProperties DEF k
<1>11. \A i \in DOMAIN chunks' : chunks'[i] = i
  <2> SUFFICES ASSUME NEW i \in 1 .. k PROVE chunks'[i] = i
    BY <1>10
  <2>1. CASE i = k
    BY <1>10, <2>1
  <2>2. CASE i # k
    <3>1. i \in 1 .. Len(chunks) /\ i \in DOMAIN chunks
      BY <1>1, <1>2, <2>2
    <3> QED
      BY <1>0, <1>10, <3>1 DEF FileOK
  <2> QED
    BY <2>1, <2>2
<1>12. chunks' # <<>>
  BY <1>2, <1>10
<1> QED
  BY <1>0, <1>2, <1>7, <1>9, <1>10, <1>11, <1>12, Zenon DEF FileOK

LEMMA FlowInvariant == Spec => [](RingInv /\ FileOK)
<1>1. Init => RingInv /\ FileOK
  <2> SUFFICES ASSUME Init PROVE RingInv /\ FileOK
    OBVIOUS
  <2>0. /\ decoder = "unbuilt" /\ first_time = TRUE /\ audio = Silence /\ chunks = <<>>
        /\ consumed = 0 /\ ring = [slot \in 0 .. BufferSlots - 1 |-> Silence]
        /\ windex = 0 /\ rindex = 0 /\ heard = <<>> /\ overrun = FALSE
        /\ source \in {"file", "air"} /\ locked = FALSE /\ voiceframecount = 0
    BY DEF Init, DecoderInit
  <2>1. /\ chunks \in Seq(Nat) /\ heard \in Seq(Nat) /\ Len(chunks) = 0 /\ Len(heard) = 0
        /\ DOMAIN chunks = {} /\ DOMAIN heard = {}
    BY <2>0
  <2>2. Silence \in Nat /\ 0 \in 0 .. BufferSlots - 1 /\ 0 % BufferSlots = 0
    BY SlotsInRing DEF Silence
  <2>3. RingTypeOK
    <3>1. consumed \in 0 .. Len(chunks)
      BY <2>0, <2>1
    <3>2. ring \in [0 .. BufferSlots - 1 -> Nat]
      BY <2>0, <2>2
    <3> QED
      BY <2>0, <2>1, <2>2, <3>1, <3>2, Zenon DEF RingTypeOK, States
  <2>4. AudioOK
    BY <2>0 DEF AudioOK
  <2>5. RingOK
    <3>1. Sent = 0
      BY <2>0 DEF Sent
    <3>2. 0 - 0 = 0 /\ 0 + 1 .. 0 = {}
      OBVIOUS
    <3>3. Sent - Len(heard) = 0 /\ Len(heard) + 1 .. Sent = {}
      BY <2>1, <3>1, <3>2, Zenon
    <3> QED
      BY <2>0, <2>1, <2>2, <3>1, <3>3 DEF RingOK
  <2> QED
    BY <2>0, <2>1, <2>3, <2>4, <2>5 DEF RingInv, FileOK
<1>2. EncoderInv /\ RingInv /\ FileOK /\ [Next]_vars => (RingInv /\ FileOK)'
  <2> SUFFICES ASSUME EncoderInv, RingInv, FileOK, [Next]_vars PROVE RingInv' /\ FileOK'
    OBVIOUS
  <2>1. ASSUME UNCHANGED dvars, UNCHANGED fileVars PROVE RingInv' /\ FileOK'
    <3>1. RingInv'
      BY <2>1, RingLeft DEF dvars, RingInv, RingTypeOK, Fresh
    <3> QED
      BY <2>1, <3>1 DEF dvars, fileVars, FileOK
  <2>2. CASE UNCHANGED vars
    BY <2>1, <2>2 DEF vars, fileVars
  <2>3. CASE ConstructEncoder \/ EncodeWork \/ DestroyEncoder \/ Others
    BY <2>1, <2>3 DEF ConstructEncoder, EncodeWork, DestroyEncoder, Others, fileVars
  <2>4. CASE ConstructDecoder
    <3>1. /\ decoder = "unbuilt" /\ decoder' \in {"working", "closed"}
          /\ UNCHANGED <<first_time, audio, chunks, consumed, ring, windex, rindex, heard, overrun>>
      BY <2>4 DEF ConstructDecoder, BuildDecoder
    <3>2. RingInv'
      BY <3>1, RingLeft DEF Fresh, States
    <3>3. FileOK'
      BY <2>4, <3>1 DEF ConstructDecoder, fileVars, FileOK
    <3> QED
      BY <3>2, <3>3
  <2>5. CASE Feed
    <3>1. CASE FeedFile
      BY <3>1, FeedFileKeeps
    <3>2. CASE FeedAir
      <4>1. PICK sound \in {Silence, Len(chunks) + 1} : Arrive(sound)
        BY <3>2, Zenon DEF FeedAir
      <4>2. sound \in Nat
        BY DEF Silence, RingInv, RingTypeOK
      <4>3. RingInv'
        BY <4>1, <4>2, ArriveKeeps
      <4>4. source = "air" /\ UNCHANGED <<source, locked, voiceframecount>>
        BY <3>2 DEF FeedAir, fileVars
      <4> QED
        BY <4>3, <4>4 DEF FileOK
    <3> QED
      BY <2>5, <3>1, <3>2 DEF Feed
  <2>6. CASE DecodeWork
    <3>1. chunks' = chunks /\ UNCHANGED <<source, locked, voiceframecount>>
      BY <2>6 DEF DecodeWork, Decode, DecodeFails, DecodeClosed, fileVars
    <3>2. FileOK'
      BY <3>1 DEF FileOK
    <3>3. ASSUME NEW n \in 1 .. MaxChunks, Decode(n) PROVE RingInv'
      BY <3>3, DecodeKeeps
    <3>4. ASSUME NEW n \in 1 .. MaxChunks, DecodeFails(n) PROVE RingInv'
      BY <3>4, DecodeFailsKeeps
    <3>5. CASE DecodeClosed
      <4>1. /\ decoder' = "done"
            /\ UNCHANGED <<first_time, audio, chunks, consumed, ring, windex, rindex, heard, overrun>>
        BY <3>5 DEF DecodeClosed
      <4>2. decoder' \in States /\ decoder' \notin {"working", "closed"} /\ decoder' # "unbuilt"
        BY <4>1 DEF States
      <4> QED
        BY <3>2, <4>1, <4>2, RingLeft
    <3> QED
      BY <2>6, <3>2, <3>3, <3>4, <3>5, Zenon DEF DecodeWork
  <2>7. CASE Sink
    <3>1. PICK n \in 1 .. BufferSlots - 1 : Listen(n)
      BY <2>7, Zenon DEF Sink
    <3>2. chunks' = chunks /\ UNCHANGED <<source, locked, voiceframecount>>
      BY <2>7, <3>1 DEF Sink, Listen, fileVars
    <3> QED
      BY <3>1, <3>2, ListenKeeps DEF FileOK
  <2>8. CASE DestroyDecoder \/ DestroyDStarDecode
    <3>1. /\ decoder' \in {"closing", "gone"}
          /\ UNCHANGED <<first_time, audio, chunks, consumed, ring, windex, rindex, heard, overrun>>
          /\ UNCHANGED <<source, locked, voiceframecount>>
      BY <2>8 DEF DestroyDecoder, DestroyDStarDecode, fileVars
    <3>2. RingInv'
      BY <3>1, RingLeft DEF States
    <3> QED
      BY <3>1, <3>2 DEF FileOK
  <2> QED
    BY <2>2, <2>3, <2>4, <2>5, <2>6, <2>7, <2>8 DEF Next
<1> QED
  BY <1>1, <1>2, EncoderInvariant, PTL DEF Spec

(***************************************************************************)
(* Unless a call wrote more slots than there was room for: whatever pieces *)
(* the scheduler cuts the input and the output into, what is heard is      *)
(* three slots of silence and then all the sound, each piece once.         *)
(***************************************************************************)
THEOREM HeardInTimeHolds == Spec => []HeardInTime
<1>1. RingInv => HeardInTime
  BY DEF RingInv, RingOK, HeardInTime, Piece
<1> QED
  BY <1>1, FlowInvariant, PTL

(***************************************************************************)
(* And of a recording it is the sound recorded, from its first piece on:   *)
(* the decoder is in step with the encoder's count throughout.             *)
(***************************************************************************)
THEOREM PlayedBackHolds == Spec => []PlayedBack
<1>1. RingInv /\ FileOK => PlayedBack
  <2> SUFFICES ASSUME RingInv, FileOK, source = "file", ~overrun, NEW i \in DOMAIN heard
               PROVE  heard[i] = IF i <= 3 THEN Silence ELSE i - 3
    BY DEF PlayedBack, FileOK
  <2>1. heard[i] = Piece(i)
    BY DEF RingInv, RingOK
  <2>2. CASE ~(i <= 3)
    <3>1. i \in 1 .. Sent
      BY AvailableSlots DEF RingInv, RingTypeOK
    <3>2. i - 3 \in DOMAIN chunks
      BY <2>2, <3>1 DEF Sent, RingInv, RingTypeOK
    <3>3. chunks[i - 3] = i - 3
      BY <3>2 DEF FileOK
    <3> QED
      BY <2>1, <2>2, <3>3 DEF Piece
  <2> QED
    BY <2>1, <2>2 DEF Piece
<1> QED
  BY <1>1, FlowInvariant, PTL

(***************************************************************************)
(* The types of the two blocks' state, and that no index leaves the ring   *)
(* and nothing is consumed that has not come.                              *)
(***************************************************************************)
THEOREM TypeCorrect == Spec => []TypeOK
<1>1. EncoderInv /\ RingInv /\ FileOK /\ DeviceInv => TypeOK
  BY Zenon DEF EncoderInv, RingInv, RingTypeOK, FileOK, DeviceInv, FdTypeOK, TypeOK, Frame
<1> QED
  BY <1>1, EncoderInvariant, FlowInvariant, DeviceInvariant, PTL
=============================================================================
