------------------------------- MODULE DV3000U -------------------------------
(***************************************************************************)
(* CDV3000U (lib/DV3000U.cc): a vocoder on a serial line.  OpenDevice puts *)
(* four questions to it, DecodeData and EncodeAudio one for each voice     *)
(* frame, and each waits for the answer, which getresponse reads from the  *)
(* line byte by byte.  Then the answer is looked at, and whatever is wrong *)
(* with it ends the block for good.                                        *)
(*                                                                         *)
(* The vocoder and the line are not part of the repository.  The vocoder   *)
(* answers a question that reaches it whole, or does not; the line brings  *)
(* the bytes of the answers in their order, late, and may lose some.  The  *)
(* program may be stopped at any time and started again, and what has been *)
(* on the line then may still be there.                                    *)
(***************************************************************************)
EXTENDS Integers, Sequences

CONSTANTS
  Base,          \* the values of a byte: 256
  DV3K_START_BYTE,
  DV3K_TYPE_CONTROL,
  DataType,      \* packet_type of the answers to DecodeData (or EncodeAudio)
  DataField,     \* their field_id
  DataCount,     \* their num_samples (num_bits)
  DataBytes,     \* bytes that follow
  FieldOf,       \* the field_id of the answer to each question of OpenDevice
  TextOf,        \* and what else is in that answer
  MaxPayload,    \* sizeof(payload): 321
  Frames,        \* what the vocoder may make of a frame
  MaxLost,       \* so many bytes may be lost
  MaxStarts      \* so often the program is started

Byte == 0 .. Base - 1
Questions == <<"reset", "prodid", "verstring", "ratep">>
Asked == {Questions[i] : i \in DOMAIN Questions}

ASSUME LinkAssumption ==
  /\ Base \in Nat \ {0}
  /\ {DV3K_START_BYTE, DV3K_TYPE_CONTROL, DataType, DataField, DataCount} \subseteq Byte
  /\ DataType # DV3K_TYPE_CONTROL
  /\ DataBytes \in Nat \ {0}
  /\ FieldOf \in [Asked -> Byte]
  /\ TextOf \in [Asked -> Seq(Byte)]
  /\ MaxPayload \in Nat /\ MaxPayload > 1
  /\ DataBytes < MaxPayload /\ 1 + MaxPayload < Base * Base
  /\ \A q \in Asked : Len(TextOf[q]) <= MaxPayload
  /\ Frames \subseteq [1 .. DataBytes -> Byte]
  /\ MaxLost \in Nat
  /\ MaxStarts \in Nat

VARIABLES
  pc,        \* "closed", "ready" between calls, "failed", or what getresponse reads
  stage,     \* the question that has been asked
  reads,     \* how many bytes have been looked at for a start byte
  got,       \* bytes read of the header, or after it
  header,    \* payload_length and packet_type of the answer
  field,     \* field_id of the last answer that had one, or Unset
  line,      \* bytes that wait to be read
  sending,   \* bytes that the vocoder has still to send
  frame,     \* what it made of the frame it got last
  lost,      \* how many bytes have been lost
  starts     \* how often the program has been started

vars == <<pc, stage, reads, got, header, field, line, sending, frame, lost, starts>>

Unset == -1
NoHeader == [length |-> 0, type |-> 0]
Waiting == pc \in {"start", "header", "payload", "check"}

Packet(type, id, rest) ==
  <<DV3K_START_BYTE, (1 + Len(rest)) \div Base, (1 + Len(rest)) % Base, type, id>> \o rest

\* sizeof(DV3K_PACKET)
PacketSize == 1 + 3 + 1 + MaxPayload

Init ==
  /\ pc = "closed"
  /\ stage = "none"
  /\ reads = 0
  /\ got = <<>>
  /\ header = NoHeader
  /\ field = Unset
  /\ line = <<>>
  /\ sending = <<>>
  /\ frame = <<>>
  /\ lost = 0
  /\ starts = 0

(***************************************************************************)
(* The vocoder and the line.                                               *)
(***************************************************************************)
\* the vocoder gets question q, and may answer; on a reset it may drop what it
\* had to send
Answer(q) ==
  \/ UNCHANGED sending /\ frame' = <<>>
  \/ /\ q \in Asked
     /\ \E before \in {sending} \cup IF q = "reset" THEN {<<>>} ELSE {} :
          sending' = before \o Packet(DV3K_TYPE_CONTROL, FieldOf[q], TextOf[q])
     /\ frame' = <<>>
  \/ /\ q = "data"
     /\ frame' \in Frames
     /\ sending' = sending \o Packet(DataType, DataField, <<DataCount>> \o frame')

Transmit ==
  /\ sending # <<>>
  /\ sending' = Tail(sending)
  /\ line' = Append(line, Head(sending))
  /\ UNCHANGED <<pc, stage, reads, got, header, field, frame, lost, starts>>

\* a byte is lost on the way, or because nobody has the device open
LoseByte ==
  /\ sending # <<>>
  /\ sending' = Tail(sending)
  /\ \/ pc = "closed" /\ UNCHANGED lost
     \/ pc # "closed" /\ lost < MaxLost /\ lost' = lost + 1
  /\ UNCHANGED <<pc, stage, reads, got, header, field, line, frame, starts>>

(***************************************************************************)
(* The calls.  A call that fails returns true: OpenDevice closes the       *)
(* device, and the blocks' work functions are at their end.                *)
(***************************************************************************)
\* a plausible slip: the block tries its luck with the next frame
FailedGoesOn == "ready"
Failed == "failed"

Fail ==
  /\ pc' = Failed
  /\ UNCHANGED <<stage, reads, got, header, line, lost, starts>>

\* question q is written, and getresponse begins
Ask(q) ==
  /\ stage' = q
  /\ pc' = "start"
  /\ reads' = 0
  /\ got' = <<>>
  /\ header' = NoHeader
  /\ UNCHANGED <<line, lost, starts>>

\* initDV3K takes a write that was cut short for a whole one; the vocoder does not
AskControl(q) ==
  \/ Ask(q) /\ Answer(q)
  \/ Fail /\ UNCHANGED <<sending, frame>>

\* a device that does not open, or is no tty, or has another baud rate, is the same
OpenDevice ==
  /\ pc = "closed"
  /\ starts < MaxStarts
  /\ starts' = starts + 1
  /\ field' = Unset
  /\ \/ /\ stage' = "reset"
        /\ pc' = "start"
        /\ reads' = 0
        /\ Answer("reset")
     \/ /\ pc' = Failed
        /\ UNCHANGED <<stage, reads, sending, frame>>
  /\ UNCHANGED <<got, header, line, lost>>

\* DecodeData, or EncodeAudio: of a short write they complain
Call ==
  /\ pc = "ready"
  /\ \/ Ask("data") /\ Answer("data") /\ field' = Unset
     \/ Fail /\ UNCHANGED <<field, sending, frame>>

\* the program ends; the bytes that wait may be there when it begins again
Stop ==
  /\ pc # "closed"
  /\ pc' = "closed"
  /\ line' \in {line, <<>>}
  /\ stage' = "none"
  /\ reads' = 0
  /\ got' = <<>>
  /\ header' = NoHeader
  /\ field' = Unset
  /\ UNCHANGED <<sending, frame, lost, starts>>

(***************************************************************************)
(* getresponse.  read gives what there is, up to what is asked for; after  *)
(* a tenth of a second with nothing, it gives nothing.                     *)
(***************************************************************************)
ReadError ==
  /\ pc \in {"start", "header", "payload"}
  /\ Fail
  /\ UNCHANGED <<field, sending, frame>>

\* a plausible slip: only the bytes that are there are counted
ReadsCountedNone == reads
ReadsCounted == reads + 1

\* a byte that is no start byte, or none at all
NoStart ==
  /\ pc = "start"
  /\ \/ line = <<>> /\ UNCHANGED line /\ reads' = ReadsCounted
     \/ /\ line # <<>>
        /\ Head(line) # DV3K_START_BYTE
        /\ line' = Tail(line)
        /\ reads' = reads + 1
  /\ pc' = IF reads' = PacketSize THEN Failed ELSE "start"
  /\ UNCHANGED <<stage, got, header, field, sending, frame, lost, starts>>

Start ==
  /\ pc = "start"
  /\ line # <<>>
  /\ Head(line) = DV3K_START_BYTE
  /\ line' = Tail(line)
  /\ pc' = "header"
  /\ UNCHANGED <<stage, reads, got, header, field, sending, frame, lost, starts>>

\* read takes bytes until there are wanted of them; with nothing on the line the
\* loop goes round without an end, which is no step
ReadUpTo(wanted) ==
  LET n == IF Len(line) < wanted - Len(got) THEN Len(line) ELSE wanted - Len(got)
  IN  /\ n > 0
      /\ got' = got \o SubSeq(line, 1, n)
      /\ line' = SubSeq(line, n + 1, Len(line))

ReadHeader ==
  /\ pc = "header"
  /\ Len(got) < 3
  /\ ReadUpTo(3)
  /\ UNCHANGED <<pc, stage, reads, header, field, sending, frame, lost, starts>>

\* a plausible slip: the room is counted from the start byte
TooLongForPacket(length) == length > PacketSize
\* there is no room for so many bytes from field_id on
TooLong(length) == length > 1 + MaxPayload

HeaderRead ==
  /\ pc = "header"
  /\ Len(got) = 3
  /\ LET length == got[1] * Base + got[2]
     IN  /\ header' = [length |-> length, type |-> got[3]]
         /\ got' = <<>>
         /\ pc' = IF TooLong(length) THEN Failed
                  ELSE IF length = 0 THEN "check" ELSE "payload"
  /\ UNCHANGED <<stage, reads, field, line, sending, frame, lost, starts>>

ReadPayload ==
  /\ pc = "payload"
  /\ ReadUpTo(header.length)
  /\ field' = got'[1]
  /\ pc' = IF Len(got') = header.length THEN "check" ELSE "payload"
  /\ UNCHANGED <<stage, reads, header, sending, frame, lost, starts>>

(***************************************************************************)
(* What the callers make of the answer.  A field_id that was never read    *)
(* may be anything.                                                        *)
(***************************************************************************)
FieldIs(id) == field = id \/ field = Unset
FieldIsNot(id) == field # id

\* a plausible slip: any control packet will do
AnyControl(q) == header.type = DV3K_TYPE_CONTROL
\* checkResponse finds the answer to q
Answers(q) == header.type = DV3K_TYPE_CONTROL /\ FieldIs(FieldOf[q])
NoAnswer(q) == header.type # DV3K_TYPE_CONTROL \/ FieldIsNot(FieldOf[q])

\* what comes after question number i has been answered
CheckControl(i) ==
  /\ pc = "check"
  /\ stage = Questions[i]
  /\ \/ /\ Answers(stage)
        /\ IF i = Len(Questions)
           THEN /\ pc' = "ready"
                /\ UNCHANGED <<stage, reads, got, header, line, sending, frame, lost, starts>>
           ELSE AskControl(Questions[i + 1])
     \/ /\ NoAnswer(stage)
        /\ Fail
        /\ UNCHANGED <<sending, frame>>
  /\ UNCHANGED field

\* a plausible slip: the byte of field_id is not counted
IsDataUncounted ==
  /\ header.length = 1 + DataBytes
  /\ header.type = DataType
  /\ got[1] = DataField
  /\ got[2] = DataCount
\* GetAudio (GetData) finds what it asked for
IsData ==
  /\ header.length = 2 + DataBytes
  /\ header.type = DataType
  /\ got[1] = DataField
  /\ got[2] = DataCount

CheckData ==
  /\ pc = "check"
  /\ stage = "data"
  /\ pc' = IF IsData THEN "ready" ELSE Failed
  /\ UNCHANGED <<stage, reads, got, header, field, line, sending, frame, lost, starts>>

Read == NoStart \/ Start \/ ReadHeader \/ HeaderRead \/ ReadPayload
Check == CheckData \/ \E i \in DOMAIN Questions : CheckControl(i)

Next == OpenDevice \/ Call \/ Stop \/ ReadError \/ Read \/ Check \/ Transmit \/ LoseByte

(***************************************************************************)
(* A call that has begun runs on, and the line brings what it has.  Of     *)
(* nothing else is it said that it happens.                                *)
(***************************************************************************)
Spec == Init /\ [][Next]_vars /\ WF_vars(Read \/ Check) /\ WF_vars(Transmit)

TypeOK ==
  /\ pc \in {"closed", "ready", "failed", "start", "header", "payload", "check"}
  /\ stage \in Asked \cup {"none", "data"}
  /\ reads \in 0 .. PacketSize
  /\ got \in Seq(Byte) /\ Len(got) <= 1 + MaxPayload
  /\ header \in [length : 0 .. Base * Base, type : Byte]
  /\ pc = "payload" => header.length \in 1 .. 1 + MaxPayload
  /\ field \in Byte \cup {Unset}
  /\ line \in Seq(Byte)
  /\ sending \in Seq(Byte)
  /\ frame \in Frames \cup {<<>>}
  /\ lost \in 0 .. MaxLost
  /\ starts \in 0 .. MaxStarts

-----------------------------------------------------------------------------
(***************************************************************************)
(* When OpenDevice succeeds, no byte of an answer is still to come, though *)
(* there may have been some on the line, of the run before, when it began: *)
(* the answers to the four questions have been told from what came before. *)
(***************************************************************************)
OpenLeavesNothing ==
  [][ pc = "check" /\ stage = "ratep" /\ pc' = "ready" =>
        line = <<>> /\ sending = <<>> ]_vars

(***************************************************************************)
(* In a first run of the program, while nothing is lost, every answer is   *)
(* told from what it has in it, read to its end and understood, however    *)
(* its bytes came and whatever they are: nothing is left on the line for   *)
(* the next call, and the frame is the vocoder's.                          *)
(***************************************************************************)
AnswerUnderstood ==
  starts = 1 /\ lost = 0 /\ pc = "check" =>
    /\ line = <<>> /\ sending = <<>>
    /\ IF stage = "data"
       THEN IsData /\ frame # <<>> /\ SubSeq(got, 3, Len(got)) = frame
       ELSE Answers(stage) /\ ~NoAnswer(stage)

(***************************************************************************)
(* Every call comes to an end, with an answer or without: a vocoder that   *)
(* is silent does not hold up the program.  (One that loses the rest of an *)
(* answer does: getresponse counts only the bytes before a start byte.)    *)
(***************************************************************************)
CallsReturn ==
  (Waiting /\ starts = 1 /\ lost = 0) ~> (~Waiting \/ lost > 0)
=============================================================================
