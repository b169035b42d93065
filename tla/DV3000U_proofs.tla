--------------------------- MODULE DV3000U_proofs ---------------------------
(***************************************************************************)
(* For bytes and packets of any size and whatever is on the line: no byte  *)
(* of an answer is written past the end of the packet.  And as long as no  *)
(* byte is lost and the program has not been started before, each answer   *)
(* is told from the bytes that come, all of it and no more; and whatever   *)
(* is lost, a call gives the answer to its own frame or fails, as          *)
(* VocoderCalls has it, if OpenDevice has left nothing on the line.        *)
(***************************************************************************)
EXTENDS DV3000UCalls, SequenceTheorems, TLAPS

\* what getresponse has of the answer: nothing before the start byte, no more than
\* the header takes, or not yet all that the header says
Room ==
  /\ pc \in {"closed", "start"} => got = <<>>
  /\ pc = "start" => reads < PacketSize
  /\ pc = "header" => Len(got) <= 3
  /\ pc = "payload" => Len(got) < header.length

IInv == TypeOK /\ Room

LEMMA Sizes ==
  /\ Base \in Nat \ {0} /\ MaxPayload \in Nat /\ MaxPayload > 1
  /\ DataBytes \in Nat /\ DataBytes < MaxPayload
  /\ PacketSize \in Nat /\ PacketSize > 0
BY LinkAssumption DEF PacketSize

\* a length has two bytes
LEMMA LengthBytes ==
  ASSUME NEW n \in Nat, n < Base * Base
  PROVE  n \div Base \in Byte /\ n % Base \in Byte
<1>1. Base \in Nat \ {0}
  BY Sizes
<1>2. n % Base \in Byte
  BY <1>1 DEF Byte
<1>3. PICK q \in Nat : q = n \div Base
  BY <1>1
<1>4. n = Base * q + (n % Base)
  BY <1>1, <1>3
<1>5. ASSUME q >= Base PROVE FALSE
  <2> DEFINE more == q - Base
  <2>1. more \in Nat /\ q = Base + more
    BY <1>1, <1>5
  <2> HIDE DEF more
  <2>2. Base * q = Base * Base + Base * more /\ Base * more \in Nat
    BY <1>1, <2>1
  <2>3. Base * Base \in Nat /\ n % Base \in Nat
    BY <1>1
  <2> QED
    BY <1>4, <2>2, <2>3
<1> QED
  BY <1>1, <1>2, <1>3, <1>5 DEF Byte

\* two bytes are a length
LEMMA LengthOf ==
  ASSUME NEW high \in Byte, NEW low \in Byte
  PROVE  high * Base + low \in 0 .. Base * Base
<1>1. Base \in Nat \ {0} /\ high \in Nat /\ low \in Nat /\ high < Base /\ low < Base
  BY Sizes DEF Byte
<1> DEFINE more == Base - high - 1
<1>2. more \in Nat /\ Base = high + 1 + more
  BY <1>1
<1> HIDE DEF more
<1>3. Base * Base = high * Base + Base + more * Base /\ more * Base \in Nat /\ high * Base \in Nat
  BY <1>1, <1>2
<1> QED
  BY <1>1, <1>3

LEMMA PacketBytes ==
  ASSUME NEW type \in Byte, NEW id \in Byte, NEW rest \in Seq(Byte), Len(rest) <= MaxPayload
  PROVE  Packet(type, id, rest) \in Seq(Byte)
<1>1. 1 + Len(rest) \in Nat /\ 1 + Len(rest) < Base * Base
  BY LinkAssumption
<1>2. (1 + Len(rest)) \div Base \in Byte /\ (1 + Len(rest)) % Base \in Byte /\ DV3K_START_BYTE \in Byte
  BY <1>1, LengthBytes, LinkAssumption
<1>3. \A a, b, c, d, e \in Byte : <<a, b, c, d, e>> \in Seq(Byte)
  OBVIOUS
<1>4. <<DV3K_START_BYTE, (1 + Len(rest)) \div Base, (1 + Len(rest)) % Base, type, id>> \in Seq(Byte)
  BY <1>2, <1>3, Zenon
<1> QED
  BY <1>4, ConcatProperties, Zenon DEF Packet

\* whatever question the vocoder gets, it sends bytes
LEMMA AnswerType ==
  ASSUME TypeOK, NEW q \in Asked \cup {"data"}, Answer(q)
  PROVE  sending' \in Seq(Byte) /\ frame' \in Frames \cup {<<>>}
<1>1. sending \in Seq(Byte)
  BY DEF TypeOK
<1>2. CASE UNCHANGED sending /\ frame' = <<>>
  BY <1>1, <1>2
<1>3. CASE /\ q \in Asked
           /\ \E before \in {sending} \cup IF q = "reset" THEN {<<>>} ELSE {} :
                sending' = before \o Packet(DV3K_TYPE_CONTROL, FieldOf[q], TextOf[q])
           /\ frame' = <<>>
  <2>1. PICK before \in {sending, <<>>} :
          sending' = before \o Packet(DV3K_TYPE_CONTROL, FieldOf[q], TextOf[q])
    BY <1>3, Zenon
  <2>0. before \in Seq(Byte)
    <3>1. <<>> \in Seq(Byte)
      OBVIOUS
    <3>2. CASE before = sending
      BY <1>1, <3>2
    <3>3. CASE before = <<>>
      BY <3>1, <3>3
    <3> QED
      BY <2>1, <3>2, <3>3
  <2>2. /\ DV3K_TYPE_CONTROL \in Byte /\ FieldOf[q] \in Byte /\ TextOf[q] \in Seq(Byte)
        /\ Len(TextOf[q]) <= MaxPayload
    BY <1>3, LinkAssumption
  <2>3. Packet(DV3K_TYPE_CONTROL, FieldOf[q], TextOf[q]) \in Seq(Byte)
    BY <2>2, PacketBytes
  <2> QED
    BY <1>3, <2>0, <2>1, <2>3, ConcatProperties
<1>4. CASE /\ q = "data"
           /\ frame' \in Frames
           /\ sending' = sending \o Packet(DataType, DataField, <<DataCount>> \o frame')
  <2>1. frame' \in Seq(Byte) /\ Len(frame') = DataBytes
    BY <1>4, LinkAssumption
  <2>2. <<DataCount>> \in Seq(Byte) /\ DataType \in Byte /\ DataField \in Byte
    BY LinkAssumption
  <2>3. <<DataCount>> \o frame' \in Seq(Byte) /\ Len(<<DataCount>> \o frame') <= MaxPayload
    BY <2>1, <2>2, Sizes
  <2>4. Packet(DataType, DataField, <<DataCount>> \o frame') \in Seq(Byte)
    BY <2>2, <2>3, PacketBytes
  <2> QED
    BY <1>1, <1>4, <2>4, ConcatProperties
<1> QED
  BY <1>2, <1>3, <1>4 DEF Answer

\* a read gives some bytes, and no more than are wanted
LEMMA ReadBytes ==
  ASSUME IInv, NEW wanted \in Nat, Len(got) < wanted, ReadUpTo(wanted)
  PROVE  /\ got' \in Seq(Byte) /\ line' \in Seq(Byte)
         /\ Len(got') \in 1 .. wanted
<1> DEFINE n == IF Len(line) < wanted - Len(got) THEN Len(line) ELSE wanted - Len(got)
<1>1. got \in Seq(Byte) /\ line \in Seq(Byte)
  BY DEF IInv, TypeOK
<1>2. /\ n > 0
      /\ got' = got \o SubSeq(line, 1, n)
      /\ line' = SubSeq(line, n + 1, Len(line))
  BY DEF ReadUpTo
<1>3. n \in Nat /\ n <= Len(line) /\ n <= wanted - Len(got)
  BY <1>1
<1> HIDE DEF n
<1>4. SubSeq(line, 1, n) \in Seq(Byte) /\ Len(SubSeq(line, 1, n)) = n /\ SubSeq(line, n + 1, Len(line)) \in Seq(Byte)
  BY <1>1, <1>2, <1>3
<1>5. got' \in Seq(Byte) /\ Len(got') = Len(got) + n
  BY <1>1, <1>2, <1>4
<1> QED
  BY <1>1, <1>2, <1>3, <1>4, <1>5

\* a call that fails
LEMMA FailKeeps ==
  ASSUME IInv, Fail, sending' \in Seq(Byte), frame' \in Frames \cup {<<>>}, field' \in Byte \cup {Unset}
  PROVE  IInv'
BY DEF IInv, TypeOK, Room, Fail, Failed

\* a question that is put, of which the vocoder makes what it will
LEMMA AskKeeps ==
  ASSUME IInv, NEW q \in Asked \cup {"data"}, Ask(q), Answer(q), field' \in Byte \cup {Unset}
  PROVE  IInv'
<1>1. sending' \in Seq(Byte) /\ frame' \in Frames \cup {<<>>}
  BY AnswerType DEF IInv
<1>2. NoHeader \in [length : 0 .. Base * Base, type : Byte]
  <2>1. Base * Base \in Nat /\ 0 \in Byte
    BY Sizes DEF Byte
  <2> QED
    BY <2>1 DEF NoHeader
<1>3. /\ stage' = q /\ pc' = "start" /\ reads' = 0 /\ got' = <<>> /\ header' = NoHeader
      /\ UNCHANGED <<line, lost, starts>>
  BY DEF Ask
<1> QED
  BY <1>1, <1>2, <1>3, Sizes DEF IInv, TypeOK, Room

LEMMA InitInv == Init => IInv
<1>1. NoHeader \in [length : 0 .. Base * Base, type : Byte]
  <2>1. Base * Base \in Nat /\ 0 \in Byte
    BY Sizes DEF Byte
  <2> QED
    BY <2>1 DEF NoHeader
<1> QED
  BY <1>1, Sizes, LinkAssumption DEF Init, IInv, TypeOK, Room

LEMMA StepInv == IInv /\ [Next]_vars => IInv'
<1> SUFFICES ASSUME IInv, [Next]_vars PROVE IInv'
  OBVIOUS
<1>0. /\ Base \in Nat \ {0} /\ MaxPayload \in Nat /\ MaxPayload > 1
      /\ PacketSize \in Nat /\ PacketSize > 0
      /\ {"reset", "prodid", "verstring", "ratep"} \subseteq Asked
      /\ MaxLost \in Nat /\ MaxStarts \in Nat
  BY Sizes, LinkAssumption DEF Asked, Questions
<1>1. CASE UNCHANGED vars
  BY <1>1 DEF vars, IInv, TypeOK, Room
<1>2. CASE OpenDevice
  <2>1. pc = "closed" /\ starts' = starts + 1 /\ starts < MaxStarts /\ field' = Unset
        /\ UNCHANGED <<got, header, line, lost>>
    BY <1>2 DEF OpenDevice
  <2>2. CASE stage' = "reset" /\ pc' = "start" /\ reads' = 0 /\ Answer("reset")
    <3>1. sending' \in Seq(Byte) /\ frame' \in Frames \cup {<<>>}
      BY <1>0, <2>2, AnswerType DEF IInv
    <3> QED
      BY <1>0, <2>1, <2>2, <3>1 DEF IInv, TypeOK, Room
  <2>3. CASE pc' = Failed /\ UNCHANGED <<stage, reads, sending, frame>>
    BY <1>0, <2>1, <2>3 DEF IInv, TypeOK, Room, Failed
  <2> QED
    BY <1>2, <2>2, <2>3 DEF OpenDevice
<1>3. CASE Call
  <2>1. CASE Ask("data") /\ Answer("data") /\ field' = Unset
    BY <2>1, AskKeeps
  <2>2. CASE Fail /\ UNCHANGED <<field, sending, frame>>
    BY <2>2, FailKeeps DEF IInv, TypeOK
  <2> QED
    BY <1>3, <2>1, <2>2 DEF Call
<1>4. CASE Stop
  <2>1. NoHeader \in [length : 0 .. Base * Base, type : Byte]
    <3>1. Base * Base \in Nat /\ 0 \in Byte
      BY Sizes DEF Byte
    <3> QED
      BY <3>1 DEF NoHeader
  <2>2. <<>> \in Seq(Byte) /\ Len(<<>>) = 0
    OBVIOUS
  <2>3. line' \in Seq(Byte)
    <3>1. line \in Seq(Byte) /\ line' \in {line, <<>>}
      BY <1>4 DEF Stop, IInv, TypeOK
    <3>2. CASE line' = line
      BY <3>1, <3>2
    <3>3. CASE line' = <<>>
      BY <2>2, <3>3
    <3> QED
      BY <3>1, <3>2, <3>3
  <2>4. /\ pc' = "closed" /\ stage' = "none" /\ reads' = 0 /\ header' = NoHeader /\ field' = Unset
        /\ got' \in Seq(Byte) /\ Len(got') = 0 /\ got' = <<>>
        /\ UNCHANGED <<sending, frame, lost, starts>>
    BY <1>4, <2>2 DEF Stop
  <2> QED
    BY <1>0, <2>1, <2>3, <2>4 DEF IInv, TypeOK, Room
<1>5. CASE ReadError
  BY <1>5, FailKeeps DEF ReadError, IInv, TypeOK
<1>6. CASE NoStart
  <2>1. pc = "start" /\ reads' = reads + 1 /\ pc' = IF reads' = PacketSize THEN "failed" ELSE "start"
    BY <1>6 DEF NoStart, ReadsCounted, Failed
  <2>2. line' \in Seq(Byte)
    <3>1. line \in Seq(Byte)
      BY DEF IInv, TypeOK
    <3>2. line' = line \/ (line # <<>> /\ line' = Tail(line))
      BY <1>6 DEF NoStart
    <3>3. CASE line' = line
      BY <3>1, <3>3
    <3>4. CASE line # <<>> /\ line' = Tail(line)
      BY <3>1, <3>4
    <3> QED
      BY <3>2, <3>3, <3>4
  <2>3. UNCHANGED <<stage, got, header, field, sending, frame, lost, starts>>
    BY <1>6 DEF NoStart
  <2>4. got = <<>> /\ reads \in Nat /\ reads < PacketSize
    BY <1>0, <2>1 DEF IInv, TypeOK, Room
  <2>5. CASE reads' = PacketSize
    <3>1. pc' = "failed" /\ reads' \in 0 .. PacketSize
      BY <1>0, <2>1, <2>5
    <3> QED
      BY <3>1, <2>2, <2>3, <2>4 DEF IInv, TypeOK, Room
  <2>6. CASE reads' # PacketSize
    <3>1. pc' = "start" /\ reads' \in 0 .. PacketSize /\ reads' < PacketSize
      BY <1>0, <2>1, <2>4, <2>6
    <3> QED
      BY <3>1, <2>2, <2>3, <2>4 DEF IInv, TypeOK, Room
  <2> QED
    BY <2>5, <2>6
<1>7. CASE Start
  <2>0. line \in Seq(Byte) /\ line # <<>> /\ line' = Tail(line)
    BY <1>7 DEF Start, IInv, TypeOK
  <2>1. pc = "start" /\ pc' = "header" /\ line' \in Seq(Byte)
    BY <1>7, <2>0 DEF Start
  <2>2. UNCHANGED <<stage, reads, got, header, field, sending, frame, lost, starts>>
    BY <1>7 DEF Start
  <2> QED
    BY <2>1, <2>2 DEF IInv, TypeOK, Room
<1>8. CASE ReadHeader
  <2>1. pc = "header" /\ Len(got) < 3 /\ ReadUpTo(3)
    BY <1>8 DEF ReadHeader
  <2>2. got' \in Seq(Byte) /\ line' \in Seq(Byte) /\ Len(got') \in 1 .. 3
    BY <2>1, ReadBytes
  <2>3. UNCHANGED <<pc, stage, reads, header, field, sending, frame, lost, starts>>
    BY <1>8 DEF ReadHeader
  <2>4. Len(got') <= 3 /\ Len(got') <= 1 + MaxPayload
    <3>1. \A n \in 1 .. 3 : n <= 3 /\ n <= 1 + MaxPayload
      <4>1. MaxPayload \in Nat /\ MaxPayload > 1
        BY <1>0
      <4> QED
        BY <4>1
    <3> QED
      BY <2>2, <3>1, Zenon
  <2>5. TypeOK'
    <3>1. /\ stage' \in Asked \cup {"none", "data"} /\ reads' \in 0 .. PacketSize
          /\ header' \in [length : 0 .. Base * Base, type : Byte]
          /\ field' \in Byte \cup {Unset}
          /\ sending' \in Seq(Byte) /\ frame' \in Frames \cup {<<>>}
          /\ lost' \in 0 .. MaxLost /\ starts' \in 0 .. MaxStarts
      BY <2>3 DEF IInv, TypeOK
    <3>2. pc' = "header"
      BY <2>1, <2>3
    <3> QED
      BY <2>2, <2>4, <3>1, <3>2 DEF TypeOK
  <2>6. Room'
    BY <2>1, <2>3, <2>4 DEF Room
  <2> QED
    BY <2>5, <2>6 DEF IInv
<1>9. CASE HeaderRead
  <2> DEFINE length == got[1] * Base + got[2]
  <2>0. got \in Seq(Byte) /\ Len(got) = 3
    BY <1>9 DEF HeaderRead, IInv, TypeOK
  <2>1. pc = "header" /\ got[1] \in Byte /\ got[2] \in Byte /\ got[3] \in Byte
    <3>1. \A i \in 1 .. 3 : got[i] \in Byte
      BY <2>0, ElementOfSeq
    <3>2. pc = "header"
      BY <1>9 DEF HeaderRead
    <3> QED
      BY <3>1, <3>2
  <2>2. length \in 0 .. Base * Base
    BY <2>1, LengthOf
  <2>3. /\ header' = [length |-> length, type |-> got[3]] /\ got' = <<>>
        /\ pc' = IF TooLong(length) THEN "failed" ELSE IF length = 0 THEN "check" ELSE "payload"
        /\ UNCHANGED <<stage, reads, field, line, sending, frame, lost, starts>>
    BY <1>9 DEF HeaderRead, Failed
  <2> HIDE DEF length
  <2>4. length \in Nat
    BY <1>0, <2>2
  <2>5. header' \in [length : 0 .. Base * Base, type : Byte] /\ header'.length = length
    BY <2>1, <2>2, <2>3
  <2>6. /\ pc' \in {"failed", "check", "payload"}
        /\ pc' = "payload" => length \in 1 .. 1 + MaxPayload
    BY <1>0, <2>3, <2>4 DEF TooLong
  <2>7. got' \in Seq(Byte) /\ Len(got') = 0
    BY <2>3
  <2> QED
    BY <1>0, <2>3, <2>5, <2>6, <2>7 DEF IInv, TypeOK, Room
<1>10. CASE ReadPayload
  <2>1. pc = "payload" /\ ReadUpTo(header.length) /\ field' = got'[1]
        /\ pc' = IF Len(got') = header.length THEN "check" ELSE "payload"
    BY <1>10 DEF ReadPayload
  <2>2. header.length \in 1 .. 1 + MaxPayload /\ Len(got) < header.length
    BY <2>1 DEF IInv, TypeOK, Room
  <2>3. got' \in Seq(Byte) /\ line' \in Seq(Byte) /\ Len(got') \in 1 .. header.length
    BY <1>0, <2>1, <2>2, ReadBytes
  <2>4. field' \in Byte
    BY <1>0, <2>1, <2>2, <2>3
  <2>5. UNCHANGED <<stage, reads, header, sending, frame, lost, starts>>
    BY <1>10 DEF ReadPayload
  <2> QED
    BY <1>0, <2>1, <2>2, <2>3, <2>4, <2>5 DEF IInv, TypeOK, Room
<1>11. CASE CheckData
  BY <1>11 DEF CheckData, Failed, IInv, TypeOK, Room
<1>12. ASSUME NEW i \in DOMAIN Questions, CheckControl(i) PROVE IInv'
  <2>1. pc = "check" /\ UNCHANGED field
    BY <1>12 DEF CheckControl
  <2>2. CASE Fail /\ UNCHANGED <<sending, frame>>
    BY <2>1, <2>2, FailKeeps DEF IInv, TypeOK
  <2>3. CASE pc' = "ready" /\ UNCHANGED <<stage, reads, got, header, line, sending, frame, lost, starts>>
    BY <2>1, <2>3 DEF IInv, TypeOK, Room
  <2>4. CASE i # Len(Questions) /\ AskControl(Questions[i + 1])
    <3>1. Questions[i + 1] \in Asked
      <4>1. i + 1 \in DOMAIN Questions
        BY <2>4 DEF Questions
      <4> QED
        BY <4>1 DEF Asked
    <3>2. CASE Ask(Questions[i + 1]) /\ Answer(Questions[i + 1])
      BY <2>1, <3>1, <3>2, AskKeeps DEF IInv, TypeOK
    <3> QED
      BY <2>2, <2>4, <3>2 DEF AskControl
  <2> QED
    BY <1>12, <2>2, <2>3, <2>4, Zenon DEF CheckControl
<1>13. CASE Transmit
  <2>1. sending \in Seq(Byte) /\ line \in Seq(Byte) /\ sending # <<>>
    BY <1>13 DEF Transmit, IInv, TypeOK
  <2>2. sending' \in Seq(Byte) /\ line' \in Seq(Byte)
    BY <1>13, <2>1 DEF Transmit
  <2>3. UNCHANGED <<pc, stage, reads, got, header, field, frame, lost, starts>>
    BY <1>13 DEF Transmit
  <2> QED
    BY <2>2, <2>3 DEF IInv, TypeOK, Room
<1>14. CASE LoseByte
  <2>1. sending' \in Seq(Byte)
    BY <1>14 DEF LoseByte, IInv, TypeOK
  <2>2. lost' \in 0 .. MaxLost
    BY <1>0, <1>14 DEF LoseByte, IInv, TypeOK
  <2>3. UNCHANGED <<pc, stage, reads, got, header, field, line, frame, starts>>
    BY <1>14 DEF LoseByte
  <2> QED
    BY <2>1, <2>2, <2>3 DEF IInv, TypeOK, Room
<1> QED
  BY <1>1, <1>2, <1>3, <1>4, <1>5, <1>6, <1>7, <1>8, <1>9, <1>10, <1>11, <1>12, <1>13, <1>14
     DEF Next, Read, Check

(***************************************************************************)
(* The state has its types, whatever is on the line and whatever is lost:  *)
(* what getresponse reads of the payload is never more than the packet on  *)
(* its caller's stack has room for, and the bytes before a start byte are  *)
(* never more than it looks at.                                            *)
(***************************************************************************)
THEOREM PacketNotOverrun == Spec => []TypeOK
<1>1. IInv => TypeOK
  BY DEF IInv
<1> QED
  BY <1>1, InitInv, StepInv, PTL DEF Spec

-----------------------------------------------------------------------------
(***************************************************************************)
(* The answers of a first run with no byte lost.  What has been read of    *)
(* one, what waits on the line, and what the vocoder has still to send,    *)
(* are together the vocoder's reply to the question that was asked last.   *)
(***************************************************************************)
Kind(s) == IF s = "data" THEN DataType ELSE DV3K_TYPE_CONTROL
Body(s, f) == IF s = "data" THEN <<DataField, DataCount>> \o f ELSE <<FieldOf[s]>> \o TextOf[s]
Head3(s, f) == <<Len(Body(s, f)) \div Base, Len(Body(s, f)) % Base, Kind(s)>>
Reply(s, f) == <<DV3K_START_BYTE>> \o (Head3(s, f) \o Body(s, f))

\* f is what the vocoder makes of the frame, where s is about one
Replies(s, f) == s \in Asked \/ (s = "data" /\ f \in Frames)

Coming == line \o sending

Flow ==
  /\ starts = 0 => pc = "closed" /\ Coming = <<>>
  /\ pc = "ready" => Coming = <<>>
  /\ pc = "start" => Coming = <<>> \/ (Replies(stage, frame) /\ Coming = Reply(stage, frame))
  /\ pc = "header" => Replies(stage, frame) /\ got \o Coming = Head3(stage, frame) \o Body(stage, frame)
  /\ pc = "payload" => /\ Replies(stage, frame) /\ got \o Coming = Body(stage, frame)
                       /\ header = [length |-> Len(Body(stage, frame)), type |-> Kind(stage)]
  /\ pc = "check" => /\ Replies(stage, frame) /\ got = Body(stage, frame) /\ Coming = <<>>
                     /\ header = [length |-> Len(Body(stage, frame)), type |-> Kind(stage)]
                     /\ field = got[1]

FirstFlow == starts <= 1 /\ lost = 0 => Flow

\* sequences taken apart and put together
LEMMA FirstAndRest ==
  ASSUME NEW S, NEW u \in Seq(S), u # <<>>
  PROVE  Head(u) \in S /\ Tail(u) \in Seq(S) /\ u = <<Head(u)>> \o Tail(u)
<1>1. Len(u) \in Nat \ {0}
  BY EmptySeq
<1>2. 1 \in 1 .. Len(u) /\ Len(u) \in 1 .. Len(u)
  BY <1>1
<1>3. SubSeq(u, 1, Len(u)) = <<u[1]>> \o SubSeq(u, 1 + 1, Len(u))
  BY <1>2, SubSeqRecursiveFirst
<1>4. SubSeq(u, 1, Len(u)) = u /\ Tail(u) = SubSeq(u, 2, Len(u)) /\ u[1] = Head(u)
  BY SubSeqFull, TailIsSubSeq
<1>5. 1 + 1 = 2
  OBVIOUS
<1> QED
  BY <1>3, <1>4, <1>5, HeadTailProperties, Zenon

\* two sequences put together otherwise
LEMMA SamePrefix ==
  ASSUME NEW S, NEW u \in Seq(S), NEW v \in Seq(S), NEW x \in Seq(S), NEW y \in Seq(S),
         u \o v = x \o y, Len(u) = Len(x)
  PROVE  u = x /\ v = y
<1>1. Len(u) \in Nat /\ Len(x) \in Nat /\ Len(v) \in Nat
  BY LenProperties
<1>2. ASSUME NEW i \in 1 .. Len(u) PROVE u[i] = x[i]
  <2>1. (u \o v)[i] = u[i]
    BY <1>1, ConcatProperties
  <2>2. (x \o y)[i] = x[i]
    BY <1>1, ConcatProperties
  <2> QED
    BY <2>1, <2>2
<1>3. u = x
  BY <1>2, SeqEqual, Zenon
<1> QED
  BY <1>3, ConcatSimplifications, Zenon

Regroups(u, v, w) == (u \o v) \o w = u \o (v \o w)

LEMMA Regrouped ==
  ASSUME NEW u \in Seq(Byte), NEW v \in Seq(Byte), NEW w \in Seq(Byte)
  PROVE  Regroups(u, v, w)
BY ConcatAssociative, SMTT(40) DEF Regroups

LEMMA ByteSeqs ==
  /\ <<>> \in Seq(Byte)
  /\ \A a \in Byte : <<a>> \in Seq(Byte) /\ Len(<<a>>) = 1
  /\ \A a, b \in Byte : <<a, b>> \in Seq(Byte) /\ Len(<<a, b>>) = 2
  /\ \A a, b, c \in Byte : <<a, b, c>> \in Seq(Byte) /\ Len(<<a, b, c>>) = 3
OBVIOUS

\* what the vocoder's replies are
LEMMA BodyIs ==
  ASSUME NEW s, NEW f, Replies(s, f)
  PROVE  /\ Body(s, f) \in Seq(Byte)
         /\ Len(Body(s, f)) \in 1 .. 1 + MaxPayload
         /\ Body(s, f)[1] = IF s = "data" THEN DataField ELSE FieldOf[s]
         /\ Head3(s, f) \in Seq(Byte) /\ Len(Head3(s, f)) = 3
         /\ Reply(s, f) \in Seq(Byte)
         /\ s = "data" => /\ Len(Body(s, f)) = 2 + DataBytes /\ Len(f) = DataBytes
                          /\ Body(s, f)[2] = DataCount
                          /\ SubSeq(Body(s, f), 3, Len(Body(s, f))) = f
<1>0. MaxPayload \in Nat /\ DataBytes \in Nat \ {0} /\ DataBytes < MaxPayload
  BY LinkAssumption
<1>1. ASSUME s # "data"
      PROVE  /\ Body(s, f) \in Seq(Byte)
             /\ Len(Body(s, f)) \in 1 .. 1 + MaxPayload
             /\ Body(s, f)[1] = FieldOf[s]
  <2>1. /\ FieldOf[s] \in Byte /\ TextOf[s] \in Seq(Byte) /\ Len(TextOf[s]) <= MaxPayload
    BY <1>1, LinkAssumption DEF Replies
  <2>2. <<FieldOf[s]>> \in Seq(Byte) /\ Len(<<FieldOf[s]>>) = 1 /\ <<FieldOf[s]>>[1] = FieldOf[s]
    BY <2>1, ByteSeqs
  <2>3. Body(s, f) = <<FieldOf[s]>> \o TextOf[s]
    BY <1>1, Zenon DEF Body
  <2>4. /\ Body(s, f) \in Seq(Byte)
        /\ Len(Body(s, f)) = 1 + Len(TextOf[s])
        /\ Body(s, f)[1] = FieldOf[s]
    BY <2>1, <2>2, <2>3, ConcatProperties
  <2>5. Len(TextOf[s]) \in Nat
    BY <2>1, LenProperties
  <2>6. \A n \in Nat : n <= MaxPayload => 1 + n \in 1 .. 1 + MaxPayload
    BY <1>0
  <2> QED
    BY <2>1, <2>4, <2>5, <2>6, Zenon
<1>2. ASSUME s = "data"
      PROVE  /\ Body(s, f) \in Seq(Byte)
             /\ Len(Body(s, f)) \in 1 .. 1 + MaxPayload
             /\ Body(s, f)[1] = DataField
             /\ Len(Body(s, f)) = 2 + DataBytes /\ Len(f) = DataBytes
             /\ Body(s, f)[2] = DataCount
             /\ SubSeq(Body(s, f), 3, Len(Body(s, f))) = f
  <2>1. f \in Frames
    <3>1. "data" \notin Asked
      BY DEF Asked, Questions
    <3> QED
      BY <1>2, <3>1, Zenon DEF Replies
  <2>2. f \in Seq(Byte) /\ Len(f) = DataBytes
    BY <1>0, <2>1, LinkAssumption
  <2> DEFINE first == <<DataField, DataCount>>
  <2>3. first \in Seq(Byte) /\ Len(first) = 2 /\ first[1] = DataField /\ first[2] = DataCount
    BY ByteSeqs, LinkAssumption
  <2>4. Body(s, f) = first \o f
    BY <1>2, Zenon DEF Body
  <2> HIDE DEF first
  <2>5. /\ Body(s, f) \in Seq(Byte)
        /\ Len(Body(s, f)) = 2 + DataBytes
        /\ \A i \in 1 .. 2 + DataBytes : Body(s, f)[i] = IF i <= 2 THEN first[i] ELSE f[i - 2]
    <3>1. /\ first \o f \in Seq(Byte)
          /\ Len(first \o f) = Len(first) + Len(f)
          /\ \A i \in 1 .. Len(first) + Len(f) :
               (first \o f)[i] = IF i <= Len(first) THEN first[i] ELSE f[i - Len(first)]
      BY <2>2, <2>3, ConcatProperties, Zenon
    <3> QED
      BY <2>2, <2>3, <2>4, <3>1, Zenon
  <2>6. Body(s, f)[1] = DataField /\ Body(s, f)[2] = DataCount
    BY <1>0, <2>3, <2>5
  <2>7. SubSeq(Body(s, f), 3, Len(Body(s, f))) = f
    <3>1. SubSeq(Body(s, f), 3, Len(Body(s, f))) = SubSeq(f, 3 - 2, (2 + DataBytes) - 2)
      <4>1. 3 \in 3 .. 2 + DataBytes /\ 2 + DataBytes \in 3 .. 2 + DataBytes /\ 2 + 1 = 3
        BY <1>0
      <4> QED
        BY <2>2, <2>3, <2>4, <2>5, <4>1, SubSeqOfConcat2
    <3>2. 3 - 2 = 1 /\ (2 + DataBytes) - 2 = DataBytes
      BY <1>0
    <3> QED
      BY <2>2, <3>1, <3>2, SubSeqFull, Zenon
  <2>8. 2 + DataBytes \in 1 .. 1 + MaxPayload
    BY <1>0
  <2> QED
    BY <2>2, <2>5, <2>6, <2>7, <2>8, Zenon
<1>3. /\ Body(s, f) \in Seq(Byte)
      /\ Len(Body(s, f)) \in 1 .. 1 + MaxPayload
  BY <1>1, <1>2, Zenon
<1>4. Head3(s, f) \in Seq(Byte) /\ Len(Head3(s, f)) = 3
  <2>1. Len(Body(s, f)) \in Nat /\ Len(Body(s, f)) < Base * Base
    BY <1>3, LinkAssumption
  <2>2. Len(Body(s, f)) \div Base \in Byte /\ Len(Body(s, f)) % Base \in Byte /\ Kind(s) \in Byte
    BY <2>1, LengthBytes, LinkAssumption DEF Kind
  <2> QED
    BY <2>2, ByteSeqs, Zenon DEF Head3
<1>5. Reply(s, f) \in Seq(Byte)
  <2>1. <<DV3K_START_BYTE>> \in Seq(Byte)
    BY ByteSeqs, LinkAssumption
  <2> QED
    BY <1>3, <1>4, <2>1, ConcatProperties, Zenon DEF Reply
<1> QED
  BY <1>1, <1>2, <1>3, <1>4, <1>5, Zenon

LEMMA TwoBytes ==
  ASSUME NEW a \in Byte, NEW b \in Byte
  PROVE  <<a, b>> = <<a>> \o <<b>>
<1> DEFINE first == <<a>>
           second == <<b>>
           both == <<a, b>>
<1>1. /\ first \in Seq(Byte) /\ Len(first) = 1 /\ first[1] = a
      /\ second \in Seq(Byte) /\ Len(second) = 1 /\ second[1] = b
      /\ both \in Seq(Byte) /\ Len(both) = 2 /\ both[1] = a /\ both[2] = b
  BY ByteSeqs
<1> HIDE DEF first, second, both
<1>2. /\ first \o second \in Seq(Byte)
      /\ Len(first \o second) = Len(first) + Len(second)
      /\ \A i \in 1 .. Len(first) + Len(second) :
           (first \o second)[i] = IF i <= Len(first) THEN first[i] ELSE second[i - Len(first)]
  BY <1>1, ConcatProperties, Zenon
<1>3. Len(first \o second) = 2 /\ \A i \in 1 .. 2 : both[i] = (first \o second)[i]
  BY <1>1, <1>2
<1>4. both = first \o second
  BY <1>1, <1>2, <1>3, SeqEqual, Zenon
<1> QED
  BY <1>4, Zenon DEF first, second, both

Parts(a, b, c, d, e) == <<a, b, c, d, e>> = <<a>> \o (<<b, c, d>> \o <<e>>)

LEMMA FiveBytes ==
  ASSUME NEW a \in Byte, NEW b \in Byte, NEW c \in Byte, NEW d \in Byte, NEW e \in Byte
  PROVE  Parts(a, b, c, d, e)
<1> DEFINE end == <<b, c, d>> \o <<e>>
           all == <<a>> \o end
<1>1. <<b, c, d>> \in Seq(Byte) /\ <<e>> \in Seq(Byte) /\ <<a>> \in Seq(Byte)
  OBVIOUS
<1>2. /\ end \in Seq(Byte) /\ Len(end) = 4
      /\ end[1] = b /\ end[2] = c /\ end[3] = d /\ end[4] = e
  BY <1>1, ConcatProperties
<1> HIDE DEF end
<1>3. /\ all \in Seq(Byte) /\ Len(all) = 5
      /\ all[1] = a /\ all[2] = end[1] /\ all[3] = end[2] /\ all[4] = end[3] /\ all[5] = end[4]
  <2> DEFINE first == <<a>>
  <2>1. first \in Seq(Byte) /\ Len(first) = 1 /\ first[1] = a
    BY ByteSeqs
  <2>2. all = first \o end
    OBVIOUS
  <2> HIDE DEF first, all
  <2>3. /\ first \o end \in Seq(Byte)
        /\ Len(first \o end) = Len(first) + Len(end)
        /\ \A i \in 1 .. Len(first) + Len(end) :
             (first \o end)[i] = IF i <= Len(first) THEN first[i] ELSE end[i - Len(first)]
    BY <1>2, <2>1, ConcatProperties, Zenon
  <2> QED
    BY <1>2, <2>1, <2>2, <2>3
<1> HIDE DEF all
<1>4. <<a, b, c, d, e>> \in Seq(Byte) /\ Len(<<a, b, c, d, e>>) = 5
  OBVIOUS
<1>5. \A i \in 1 .. 5 : all[i] = <<a, b, c, d, e>>[i]
  BY <1>2, <1>3
<1>6. all = <<a, b, c, d, e>>
  BY <1>3, <1>4, <1>5, SeqEqual
<1> QED
  BY <1>6, Zenon DEF all, end, Parts

\* a packet is a start byte, three bytes of header, and what they say
Says(packet, type, body) ==
  packet = <<DV3K_START_BYTE>> \o (<<Len(body) \div Base, Len(body) % Base, type>> \o body)

LEMMA PacketIs ==
  ASSUME NEW type \in Byte, NEW id \in Byte, NEW rest \in Seq(Byte), Len(rest) <= MaxPayload,
         NEW body, body = <<id>> \o rest
  PROVE  Says(Packet(type, id, rest), type, body)
<1>1. Len(rest) \in Nat /\ 1 + Len(rest) \in Nat /\ 1 + Len(rest) < Base * Base
  BY LenProperties, LinkAssumption
<1> DEFINE high == (1 + Len(rest)) \div Base
           low == (1 + Len(rest)) % Base
           start == DV3K_START_BYTE
<1>2. high \in Byte /\ low \in Byte /\ start \in Byte
  BY <1>1, LengthBytes, LinkAssumption
<1>3. <<id>> \in Seq(Byte) /\ Len(<<id>>) = 1
  BY ByteSeqs
<1>4. body \in Seq(Byte) /\ Len(body) = 1 + Len(rest)
  BY <1>3, ConcatProperties
<1>5. Packet(type, id, rest) = <<start, high, low, type, id>> \o rest
  BY Zenon DEF Packet
<1>6. <<Len(body) \div Base, Len(body) % Base, type>> = <<high, low, type>>
  BY <1>4, Zenon
<1> HIDE DEF high, low, start
<1>7. <<start, high, low, type, id>> = <<start>> \o (<<high, low, type>> \o <<id>>)
  <2>1. high \in Byte
    BY <1>2
  <2>2. low \in Byte
    BY <1>2
  <2>3. start \in Byte
    BY <1>2
  <2>4. Parts(start, high, low, type, id)
    BY <2>1, <2>2, <2>3, FiveBytes
  <2> QED
    BY <2>4, Zenon DEF Parts
<1>8. <<start>> \in Seq(Byte) /\ <<high, low, type>> \in Seq(Byte)
  BY <1>2, ByteSeqs, Zenon
<1>9. /\ <<high, low, type>> \o <<id>> \in Seq(Byte)
      /\ (<<high, low, type>> \o <<id>>) \o rest = <<high, low, type>> \o body
  <2>1. <<high, low, type>> \o <<id>> \in Seq(Byte)
    BY <1>3, <1>8, ConcatProperties
  <2>2. (<<high, low, type>> \o <<id>>) \o rest = <<high, low, type>> \o (<<id>> \o rest)
    BY <1>3, <1>8, Regrouped, Zenon DEF Regroups
  <2> QED
    BY <2>1, <2>2
<1>10. (<<start>> \o (<<high, low, type>> \o <<id>>)) \o rest
         = <<start>> \o ((<<high, low, type>> \o <<id>>) \o rest)
  BY <1>8, <1>9, Regrouped, Zenon DEF Regroups
<1>11. Packet(type, id, rest) = <<start>> \o (<<high, low, type>> \o body)
  BY <1>5, <1>7, <1>9, <1>10, Zenon
<1> QED
  BY <1>6, <1>11, Zenon DEF start, Says

LEMMA AskedReply ==
  ASSUME NEW q \in Asked, NEW f
  PROVE  Packet(DV3K_TYPE_CONTROL, FieldOf[q], TextOf[q]) = Reply(q, f)
<1>1. /\ DV3K_TYPE_CONTROL \in Byte /\ FieldOf[q] \in Byte /\ TextOf[q] \in Seq(Byte)
      /\ Len(TextOf[q]) <= MaxPayload
  BY LinkAssumption
<1>2. q # "data"
  BY DEF Asked, Questions
<1>3. Body(q, f) = <<FieldOf[q]>> \o TextOf[q]
  BY <1>2, Zenon DEF Body
<1>4. Says(Packet(DV3K_TYPE_CONTROL, FieldOf[q], TextOf[q]), DV3K_TYPE_CONTROL, Body(q, f))
  BY <1>1, <1>3, PacketIs, Zenon
<1> QED
  BY <1>2, <1>4, Zenon DEF Reply, Head3, Kind, Says

LEMMA DataReply ==
  ASSUME NEW f \in Frames
  PROVE  Packet(DataType, DataField, <<DataCount>> \o f) = Reply("data", f)
<1>0. DataType \in Byte /\ DataField \in Byte /\ DataCount \in Byte
  BY LinkAssumption
<1>1. f \in Seq(Byte) /\ Len(f) = DataBytes
  BY LinkAssumption
<1>2. <<DataCount>> \in Seq(Byte) /\ Len(<<DataCount>>) = 1 /\ <<DataField>> \in Seq(Byte)
  BY <1>0, ByteSeqs
<1>3. <<DataCount>> \o f \in Seq(Byte) /\ Len(<<DataCount>> \o f) = Len(<<DataCount>>) + Len(f)
  BY <1>1, <1>2, ConcatProperties, Zenon
<1>4. Len(<<DataCount>> \o f) <= MaxPayload
  <2>1. 1 + DataBytes <= MaxPayload
    BY LinkAssumption
  <2> QED
    BY <1>1, <1>2, <1>3, <2>1, Zenon
<1>5. Body("data", f) = <<DataField>> \o (<<DataCount>> \o f)
  <2>1. <<DataField, DataCount>> = <<DataField>> \o <<DataCount>>
    BY <1>0, TwoBytes, Zenon
  <2>2. (<<DataField>> \o <<DataCount>>) \o f = <<DataField>> \o (<<DataCount>> \o f)
    BY <1>1, <1>2, Regrouped, Zenon DEF Regroups
  <2> QED
    BY <2>1, <2>2, Zenon DEF Body
<1>6. Says(Packet(DataType, DataField, <<DataCount>> \o f), DataType, Body("data", f))
  BY <1>0, <1>3, <1>4, <1>5, PacketIs, Zenon
<1> QED
  BY <1>6, Zenon DEF Reply, Head3, Kind, Says

\* with nothing left of what came before, all that comes is the answer, if there is one
LEMMA Answered ==
  ASSUME TypeOK, Coming = <<>>, NEW q \in Asked \cup {"data"}, Answer(q), line' = line
  PROVE  Coming' = <<>> \/ (Replies(q, frame') /\ Coming' = Reply(q, frame'))
<1>1. line \in Seq(Byte) /\ sending \in Seq(Byte)
  BY DEF TypeOK
<1>2. line = <<>> /\ sending = <<>>
  BY <1>1, ConcatEqualIffEmpty DEF Coming
<1>3. ASSUME NEW packet \in Seq(Byte), sending' = <<>> \o packet PROVE Coming' = packet
  BY <1>2, <1>3, ConcatEmptySeq DEF Coming
<1>4. CASE UNCHANGED sending
  BY <1>4 DEF Coming
<1>5. CASE /\ q \in Asked
           /\ \E before \in {sending} \cup IF q = "reset" THEN {<<>>} ELSE {} :
                sending' = before \o Packet(DV3K_TYPE_CONTROL, FieldOf[q], TextOf[q])
           /\ frame' = <<>>
  <2>1. Replies(q, frame') /\ sending' = <<>> \o Reply(q, frame')
    BY <1>2, <1>5, AskedReply, Zenon DEF Replies
  <2> QED
    BY <1>3, <2>1, BodyIs, Zenon
<1>6. CASE /\ q = "data"
           /\ frame' \in Frames
           /\ sending' = sending \o Packet(DataType, DataField, <<DataCount>> \o frame')
  <2>1. Replies(q, frame') /\ sending' = <<>> \o Reply(q, frame')
    BY <1>2, <1>6, DataReply, Zenon DEF Replies
  <2> QED
    BY <1>3, <2>1, BodyIs, Zenon
<1> QED
  BY <1>4, <1>5, <1>6 DEF Answer

\* what is read is not on the line any more
LEMMA ReadOn ==
  ASSUME IInv, NEW wanted \in Nat, Len(got) < wanted, ReadUpTo(wanted), sending' = sending
  PROVE  got' \o Coming' = got \o Coming
<1> DEFINE n == IF Len(line) < wanted - Len(got) THEN Len(line) ELSE wanted - Len(got)
           some == SubSeq(line, 1, n)
           rest == SubSeq(line, n + 1, Len(line))
<1>1. got \in Seq(Byte) /\ line \in Seq(Byte) /\ sending \in Seq(Byte)
  BY DEF IInv, TypeOK
<1>2. n > 0 /\ got' = got \o some /\ line' = rest
  BY DEF ReadUpTo
<1>3. n \in Nat /\ n <= Len(line)
  BY <1>1
<1> HIDE DEF n
<1>4. some \in Seq(Byte) /\ rest \in Seq(Byte)
  BY <1>1, <1>2, <1>3
<1>5. some \o rest = line
  <2>1. 1 \in 1 .. Len(line) + 1 /\ n \in 1 - 1 .. Len(line) /\ Len(line) \in n .. Len(line)
    BY <1>1, <1>3
  <2>2. some \o rest = SubSeq(line, 1, Len(line))
    BY <1>1, <2>1, ConcatAdjacentSubSeq
  <2> QED
    BY <1>1, <2>2, SubSeqFull
<1> HIDE DEF some, rest
<1>6. rest \o sending \in Seq(Byte)
  BY <1>1, <1>4, ConcatProperties
<1>7. (got \o some) \o (rest \o sending) = got \o (some \o (rest \o sending))
  <2>1. Regroups(got, some, rest \o sending)
    BY <1>1, <1>4, <1>6, Regrouped, Zenon
  <2> QED
    BY <2>1, Zenon DEF Regroups
<1>8. some \o (rest \o sending) = (some \o rest) \o sending
  <2>1. Regroups(some, rest, sending)
    BY <1>1, <1>4, Regrouped, Zenon
  <2> QED
    BY <2>1, Zenon DEF Regroups
<1> QED
  BY <1>2, <1>5, <1>7, <1>8, Zenon DEF Coming

\* two bytes of a length are the length
LEMMA LengthRead ==
  ASSUME NEW n \in Nat
  PROVE  (n \div Base) * Base + (n % Base) = n
<1>1. Base \in Nat \ {0}
  BY Sizes
<1>2. PICK q \in Nat : q = n \div Base
  BY <1>1
<1>3. n = Base * q + (n % Base)
  BY <1>1, <1>2
<1>4. Base * q = q * Base
  BY <1>1, <1>2
<1> QED
  BY <1>2, <1>3, <1>4, Zenon

LEMMA CountsGrow == IInv /\ [Next]_vars => starts <= starts' /\ lost <= lost'
<1> SUFFICES ASSUME IInv, [Next]_vars PROVE starts <= starts' /\ lost <= lost'
  OBVIOUS
<1>1. starts \in Nat /\ lost \in Nat
  BY LinkAssumption DEF IInv, TypeOK
<1>2. \/ starts' = starts /\ lost' = lost
      \/ starts' = starts + 1 /\ lost' = lost
      \/ starts' = starts /\ lost' = lost + 1
  BY DEF Next, vars, OpenDevice, Call, Stop, ReadError, Read, Check, Transmit, LoseByte, Ask, Fail,
     AskControl, NoStart, Start, ReadHeader, HeaderRead, ReadPayload, CheckData, CheckControl
<1> QED
  BY <1>1, <1>2

\* the first byte of a reply is a start byte, and no other comes before it
Started(some, rest, s, f) ==
  Head(some) = DV3K_START_BYTE /\ Tail(some) \o rest = Head3(s, f) \o Body(s, f)

LEMMA StartOf ==
  ASSUME NEW some \in Seq(Byte), NEW rest \in Seq(Byte), some # <<>>,
         NEW s, NEW f, Replies(s, f), some \o rest = Reply(s, f)
  PROVE  Started(some, rest, s, f)
<1> DEFINE first == Head(some)
           more == Tail(some)
           left == more \o rest
           start == DV3K_START_BYTE
           said == Head3(s, f) \o Body(s, f)
<1>1. first \in Byte /\ more \in Seq(Byte) /\ start \in Byte
  BY HeadTailProperties, LinkAssumption
<1>2. left \in Seq(Byte) /\ said \in Seq(Byte)
  BY <1>1, BodyIs, ConcatProperties
<1>3. some = <<first>> \o more
  BY FirstAndRest
<1> HIDE DEF first, more
<1>4. <<first>> \in Seq(Byte) /\ <<start>> \in Seq(Byte) /\ Len(<<first>>) = Len(<<start>>)
  BY <1>1, ByteSeqs, Zenon
<1>5. some \o rest = <<first>> \o left
  <2>1. Regroups(<<first>>, more, rest)
    BY <1>1, <1>4, Regrouped, Zenon
  <2> QED
    BY <1>3, <2>1, Zenon DEF Regroups
<1>6. some \o rest = <<start>> \o said
  BY Zenon DEF Reply
<1> HIDE DEF left, start, said
<1>7. <<first>> = <<start>> /\ left = said
  <2> DEFINE one == <<first>>
             other == <<start>>
  <2>1. one \in Seq(Byte) /\ other \in Seq(Byte) /\ Len(one) = Len(other) /\ one \o left = other \o said
    BY <1>4, <1>5, <1>6, Zenon
  <2> HIDE DEF one, other
  <2>2. one = other /\ left = said
    BY <1>2, <2>1, SamePrefix
  <2> QED
    BY <2>2, Zenon DEF one, other
<1>8. first = start
  BY <1>7
<1> QED
  BY <1>7, <1>8, Zenon DEF first, more, left, start, said, Started

\* a call that fails, and one that begins when all is read
LEMMA FailFlow ==
  ASSUME Fail, starts # 0
  PROVE  Flow'
BY DEF Fail, Failed, Flow

LEMMA AskFlow ==
  ASSUME TypeOK, Coming = <<>>, starts # 0, NEW q \in Asked \cup {"data"}, Ask(q), Answer(q)
  PROVE  Flow'
<1>1. stage' = q /\ pc' = "start" /\ line' = line /\ starts' = starts
  BY DEF Ask
<1>2. Coming' = <<>> \/ (Replies(stage', frame') /\ Coming' = Reply(stage', frame'))
  BY <1>1, Answered, Zenon
<1> QED
  BY <1>1, <1>2 DEF Flow

LEMMA InitFlow == Init => FirstFlow
<1>1. <<>> \o <<>> = <<>>
  BY ConcatEmptySeq
<1> QED
  BY <1>1 DEF Init, FirstFlow, Flow, Coming

\* a byte that has come on the line is still to be read
LEMMA TransmitFlow == TypeOK /\ Flow /\ Transmit => Flow'
<1> SUFFICES ASSUME TypeOK, Flow, Transmit PROVE Flow'
  OBVIOUS
<1>1. line \in Seq(Byte) /\ sending \in Seq(Byte) /\ sending # <<>>
  BY DEF TypeOK, Transmit
<1> DEFINE first == Head(sending)
           rest == Tail(sending)
<1>2. first \in Byte /\ rest \in Seq(Byte) /\ <<first>> \in Seq(Byte)
  BY <1>1, HeadTailProperties, ByteSeqs
<1>3. sending = <<first>> \o rest
  BY <1>1, FirstAndRest
<1>4. line' = line \o <<first>> /\ sending' = rest
  BY <1>1, <1>2, AppendIsConcat DEF Transmit
<1> HIDE DEF first, rest
<1>5. (line \o <<first>>) \o rest = line \o (<<first>> \o rest)
  <2>1. Regroups(line, <<first>>, rest)
    BY <1>1, <1>2, Regrouped, Zenon
  <2> QED
    BY <2>1, Zenon DEF Regroups
<1>6. Coming' = Coming
  BY <1>3, <1>4, <1>5, Zenon DEF Coming
<1>7. UNCHANGED <<pc, stage, got, header, field, frame, starts>>
  BY DEF Transmit
<1> QED
  BY <1>6, <1>7 DEF Flow

\* whatever happens to an answer that is there whole, unless a byte of it is lost
LEMMA KeepsFlow ==
  ASSUME IInv, Flow, [Next]_vars, ~OpenDevice, lost' = lost
  PROVE  Flow'
<1>0. /\ TypeOK /\ starts \in Nat /\ lost \in Nat
      /\ got \in Seq(Byte) /\ line \in Seq(Byte) /\ sending \in Seq(Byte)
  BY LinkAssumption DEF IInv, TypeOK
<1>1. Flow
  OBVIOUS
<1>2. pc # "closed" => starts # 0
  BY <1>1 DEF Flow
<1>3. Coming \in Seq(Byte)
  BY <1>0, ConcatProperties DEF Coming
<1>4. CASE UNCHANGED vars
  BY <1>1, <1>4 DEF vars, Flow, Coming
<1>6. CASE Call
  <2>1. starts # 0 /\ Coming = <<>>
    BY <1>1, <1>2, <1>6 DEF Call, Flow
  <2>2. CASE Ask("data") /\ Answer("data")
    BY <1>0, <2>1, <2>2, AskFlow
  <2>3. CASE Fail
    BY <2>1, <2>3, FailFlow
  <2> QED
    BY <1>6, <2>2, <2>3 DEF Call
<1>7. CASE Stop
  BY <1>2, <1>7 DEF Stop, Flow
<1>8. CASE ReadError
  BY <1>2, <1>8, FailFlow DEF ReadError
<1>9. CASE NoStart
  <2>1. pc = "start" /\ pc' \in {"failed", "start"} /\ UNCHANGED <<stage, sending, frame, starts>>
    BY <1>9 DEF NoStart, Failed
  <2>2. starts # 0 /\ (Coming = <<>> \/ (Replies(stage, frame) /\ Coming = Reply(stage, frame)))
    BY <1>1, <1>2, <2>1 DEF Flow
  <2>3. line = <<>>
    <3>1. SUFFICES ASSUME line # <<>> PROVE Head(line) = DV3K_START_BYTE
      BY <1>9, <3>1 DEF NoStart
    <3>2. Coming # <<>>
      BY <1>0, <3>1, ConcatEqualIffEmpty DEF Coming
    <3>3. Replies(stage, frame) /\ line \o sending = Reply(stage, frame)
      BY <2>2, <3>2 DEF Coming
    <3>4. Started(line, sending, stage, frame)
      BY <1>0, <3>1, <3>3, StartOf
    <3> QED
      BY <3>4, Zenon DEF Started
  <2>4. Coming' = Coming
    BY <1>9, <2>1, <2>3 DEF NoStart, Coming
  <2> QED
    BY <2>1, <2>2, <2>4 DEF Flow
<1>10. CASE Start
  <2>1. /\ pc = "start" /\ pc' = "header" /\ line # <<>> /\ line' = Tail(line)
        /\ UNCHANGED <<stage, got, sending, frame, starts>>
    BY <1>10 DEF Start
  <2>2. Coming # <<>>
    BY <1>0, <2>1, ConcatEqualIffEmpty DEF Coming
  <2>3. Replies(stage, frame) /\ line \o sending = Reply(stage, frame)
    BY <1>1, <2>1, <2>2 DEF Flow, Coming
  <2>4. Coming' = Head3(stage, frame) \o Body(stage, frame)
    <3>1. Tail(line) \o sending = Head3(stage, frame) \o Body(stage, frame)
      <4>1. line \in Seq(Byte) /\ sending \in Seq(Byte) /\ line # <<>>
        BY <1>0, <2>1
      <4>2. Started(line, sending, stage, frame)
        BY <2>3, <4>1, StartOf
      <4> QED
        BY <4>2, Zenon DEF Started
    <3> QED
      BY <2>1, <3>1 DEF Coming
  <2>5. got' \o Coming' = Coming'
    <3>1. got' = <<>>
      BY <2>1 DEF IInv, Room
    <3>2. Coming' \in Seq(Byte)
      <4>1. Head3(stage, frame) \in Seq(Byte) /\ Body(stage, frame) \in Seq(Byte)
        BY <2>3, BodyIs, Zenon
      <4> QED
        BY <2>4, <4>1, ConcatProperties, Zenon
    <3> QED
      BY <3>1, <3>2, ConcatEmptySeq
  <2> QED
    BY <1>2, <2>1, <2>3, <2>4, <2>5 DEF Flow
<1>11. CASE ReadHeader
  <2>1. /\ pc = "header" /\ Len(got) < 3 /\ ReadUpTo(3)
        /\ UNCHANGED <<pc, stage, header, field, sending, frame, starts>>
    BY <1>11 DEF ReadHeader
  <2>2. got' \o Coming' = got \o Coming
    BY <2>1, ReadOn
  <2> QED
    BY <1>1, <1>2, <2>1, <2>2 DEF Flow
<1>12. CASE HeaderRead
  <2> DEFINE body == Body(stage, frame)
             head == Head3(stage, frame)
             length == got[1] * Base + got[2]
  <2>1. /\ pc = "header" /\ Len(got) = 3
        /\ header' = [length |-> length, type |-> got[3]]
        /\ got' = <<>>
        /\ pc' = IF TooLong(length) THEN Failed ELSE IF length = 0 THEN "check" ELSE "payload"
        /\ UNCHANGED <<stage, line, sending, frame, starts>>
    BY <1>12 DEF HeaderRead
  <2>2. Replies(stage, frame) /\ got \o Coming = head \o body
    BY <1>1, <2>1 DEF Flow
  <2>3. body \in Seq(Byte) /\ head \in Seq(Byte) /\ Len(head) = 3 /\ Len(body) \in 1 .. 1 + MaxPayload
    BY <2>2, BodyIs
  <2>4. got = head /\ Coming = body
    <3> HIDE DEF body, head
    <3> QED
      BY <1>0, <1>3, <2>1, <2>2, <2>3, SamePrefix
  <2>5. got[1] = Len(body) \div Base /\ got[2] = Len(body) % Base /\ got[3] = Kind(stage)
    <3>1. head = <<Len(body) \div Base, Len(body) % Base, Kind(stage)>>
      BY Zenon DEF Head3
    <3> HIDE DEF head, body
    <3> QED
      BY <2>4, <3>1
  <2> HIDE DEF body, head
  <2>6. length = Len(body)
    <3>1. Len(body) \in Nat
      BY <2>3, LenProperties
    <3> QED
      BY <2>5, <3>1, LengthRead
  <2> HIDE DEF length
  <2>7. pc' = "payload"
    <3>1. length \in 1 .. 1 + MaxPayload /\ MaxPayload \in Nat
      BY <2>3, <2>6, Sizes
    <3> QED
      BY <2>1, <3>1 DEF TooLong
  <2>8. Coming' = Coming
    BY <2>1 DEF Coming
  <2>9. got' \o Coming' = body
    BY <2>1, <2>3, <2>4, <2>8, ConcatEmptySeq
  <2>10. Flow' <=> Replies(stage, frame) /\ header' = [length |-> Len(body), type |-> Kind(stage)] /\ got' \o Coming' = body
    BY <1>2, <2>1, <2>7 DEF Flow, body
  <2> QED
    BY <2>1, <2>2, <2>5, <2>6, <2>9, <2>10, Zenon
<1>13. CASE ReadPayload
  <2> DEFINE body == Body(stage, frame)
  <2>1. /\ pc = "payload" /\ ReadUpTo(header.length) /\ field' = got'[1]
        /\ pc' = IF Len(got') = header.length THEN "check" ELSE "payload"
        /\ UNCHANGED <<stage, header, sending, frame, starts>>
    BY <1>13 DEF ReadPayload
  <2>2. /\ Replies(stage, frame) /\ got \o Coming = body
        /\ header = [length |-> Len(body), type |-> Kind(stage)]
    BY <1>1, <2>1 DEF Flow
  <2>3. body \in Seq(Byte) /\ header.length = Len(body) /\ Len(body) \in Nat
    BY <2>2, BodyIs, LenProperties
  <2>4. got' \o Coming' = body
    <3>1. header.length \in Nat /\ Len(got) < header.length
      BY <2>1, <2>3 DEF IInv, Room
    <3>2. got' \o Coming' = got \o Coming
      BY <2>1, <3>1, ReadOn
    <3> QED
      BY <2>2, <3>2
  <2>5. CASE Len(got') # header.length
    BY <1>2, <2>1, <2>2, <2>4, <2>5 DEF Flow
  <2>6. CASE Len(got') = header.length
    <3>1. got' \in Seq(Byte) /\ Coming' \in Seq(Byte)
      <4>1. TypeOK'
        BY StepInv DEF IInv
      <4> QED
        BY <4>1, ConcatProperties DEF TypeOK, Coming
    <3>2. got' = body /\ Coming' = <<>>
      <4> HIDE DEF body
      <4>1. body \o <<>> = body /\ <<>> \in Seq(Byte)
        BY <2>3, ConcatEmptySeq, EmptySeq
      <4>2. got' \o Coming' = body \o <<>>
        BY <2>4, <4>1, Zenon
      <4> QED
        BY <2>3, <2>6, <3>1, <4>1, <4>2, SamePrefix
    <3>3. pc' = "check"
      BY <2>1, <2>6
    <3> QED
      BY <1>2, <2>1, <2>2, <3>2, <3>3 DEF Flow
  <2> QED
    BY <2>5, <2>6
<1>14. CASE CheckData
  BY <1>1, <1>2, <1>14 DEF CheckData, Failed, Flow, Coming
<1>15. ASSUME NEW i \in DOMAIN Questions, CheckControl(i) PROVE Flow'
  <2>1. pc = "check" /\ starts # 0 /\ Coming = <<>>
    BY <1>1, <1>2, <1>15 DEF CheckControl, Flow
  <2>2. CASE Fail
    BY <2>1, <2>2, FailFlow
  <2>3. CASE pc' = "ready" /\ UNCHANGED <<stage, reads, got, header, line, sending, frame, lost, starts>>
    BY <2>1, <2>3 DEF Flow, Coming
  <2>4. CASE i # Len(Questions) /\ AskControl(Questions[i + 1])
    <3>1. Questions[i + 1] \in Asked
      <4>1. i + 1 \in DOMAIN Questions
        BY <2>4 DEF Questions
      <4> QED
        BY <4>1 DEF Asked
    <3>2. CASE Ask(Questions[i + 1]) /\ Answer(Questions[i + 1])
      BY <1>0, <2>1, <3>1, <3>2, AskFlow
    <3> QED
      BY <2>2, <2>4, <3>2 DEF AskControl
  <2> QED
    BY <1>15, <2>2, <2>3, <2>4, Zenon DEF CheckControl
<1>16. CASE Transmit
  BY <1>0, <1>1, <1>16, TransmitFlow
<1>17. CASE LoseByte
  <2>1. sending # <<>> /\ pc = "closed" /\ pc' = pc /\ starts' = starts
    BY <1>0, <1>17 DEF LoseByte
  <2>2. Coming # <<>>
    BY <1>0, <2>1, ConcatEqualIffEmpty DEF Coming
  <2> QED
    BY <1>1, <2>1, <2>2 DEF Flow
<1> QED
  BY <1>4, <1>6, <1>7, <1>8, <1>9, <1>10, <1>11, <1>12, <1>13, <1>14, <1>15, <1>16, <1>17
     DEF Next, Read, Check

LEMMA StepFlow == IInv /\ FirstFlow /\ [Next]_vars => FirstFlow'
<1> SUFFICES ASSUME IInv, FirstFlow, [Next]_vars, starts' <= 1, lost' = 0 PROVE Flow'
  BY DEF FirstFlow
<1>0. /\ TypeOK /\ starts \in Nat /\ lost \in Nat
  BY LinkAssumption DEF IInv, TypeOK
<1>1. Flow /\ lost = 0
  <2>1. starts <= starts' /\ lost <= lost' /\ starts' \in Nat /\ lost' \in Nat
    BY CountsGrow, StepInv, LinkAssumption DEF IInv, TypeOK
  <2>2. starts <= 1 /\ lost = 0
    BY <1>0, <2>1
  <2> QED
    BY <2>2 DEF FirstFlow
<1>2. CASE OpenDevice
  <2>1. pc = "closed" /\ starts' = starts + 1 /\ line' = line
    BY <1>2 DEF OpenDevice
  <2>2. starts' # 0 /\ Coming = <<>>
    BY <1>0, <1>1, <2>1 DEF Flow
  <2>3. CASE stage' = "reset" /\ pc' = "start" /\ reads' = 0 /\ Answer("reset")
    <3>1. "reset" \in Asked \cup {"data"}
      BY DEF Asked, Questions
    <3>2. Coming' = <<>> \/ (Replies("reset", frame') /\ Coming' = Reply("reset", frame'))
      BY <1>0, <2>1, <2>2, <2>3, <3>1, Answered
    <3> QED
      BY <2>2, <2>3, <3>2 DEF Flow
  <2>4. CASE pc' = Failed
    BY <2>2, <2>4 DEF Failed, Flow
  <2> QED
    BY <1>2, <2>3, <2>4 DEF OpenDevice
<1>3. CASE ~OpenDevice
  BY <1>1, <1>3, KeepsFlow
<1> QED
  BY <1>2, <1>3

(***************************************************************************)
(* In a first run of the program, while no byte is lost, getresponse tells *)
(* every answer, of whatever bytes and in whatever pieces it comes, and    *)
(* leaves none of it on the line; the callers understand it; and the frame *)
(* they take from it is the vocoder's.                                     *)
(***************************************************************************)
THEOREM AnswerUnderstoodHolds == Spec => []AnswerUnderstood
<1>1. ASSUME IInv, FirstFlow, starts = 1, lost = 0, pc = "check"
      PROVE  /\ line = <<>> /\ sending = <<>>
             /\ IF stage = "data"
                THEN IsData /\ frame # <<>> /\ SubSeq(got, 3, Len(got)) = frame
                ELSE Answers(stage) /\ ~NoAnswer(stage)
  <2>1. /\ Replies(stage, frame) /\ got = Body(stage, frame) /\ Coming = <<>>
        /\ header = [length |-> Len(Body(stage, frame)), type |-> Kind(stage)]
        /\ field = got[1]
    BY <1>1 DEF FirstFlow, Flow
  <2>2. line = <<>> /\ sending = <<>>
    BY <1>1, <2>1, ConcatEqualIffEmpty DEF IInv, TypeOK, Coming
  <2>3. header.length = Len(Body(stage, frame)) /\ header.type = Kind(stage)
    BY <2>1
  <2>4. CASE stage = "data"
    <3>1. /\ Len(got) = 2 + DataBytes /\ Len(frame) = DataBytes
          /\ got[1] = DataField /\ got[2] = DataCount
          /\ SubSeq(got, 3, Len(got)) = frame
      BY <2>1, <2>4, BodyIs
    <3>2. header.length = 2 + DataBytes /\ header.type = DataType
      BY <2>1, <2>3, <2>4, <3>1 DEF Kind
    <3>3. frame # <<>>
      <4>1. Len(<<>>) = 0 /\ DataBytes # 0
        BY LinkAssumption
      <4> QED
        BY <3>1, <4>1, Zenon
    <3> QED
      BY <2>2, <2>4, <3>1, <3>2, <3>3 DEF IsData
  <2>5. CASE stage # "data"
    <3>1. field = FieldOf[stage]
      BY <2>1, <2>5, BodyIs
    <3>2. header.type = DV3K_TYPE_CONTROL
      BY <2>3, <2>5 DEF Kind
    <3> QED
      BY <2>2, <2>5, <3>1, <3>2 DEF Answers, NoAnswer, FieldIs, FieldIsNot
  <2> QED
    BY <2>4, <2>5
<1>2. IInv /\ FirstFlow => AnswerUnderstood
  BY <1>1, Zenon DEF AnswerUnderstood
<1> QED
  BY <1>2, InitInv, StepInv, InitFlow, StepFlow, PTL DEF Spec

-----------------------------------------------------------------------------
(***************************************************************************)
(* The answers to frames, whatever is lost.  A packet of one is told by    *)
(* its length from all that may be left of one of which a byte is lost:    *)
(* what has been read, what waits and what is still to come is together    *)
(* too short for it (Short), or it is the answer (Flow).                   *)
(***************************************************************************)
Taking == Waiting /\ stage = "data"

\* bytes read of the packet, from the start byte on
Held ==
  CASE pc = "header" -> 1 + Len(got)
    [] pc \in {"payload", "check"} -> 4 + Len(got)
    [] OTHER -> 0

Short == Held + Len(line) + Len(sending) < 6 + DataBytes

Own ==
  /\ pc # "closed" => starts # 0
  /\ pc = "ready" => Coming = <<>>
  /\ pc = "check" => Len(got) = header.length
  /\ Taking => Short \/ Flow

LEMMA Lengths ==
  ASSUME TypeOK
  PROVE  /\ Len(got) \in Nat /\ Len(line) \in Nat /\ Len(sending) \in Nat
         /\ Held \in Nat /\ DataBytes \in Nat
         /\ Len(Coming) = Len(line) + Len(sending)
         /\ Len(got \o Coming) = Len(got) + Len(line) + Len(sending)
<1>1. got \in Seq(Byte) /\ line \in Seq(Byte) /\ sending \in Seq(Byte) /\ DataBytes \in Nat
  BY Sizes DEF TypeOK
<1>2. Len(got) \in Nat /\ Len(line) \in Nat /\ Len(sending) \in Nat
  BY <1>1, LenProperties
<1>3. Coming \in Seq(Byte) /\ Len(Coming) = Len(line) + Len(sending)
  BY <1>1, ConcatProperties DEF Coming
<1>4. Len(got \o Coming) = Len(got) + Len(Coming)
  BY <1>1, <1>3, ConcatProperties
<1>5. Held \in Nat
  BY <1>2 DEF Held
<1> QED
  BY <1>1, <1>2, <1>3, <1>4, <1>5

\* the answer to a frame has so many bytes, or there is none
LEMMA WholeLength ==
  ASSUME TypeOK, Flow, Taking
  PROVE  Held + Len(line) + Len(sending) <= 6 + DataBytes
<1> DEFINE body == Body("data", frame)
           head == Head3("data", frame)
<1>0. /\ Len(got) \in Nat /\ Len(line) \in Nat /\ Len(sending) \in Nat /\ DataBytes \in Nat
      /\ Len(Coming) = Len(line) + Len(sending)
      /\ Len(got \o Coming) = Len(got) + Len(line) + Len(sending)
  BY Lengths
<1>1. ASSUME Replies("data", frame)
      PROVE  /\ Len(body) = 2 + DataBytes
             /\ Len(head \o body) = 5 + DataBytes
             /\ Len(Reply("data", frame)) = 6 + DataBytes
  <2>1. /\ body \in Seq(Byte) /\ Len(body) = 2 + DataBytes
        /\ head \in Seq(Byte) /\ Len(head) = 3
    BY <1>1, BodyIs
  <2>2. <<DV3K_START_BYTE>> \in Seq(Byte) /\ Len(<<DV3K_START_BYTE>>) = 1
    BY ByteSeqs, LinkAssumption
  <2> HIDE DEF body, head
  <2> DEFINE said == head \o body
             start == <<DV3K_START_BYTE>>
  <2>3. said \in Seq(Byte) /\ Len(said) = Len(head) + Len(body)
    BY <2>1, ConcatProperties, Zenon
  <2>4. Reply("data", frame) = start \o said
    BY Zenon DEF Reply, head, body
  <2>5. start \in Seq(Byte) /\ Len(start) = 1
    BY <2>2
  <2> HIDE DEF said, start
  <2>6. Len(start \o said) = Len(start) + Len(said)
    BY <2>3, <2>5, ConcatProperties, Zenon
  <2>7. Len(said) = 5 + DataBytes /\ Len(start \o said) = 6 + DataBytes
    BY <1>0, <2>1, <2>3, <2>5, <2>6
  <2> QED
    BY <2>1, <2>4, <2>7, Zenon DEF said
<1>2. CASE pc = "start"
  <2>1. Held = 0
    BY <1>2 DEF Held
  <2>2. Coming = <<>> \/ (Replies("data", frame) /\ Coming = Reply("data", frame))
    BY <1>2 DEF Flow, Taking
  <2>3. Len(Coming) <= 6 + DataBytes
    <3>1. Len(<<>>) = 0
      OBVIOUS
    <3> QED
      BY <1>0, <1>1, <2>2, <3>1
  <2> QED
    BY <1>0, <2>1, <2>3
<1>3. CASE pc = "header"
  <2>1. Held = 1 + Len(got)
    BY <1>3 DEF Held
  <2>2. Replies("data", frame) /\ got \o Coming = head \o body
    BY <1>3 DEF Flow, Taking
  <2> HIDE DEF body, head
  <2> QED
    BY <1>0, <1>1, <2>1, <2>2
<1>4. CASE pc = "payload"
  <2>1. Held = 4 + Len(got)
    BY <1>4 DEF Held
  <2>2. Replies("data", frame) /\ got \o Coming = body
    BY <1>4 DEF Flow, Taking
  <2> HIDE DEF body, head
  <2> QED
    BY <1>0, <1>1, <2>1, <2>2
<1>5. CASE pc = "check"
  <2>1. Held = 4 + Len(got)
    BY <1>5 DEF Held
  <2>2. Replies("data", frame) /\ got = body /\ Coming = <<>>
    BY <1>5 DEF Flow, Taking
  <2>3. Len(Coming) = 0
    BY <2>2
  <2> HIDE DEF body, head
  <2> QED
    BY <1>0, <1>1, <2>1, <2>2, <2>3
<1> QED
  BY <1>2, <1>3, <1>4, <1>5 DEF Taking, Waiting

LEMMA SentOn ==
  ASSUME TypeOK, sending # <<>>, sending' = Tail(sending)
  PROVE  /\ Len(sending') = Len(sending) - 1
         /\ line' = Append(line, Head(sending)) => Len(line') = Len(line) + 1
<1>1. sending \in Seq(Byte) /\ line \in Seq(Byte)
  BY DEF TypeOK
<1> QED
  BY <1>1

\* what is too short stays so while the call goes on
LEMMA KeepsShort ==
  ASSUME IInv, Taking, Short, [Next]_vars, Taking'
  PROVE  Short'
<1>0. /\ TypeOK /\ TypeOK'
      /\ Len(got) \in Nat /\ Len(line) \in Nat /\ Len(sending) \in Nat
      /\ DataBytes \in Nat /\ Held \in Nat
      /\ Len(got \o Coming) = Len(got) + Len(line) + Len(sending)
  BY StepInv, Lengths DEF IInv
<1>1. /\ Len(got') \in Nat /\ Len(line') \in Nat /\ Len(sending') \in Nat
      /\ Len(got' \o Coming') = Len(got') + Len(line') + Len(sending')
  <2>1. got' \in Seq(Byte) /\ line' \in Seq(Byte) /\ sending' \in Seq(Byte)
    BY <1>0 DEF TypeOK
  <2>2. Len(got') \in Nat /\ Len(line') \in Nat /\ Len(sending') \in Nat
    BY <2>1, LenProperties
  <2>3. Coming' \in Seq(Byte) /\ Len(Coming') = Len(line') + Len(sending')
    BY <2>1, ConcatProperties DEF Coming
  <2>4. Len(got' \o Coming') = Len(got') + Len(Coming')
    BY <2>1, <2>3, ConcatProperties
  <2> QED
    BY <2>2, <2>3, <2>4
<1>2. SUFFICES Held' + Len(line') + Len(sending') <= Held + Len(line) + Len(sending)
  <2>1. Held' \in Nat
    BY <1>1 DEF Held
  <2> QED
    BY <1>0, <1>1, <1>2, <2>1 DEF Short
<1>3. CASE UNCHANGED vars
  BY <1>0, <1>3 DEF vars, Held
<1>4. CASE NoStart
  <2>1. pc = "start" /\ pc' = "start" /\ sending' = sending
    BY <1>4 DEF NoStart, Failed, Taking, Waiting
  <2>2. Held = 0 /\ Held' = 0
    BY <2>1 DEF Held
  <2>3. line' = line \/ (line # <<>> /\ line' = Tail(line))
    BY <1>4 DEF NoStart
  <2>4. Len(line') <= Len(line)
    <3>1. line \in Seq(Byte)
      BY <1>0 DEF TypeOK
    <3> QED
      BY <1>0, <2>3, <3>1
  <2> QED
    BY <1>0, <1>1, <2>1, <2>2, <2>4
<1>5. CASE Start
  <2>1. /\ pc = "start" /\ pc' = "header" /\ line # <<>> /\ line' = Tail(line)
        /\ sending' = sending /\ got' = got /\ got = <<>>
    BY <1>5 DEF Start, IInv, Room
  <2>2. Held = 0 /\ Held' = 1 + Len(got') /\ Len(got') = 0
    BY <2>1 DEF Held
  <2>3. Len(line') = Len(line) - 1
    <3>1. line \in Seq(Byte)
      BY <1>0 DEF TypeOK
    <3> QED
      BY <2>1, <3>1
  <2> QED
    BY <1>0, <1>1, <2>1, <2>2, <2>3
<1>6. CASE ReadHeader
  <2>1. pc = "header" /\ pc' = "header" /\ Len(got) < 3 /\ ReadUpTo(3) /\ sending' = sending
    BY <1>6 DEF ReadHeader
  <2>2. got' \o Coming' = got \o Coming
    BY <2>1, ReadOn
  <2>3. Held = 1 + Len(got) /\ Held' = 1 + Len(got')
    BY <2>1 DEF Held
  <2> QED
    BY <1>0, <1>1, <2>2, <2>3
<1>7. CASE HeaderRead
  <2>1. /\ pc = "header" /\ Len(got) = 3 /\ got' = <<>> /\ pc' \in {"check", "payload"}
        /\ UNCHANGED <<line, sending>>
    BY <1>7 DEF HeaderRead, Failed, Taking, Waiting
  <2>2. Held = 4 /\ Held' = 4 + Len(got') /\ Len(got') = 0
    BY <2>1 DEF Held
  <2> QED
    BY <1>0, <2>1, <2>2
<1>8. CASE ReadPayload
  <2>1. /\ pc = "payload" /\ pc' \in {"payload", "check"} /\ ReadUpTo(header.length)
        /\ sending' = sending
    BY <1>8 DEF ReadPayload
  <2>2. header.length \in Nat /\ Len(got) < header.length
    BY <2>1, Sizes DEF IInv, Room, TypeOK
  <2>3. got' \o Coming' = got \o Coming
    BY <2>1, <2>2, ReadOn
  <2>4. Held = 4 + Len(got) /\ Held' = 4 + Len(got')
    BY <2>1 DEF Held
  <2> QED
    BY <1>0, <1>1, <2>3, <2>4
<1>9. CASE Transmit
  <2>1. /\ sending # <<>> /\ sending' = Tail(sending) /\ line' = Append(line, Head(sending))
        /\ UNCHANGED <<pc, got>>
    BY <1>9 DEF Transmit
  <2>2. Len(sending') = Len(sending) - 1 /\ Len(line') = Len(line) + 1
    BY <1>0, <2>1, SentOn
  <2>3. Held' = Held
    BY <2>1 DEF Held
  <2> QED
    BY <1>0, <2>2, <2>3
<1>10. CASE LoseByte
  <2>1. sending # <<>> /\ sending' = Tail(sending) /\ UNCHANGED <<pc, got, line>>
    BY <1>10 DEF LoseByte
  <2>2. Len(sending') = Len(sending) - 1
    BY <1>0, <2>1, SentOn
  <2>3. Held' = Held
    BY <2>1 DEF Held
  <2> QED
    BY <1>0, <2>1, <2>2, <2>3
<1>11. ~OpenDevice /\ ~Call /\ ~Stop /\ ~ReadError /\ ~CheckData
  BY DEF OpenDevice, Call, Stop, ReadError, Fail, CheckData, Failed, Taking, Waiting
<1>12. \A i \in DOMAIN Questions : ~CheckControl(i)
  BY DEF CheckControl, Questions, Taking
<1> QED
  BY <1>3, <1>4, <1>5, <1>6, <1>7, <1>8, <1>9, <1>10, <1>11, <1>12 DEF Next, Read, Check

\* of an answer that a byte is lost of, the rest is too short
LEMMA LosesIt ==
  ASSUME IInv, Taking, Short \/ Flow, LoseByte
  PROVE  Short'
<1>0. /\ TypeOK
      /\ Len(got) \in Nat /\ Len(line) \in Nat /\ Len(sending) \in Nat
      /\ DataBytes \in Nat /\ Held \in Nat
  BY Lengths DEF IInv
<1>1. Held + Len(line) + Len(sending) <= 6 + DataBytes
  BY <1>0, WholeLength DEF Short
<1>2. sending # <<>> /\ sending' = Tail(sending) /\ UNCHANGED <<pc, got, line>>
  BY DEF LoseByte
<1>3. Len(sending') = Len(sending) - 1
  BY <1>0, <1>2, SentOn
<1>4. Held' = Held
  BY <1>2 DEF Held
<1> QED
  BY <1>0, <1>1, <1>2, <1>3, <1>4 DEF Short

\* OpenLeavesNothing, of a step
OpenedClean ==
  pc = "check" /\ stage = "ratep" /\ pc' = "ready" => line = <<>> /\ sending = <<>>

LEMMA InitOwn == Init => Own
BY DEF Init, Own, Taking, Waiting

\* the packet that CheckData takes for the answer is the answer
LEMMA DataIsOwn ==
  ASSUME IInv, Own, pc = "check", stage = "data", IsData
  PROVE  Coming = <<>> /\ frame \in Frames /\ frame # <<>> /\ SubSeq(got, 3, Len(got)) = frame
<1>0. /\ TypeOK /\ Taking
      /\ Len(line) \in Nat /\ Len(sending) \in Nat /\ DataBytes \in Nat
  BY Lengths DEF IInv, Taking, Waiting
<1>1. Len(got) = 2 + DataBytes /\ Held = 4 + Len(got)
  BY DEF Own, IsData, Held
<1>2. ~Short
  BY <1>0, <1>1 DEF Short
<1>3. Replies("data", frame) /\ got = Body("data", frame) /\ Coming = <<>>
  BY <1>0, <1>2 DEF Own, Flow
<1>4. Len(frame) = DataBytes /\ SubSeq(got, 3, Len(got)) = frame
  BY <1>3, BodyIs
<1>5. frame # <<>>
  <2>1. Len(<<>>) = 0 /\ DataBytes # 0
    BY LinkAssumption
  <2> QED
    BY <1>4, <2>1, Zenon
<1>6. "data" \notin Asked
  BY DEF Asked, Questions
<1> QED
  BY <1>3, <1>4, <1>5, <1>6, Zenon DEF Replies

LEMMA OwnStep ==
  ASSUME IInv, Own, [Next]_vars, [OpenedClean]_vars
  PROVE  Own'
<1>0. /\ TypeOK /\ starts \in Nat /\ lost \in Nat
      /\ line \in Seq(Byte) /\ sending \in Seq(Byte)
  BY LinkAssumption DEF IInv, TypeOK
<1>1. pc' # "closed" => starts' # 0
  <2>1. CASE OpenDevice
    BY <1>0, <2>1 DEF OpenDevice
  <2>2. CASE ~OpenDevice
    <3>1. starts' = starts /\ (pc = "closed" => pc' = "closed")
      BY <2>2 DEF Next, vars, Call, Stop, ReadError, Read, Check, Transmit, LoseByte, Ask, Fail,
         AskControl, NoStart, Start, ReadHeader, HeaderRead, ReadPayload, CheckData, CheckControl
    <3> QED
      BY <3>1 DEF Own
  <2> QED
    BY <2>1, <2>2
<1>2. ASSUME pc' = "ready" PROVE Coming' = <<>>
  <2>1. ASSUME line = <<>>, sending = <<>>, line' = line, sending' = sending PROVE Coming' = <<>>
    BY <2>1, ConcatEmptySeq DEF Coming
  <2>2. CASE pc = "ready"
    <3>1. line = <<>> /\ sending = <<>>
      BY <1>0, <2>2, ConcatEqualIffEmpty DEF Own, Coming
    <3>2. line' = line /\ sending' = sending
      BY <1>2, <2>2, <3>1 DEF Next, vars, OpenDevice, Call, Stop, ReadError, Read, Check, Transmit,
         LoseByte, Ask, Fail, Failed, NoStart, Start, ReadHeader, HeaderRead, ReadPayload, CheckData,
         CheckControl
    <3> QED
      BY <2>1, <3>1, <3>2
  <2>3. CASE CheckData
    <3>1. pc = "check" /\ stage = "data" /\ IsData /\ line' = line /\ sending' = sending
      BY <1>2, <2>3 DEF CheckData, Failed
    <3>2. line = <<>> /\ sending = <<>>
      BY <1>0, <3>1, DataIsOwn, ConcatEqualIffEmpty DEF Coming
    <3> QED
      BY <2>1, <3>1, <3>2
  <2>4. ASSUME NEW i \in DOMAIN Questions, CheckControl(i) PROVE Coming' = <<>>
    <3>1. pc = "check" /\ stage = Questions[i] /\ i = Len(Questions) /\ line' = line /\ sending' = sending
      BY <1>2, <2>4 DEF CheckControl, AskControl, Ask, Fail, Failed
    <3>2. stage = "ratep"
      BY <3>1 DEF Questions
    <3>3. OpenedClean
      BY <1>2, <3>1 DEF vars
    <3> QED
      BY <1>2, <2>1, <3>1, <3>2, <3>3 DEF OpenedClean
  <2> QED
    BY <1>2, <2>2, <2>3, <2>4 DEF Next, vars, OpenDevice, Call, Stop, ReadError, Read, Check, Transmit,
       LoseByte, Ask, Fail, Failed, NoStart, Start, ReadHeader, HeaderRead, ReadPayload
<1>3. ASSUME pc' = "check" PROVE Len(got') = header'.length
  <2>1. CASE HeaderRead
    <3>1. header'.length = 0 /\ got' = <<>>
      BY <1>3, <2>1 DEF HeaderRead, Failed
    <3> QED
      BY <3>1
  <2>2. CASE ReadPayload
    BY <1>3, <2>2 DEF ReadPayload
  <2>3. CASE ~HeaderRead /\ ~ReadPayload
    <3>1. pc = "check" /\ UNCHANGED <<got, header>>
      BY <1>3, <2>3 DEF Next, vars, OpenDevice, Call, Stop, ReadError, Read, Check, Transmit, LoseByte,
         Ask, Fail, Failed, AskControl, NoStart, Start, ReadHeader, CheckData, CheckControl
    <3> QED
      BY <3>1 DEF Own
  <2> QED
    BY <2>1, <2>2, <2>3
<1>4. ASSUME Taking' PROVE Short' \/ Flow'
  <2>1. CASE Taking /\ LoseByte
    BY <2>1, LosesIt DEF Own
  <2>2. CASE Taking /\ ~LoseByte
    <3>1. ~OpenDevice /\ lost' = lost
      BY <2>2 DEF Next, vars, OpenDevice, Call, Stop, ReadError, Read, Check, Transmit, Ask, Fail,
         AskControl, NoStart, Start, ReadHeader, HeaderRead, ReadPayload, CheckData, CheckControl,
         Taking, Waiting
    <3> QED
      BY <1>4, <2>2, <3>1, KeepsFlow, KeepsShort DEF Own
  <2>3. CASE ~Taking
    <3>1. Call
      <4>1. ~OpenDevice /\ ~Stop /\ ~ReadError /\ ~Transmit /\ ~LoseByte /\ ~UNCHANGED vars
        BY <1>4, <2>3 DEF OpenDevice, Stop, ReadError, Transmit, LoseByte, Fail, Failed, vars, Taking, Waiting
      <4>2. ~Read /\ ~CheckData
        BY <1>4, <2>3 DEF Read, NoStart, Start, ReadHeader, HeaderRead, ReadPayload, CheckData, Failed,
           Taking, Waiting
      <4>3. \A i \in DOMAIN Questions : ~CheckControl(i)
        <5> SUFFICES ASSUME NEW i \in DOMAIN Questions, CheckControl(i) PROVE FALSE
          OBVIOUS
        <5>1. CASE i = Len(Questions)
          BY <1>4, <5>1 DEF CheckControl, Fail, Failed, Taking, Waiting
        <5>2. CASE i # Len(Questions)
          <6>1. Questions[i + 1] # "data"
            BY <5>2 DEF Questions
          <6> QED
            BY <1>4, <5>2, <6>1 DEF CheckControl, AskControl, Ask, Fail, Failed, Taking, Waiting
        <5> QED
          BY <5>1, <5>2
      <4> QED
        BY <4>1, <4>2, <4>3 DEF Next, Check
    <3>2. Ask("data") /\ Answer("data") /\ Coming = <<>> /\ starts # 0
      BY <1>4, <3>1 DEF Call, Fail, Failed, Own, Taking, Waiting
    <3> QED
      BY <1>0, <3>2, AskFlow
  <2> QED
    BY <2>1, <2>2, <2>3
<1> QED
  BY <1>1, <1>2, <1>3, <1>4 DEF Own

\* what a caller sees of a state
LEMMA Seen ==
  /\ pc \in {"closed", "failed"} => call = pc /\ made = <<>> /\ result = <<>>
  /\ pc = "ready" => call = "ready" /\ made = <<>>
  /\ pc = "ready" /\ stage # "data" => result = <<>>
  /\ Waiting => result = <<>>
  /\ Waiting /\ stage # "data" => call = "opening" /\ made = <<>>
  /\ Waiting /\ stage = "data" => call = "busy" /\ made = frame
<1>1. Waiting => pc \notin {"closed", "ready", "failed"}
  BY DEF Waiting
<1> QED
  BY <1>1 DEF call, made, result, Waiting

LEMMA SeenNext ==
  /\ pc' \in {"closed", "failed"} => call' = pc' /\ made' = <<>> /\ result' = <<>>
  /\ pc' = "ready" => call' = "ready" /\ made' = <<>>
  /\ pc' = "ready" /\ stage' # "data" => result' = <<>>
  /\ pc' = "ready" /\ stage' = "data" => result' = SubSeq(got', 3, Len(got'))
  /\ Waiting' => result' = <<>>
  /\ Waiting' /\ stage' # "data" => call' = "opening" /\ made' = <<>>
  /\ Waiting' /\ stage' = "data" => call' = "busy" /\ made' = frame'
<1>1. Waiting' => pc' \notin {"closed", "ready", "failed"}
  BY DEF Waiting
<1> QED
  BY <1>1 DEF call, made, result, Waiting

\* a caller sees nothing of a step in a call that goes on
LEMMA SeenSame ==
  ASSUME UNCHANGED <<pc, stage, frame, got>>
  PROVE  UNCHANGED <<call, made, result>>
BY DEF call, made, result, Waiting

LEMMA CallGoesOn ==
  ASSUME Waiting, Waiting', UNCHANGED <<stage, frame>>
  PROVE  UNCHANGED <<call, made, result>>
BY Seen, SeenNext

LEMMA CallFails ==
  ASSUME TypeOK, pc # "failed", pc' = "failed"
  PROVE  Calls!Next
<1>1. call # "failed" /\ call' = "failed" /\ made' = <<>> /\ result' = <<>>
  BY Seen, SeenNext DEF TypeOK, Waiting
<1> QED
  BY <1>1 DEF Calls!Next, Calls!Fail

LEMMA CallsStep ==
  ASSUME IInv, Own, [Next]_vars
  PROVE  [Calls!Next]_(Calls!vars)
<1>0. TypeOK
  BY DEF IInv
<1>1. SUFFICES Calls!Next \/ UNCHANGED <<call, made, result>>
  BY DEF Calls!vars
<1>2. CASE UNCHANGED vars
  BY <1>2, SeenSame DEF vars
<1>3. CASE OpenDevice
  <2>1. pc = "closed" /\ call = "closed" /\ made = <<>> /\ result = <<>>
    BY <1>3, Seen DEF OpenDevice
  <2>2. CASE pc' = Failed
    BY <1>0, <2>1, <2>2, CallFails DEF Failed
  <2>3. CASE stage' = "reset" /\ pc' = "start"
    <3>1. call' = "opening" /\ made' = <<>> /\ result' = <<>>
      BY <2>3, SeenNext DEF Waiting
    <3> QED
      BY <2>1, <3>1 DEF Calls!Next, Calls!Open
  <2> QED
    BY <1>3, <2>2, <2>3 DEF OpenDevice
<1>4. CASE Call
  <2>1. pc = "ready" /\ call = "ready"
    BY <1>4, Seen DEF Call
  <2>2. CASE Fail
    BY <1>0, <2>1, <2>2, CallFails DEF Fail, Failed
  <2>3. CASE Ask("data") /\ Answer("data")
    <3>1. frame' \in Frames \cup {<<>>}
      BY <1>0, <2>3, AnswerType
    <3>2. call' = "busy" /\ made' = frame' /\ result' = <<>>
      BY <2>3, SeenNext DEF Ask, Waiting
    <3> QED
      BY <2>1, <3>1, <3>2 DEF Calls!Next, Calls!Begin
  <2> QED
    BY <1>4, <2>2, <2>3 DEF Call
<1>5. CASE Stop
  <2>1. pc # "closed" /\ pc' = "closed"
    BY <1>5 DEF Stop
  <2>2. call # "closed" /\ call' = "closed" /\ made' = <<>> /\ result' = <<>>
    BY <1>0, <2>1, Seen, SeenNext DEF TypeOK, Waiting
  <2> QED
    BY <2>2 DEF Calls!Next, Calls!Close
<1>6. CASE ReadError
  BY <1>0, <1>6, CallFails DEF ReadError, Fail, Failed
<1>7. CASE Read
  <2>1. Waiting /\ UNCHANGED <<stage, frame>> /\ pc # "failed"
    BY <1>7 DEF Read, NoStart, Start, ReadHeader, HeaderRead, ReadPayload, Waiting
  <2>2. pc' = "failed" \/ Waiting'
    BY <1>7 DEF Read, NoStart, Start, ReadHeader, HeaderRead, ReadPayload, Failed, Waiting
  <2> QED
    BY <1>0, <2>1, <2>2, CallFails, CallGoesOn
<1>8. CASE CheckData
  <2>1. pc = "check" /\ stage = "data" /\ UNCHANGED <<stage, got, frame>>
    BY <1>8 DEF CheckData
  <2>2. call = "busy" /\ made = frame
    BY <2>1, Seen DEF Waiting
  <2>3. CASE IsData
    <3>1. frame # <<>> /\ SubSeq(got, 3, Len(got)) = frame
      BY <2>1, <2>3, DataIsOwn
    <3>2. pc' = "ready"
      BY <1>8, <2>3 DEF CheckData
    <3>3. call' = "ready" /\ made' = <<>> /\ result' = frame
      BY <2>1, <3>1, <3>2, SeenNext
    <3> QED
      BY <2>2, <3>1, <3>3 DEF Calls!Next, Calls!Return
  <2>4. CASE ~IsData
    BY <1>0, <1>8, <2>1, <2>4, CallFails DEF CheckData, Failed
  <2> QED
    BY <2>3, <2>4
<1>9. ASSUME NEW i \in DOMAIN Questions, CheckControl(i)
      PROVE  Calls!Next \/ UNCHANGED <<call, made, result>>
  <2>1. pc = "check" /\ stage # "data"
    BY <1>9 DEF CheckControl, Questions
  <2>2. call = "opening" /\ made = <<>> /\ result = <<>>
    BY <2>1, Seen DEF Waiting
  <2>3. CASE Fail
    BY <1>0, <2>1, <2>3, CallFails DEF Fail, Failed
  <2>4. CASE pc' = "ready" /\ UNCHANGED stage
    <3>1. call' = "ready" /\ made' = <<>> /\ result' = <<>>
      BY <2>1, <2>4, SeenNext
    <3> QED
      BY <2>2, <3>1 DEF Calls!Next, Calls!Opened
  <2>5. CASE i # Len(Questions) /\ Ask(Questions[i + 1])
    <3>1. Questions[i + 1] # "data"
      BY <2>5 DEF Questions
    <3>2. call' = "opening" /\ made' = <<>> /\ result' = <<>>
      BY <2>5, <3>1, SeenNext DEF Ask, Waiting
    <3> QED
      BY <2>2, <3>2
  <2> QED
    BY <1>9, <2>3, <2>4, <2>5 DEF CheckControl, AskControl
<1>10. CASE Transmit \/ LoseByte
  BY <1>10, SeenSame DEF Transmit, LoseByte
<1> QED
  BY <1>2, <1>3, <1>4, <1>5, <1>6, <1>7, <1>8, <1>9, <1>10 DEF Next, Check

(***************************************************************************)
(* Where OpenDevice leaves nothing on the line, a call to the vocoder is   *)
(* what VocoderCalls says: DecodeData (EncodeAudio) gives what the vocoder *)
(* has made of this frame, or fails, whatever bytes are lost, in whatever  *)
(* pieces the others come, and whatever is in the frames; and after a      *)
(* failure nothing helps but to start again.  That OpenDevice leaves       *)
(* nothing depends on what an earlier run of the program has left on the   *)
(* line: frames may have in them what looks like four answers.             *)
(***************************************************************************)
THEOREM ImplementsCallsHolds == Spec /\ OpenLeavesNothing => ImplementsCalls
<1>1. OpenLeavesNothing => [][OpenedClean]_vars
  BY DEF OpenLeavesNothing, OpenedClean
<1>2. Init => Calls!Init
  BY Seen DEF Init, Calls!Init
<1>3. IInv /\ Own /\ [Next]_vars /\ [OpenedClean]_vars => Own'
  BY OwnStep
<1>4. IInv /\ Own /\ [Next]_vars => [Calls!Next]_(Calls!vars)
  BY CallsStep
<1> QED
  BY <1>1, <1>2, <1>3, <1>4, InitInv, StepInv, InitOwn, PTL DEF Spec, ImplementsCalls, Calls!Spec

-----------------------------------------------------------------------------
\* the device is opened with nothing on the line that an earlier run has left
OpensClean == [][OpenDevice => Coming = <<>>]_vars

\* while it is being opened, no byte is lost
OpensWhole == [][Waiting /\ stage # "data" => lost' = lost]_vars

Opening == Waiting /\ stage # "data" => Flow

LEMMA OpeningStep ==
  ASSUME IInv, Opening, [Next]_vars, [OpenDevice => Coming = <<>>]_vars,
         [Waiting /\ stage # "data" => lost' = lost]_vars
  PROVE  Opening'
<1>0. TypeOK /\ starts \in Nat
  BY LinkAssumption DEF IInv, TypeOK
<1>1. CASE UNCHANGED vars
  BY <1>1 DEF vars, Opening, Waiting, Flow, Coming
<1>2. SUFFICES ASSUME ~UNCHANGED vars, Waiting', stage' # "data" PROVE Flow'
  BY <1>1 DEF Opening
<1>3. CASE OpenDevice
  <2>1. Coming = <<>> /\ line' = line /\ starts' # 0
    BY <1>0, <1>2, <1>3 DEF OpenDevice
  <2>2. stage' = "reset" /\ pc' = "start" /\ Answer("reset")
    BY <1>2, <1>3 DEF OpenDevice, Failed, Waiting
  <2>3. "reset" \in Asked \cup {"data"}
    BY DEF Asked, Questions
  <2>4. Coming' = <<>> \/ (Replies("reset", frame') /\ Coming' = Reply("reset", frame'))
    BY <1>0, <2>1, <2>2, <2>3, Answered
  <2> QED
    BY <2>1, <2>2, <2>4 DEF Flow
<1>4. CASE ~OpenDevice
  <2>1. Waiting /\ stage # "data"
    <3>1. ~Call /\ ~Stop /\ ~ReadError /\ ~CheckData
      BY <1>2 DEF Call, Ask, Stop, ReadError, Fail, CheckData, Failed, Waiting
    <3>2. CASE Read
      BY <1>2, <3>2 DEF Read, NoStart, Start, ReadHeader, HeaderRead, ReadPayload, Waiting
    <3>3. ASSUME NEW i \in DOMAIN Questions, CheckControl(i) PROVE Waiting /\ stage # "data"
      BY <3>3 DEF CheckControl, Questions, Waiting
    <3>4. CASE Transmit \/ LoseByte
      BY <1>2, <3>4 DEF Transmit, LoseByte, Waiting
    <3> QED
      BY <1>2, <1>4, <3>1, <3>2, <3>3, <3>4 DEF Next, Check
  <2>2. lost' = lost
    BY <1>2, <2>1
  <2> QED
    BY <1>4, <2>1, <2>2, KeepsFlow DEF Opening
<1> QED
  BY <1>3, <1>4

(***************************************************************************)
(* OpenDevice leaves nothing on the line where it finds nothing, and no    *)
(* byte is lost while it asks its four questions, however often the        *)
(* program has been started and whatever has been lost before.             *)
(***************************************************************************)
THEOREM OpenLeavesNothingHolds == Spec /\ OpensClean /\ OpensWhole => OpenLeavesNothing
<1>1. Init => Opening
  BY DEF Init, Opening, Waiting
<1>2. IInv /\ Opening => OpenedClean
  <2> SUFFICES ASSUME IInv, Opening, pc = "check", stage = "ratep" PROVE line = <<>> /\ sending = <<>>
    BY DEF OpenedClean
  <2>1. Coming = <<>> /\ line \in Seq(Byte) /\ sending \in Seq(Byte)
    BY DEF Opening, Waiting, Flow, IInv, TypeOK
  <2> QED
    BY <2>1, ConcatEqualIffEmpty DEF Coming
<1>3. [][OpenedClean]_vars => OpenLeavesNothing
  BY DEF OpenLeavesNothing, OpenedClean
<1>4. /\ IInv /\ Opening /\ [Next]_vars
      /\ [OpenDevice => Coming = <<>>]_vars /\ [Waiting /\ stage # "data" => lost' = lost]_vars
      => Opening'
  BY OpeningStep
<1> QED
  BY <1>1, <1>2, <1>3, <1>4, InitInv, StepInv, PTL DEF Spec, OpensClean, OpensWhole

=============================================================================
