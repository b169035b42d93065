-------------------------- MODULE SlowData_proofs --------------------------
(***************************************************************************)
(* For every size of fragments, headers and messages, every period, all    *)
(* characters and all counts: the slow data has its types, only counts     *)
(* that fit no fragment lead out of the arrays, the loop that trims a text *)
(* stops at the message, a header and a message are printed once, texts    *)
(* are printed as they were sent, and of a station that is heard from its  *)
(* start all is printed.                                                   *)
(***************************************************************************)
EXTENDS SlowDataStation, SequenceTheorems, WellFoundedInduction, TLAPS

(***************************************************************************)
(* A second half comes only after a first one: even numbers come after odd *)
(* ones only, because the period is odd and begins with a sync.            *)
(***************************************************************************)
HalfKept == expect > 0 /\ expect % 2 = 0 => m_buffer # <<>>

\* what has led out of an array was no fragment that fits
UnfitLeft == expect = Undefined => m_buffer[2] \notin Fitting(m_buffer[1])

(***************************************************************************)
(* A message never ends in a blank: a fragment but its last does not come  *)
(* so far, and with the last one blanks become underscores.                *)
(***************************************************************************)
NoBlankLast == m_message[MessageLen - 1] # Blank

IInv == TypeOK /\ HalfKept /\ Terminated /\ UnfitLeft /\ NoBlankLast

Halves == {<<key, count, lead>> : key \in Keys, count \in 0 .. CountMax,
                                  lead \in [1 .. Lead -> TextChars]}

(***************************************************************************)
(* The constants, the numbers of the frames, and the places in memory.     *)
(***************************************************************************)
LEMMA Sizes ==
  /\ Frag \in Nat /\ Frag > 1
  /\ HeaderLen \in Nat /\ HeaderLen > 0
  /\ MessageLen \in Nat /\ MessageLen > 0
  /\ {NUL, Blank, Underscore} \subseteq Char
  /\ TextChars \subseteq Char
<1>1. Frag \in Nat /\ Frag > 1
  BY SlowDataAssumption DEF Frag
<1>2. Frag * HeadFrags \in Nat
  BY <1>1, SlowDataAssumption
<1>3. Frag * MsgFrags \in Nat /\ Frag * MsgFrags > 0
  BY <1>1, SlowDataAssumption
<1> QED
  BY <1>1, <1>2, <1>3, SlowDataAssumption DEF HeaderLen, MessageLen, Char

\* the number after this one, by its place in the period
LEMMA Numbers ==
  ASSUME expect \in 0 .. SyncPeriod - 1
  PROVE  NextFrame = IF expect = SyncPeriod - 1 THEN 0 ELSE expect + 1
BY SlowDataAssumption DEF NextFrame

\* a fragment of the message but the last ends before the last one begins
LEMMA FragmentsApart ==
  ASSUME NEW count \in Nat, count < MsgFrags - 1
  PROVE  Frag * count \in Nat /\ Frag * count + Frag - 1 < MessageLen - 1
<1>1. Frag \in Nat /\ Frag > 1 /\ MsgFrags \in Nat
  BY Sizes, SlowDataAssumption
<1>2. PICK more \in Nat : MsgFrags = count + 2 + more
  <2>1. MsgFrags - count - 2 \in Nat
    BY <1>1
  <2> QED
    BY <2>1, <1>1
<1>3. Frag * MsgFrags = Frag * count + 2 * Frag + Frag * more
  BY <1>1, <1>2
<1>4. Frag * count \in Nat /\ Frag * more \in Nat
  BY <1>1, <1>2
<1> QED
  BY <1>1, <1>3, <1>4 DEF MessageLen

\* m_message has room for a fragment where its count puts it only if it has so many
LEMMA MessageFits ==
  ASSUME NEW count \in Nat
  PROVE  Within(Frag * count, Frag, MessageLen) <=> count <= MsgFrags - 1
<1>1. Frag \in Nat /\ Frag > 1 /\ MsgFrags \in Nat \ {0}
  BY Sizes, SlowDataAssumption
<1>2. CASE count <= MsgFrags - 1
  <2>1. PICK more \in Nat : MsgFrags = count + 1 + more
    <3>1. MsgFrags - count - 1 \in Nat /\ MsgFrags = count + 1 + (MsgFrags - count - 1)
      BY <1>1, <1>2
    <3> QED
      BY <3>1
  <2>2. Frag * MsgFrags = Frag * count + Frag + Frag * more /\ Frag * more \in Nat /\ Frag * count \in Nat
    BY <1>1, <2>1
  <2> QED
    BY <1>1, <1>2, <2>2 DEF Within, MessageLen
<1>3. CASE ~(count <= MsgFrags - 1)
  <2>1. PICK more \in Nat : count = MsgFrags + more
    <3>1. count - MsgFrags \in Nat /\ count = MsgFrags + (count - MsgFrags)
      BY <1>1, <1>3
    <3> QED
      BY <3>1
  <2>2. Frag * count = Frag * MsgFrags + Frag * more /\ Frag * more \in Nat /\ Frag * MsgFrags \in Nat
    BY <1>1, <2>1
  <2> QED
    BY <1>1, <1>3, <2>2 DEF Within, MessageLen
<1> QED
  BY <1>2, <1>3

\* m_header has room for as many fragments as m_headcount counts
LEMMA HeaderFits ==
  ASSUME NEW headcount \in Nat, headcount < HeadFrags, NEW count \in 0 .. Frag
  PROVE  Within(Frag * headcount, count, HeaderLen)
<1>1. Frag \in Nat /\ HeadFrags \in Nat \ {0}
  BY Sizes, SlowDataAssumption
<1>2. PICK more \in Nat : HeadFrags = headcount + 1 + more
  <2>1. HeadFrags - headcount - 1 \in Nat /\ HeadFrags = headcount + 1 + (HeadFrags - headcount - 1)
    BY <1>1
  <2> QED
    BY <2>1
<1>3. Frag * HeadFrags = Frag * headcount + Frag + Frag * more /\ Frag * more \in Nat /\ Frag * headcount \in Nat
  BY <1>1, <1>2
<1> QED
  BY <1>1, <1>3 DEF Within, HeaderLen

(***************************************************************************)
(* What is written into memory.                                            *)
(***************************************************************************)
Letters(text, count) == \A k \in 1 .. count : text[k] \in Char

\* memory of n bytes, of which no more than count have been written, from at on
Writes(new, mem, n, at, count) ==
  /\ new \in Memory(n)
  /\ \A i \in 0 .. n - 1 : i \notin at .. at + count - 1 => new[i] = mem[i]

LEMMA CopiedType ==
  ASSUME NEW n \in Nat, NEW mem \in Memory(n), NEW at \in Nat, NEW count \in Nat,
         NEW text, Letters(text, count)
  PROVE  Writes(Copied(mem, at, text, count), mem, n, at, count)
<1>1. ASSUME NEW i \in at .. at + count - 1
      PROVE  text[i - at + 1] \in Char
  <2>1. i - at + 1 \in 1 .. count
    OBVIOUS
  <2> QED
    BY <2>1 DEF Letters
<1> QED
  BY <1>1 DEF Copied, Memory, Writes

LEMMA UnderscoredType ==
  ASSUME NEW n \in Nat, NEW mem \in Memory(n), NEW range
  PROVE  /\ Underscored(mem, range) \in Memory(n)
         /\ \A i \in range \cap (0 .. n - 1) : Underscored(mem, range)[i] # Blank
BY Sizes DEF Underscored, Memory, Blank, Underscore, NUL

LEMMA ClearedType ==
  ASSUME NEW n \in Nat
  PROVE  /\ Cleared(n) \in Memory(n)
         /\ n > 0 => Cleared(n)[n - 1] = NUL /\ Cleared(n)[n - 1] # Blank
<1>1. Cleared(n) \in Memory(n)
  BY Sizes DEF Cleared, Memory
<1>2. n > 0 => Cleared(n)[n - 1] = NUL
  BY DEF Cleared
<1>3. NUL # Blank
  BY DEF NUL, Blank
<1> QED
  BY <1>1, <1>2, <1>3

\* the characters of a fragment are characters
LEMMA TextType ==
  ASSUME NEW lead \in [1 .. Lead -> TextChars], NEW rest \in [1 .. Rest -> TextChars]
  PROVE  \A k \in 1 .. Frag : (lead \o rest)[k] \in Char
<1>1. lead \in Seq(Char) /\ Len(lead) = Lead /\ rest \in Seq(Char) /\ Len(rest) = Rest
  BY Sizes, SlowDataAssumption
<1>2. lead \o rest \in Seq(Char) /\ Len(lead \o rest) = Lead + Rest
  BY <1>1, SlowDataAssumption
<1> QED
  BY <1>2, SlowDataAssumption DEF Frag

\* m_type3 ends with a NUL: so there is a first
LEMMA StrLenIsPlace ==
  ASSUME m_type3 \in Memory(Type3Len), Terminated
  PROVE  StrLen(m_type3) \in 0 .. Type3Len - 1
<1> DEFINE Ends == {n \in Nat : n \in DOMAIN m_type3 /\ m_type3[n] = NUL}
<1>1. Type3Len - 1 \in Ends
  BY SlowDataAssumption, Sizes DEF Terminated, Memory
<1>2. PICK n \in Ends : \A m \in Ends : ~ (<<m, n>> \in OpToRel(<, Nat))
  BY <1>1, NatLessThanWellFounded, WFMin
<1>3. \A i \in 0 .. n - 1 : m_type3[i] # NUL
  <2>1. ASSUME NEW i \in 0 .. n - 1, m_type3[i] = NUL
        PROVE  FALSE
    <3>1. i \in Ends /\ i < n
      BY <2>1, SlowDataAssumption DEF Memory
    <3>2. <<i, n>> \in OpToRel(<, Nat)
      BY <3>1 DEF OpToRel
    <3> QED
      BY <3>1, <3>2, <1>2
  <2> QED
    BY <2>1
<1>4. \E p \in DOMAIN m_type3 : m_type3[p] = NUL /\ \A i \in 0 .. p - 1 : m_type3[i] # NUL
  BY <1>3
<1> QED
  BY <1>4 DEF StrLen, Memory

(***************************************************************************)
(* The buffer of a second half.                                            *)
(***************************************************************************)
LEMMA HalfAtHand ==
  ASSUME IInv, expect > 0, expect % 2 = 0, NEW rest \in [1 .. Rest -> TextChars]
  PROVE  /\ Count \in Nat
         /\ \A k \in 1 .. Frag : Text(rest)[k] \in Char
<1>1. m_buffer \in Halves
  BY DEF IInv, HalfKept, TypeOK, Halves
<1>2. PICK lead \in [1 .. Lead -> TextChars] : m_buffer[3] = lead
  BY <1>1 DEF Halves
<1>3. Count \in Nat
  BY <1>1, SlowDataAssumption DEF Count, Halves
<1>4. \A k \in 1 .. Frag : Text(rest)[k] \in Char
  BY <1>2, TextType, Zenon DEF Text
<1> QED
  BY <1>3, <1>4

\* what every completed fragment does to numbers and buffer
LEMMA SecondHalfKeeps ==
  ASSUME IInv, NEW key, NEW rest, SecondHalf(key, rest)
  PROVE  /\ m_buffer' = <<>>
         /\ expect' \in 0 .. SyncPeriod - 1
         /\ HalfKept' /\ UnfitLeft'
<1>1. expect \in 0 .. SyncPeriod - 1
  BY DEF IInv, TypeOK, SecondHalf, Searching, Undefined
<1>2. expect' = NextFrame /\ m_buffer' = <<>> /\ expect % 2 = 0
  BY DEF SecondHalf
<1>3. expect' \in 0 .. SyncPeriod - 1 /\ ~(expect' > 0 /\ expect' % 2 = 0)
  BY <1>1, <1>2, Numbers, SlowDataAssumption
<1>4. expect' # Undefined
  BY <1>3, SlowDataAssumption DEF Undefined
<1> QED
  BY <1>2, <1>3, <1>4 DEF HalfKept, UnfitLeft

(***************************************************************************)
(* Trimmed, a memory has NULs where it had white space at its end; if it   *)
(* ends in anything else, it is left alone.                                *)
(***************************************************************************)
LEMMA TrimmedType ==
  ASSUME NEW n \in Nat \ {0}, NEW mem \in Memory(n)
  PROVE  /\ Trimmed(mem, n) \in Memory(n)
         /\ Trimmed(mem, n)[n - 1] \in {NUL, mem[n - 1]}
         /\ mem[n - 1] \notin White => Trimmed(mem, n) = mem
<1> DEFINE kept == {i \in 0 .. n - 1 : mem[i] \notin White}
           new(i) == IF i < n /\ \A k \in kept : k < i THEN NUL ELSE mem[i]
<1>1. DOMAIN mem = 0 .. n - 1 /\ mem = [i \in 0 .. n - 1 |-> mem[i]]
      /\ \A i \in 0 .. n - 1 : mem[i] \in Char
  BY DEF Memory
<1>2. Trimmed(mem, n) = [i \in 0 .. n - 1 |-> new(i)]
  BY <1>1, Zenon DEF Trimmed
<1>3. \A i \in 0 .. n - 1 : new(i) \in {NUL, mem[i]}
  OBVIOUS
<1>4. mem[n - 1] \notin White => \A i \in 0 .. n - 1 : new(i) = mem[i]
  <2> SUFFICES ASSUME mem[n - 1] \notin White, NEW i \in 0 .. n - 1 PROVE new(i) = mem[i]
    OBVIOUS
  <2>1. n - 1 \in kept /\ ~(n - 1 < i)
    OBVIOUS
  <2> QED
    BY <2>1, Zenon
<1> HIDE DEF new
<1>5. n - 1 \in 0 .. n - 1 /\ NUL \in Char
  BY Sizes
<1>6. \A i \in 0 .. n - 1 : new(i) \in Char
  BY <1>1, <1>3, <1>5
<1>7. Trimmed(mem, n) \in Memory(n)
  BY <1>2, <1>6, Zenon DEF Memory
<1>8. Trimmed(mem, n)[n - 1] = new(n - 1)
  BY <1>2, <1>5, Zenon
<1>9. mem[n - 1] \notin White => Trimmed(mem, n) = mem
  BY <1>1, <1>2, <1>4, Zenon
<1> QED
  BY <1>3, <1>5, <1>7, <1>8, <1>9

\* m_type3 takes another fragment, or is left as it is, and keeps its NUL
LEMMA TextKept ==
  ASSUME IInv, NEW rest \in [1 .. Rest -> TextChars], TypeThree(rest)
  PROVE  /\ m_type3' \in Memory(Type3Len) /\ Terminated'
         /\ m_message' \in Memory(MessageLen) /\ NoBlankLast'
         /\ m_header' \in Memory(HeaderLen)
<1> DEFINE grown == Copied(m_type3, StrLen(m_type3), Text(rest), Count)
<1>1. m_type3 \in Memory(Type3Len) /\ Terminated
  BY DEF IInv, TypeOK
<1>2. Type3Len \in Nat /\ Type3Len > Frag /\ Frag \in Nat
  BY SlowDataAssumption, Sizes
<1>3. Count \in Nat /\ \A k \in 1 .. Frag : Text(rest)[k] \in Char
  <2>1. expect > 0 /\ expect % 2 = 0
    BY Zenon DEF TypeThree, SecondHalf
  <2> QED
    BY <2>1, HalfAtHand
<1>4. StrLen(m_type3) \in 0 .. Type3Len - 1
  BY <1>1, StrLenIsPlace
<1>5. ASSUME Count <= Frag
      PROVE  grown \in Memory(Type3Len)
      /\ \A i \in 0 .. Type3Len - 1 : i \notin StrLen(m_type3) .. StrLen(m_type3) + Count - 1 =>
           grown[i] = m_type3[i]
  <2>1. StrLen(m_type3) \in Nat /\ Count \in Nat /\ Letters(Text(rest), Count)
    BY <1>2, <1>3, <1>4, <1>5, SlowDataAssumption DEF Letters
  <2>2. Writes(grown, m_type3, Type3Len, StrLen(m_type3), Count)
    BY <1>1, <1>2, <2>1, CopiedType, Zenon
  <2> QED
    BY <2>2, Zenon DEF Writes
<1>6. ASSUME NoRoom
      PROVE  m_type3' \in Memory(Type3Len) /\ Terminated'
  <2>1. m_type3' = m_type3
    BY <1>6, Zenon DEF TypeThree
  <2> QED
    BY <1>1, <2>1, Zenon DEF Terminated
<1>7. ASSUME ~NoRoom /\ Count = Frag
      PROVE  m_type3' \in Memory(Type3Len) /\ Terminated'
  <2>1. m_type3' = grown
    BY <1>7, Zenon DEF TypeThree
  <2>2. Type3Len - 1 \notin StrLen(m_type3) .. StrLen(m_type3) + Count - 1 /\ Type3Len - 1 \in 0 .. Type3Len - 1
    BY <1>2, <1>3, <1>4, <1>7 DEF NoRoom
  <2> HIDE DEF grown
  <2> QED
    BY <1>1, <1>2, <1>5, <1>7, <2>1, <2>2 DEF Terminated
<1>8. ASSUME ~NoRoom /\ Count # Frag
      PROVE  m_type3' \in Memory(Type3Len) /\ Terminated'
  <2>1. m_type3' = Cleared(Type3Len)
    BY <1>8, Zenon DEF TypeThree
  <2> QED
    BY <1>2, <2>1, ClearedType DEF Terminated, Cleared
<1>9. /\ m_message' = m_message \/ m_message' = Trimmed(m_message, MessageLen)
      /\ m_header' = m_header \/ m_header' = Trimmed(m_header, HeaderLen)
  <2> HIDE DEF grown
  <2>1. \/ UNCHANGED <<m_header, m_message>>
        \/ /\ m_message' = IF AllWhite(grown, StrLen(grown)) THEN Trimmed(m_message, MessageLen) ELSE m_message
           /\ m_header' = IF AllWhite(grown, StrLen(grown)) /\ AllWhite(m_message, MessageLen)
                          THEN Trimmed(m_header, HeaderLen) ELSE m_header
    BY Zenon DEF TypeThree, grown
  <2> QED
    BY <2>1, Zenon
<1>10. /\ MessageLen \in Nat \ {0} /\ HeaderLen \in Nat \ {0} /\ NUL # Blank
       /\ m_message \in Memory(MessageLen) /\ m_header \in Memory(HeaderLen) /\ NoBlankLast
  <2>1. NUL # Blank
    BY DEF NUL, Blank
  <2> QED
    BY <2>1, Sizes DEF IInv, TypeOK
<1>11. m_message' \in Memory(MessageLen) /\ NoBlankLast'
  <2>1. CASE m_message' = m_message
    BY <1>10, <2>1, Zenon DEF NoBlankLast
  <2>2. CASE m_message' = Trimmed(m_message, MessageLen)
    <3>1. /\ Trimmed(m_message, MessageLen) \in Memory(MessageLen)
          /\ Trimmed(m_message, MessageLen)[MessageLen - 1] \in {NUL, m_message[MessageLen - 1]}
      BY <1>10, TrimmedType, Zenon
    <3>2. Trimmed(m_message, MessageLen)[MessageLen - 1] # Blank
      BY <1>10, <3>1, Zenon DEF NoBlankLast
    <3> QED
      BY <2>2, <3>1, <3>2, Zenon DEF NoBlankLast
  <2> QED
    BY <1>9, <2>1, <2>2
<1>12. m_header' \in Memory(HeaderLen)
  <2>1. Trimmed(m_header, HeaderLen) \in Memory(HeaderLen)
    BY <1>10, TrimmedType, Zenon
  <2> QED
    BY <1>9, <1>10, <2>1
<1>13. m_type3' \in Memory(Type3Len) /\ Terminated'
  BY <1>6, <1>7, <1>8
<1> QED
  BY <1>11, <1>12, <1>13

(***************************************************************************)
(* A text changes neither a message that ends in no white space but        *)
(* blanks, nor the header before it.                                       *)
(***************************************************************************)
LEMMA TextSpares ==
  ASSUME IInv, NEW rest, TypeThree(rest), m_message[MessageLen - 1] \notin Spaces
  PROVE  m_message' = m_message /\ m_header' = m_header
<1>1. /\ MessageLen \in Nat \ {0} /\ MessageLen - 1 \in 0 .. MessageLen - 1
      /\ m_message \in Memory(MessageLen)
  BY Sizes DEF IInv, TypeOK
<1>2. m_message[MessageLen - 1] \notin White
  BY Zenon DEF IInv, NoBlankLast, White
<1>3. Trimmed(m_message, MessageLen) = m_message
  BY <1>1, <1>2, TrimmedType, Zenon
<1>4. ~AllWhite(m_message, MessageLen)
  BY <1>1, <1>2, Zenon DEF AllWhite
<1> DEFINE allWhite == LET grown == Copied(m_type3, StrLen(m_type3), Text(rest), Count)
                       IN  AllWhite(grown, StrLen(grown))
<1>5. \/ UNCHANGED <<m_header, m_message>>
      \/ /\ m_message' = IF allWhite THEN Trimmed(m_message, MessageLen) ELSE m_message
         /\ m_header' = IF allWhite /\ AllWhite(m_message, MessageLen)
                        THEN Trimmed(m_header, HeaderLen) ELSE m_header
  BY Zenon DEF TypeThree
<1> HIDE DEF allWhite
<1> QED
  BY <1>3, <1>4, <1>5, Zenon

\* m_message takes a fragment but the last, or the last one, without its blanks
LEMMA MessageKept ==
  ASSUME IInv, NEW rest \in [1 .. Rest -> TextChars], Message(rest)
  PROVE  m_message' \in Memory(MessageLen) /\ NoBlankLast'
<1> DEFINE grown == Copied(m_message, Frag * Count, Text(rest), Frag)
<1>1. m_message \in Memory(MessageLen) /\ NoBlankLast
  BY DEF IInv, TypeOK
<1>2. Frag \in Nat /\ MessageLen \in Nat /\ MessageLen > 0 /\ MsgFrags \in Nat
  BY SlowDataAssumption, Sizes
<1>3. Count \in Nat /\ \A k \in 1 .. Frag : Text(rest)[k] \in Char
  <2>1. expect > 0 /\ expect % 2 = 0
    BY Zenon DEF Message, SecondHalf
  <2> QED
    BY <2>1, HalfAtHand, SlowDataAssumption
<1>4. grown \in Memory(MessageLen)
      /\ \A i \in 0 .. MessageLen - 1 : i \notin Frag * Count .. Frag * Count + Frag - 1 =>
           grown[i] = m_message[i]
  <2>1. Frag * Count \in Nat /\ Frag \in Nat /\ Letters(Text(rest), Frag)
    BY <1>2, <1>3 DEF Letters
  <2>2. Writes(grown, m_message, MessageLen, Frag * Count, Frag)
    BY <1>1, <1>2, <2>1, CopiedType, Zenon
  <2> QED
    BY <2>2, Zenon DEF Writes
<1>5. CASE MessageDone
  <2>1. m_message' = m_message
    BY <1>5, Zenon DEF Message
  <2> QED
    BY <1>1, <2>1, Zenon DEF NoBlankLast
<1>6. CASE ~MessageDone /\ Count # MsgFrags - 1
  <2>1. m_message' = grown /\ Within(Frag * Count, Frag, MessageLen)
    BY <1>6, Zenon DEF Message
  <2>2. Frag * Count \in Nat /\ Frag * Count + Frag - 1 < MessageLen - 1
    <3>1. Count <= MsgFrags - 1
      BY <1>3, <2>1, MessageFits
    <3> QED
      BY <1>2, <1>3, <1>6, <3>1, FragmentsApart
  <2>3. MessageLen - 1 \notin Frag * Count .. Frag * Count + Frag - 1 /\ MessageLen - 1 \in 0 .. MessageLen - 1
    BY <1>2, <2>2
  <2> HIDE DEF grown
  <2> QED
    BY <1>1, <1>4, <2>1, <2>3 DEF NoBlankLast
<1>7. CASE ~MessageDone /\ Count = MsgFrags - 1
  <2> HIDE DEF grown
  <2>1. m_message' = Underscored(grown, 0 .. MessageLen - 1)
    BY <1>7, Zenon DEF Message, MessageShown, grown
  <2>2. MessageLen - 1 \in 0 .. MessageLen - 1
    BY <1>2
  <2> QED
    BY <1>2, <1>4, <2>1, <2>2, UnderscoredType DEF NoBlankLast
<1> QED
  BY <1>5, <1>6, <1>7

\* m_header takes fragments while m_headcount counts them
LEMMA HeaderKept ==
  ASSUME IInv, NEW rest \in [1 .. Rest -> TextChars], Header(rest)
  PROVE  m_header' \in Memory(HeaderLen) /\ m_headcount' \in 0 .. HeadFrags + 1
<1> DEFINE grown == Copied(m_header, Frag * m_headcount, Text(rest), Count)
<1>1. m_header \in Memory(HeaderLen) /\ m_headcount \in 0 .. HeadFrags + 1
  BY DEF IInv, TypeOK
<1>2. Frag \in Nat /\ HeaderLen \in Nat /\ HeadFrags \in Nat
  BY SlowDataAssumption, Sizes
<1>3. Count \in Nat /\ \A k \in 1 .. Frag : Text(rest)[k] \in Char
  <2>1. expect > 0 /\ expect % 2 = 0
    BY Zenon DEF Header, SecondHalf
  <2> QED
    BY <2>1, HalfAtHand
<1>4. ASSUME Count <= Frag
      PROVE  grown \in Memory(HeaderLen)
  <2>1. Frag * m_headcount \in Nat /\ Count \in Nat /\ Letters(Text(rest), Count)
    BY <1>1, <1>2, <1>3, <1>4, SlowDataAssumption DEF Letters
  <2>2. Writes(grown, m_header, HeaderLen, Frag * m_headcount, Count)
    BY <1>1, <1>2, <2>1, CopiedType, Zenon
  <2> QED
    BY <2>2, Zenon DEF Writes
<1>5. CASE m_headcount >= HeadFrags
  BY <1>1, <1>2, <1>5 DEF Header
<1>6. CASE m_headcount < HeadFrags
  <2> HIDE DEF grown
  <2>0. Count <= Frag
    BY <1>1, <1>2, <1>6 DEF Header, Within
  <2>1. m_headcount' = m_headcount + 1 /\ m_header' \in {grown, Underscored(grown, CallSigns)}
    BY <1>1, <1>2, <1>6 DEF Header, PrintHeader, grown
  <2>2. Underscored(grown, CallSigns) \in Memory(HeaderLen)
    BY <1>2, <1>4, <2>0, UnderscoredType
  <2> QED
    BY <1>1, <1>2, <1>4, <1>6, <2>0, <2>1, <2>2
<1> QED
  BY <1>1, <1>2, <1>5, <1>6

(***************************************************************************)
(* The invariant.                                                          *)
(***************************************************************************)
LEMMA InitInv == Init => IInv
<1> SUFFICES ASSUME Init PROVE IInv
  OBVIOUS
<1>1. TypeOK
  BY Sizes, SlowDataAssumption, ClearedType DEF Init, TypeOK
<1>2. HalfKept /\ UnfitLeft
  BY DEF Init, HalfKept, UnfitLeft, Searching, Undefined
<1>3. Terminated /\ NoBlankLast
  BY Sizes, SlowDataAssumption, ClearedType DEF Init, Terminated, NoBlankLast
<1> QED
  BY <1>1, <1>2, <1>3 DEF IInv

\* a count that fits its key leads out of no array
LEMMA OverrunUnfit ==
  ASSUME IInv, Overrun
  PROVE  Count \notin Fitting(m_buffer[1])
<1> SUFFICES ASSUME Count \in Fitting(m_buffer[1]) PROVE FALSE
  OBVIOUS
<1>1. /\ Frag \in Nat /\ Frag > 1 /\ Type3Len \in Nat /\ HeadFrags \in Nat
      /\ m_headcount \in Nat
  BY Sizes, SlowDataAssumption DEF IInv, TypeOK
<1>2. CASE m_buffer[1] = 3 /\ ~NoRoom /\ ~Within(StrLen(m_type3), Count, Type3Len)
  <2>1. Count \in 0 .. Frag
    BY <1>2 DEF Fitting
  <2>2. StrLen(m_type3) \in 0 .. Type3Len - 1
    BY StrLenIsPlace DEF IInv, TypeOK
  <2> QED
    BY <1>1, <1>2, <2>1, <2>2 DEF NoRoom, Within
<1>3. CASE m_buffer[1] = 4 /\ ~Within(Frag * Count, Frag, MessageLen)
  <2>1. Count \in 0 .. MsgFrags - 1
    BY <1>3 DEF Fitting
  <2> QED
    BY <1>3, <2>1, MessageFits, SlowDataAssumption
<1>4. CASE m_buffer[1] = 5 /\ m_headcount < HeadFrags /\ ~Within(Frag * m_headcount, Count, HeaderLen)
  <2>1. Count \in 0 .. Frag
    BY <1>4 DEF Fitting
  <2> QED
    BY <1>1, <1>4, <2>1, HeaderFits
<1> QED
  BY <1>2, <1>3, <1>4 DEF Overrun

LEMMA StepInv == IInv /\ [Next]_vars => IInv'
<1> SUFFICES ASSUME IInv, [Next]_vars PROVE IInv'
  OBVIOUS
<1> USE DEF IInv
<1>0. SyncPeriod \in Nat /\ SyncPeriod > 2 /\ HeadFrags \in Nat
  BY SlowDataAssumption
<1>1. CASE UNCHANGED vars
  BY <1>1 DEF vars, TypeOK, HalfKept, UnfitLeft, Terminated, NoBlankLast
<1>2. CASE Reset
  <2>1. m_header' \in Memory(HeaderLen) /\ m_message' \in Memory(MessageLen) /\ m_type3' \in Memory(Type3Len)
    BY <1>2, Sizes, SlowDataAssumption, ClearedType DEF Reset
  <2>2. Terminated' /\ NoBlankLast'
    BY <1>2, Sizes, SlowDataAssumption, ClearedType DEF Reset, Terminated, NoBlankLast
  <2>3. expect' \in {Searching, 1} /\ m_headcount' = 0 /\ UNCHANGED m_buffer
    BY <1>2 DEF Reset
  <2>4. HalfKept' /\ UnfitLeft'
    <3>1. expect' = -1 \/ expect' = 1
      BY <2>3 DEF Searching
    <3>2. 1 % 2 = 1 /\ ~(-1 > 0)
      OBVIOUS
    <3> QED
      BY <2>3, <3>1, <3>2 DEF HalfKept, UnfitLeft, Undefined
  <2> QED
    BY <1>0, <2>1, <2>2, <2>3, <2>4 DEF TypeOK
<1>3. CASE Locked
  <2>1. HalfKept' /\ UnfitLeft'
    BY <1>3 DEF Locked, HalfKept, UnfitLeft, Undefined
  <2> QED
    BY <1>0, <1>3, <2>1 DEF Locked, TypeOK, Terminated, NoBlankLast
<1>4. ASSUME NEW header \in RadioHeaders, SetHeader(header) PROVE IInv'
  <2>1. header \in Memory(HeaderLen)
    BY SlowDataAssumption DEF Memory
  <2>2. m_header' \in Memory(HeaderLen)
    BY <1>4, <2>1, Sizes, UnderscoredType DEF SetHeader, PrintHeader
  <2>3. HalfKept' /\ UnfitLeft'
    BY <1>4 DEF SetHeader, HalfKept, UnfitLeft, Undefined
  <2> QED
    BY <1>0, <1>4, <2>2, <2>3 DEF SetHeader, HeadCountSet, TypeOK, Terminated, NoBlankLast
<1>5. CASE SyncFrame
  <2>1. expect' = 1
    BY <1>0, <1>5, Numbers DEF SyncFrame
  <2>2. HalfKept' /\ UnfitLeft'
    BY <1>5, <2>1 DEF SyncFrame, HalfKept, UnfitLeft, Undefined
  <2> QED
    BY <1>0, <1>5, <2>1, <2>2 DEF SyncFrame, TypeOK, Terminated, NoBlankLast
<1>6. ASSUME NEW key \in Keys, NEW count \in 0 .. CountMax, NEW lead \in [1 .. Lead -> TextChars],
             FirstHalf(key, count, lead)
      PROVE  IInv'
  <2>1. m_buffer' = <<key, count, lead>> /\ m_buffer' \in Halves
    BY <1>6 DEF FirstHalf, Halves
  <2>2. expect \in 0 .. SyncPeriod - 1
    BY <1>6 DEF FirstHalf, TypeOK, Searching, Undefined
  <2>3. expect' \in 0 .. SyncPeriod - 1
    BY <1>0, <1>6, <2>2, Numbers DEF FirstHalf
  <2>4. HalfKept' /\ UnfitLeft'
    BY <1>0, <2>1, <2>3 DEF HalfKept, UnfitLeft, Undefined
  <2>5. UNCHANGED <<m_headcount, m_header, m_message, m_type3>>
    BY <1>6 DEF FirstHalf
  <2> QED
    BY <2>1, <2>3, <2>4, <2>5 DEF TypeOK, Halves, Terminated, NoBlankLast
<1>7. ASSUME NEW rest \in [1 .. Rest -> TextChars], TypeThree(rest) PROVE IInv'
  <2>1. SecondHalf(3, rest) /\ UNCHANGED m_headcount
    BY <1>7, Zenon DEF TypeThree
  <2>2. /\ m_type3' \in Memory(Type3Len) /\ Terminated'
        /\ m_message' \in Memory(MessageLen) /\ NoBlankLast'
        /\ m_header' \in Memory(HeaderLen)
    BY <1>7, TextKept
  <2>3. m_buffer' = <<>> /\ expect' \in 0 .. SyncPeriod - 1 /\ HalfKept' /\ UnfitLeft'
    BY <2>1, SecondHalfKeeps
  <2> QED
    BY <2>1, <2>2, <2>3 DEF TypeOK, NoBlankLast
<1>8. ASSUME NEW rest \in [1 .. Rest -> TextChars], Message(rest) PROVE IInv'
  <2>1. SecondHalf(4, rest) /\ UNCHANGED <<m_headcount, m_header, m_type3>>
    BY <1>8 DEF Message
  <2>2. m_message' \in Memory(MessageLen) /\ NoBlankLast'
    BY <1>8, MessageKept
  <2>3. m_buffer' = <<>> /\ expect' \in 0 .. SyncPeriod - 1 /\ HalfKept' /\ UnfitLeft'
    BY <2>1, SecondHalfKeeps
  <2> QED
    BY <2>1, <2>2, <2>3 DEF TypeOK, Terminated
<1>9. ASSUME NEW rest \in [1 .. Rest -> TextChars], Header(rest) PROVE IInv'
  <2>1. SecondHalf(5, rest) /\ UNCHANGED <<m_message, m_type3>>
    BY <1>9 DEF Header
  <2>2. m_header' \in Memory(HeaderLen) /\ m_headcount' \in 0 .. HeadFrags + 1
    BY <1>9, HeaderKept
  <2>3. m_buffer' = <<>> /\ expect' \in 0 .. SyncPeriod - 1 /\ HalfKept' /\ UnfitLeft'
    BY <2>1, SecondHalfKeeps
  <2> QED
    BY <2>1, <2>2, <2>3 DEF TypeOK, Terminated, NoBlankLast
<1>10. ASSUME NEW rest \in [1 .. Rest -> TextChars], Filler(rest) PROVE IInv'
  <2>1. PICK key : SecondHalf(key, rest)
    BY <1>10 DEF Filler
  <2>2. UNCHANGED <<m_headcount, m_header, m_message, m_type3>>
    BY <1>10 DEF Filler
  <2>3. m_buffer' = <<>> /\ expect' \in 0 .. SyncPeriod - 1 /\ HalfKept' /\ UnfitLeft'
    BY <2>1, SecondHalfKeeps
  <2> QED
    BY <2>2, <2>3 DEF TypeOK, Terminated, NoBlankLast
<1>11. CASE Overrun
  <2>1. expect' = Undefined /\ UNCHANGED <<m_headcount, m_header, m_message, m_type3, m_buffer>>
    BY <1>11 DEF Overrun
  <2>2. m_buffer[2] \notin Fitting(m_buffer[1])
    BY <1>11, OverrunUnfit DEF Count
  <2>3. UnfitLeft' /\ HalfKept'
    BY <2>1, <2>2 DEF UnfitLeft, HalfKept, Undefined
  <2> QED
    BY <2>1, <2>3 DEF TypeOK, Terminated, NoBlankLast
<1>12. CASE Lost
  BY <1>1, <1>12 DEF Lost
<1> QED
  BY <1>1, <1>2, <1>3, <1>4, <1>5, <1>6, <1>7, <1>8, <1>9, <1>10, <1>11, <1>12 DEF Next

LEMMA InvariantHolds == Spec => []IInv
BY InitInv, StepInv, PTL DEF Spec

(***************************************************************************)
(* The state has its types, whatever the fragments: what has been read of  *)
(* header, message and text are characters, and the number of the next     *)
(* frame is one of the period.                                             *)
(***************************************************************************)
THEOREM TypeCorrect == Spec => []TypeOK
BY InvariantHolds, PTL DEF IInv

(***************************************************************************)
(* Whatever the fragments and their counts, m_type3 ends in a NUL, and the *)
(* memcpys of Add3 leave their arrays only for a count that no fragment of *)
(* that key can have: more than Frag characters, or a part of the message  *)
(* behind its last.                                                        *)
(***************************************************************************)
THEOREM LeftByCountOnlyHolds == Spec => []LeftByCountOnly
<1>1. IInv => LeftByCountOnly
  BY Zenon DEF IInv, UnfitLeft, LeftByCountOnly
<1> QED
  BY <1>1, InvariantHolds, PTL

\* a step that takes a fragment of a text, takes nothing else
LEMMA TextStepSpares ==
  ASSUME IInv, Next, TextAdded, m_message[MessageLen - 1] \notin Spaces
  PROVE  m_message' = m_message /\ m_header' = m_header
<1>1. expect > 0 /\ expect % 2 = 0 /\ m_buffer[1] = 3 /\ m_buffer' = <<>>
  BY DEF TextAdded, TextFragment
<1>2. m_buffer' # m_buffer
  BY <1>1 DEF IInv, HalfKept
<1>3. ~Reset /\ ~Overrun /\ ~Lost
  BY <1>2, Zenon DEF Reset, Overrun, Lost, vars
<1>4. ~SyncFrame /\ ~Locked /\ \A header : ~SetHeader(header)
  BY <1>1 DEF SyncFrame, Locked, SetHeader, Searching
<1>5. ASSUME NEW key, NEW count, NEW lead, FirstHalf(key, count, lead) PROVE FALSE
  BY <1>1, <1>5 DEF FirstHalf
<1>6. ASSUME NEW rest, Message(rest) \/ Header(rest) \/ Filler(rest) PROVE FALSE
  <2>1. PICK key : key # 3 /\ SecondHalf(key, rest)
    BY <1>6 DEF Message, Header, Filler
  <2> QED
    BY <1>1, <2>1, Zenon DEF SecondHalf
<1>7. ASSUME NEW rest, TypeThree(rest) PROVE m_message' = m_message /\ m_header' = m_header
  BY <1>7, TextSpares, Zenon
<1> QED
  BY <1>3, <1>4, <1>5, <1>6, <1>7, Zenon DEF Next

(***************************************************************************)
(* The loop in Add3 that trims a text of white space changes neither the   *)
(* message nor the header before it, unless the message ends in white      *)
(* space that is no blank.                                                 *)
(***************************************************************************)
THEOREM TrimStopsHolds == Spec => TrimStops
<1>1. IInv /\ [Next]_vars =>
        [TextAdded => UNCHANGED <<m_message, m_header>> \/ m_message[MessageLen - 1] \in Spaces]_vars
  BY TextStepSpares, Zenon
<1> QED
  BY <1>1, InvariantHolds, PTL DEF Spec, TrimStops

-----------------------------------------------------------------------------
(***************************************************************************)
(* The console.  A header that came before the frames is complete from the *)
(* start, so that no fragment is taken for one; a message that has been    *)
(* printed has its last character, so that no fragment is added, and it is *)
(* none that a text takes away.                                            *)
(***************************************************************************)
Plain == mix.chars \cap ({NUL} \cup Spaces) = {}
LastPlain == m_message[MessageLen - 1] \notin {NUL} \cup Spaces

ConsoleInv ==
  /\ mix \in Mixes
  /\ expect = Searching => headers = 0 /\ ~radio
  /\ radio => headers = 1 /\ m_headcount = HeadFrags + 1
  /\ messages \in {0, 1} \/ ~Plain
  /\ messages # 0 /\ Plain => LastPlain

LEMMA LastPlainDone == LastPlain => MessageDone
BY Zenon DEF LastPlain, MessageDone

\* what a call puts on the console has one name
LEMMA OneName ==
  ASSUME NEW a, NEW name, name # a,
         printed' = <<>> \/ \E text : printed' = <<a, text>>
  PROVE  ~Prints(name)
<1>1. CASE printed' = <<>>
  BY <1>1, Zenon DEF Prints
<1>2. ASSUME NEW text, printed' = <<a, text>> PROVE ~Prints(name)
  <2>1. printed'[1] = a
    BY <1>2
  <2> QED
    BY <2>1, Zenon DEF Prints
<1> QED
  BY <1>1, <1>2

\* a fragment prints what is of its kind, or nothing
LEMMA FragmentPrints ==
  ASSUME NEW rest, m_headcount \in Nat
  PROVE  /\ TypeThree(rest) => ~Prints("header") /\ ~Prints("message")
         /\ Message(rest) => ~Prints("header") /\ (MessageDone => ~Prints("message"))
         /\ Header(rest) => ~Prints("message") /\ (m_headcount >= HeadFrags => ~Prints("header"))
         /\ Filler(rest) => ~Prints("header") /\ ~Prints("message")
<1>1. ASSUME TypeThree(rest) PROVE ~Prints("header") /\ ~Prints("message")
  <2>1. printed' = <<>> \/ \E text : printed' = <<"text", text>>
    BY <1>1, Zenon DEF TypeThree
  <2> QED
    BY <2>1, OneName
<1>2. ASSUME Message(rest) PROVE ~Prints("header") /\ (MessageDone => ~Prints("message"))
  <2>1. printed' = <<>> \/ \E text : printed' = <<"message", text>>
    BY <1>2, Zenon DEF Message
  <2>2. MessageDone => printed' = <<>>
    BY <1>2, Zenon DEF Message
  <2>3. ~Prints("header")
    BY <2>1, OneName
  <2> QED
    BY <2>2, <2>3, Zenon DEF Prints
<1>3. ASSUME Header(rest) PROVE ~Prints("message") /\ (m_headcount >= HeadFrags => ~Prints("header"))
  <2>1. printed' = <<>> \/ \E text : printed' = <<"header", text>>
    BY <1>3, Zenon DEF Header, PrintHeader
  <2>2. m_headcount >= HeadFrags => ~(m_headcount < HeadFrags)
    BY SlowDataAssumption
  <2>3. m_headcount >= HeadFrags => printed' = <<>>
    BY <1>3, <2>2, Zenon DEF Header
  <2>4. ~Prints("message")
    BY <2>1, OneName
  <2> QED
    BY <2>3, <2>4, Zenon DEF Prints
<1>4. ASSUME Filler(rest) PROVE ~Prints("header") /\ ~Prints("message")
  BY <1>4, Zenon DEF Filler, Prints
<1> QED
  BY <1>1, <1>2, <1>3, <1>4

\* what has been printed once is counted once
LEMMA CountedOnce ==
  ASSUME NEW n, NEW name
  PROVE  /\ ~Prints(name) => Counted(n, name) = n
         /\ Prints(name) /\ n = 0 => Counted(n, name) = 1
         /\ n \in {0, 1} => Counted(n, name) \in {0, 1, 2}
BY DEF Counted, Many

\* a step of the console's is one of the slow data
LEMMA CNextIsNext == mix \in Mixes /\ [CNext]_cvars => [Next]_vars
<1> SUFFICES ASSUME mix \in Mixes, CNext PROVE Next
  BY DEF cvars, vars
<1>1. mix.keys \subseteq Keys /\ mix.chars \subseteq TextChars
  BY MixesAssumption
<1>2. [1 .. Lead -> mix.chars] \subseteq [1 .. Lead -> TextChars]
      /\ [1 .. Rest -> mix.chars] \subseteq [1 .. Rest -> TextChars]
  BY <1>1
<1>3. CASE CReset
  BY <1>3, Zenon DEF CReset, Next
<1>4. CASE CSetHeader
  BY <1>4, Zenon DEF CSetHeader, Next
<1>5. CASE CFrame
  BY <1>1, <1>2, <1>5, Zenon DEF CFrame, Next
<1>6. CASE CFragment
  BY <1>2, <1>6, Zenon DEF CFragment, Next
<1>7. CASE COverrun
  BY <1>7, Zenon DEF COverrun, Next
<1>8. CASE CLost
  <2>1. Lost
    BY <1>8 DEF CLost, Lost, vars, cvars
  <2> QED
    BY <2>1, Zenon DEF Next
<1> QED
  BY <1>3, <1>4, <1>5, <1>6, <1>7, <1>8 DEF CNext

\* so its behaviours are the slow data's
LEMMA ConsoleIsSlowData == CSpec => [](IInv /\ mix \in Mixes)
<1>1. CInit => IInv /\ mix \in Mixes
  BY InitInv DEF CInit
<1>2. IInv /\ mix \in Mixes /\ [CNext]_cvars => (IInv /\ mix \in Mixes)'
  <2> SUFFICES ASSUME IInv, mix \in Mixes, [CNext]_cvars PROVE IInv' /\ mix' \in Mixes
    OBVIOUS
  <2>1. mix' = mix
    BY DEF CNext, CReset, CSetHeader, CFrame, CFragment, COverrun, CLost, cvars
  <2> QED
    BY <2>1, CNextIsNext, StepInv
<1> QED
  BY <1>1, <1>2, PTL DEF CSpec

\* the fragment that completes a message has its last character from the air
LEMMA MessageComplete ==
  ASSUME IInv, mix \in Mixes, Plain, NEW rest \in [1 .. Rest -> mix.chars],
         Message(rest), Prints("message")
  PROVE  LastPlain'
<1> DEFINE grown == Copied(m_message, Frag * Count, Text(rest), Frag)
<1>1. m_message' = MessageShown(grown) /\ Count = MsgFrags - 1
  <2>1. printed' # <<>>
    BY DEF Prints
  <2> QED
    BY <2>1, Zenon DEF Message
<1>2. Frag \in Nat /\ Frag > 1 /\ MsgFrags \in Nat \ {0} /\ MessageLen \in Nat /\ MessageLen > 0
  BY SlowDataAssumption, Sizes
<1>3. MessageLen = Frag * Count + Frag
  BY <1>1, <1>2 DEF MessageLen
<1>4. Frag * Count \in Nat
  BY <1>1, <1>2
<1>5. m_message \in Memory(MessageLen)
  BY DEF IInv, TypeOK
<1>6. grown[MessageLen - 1] = Text(rest)[Frag]
  <2>1. /\ MessageLen - 1 \in DOMAIN m_message
        /\ MessageLen - 1 \in Frag * Count .. Frag * Count + Frag - 1
        /\ MessageLen - 1 - Frag * Count + 1 = Frag
    BY <1>2, <1>3, <1>4, <1>5 DEF Memory
  <2> QED
    BY <2>1 DEF Copied
<1>7. Text(rest)[Frag] \in mix.chars
  <2>1. expect > 0 /\ expect % 2 = 0
    BY DEF Message, SecondHalf
  <2>2. m_buffer \in Halves
    BY <2>1 DEF IInv, HalfKept, TypeOK, Halves
  <2>3. PICK lead \in [1 .. Lead -> TextChars] : m_buffer[3] = lead
    BY <2>2 DEF Halves
  <2>4. lead \in Seq(TextChars) /\ Len(lead) = Lead /\ rest \in Seq(mix.chars) /\ Len(rest) = Rest
    BY SlowDataAssumption
  <2>5. (lead \o rest)[Frag] = rest[Rest] /\ Rest \in 1 .. Rest
    BY <2>4, SlowDataAssumption DEF Frag
  <2> QED
    BY <2>3, <2>5 DEF Text
<1>8. Underscored(grown, 0 .. MessageLen - 1)[MessageLen - 1] \in {Underscore, Text(rest)[Frag]}
  <2>1. MessageLen - 1 \in DOMAIN grown
    BY <1>2, <1>5 DEF Copied, Memory
  <2> HIDE DEF grown
  <2> QED
    BY <1>6, <2>1 DEF Underscored
<1>9. Underscore \notin {NUL} \cup Spaces
  BY SlowDataAssumption DEF Underscore, NUL
<1>10. Text(rest)[Frag] \notin {NUL} \cup Spaces
  BY <1>7 DEF Plain
<1> HIDE DEF grown
<1>11. MessageShown(grown)[MessageLen - 1] \notin {NUL} \cup Spaces
  BY <1>8, <1>9, <1>10, Zenon DEF MessageShown
<1> QED
  BY <1>1, <1>11, Zenon DEF LastPlain

LEMMA ConsoleInit == CInit => ConsoleInv
BY DEF CInit, Init, ConsoleInv, Searching

LEMMA ConsoleStep ==
  ASSUME IInv, ConsoleInv, [CNext]_cvars
  PROVE  ConsoleInv'
<1>0. m_headcount \in Nat /\ HeadFrags \in Nat
  BY SlowDataAssumption DEF IInv, TypeOK
<1>1. CASE UNCHANGED cvars
  BY <1>1 DEF cvars, ConsoleInv, Plain, LastPlain
<1>2. CASE CReset
  BY <1>2 DEF CReset, ConsoleInv, Plain
<1>3. CASE CSetHeader
  <2> PICK header \in RadioHeaders : SetHeader(header)
    BY <1>3 DEF CSetHeader
  <2>1. headers = 0
    BY DEF SetHeader, ConsoleInv
  <2>2. Prints("header")
    <3>1. printed' = <<"header", Shown(header)>>
      BY Zenon DEF SetHeader, PrintHeader
    <3>2. printed' # <<>> /\ printed'[1] = "header"
      BY <3>1
    <3> QED
      BY <3>2, Zenon DEF Prints
  <2>3. headers' = 1
    BY <1>3, <2>1, <2>2, CountedOnce DEF CSetHeader
  <2>4. expect' = 0 /\ m_headcount' = HeadFrags + 1 /\ UNCHANGED <<m_message, mix, messages>>
    BY <1>3 DEF CSetHeader, SetHeader, HeadCountSet
  <2> QED
    BY <2>3, <2>4 DEF ConsoleInv, Plain, LastPlain, Searching
<1>4. CASE CFrame
  <2>1. UNCHANGED <<m_headcount, m_message, mix, radio, headers, messages>>
    BY <1>4, Zenon DEF CFrame, Locked, SyncFrame, FirstHalf
  <2>2. expect' # Searching
    <3>1. expect' = 1 \/ (expect \in 0 .. SyncPeriod - 1 /\ expect' = NextFrame)
      BY <1>4 DEF CFrame, Locked, SyncFrame, FirstHalf, IInv, TypeOK, Searching, Undefined
    <3> QED
      BY <3>1, Numbers, SlowDataAssumption DEF Searching
  <2> QED
    BY <2>1, <2>2 DEF ConsoleInv, Plain, LastPlain
<1>5. CASE CFragment
  <2> PICK rest \in [1 .. Rest -> mix.chars] :
        /\ UNCHANGED mix
        /\ TypeThree(rest) \/ Message(rest) \/ Header(rest) \/ Filler(rest)
        /\ Listen(rest)
    BY <1>5 DEF CFragment
  <2>1. \E key : SecondHalf(key, rest)
    BY Zenon DEF TypeThree, Message, Header, Filler
  <2>2. expect' # Searching
    BY <2>1, SecondHalfKeeps, SlowDataAssumption DEF Searching
  <2>3. /\ radio' = radio
        /\ headers' = Counted(headers, "header")
        /\ messages' = Counted(messages, "message")
    BY Zenon DEF Listen
  <2>4. radio => headers' = 1 /\ m_headcount' = HeadFrags + 1
    <3> SUFFICES ASSUME radio PROVE headers' = 1 /\ m_headcount' = HeadFrags + 1
      OBVIOUS
    <3>1. headers = 1 /\ m_headcount = HeadFrags + 1
      BY DEF ConsoleInv
    <3>2. ~Prints("header")
      BY <1>0, <3>1, FragmentPrints
    <3>3. m_headcount' = m_headcount
      BY <1>0, <3>1 DEF TypeThree, Message, Header, Filler
    <3> QED
      BY <2>3, <3>1, <3>2, <3>3, CountedOnce
  <2>5. CASE Plain /\ Prints("message")
    <3>1. Message(rest) /\ ~MessageDone
      BY <1>0, <2>5, FragmentPrints
    <3>2. LastPlain'
      BY <2>5, <3>1, MessageComplete DEF ConsoleInv
    <3>3. messages = 0
      BY <2>5, <3>1, LastPlainDone DEF ConsoleInv
    <3>4. messages' = 1
      BY <2>3, <2>5, <3>3, CountedOnce
    <3> QED
      BY <2>2, <2>3, <2>4, <3>2, <3>4 DEF ConsoleInv, Plain
  <2>6. CASE Plain /\ ~Prints("message")
    <3>1. messages' = messages
      BY <2>3, <2>6, CountedOnce
    <3>2. LastPlain => m_message' = m_message
      <4> SUFFICES ASSUME LastPlain PROVE m_message' = m_message
        OBVIOUS
      <4>1. MessageDone /\ m_message[MessageLen - 1] \notin Spaces
        BY LastPlainDone DEF LastPlain
      <4>2. CASE TypeThree(rest)
        BY <4>1, <4>2, TextSpares, Zenon
      <4>3. CASE Message(rest) \/ Header(rest) \/ Filler(rest)
        BY <4>1, <4>3, Zenon DEF Message, Header, Filler
      <4> QED
        BY <4>2, <4>3
    <3>3. LastPlain => LastPlain'
      BY <3>2, Zenon DEF LastPlain
    <3> QED
      BY <2>2, <2>3, <2>4, <3>1, <3>3 DEF ConsoleInv, Plain
  <2>7. CASE ~Plain
    BY <2>2, <2>3, <2>4, <2>7 DEF ConsoleInv, Plain
  <2> QED
    BY <2>5, <2>6, <2>7
<1>6. CASE COverrun
  <2>1. expect' # Searching
    BY <1>6 DEF COverrun, Overrun, Undefined, Searching
  <2>2. UNCHANGED <<m_headcount, m_message, mix, radio, headers, messages>>
    BY <1>6, Zenon DEF COverrun, Overrun
  <2> QED
    BY <2>1, <2>2 DEF ConsoleInv, Plain, LastPlain
<1>7. CASE CLost
  BY <1>1, <1>7 DEF CLost
<1> QED
  BY <1>1, <1>2, <1>3, <1>4, <1>5, <1>6, <1>7 DEF CNext

LEMMA ConsoleInvariant == CSpec => []ConsoleInv
BY ConsoleInit, ConsoleStep, ConsoleIsSlowData, PTL DEF CSpec

(***************************************************************************)
(* When a header came before the frames, none of their fragments prints    *)
(* another, whatever they are: SetHeader leaves m_headcount past the last. *)
(***************************************************************************)
THEOREM HeaderPrintedOnce == CSpec => []RadioHeaderOnce
<1>1. ConsoleInv => RadioHeaderOnce
  BY DEF ConsoleInv, RadioHeaderOnce
<1> QED
  BY <1>1, ConsoleInvariant, PTL

(***************************************************************************)
(* A message with neither NULs nor white space but blanks is printed once, *)
(* whatever the order of its fragments and whatever texts come: what it    *)
(* was printed for is its last character, which stays.                     *)
(***************************************************************************)
THEOREM MessagePrintedOnce == CSpec => []MessageOnce
<1>1. ConsoleInv => MessageOnce
  BY DEF ConsoleInv, Plain, MessageOnce
<1> QED
  BY <1>1, ConsoleInvariant, PTL

-----------------------------------------------------------------------------
(***************************************************************************)
(* The text.  While a text without a NUL comes in, m_type3 spells what has *)
(* been heard of it; after its last fragment it is clear.  Once there is   *)
(* no room, there is none, and nothing is printed, until Reset.            *)
(***************************************************************************)
Clean(text) == \A k \in DOMAIN text : text[k] # NUL
Spelled(text) == [i \in 0 .. Type3Len - 1 |-> IF i < Len(text) THEN text[i + 1] ELSE NUL]

\* what is put behind another fragment
Kept(text, end) == IF end THEN <<>> ELSE text

HeardInv ==
  /\ heard \in Seq(Char)
  /\ NoRoom \/ (Clean(Kept(heard, ended)) => m_type3 = Spelled(Kept(heard, ended)))

LEMMA Ordered == \A k, n \in Nat : k < n \/ n < k \/ k = n
OBVIOUS

\* A text is as long as the string it is spelled in.
LEMMA SpelledLen ==
  ASSUME NEW text \in Seq(Char), Clean(text), Len(text) < Type3Len
  PROVE  StrLen(Spelled(text)) = Len(text)
<1>1. Len(text) \in Nat /\ DOMAIN text = 1 .. Len(text) /\ Type3Len \in Nat
  BY LenProperties, SlowDataAssumption
<1> DEFINE mem == Spelled(text)
           End(n) == mem[n] = NUL /\ \A i \in 0 .. n - 1 : mem[i] # NUL
<1>2. DOMAIN mem = 0 .. Type3Len - 1
  BY DEF Spelled
<1>3. \A i \in 0 .. Len(text) - 1 : mem[i] # NUL
  <2> TAKE i \in 0 .. Len(text) - 1
  <2>1. i \in 0 .. Type3Len - 1 /\ i < Len(text) /\ i + 1 \in 1 .. Len(text)
    BY <1>1
  <2>2. mem[i] = text[i + 1]
    BY <2>1, Zenon DEF Spelled
  <2> QED
    BY <1>1, <2>1, <2>2, Zenon DEF Clean
<1>4. Len(text) \in DOMAIN mem /\ mem[Len(text)] = NUL
  BY <1>1, <1>2 DEF Spelled
<1>5. Len(text) \in DOMAIN mem /\ End(Len(text))
  BY <1>3, <1>4
<1>6. ASSUME NEW n \in DOMAIN mem, End(n) PROVE n = Len(text)
  <2>1. n \in Nat
    BY <1>1, <1>2
  <2>2. ~(n < Len(text))
    <3> HIDE DEF mem
    <3>1. n < Len(text) => n \in 0 .. Len(text) - 1
      BY <1>1, <2>1
    <3> QED
      BY <1>3, <1>6, <3>1, Zenon
  <2>3. ~(Len(text) < n)
    <3> HIDE DEF mem
    <3>1. Len(text) < n => Len(text) \in 0 .. n - 1
      BY <1>1, <2>1
    <3> QED
      BY <1>4, <1>6, <3>1, Zenon
  <2> QED
    BY <1>1, <2>1, <2>2, <2>3, Ordered, Zenon
<1> HIDE DEF mem
<1>7. (CHOOSE n \in DOMAIN mem : mem[n] = NUL /\ \A i \in 0 .. n - 1 : mem[i] # NUL) = Len(text)
  BY <1>5, <1>6
<1> QED
  BY <1>7 DEF StrLen, mem

\* m_type3 with room for a fragment, spelled: the text is that much shorter.
LEMMA RoomLen ==
  ASSUME NEW text \in Seq(Char), Clean(text), m_type3 = Spelled(text), Terminated, ~NoRoom
  PROVE  Len(text) \in Nat /\ Len(text) < Type3Len - Frag /\ StrLen(m_type3) = Len(text)
<1>1. /\ Len(text) \in Nat /\ DOMAIN text = 1 .. Len(text)
      /\ Type3Len \in Nat \ {0} /\ Frag \in Nat
  BY LenProperties, SlowDataAssumption, Sizes
<1>2. Len(text) < Type3Len
  <2>1. ASSUME ~(Len(text) < Type3Len) PROVE FALSE
    <3>1. /\ Type3Len - 1 \in 0 .. Type3Len - 1 /\ Type3Len - 1 < Len(text)
          /\ (Type3Len - 1) + 1 \in 1 .. Len(text)
      BY <1>1, <2>1
    <3>2. m_type3[Type3Len - 1] = text[(Type3Len - 1) + 1]
      BY <3>1, Zenon DEF Spelled
    <3> QED
      BY <1>1, <3>1, <3>2, Zenon DEF Terminated, Clean
  <2> QED
    BY <2>1
<1>3. StrLen(m_type3) = Len(text)
  BY <1>2, SpelledLen, Zenon
<1> QED
  BY <1>1, <1>3 DEF NoRoom

\* A fragment behind it spells the longer text.
LEMMA SpelledOn ==
  ASSUME NEW text \in Seq(Char), NEW more, NEW count \in 0 .. Frag,
         \A k \in 1 .. Frag : more[k] \in Char,
         Len(text) < Type3Len - Frag
  PROVE  LET longer == text \o SubSeq(more, 1, count)
         IN  /\ longer \in Seq(Char)
             /\ Len(longer) = Len(text) + count
             /\ Len(longer) < Type3Len
             /\ Copied(Spelled(text), Len(text), more, count) = Spelled(longer)
<1>1. Len(text) \in Nat /\ Type3Len \in Nat /\ Frag \in Nat /\ count \in Nat
  BY LenProperties, SlowDataAssumption, Sizes
<1> DEFINE piece == SubSeq(more, 1, count)
           longer == text \o piece
<1>2. /\ piece \in Seq(Char)
      /\ Len(piece) = count
      /\ \A k \in 1 .. count : piece[k] = more[k]
  <2>1. \A k \in 1 .. count : more[k] \in Char
    BY <1>1
  <2>2. /\ piece \in Seq(Char)
        /\ Len(piece) = IF 1 <= count THEN count - 1 + 1 ELSE 0
        /\ \A k \in 1 .. count - 1 + 1 : piece[k] = more[1 + k - 1]
    BY <1>1, <2>1, SubSeqProperties
  <2>3. \A k \in 1 .. count : k \in 1 .. count - 1 + 1 /\ 1 + k - 1 = k
    BY <1>1
  <2> HIDE DEF piece
  <2>4. Len(piece) = count
    BY <1>1, <2>2
  <2> QED
    BY <2>2, <2>3, <2>4, Zenon
<1> HIDE DEF piece
<1>3. /\ longer \in Seq(Char)
      /\ Len(longer) = Len(text) + count
      /\ \A k \in 1 .. Len(text) + count :
           longer[k] = IF k <= Len(text) THEN text[k] ELSE piece[k - Len(text)]
  BY <1>2, ConcatProperties
<1>4. Len(longer) < Type3Len
  BY <1>1, <1>3
<1> HIDE DEF longer
<1>5. ASSUME NEW i \in 0 .. Type3Len - 1
      PROVE  (IF i \in Len(text) .. Len(text) + count - 1
              THEN more[i - Len(text) + 1] ELSE Spelled(text)[i])
               = IF i < Len(longer) THEN longer[i + 1] ELSE NUL
  <2>1. Spelled(text)[i] = IF i < Len(text) THEN text[i + 1] ELSE NUL
    BY DEF Spelled
  <2>2. CASE i < Len(text)
    <3>1. /\ i \notin Len(text) .. Len(text) + count - 1 /\ i < Len(longer)
          /\ i + 1 \in 1 .. Len(text) + count /\ i + 1 <= Len(text)
      BY <1>1, <1>3, <2>2
    <3> QED
      BY <1>3, <2>1, <2>2, <3>1
  <2>3. CASE i \in Len(text) .. Len(text) + count - 1
    <3>1. /\ i < Len(longer) /\ i + 1 \in 1 .. Len(text) + count /\ ~(i + 1 <= Len(text))
          /\ (i + 1) - Len(text) = i - Len(text) + 1
          /\ i - Len(text) + 1 \in 1 .. count
      BY <1>1, <1>3, <2>3
    <3>2. longer[i + 1] = piece[(i + 1) - Len(text)]
      BY <1>3, <3>1
    <3>3. piece[i - Len(text) + 1] = more[i - Len(text) + 1]
      BY <1>2, <3>1, Zenon
    <3> QED
      BY <2>3, <3>1, <3>2, <3>3
  <2>4. CASE ~(i < Len(text)) /\ i \notin Len(text) .. Len(text) + count - 1
    <3>1. ~(i < Len(longer))
      BY <1>1, <1>3, <2>4
    <3> QED
      BY <2>1, <2>4, <3>1
  <2> QED
    BY <2>2, <2>3, <2>4
<1>6. DOMAIN Spelled(text) = 0 .. Type3Len - 1
  BY DEF Spelled
<1>7. Copied(Spelled(text), Len(text), more, count) = Spelled(longer)
  <2>1. Copied(Spelled(text), Len(text), more, count) =
          [i \in 0 .. Type3Len - 1 |-> IF i \in Len(text) .. Len(text) + count - 1
             THEN more[i - Len(text) + 1] ELSE Spelled(text)[i]]
    BY <1>6, Zenon DEF Copied
  <2>2. Spelled(longer) = [i \in 0 .. Type3Len - 1 |-> IF i < Len(longer) THEN longer[i + 1] ELSE NUL]
    BY Zenon DEF Spelled
  <2> QED
    BY <1>5, <2>1, <2>2, Zenon
<1> QED
  BY <1>3, <1>4, <1>7, Zenon DEF longer, piece

\* Trimmed, a text has lost the white space at its end and nothing else.
LEMMA TrimmedSpelled ==
  ASSUME NEW text \in Seq(Char), Clean(text), Len(text) < Type3Len
  PROVE  Trimmed(Spelled(text), Len(text)) =
           [i \in 0 .. Type3Len - 1 |-> IF i + 1 \in Stripped(text) THEN text[i + 1] ELSE NUL]
<1>1. Len(text) \in Nat /\ Type3Len \in Nat
  BY LenProperties, SlowDataAssumption
<1> DEFINE mem == Spelled(text)
           kept == {i \in 0 .. Len(text) - 1 : mem[i] \notin White}
<1>3. DOMAIN mem = 0 .. Type3Len - 1
  BY DEF Spelled
<1>4. \A i \in 0 .. Type3Len - 1 : mem[i] = IF i < Len(text) THEN text[i + 1] ELSE NUL
  BY DEF Spelled
<1>5. Trimmed(mem, Len(text)) = [i \in 0 .. Type3Len - 1 |->
                        IF i < Len(text) /\ \A k \in kept : k < i THEN NUL ELSE mem[i]]
  BY <1>3, Zenon DEF Trimmed
<1> HIDE DEF mem
<1>6. ASSUME NEW i \in 0 .. Type3Len - 1, i < Len(text)
      PROVE  i + 1 \in Stripped(text) <=> ~ \A k \in kept : k < i
  <2>1. ASSUME i + 1 \in Stripped(text) PROVE ~ \A k \in kept : k < i
    <3>1. PICK k \in i + 1 .. Len(text) : text[k] \notin White
      BY <2>1 DEF Stripped
    <3>2. /\ k - 1 \in 0 .. Len(text) - 1 /\ k - 1 \in 0 .. Type3Len - 1 /\ k - 1 < Len(text)
          /\ (k - 1) + 1 = k /\ ~(k - 1 < i)
      BY <1>1
    <3>3. mem[k - 1] = text[k]
      BY <1>4, <3>2
    <3>4. k - 1 \in kept
      BY <3>1, <3>2, <3>3
    <3> QED
      BY <3>2, <3>4
  <2>2. ASSUME ~ \A k \in kept : k < i PROVE i + 1 \in Stripped(text)
    <3>1. PICK k \in kept : ~(k < i)
      BY <2>2
    <3>2. /\ k + 1 \in i + 1 .. Len(text) /\ k \in 0 .. Type3Len - 1 /\ k < Len(text)
          /\ i + 1 \in 1 .. Len(text)
      BY <1>1, <1>6, <3>1
    <3>3. text[k + 1] = mem[k] /\ mem[k] \notin White
      BY <1>4, <3>1, <3>2
    <3> QED
      BY <3>2, <3>3 DEF Stripped
  <2> QED
    BY <2>1, <2>2
<1>7. ASSUME NEW i \in 0 .. Type3Len - 1, ~(i < Len(text)) PROVE i + 1 \notin Stripped(text)
  BY <1>1, <1>7 DEF Stripped
<1> HIDE DEF kept
<1>8. ASSUME NEW i \in 0 .. Type3Len - 1
      PROVE  (IF i < Len(text) /\ \A k \in kept : k < i THEN NUL ELSE mem[i])
               = IF i + 1 \in Stripped(text) THEN text[i + 1] ELSE NUL
  <2>1. CASE i < Len(text)
    BY <1>4, <1>6, <2>1, Zenon
  <2>2. CASE ~(i < Len(text))
    BY <1>4, <1>7, <2>2, Zenon
  <2> QED
    BY <2>1, <2>2
<1> QED
  BY <1>5, <1>8, Zenon DEF mem

\* a text of which nothing has been heard
LEMMA NothingSpelled == Clean(<<>>) /\ Cleared(Type3Len) = Spelled(<<>>)
<1>1. Clean(<<>>)
  BY DEF Clean
<1>2. \A i \in 0 .. Type3Len - 1 : ~(i < Len(<<>>))
  BY SlowDataAssumption
<1>3. Spelled(<<>>) = Cleared(Type3Len)
  BY <1>2 DEF Spelled, Cleared
<1> QED
  BY <1>1, <1>3

(***************************************************************************)
(* One fragment more, behind what is kept.  What is heard of it is on the  *)
(* console or in m_type3, when there is room and no NUL.                   *)
(***************************************************************************)
LEMMA HeardMore ==
  ASSUME IInv, mix \in Mixes, HeardInv, NEW rest \in [1 .. Rest -> mix.chars], TypeThree(rest)
  PROVE  /\ TextFragment
         /\ Heard(rest) \in Seq(Char)
         /\ ~NoRoom /\ Clean(Heard(rest)) =>
              /\ Len(Heard(rest)) < Type3Len
              /\ Copied(m_type3, StrLen(m_type3), Text(rest), Count) = Spelled(Heard(rest))
<1> DEFINE before == Kept(heard, ended)
           upto == IF Count > Frag THEN Frag ELSE Count
           piece == SubSeq(Text(rest), 1, upto)
           text == before \o piece
<1>1. expect > 0 /\ expect % 2 = 0 /\ m_buffer[1] = 3
  BY DEF TypeThree, SecondHalf
<1>2. /\ upto \in 0 .. Frag /\ (Count <= Frag => upto = Count)
      /\ \A k \in 1 .. Frag : Text(rest)[k] \in Char
  <2>1. rest \in [1 .. Rest -> TextChars]
    BY MixesAssumption
  <2>2. Count \in Nat /\ \A k \in 1 .. Frag : Text(rest)[k] \in Char
    BY <1>1, <2>1, HalfAtHand
  <2> QED
    BY <2>2, Sizes, SlowDataAssumption
<1>3. before \in Seq(Char)
  BY DEF HeardInv, Kept
<1>4. piece \in Seq(Char)
  <2> HIDE DEF upto
  <2>1. 1 \in Int /\ upto \in Int /\ \A k \in 1 .. upto : Text(rest)[k] \in Char
    BY <1>2, Sizes
  <2> QED
    BY <2>1, SubSeqProperties
<1>5. Heard(rest) = IF Len(before) >= Type3Len - Frag THEN before
                    ELSE IF \E n \in DOMAIN text : text[n] = NUL THEN <<NUL>> ELSE text
  BY Zenon DEF Heard, Kept
<1> HIDE DEF piece, upto
<1>6. text \in Seq(Char)
  BY <1>3, <1>4, ConcatProperties
<1>7. Heard(rest) \in Seq(Char)
  <2>1. <<NUL>> \in Seq(Char)
    BY Sizes
  <2> HIDE DEF before, text
  <2> QED
    BY <1>3, <1>5, <1>6, <2>1, Zenon
<1>8. ~Clean(<<NUL>>)
  BY DEF Clean
<1>9. ASSUME ~NoRoom, Clean(Heard(rest))
      PROVE  /\ Len(Heard(rest)) < Type3Len
             /\ Copied(m_type3, StrLen(m_type3), Text(rest), Count) = Spelled(Heard(rest))
  <2>1. Clean(before)
    <3>1. CASE Len(before) >= Type3Len - Frag
      BY <1>5, <1>9, <3>1, Zenon
    <3>2. CASE ~(Len(before) >= Type3Len - Frag)
      <4>1. \A n \in DOMAIN text : text[n] # NUL
        <5> HIDE DEF text, before
        <5> QED
          BY <1>5, <1>8, <1>9, <3>2, Zenon
      <4>2. \A n \in DOMAIN before : n \in DOMAIN text /\ text[n] = before[n]
        BY <1>3, <1>4, ConcatProperties
      <4> HIDE DEF text, before
      <4> QED
        BY <4>1, <4>2 DEF Clean
    <3> QED
      BY <3>1, <3>2
  <2>2. m_type3 = Spelled(before)
    BY <1>9, <2>1 DEF HeardInv
  <2> HIDE DEF before
  <2>3. Terminated
    BY DEF IInv
  <2>4. Len(before) < Type3Len - Frag /\ StrLen(m_type3) = Len(before) /\ Len(before) \in Nat
    BY <1>3, <1>9, <2>1, <2>2, <2>3, RoomLen, Zenon
  <2>5. ~(Len(before) >= Type3Len - Frag)
    BY <2>4, SlowDataAssumption, Sizes
  <2>6. Heard(rest) = text
    <3> HIDE DEF text
    <3> QED
      BY <1>5, <1>8, <1>9, <2>5, Zenon
  <2>7. /\ Len(text) < Type3Len
        /\ Copied(Spelled(before), Len(before), Text(rest), upto) = Spelled(text)
    BY <1>2, <1>3, <2>4, SpelledOn, Zenon DEF piece
  <2>8. upto = Count
    <3>1. Within(StrLen(m_type3), Count, Type3Len)
      BY <1>9, Zenon DEF TypeThree
    <3> QED
      BY <1>2, <3>1, Zenon DEF Within
  <2> QED
    BY <2>2, <2>4, <2>6, <2>7, <2>8, Zenon
<1> QED
  BY <1>1, <1>7, <1>9, Zenon DEF TextFragment

LEMMA HeardInit == CInit => HeardInv
<1> SUFFICES ASSUME CInit PROVE HeardInv
  OBVIOUS
<1>1. heard = <<>> /\ ended = FALSE /\ m_type3 = Cleared(Type3Len)
  BY DEF CInit, Init
<1> QED
  BY <1>1, NothingSpelled DEF HeardInv, Kept

LEMMA HeardStep ==
  ASSUME IInv, mix \in Mixes, HeardInv, [CNext]_cvars
  PROVE  HeardInv'
<1>1. CASE UNCHANGED <<m_type3, heard, ended>>
  <2>1. m_type3' = m_type3 /\ heard' = heard /\ ended' = ended
    BY <1>1
  <2> QED
    BY <2>1, Zenon DEF HeardInv, NoRoom
<1>2. CASE UNCHANGED cvars
  BY <1>1, <1>2 DEF cvars
<1>3. CASE CReset
  <2>1. heard' = <<>> /\ ended' = FALSE /\ m_type3' = Cleared(Type3Len)
    BY <1>3 DEF CReset, Reset
  <2> QED
    BY <2>1, NothingSpelled DEF HeardInv, Kept
<1>4. CASE CSetHeader
  BY <1>1, <1>4, Zenon DEF CSetHeader, SetHeader
<1>5. CASE CFrame
  BY <1>1, <1>5, Zenon DEF CFrame, Locked, SyncFrame, FirstHalf
<1>6. ASSUME NEW rest \in [1 .. Rest -> mix.chars], Listen(rest),
             Message(rest) \/ Header(rest) \/ Filler(rest)
      PROVE  HeardInv'
  <2>1. m_buffer[1] # 3 /\ m_type3' = m_type3
    <3>1. PICK key : key # 3 /\ SecondHalf(key, rest)
      BY <1>6 DEF Message, Header, Filler
    <3> QED
      BY <1>6, <3>1, Zenon DEF SecondHalf, Message, Header, Filler
  <2>2. heard' = heard /\ ended' = ended
    BY <1>6, <2>1, Zenon DEF Listen, TextFragment
  <2> QED
    BY <1>1, <2>1, <2>2
<1>7. ASSUME NEW rest \in [1 .. Rest -> mix.chars], Listen(rest), TypeThree(rest)
      PROVE  HeardInv'
  <2> DEFINE grown == Copied(m_type3, StrLen(m_type3), Text(rest), Count)
  <2>1. /\ TextFragment
        /\ Heard(rest) \in Seq(Char)
        /\ ~NoRoom /\ Clean(Heard(rest)) => grown = Spelled(Heard(rest))
    BY <1>7, HeardMore, Zenon
  <2>2. heard' = Heard(rest) /\ ended' = (Count # Frag)
    BY <1>7, <2>1, Zenon DEF Listen
  <2>3. heard' \in Seq(Char)
    BY <2>1, <2>2
  <2>4. CASE NoRoom
    <3>1. m_type3' = m_type3
      BY <1>7, <2>4, Zenon DEF TypeThree
    <3>2. NoRoom'
      BY <2>4, <3>1, Zenon DEF NoRoom
    <3> QED
      BY <2>3, <3>2, Zenon DEF HeardInv
  <2>5. CASE ~NoRoom /\ Count = Frag
    <3>1. m_type3' = grown
      BY <1>7, <2>5, Zenon DEF TypeThree
    <3>2. Kept(heard', ended') = Heard(rest)
      BY <2>2, <2>5, Zenon DEF Kept
    <3>3. Clean(Kept(heard', ended')) => m_type3' = Spelled(Kept(heard', ended'))
      BY <2>1, <2>5, <3>1, <3>2, Zenon
    <3> QED
      BY <2>3, <3>3, Zenon DEF HeardInv
  <2>6. CASE ~NoRoom /\ Count # Frag
    <3>1. m_type3' = Cleared(Type3Len)
      BY <1>7, <2>6, Zenon DEF TypeThree
    <3>2. Kept(heard', ended') = <<>>
      BY <2>2, <2>6, Zenon DEF Kept
    <3>3. Clean(Kept(heard', ended')) => m_type3' = Spelled(Kept(heard', ended'))
      BY <3>1, <3>2, NothingSpelled, Zenon
    <3> QED
      BY <2>3, <3>3, Zenon DEF HeardInv
  <2> QED
    BY <2>4, <2>5, <2>6, Zenon
<1>8. CASE CFragment
  BY <1>6, <1>7, <1>8, Zenon DEF CFragment
<1>9. CASE COverrun
  BY <1>1, <1>9, Zenon DEF COverrun, Overrun
<1>10. CASE CLost
  BY <1>2, <1>10, Zenon DEF CLost
<1> QED
  BY <1>2, <1>3, <1>4, <1>5, <1>8, <1>9, <1>10 DEF CNext

\* only the last fragment of a text prints one, and it prints what was heard
LEMMA TextStep ==
  ASSUME IInv, mix \in Mixes, HeardInv, CNext, ~UNCHANGED cvars,
         Prints("text"), Clean(heard')
  PROVE  printed'[2] = [i \in 0 .. Type3Len - 1 |->
                          IF i + 1 \in Stripped(heard') THEN heard'[i + 1] ELSE NUL]
<1>1. printed' # <<>> /\ printed'[1] = "text"
  BY DEF Prints
<1>2. CASE CReset
  BY <1>1, <1>2, Zenon DEF CReset, Reset
<1>3. CASE CSetHeader
  BY <1>1, <1>3 DEF CSetHeader, SetHeader, PrintHeader
<1>4. CASE CFrame
  BY <1>1, <1>4, Zenon DEF CFrame, Locked, SyncFrame, FirstHalf
<1>5. ASSUME NEW rest \in [1 .. Rest -> mix.chars],
             Message(rest) \/ Header(rest) \/ Filler(rest)
      PROVE  FALSE
  <2>1. \/ printed' = <<>>
        \/ \E name \in {"header", "message"} : \E shown : printed' = <<name, shown>>
    BY <1>5, Zenon DEF Message, Header, PrintHeader, Filler
  <2> QED
    BY <1>1, <2>1
<1>6. ASSUME NEW rest \in [1 .. Rest -> mix.chars], Listen(rest), TypeThree(rest)
      PROVE  printed'[2] = [i \in 0 .. Type3Len - 1 |->
                              IF i + 1 \in Stripped(heard') THEN heard'[i + 1] ELSE NUL]
  <2> DEFINE grown == Copied(m_type3, StrLen(m_type3), Text(rest), Count)
  <2>1. ~NoRoom /\ printed' = <<"text", Trimmed(grown, StrLen(grown))>>
    BY <1>1, <1>6, Zenon DEF TypeThree
  <2>2. /\ TextFragment
        /\ Heard(rest) \in Seq(Char)
        /\ ~NoRoom /\ Clean(Heard(rest)) =>
             Len(Heard(rest)) < Type3Len /\ grown = Spelled(Heard(rest))
    BY <1>6, HeardMore, Zenon
  <2> HIDE DEF grown
  <2>3. heard' = Heard(rest)
    BY <1>6, <2>2, Zenon DEF Listen
  <2>4. /\ heard' \in Seq(Char) /\ Len(heard') < Type3Len
        /\ printed'[2] = Trimmed(Spelled(heard'), StrLen(Spelled(heard')))
    BY <2>1, <2>2, <2>3
  <2>5. StrLen(Spelled(heard')) = Len(heard')
    BY <2>4, SpelledLen, Zenon
  <2> QED
    BY <2>4, <2>5, TrimmedSpelled, Zenon
<1>7. CASE CFragment
  BY <1>5, <1>6, <1>7, Zenon DEF CFragment
<1>8. CASE COverrun
  BY <1>1, <1>8, Zenon DEF COverrun, Overrun
<1> QED
  BY <1>2, <1>3, <1>4, <1>7, <1>8, Zenon DEF CNext, CLost

LEMMA HeardInvariant == CSpec => []HeardInv
BY HeardInit, HeardStep, ConsoleIsSlowData, PTL DEF CSpec

(***************************************************************************)
(* What is printed of a text is what was heard of it since the last one    *)
(* ended, but for the blanks at its end, whatever came in between: other   *)
(* fragments, a text with no room left, a Reset.                           *)
(***************************************************************************)
THEOREM TextAsSentHolds == CSpec => TextAsSent
<1>1. IInv /\ mix \in Mixes /\ HeardInv /\ [CNext]_cvars =>
        [Prints("text") /\ (\A n \in DOMAIN heard' : heard'[n] # NUL) =>
           printed'[2] = [i \in 0 .. Type3Len - 1 |->
                            IF i + 1 \in Stripped(heard') THEN heard'[i + 1] ELSE NUL]]_cvars
  BY TextStep, Zenon DEF Clean
<1> QED
  BY <1>1, HeardInvariant, ConsoleIsSlowData, PTL DEF CSpec, TextAsSent

-----------------------------------------------------------------------------
(***************************************************************************)
(* The station.  What a receiver that was there from the start has of the  *)
(* message and of the header is what the fragments that came have brought. *)
(***************************************************************************)
FirstOf(fragment) == <<fragment[1], fragment[2], SubSeq(fragment[3], 1, Lead)>>
RestOf(fragment) == SubSeq(fragment[3], Lead + 1, Frag)

MessageHeard ==
  \/ /\ fragments < MsgFrags
     /\ messages = 0
     /\ DOMAIN m_message = 0 .. MessageLen - 1
     /\ \A i \in 0 .. MessageLen - 1 :
          m_message[i] = IF i < Frag * fragments THEN StationMessage[i + 1] ELSE NUL
  \/ /\ fragments >= MsgFrags
     /\ messages = 1
     /\ MessageDone

HeaderHeard ==
  \/ /\ headers = 0
     /\ m_headcount = IF fragments < MsgFrags THEN 0 ELSE fragments - MsgFrags
     /\ m_headcount < HeadFrags
     /\ DOMAIN m_header = 0 .. HeaderLen - 1
     /\ \A i \in 0 .. HeaderLen - 1 : i < Frag * m_headcount => m_header[i] = StationHeader[i + 1]
  \/ /\ headers = 1
     /\ m_headcount >= HeadFrags

StationInv ==
  /\ place \in DOMAIN Cycle
  /\ fragments \in 0 .. Len(Cycle)
  /\ m_headcount \in Nat
  /\ expect \in {Searching} \cup 0 .. SyncPeriod - 1
  /\ expect = Searching =>
       /\ ~fromStart /\ place = 1 /\ fragments = 0
       /\ headers = 0 /\ messages = 0 /\ m_headcount = 0
       /\ m_header = Cleared(HeaderLen) /\ m_message = Cleared(MessageLen)
  /\ expect > 0 /\ expect % 2 = 0 => m_buffer = FirstOf(Cycle[place])
  /\ fromStart => /\ fragments < Len(Cycle) => place = fragments + 1
                  /\ MessageHeard
                  /\ HeaderHeard

LEMMA CycleIs ==
  /\ Len(Cycle) = MsgFrags + HeadFrags + 1
  /\ DOMAIN Cycle = 1 .. Len(Cycle)
  /\ \A k \in 1 .. MsgFrags : Cycle[k] = <<4, k - 1, Piece(StationMessage, Frag * (k - 1))>>
  /\ \A k \in MsgFrags + 1 .. Len(Cycle) :
       Cycle[k] = <<5, IF k - MsgFrags <= HeadFrags THEN Frag ELSE 1,
                    Piece(StationHeader, Frag * (k - MsgFrags - 1))>>
<1> DEFINE S == {MessageFragments[k] : k \in 1 .. MsgFrags} \cup {HeaderFragments[k] : k \in 1 .. HeadFrags + 1}
<1>1. MsgFrags \in Nat /\ HeadFrags \in Nat /\ HeadFrags + 1 \in Nat
  BY SlowDataAssumption
<1>2. MessageFragments \in Seq(S) /\ Len(MessageFragments) = MsgFrags
  <2>1. MessageFragments \in [1 .. MsgFrags -> S]
    BY DEF MessageFragments
  <2> HIDE DEF S
  <2> QED
    BY <1>1, <2>1
<1>3. HeaderFragments \in Seq(S) /\ Len(HeaderFragments) = HeadFrags + 1
  <2>1. HeaderFragments \in [1 .. HeadFrags + 1 -> S]
    BY DEF HeaderFragments
  <2> HIDE DEF S
  <2> QED
    BY <1>1, <2>1
<1> HIDE DEF S
<1>4. /\ Cycle \in Seq(S)
      /\ Len(Cycle) = MsgFrags + (HeadFrags + 1)
      /\ \A k \in 1 .. MsgFrags + (HeadFrags + 1) :
           Cycle[k] = IF k <= MsgFrags THEN MessageFragments[k] ELSE HeaderFragments[k - MsgFrags]
  <2>1. /\ Cycle \in Seq(S)
        /\ Len(Cycle) = Len(MessageFragments) + Len(HeaderFragments)
        /\ \A k \in 1 .. Len(MessageFragments) + Len(HeaderFragments) :
             Cycle[k] = IF k <= Len(MessageFragments) THEN MessageFragments[k]
                        ELSE HeaderFragments[k - Len(MessageFragments)]
    BY <1>2, <1>3, ConcatProperties, Zenon DEF Cycle
  <2> QED
    BY <1>2, <1>3, <2>1, Zenon
<1>5. Len(Cycle) = MsgFrags + HeadFrags + 1 /\ DOMAIN Cycle = 1 .. Len(Cycle)
  BY <1>1, <1>4
<1>6. ASSUME NEW k \in 1 .. MsgFrags
      PROVE  Cycle[k] = <<4, k - 1, Piece(StationMessage, Frag * (k - 1))>>
  <2>1. k \in 1 .. MsgFrags + (HeadFrags + 1) /\ k <= MsgFrags
    BY <1>1
  <2>2. Cycle[k] = MessageFragments[k]
    BY <1>4, <2>1, Zenon
  <2> QED
    BY <2>2, Zenon DEF MessageFragments
<1>7. ASSUME NEW k \in MsgFrags + 1 .. Len(Cycle)
      PROVE  Cycle[k] = <<5, IF k - MsgFrags <= HeadFrags THEN Frag ELSE 1,
                          Piece(StationHeader, Frag * (k - MsgFrags - 1))>>
  <2>1. /\ k \in 1 .. MsgFrags + (HeadFrags + 1) /\ ~(k <= MsgFrags)
        /\ k - MsgFrags \in 1 .. HeadFrags + 1
    BY <1>1, <1>5
  <2>2. Cycle[k] = HeaderFragments[k - MsgFrags]
    BY <1>4, <2>1, Zenon
  <2> QED
    BY <2>1, <2>2, Zenon DEF HeaderFragments
<1> QED
  BY <1>5, <1>6, <1>7

\* the two halves of a fragment are the fragment
LEMMA HalvesJoin ==
  ASSUME NEW text, DOMAIN text = 1 .. Frag
  PROVE  \A k \in 1 .. Frag : (SubSeq(text, 1, Lead) \o SubSeq(text, Lead + 1, Frag))[k] = text[k]
<1> DEFINE S == {text[k] : k \in 1 .. Frag}
           lead == SubSeq(text, 1, Lead)
           rest == SubSeq(text, Lead + 1, Frag)
<1>1. Lead \in Nat \ {0} /\ Rest \in Nat \ {0} /\ Frag = Lead + Rest
  BY SlowDataAssumption DEF Frag
<1>2. \A k \in 1 .. Frag : text[k] \in S
  OBVIOUS
<1> HIDE DEF S
<1>3. /\ lead \in Seq(S) /\ Len(lead) = Lead
      /\ \A k \in 1 .. Lead : lead[k] = text[k]
  <2>1. \A k \in 1 .. Lead : text[k] \in S
    BY <1>1, <1>2
  <2>2. /\ lead \in Seq(S)
        /\ Len(lead) = IF 1 <= Lead THEN Lead - 1 + 1 ELSE 0
        /\ \A k \in 1 .. Lead - 1 + 1 : lead[k] = text[1 + k - 1]
    BY <1>1, <2>1, SubSeqProperties
  <2> HIDE DEF lead
  <2> QED
    BY <1>1, <2>2
<1>4. /\ rest \in Seq(S) /\ Len(rest) = Rest
      /\ \A k \in 1 .. Rest : rest[k] = text[Lead + k]
  <2>1. \A k \in Lead + 1 .. Frag : text[k] \in S
    BY <1>1, <1>2
  <2>2. /\ rest \in Seq(S)
        /\ Len(rest) = IF Lead + 1 <= Frag THEN Frag - (Lead + 1) + 1 ELSE 0
        /\ \A k \in 1 .. Frag - (Lead + 1) + 1 : rest[k] = text[(Lead + 1) + k - 1]
    BY <1>1, <2>1, SubSeqProperties
  <2> HIDE DEF rest
  <2> QED
    BY <1>1, <2>2
<1> HIDE DEF lead, rest
<1>5. \A k \in 1 .. Lead + Rest :
        (lead \o rest)[k] = IF k <= Lead THEN lead[k] ELSE rest[k - Lead]
  <2>1. \A k \in 1 .. Len(lead) + Len(rest) :
          (lead \o rest)[k] = IF k <= Len(lead) THEN lead[k] ELSE rest[k - Len(lead)]
    BY <1>3, <1>4, ConcatProperties, Zenon
  <2> QED
    BY <1>3, <1>4, <2>1, Zenon
<1>6. ASSUME NEW k \in 1 .. Frag PROVE (lead \o rest)[k] = text[k]
  BY <1>1, <1>3, <1>4, <1>5
<1> QED
  BY <1>6 DEF lead, rest

\* a fragment of a text ends where the next begins
LEMMA PiecesJoin ==
  ASSUME NEW n \in Nat, NEW k \in Nat, k < n
  PROVE  /\ Frag * k \in Nat /\ Frag * (k + 1) = Frag * k + Frag
         /\ Frag * k + Frag <= Frag * n
         /\ k + 1 = n => Frag * k + Frag = Frag * n
<1>1. Frag \in Nat
  BY Sizes
<1>2. PICK more \in Nat : n = k + 1 + more
  <2>1. n - k - 1 \in Nat /\ n = k + 1 + (n - k - 1)
    OBVIOUS
  <2> QED
    BY <2>1
<1>3. Frag * n = Frag * k + Frag + Frag * more
  BY <1>1, <1>2
<1>4. Frag * k \in Nat /\ Frag * more \in Nat
  BY <1>1
<1> QED
  BY <1>1, <1>2, <1>3, <1>4

\* memory of this size that has the text up to a place
Spells(mem, size, all, at) ==
  /\ DOMAIN mem = 0 .. size - 1
  /\ \A i \in 0 .. size - 1 : i < at => mem[i] = all[i + 1]
\* and the fragment of it that comes there
Brings(text, all, at) == \A k \in 1 .. Frag : text[k] = all[at + k]

\* has it up to the next, and beyond is left alone
Brought(new, mem, size, all, at) ==
  /\ Spells(new, size, all, at + Frag)
  /\ \A i \in 0 .. size - 1 : ~(i < at + Frag) => new[i] = mem[i]

LEMMA CopiedOn ==
  ASSUME NEW size \in Nat, NEW all, NEW at \in Nat, at + Frag <= size,
         NEW mem, Spells(mem, size, all, at), NEW text, Brings(text, all, at)
  PROVE  Brought(Copied(mem, at, text, Frag), mem, size, all, at)
<1> USE DEF Spells, Brings, Brought
<1>1. Frag \in Nat
  BY Sizes
<1>2. DOMAIN Copied(mem, at, text, Frag) = 0 .. size - 1
  BY DEF Copied
<1>3. ASSUME NEW i \in 0 .. size - 1
      PROVE  Copied(mem, at, text, Frag)[i] =
               IF i \in at .. at + Frag - 1 THEN text[i - at + 1] ELSE mem[i]
  BY Zenon DEF Copied
<1>4. ASSUME NEW i \in 0 .. size - 1, i < at + Frag
      PROVE  Copied(mem, at, text, Frag)[i] = all[i + 1]
  <2>1. CASE i < at
    <3>1. i \notin at .. at + Frag - 1
      BY <1>1, <2>1
    <3> QED
      BY <1>3, <2>1, <3>1, Zenon
  <2>2. CASE ~(i < at)
    <3>1. /\ i \in at .. at + Frag - 1 /\ i - at + 1 \in 1 .. Frag
          /\ at + (i - at + 1) = i + 1
      BY <1>1, <1>4, <2>2
    <3>2. text[i - at + 1] = all[i + 1]
      BY <3>1
    <3> QED
      BY <1>3, <3>1, <3>2, Zenon
  <2> QED
    BY <2>1, <2>2
<1>5. ASSUME NEW i \in 0 .. size - 1, ~(i < at + Frag)
      PROVE  Copied(mem, at, text, Frag)[i] = mem[i]
  <2>1. i \notin at .. at + Frag - 1
    BY <1>1, <1>5
  <2> QED
    BY <1>3, <2>1, Zenon
<1> QED
  BY <1>2, <1>4, <1>5

(***************************************************************************)
(* The fragment that the receiver completes is the one the station sends.  *)
(***************************************************************************)
LEMMA FragmentOnAir ==
  ASSUME StationInv, HearFragment, NEW rest, rest = RestOf(Cycle[place])
  PROVE  \/ /\ place \in 1 .. MsgFrags
            /\ Message(rest)
            /\ Count = place - 1
            /\ \A k \in 1 .. Frag : Text(rest)[k] = Piece(StationMessage, Frag * (place - 1))[k]
         \/ /\ place \in MsgFrags + 1 .. Len(Cycle)
            /\ Header(rest)
            /\ Count = IF place - MsgFrags <= HeadFrags THEN Frag ELSE 1
            /\ \A k \in 1 .. Frag :
                 Text(rest)[k] = Piece(StationHeader, Frag * (place - MsgFrags - 1))[k]
<1>1. TypeThree(rest) \/ Message(rest) \/ Header(rest) \/ Filler(rest)
  BY Zenon DEF HearFragment, RestOf
<1>2. m_buffer = FirstOf(Cycle[place])
  <2>1. \E key : SecondHalf(key, rest)
    BY <1>1, Zenon DEF TypeThree, Message, Header, Filler
  <2>2. expect > 0 /\ expect % 2 = 0
    BY <2>1, Zenon DEF SecondHalf
  <2> QED
    BY <2>2, Zenon DEF StationInv
<1>3. /\ m_buffer[1] = Cycle[place][1]
      /\ Count = Cycle[place][2]
      /\ Text(rest) = SubSeq(Cycle[place][3], 1, Lead) \o SubSeq(Cycle[place][3], Lead + 1, Frag)
  <2>1. /\ m_buffer[1] = Cycle[place][1] /\ m_buffer[2] = Cycle[place][2]
        /\ m_buffer[3] = SubSeq(Cycle[place][3], 1, Lead)
    BY <1>2 DEF FirstOf
  <2> QED
    BY <2>1, Zenon DEF Count, Text, RestOf
<1>4. /\ TypeThree(rest) => m_buffer[1] = 3
      /\ Message(rest) => m_buffer[1] = 4
      /\ Header(rest) => m_buffer[1] = 5
      /\ Filler(rest) => m_buffer[1] \notin {3, 4, 5}
  BY Zenon DEF TypeThree, Message, Header, Filler, SecondHalf
<1>5. place \in 1 .. MsgFrags \/ place \in MsgFrags + 1 .. Len(Cycle)
  <2>1. place \in 1 .. Len(Cycle) /\ Len(Cycle) = MsgFrags + HeadFrags + 1
    BY CycleIs, Zenon DEF StationInv
  <2> QED
    BY <2>1, SlowDataAssumption
<1>6. ASSUME NEW text, NEW n, Cycle[place][3] = Piece(text, n)
      PROVE  \A k \in 1 .. Frag : Text(rest)[k] = Piece(text, n)[k]
  <2>1. DOMAIN Piece(text, n) = 1 .. Frag
    BY DEF Piece
  <2> QED
    BY <1>3, <1>6, <2>1, HalvesJoin, Zenon
<1>7. CASE place \in 1 .. MsgFrags
  <2>1. Cycle[place] = <<4, place - 1, Piece(StationMessage, Frag * (place - 1))>>
    BY <1>7, CycleIs, Zenon
  <2>2. /\ Cycle[place][1] = 4 /\ Cycle[place][2] = place - 1
        /\ Cycle[place][3] = Piece(StationMessage, Frag * (place - 1))
    BY <2>1
  <2>3. Message(rest)
    BY <1>1, <1>3, <1>4, <2>2
  <2>4. \A k \in 1 .. Frag : Text(rest)[k] = Piece(StationMessage, Frag * (place - 1))[k]
    BY <1>6, <2>2, Zenon
  <2>5. Count = Cycle[place][2]
    BY <1>3
  <2> QED
    BY <1>7, <2>2, <2>3, <2>4, <2>5, Zenon
<1>8. CASE place \in MsgFrags + 1 .. Len(Cycle)
  <2>1. Cycle[place] = <<5, IF place - MsgFrags <= HeadFrags THEN Frag ELSE 1,
                         Piece(StationHeader, Frag * (place - MsgFrags - 1))>>
    BY <1>8, CycleIs, Zenon
  <2>2. /\ Cycle[place][1] = 5
        /\ Cycle[place][2] = IF place - MsgFrags <= HeadFrags THEN Frag ELSE 1
        /\ Cycle[place][3] = Piece(StationHeader, Frag * (place - MsgFrags - 1))
    BY <2>1
  <2>3. Header(rest)
    BY <1>1, <1>3, <1>4, <2>2
  <2>4. \A k \in 1 .. Frag : Text(rest)[k] = Piece(StationHeader, Frag * (place - MsgFrags - 1))[k]
    BY <1>6, <2>2, Zenon
  <2>5. Count = Cycle[place][2]
    BY <1>3
  <2> QED
    BY <1>8, <2>2, <2>3, <2>4, <2>5, Zenon
<1> QED
  BY <1>5, <1>7, <1>8

\* a piece of a text that does not end before it
LEMMA PieceOf ==
  ASSUME NEW text \in Seq(Char), NEW n \in Nat, n + Frag <= Len(text)
  PROVE  \A k \in 1 .. Frag : Piece(text, n)[k] = text[n + k]
<1>1. Frag \in Nat /\ Len(text) \in Nat
  BY Sizes, LenProperties
<1>2. \A k \in 1 .. Frag : n + k <= Len(text)
  BY <1>1
<1> QED
  BY <1>2, Zenon DEF Piece

(***************************************************************************)
(* A fragment of the message, to who was there from the start.             *)
(***************************************************************************)
LEMMA MessagePart ==
  ASSUME StationInv, MessageHeard, NEW rest, Message(rest),
         fragments < Len(Cycle) => place = fragments + 1,
         place \in 1 .. MsgFrags, Count = place - 1,
         \A k \in 1 .. Frag : Text(rest)[k] = Piece(StationMessage, Frag * (place - 1))[k],
         messages' = Counted(messages, "message"),
         fragments' = IF fragments < Len(Cycle) THEN fragments + 1 ELSE fragments
  PROVE  /\ MessageHeard'
         /\ Prints("message") => printed'[2] = MessageShown(InMemory(StationMessage))
<1>1. /\ fragments \in Nat /\ MsgFrags \in Nat /\ HeadFrags \in Nat
      /\ Len(Cycle) = MsgFrags + HeadFrags + 1
      /\ MessageLen \in Nat /\ MessageLen > 0 /\ MessageLen = Frag * MsgFrags /\ Frag \in Nat /\ Frag > 1
  BY CycleIs, SlowDataAssumption, Sizes DEF StationInv, MessageLen
<1>2. CASE fragments >= MsgFrags /\ messages = 1 /\ MessageDone
  <2>1. printed' = <<>> /\ m_message' = m_message
    BY <1>2, Zenon DEF Message
  <2>2. ~Prints("message")
    BY <2>1, Zenon DEF Prints
  <2>3. messages' = 1
    BY <1>2, <2>2, CountedOnce, Zenon
  <2>4. MessageDone'
    BY <1>2, <2>1, Zenon DEF MessageDone
  <2>5. fragments' >= MsgFrags
    BY <1>1, <1>2
  <2> QED
    BY <2>2, <2>3, <2>4, <2>5, Zenon DEF MessageHeard
<1>3. CASE /\ fragments < MsgFrags
           /\ messages = 0
           /\ DOMAIN m_message = 0 .. MessageLen - 1
           /\ \A i \in 0 .. MessageLen - 1 :
                m_message[i] = IF i < Frag * fragments THEN StationMessage[i + 1] ELSE NUL
  <2> DEFINE at == Frag * fragments
             grown == Copied(m_message, at, Text(rest), Frag)
             whole == InMemory(StationMessage)
  <2>1. place = fragments + 1 /\ Count = fragments /\ place - 1 = fragments /\ fragments' = fragments + 1
    BY <1>1, <1>3
  <2>2. /\ at \in Nat /\ Frag * (fragments + 1) = at + Frag
        /\ at + Frag <= MessageLen
        /\ fragments + 1 = MsgFrags => at + Frag = MessageLen
    BY <1>1, <1>3, PiecesJoin
  <2> HIDE DEF at
  <2>3. Brings(Text(rest), StationMessage, at)
    <3>1. \A k \in 1 .. Frag : Piece(StationMessage, at)[k] = StationMessage[at + k]
      BY <2>2, PieceOf, StationAssumption
    <3> QED
      BY <2>1, <3>1, Zenon DEF at, Brings
  <2>4. /\ DOMAIN grown = 0 .. MessageLen - 1
        /\ \A i \in 0 .. MessageLen - 1 :
             /\ i < at + Frag => grown[i] = StationMessage[i + 1]
             /\ ~(i < at + Frag) => grown[i] = m_message[i]
    <3>1. Spells(m_message, MessageLen, StationMessage, at)
      BY <1>3, Zenon DEF at, Spells
    <3>2. /\ Spells(grown, MessageLen, StationMessage, at + Frag)
          /\ \A i \in 0 .. MessageLen - 1 : ~(i < at + Frag) => grown[i] = m_message[i]
      <4>1. MessageLen \in Nat /\ at \in Nat /\ at + Frag <= MessageLen
        BY <1>1, <2>2
      <4>2. Brought(grown, m_message, MessageLen, StationMessage, at)
        BY <2>3, <3>1, <4>1, CopiedOn, Zenon
      <4> QED
        BY <4>2, Zenon DEF Brought
    <3> QED
      BY <3>2, Zenon DEF Spells
  <2>5. ~MessageDone
    <3>1. MessageLen - 1 \in 0 .. MessageLen - 1 /\ ~(MessageLen - 1 < at)
      BY <1>1, <2>2
    <3> QED
      BY <1>3, <3>1, Zenon DEF MessageDone, at
  <2>6. CASE Count # MsgFrags - 1
    <3>1. m_message' = grown /\ printed' = <<>>
      BY <2>1, <2>5, <2>6, Zenon DEF Message, at
    <3>2. ~Prints("message")
      BY <3>1, Zenon DEF Prints
    <3>3. messages' = 0
      BY <1>3, <3>2, CountedOnce, Zenon
    <3>4. fragments' < MsgFrags
      BY <1>1, <1>3, <2>1, <2>6
    <3>5. ASSUME NEW i \in 0 .. MessageLen - 1
          PROVE  grown[i] = IF i < at + Frag THEN StationMessage[i + 1] ELSE NUL
      <4>1. ~(i < at + Frag) => ~(i < at)
        BY <1>1, <2>2
      <4> QED
        BY <1>3, <2>4, <4>1, Zenon DEF at
    <3>6. /\ DOMAIN m_message' = 0 .. MessageLen - 1
          /\ \A i \in 0 .. MessageLen - 1 :
               m_message'[i] = IF i < Frag * fragments' THEN StationMessage[i + 1] ELSE NUL
      BY <2>1, <2>2, <2>4, <3>1, <3>5, Zenon
    <3> QED
      BY <3>2, <3>3, <3>4, <3>6, Zenon DEF MessageHeard
  <2>7. CASE Count = MsgFrags - 1
    <3>1. m_message' = MessageShown(grown) /\ printed' = <<"message", MessageShown(grown)>>
      BY <2>1, <2>5, <2>7, Zenon DEF Message, at
    <3>2. Prints("message") /\ printed'[2] = MessageShown(grown)
      BY <3>1 DEF Prints
    <3>3. messages' = 1
      BY <1>3, <3>2, CountedOnce, Zenon
    <3>4. fragments' >= MsgFrags /\ at + Frag = MessageLen
      BY <1>1, <2>1, <2>2, <2>7
    <3>5. MessageShown(grown) = MessageShown(whole)
      <4>1. DOMAIN whole = 0 .. MessageLen - 1 /\ DOMAIN grown = 0 .. MessageLen - 1
        BY <2>4, StationAssumption DEF InMemory
      <4>2. \A i \in 0 .. MessageLen - 1 : i < at + Frag
        BY <1>1, <3>4
      <4>3. \A i \in 0 .. MessageLen - 1 : grown[i] = StationMessage[i + 1]
        BY <2>4, <4>2, Zenon
      <4>4. \A i \in 0 .. MessageLen - 1 : whole[i] = grown[i]
        BY <4>3, StationAssumption, Zenon DEF InMemory
      <4> HIDE DEF whole, grown
      <4> QED
        BY <4>1, <4>4, Zenon DEF MessageShown, Underscored
    <3>6. MessageDone'
      <4>1. MessageLen - 1 \in 0 .. MessageLen - 1 /\ (MessageLen - 1) + 1 = MessageLen
        BY <1>1
      <4>2. whole[MessageLen - 1] # NUL /\ DOMAIN whole = 0 .. MessageLen - 1
        BY <4>1, StationAssumption, Zenon DEF InMemory
      <4> HIDE DEF whole, grown
      <4>3. MessageShown(whole)[MessageLen - 1] \in {Underscore, whole[MessageLen - 1]}
        BY <4>1, <4>2 DEF MessageShown, Underscored
      <4>4. Underscore # NUL
        BY DEF Underscore, NUL
      <4>5. m_message' = MessageShown(whole)
        BY <3>1, <3>5, Zenon
      <4>6. m_message'[MessageLen - 1] # NUL
        BY <4>2, <4>3, <4>4, <4>5, Zenon
      <4> QED
        BY <4>6, Zenon DEF MessageDone
    <3> HIDE DEF grown, whole
    <3>7. MessageHeard'
      BY <3>3, <3>4, <3>6, Zenon DEF MessageHeard
    <3> QED
      BY <3>2, <3>5, <3>7, Zenon DEF whole
  <2> QED
    BY <2>6, <2>7, Zenon
<1> QED
  BY <1>2, <1>3, Zenon DEF MessageHeard

(***************************************************************************)
(* A fragment of the header, to who was there from the start.              *)
(***************************************************************************)
LEMMA HeaderPart ==
  ASSUME StationInv, HeaderHeard, NEW rest, Header(rest),
         fragments < Len(Cycle) => place = fragments + 1,
         place \in MsgFrags + 1 .. Len(Cycle),
         Count = IF place - MsgFrags <= HeadFrags THEN Frag ELSE 1,
         \A k \in 1 .. Frag : Text(rest)[k] = Piece(StationHeader, Frag * (place - MsgFrags - 1))[k],
         headers' = Counted(headers, "header"),
         fragments' = IF fragments < Len(Cycle) THEN fragments + 1 ELSE fragments
  PROVE  /\ HeaderHeard'
         /\ Prints("header") => printed'[2] = Shown(InMemory(StationHeader))
<1>1. /\ fragments \in 0 .. Len(Cycle) /\ MsgFrags \in Nat /\ HeadFrags \in Nat
      /\ Len(Cycle) = MsgFrags + HeadFrags + 1
      /\ HeaderLen \in Nat /\ HeaderLen = Frag * HeadFrags + 1 /\ Frag \in Nat /\ Frag > 1
      /\ m_headcount \in Nat
  BY CycleIs, SlowDataAssumption, Sizes DEF StationInv, HeaderLen
<1>2. CASE headers = 1 /\ m_headcount >= HeadFrags
  <2>1. ~(m_headcount < HeadFrags)
    BY <1>1, <1>2
  <2>2. printed' = <<>> /\ m_headcount' = m_headcount
    BY <2>1, Zenon DEF Header
  <2>3. ~Prints("header")
    BY <2>2, Zenon DEF Prints
  <2>4. headers' = 1
    BY <1>2, <2>3, CountedOnce, Zenon
  <2> QED
    BY <1>2, <2>2, <2>3, <2>4, Zenon DEF HeaderHeard
<1>3. CASE /\ headers = 0
           /\ m_headcount = IF fragments < MsgFrags THEN 0 ELSE fragments - MsgFrags
           /\ m_headcount < HeadFrags
           /\ DOMAIN m_header = 0 .. HeaderLen - 1
           /\ \A i \in 0 .. HeaderLen - 1 :
                i < Frag * m_headcount => m_header[i] = StationHeader[i + 1]
  <2> DEFINE at == Frag * m_headcount
             grown == Copied(m_header, at, Text(rest), Frag)
             whole == InMemory(StationHeader)
  <2>1. /\ place = fragments + 1 /\ m_headcount = fragments - MsgFrags
        /\ place - MsgFrags - 1 = m_headcount /\ place - MsgFrags <= HeadFrags
        /\ fragments' = fragments + 1
    <3> HIDE DEF at, grown, whole
    <3>1. fragments < Len(Cycle)
      BY <1>1, <1>3
    <3>2. place = fragments + 1 /\ fragments' = fragments + 1
      BY <3>1
    <3>3. ~(fragments < MsgFrags)
      BY <1>1, <3>2
    <3>4. m_headcount = fragments - MsgFrags
      BY <1>3, <3>3
    <3> QED
      BY <1>1, <1>3, <3>2, <3>4
  <2>2. Count = Frag
    BY <2>1
  <2>3. /\ at \in Nat /\ Frag * (m_headcount + 1) = at + Frag
        /\ at + Frag <= Frag * HeadFrags
        /\ m_headcount + 1 = HeadFrags => at + Frag = Frag * HeadFrags
    BY <1>1, <1>3, PiecesJoin
  <2> HIDE DEF at
  <2>4. Brings(Text(rest), StationHeader, at)
    <3>1. at + Frag <= Len(StationHeader)
      BY <1>1, <2>3, StationAssumption
    <3>2. \A k \in 1 .. Frag : Piece(StationHeader, at)[k] = StationHeader[at + k]
      BY <2>3, <3>1, PieceOf, StationAssumption
    <3> QED
      BY <2>1, <3>2, Zenon DEF at, Brings
  <2>5. Spells(grown, HeaderLen, StationHeader, at + Frag)
    <3>1. Spells(m_header, HeaderLen, StationHeader, at)
      BY <1>3, Zenon DEF at, Spells
    <3>2. HeaderLen \in Nat /\ at \in Nat /\ at + Frag <= HeaderLen
      BY <1>1, <2>3
    <3>3. Brought(grown, m_header, HeaderLen, StationHeader, at)
      BY <2>4, <3>1, <3>2, CopiedOn, Zenon
    <3> QED
      BY <3>3, Zenon DEF Brought
  <2>6. m_headcount' = m_headcount + 1
    <3>1. ~(m_headcount >= HeadFrags)
      BY <1>1, <1>3
    <3> QED
      BY <3>1, Zenon DEF Header
  <2>7. CASE ~(m_headcount + 1 >= HeadFrags)
    <3>1. ~(Count < Frag)
      BY <1>1, <2>2
    <3>2. m_header' = grown /\ printed' = <<>>
      <4>1. ~(Count < Frag \/ m_headcount + 1 >= HeadFrags)
        BY <2>7, <3>1
      <4>2. ~(m_headcount >= HeadFrags)
        BY <1>1, <1>3
      <4> QED
        BY <2>2, <4>1, <4>2, Zenon DEF Header, at
    <3>3. ~Prints("header")
      BY <3>2, Zenon DEF Prints
    <3>4. headers' = 0
      BY <1>3, <3>3, CountedOnce, Zenon
    <3>5. m_headcount' < HeadFrags /\ m_headcount' = IF fragments' < MsgFrags THEN 0 ELSE fragments' - MsgFrags
      <4> HIDE DEF at, grown, whole
      <4> QED
        BY <1>1, <2>1, <2>6, <2>7
    <3>6. Frag * m_headcount' = at + Frag
      BY <2>3, <2>6
    <3>7. /\ DOMAIN m_header' = 0 .. HeaderLen - 1
          /\ \A i \in 0 .. HeaderLen - 1 :
               i < Frag * m_headcount' => m_header'[i] = StationHeader[i + 1]
      BY <2>5, <3>2, <3>6, Zenon DEF Spells
    <3> QED
      BY <3>3, <3>4, <3>5, <3>7, Zenon DEF HeaderHeard
  <2>8. CASE m_headcount + 1 >= HeadFrags
    <3>1. PrintHeader(grown)
      <4>1. ~(m_headcount >= HeadFrags)
        BY <1>1, <1>3
      <4> QED
        BY <2>2, <2>8, <4>1, Zenon DEF Header, at
    <3>2. printed' = <<"header", Shown(grown)>>
      BY <3>1, Zenon DEF PrintHeader
    <3>3. Prints("header") /\ printed'[2] = Shown(grown)
      BY <3>2 DEF Prints
    <3>4. headers' = 1
      BY <1>3, <3>3, CountedOnce, Zenon
    <3>5. Shown(grown) = Shown(whole)
      <4>1. DOMAIN whole = 0 .. HeaderLen - 1 /\ DOMAIN grown = 0 .. HeaderLen - 1
        BY <2>5, StationAssumption, Zenon DEF InMemory, Spells
      <4>2. \A i \in CallSigns : i \in 0 .. HeaderLen - 1 /\ i < at + Frag
        <5>1. m_headcount + 1 = HeadFrags
          BY <1>1, <1>3, <2>8
        <5>2. at + Frag = Frag * HeadFrags
          BY <2>3, <5>1
        <5>3. Frag * HeadFrags \in Nat
          BY <1>1
        <5> QED
          <6>1. Flags \in Nat /\ Check \in Nat /\ Check > 0
            BY SlowDataAssumption, StationAssumption
          <6> QED
            BY <1>1, <5>2, <5>3, <6>1 DEF CallSigns
      <4>3. \A i \in CallSigns : grown[i] = StationHeader[i + 1]
        BY <2>5, <4>2, Zenon DEF Spells
      <4>4. \A i \in CallSigns : whole[i] = StationHeader[i + 1]
        BY <4>2, StationAssumption, Zenon DEF InMemory
      <4> HIDE DEF whole, grown
      <4>5. \A i \in CallSigns : Underscored(grown, CallSigns)[i] = Underscored(whole, CallSigns)[i]
        <5> TAKE i \in CallSigns
        <5>1. /\ Underscored(grown, CallSigns)[i] = IF grown[i] = Blank THEN Underscore ELSE grown[i]
              /\ Underscored(whole, CallSigns)[i] = IF whole[i] = Blank THEN Underscore ELSE whole[i]
          BY <4>1, <4>2, Zenon DEF Underscored
        <5> QED
          BY <4>3, <4>4, <5>1, Zenon
      <4> QED
        BY <4>5, Zenon DEF Shown
    <3>6. m_headcount' >= HeadFrags
      BY <1>1, <2>6, <2>8
    <3> HIDE DEF grown, whole
    <3>7. HeaderHeard'
      BY <3>4, <3>6, Zenon DEF HeaderHeard
    <3> QED
      BY <3>3, <3>5, <3>7, Zenon DEF whole
  <2> QED
    BY <2>7, <2>8, Zenon
<1> QED
  BY <1>2, <1>3, Zenon DEF HeaderHeard

\* the fragment after this one
LEMMA NextPlace ==
  ASSUME place \in 1 .. Len(Cycle), place' = (place % Len(Cycle)) + 1
  PROVE  place' = IF place = Len(Cycle) THEN 1 ELSE place + 1
<1>1. Len(Cycle) \in Nat /\ Len(Cycle) > 0
  BY CycleIs, SlowDataAssumption
<1> QED
  BY <1>1

LEMMA HeardFromStart ==
  ASSUME StationInv, HearFragment, fromStart
  PROVE  /\ fragments' < Len(Cycle) => place' = fragments' + 1
         /\ MessageHeard' /\ HeaderHeard'
         /\ Prints("header") => printed'[2] = Shown(InMemory(StationHeader))
         /\ Prints("message") => printed'[2] = MessageShown(InMemory(StationMessage))
<1> DEFINE rest == RestOf(Cycle[place])
<1>1. /\ Listen(rest)
      /\ place' = (place % Len(Cycle)) + 1
      /\ fragments' = IF fragments < Len(Cycle) THEN fragments + 1 ELSE fragments
  BY Zenon DEF HearFragment, RestOf
<1>2. /\ headers' = Counted(headers, "header")
      /\ messages' = Counted(messages, "message")
  BY <1>1, Zenon DEF Listen
<1>3. /\ place \in 1 .. Len(Cycle) /\ fragments \in 0 .. Len(Cycle)
      /\ fragments < Len(Cycle) => place = fragments + 1
      /\ MessageHeard /\ HeaderHeard /\ m_headcount \in Nat
  BY CycleIs, Zenon DEF StationInv
<1>4. /\ Len(Cycle) = MsgFrags + HeadFrags + 1 /\ MsgFrags \in Nat /\ HeadFrags \in Nat
  BY CycleIs, SlowDataAssumption
<1> HIDE DEF rest
<1>5. fragments' < Len(Cycle) => place' = fragments' + 1
  BY <1>1, <1>3, <1>4, NextPlace
<1>6. CASE /\ place \in 1 .. MsgFrags
           /\ Message(rest)
           /\ Count = place - 1
           /\ \A k \in 1 .. Frag : Text(rest)[k] = Piece(StationMessage, Frag * (place - 1))[k]
  <2>1. MessageHeard' /\ (Prints("message") => printed'[2] = MessageShown(InMemory(StationMessage)))
    <3>1. /\ MessageHeard /\ (fragments < Len(Cycle) => place = fragments + 1)
          /\ messages' = Counted(messages, "message")
          /\ fragments' = IF fragments < Len(Cycle) THEN fragments + 1 ELSE fragments
      BY <1>1, <1>2, <1>3, Zenon
    <3> QED
      BY <1>6, <3>1, MessagePart
  <2>2. ~Prints("header")
    <3>1. printed' = <<>> \/ \E text : printed' = <<"message", text>>
      BY <1>6, Zenon DEF Message
    <3> QED
      BY <3>1, OneName
  <2>3. m_headcount' = m_headcount /\ m_header' = m_header
    BY <1>6, Zenon DEF Message
  <2>4. headers' = headers
    BY <1>2, <2>2, CountedOnce, Zenon
  <2>5. ASSUME headers = 1 /\ m_headcount >= HeadFrags PROVE HeaderHeard'
    <3>1. headers' = 1 /\ m_headcount' >= HeadFrags
      BY <2>3, <2>4, <2>5
    <3> QED
      BY <3>1, Zenon DEF HeaderHeard
  <2>6. ASSUME ~(headers = 1 /\ m_headcount >= HeadFrags) PROVE HeaderHeard'
    <3>1. /\ headers = 0
          /\ m_headcount = IF fragments < MsgFrags THEN 0 ELSE fragments - MsgFrags
          /\ m_headcount < HeadFrags
          /\ DOMAIN m_header = 0 .. HeaderLen - 1
          /\ \A i \in 0 .. HeaderLen - 1 :
               i < Frag * m_headcount => m_header[i] = StationHeader[i + 1]
      BY <1>3, <2>6, Zenon DEF HeaderHeard
    <3>2. fragments < Len(Cycle)
      BY <1>3, <1>4, <3>1
    <3>3. fragments < MsgFrags /\ fragments' = fragments + 1
      BY <1>1, <1>3, <1>4, <1>6, <3>2
    <3>4. m_headcount = IF fragments' < MsgFrags THEN 0 ELSE fragments' - MsgFrags
      BY <1>3, <1>4, <3>1, <3>3
    <3>5. /\ headers' = 0 /\ m_headcount' < HeadFrags
          /\ m_headcount' = IF fragments' < MsgFrags THEN 0 ELSE fragments' - MsgFrags
      BY <2>3, <2>4, <3>1, <3>4
    <3>6. /\ DOMAIN m_header' = 0 .. HeaderLen - 1
          /\ \A i \in 0 .. HeaderLen - 1 :
               i < Frag * m_headcount' => m_header'[i] = StationHeader[i + 1]
      <4>1. m_headcount' = m_headcount /\ m_header' = m_header
        BY <2>3
      <4> QED
        BY <3>1, <4>1, Zenon
    <3> QED
      BY <3>5, <3>6, Zenon DEF HeaderHeard
  <2> QED
    BY <1>5, <2>1, <2>2, <2>5, <2>6, Zenon
<1>7. CASE /\ place \in MsgFrags + 1 .. Len(Cycle)
           /\ Header(rest)
           /\ Count = IF place - MsgFrags <= HeadFrags THEN Frag ELSE 1
           /\ \A k \in 1 .. Frag :
                Text(rest)[k] = Piece(StationHeader, Frag * (place - MsgFrags - 1))[k]
  <2>1. HeaderHeard' /\ (Prints("header") => printed'[2] = Shown(InMemory(StationHeader)))
    BY <1>1, <1>2, <1>3, <1>7, HeaderPart, Zenon
  <2>2. ~Prints("message")
    <3>1. printed' = <<>> \/ \E text : printed' = <<"header", text>>
      BY <1>7, Zenon DEF Header, PrintHeader
    <3> QED
      BY <3>1, OneName
  <2>3. m_message' = m_message
    BY <1>7, Zenon DEF Header
  <2>4. messages' = messages
    BY <1>2, <2>2, CountedOnce, Zenon
  <2>5. fragments >= MsgFrags /\ fragments' >= MsgFrags /\ ~(fragments < MsgFrags)
    BY <1>1, <1>3, <1>4, <1>7
  <2>6. messages = 1 /\ MessageDone
    BY <1>3, <2>5, Zenon DEF MessageHeard
  <2>7. MessageHeard'
    BY <2>3, <2>4, <2>5, <2>6, Zenon DEF MessageHeard, MessageDone
  <2> QED
    BY <1>5, <2>1, <2>2, <2>7, Zenon
<1> QED
  BY <1>6, <1>7, FragmentOnAir, Zenon DEF rest

LEMMA StationInit == SInit => StationInv
<1> SUFFICES ASSUME SInit PROVE StationInv
  OBVIOUS
<1>1. 1 \in DOMAIN Cycle /\ 0 \in 0 .. Len(Cycle)
  BY CycleIs, SlowDataAssumption
<1>2. /\ place = 1 /\ fragments = 0 /\ m_headcount = 0 /\ expect = Searching /\ ~fromStart
      /\ headers = 0 /\ messages = 0
      /\ m_header = Cleared(HeaderLen) /\ m_message = Cleared(MessageLen)
  BY DEF SInit, CInit, Init
<1>3. ~(Searching > 0)
  BY DEF Searching
<1> QED
  BY <1>1, <1>2, <1>3 DEF StationInv

\* before any fragment memory is clear, and there may have been a header
LEMMA NothingHeard ==
  ASSUME fragments' = 0, messages' = 0, m_message' = Cleared(MessageLen),
         \/ headers' = 0 /\ m_headcount' = 0 /\ m_header' = Cleared(HeaderLen)
         \/ headers' = 1 /\ m_headcount' = HeadFrags + 1
  PROVE  MessageHeard' /\ HeaderHeard'
<1>1. MsgFrags \in Nat \ {0} /\ HeadFrags \in Nat \ {0} /\ Frag \in Nat /\ Frag * 0 = 0
  BY SlowDataAssumption, Sizes
<1>2. \A n \in Nat : DOMAIN Cleared(n) = 0 .. n - 1 /\ \A i \in 0 .. n - 1 : Cleared(n)[i] = NUL /\ ~(i < 0)
  BY DEF Cleared
<1>3. MessageHeard'
  <2>1. \A i \in 0 .. MessageLen - 1 : ~(i < Frag * fragments') /\ m_message'[i] = NUL
    BY <1>1, <1>2, Sizes
  <2>2. DOMAIN m_message' = 0 .. MessageLen - 1 /\ fragments' < MsgFrags
    BY <1>1, <1>2, Sizes
  <2> QED
    BY <2>1, <2>2, Zenon DEF MessageHeard
<1>4. CASE headers' = 0 /\ m_headcount' = 0 /\ m_header' = Cleared(HeaderLen)
  <2>1. \A i \in 0 .. HeaderLen - 1 : ~(i < Frag * m_headcount')
    BY <1>1, <1>2, <1>4, Sizes
  <2>2. DOMAIN m_header' = 0 .. HeaderLen - 1 /\ m_headcount' < HeadFrags /\ fragments' < MsgFrags
    BY <1>1, <1>2, <1>4, Sizes
  <2>3. HeaderHeard'
    BY <1>4, <2>1, <2>2, Zenon DEF HeaderHeard
  <2> QED
    BY <1>3, <2>3
<1>5. CASE headers' = 1 /\ m_headcount' = HeadFrags + 1
  <2>1. m_headcount' >= HeadFrags
    BY <1>1, <1>5
  <2>2. HeaderHeard'
    BY <1>5, <2>1, Zenon DEF HeaderHeard
  <2> QED
    BY <1>3, <2>2
<1> QED
  BY <1>4, <1>5

LEMMA StationStep ==
  ASSUME StationInv, [SNext]_svars
  PROVE  StationInv'
<1>1. CASE UNCHANGED svars
  <2>1. /\ UNCHANGED <<m_headcount, m_header, m_message, m_buffer, expect>>
        /\ UNCHANGED <<headers, messages, place, fromStart, fragments>>
    BY <1>1 DEF svars
  <2> QED
    BY <2>1, Zenon DEF StationInv, MessageHeard, MessageDone, HeaderHeard
<1>2. CASE ComeIn
  <2>1. expect = Searching /\ expect' = 1 /\ place' \in DOMAIN Cycle /\ fromStart' \in {FALSE, place' = 1}
    BY <1>2, Zenon DEF ComeIn, Locked
  <2>2. UNCHANGED <<m_headcount, m_header, m_message, headers, messages, fragments>>
    BY <1>2, Zenon DEF ComeIn, Locked
  <2>3. /\ fragments = 0 /\ headers = 0 /\ messages = 0 /\ m_headcount = 0
        /\ m_header = Cleared(HeaderLen) /\ m_message = Cleared(MessageLen)
    BY <2>1, Zenon DEF StationInv
  <2>4. MessageHeard' /\ HeaderHeard'
    <3>1. /\ fragments' = 0 /\ messages' = 0 /\ m_message' = Cleared(MessageLen)
          /\ headers' = 0 /\ m_headcount' = 0 /\ m_header' = Cleared(HeaderLen)
      BY <2>2, <2>3
    <3> QED
      BY <3>1, NothingHeard, Zenon
  <2>5. fromStart' => place' = fragments' + 1
    <3>1. fromStart' => place' = 1
      BY <2>1, Zenon
    <3>2. fragments' = 0
      BY <2>2, <2>3
    <3> QED
      BY <3>1, <3>2
  <2>6. 1 # Searching /\ 1 \in 0 .. SyncPeriod - 1 /\ ~(1 % 2 = 0)
    BY SlowDataAssumption DEF Searching
  <2>7. fragments' \in 0 .. Len(Cycle) /\ m_headcount' \in Nat
    BY <2>2, Zenon DEF StationInv
  <2> QED
    BY <2>1, <2>4, <2>5, <2>6, <2>7 DEF StationInv
<1>3. CASE HearHeader
  <2>1. expect = Searching /\ expect' = 0 /\ m_headcount' = HeadFrags + 1
    BY <1>3, Zenon DEF HearHeader, SetHeader, HeadCountSet
  <2>2. UNCHANGED <<m_message, messages, fragments, place>>
    BY <1>3, Zenon DEF HearHeader, SetHeader
  <2>3. /\ place = 1 /\ fragments = 0 /\ headers = 0 /\ messages = 0
        /\ m_message = Cleared(MessageLen)
    BY <2>1, Zenon DEF StationInv
  <2>4. headers' = 1
    <3>1. printed' = <<"header", Shown(InMemory(StationHeader))>>
      BY <1>3, Zenon DEF HearHeader, SetHeader, PrintHeader
    <3>2. Prints("header")
      BY <3>1 DEF Prints
    <3>3. headers' = Counted(headers, "header")
      BY <1>3, Zenon DEF HearHeader
    <3> QED
      BY <2>3, <3>2, <3>3, CountedOnce, Zenon
  <2>5. MessageHeard' /\ HeaderHeard'
    <3>1. fragments' = 0 /\ messages' = 0 /\ m_message' = Cleared(MessageLen)
      BY <2>2, <2>3
    <3> QED
      BY <2>1, <2>4, <3>1, NothingHeard, Zenon
  <2>6. place' = fragments' + 1
    BY <2>2, <2>3
  <2>7. /\ 0 # Searching /\ 0 \in 0 .. SyncPeriod - 1 /\ HeadFrags + 1 \in Nat
    BY SlowDataAssumption DEF Searching
  <2>8. fragments' \in 0 .. Len(Cycle) /\ place' \in DOMAIN Cycle
    BY <2>2, Zenon DEF StationInv
  <2>9. /\ expect' # Searching /\ expect' \in 0 .. SyncPeriod - 1 /\ ~(expect' > 0)
        /\ m_headcount' \in Nat
    BY <2>1, <2>7
  <2> QED
    BY <2>5, <2>6, <2>8, <2>9, Zenon DEF StationInv
<1>4. CASE HearHalf
  <2>1. UNCHANGED <<m_headcount, m_header, m_message, headers, messages, place, fromStart, fragments>>
    BY <1>4, Zenon DEF HearHalf, SyncFrame, FirstHalf
  <2>2. expect' = NextFrame /\ expect # Searching
    BY <1>4 DEF HearHalf, SyncFrame, FirstHalf, Searching
  <2>3. expect \in 0 .. SyncPeriod - 1
    BY <2>2, Zenon DEF StationInv
  <2>4. expect' \in 0 .. SyncPeriod - 1 /\ expect' # Searching
    BY <2>2, <2>3, Numbers, SlowDataAssumption DEF Searching
  <2>5. ASSUME expect' > 0, expect' % 2 = 0 PROVE m_buffer' = FirstOf(Cycle[place'])
    <3>1. expect # 0
      BY <2>2, <2>3, <2>5, Numbers, SlowDataAssumption
    <3>2. m_buffer' = FirstOf(Cycle[place])
      BY <1>4, <3>1, Zenon DEF HearHalf, SyncFrame, FirstHalf, FirstOf
    <3> QED
      BY <2>1, <3>2
  <2>6. fromStart' => /\ fragments' < Len(Cycle) => place' = fragments' + 1
                      /\ MessageHeard'
                      /\ HeaderHeard'
    BY <2>1, Zenon DEF StationInv, MessageHeard, MessageDone, HeaderHeard
  <2>7. fragments' \in 0 .. Len(Cycle) /\ place' \in DOMAIN Cycle /\ m_headcount' \in Nat
    BY <2>1, Zenon DEF StationInv
  <2> QED
    BY <2>4, <2>5, <2>6, <2>7 DEF StationInv
<1>5. CASE HearFragment
  <2> DEFINE rest == RestOf(Cycle[place])
  <2>1. /\ TypeThree(rest) \/ Message(rest) \/ Header(rest) \/ Filler(rest)
        /\ place' = (place % Len(Cycle)) + 1
        /\ fragments' = IF fragments < Len(Cycle) THEN fragments + 1 ELSE fragments
        /\ fromStart' = fromStart
    BY <1>5, Zenon DEF HearFragment, RestOf
  <2> HIDE DEF rest
  <2>2. /\ expect > 0 /\ expect % 2 = 0 /\ expect' = NextFrame
    BY <2>1, Zenon DEF TypeThree, Message, Header, Filler, SecondHalf
  <2>3. expect \in 0 .. SyncPeriod - 1
    BY <2>2 DEF StationInv, Searching
  <2>4. expect' \in 0 .. SyncPeriod - 1 /\ expect' # Searching /\ ~(expect' > 0 /\ expect' % 2 = 0)
    BY <2>2, <2>3, Numbers, SlowDataAssumption DEF Searching
  <2>5. fromStart' => /\ fragments' < Len(Cycle) => place' = fragments' + 1
                      /\ MessageHeard'
                      /\ HeaderHeard'
    BY <1>5, <2>1, HeardFromStart, Zenon
  <2>6. /\ place \in 1 .. Len(Cycle) /\ fragments \in 0 .. Len(Cycle) /\ m_headcount \in Nat
    BY CycleIs, Zenon DEF StationInv
  <2>7. /\ Len(Cycle) \in Nat /\ Len(Cycle) > 0
    BY CycleIs, SlowDataAssumption
  <2>8. fragments' \in 0 .. Len(Cycle) /\ place' \in 1 .. Len(Cycle)
    BY <2>1, <2>6, <2>7, NextPlace
  <2>9. m_headcount' \in Nat
    <3>1. m_headcount' = m_headcount \/ m_headcount' = m_headcount + 1
      BY <2>1, Zenon DEF TypeThree, Message, Header, Filler
    <3> QED
      BY <2>6, <3>1
  <2> QED
    BY <2>4, <2>5, <2>8, <2>9, CycleIs DEF StationInv
<1> QED
  BY <1>1, <1>2, <1>3, <1>4, <1>5 DEF SNext

LEMMA ReadOnce ==
  ASSUME StationInv', fromStart'
  PROVE  /\ headers' <= 1 /\ messages' <= 1
         /\ fragments' = Len(Cycle) => headers' = 1 /\ messages' = 1
<1>1. /\ Len(Cycle) = MsgFrags + HeadFrags + 1 /\ MsgFrags \in Nat /\ HeadFrags \in Nat
  BY CycleIs, SlowDataAssumption
<1>2. messages' = 1 \/ (messages' = 0 /\ fragments' < MsgFrags)
  BY Zenon DEF StationInv, MessageHeard
<1>3. headers' = 1 \/ (headers' = 0 /\ m_headcount' < HeadFrags /\
                       m_headcount' = IF fragments' < MsgFrags THEN 0 ELSE fragments' - MsgFrags)
  BY Zenon DEF StationInv, HeaderHeard
<1> QED
  BY <1>1, <1>2, <1>3

\* what is printed in one step, to who was there from the start
LEMMA ReadStep ==
  ASSUME StationInv, SNext, fromStart'
  PROVE  /\ Prints("header") => printed'[2] = Shown(InMemory(StationHeader))
         /\ Prints("message") => printed'[2] = MessageShown(InMemory(StationMessage))
<1>1. CASE ComeIn
  BY <1>1, Zenon DEF ComeIn, Locked, Prints
<1>2. CASE HearHeader
  <2>1. printed' = <<"header", Shown(InMemory(StationHeader))>>
    BY <1>2, Zenon DEF HearHeader, SetHeader, PrintHeader
  <2>2. printed'[2] = Shown(InMemory(StationHeader))
    BY <2>1
  <2>3. ~Prints("message")
    BY <2>1, OneName
  <2> QED
    BY <2>2, <2>3, Zenon
<1>3. CASE HearHalf
  BY <1>3, Zenon DEF HearHalf, SyncFrame, FirstHalf, Prints
<1>4. CASE HearFragment
  <2>1. fromStart
    BY <1>4, Zenon DEF HearFragment
  <2> QED
    BY <1>4, <2>1, HeardFromStart, Zenon
<1> QED
  BY <1>1, <1>2, <1>3, <1>4 DEF SNext

LEMMA StationInvariant == SSpec => []StationInv
BY StationInit, StationStep, PTL DEF SSpec

(***************************************************************************)
(* Who hears a station from its start reads its header and its message,    *)
(* each once, by the end of the first cycle of fragments, for every header *)
(* and every message that does not end with a NUL.                         *)
(***************************************************************************)
THEOREM ReadFromStartHolds == SSpec => ReadFromStart
<1>1. StationInv /\ StationInv' /\ [SNext]_svars =>
        [fromStart' =>
           /\ Prints("header") => printed'[2] = Shown(InMemory(StationHeader))
           /\ Prints("message") => printed'[2] = MessageShown(InMemory(StationMessage))
           /\ headers' <= 1 /\ messages' <= 1
           /\ fragments' = Len(Cycle) => headers' = 1 /\ messages' = 1]_svars
  BY ReadStep, ReadOnce, Zenon
<1> QED
  BY <1>1, StationInvariant, PTL DEF SSpec, ReadFromStart
=============================================================================
