------------------------------ MODULE SlowData ------------------------------
(***************************************************************************)
(* CSlowData (lib/SlowData.cc): the three bytes of slow data in each voice *)
(* frame, put together to fragments, and the fragments to the radio        *)
(* header, the message and the texts that go to the console.               *)
(*                                                                         *)
(* A fragment is the six bytes of an odd frame and the even one after it,  *)
(* here after the descrambling, which is a bijection on bytes: a key, a    *)
(* count, and Frag characters.  Bytes are modelled as what the code tells  *)
(* apart: NUL, blank, the underscore it writes for one, the other white    *)
(* space (isspace), and the others.                                        *)
(*                                                                         *)
(* A count is a nibble, and nothing looks whether there are so many        *)
(* characters.  A memcpy that leaves m_buffer or the array that it writes  *)
(* to goes on in what lies behind: then expect is Undefined, and nothing   *)
(* is said of what follows.  The arrays lie one after another, m_header,   *)
(* m_message, m_type3, and the loop that trims a text goes through them    *)
(* downwards; in m_buffer, before them, it stops at the key.               *)
(*                                                                         *)
(* The numbers of the frames are the caller's, CDStarDecode::Process;      *)
(* expect stands for it.                                                   *)
(***************************************************************************)
EXTENDS Integers, Sequences

CONSTANTS
  Lead,         \* characters of a fragment in its first half: 2
  Rest,         \* and in its second: 3
  HeadFrags,    \* full fragments of a header: 8; one character follows
  Flags,        \* characters before the first call sign of a header: 3
  Check,        \* characters after the last: 2
  MsgFrags,     \* fragments of a message: 4
  Type3Len,     \* bytes of m_type3: 100
  SyncPeriod,   \* a frame in so many has a sync and no slow data: 21
  Other,        \* characters but NUL, blank and underscore
  Spaces,       \* those of them that are white space: tab, new line and three more
  CountMax,     \* the largest count: 15
  Keys,         \* keys of the fragments on the air; any but 3, 4, 5 is Filler's
  TextChars,    \* the characters in them
  RadioHeaders  \* headers that come before the voice frames

Frag == Lead + Rest
HeaderLen == Frag * HeadFrags + 1
MessageLen == Frag * MsgFrags

NUL == "NUL"
Blank == " "
Underscore == "_"
Char == {NUL, Blank, Underscore} \cup Other

ASSUME SlowDataAssumption ==
  /\ Lead \in Nat \ {0}
  /\ Rest \in Nat \ {0}
  /\ HeadFrags \in Nat \ {0}
  /\ Flags \in Nat
  /\ Check \in Nat
  /\ Flags + Check <= HeaderLen
  /\ MsgFrags \in Nat \ {0}
  /\ Type3Len \in Nat /\ Type3Len > Frag
  /\ SyncPeriod \in Nat /\ SyncPeriod > 2 /\ SyncPeriod % 2 = 1
  /\ Other \cap {NUL, Blank, Underscore} = {}
  /\ Spaces \subseteq Other
  /\ CountMax \in Nat
  /\ Keys \subseteq 0 .. 7
  /\ TextChars \subseteq Char
  /\ RadioHeaders \subseteq [0 .. HeaderLen - 1 -> Char]

VARIABLES
  m_headcount,   \* fragments of the header so far; more than HeadFrags: all of it
  m_header,
  m_message,
  m_type3,
  m_buffer,      \* the first half of a fragment, or <<>>
  expect,        \* number of the next frame; Searching while there are none, or Undefined
  printed        \* what the last call put on the console: <<>>, or a name and characters

vars == <<m_headcount, m_header, m_message, m_type3, m_buffer, expect, printed>>

Searching == -1
Undefined == -2

Memory(n) == [0 .. n - 1 -> Char]
Cleared(n) == [i \in 0 .. n - 1 |-> NUL]

\* memcpy of the first count characters of text to mem + at
Copied(mem, at, text, count) ==
  [i \in DOMAIN mem |-> IF i \in at .. at + count - 1 THEN text[i - at + 1] ELSE mem[i]]

\* for strlen: the place of the first NUL
StrLen(mem) == CHOOSE n \in DOMAIN mem :
                 mem[n] = NUL /\ \A i \in 0 .. n - 1 : mem[i] # NUL

\* blanks at places in range become underscores
Underscored(mem, range) ==
  [i \in DOMAIN mem |-> IF i \in range /\ mem[i] = Blank THEN Underscore ELSE mem[i]]

Init ==
  /\ m_headcount = 0
  /\ m_header = Cleared(HeaderLen)
  /\ m_message = Cleared(MessageLen)
  /\ m_type3 = Cleared(Type3Len)
  /\ m_buffer = <<>>
  /\ expect = Searching
  /\ printed = <<>>

\* the frames are lost or at an end; after an unexpected sync they go on
Reset ==
  /\ expect >= 0
  /\ m_headcount' = 0
  /\ m_header' = Cleared(HeaderLen)
  /\ m_message' = Cleared(MessageLen)
  /\ m_type3' = Cleared(Type3Len)
  /\ expect' \in {Searching, 1}
  /\ printed' = <<>>
  /\ UNCHANGED m_buffer

\* Process finds a data sync, and calls nothing
Locked ==
  /\ expect = Searching
  /\ expect' = 1
  /\ printed' = <<>>
  /\ UNCHANGED <<m_headcount, m_header, m_message, m_type3, m_buffer>>

\* where a header has the call signs, which are what PrintHeader prints
CallSigns == Flags .. HeaderLen - Check - 1
Shown(header) == [i \in CallSigns |-> Underscored(header, CallSigns)[i]]
PrintHeader(header) ==
  /\ m_header' = Underscored(header, CallSigns)
  /\ printed' = <<"header", Shown(header)>>

\* a plausible slip: fragments of the header are taken after it as before
HeadCountUnset == 0
\* the m_headcount of a header that is complete
HeadCountSet == HeadFrags + 1

SetHeader(header) ==
  /\ expect = Searching
  /\ expect' = 0
  /\ PrintHeader(header)
  /\ m_headcount' = HeadCountSet
  /\ UNCHANGED <<m_message, m_type3, m_buffer>>

(***************************************************************************)
(* Add3.  The sync frames bring nothing; an odd frame is kept for the even *)
(* one that follows.                                                       *)
(***************************************************************************)
\* a plausible slip: the number is not reduced, and no frame but the first is 0
NextFrameUnreduced == expect + 1
NextFrame == (expect + 1) % SyncPeriod

SyncFrame ==
  /\ expect = 0
  /\ expect' = NextFrame
  /\ printed' = <<>>
  /\ UNCHANGED <<m_headcount, m_header, m_message, m_type3, m_buffer>>

FirstHalf(key, count, lead) ==
  /\ expect > 0
  /\ expect % 2 = 1
  /\ m_buffer' = <<key, count, lead>>
  /\ expect' = NextFrame
  /\ printed' = <<>>
  /\ UNCHANGED <<m_headcount, m_header, m_message, m_type3>>

\* the fragment that rest completes is of this key
SecondHalf(key, rest) ==
  /\ expect > 0
  /\ expect % 2 = 0
  /\ m_buffer[1] = key
  /\ m_buffer' = <<>>
  /\ expect' = NextFrame

Count == m_buffer[2]
Text(rest) == m_buffer[3] \o rest

\* a plausible slip: one character too many is let in
NoRoomLate == StrLen(m_type3) > Type3Len - Frag
\* another fragment might not fit with its NUL
NoRoom == StrLen(m_type3) > Type3Len - Frag - 1

\* these characters of m_buffer are there, and so is the place to which they are copied
Within(at, count, size) == count <= Frag /\ at + count <= size

White == {Blank} \cup Spaces
AllWhite(mem, n) == \A i \in 0 .. n - 1 : mem[i] \in White

\* a plausible slip: one white space is trimmed where there may be more
TrimmedOne(mem, n) == [i \in DOMAIN mem |-> IF i = n - 1 /\ mem[i] \in White THEN NUL ELSE mem[i]]
\* of the first n bytes of mem, the white space at the end becomes NUL
Trimmed(mem, n) ==
  LET kept == {i \in 0 .. n - 1 : mem[i] \notin White}
  IN  [i \in DOMAIN mem |-> IF i < n /\ \A k \in kept : k < i THEN NUL ELSE mem[i]]

\* key 3: a text, which a fragment that is not full ends
TypeThree(rest) ==
  LET grown == Copied(m_type3, StrLen(m_type3), Text(rest), Count)
      allWhite == AllWhite(grown, StrLen(grown))
  IN  /\ SecondHalf(3, rest)
      /\ \/ /\ NoRoom
            /\ UNCHANGED <<m_header, m_message, m_type3>>
            /\ printed' = <<>>
         \/ /\ ~NoRoom /\ Within(StrLen(m_type3), Count, Type3Len)
            /\ Count = Frag
            /\ m_type3' = grown
            /\ UNCHANGED <<m_header, m_message>>
            /\ printed' = <<>>
         \/ /\ ~NoRoom /\ Within(StrLen(m_type3), Count, Type3Len)
            /\ Count # Frag
            /\ m_type3' = Cleared(Type3Len)
            /\ m_message' = IF allWhite THEN Trimmed(m_message, MessageLen) ELSE m_message
            /\ m_header' = IF allWhite /\ AllWhite(m_message, MessageLen)
                           THEN Trimmed(m_header, HeaderLen) ELSE m_header
            /\ printed' = <<"text", Trimmed(grown, StrLen(grown))>>
      /\ UNCHANGED m_headcount

\* a plausible slip: the last character of the message is left out
MessageShownShort(message) == Underscored(message, 0 .. MessageLen - 2)
MessageShown(message) == Underscored(message, 0 .. MessageLen - 1)

\* a plausible slip: the first character is looked at instead of the last
MessageDoneFirst == m_message[0] # NUL
\* m_message is complete
MessageDone == m_message[MessageLen - 1] # NUL

\* key 4: the count says which fragment of the message this is
Message(rest) ==
  LET grown == Copied(m_message, Frag * Count, Text(rest), Frag)
  IN  /\ SecondHalf(4, rest)
      /\ \/ /\ MessageDone
            /\ UNCHANGED m_message
            /\ printed' = <<>>
         \/ /\ ~MessageDone /\ Within(Frag * Count, Frag, MessageLen)
            /\ Count # MsgFrags - 1
            /\ m_message' = grown
            /\ printed' = <<>>
         \/ /\ ~MessageDone /\ Within(Frag * Count, Frag, MessageLen)
            /\ Count = MsgFrags - 1
            /\ m_message' = MessageShown(grown)
            /\ printed' = <<"message", MessageShown(grown)>>
      /\ UNCHANGED <<m_headcount, m_header, m_type3>>

\* key 5: the fragments of the header, in the order they come
Header(rest) ==
  LET grown == Copied(m_header, Frag * m_headcount, Text(rest), Count)
  IN  /\ SecondHalf(5, rest)
      /\ \/ /\ m_headcount >= HeadFrags
            /\ UNCHANGED <<m_headcount, m_header>>
            /\ printed' = <<>>
         \/ /\ m_headcount < HeadFrags /\ Within(Frag * m_headcount, Count, HeaderLen)
            /\ m_headcount' = m_headcount + 1
            /\ IF Count < Frag \/ m_headcount + 1 >= HeadFrags
               THEN PrintHeader(grown)
               ELSE m_header' = grown /\ printed' = <<>>
      /\ UNCHANGED <<m_message, m_type3>>

\* the keys the code knows nothing of
Filler(rest) ==
  /\ \E key \in Keys \ {3, 4, 5} : SecondHalf(key, rest)
  /\ printed' = <<>>
  /\ UNCHANGED <<m_headcount, m_header, m_message, m_type3>>

\* a memcpy leaves its arrays
Overrun ==
  /\ expect > 0
  /\ expect % 2 = 0
  /\ \/ /\ m_buffer[1] = 3 /\ ~NoRoom
        /\ ~Within(StrLen(m_type3), Count, Type3Len)
     \/ /\ m_buffer[1] = 4 /\ ~MessageDone
        /\ ~Within(Frag * Count, Frag, MessageLen)
     \/ /\ m_buffer[1] = 5 /\ m_headcount < HeadFrags
        /\ ~Within(Frag * m_headcount, Count, HeaderLen)
  /\ expect' = Undefined
  /\ printed' = <<>>
  /\ UNCHANGED <<m_headcount, m_header, m_message, m_type3, m_buffer>>

\* nothing is said of what follows
Lost == expect = Undefined /\ UNCHANGED vars

Next ==
  \/ Reset
  \/ Locked
  \/ \E header \in RadioHeaders : SetHeader(header)
  \/ SyncFrame
  \/ \E key \in Keys, count \in 0 .. CountMax, lead \in [1 .. Lead -> TextChars] :
       FirstHalf(key, count, lead)
  \/ \E rest \in [1 .. Rest -> TextChars] :
       TypeThree(rest) \/ Message(rest) \/ Header(rest) \/ Filler(rest)
  \/ Overrun
  \/ Lost

Spec == Init /\ [][Next]_vars

TypeOK ==
  /\ m_headcount \in 0 .. HeadFrags + 1
  /\ m_header \in Memory(HeaderLen)
  /\ m_message \in Memory(MessageLen)
  /\ m_type3 \in Memory(Type3Len)
  /\ m_buffer \in {<<>>} \cup {<<key, count, lead>> : key \in Keys, count \in 0 .. CountMax,
                                                    lead \in [1 .. Lead -> TextChars]}
  /\ expect \in {Undefined, Searching} \cup 0 .. SyncPeriod - 1

-----------------------------------------------------------------------------
\* the text in m_type3 ends within m_type3: strlen and printf stop there
Terminated == m_type3[Type3Len - 1] = NUL

\* the counts that a fragment of this key can have
Fitting(key) == IF key = 4 THEN 0 .. MsgFrags - 1 ELSE 0 .. Frag

(***************************************************************************)
(* Whatever the fragments and their order, the arrays are left by none     *)
(* whose count says how many characters it has, or which part of the       *)
(* message it is: NoRoom leaves room for such a fragment and for the NUL   *)
(* behind it, m_headcount counts no more of them than m_header has room    *)
(* for.  Of another count, which Add3 takes as well, nothing of this is    *)
(* true.                                                                   *)
(***************************************************************************)
LeftByCountOnly ==
  /\ Terminated
  /\ expect = Undefined => m_buffer[2] \notin Fitting(m_buffer[1])

\* the fragment at hand, when it is whole, is one of a text; this step takes it
TextFragment == expect > 0 /\ expect % 2 = 0 /\ m_buffer[1] = 3
TextAdded == TextFragment /\ m_buffer' = <<>>

(***************************************************************************)
(* The loop that trims a text of white space only goes on to m_type3[-1],  *)
(* which is the last byte of m_message.  There it stops, unless a message  *)
(* ends in white space that is no blank: a message that is complete has    *)
(* its blanks replaced, and no other fragment has that byte.  So a text    *)
(* changes neither a message nor a header.                                 *)
(***************************************************************************)
TrimStops ==
  [][ TextAdded =>
        UNCHANGED <<m_message, m_header>> \/ m_message[MessageLen - 1] \in Spaces ]_vars
=============================================================================
