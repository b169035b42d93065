--------------------------- MODULE SlowDataStation ---------------------------
(***************************************************************************)
(* One transmission, received without a fault, whose slow data brings the  *)
(* fragments of a message and of the station's header over and over.  The  *)
(* receiver (SlowDataConsole) hears it from the start, or comes in at any  *)
(* fragment.  The station is not part of the repository; the numbers of    *)
(* its fragments are those that Add3 looks for.                            *)
(***************************************************************************)
EXTENDS SlowDataConsole

CONSTANTS
  StationHeader,     \* HeaderLen characters
  StationMessage     \* MessageLen characters

\* a message is filled up with blanks, and a header has check characters
ASSUME StationAssumption ==
  /\ StationHeader \in Seq(Char) /\ Len(StationHeader) = HeaderLen
  /\ StationMessage \in Seq(Char) /\ Len(StationMessage) = MessageLen
  /\ StationMessage[MessageLen] # NUL
  /\ Check > 0

VARIABLES
  place,             \* the fragment of Cycle to come
  fromStart,         \* the receiver was there when the station began
  fragments          \* how many fragments have come, up to a cycle

svars == <<m_headcount, m_header, m_message, m_type3, m_buffer, expect, printed,
           mix, radio, headers, messages, heard, ended, place, fromStart, fragments>>

\* Frag characters of text from n on; where it ends before, any others
Piece(text, n) ==
  [i \in 1 .. Frag |-> IF n + i <= Len(text) THEN text[n + i] ELSE text[Len(text)]]

MessageFragments ==
  [k \in 1 .. MsgFrags |-> <<4, k - 1, Piece(StationMessage, Frag * (k - 1))>>]
HeaderFragments ==
  [k \in 1 .. HeadFrags + 1 |->
     <<5, IF k <= HeadFrags THEN Frag ELSE 1, Piece(StationHeader, Frag * (k - 1))>>]
Cycle == MessageFragments \o HeaderFragments

InMemory(text) == [i \in 0 .. Len(text) - 1 |-> text[i + 1]]

SInit ==
  /\ CInit
  /\ place = 1
  /\ fromStart = FALSE
  /\ fragments = 0

\* the first data sync the receiver sees is the station's first, or a later one
ComeIn ==
  /\ Locked
  /\ place' \in DOMAIN Cycle
  /\ fromStart' \in {FALSE, place' = 1}
  /\ UNCHANGED <<mix, radio, headers, messages, heard, ended, fragments>>

HearHeader ==
  /\ SetHeader(InMemory(StationHeader))
  /\ radio' = TRUE
  /\ headers' = Counted(headers, "header")
  /\ fromStart' = TRUE
  /\ UNCHANGED <<mix, messages, heard, ended, place, fragments>>

HearHalf ==
  /\ \/ SyncFrame
     \/ FirstHalf(Cycle[place][1], Cycle[place][2], SubSeq(Cycle[place][3], 1, Lead))
  /\ UNCHANGED <<mix, radio, headers, messages, heard, ended, place, fromStart, fragments>>

HearFragment ==
  LET rest == SubSeq(Cycle[place][3], Lead + 1, Frag)
  IN  /\ TypeThree(rest) \/ Message(rest) \/ Header(rest) \/ Filler(rest)
      /\ Listen(rest)
      /\ place' = (place % Len(Cycle)) + 1
      /\ fragments' = IF fragments < Len(Cycle) THEN fragments + 1 ELSE fragments
      /\ UNCHANGED <<mix, fromStart>>

SNext == ComeIn \/ HearHeader \/ HearHalf \/ HearFragment

SSpec == SInit /\ [][SNext]_svars

(***************************************************************************)
(* Who hears a transmission from its start reads the station's header and  *)
(* message, each exactly once, within one cycle of its fragments.          *)
(***************************************************************************)
ReadFromStart ==
  [][ fromStart' =>
        /\ Prints("header") => printed'[2] = Shown(InMemory(StationHeader))
        /\ Prints("message") => printed'[2] = MessageShown(InMemory(StationMessage))
        /\ headers' <= 1 /\ messages' <= 1
        /\ fragments' = Len(Cycle) => headers' = 1 /\ messages' = 1 ]_svars

(***************************************************************************)
(* examples/README: "The header and the 20-character message will only be  *)
(* printed once per transmission."  Here of the header, by whoever hears   *)
(* the transmission.                                                       *)
(***************************************************************************)
HeaderOncePerTransmission == headers <= 1
=============================================================================
