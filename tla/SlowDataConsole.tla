--------------------------- MODULE SlowDataConsole ---------------------------
(***************************************************************************)
(* What a listener reads on the console (SlowData), told by history        *)
(* variables of what has been printed and of what has been on the air      *)
(* since the last Reset.                                                   *)
(***************************************************************************)
EXTENDS SlowData

CONSTANT
  Mixes       \* what a station may send: the keys of its fragments, the characters in them

ASSUME MixesAssumption ==
  \A m \in Mixes : m.keys \subseteq Keys /\ m.chars \subseteq TextChars

VARIABLES
  mix,        \* what this one sends
  radio,      \* a header came before the frames
  headers,    \* how many headers have been printed (at most Many)
  messages,   \* how many messages
  heard,      \* characters of the text on the air, as many as m_type3 takes;
              \* <<NUL>> if there is a NUL among them
  ended       \* its last fragment has come

cvars == <<m_headcount, m_header, m_message, m_type3, m_buffer, expect, printed,
           mix, radio, headers, messages, heard, ended>>

Many == 2
Prints(name) == printed' # <<>> /\ printed'[1] = name
Counted(n, name) == IF Prints(name) /\ n < Many THEN n + 1 ELSE n

CInit ==
  /\ Init
  /\ mix \in Mixes
  /\ radio = FALSE
  /\ headers = 0
  /\ messages = 0
  /\ heard = <<>>
  /\ ended = FALSE

Heard(rest) ==
  LET before == IF ended THEN <<>> ELSE heard
      text == before \o SubSeq(Text(rest), 1, IF Count > Frag THEN Frag ELSE Count)
  IN  IF Len(before) >= Type3Len - Frag THEN before
      ELSE IF \E n \in DOMAIN text : text[n] = NUL THEN <<NUL>> ELSE text

Listen(rest) ==
  /\ radio' = radio
  /\ headers' = Counted(headers, "header")
  /\ messages' = Counted(messages, "message")
  /\ IF TextFragment
     THEN /\ heard' = Heard(rest)
          /\ ended' = (Count # Frag)
     ELSE UNCHANGED <<heard, ended>>

CReset ==
  /\ Reset
  /\ radio' = FALSE
  /\ headers' = 0
  /\ messages' = 0
  /\ heard' = <<>>
  /\ ended' = FALSE
  /\ UNCHANGED mix

CSetHeader ==
  /\ \E header \in RadioHeaders : SetHeader(header)
  /\ radio' = TRUE
  /\ headers' = Counted(headers, "header")
  /\ UNCHANGED <<mix, messages, heard, ended>>

CFrame ==
  /\ \/ Locked
     \/ SyncFrame
     \/ \E key \in mix.keys, count \in 0 .. CountMax, lead \in [1 .. Lead -> mix.chars] :
          FirstHalf(key, count, lead)
  /\ UNCHANGED <<mix, radio, headers, messages, heard, ended>>

CFragment ==
  \E rest \in [1 .. Rest -> mix.chars] :
    /\ UNCHANGED mix
    /\ TypeThree(rest) \/ Message(rest) \/ Header(rest) \/ Filler(rest)
    /\ Listen(rest)

COverrun == Overrun /\ UNCHANGED <<mix, radio, headers, messages, heard, ended>>
CLost == expect = Undefined /\ UNCHANGED cvars

CNext == CReset \/ CSetHeader \/ CFrame \/ CFragment \/ COverrun \/ CLost

CSpec == CInit /\ [][CNext]_cvars

(***************************************************************************)
(* When a header came before the frames, no header in their slow data is   *)
(* printed again, whatever the fragments, until the frames end.            *)
(***************************************************************************)
RadioHeaderOnce == radio => headers = 1

(***************************************************************************)
(* The message is printed once (examples/README), whatever the order in    *)
(* which its fragments come and whatever texts come between them, as long  *)
(* as it has no NUL and no white space but blanks: a text of white space   *)
(* only would trim its last character, and with it the sign that it is     *)
(* complete.                                                               *)
(***************************************************************************)
MessageOnce == mix.chars \cap ({NUL} \cup Spaces) = {} => messages <= 1

(***************************************************************************)
(* A text on the console is the one that was on the air, all fragments of  *)
(* it in their order and nothing of another text, but for white space at   *)
(* its end (if there is no NUL in it, where strings end).                  *)
(***************************************************************************)
Stripped(text) ==
  {n \in 1 .. Len(text) : \E k \in n .. Len(text) : text[k] \notin White}
TextAsSent ==
  [][ Prints("text") /\ (\A n \in DOMAIN heard' : heard'[n] # NUL) =>
        printed'[2] = [i \in 0 .. Type3Len - 1 |->
                         IF i + 1 \in Stripped(heard') THEN heard'[i + 1] ELSE NUL] ]_cvars

-----------------------------------------------------------------------------
(***************************************************************************)
(* examples/README: "This block will also print data in the "slow data"    *)
(* portion of the voice frame".  Add3 prints a text at the fragment that   *)
(* ends it.                                                                *)
(***************************************************************************)
TextPrinted ==
  [][ TextAdded /\ Count < Frag => Prints("text") ]_cvars
=============================================================================
