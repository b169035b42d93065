------------------------------- MODULE Relock -------------------------------
(***************************************************************************)
(* The decoder (DStarDecode) finds a transmission, whatever came before.   *)
(* First it gets any bits at all, with any patterns in them, for any time; *)
(* then a station sends: superframes of SyncPeriod voice frames, of which  *)
(* the first ends with the data sync.  The station is not part of the      *)
(* repository: it is what the air interface makes of dstar_encode_sb's     *)
(* frames.                                                                 *)
(***************************************************************************)
EXTENDS DStarDecode

CONSTANTS
  SyncFrames,    \* frames that end with the data sync, as sequences of bits
  PlainFrames    \* the other frames

VARIABLES
  frame,         \* the frame being sent; <<>> before the station begins
  turn,          \* its number in the superframe
  pos,           \* how many of its bits have been sent
  sent           \* how many bits have been sent in all, up to Enough

rvars == <<sr, readmode, index, voiceframecount, audio_ready, first_time, inp,
           running, calls, frame, turn, pos, sent>>

(***************************************************************************)
(* What the air owes the decoder.  The register of one that has heard the  *)
(* last Width bits of two frames in a row, p of them of the second, passes *)
(* none of the tests but that for the data sync, and that one where the    *)
(* frame with the data sync ends.  And a terminal sync cannot be made of   *)
(* a header sync that was left in the register and of less than its own    *)
(* length of bits after it.                                                *)
(***************************************************************************)
\* the bit that came so many bits before the newest
Ago(d, bits) == IF bits < WordBits THEN d[0][bits]
                ELSE IF bits < 2 * WordBits THEN d[1][bits - WordBits]
                ELSE d[2][bits - 2 * WordBits]

\* the last bits on the air, the newest first, and the register they make
LastBits(before, now, p) ==
  [bits \in 0 .. Width - 1 |-> IF bits < p THEN now[p - bits]
                                         ELSE before[FrameBits + p - bits]]
RegisterOf(air) == [j \in 0 .. 2 |-> [b \in 0 .. WordBits - 1 |-> air[j * WordBits + b]]]

Follows(before, now) ==
  \/ before \in PlainFrames /\ now \in SyncFrames \cup PlainFrames
  \/ before \in SyncFrames /\ now \in PlainFrames

ASSUME StationAssumption ==
  /\ SyncFrames # {} /\ SyncFrames \subseteq [1 .. FrameBits -> Bit]
  /\ PlainFrames # {} /\ PlainFrames \subseteq [1 .. FrameBits -> Bit]
  /\ SyncFrames \cap PlainFrames = {}
  /\ \A before, now \in SyncFrames \cup PlainFrames, p \in 1 .. FrameBits :
       Follows(before, now) =>
         LET d == RegisterOf(LastBits(before, now, p))
         IN  /\ ~IsHeadSync(d)
             /\ ~IsTermSync(d)
             /\ IsDataSync(d) <=> p = FrameBits /\ now \in SyncFrames

TermBits == WordBits + TermHighBits
TermBit(i) == IF i < WordBits THEN TermLow[i] ELSE TermHigh[i - WordBits]

ASSUME LeftOverAssumption ==
  \A c \in 1 .. TermBits - 1 :
    \E i \in c .. TermBits - 1 : TermBit(i) # Ago(HeadSync, i - c)

(***************************************************************************)
(* How long the decoder may take: to run out of a header that was no more  *)
(* than a frame's bits old and of the frame after it, or of a superframe   *)
(* with no sync where its numbers say, and then to come past the station's *)
(* next sync.                                                              *)
(***************************************************************************)
MaxOf(a, b) == IF a > b THEN a ELSE b
Enough == MaxOf(HeaderBits + 2 * FrameBits - 1, SyncPeriod * FrameBits)
            + SyncPeriod * FrameBits

RInit ==
  /\ Init
  /\ frame = <<>>
  /\ turn = 0
  /\ pos = 0
  /\ sent = 0

Silent == frame = <<>>

Noise ==
  /\ Silent
  /\ Next
  /\ UNCHANGED <<frame, turn, pos, sent>>

\* the station may begin anywhere in a superframe
Begin ==
  /\ Silent
  /\ turn' \in 0 .. SyncPeriod - 1
  /\ frame' \in IF turn' = 0 THEN SyncFrames ELSE PlainFrames
  /\ UNCHANGED <<vars, pos, sent>>

SendBit ==
  /\ ~Silent
  /\ Take(frame[pos + 1])
  /\ sent' = IF sent < Enough THEN sent + 1 ELSE sent
  /\ IF pos + 1 < FrameBits
     THEN /\ pos' = pos + 1
          /\ UNCHANGED <<frame, turn>>
     ELSE /\ pos' = 0
          /\ turn' = (turn + 1) % SyncPeriod
          /\ frame' \in IF turn' = 0 THEN SyncFrames ELSE PlainFrames

NextCall ==
  /\ ~Silent
  /\ Call
  /\ UNCHANGED <<frame, turn, pos, sent>>

RNext == Noise \/ Begin \/ SendBit \/ NextCall

RSpec == RInit /\ [][RNext]_rvars

(***************************************************************************)
(* The decoder's frames are the station's, and so are their numbers.       *)
(***************************************************************************)
InStep ==
  /\ readmode = "datamode"
  /\ index = pos
  /\ voiceframecount = turn

(***************************************************************************)
(* From every state the decoder can have got into, a superframe or a       *)
(* header taken where there was none included, it is in step with the      *)
(* station after at most Enough bits, and stays so.                        *)
(***************************************************************************)
RelockInTime ==
  running /\ sent = Enough => InStep
=============================================================================
