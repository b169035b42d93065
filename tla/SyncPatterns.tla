---------------------------- MODULE SyncPatterns ----------------------------
(***************************************************************************)
(* Stale bits in the sync register.  While Process (lib/DStarDecode.cc)    *)
(* collects a header it does not push bits, so that when the voice frames  *)
(* begin the register still holds the header sync, as if it had come right *)
(* before them; and before the first bit it holds the constructor's zeros. *)
(* Can a sync be seen that is made partly of those bits?  If it could, its *)
(* last bits would be the bits received since: for each pattern and each   *)
(* k this module feeds the last k bits of the pattern and looks.  A bit    *)
(* comes in a byte, whose other bits may be anything.  Or it feeds a frame *)
(* of the encoder, whole, after a register that holds anything of this.    *)
(***************************************************************************)
EXTENDS SyncRegister, FrameBytes

CONSTANTS
  VocoderFrames,   \* what the encoder's vocoder may say, as sequences of octets
  SlowOctets       \* the octets that GetData puts behind it, by their name

Octet == [0 .. OctetBits - 1 -> Bit]

VARIABLES
  stale,   \* what the register held: "head" or "zero"
  todo,    \* the bits still to come
  fresh,   \* how many have come
  encoded  \* what the encoder sent: its vocoder's octets and the name of the
           \* slow data, or <<>>

pvars == <<data, received, stale, todo, fresh, encoded>>

\* the patterns in the order their bits are sent
HeadArrival ==
  [p \in 1 .. Width |->
     HeadSync[(Width - p) \div WordBits][(Width - p) % WordBits]]
DataArrival == [p \in 1 .. DataSyncBits |-> DataSync[DataSyncBits - p]]
TermArrival ==
  [p \in 1 .. TermHighBits + WordBits |->
     IF p <= TermHighBits THEN TermHigh[TermHighBits - p]
                          ELSE TermLow[WordBits + TermHighBits - p]]

\* what the register held, in the order its bits came
Before(kind) == [p \in 1 .. Width |-> IF kind = "head" THEN HeadArrival[p] ELSE 0]

\* all of a pattern of size bits but its last k is what it held last
Overlaps(pattern, size, kind, k) ==
  \A p \in 1 .. size - k : pattern[p] = Before(kind)[Width - (size - k) + p]

(***************************************************************************)
(* The patterns do not begin with what is left in the register, a header   *)
(* sync but for one bit.                                                   *)
(***************************************************************************)
ASSUME OverlapAssumption ==
  \A kind \in {"head", "zero"} :
    /\ \A k \in 1 .. DataSyncBits - 1 : ~Overlaps(DataArrival, DataSyncBits, kind, k)
    /\ \A k \in 1 .. TermHighBits + WordBits - 1 :
         ~Overlaps(TermArrival, TermHighBits + WordBits, kind, k)
    /\ \A k \in 1 .. Width - 2 : ~Overlaps(HeadArrival, Width, kind, k)

(***************************************************************************)
(* A frame is as long as the register and its slow data as long as the     *)
(* pattern of IsDataSync, which is that of the slow data with this name.   *)
(***************************************************************************)
ASSUME FrameAssumption ==
  \A ambe \in VocoderFrames, slow \in DOMAIN SlowOctets :
    /\ ambe \in Seq(Octet)
    /\ SlowOctets[slow] \in Seq(Octet)
    /\ Len(ambe) + Len(SlowOctets[slow]) = 3 * WordOctets
    /\ OctetBits * Len(SlowOctets[slow]) = DataSyncBits
    /\ MostSignificantFirst(SlowOctets[slow]) = DataArrival <=> slow = "sync"

Suffixes(pattern) ==
  {SubSeq(pattern, k, Len(pattern)) : k \in 1 .. Len(pattern)}

PInit ==
  /\ stale \in {"head", "zero"}
  /\ data = IF stale = "head" THEN HeadSync ELSE Zero
  /\ received = Before(stale)
  /\ \/ /\ encoded = <<>>
        /\ todo \in Suffixes(HeadArrival) \cup Suffixes(DataArrival) \cup Suffixes(TermArrival)
     \/ \E ambe \in VocoderFrames, slow \in DOMAIN SlowOctets :
          /\ encoded = <<ambe, slow>>
          /\ todo \in Streams(GetData(ambe, SlowOctets[slow]))
  /\ fresh = 0

PNext ==
  /\ todo # <<>>
  /\ \E junk \in {0, 2} : Push(Head(todo) + junk)
  /\ todo' = Tail(todo)
  /\ fresh' = fresh + 1
  /\ UNCHANGED <<stale, encoded>>

PSpec == PInit /\ [][PNext]_pvars

(***************************************************************************)
(* Every data sync and every terminal sync that the decoder acts on was    *)
(* received whole, whatever the register held before; a header sync too,   *)
(* but for its first bit: that is a zero, and both the constructor's zeros *)
(* and a header sync left behind end in one.                               *)
(***************************************************************************)
NoStaleSync ==
  fresh > 0 =>
    /\ IsDataSync(data) => fresh >= DataSyncBits
    /\ IsTermSync(data) => fresh >= TermHighBits + WordBits
    /\ IsHeadSync(data) => fresh >= Width - 1

(***************************************************************************)
(* The frame that the decoder takes out of the register when all bits of   *)
(* an encoder's frame have come is that frame: SendData gives its vocoder  *)
(* the octets that the encoder's vocoder gave, and the data sync is seen   *)
(* in the frames that have it and in no other.                             *)
(***************************************************************************)
SameFrameDecoded ==
  encoded # <<>> /\ todo = <<>> =>
    /\ SendData(GetDataFrame(data), Len(encoded[1])) = encoded[1]
    /\ IsDataSync(data) <=> encoded[2] = "sync"
=============================================================================
