------------------------------ MODULE SyncWords ------------------------------
(***************************************************************************)
(* CSyncRegister (lib/SyncRegister.cc): the last bits received, kept in    *)
(* the three unsigned ints data[0..2], newest bit in bit 0 of data[0], and *)
(* the three tests for a D-STAR sync pattern.                              *)
(*                                                                         *)
(* A word is a function from bit numbers to bits, bit 0 the least          *)
(* significant, because a 32-bit unsigned int does not fit TLC's integers. *)
(* The operators take the three words as a parameter: SyncRegister uses    *)
(* them on a register alone, DStarDecode on the decoder's member sr.       *)
(***************************************************************************)
EXTENDS Integers

CONSTANTS
  OctetBits,      \* bits of one octet: 8
  WordOctets,     \* octets of one unsigned int: 4
  HeadSync,       \* the words that data[0], data[1], data[2] must equal
  DataSyncBits,   \* how many low bits of data[0] IsDataSync looks at: 24
  DataSync,       \* and what they must be
  TermHighBits,   \* how many low bits of data[1] IsTermSync looks at: 16
  TermHigh,       \* what they must be
  TermLow         \* and what data[0] must be

Bit == {0, 1}
Byte == 0 .. 3      \* an input byte, of which only bit 0 counts
WordBits == OctetBits * WordOctets
Width == 3 * WordBits
Word == [0 .. WordBits - 1 -> Bit]
Words == [0 .. 2 -> Word]

ASSUME SizeAssumption ==
  /\ OctetBits \in Nat \ {0}
  /\ WordOctets \in Nat \ {0}
  /\ WordBits \in Nat \ {0}
  /\ DataSyncBits \in 1 .. WordBits
  /\ TermHighBits \in 0 .. WordBits

(***************************************************************************)
(* No register content passes two of the tests: the patterns differ in a   *)
(* bit that both tests look at.  Process (lib/DStarDecode.cc) tests them   *)
(* in a fixed order, which therefore does not matter.                      *)
(***************************************************************************)
ASSUME PatternAssumption ==
  /\ HeadSync \in Words
  /\ DataSync \in [0 .. DataSyncBits - 1 -> Bit]
  /\ TermHigh \in [0 .. TermHighBits - 1 -> Bit]
  /\ TermLow \in Word
  /\ \E b \in 0 .. DataSyncBits - 1 : DataSync[b] # HeadSync[0][b]
  /\ \E b \in 0 .. DataSyncBits - 1 : DataSync[b] # TermLow[b]
  /\ \E b \in 0 .. WordBits - 1 : TermLow[b] # HeadSync[0][b]

(***************************************************************************)
(* Operators on a register d.                                              *)
(***************************************************************************)
Zero == [j \in 0 .. 2 |-> [b \in 0 .. WordBits - 1 |-> 0]]

TopBit(word) == word[WordBits - 1]

ShiftIn(word, in) ==
  [b \in 0 .. WordBits - 1 |-> IF b = 0 THEN in % 2 ELSE word[b - 1]]

\* a plausible slip: data[1] takes its carry after data[0] has been shifted
PushedLowWordFirst(d, in) ==
  LET low == ShiftIn(d[0], in)
      mid == ShiftIn(d[1], TopBit(low))
  IN  [j \in 0 .. 2 |-> IF j = 0 THEN low ELSE
                        IF j = 1 THEN mid ELSE ShiftIn(d[2], TopBit(d[1]))]

Pushed(d, in) ==
  [j \in 0 .. 2 |-> ShiftIn(d[j], IF j = 0 THEN in ELSE TopBit(d[j - 1]))]

IsHeadSync(d) == d = HeadSync
IsDataSync(d) == \A b \in 0 .. DataSyncBits - 1 : d[0][b] = DataSync[b]

\* a plausible slip: only the low word of the terminal sync is compared
IsTermSyncLowOnly(d) == d[0] = TermLow
IsTermSync(d) ==
  /\ \A b \in 0 .. TermHighBits - 1 : d[1][b] = TermHigh[b]
  /\ d[0] = TermLow

(***************************************************************************)
(* GetDataFrame: htonl puts the most significant octet of a word first in  *)
(* memory on every host, and the words go out from data[2] to data[0].     *)
(***************************************************************************)
NetOctet(word, n) ==
  [b \in 0 .. OctetBits - 1 |-> word[(WordOctets - 1 - n) * OctetBits + b]]

\* a plausible slip: the words leave in the order of their indices
DataFrameNewestFirst(d) ==
  [i \in 0 .. 3 * WordOctets - 1 |->
     NetOctet(d[i \div WordOctets], i % WordOctets)]

GetDataFrame(d) ==
  [i \in 0 .. 3 * WordOctets - 1 |->
     NetOctet(d[2 - (i \div WordOctets)], i % WordOctets)]
=============================================================================
