------------------------- MODULE DStarDecode_proofs -------------------------
(***************************************************************************)
(* CSyncRegister, CDStarDecode that owns one, and what a caller and a      *)
(* station have of both, for every size, period and patterns.              *)
(***************************************************************************)
EXTENDS SyncPatterns, DStarVoice, DStarFrames, Relock, SequenceTheorems, TLAPS

-----------------------------------------------------------------------------
(***************************************************************************)
(* CSyncRegister.  The three words are one shift register, and             *)
(* GetDataFrame returns its bits in the order they came.  For patterns     *)
(* that do not begin with what is left in the register: none is seen       *)
(* before it has come whole; and a frame of the encoder's is taken out of  *)
(* the register as it was.                                                 *)
(***************************************************************************)
\* A word stays a word when a bit is shifted in, and the bits move up by one.
LEMMA ShiftInWord ==
  ASSUME NEW word \in Word, NEW in \in Nat
  PROVE  /\ ShiftIn(word, in) \in Word
         /\ ShiftIn(word, in)[0] = in % 2
         /\ \A b \in 1 .. WordBits - 1 : ShiftIn(word, in)[b] = word[b - 1]
<1>1. WordBits \in Nat \ {0}
  BY SizeAssumption
<1>2. in % 2 \in Bit
  BY DEF Bit
<1> QED
  BY <1>1, <1>2 DEF ShiftIn, Word

\* The carry out of a word is a bit.
LEMMA TopBitIsBit ==
  ASSUME NEW word \in Word
  PROVE  TopBit(word) \in Bit
BY SizeAssumption DEF TopBit, Word, Bit

\* A bit that is shifted in goes in as it is.
LEMMA BitMod == ASSUME NEW bit \in Bit PROVE bit \in Nat /\ bit % 2 = bit
BY DEF Bit

\* A register stays one when a bit or a byte is pushed.
LEMMA PushedWords ==
  ASSUME NEW d \in Words, NEW in \in Nat
  PROVE  Pushed(d, in) \in Words
<1>1. \A j \in 0 .. 2 : d[j] \in Word
  BY DEF Words
<1>2. ASSUME NEW j \in 0 .. 2
      PROVE  ShiftIn(d[j], IF j = 0 THEN in ELSE TopBit(d[j - 1])) \in Word
  <2>1. CASE j = 0
    BY <1>1, <2>1, ShiftInWord
  <2>2. CASE j # 0
    <3>1. d[j - 1] \in Word
      BY <1>1, <2>2
    <3>2. TopBit(d[j - 1]) \in Nat
      BY <3>1, TopBitIsBit, BitMod
    <3> QED
      BY <1>1, <2>2, <3>2, ShiftInWord
  <2> QED
    BY <2>1, <2>2
<1> QED
  BY <1>2 DEF Pushed, Words

LEMMA RegisterOKInit == ASSUME RegisterInit PROVE RegisterOK
<1>1. Width \in Nat \ {0} /\ WordBits \in Nat \ {0}
  BY SizeAssumption DEF Width
<1> QED
  BY <1>1 DEF RegisterInit, RegisterOK, Zero, Words, Word, Bit

LEMMA RegisterOKStep == ASSUME RegisterOK, [RegisterNext]_regvars PROVE RegisterOK'
<1>0. Width \in Nat \ {0}
  BY SizeAssumption DEF Width
<1>1. CASE UNCHANGED regvars
  BY <1>1 DEF RegisterOK, regvars
<1>2. ASSUME NEW in \in Byte, Push(in) PROVE RegisterOK'
  <2>1. in \in Nat /\ in % 2 \in Bit
    BY DEF Byte, Bit
  <2>2. data' \in Words
    BY <1>2, <2>1, PushedWords DEF Push, RegisterOK
  <2>3. received' \in [1 .. Width -> Bit]
    BY <1>0, <1>2, <2>1 DEF Push, RegisterOK
  <2> QED
    BY <2>2, <2>3 DEF RegisterOK
<1> QED
  BY <1>1, <1>2 DEF RegisterNext

(***************************************************************************)
(* The words hold bits and so does the history.                            *)
(***************************************************************************)
THEOREM RegisterCorrect == RegisterSpec => []RegisterOK
  BY RegisterOKInit, RegisterOKStep, PTL DEF RegisterSpec

\* A bit pushed in goes through the words without a gap.
LEMMA RegisterStep ==
  ASSUME RegisterOK, WordsAreLastBits, [RegisterNext]_regvars PROVE WordsAreLastBits'
<1>0. Width \in Nat \ {0} /\ WordBits \in Nat \ {0} /\ Width = 3 * WordBits
  BY SizeAssumption DEF Width
<1>1. CASE UNCHANGED regvars
  BY <1>1 DEF WordsAreLastBits, regvars
<1>2. ASSUME NEW in \in Byte, Push(in) PROVE WordsAreLastBits'
  <2>1. in \in Nat
    BY DEF Byte
  <2>2. \A j \in 0 .. 2 : data[j] \in Word
    BY DEF RegisterOK, Words
  <2>3. TopBit(data[0]) \in Nat /\ TopBit(data[1]) \in Nat
    BY <2>2, TopBitIsBit, BitMod
  <2>4. /\ TopBit(data[0]) % 2 = received[Width - (WordBits - 1)]
        /\ TopBit(data[1]) % 2 = received[Width - (2 * WordBits - 1)]
    <3>1. /\ TopBit(data[0]) % 2 = data[0][WordBits - 1]
          /\ TopBit(data[1]) % 2 = data[1][WordBits - 1]
      BY <2>2, TopBitIsBit, BitMod DEF TopBit
    <3>2. WordBits + (WordBits - 1) = 2 * WordBits - 1
      BY <1>0
    <3> QED
      BY <1>0, <3>1, <3>2 DEF WordsAreLastBits
  <2>5. /\ data'[0] = ShiftIn(data[0], in)
        /\ data'[1] = ShiftIn(data[1], TopBit(data[0]))
        /\ data'[2] = ShiftIn(data[2], TopBit(data[1]))
    BY <1>2 DEF Push, Pushed
  <2>6. /\ received'[Width] = in % 2
        /\ \A p \in 1 .. Width - 1 : received'[p] = received[p + 1]
    BY <1>0, <1>2 DEF Push
  <2> SUFFICES ASSUME NEW b \in 0 .. WordBits - 1
               PROVE  /\ data'[0][b] = received'[Width - b]
                      /\ data'[1][b] = received'[Width - (WordBits + b)]
                      /\ data'[2][b] = received'[Width - (2 * WordBits + b)]
    BY DEF WordsAreLastBits
  <2>7. CASE b = 0
    <3>1. /\ data'[0][0] = in % 2
          /\ data'[1][0] = TopBit(data[0]) % 2
          /\ data'[2][0] = TopBit(data[1]) % 2
      <4>1. data[0] \in Word /\ data[1] \in Word /\ data[2] \in Word
        BY <2>2
      <4>2. /\ ShiftIn(data[0], in)[0] = in % 2
            /\ ShiftIn(data[1], TopBit(data[0]))[0] = TopBit(data[0]) % 2
            /\ ShiftIn(data[2], TopBit(data[1]))[0] = TopBit(data[1]) % 2
        BY <2>1, <2>3, <4>1, ShiftInWord
      <4> QED
        BY <2>5, <4>2
    <3>2. /\ received'[Width - WordBits] = received[Width - (WordBits - 1)]
          /\ received'[Width - 2 * WordBits] = received[Width - (2 * WordBits - 1)]
      <4>1. /\ Width - WordBits \in 1 .. Width - 1
            /\ Width - 2 * WordBits \in 1 .. Width - 1
            /\ (Width - WordBits) + 1 = Width - (WordBits - 1)
            /\ (Width - 2 * WordBits) + 1 = Width - (2 * WordBits - 1)
        BY <1>0
      <4> QED
        BY <2>6, <4>1
    <3> QED
      BY <1>0, <2>4, <2>6, <2>7, <3>1, <3>2
  <2>8. CASE b # 0
    <3>1. b \in 1 .. WordBits - 1 /\ b - 1 \in 0 .. WordBits - 1
      BY <1>0, <2>8
    <3>2. /\ data'[0][b] = data[0][b - 1]
          /\ data'[1][b] = data[1][b - 1]
          /\ data'[2][b] = data[2][b - 1]
      <4>1. data[0] \in Word /\ data[1] \in Word /\ data[2] \in Word
        BY <2>2
      <4>2. /\ ShiftIn(data[0], in)[b] = data[0][b - 1]
            /\ ShiftIn(data[1], TopBit(data[0]))[b] = data[1][b - 1]
            /\ ShiftIn(data[2], TopBit(data[1]))[b] = data[2][b - 1]
        BY <2>1, <2>3, <3>1, <4>1, ShiftInWord
      <4> QED
        BY <2>5, <4>2
    <3>3. /\ received'[Width - b] = received[Width - (b - 1)]
          /\ received'[Width - (WordBits + b)] = received[Width - (WordBits + (b - 1))]
          /\ received'[Width - (2 * WordBits + b)] = received[Width - (2 * WordBits + (b - 1))]
      <4>1. /\ Width - b \in 1 .. Width - 1
            /\ Width - (WordBits + b) \in 1 .. Width - 1
            /\ Width - (2 * WordBits + b) \in 1 .. Width - 1
            /\ (Width - b) + 1 = Width - (b - 1)
            /\ (Width - (WordBits + b)) + 1 = Width - (WordBits + (b - 1))
            /\ (Width - (2 * WordBits + b)) + 1 = Width - (2 * WordBits + (b - 1))
        BY <1>0, <3>1
      <4> QED
        BY <2>6, <4>1
    <3> QED
      BY <3>1, <3>2, <3>3 DEF WordsAreLastBits
  <2> QED
    BY <2>7, <2>8
<1> QED
  BY <1>1, <1>2 DEF RegisterNext

(***************************************************************************)
(* Bit b of data[j] is the one that came j * WordBits + b bits before the  *)
(* newest: the carries of Push lose none and repeat none.                  *)
(***************************************************************************)
THEOREM OneShiftRegister == RegisterSpec => []WordsAreLastBits
<1>1. RegisterInit => WordsAreLastBits
  <2>1. Width \in Nat \ {0} /\ WordBits \in Nat \ {0} /\ Width = 3 * WordBits
    BY SizeAssumption DEF Width
  <2> QED
    BY <2>1 DEF RegisterInit, WordsAreLastBits, Zero
<1>2. RegisterOK /\ WordsAreLastBits /\ [RegisterNext]_regvars => WordsAreLastBits'
  BY RegisterStep
<1> QED
  BY <1>1, <1>2, RegisterCorrect, PTL DEF RegisterSpec

\* The first bit of octet r of word q, counted in octets and counted in words.
LEMMA OctetsInWords ==
  ASSUME NEW q \in Nat, NEW r \in Nat, NEW w \in Nat, NEW o \in Nat
  PROVE  (q * w + r) * o = q * (o * w) + r * o
<1>1. (q * w + r) * o = (q * w) * o + r * o
  OBVIOUS
<1>2. (q * w) * o = q * (o * w)
  OBVIOUS
<1> QED
  BY <1>1, <1>2

\* Octet i of the frame is the i-th octet of the bits received.
LEMMA FrameOrder == ASSUME WordsAreLastBits PROVE FrameInArrivalOrder
<1>sizes. /\ Width \in Nat \ {0} /\ WordBits \in Nat \ {0} /\ Width = 3 * WordBits
       /\ OctetBits \in Nat \ {0} /\ WordOctets \in Nat \ {0}
       /\ WordBits = OctetBits * WordOctets
  BY SizeAssumption DEF Width, WordBits
<1> SUFFICES ASSUME NEW i \in 0 .. 3 * WordOctets - 1, NEW b \in 0 .. OctetBits - 1
             PROVE  GetDataFrame(data)[i][OctetBits - 1 - b] = received[i * OctetBits + b + 1]
  BY DEF FrameInArrivalOrder
<1> DEFINE word == i \div WordOctets
           octet == i % WordOctets
           place == (WordOctets - 1 - octet) * OctetBits + (OctetBits - 1 - b)
<1>1. /\ word \in 0 .. 2
      /\ octet \in 0 .. WordOctets - 1
      /\ i = word * WordOctets + octet
  BY <1>sizes
<1>2. GetDataFrame(data)[i][OctetBits - 1 - b] = data[2 - word][place]
  <2>1. OctetBits - 1 - b \in 0 .. OctetBits - 1
    BY <1>sizes
  <2> QED
    BY <1>sizes, <2>1 DEF GetDataFrame, NetOctet
<1>3. place = WordBits - octet * OctetBits - b - 1
  BY <1>sizes, <1>1
<1>4. place \in 0 .. WordBits - 1
  <2>1. 0 <= octet * OctetBits /\ octet * OctetBits \in Nat
    BY <1>sizes, <1>1
  <2>2. (WordOctets - 1 - octet) * OctetBits \in Nat
    BY <1>sizes, <1>1
  <2> QED
    BY <1>sizes, <1>1, <1>3, <2>1, <2>2
<1>5. i * OctetBits = word * WordBits + octet * OctetBits
  <2>1. word \in Nat /\ octet \in Nat /\ OctetBits \in Nat /\ WordOctets \in Nat
    BY <1>sizes, <1>1
  <2> HIDE DEF word, octet
  <2> QED
    BY <1>sizes, <1>1, <2>1, OctetsInWords
<1>6. octet * OctetBits \in Nat
  BY <1>sizes, <1>1
<1> DEFINE shift == octet * OctetBits
<1>10. /\ shift \in Nat
       /\ i * OctetBits = word * WordBits + shift
       /\ place = WordBits - shift - b - 1
  BY <1>3, <1>5, <1>6
<1> HIDE DEF word, octet, place, shift
<1>0. i * OctetBits \in Nat /\ b \in Nat /\ place \in Int
  BY <1>sizes, <1>4
<1>7. CASE word = 0
  <2>1. data[2][place] = received[Width - (2 * WordBits + place)]
    BY <1>4 DEF WordsAreLastBits
  <2>2. Width - (2 * WordBits + place) = i * OctetBits + b + 1
    BY <1>sizes, <1>0, <1>10, <1>7
  <2> QED
    BY <1>2, <1>7, <2>1, <2>2
<1>8. CASE word = 1
  <2>1. data[1][place] = received[Width - (WordBits + place)]
    BY <1>4 DEF WordsAreLastBits
  <2>2. Width - (WordBits + place) = i * OctetBits + b + 1
    BY <1>sizes, <1>0, <1>10, <1>8
  <2> QED
    BY <1>2, <1>8, <2>1, <2>2
<1>9. CASE word = 2
  <2>1. data[0][place] = received[Width - place]
    BY <1>4 DEF WordsAreLastBits
  <2>2. Width - place = i * OctetBits + b + 1
    BY <1>sizes, <1>0, <1>10, <1>9
  <2> QED
    BY <1>2, <1>9, <2>1, <2>2
<1> QED
  BY <1>1, <1>7, <1>8, <1>9

(***************************************************************************)
(* Octet i of the frame, most significant bit first, is the i-th octet of  *)
(* the bits received.                                                      *)
(***************************************************************************)
THEOREM FrameIsArrivalOrder == RegisterSpec => []FrameInArrivalOrder
  BY FrameOrder, OneShiftRegister, PTL

-----------------------------------------------------------------------------
(***************************************************************************)
(* What is left of the old bits: fresh bits have come since.               *)
(***************************************************************************)
LEMMA RegisterSizes ==
  /\ WordBits \in Nat \ {0} /\ Width = 3 * WordBits
  /\ DataSyncBits \in 1 .. WordBits /\ TermHighBits \in 0 .. WordBits
  BY SizeAssumption DEF Width

\* A place in the register, as a word and a bit of it.
LEMMA WordAndBit ==
  ASSUME NEW w \in Nat \ {0}, NEW b \in 0 .. w - 1
  PROVE  /\ b \div w = 0 /\ b % w = b
         /\ (w + b) \div w = 1 /\ (w + b) % w = b
         /\ (2 * w + b) \div w = 2 /\ (2 * w + b) % w = b
  OBVIOUS

LEMMA RegisterPlaces ==
  ASSUME NEW w \in Nat \ {0}, NEW q \in 0 .. 3 * w - 1
  PROVE  \E j \in 0 .. 2, b \in 0 .. w - 1 : q = j * w + b
<1>1. CASE q < w
  <2>1. q \in 0 .. w - 1 /\ q = 0 * w + q
    BY <1>1
  <2> QED
    BY <2>1
<1>2. CASE w <= q /\ q < 2 * w
  <2>1. q - w \in 0 .. w - 1 /\ q = 1 * w + (q - w)
    BY <1>2
  <2> QED
    BY <2>1
<1>3. CASE 2 * w <= q
  <2>1. q - 2 * w \in 0 .. w - 1 /\ q = 2 * w + (q - 2 * w)
    BY <1>3
  <2> QED
    BY <2>1
<1> QED
  BY <1>1, <1>2, <1>3

LEMMA WordAndBitOf ==
  ASSUME NEW w \in Nat \ {0}, NEW j \in 0 .. 2, NEW b \in 0 .. w - 1
  PROVE  (j * w + b) \div w = j /\ (j * w + b) % w = b
<1>1. CASE j = 0
  BY <1>1, WordAndBit
<1>2. CASE j = 1
  BY <1>2, WordAndBit
<1>3. CASE j = 2
  BY <1>3, WordAndBit
<1> QED
  BY <1>1, <1>2, <1>3

\* The bits of the patterns are bits.
LEMMA PatternsType ==
  /\ HeadArrival \in [1 .. Width -> Bit]
  /\ DataArrival \in [1 .. DataSyncBits -> Bit]
  /\ TermArrival \in [1 .. TermHighBits + WordBits -> Bit]
<1>1. ASSUME NEW p \in 1 .. Width
      PROVE  HeadSync[(Width - p) \div WordBits][(Width - p) % WordBits] \in Bit
  <2>1. Width - p \in 0 .. 3 * WordBits - 1
    BY RegisterSizes
  <2>2. PICK j \in 0 .. 2, b \in 0 .. WordBits - 1 : Width - p = j * WordBits + b
    BY <2>1, RegisterSizes, RegisterPlaces, Zenon
  <2>3. (Width - p) \div WordBits = j /\ (Width - p) % WordBits = b
    BY <2>2, RegisterSizes, WordAndBitOf, Zenon
  <2>4. HeadSync[j][b] \in Bit
    BY PatternAssumption DEF Words, Word
  <2> QED
    BY <2>3, <2>4, Zenon
<1>2. HeadArrival \in [1 .. Width -> Bit]
  BY <1>1 DEF HeadArrival
<1>3. DataArrival \in [1 .. DataSyncBits -> Bit]
  BY RegisterSizes, PatternAssumption DEF DataArrival
<1>4. TermArrival \in [1 .. TermHighBits + WordBits -> Bit]
  BY RegisterSizes, PatternAssumption DEF TermArrival, Word
<1> QED
  BY <1>2, <1>3, <1>4

LEMMA BeforeType ==
  ASSUME NEW kind PROVE Before(kind) \in [1 .. Width -> Bit]
  BY PatternsType DEF Before, Bit

\* A sync that the decoder sees is in the last bits received.
LEMMA SyncIsLastBits ==
  ASSUME WordsAreLastBits
  PROVE  /\ IsDataSync(data) =>
              \A p \in 1 .. DataSyncBits :
                DataArrival[p] = received[Width - DataSyncBits + p]
         /\ IsTermSync(data) =>
              \A p \in 1 .. TermHighBits + WordBits :
                TermArrival[p] = received[Width - (TermHighBits + WordBits) + p]
         /\ IsHeadSync(data) => \A p \in 1 .. Width : HeadArrival[p] = received[p]
<1>1. ASSUME IsDataSync(data), NEW p \in 1 .. DataSyncBits
      PROVE  DataArrival[p] = received[Width - DataSyncBits + p]
  <2> DEFINE b == DataSyncBits - p
  <2>1. /\ b \in 0 .. DataSyncBits - 1 /\ b \in 0 .. WordBits - 1
        /\ Width - b = Width - DataSyncBits + p
    BY RegisterSizes
  <2>2. data[0][b] = received[Width - b]
    BY <2>1, Zenon DEF WordsAreLastBits
  <2>3. data[0][b] = DataSync[b]
    BY <1>1, <2>1, Zenon DEF IsDataSync
  <2>4. DataArrival[p] = DataSync[b]
    BY DEF DataArrival
  <2> QED
    BY <2>1, <2>2, <2>3, <2>4, Zenon
<1>2. ASSUME IsTermSync(data), NEW p \in 1 .. TermHighBits + WordBits
      PROVE  TermArrival[p] = received[Width - (TermHighBits + WordBits) + p]
  <2>1. CASE p <= TermHighBits
    <3> DEFINE b == TermHighBits - p
    <3>1. /\ b \in 0 .. TermHighBits - 1 /\ b \in 0 .. WordBits - 1
          /\ Width - (WordBits + b) = Width - (TermHighBits + WordBits) + p
      BY <2>1, RegisterSizes
    <3>2. data[1][b] = received[Width - (WordBits + b)]
      BY <3>1, Zenon DEF WordsAreLastBits
    <3>3. data[1][b] = TermHigh[b]
      BY <1>2, <3>1, Zenon DEF IsTermSync
    <3>4. TermArrival[p] = TermHigh[b]
      BY <2>1 DEF TermArrival
    <3> QED
      BY <3>1, <3>2, <3>3, <3>4, Zenon
  <2>2. CASE ~(p <= TermHighBits)
    <3> DEFINE b == WordBits + TermHighBits - p
    <3>1. /\ b \in 0 .. WordBits - 1
          /\ Width - b = Width - (TermHighBits + WordBits) + p
      BY <2>2, RegisterSizes
    <3>2. data[0][b] = received[Width - b]
      BY <3>1, Zenon DEF WordsAreLastBits
    <3>3. data[0] = TermLow
      BY <1>2, Zenon DEF IsTermSync
    <3>4. TermArrival[p] = TermLow[b]
      BY <2>2 DEF TermArrival
    <3> QED
      BY <3>1, <3>2, <3>3, <3>4, Zenon
  <2> QED
    BY <2>1, <2>2
<1>3. ASSUME IsHeadSync(data), NEW p \in 1 .. Width
      PROVE  HeadArrival[p] = received[p]
  <2>1. Width - p \in 0 .. 3 * WordBits - 1
    BY RegisterSizes
  <2>2. PICK j \in 0 .. 2, b \in 0 .. WordBits - 1 : Width - p = j * WordBits + b
    BY <2>1, RegisterSizes, RegisterPlaces, Zenon
  <2>3. (Width - p) \div WordBits = j /\ (Width - p) % WordBits = b
    BY <2>2, RegisterSizes, WordAndBitOf, Zenon
  <2>4. HeadArrival[p] = HeadSync[j][b]
    <3>1. HeadArrival[p] = HeadSync[(Width - p) \div WordBits][(Width - p) % WordBits]
      BY DEF HeadArrival
    <3> QED
      BY <2>3, <3>1, Zenon
  <2>5. data[j][b] = received[Width - (j * WordBits + b)]
    <3>1. /\ data[0][b] = received[Width - b]
          /\ data[1][b] = received[Width - (WordBits + b)]
          /\ data[2][b] = received[Width - (2 * WordBits + b)]
      BY Zenon DEF WordsAreLastBits
    <3>2. /\ 0 * WordBits + b = b
          /\ 1 * WordBits + b = WordBits + b
      BY RegisterSizes
    <3>3. j = 0 \/ j = 1 \/ j = 2
      OBVIOUS
    <3> QED
      BY <3>1, <3>2, <3>3, Zenon
  <2>6. Width - (j * WordBits + b) = p
    BY <2>2, RegisterSizes
  <2> QED
    BY <1>3, <2>4, <2>5, <2>6, Zenon DEF IsHeadSync
<1> QED
  BY <1>1, <1>2, <1>3, Zenon

\* the old bits are still there but for as many as have come since
Kept(r, kind, f) == \A p \in 1 .. Width - f : r[p] = Before(kind)[p + f]

\* Seen before size bits have come, a pattern of that size would overlap.
LEMMA SeenEarly ==
  ASSUME NEW pattern, NEW size \in 1 .. Width, NEW kind, NEW f \in Nat, f < size,
         NEW r, Kept(r, kind, f),
         \A p \in 1 .. size : pattern[p] = r[Width - size + p]
  PROVE  Overlaps(pattern, size, kind, f)
<1>1. ASSUME NEW p \in 1 .. size - f
      PROVE  pattern[p] = Before(kind)[Width - (size - f) + p]
  <2>1. /\ p \in 1 .. size
        /\ Width - size + p \in 1 .. Width - f
        /\ (Width - size + p) + f = Width - (size - f) + p
    BY RegisterSizes
  <2> QED
    BY <2>1, Zenon DEF Kept
<1> QED
  BY <1>1, Zenon DEF Overlaps

\* So no sync is seen but whole.
LEMMA SeenWhole ==
  ASSUME WordsAreLastBits, stale \in {"head", "zero"}, fresh \in Nat,
         Kept(received, stale, fresh)
  PROVE  NoStaleSync
<1>1. /\ DataSyncBits \in 1 .. Width
      /\ TermHighBits + WordBits \in 1 .. Width
      /\ Width \in 1 .. Width
  BY RegisterSizes
<1>2. ASSUME fresh > 0, IsDataSync(data), fresh < DataSyncBits PROVE FALSE
  <2>1. Overlaps(DataArrival, DataSyncBits, stale, fresh)
    BY <1>1, <1>2, SyncIsLastBits, SeenEarly, Zenon
  <2>2. fresh \in 1 .. DataSyncBits - 1
    BY <1>1, <1>2
  <2> QED
    BY <2>1, <2>2, OverlapAssumption, Zenon
<1>3. ASSUME fresh > 0, IsTermSync(data), fresh < TermHighBits + WordBits PROVE FALSE
  <2>1. Overlaps(TermArrival, TermHighBits + WordBits, stale, fresh)
    BY <1>1, <1>3, SyncIsLastBits, SeenEarly, Zenon
  <2>2. fresh \in 1 .. TermHighBits + WordBits - 1
    BY <1>3, RegisterSizes
  <2> QED
    BY <2>1, <2>2, OverlapAssumption, Zenon
<1>4. ASSUME fresh > 0, IsHeadSync(data), fresh < Width - 1 PROVE FALSE
  <2>1. \A p \in 1 .. Width : HeadArrival[p] = received[Width - Width + p]
    <3>1. \A p \in 1 .. Width : Width - Width + p = p
      BY RegisterSizes
    <3> QED
      BY <1>4, <3>1, SyncIsLastBits, Zenon
  <2>2. fresh < Width /\ fresh \in 1 .. Width - 2
    BY <1>1, <1>4
  <2>3. Overlaps(HeadArrival, Width, stale, fresh)
    BY <1>1, <2>1, <2>2, SeenEarly, Zenon
  <2> QED
    BY <2>2, <2>3, OverlapAssumption, Zenon
<1> QED
  BY <1>1, <1>2, <1>3, <1>4, RegisterSizes DEF NoStaleSync

\* Strings of bits are what they are at each place.
LEMMA SameBits ==
  ASSUME NEW n, NEW f \in [1 .. n -> Bit], NEW g \in [1 .. n -> Bit],
         \A p \in 1 .. n : f[p] = g[p]
  PROVE  f = g
<1>1. f = [p \in 1 .. n |-> f[p]] /\ g = [p \in 1 .. n |-> g[p]]
  BY Zenon
<1>2. [p \in 1 .. n |-> f[p]] = [p \in 1 .. n |-> g[p]]
  BY Zenon
<1> QED
  BY <1>1, <1>2, Zenon

\* A function from 1 up to n is a sequence.
LEMMA IsSequence ==
  ASSUME NEW S, NEW n \in Nat, NEW f \in [1 .. n -> S]
  PROVE  f \in Seq(S) /\ Len(f) = n
<1>1. f \in Seq(S)
  BY SeqDef
<1>2. f \in [1 .. Len(f) -> S] /\ Len(f) \in Nat
  BY <1>1, LenProperties, Zenon
<1>3. DOMAIN f = 1 .. n /\ DOMAIN f = 1 .. Len(f)
  BY <1>2, Zenon
<1> QED
  BY <1>1, <1>2, <1>3

-----------------------------------------------------------------------------
(***************************************************************************)
(* The stream that is fed: F, of which the last todo bits are to come.     *)
(***************************************************************************)
Fed(F, rest, f, r) ==
  /\ rest \in Seq(Bit)
  /\ f \in Nat
  /\ Len(F) = f + Len(rest)
  /\ \A q \in 1 .. Len(rest) : rest[q] = F[f + q]
  /\ \A q \in 1 .. f : f - q < Width => r[Width - (f - q)] = F[q]

\* what the frame is made of
IsFrame(F, fr) ==
  fr # <<>> => \E ambe \in VocoderFrames, slow \in DOMAIN SlowOctets :
                 fr = <<ambe, slow>> /\ F \in Streams(GetData(ambe, SlowOctets[slow]))

FedInv ==
  /\ RegisterOK
  /\ WordsAreLastBits
  /\ stale \in {"head", "zero"}
  /\ Kept(received, stale, fresh)
  /\ \E F : Fed(F, todo, fresh, received) /\ IsFrame(F, encoded)

\* A bit that is fed.
LEMMA FeedStep == ASSUME FedInv, PNext PROVE FedInv'
<1> DEFINE in == Head(todo)
<1>1. PICK F : Fed(F, todo, fresh, received) /\ IsFrame(F, encoded)
  BY Zenon DEF FedInv
<1>2. /\ todo \in Seq(Bit)
      /\ fresh \in Nat
      /\ Len(F) = fresh + Len(todo)
      /\ \A q \in 1 .. Len(todo) : todo[q] = F[fresh + q]
      /\ \A q \in 1 .. fresh : fresh - q < Width => received[Width - (fresh - q)] = F[q]
  BY <1>1, Zenon DEF Fed
<1>3. /\ todo # <<>> /\ todo' = Tail(todo) /\ fresh' = fresh + 1
      /\ stale' = stale /\ encoded' = encoded
  BY Zenon DEF PNext
<1>4. PICK junk \in {0, 2} : Push(in + junk)
  BY Zenon DEF PNext
<1>5. /\ in \in Bit /\ in = todo[1]
      /\ todo' \in Seq(Bit)
      /\ Len(todo) \in Nat \ {0} /\ Len(todo') = Len(todo) - 1
      /\ \A q \in 1 .. Len(todo') : todo'[q] = todo[q + 1]
  BY <1>2, <1>3, HeadTailProperties, EmptySeq
<1> HIDE DEF in
<1>6. in + junk \in Byte /\ (in + junk) % 2 = in
  BY <1>4, <1>5 DEF Bit, Byte
<1>7. /\ received'[Width] = in
      /\ \A p \in 1 .. Width - 1 : received'[p] = received[p + 1]
  <2>1. received' = [p \in 1 .. Width |-> IF p = Width THEN (in + junk) % 2 ELSE received[p + 1]]
    BY <1>4, Zenon DEF Push
  <2> QED
    BY <1>6, <2>1, RegisterSizes
<1>8. RegisterOK' /\ WordsAreLastBits'
  <2>1. [RegisterNext]_regvars
    BY <1>4, <1>6, Zenon DEF RegisterNext
  <2> QED
    BY <2>1, RegisterOKStep, RegisterStep, Zenon DEF FedInv
<1>9. Kept(received', stale', fresh')
  <2>1. Kept(received, stale, fresh)
    BY Zenon DEF FedInv
  <2>2. ASSUME NEW p \in 1 .. Width - (fresh + 1)
        PROVE  received'[p] = Before(stale)[p + (fresh + 1)]
    <3>1. /\ p \in 1 .. Width - 1 /\ p + 1 \in 1 .. Width - fresh
          /\ (p + 1) + fresh = p + (fresh + 1)
      BY <1>2, RegisterSizes
    <3> QED
      BY <1>7, <2>1, <3>1, Zenon DEF Kept
  <2> QED
    BY <1>3, <2>2, Zenon DEF Kept
<1>10. ASSUME NEW q \in 1 .. Len(todo') PROVE todo'[q] = F[(fresh + 1) + q]
  <2>1. q + 1 \in 1 .. Len(todo) /\ fresh + (q + 1) = (fresh + 1) + q
    BY <1>2, <1>5
  <2> QED
    BY <1>2, <1>5, <2>1, Zenon
<1>11. ASSUME NEW q \in 1 .. fresh + 1, (fresh + 1) - q < Width
       PROVE  received'[Width - ((fresh + 1) - q)] = F[q]
  <2>1. CASE q = fresh + 1
    <3>1. Width - ((fresh + 1) - q) = Width /\ 1 \in 1 .. Len(todo)
      BY <1>2, <1>5, <2>1, RegisterSizes
    <3> QED
      BY <1>2, <1>5, <1>7, <2>1, <3>1, Zenon
  <2>2. CASE q # fresh + 1
    <3> DEFINE p == Width - ((fresh + 1) - q)
    <3>1. /\ q \in 1 .. fresh /\ fresh - q < Width
          /\ p \in 1 .. Width - 1 /\ p + 1 = Width - (fresh - q)
      BY <1>2, <1>11, <2>2, RegisterSizes
    <3> QED
      BY <1>2, <1>7, <3>1, Zenon
  <2> QED
    BY <2>1, <2>2
<1>12. Fed(F, todo', fresh', received')
  <2>1. fresh + 1 \in Nat /\ Len(F) = (fresh + 1) + Len(todo')
    BY <1>2, <1>5
  <2> QED
    BY <1>3, <1>5, <1>10, <1>11, <2>1, Zenon DEF Fed
<1>13. IsFrame(F, encoded')
  BY <1>1, <1>3, Zenon
<1> QED
  BY <1>3, <1>8, <1>9, <1>12, <1>13, Zenon DEF FedInv

-----------------------------------------------------------------------------
(***************************************************************************)
(* Octets and the streams of their bits.                                   *)
(***************************************************************************)
LEMMA DivMul ==
  ASSUME NEW o \in Nat \ {0}, NEW k \in Nat, NEW r \in 0 .. o - 1
  PROVE  (o * k + r) \div o = k /\ (o * k + r) % o = r
<1> DEFINE x == o * k + r
           d == x \div o
           m == x % o
<1>1. o * k \in Nat /\ x \in Nat
  OBVIOUS
<1>2. d \in Nat /\ m \in 0 .. o - 1 /\ x = o * d + m
  <2> HIDE DEF x
  <2> QED
    BY <1>1
<1>3. o * (k - d) = m - r
  <2>1. o * k + r = o * d + m
    BY <1>2
  <2>2. o * (k - d) = o * k - o * d
    BY <1>2
  <2>3. o * d \in Nat
    BY <1>2
  <2> HIDE DEF d, m
  <2> QED
    BY <1>1, <1>2, <2>1, <2>2, <2>3
<1> HIDE DEF d, m, x
<1>4. k - d >= 1 => o * (k - d) >= o
  BY <1>2
<1>5. k - d <= -1 => o * (k - d) <= -o
  BY <1>2
<1>6. k = d
  BY <1>2, <1>3, <1>4, <1>5
<1>7. m = r
  BY <1>2, <1>3, <1>6
<1> QED
  BY <1>6, <1>7 DEF d, m, x

\* The place of a bit in a stream, as an octet and a bit of it.
LEMMA BitPlace ==
  ASSUME NEW o \in Nat \ {0}, NEW L \in Nat, NEW p \in 1 .. o * L
  PROVE  \E k \in 0 .. L - 1, r \in 0 .. o - 1 : p - 1 = o * k + r
<1> DEFINE k == (p - 1) \div o
           r == (p - 1) % o
<1>1. o * L \in Nat
  OBVIOUS
<1>2. p - 1 \in Nat /\ p - 1 < o * L
  BY <1>1
<1>3. k \in Nat /\ r \in 0 .. o - 1 /\ p - 1 = o * k + r
  BY <1>2
<1> HIDE DEF k, r
<1>4. k >= L => o * k >= o * L
  BY <1>3
<1>5. o * k \in Nat
  BY <1>3
<1>6. k < L
  BY <1>1, <1>2, <1>3, <1>4, <1>5
<1> QED
  BY <1>3, <1>6

LEMMA PlaceOfBit ==
  ASSUME NEW o \in Nat \ {0}, NEW L \in Nat, NEW k \in 0 .. L - 1, NEW r \in 0 .. o - 1
  PROVE  o * k + r + 1 \in 1 .. o * L
<1>1. o * (k + 1) <= o * L /\ o * (k + 1) = o * k + o
  OBVIOUS
<1>2. o * k \in Nat /\ o * L \in Nat
  OBVIOUS
<1> QED
  BY <1>1, <1>2

\* Bit r of octet k of a stream.
LEMMA MostFirst ==
  ASSUME NEW octets \in Seq(Octet)
  PROVE  /\ MostSignificantFirst(octets) \in [1 .. OctetBits * Len(octets) -> Bit]
         /\ \A k \in 0 .. Len(octets) - 1, r \in 0 .. OctetBits - 1 :
              MostSignificantFirst(octets)[OctetBits * k + r + 1]
                = octets[k + 1][OctetBits - 1 - r]
<1> DEFINE bit(p) == octets[(p - 1) \div OctetBits + 1][OctetBits - 1 - ((p - 1) % OctetBits)]
<1>0. OctetBits \in Nat \ {0} /\ Len(octets) \in Nat
  BY SizeAssumption
<1>1. ASSUME NEW k \in 0 .. Len(octets) - 1, NEW r \in 0 .. OctetBits - 1
      PROVE  /\ OctetBits * k + r + 1 \in 1 .. OctetBits * Len(octets)
             /\ bit(OctetBits * k + r + 1) = octets[k + 1][OctetBits - 1 - r]
             /\ octets[k + 1][OctetBits - 1 - r] \in Bit
  <2>1. OctetBits * k + r + 1 \in 1 .. OctetBits * Len(octets)
    BY <1>0, PlaceOfBit, Zenon
  <2>2. k \in Nat /\ (OctetBits * k + r + 1) - 1 = OctetBits * k + r
    <3>1. k \in Nat /\ OctetBits * k \in Nat
      BY <1>0
    <3> QED
      BY <1>0, <3>1
  <2>3. ((OctetBits * k + r + 1) - 1) \div OctetBits = k /\ ((OctetBits * k + r + 1) - 1) % OctetBits = r
    BY <1>0, <2>2, DivMul, Zenon
  <2>4. octets[k + 1] \in Octet /\ OctetBits - 1 - r \in 0 .. OctetBits - 1
    BY <1>0
  <2> QED
    BY <2>1, <2>3, <2>4, Zenon DEF Octet
<1>2. ASSUME NEW p \in 1 .. OctetBits * Len(octets) PROVE bit(p) \in Bit
  <2>1. PICK k \in 0 .. Len(octets) - 1, r \in 0 .. OctetBits - 1 : p - 1 = OctetBits * k + r
    BY <1>0, BitPlace, Zenon
  <2>2. p = OctetBits * k + r + 1
    <3>1. OctetBits * k \in Int /\ OctetBits * Len(octets) \in Int
      BY <1>0
    <3> QED
      BY <1>0, <2>1, <3>1
  <2> QED
    BY <1>1, <2>2, Zenon
<1>3. MostSignificantFirst(octets) = [p \in 1 .. OctetBits * Len(octets) |-> bit(p)]
  BY Zenon DEF MostSignificantFirst
<1> HIDE DEF bit
<1>4. MostSignificantFirst(octets) \in [1 .. OctetBits * Len(octets) -> Bit]
  BY <1>2, <1>3, Zenon
<1>5. ASSUME NEW k \in 0 .. Len(octets) - 1, NEW r \in 0 .. OctetBits - 1
      PROVE  MostSignificantFirst(octets)[OctetBits * k + r + 1] = octets[k + 1][OctetBits - 1 - r]
  BY <1>1, <1>3, Zenon
<1> QED
  BY <1>4, <1>5

\* Turned over twice, an octet is what it was.
LEMMA ReverseTwice ==
  ASSUME NEW octet \in Octet
  PROVE  bitreverse(octet) \in Octet /\ bitreverse(bitreverse(octet)) = octet
<1>1. OctetBits \in Nat \ {0}
  BY SizeAssumption
<1>2. \A b \in 0 .. OctetBits - 1 :
        OctetBits - 1 - b \in 0 .. OctetBits - 1 /\ OctetBits - 1 - (OctetBits - 1 - b) = b
  BY <1>1
<1>3. bitreverse(octet) \in Octet
  BY <1>2, Zenon DEF bitreverse, Octet
<1>4. \A b \in 0 .. OctetBits - 1 : bitreverse(octet)[OctetBits - 1 - b] = octet[b]
  BY <1>2, Zenon DEF bitreverse
<1>5. bitreverse(bitreverse(octet)) = [b \in 0 .. OctetBits - 1 |-> octet[b]]
  BY <1>4, Zenon DEF bitreverse
<1> QED
  BY <1>3, <1>5, Zenon DEF Octet

\* Both who make a stream of octets make the same.
LEMMA OneStream ==
  ASSUME NEW octets \in Seq(Octet)
  PROVE  Streams(octets) = {MostSignificantFirst(octets)}
<1>0. OctetBits \in Nat \ {0} /\ Len(octets) \in Nat /\ DOMAIN octets = 1 .. Len(octets)
  BY SizeAssumption
<1>1. Len(BitReverse(octets)) = Len(octets)
  <2>1. BitReverse(octets) \in [1 .. Len(octets) -> Octet]
    BY <1>0, ReverseTwice DEF BitReverse
  <2> QED
    BY <1>0, <2>1, IsSequence
<1>2. ASSUME NEW p \in 1 .. OctetBits * Len(octets)
      PROVE  BitReverse(octets)[(p - 1) \div OctetBits + 1][(p - 1) % OctetBits]
               = octets[(p - 1) \div OctetBits + 1][OctetBits - 1 - ((p - 1) % OctetBits)]
  <2>1. PICK k \in 0 .. Len(octets) - 1, r \in 0 .. OctetBits - 1 : p - 1 = OctetBits * k + r
    BY <1>0, BitPlace, Zenon
  <2>2. k \in Nat
    BY <1>0
  <2>3. (p - 1) \div OctetBits = k /\ (p - 1) % OctetBits = r
    BY <1>0, <2>1, <2>2, DivMul, Zenon
  <2>4. BitReverse(octets)[k + 1][r] = octets[k + 1][OctetBits - 1 - r]
    BY <1>0 DEF BitReverse, bitreverse
  <2> QED
    BY <2>3, <2>4, Zenon
<1>3. LeastSignificantFirst(BitReverse(octets)) = MostSignificantFirst(octets)
  BY <1>1, <1>2, Zenon DEF LeastSignificantFirst, MostSignificantFirst
<1> QED
  BY <1>3 DEF Streams

-----------------------------------------------------------------------------
\* The octets of a frame.
LEMMA FrameOctets ==
  ASSUME NEW ambe \in VocoderFrames, NEW slow \in DOMAIN SlowOctets
  PROVE  LET octets == GetData(ambe, SlowOctets[slow])
         IN  /\ octets \in Seq(Octet)
             /\ Len(octets) = 3 * WordOctets
             /\ Len(ambe) \in Nat
             /\ Len(octets) = Len(ambe) + Len(SlowOctets[slow])
             /\ \A i \in 1 .. Len(ambe) : octets[i] = bitreverse(ambe[i]) /\ ambe[i] \in Octet
             /\ \A i \in 1 .. Len(SlowOctets[slow]) : octets[Len(ambe) + i] = SlowOctets[slow][i]
             /\ OctetBits * Len(octets) = Width
<1> DEFINE turned == [i \in DOMAIN ambe |-> bitreverse(ambe[i])]
           other == SlowOctets[slow]
<1>1. /\ ambe \in Seq(Octet) /\ other \in Seq(Octet)
      /\ Len(ambe) + Len(other) = 3 * WordOctets
  BY FrameAssumption, Zenon
<1>2. /\ Len(ambe) \in Nat /\ DOMAIN ambe = 1 .. Len(ambe)
      /\ Len(other) \in Nat
      /\ \A i \in 1 .. Len(ambe) : ambe[i] \in Octet
  BY <1>1, LenProperties, ElementOfSeq, Zenon
<1>3. turned \in [1 .. Len(ambe) -> Octet]
  BY <1>2, ReverseTwice
<1>4. turned \in Seq(Octet) /\ Len(turned) = Len(ambe)
  BY <1>2, <1>3, IsSequence, Zenon
<1>5. \A i \in 1 .. Len(ambe) : turned[i] = bitreverse(ambe[i])
  BY <1>2, Zenon
<1> HIDE DEF turned, other
<1>6. /\ turned \o other \in Seq(Octet)
      /\ Len(turned \o other) = Len(ambe) + Len(other)
      /\ \A i \in 1 .. Len(ambe) + Len(other) :
           (turned \o other)[i] = IF i <= Len(ambe) THEN turned[i] ELSE other[i - Len(ambe)]
  <2>1. /\ turned \o other \in Seq(Octet)
        /\ Len(turned \o other) = Len(turned) + Len(other)
        /\ \A i \in 1 .. Len(turned) + Len(other) :
             (turned \o other)[i] = IF i <= Len(turned) THEN turned[i] ELSE other[i - Len(turned)]
    BY <1>1, <1>4, ConcatProperties, Zenon
  <2> QED
    BY <1>4, <2>1, Zenon
<1>7. GetData(ambe, SlowOctets[slow]) = turned \o other
  BY Zenon DEF GetData, turned, other
<1>8. OctetBits * (3 * WordOctets) = Width
  BY SizeAssumption DEF Width, WordBits
<1>9. \A i \in 1 .. Len(ambe) : (turned \o other)[i] = bitreverse(ambe[i])
  BY <1>2, <1>5, <1>6
<1>10. \A i \in 1 .. Len(other) : (turned \o other)[Len(ambe) + i] = other[i]
  BY <1>2, <1>6
<1> QED
  BY <1>1, <1>2, <1>6, <1>7, <1>8, <1>9, <1>10, Zenon DEF other

\* All bits of a frame have come: GetDataFrame gives back its octets.
LEMMA FrameTaken ==
  ASSUME FrameInArrivalOrder, NEW octets \in Seq(Octet), Len(octets) = 3 * WordOctets,
         \A q \in 1 .. Width : received[q] = MostSignificantFirst(octets)[q]
  PROVE  \A i \in 0 .. 3 * WordOctets - 1 : GetDataFrame(data)[i] = octets[i + 1]
<1>0. /\ OctetBits \in Nat \ {0} /\ WordOctets \in Nat \ {0}
      /\ OctetBits * (3 * WordOctets) = Width
  BY SizeAssumption DEF Width, WordBits
<1> SUFFICES ASSUME NEW i \in 0 .. 3 * WordOctets - 1
             PROVE  GetDataFrame(data)[i] = octets[i + 1]
  OBVIOUS
<1>1. ASSUME NEW b \in 0 .. OctetBits - 1
      PROVE  GetDataFrame(data)[i][OctetBits - 1 - b] = octets[i + 1][OctetBits - 1 - b]
  <2>1. /\ i \in 0 .. Len(octets) - 1 /\ 3 * WordOctets \in Nat
        /\ i * OctetBits + b + 1 = OctetBits * i + b + 1
    BY <1>0
  <2>2. OctetBits * i + b + 1 \in 1 .. Width
    BY <1>0, <2>1, PlaceOfBit, Zenon
  <2>3. MostSignificantFirst(octets)[OctetBits * i + b + 1] = octets[i + 1][OctetBits - 1 - b]
    BY <2>1, MostFirst, Zenon
  <2>4. GetDataFrame(data)[i][OctetBits - 1 - b] = received[i * OctetBits + b + 1]
    BY Zenon DEF FrameInArrivalOrder
  <2> QED
    BY <2>1, <2>2, <2>3, <2>4, Zenon
<1>2. ASSUME NEW c \in 0 .. OctetBits - 1
      PROVE  GetDataFrame(data)[i][c] = octets[i + 1][c]
  <2>1. OctetBits - 1 - c \in 0 .. OctetBits - 1 /\ OctetBits - 1 - (OctetBits - 1 - c) = c
    BY <1>0
  <2> QED
    BY <1>1, <2>1, Zenon
<1>3. \E g : GetDataFrame(data)[i] = [c \in 0 .. OctetBits - 1 |-> g[c]]
  <2> DEFINE word == data[2 - (i \div WordOctets)]
             n == i % WordOctets
             g == [c \in 0 .. OctetBits - 1 |-> word[(WordOctets - 1 - n) * OctetBits + c]]
  <2>1. GetDataFrame(data)[i] = g
    BY Zenon DEF GetDataFrame, NetOctet
  <2>2. g = [c \in 0 .. OctetBits - 1 |-> g[c]]
    BY Zenon
  <2> HIDE DEF g
  <2> QED
    BY <2>1, <2>2, Zenon
<1>4. octets[i + 1] \in Octet
  BY <1>0
<1>5. octets[i + 1] = [c \in 0 .. OctetBits - 1 |-> octets[i + 1][c]]
  BY <1>4, Zenon DEF Octet
<1>6. GetDataFrame(data)[i] = [c \in 0 .. OctetBits - 1 |-> GetDataFrame(data)[i][c]]
  BY <1>3, Zenon
<1> QED
  BY <1>2, <1>5, <1>6, Zenon

\* IsDataSync looks at the last bits received, and at nothing else.
LEMMA DataSyncIff ==
  ASSUME WordsAreLastBits
  PROVE  IsDataSync(data) <=>
           \A p \in 1 .. DataSyncBits : received[Width - DataSyncBits + p] = DataArrival[p]
<1> SUFFICES ASSUME \A p \in 1 .. DataSyncBits :
                      received[Width - DataSyncBits + p] = DataArrival[p],
                    NEW b \in 0 .. DataSyncBits - 1
             PROVE  data[0][b] = DataSync[b]
  BY SyncIsLastBits, Zenon DEF IsDataSync
<1>1. /\ DataSyncBits - b \in 1 .. DataSyncBits /\ b \in 0 .. WordBits - 1
      /\ Width - DataSyncBits + (DataSyncBits - b) = Width - b
      /\ DataSyncBits - (DataSyncBits - b) = b
  BY RegisterSizes
<1>2. data[0][b] = received[Width - b]
  BY <1>1, Zenon DEF WordsAreLastBits
<1>3. DataArrival[DataSyncBits - b] = DataSync[b]
  BY <1>1, Zenon DEF DataArrival
<1> QED
  BY <1>1, <1>2, <1>3, Zenon

\* The last bits of a frame are those of its slow data.
LEMMA SlowIsLast ==
  ASSUME NEW ambe \in VocoderFrames, NEW slow \in DOMAIN SlowOctets,
         NEW p \in 1 .. DataSyncBits
  PROVE  MostSignificantFirst(GetData(ambe, SlowOctets[slow]))[Width - DataSyncBits + p]
           = MostSignificantFirst(SlowOctets[slow])[p]
<1> DEFINE octets == GetData(ambe, SlowOctets[slow])
           other == SlowOctets[slow]
           m == Len(ambe)
           L == Len(other)
<1>1. /\ octets \in Seq(Octet) /\ Len(octets) = 3 * WordOctets
      /\ m \in Nat /\ Len(octets) = m + L
      /\ \A i \in 1 .. L : octets[m + i] = other[i]
      /\ OctetBits * Len(octets) = Width
  BY FrameOctets, Zenon
<1>2. /\ other \in Seq(Octet) /\ OctetBits * L = DataSyncBits
  BY FrameAssumption, Zenon
<1>3. OctetBits \in Nat \ {0} /\ L \in Nat
  <2>1. L \in Nat
    BY <1>2, LenProperties, Zenon
  <2> QED
    BY <2>1, SizeAssumption
<1> HIDE DEF octets, other, m, L
<1>4. PICK k \in 0 .. L - 1, r \in 0 .. OctetBits - 1 : p - 1 = OctetBits * k + r
  BY <1>2, <1>3, BitPlace, Zenon
<1>5. p = OctetBits * k + r + 1
  <2>1. OctetBits * k \in Int
    BY <1>3
  <2> QED
    BY <1>3, <1>4, <2>1, RegisterSizes
<1>6. Width - DataSyncBits + p = OctetBits * (m + k) + r + 1
  <2>1. /\ OctetBits * (m + L) = OctetBits * m + OctetBits * L
        /\ OctetBits * (m + k) = OctetBits * m + OctetBits * k
        /\ OctetBits * m \in Nat /\ OctetBits * k \in Nat
    BY <1>1, <1>3
  <2>2. Width = OctetBits * m + DataSyncBits
    BY <1>1, <1>2, <2>1, Zenon
  <2> QED
    BY <1>3, <1>5, <2>1, <2>2, RegisterSizes
<1>7. /\ m + k \in 0 .. Len(octets) - 1 /\ (m + k) + 1 = m + (k + 1)
      /\ k + 1 \in 1 .. L
  BY <1>1, <1>3
<1>8. MostSignificantFirst(octets)[OctetBits * (m + k) + r + 1] = octets[(m + k) + 1][OctetBits - 1 - r]
  BY <1>1, <1>7, MostFirst, Zenon
<1>9. MostSignificantFirst(other)[OctetBits * k + r + 1] = other[k + 1][OctetBits - 1 - r]
  <2>1. k \in 0 .. Len(other) - 1
    BY Zenon DEF L
  <2> QED
    BY <1>2, <2>1, MostFirst, Zenon
<1>10. octets[(m + k) + 1] = other[k + 1]
  <2>1. \A i \in 1 .. L : octets[m + i] = other[i]
    BY <1>1, Zenon
  <2>2. octets[m + (k + 1)] = other[k + 1]
    BY <1>7, <2>1, Zenon
  <2> QED
    BY <1>7, <2>2, Zenon
<1> QED
  BY <1>5, <1>6, <1>8, <1>9, <1>10, Zenon DEF octets, other

\* So the whole frame is taken out of the register as it was.
LEMMA FrameWhole == ASSUME FedInv PROVE SameFrameDecoded
<1> SUFFICES ASSUME encoded # <<>>, todo = <<>>
             PROVE  /\ SendData(GetDataFrame(data), Len(encoded[1])) = encoded[1]
                    /\ IsDataSync(data) <=> encoded[2] = "sync"
  BY Zenon DEF SameFrameDecoded
<1>1. PICK F : Fed(F, todo, fresh, received) /\ IsFrame(F, encoded)
  BY Zenon DEF FedInv
<1>2. PICK ambe \in VocoderFrames, slow \in DOMAIN SlowOctets :
        encoded = <<ambe, slow>> /\ F \in Streams(GetData(ambe, SlowOctets[slow]))
  BY <1>1, Zenon DEF IsFrame
<1> DEFINE octets == GetData(ambe, SlowOctets[slow])
<1>3. encoded[1] = ambe /\ encoded[2] = slow
  BY <1>2
<1>4. /\ octets \in Seq(Octet) /\ Len(octets) = 3 * WordOctets
      /\ Len(ambe) \in Nat
      /\ Len(octets) = Len(ambe) + Len(SlowOctets[slow])
      /\ \A i \in 1 .. Len(ambe) : octets[i] = bitreverse(ambe[i]) /\ ambe[i] \in Octet
      /\ OctetBits * Len(octets) = Width
  BY FrameOctets, Zenon
<1>5. /\ ambe \in Seq(Octet) /\ SlowOctets[slow] \in Seq(Octet)
      /\ OctetBits * Len(SlowOctets[slow]) = DataSyncBits
      /\ MostSignificantFirst(SlowOctets[slow]) = DataArrival <=> slow = "sync"
  BY FrameAssumption, Zenon
<1> HIDE DEF octets
<1>6. F = MostSignificantFirst(octets)
  BY <1>2, <1>4, OneStream, Zenon DEF octets
<1>7. F \in [1 .. Width -> Bit] /\ Len(F) = Width
  <2>1. F \in [1 .. Width -> Bit]
    BY <1>4, <1>6, MostFirst, Zenon
  <2>2. Width \in Nat
    BY RegisterSizes
  <2> QED
    BY <2>1, <2>2, IsSequence, Zenon
<1>8. ASSUME NEW q \in 1 .. Width PROVE received[q] = F[q]
  <2>1. /\ fresh \in Nat /\ Len(F) = fresh + Len(todo)
        /\ \A x \in 1 .. fresh : fresh - x < Width => received[Width - (fresh - x)] = F[x]
    BY <1>1, Zenon DEF Fed
  <2>2. Len(todo) = 0
    BY EmptySeq
  <2>3. fresh = Width /\ q \in 1 .. fresh /\ fresh - q < Width /\ Width - (fresh - q) = q
    BY <1>7, <2>1, <2>2, RegisterSizes
  <2> QED
    BY <2>1, <2>3, Zenon
<1>9. WordsAreLastBits /\ FrameInArrivalOrder
  BY FrameOrder, Zenon DEF FedInv
<1>10. \A i \in 0 .. 3 * WordOctets - 1 : GetDataFrame(data)[i] = octets[i + 1]
  BY <1>4, <1>6, <1>8, <1>9, FrameTaken, Zenon
<1>11. SendData(GetDataFrame(data), Len(ambe)) = ambe
  <2>1. ASSUME NEW i \in 1 .. Len(ambe)
        PROVE  bitreverse(GetDataFrame(data)[i - 1]) = ambe[i]
    <3>1. i - 1 \in 0 .. 3 * WordOctets - 1 /\ (i - 1) + 1 = i
      <4>1. Len(SlowOctets[slow]) \in Nat
        BY <1>5, LenProperties, Zenon
      <4> QED
        BY <1>4, <4>1, SizeAssumption
    <3>2. GetDataFrame(data)[i - 1] = bitreverse(ambe[i]) /\ ambe[i] \in Octet
      BY <1>4, <1>10, <3>1, Zenon
    <3> QED
      BY <3>2, ReverseTwice, Zenon
  <2>2. ambe = [i \in 1 .. Len(ambe) |-> ambe[i]]
    BY <1>5, LenProperties, Zenon
  <2> QED
    BY <2>1, <2>2, Zenon DEF SendData
<1>12. IsDataSync(data) <=> slow = "sync"
  <2>1. \A p \in 1 .. DataSyncBits : Width - DataSyncBits + p \in 1 .. Width
    BY RegisterSizes
  <2>2. \A p \in 1 .. DataSyncBits :
          received[Width - DataSyncBits + p] = MostSignificantFirst(SlowOctets[slow])[p]
    BY <1>6, <1>8, <2>1, SlowIsLast, Zenon DEF octets
  <2>3. /\ MostSignificantFirst(SlowOctets[slow]) \in [1 .. DataSyncBits -> Bit]
        /\ DataArrival \in [1 .. DataSyncBits -> Bit]
    BY <1>5, MostFirst, PatternsType, Zenon
  <2>4. (\A p \in 1 .. DataSyncBits :
           MostSignificantFirst(SlowOctets[slow])[p] = DataArrival[p])
          <=> MostSignificantFirst(SlowOctets[slow]) = DataArrival
    <3> DEFINE bits == MostSignificantFirst(SlowOctets[slow])
    <3> HIDE DEF bits
    <3>1. bits \in [1 .. DataSyncBits -> Bit]
      BY <2>3, Zenon DEF bits
    <3>2. ASSUME \A p \in 1 .. DataSyncBits : bits[p] = DataArrival[p]
          PROVE  bits = DataArrival
      <4>1. DataArrival \in [1 .. DataSyncBits -> Bit]
        BY <2>3
      <4> QED
        BY <3>1, <3>2, <4>1, SameBits, Zenon
    <3>3. bits = DataArrival => \A p \in 1 .. DataSyncBits : bits[p] = DataArrival[p]
      BY Zenon
    <3>4. (\A p \in 1 .. DataSyncBits : bits[p] = DataArrival[p]) <=> bits = DataArrival
      BY <3>2, <3>3, Zenon
    <3> QED
      BY <3>4 DEF bits
  <2> QED
    BY <1>5, <1>9, <2>2, <2>4, DataSyncIff, Zenon
<1> QED
  BY <1>3, <1>11, <1>12, Zenon

-----------------------------------------------------------------------------
\* the streams are sequences of bits
LEMMA StreamsType ==
  ASSUME PInit
  PROVE  /\ todo \in Seq(Bit)
         /\ encoded # <<>> => \E ambe \in VocoderFrames, slow \in DOMAIN SlowOctets :
                              /\ encoded = <<ambe, slow>>
                              /\ todo \in Streams(GetData(ambe, SlowOctets[slow]))
<1>1. ASSUME NEW pattern, NEW size \in Nat, pattern \in [1 .. size -> Bit],
             todo \in Suffixes(pattern)
      PROVE  todo \in Seq(Bit)
  <2>1. Len(pattern) = size
    BY <1>1, IsSequence, Zenon
  <2>2. PICK k \in 1 .. Len(pattern) : todo = SubSeq(pattern, k, Len(pattern))
    BY <1>1, Zenon DEF Suffixes
  <2>3. k \in Int /\ Len(pattern) \in Int /\ \A i \in k .. Len(pattern) : pattern[i] \in Bit
    BY <1>1, <2>1
  <2> QED
    BY <2>2, <2>3, SubSeqProperties, Zenon
<1>2. CASE encoded = <<>>
  <2>1. todo \in Suffixes(HeadArrival) \cup Suffixes(DataArrival) \cup Suffixes(TermArrival)
    BY <1>2 DEF PInit
  <2>2. Width \in Nat /\ DataSyncBits \in Nat /\ TermHighBits + WordBits \in Nat
    BY RegisterSizes
  <2>3. todo \in Suffixes(HeadArrival) \/ todo \in Suffixes(DataArrival) \/ todo \in Suffixes(TermArrival)
    BY <2>1, Zenon
  <2> QED
    BY <1>1, <1>2, <2>2, <2>3, PatternsType, Zenon
<1>3. CASE encoded # <<>>
  <2>1. PICK ambe \in VocoderFrames, slow \in DOMAIN SlowOctets :
          encoded = <<ambe, slow>> /\ todo \in Streams(GetData(ambe, SlowOctets[slow]))
    BY <1>3, Zenon DEF PInit
  <2> DEFINE octets == GetData(ambe, SlowOctets[slow])
  <2>2. octets \in Seq(Octet) /\ OctetBits * Len(octets) = Width
    BY FrameOctets, Zenon
  <2> HIDE DEF octets
  <2>3. todo = MostSignificantFirst(octets)
    BY <2>1, <2>2, OneStream, Zenon DEF octets
  <2>4. todo \in [1 .. Width -> Bit] /\ Width \in Nat
    BY <2>2, <2>3, RegisterSizes, MostFirst
  <2> QED
    BY <2>1, <2>4, IsSequence, Zenon
<1> QED
  BY <1>2, <1>3

LEMMA FedInit == ASSUME PInit PROVE FedInv
<1>1. /\ stale \in {"head", "zero"} /\ fresh = 0 /\ received = Before(stale)
      /\ data = IF stale = "head" THEN HeadSync ELSE Zero
  BY Zenon DEF PInit
<1>2. RegisterOK
  <2>1. data \in Words
    BY <1>1, RegisterSizes, PatternAssumption DEF Zero, Words, Word, Bit
  <2> QED
    BY <1>1, <2>1, BeforeType, Zenon DEF RegisterOK
<1>3. Kept(received, stale, fresh)
  <2>1. \A p \in 1 .. Width - 0 : p + 0 = p
    BY RegisterSizes
  <2> QED
    BY <1>1, <2>1, Zenon DEF Kept
<1>4. WordsAreLastBits
  <2>1. ASSUME NEW j \in 0 .. 2, NEW b \in 0 .. WordBits - 1
        PROVE  data[j][b] = received[Width - (j * WordBits + b)]
    <3> DEFINE p == Width - (j * WordBits + b)
    <3>1. p \in 1 .. Width /\ Width - p = j * WordBits + b
      <4>1. j = 0 \/ j = 1 \/ j = 2
        OBVIOUS
      <4> QED
        BY <4>1, RegisterSizes
    <3>2. CASE stale = "head"
      <4>1. received[p] = HeadSync[(Width - p) \div WordBits][(Width - p) % WordBits]
        BY <1>1, <3>1, <3>2, Zenon DEF Before, HeadArrival
      <4>2. (Width - p) \div WordBits = j /\ (Width - p) % WordBits = b
        BY <3>1, RegisterSizes, WordAndBitOf, Zenon
      <4> QED
        BY <1>1, <3>2, <4>1, <4>2, Zenon
    <3>3. CASE stale # "head"
      <4>1. received[p] = 0
        BY <1>1, <3>1, <3>3, Zenon DEF Before
      <4>2. data[j][b] = 0
        BY <1>1, <3>3 DEF Zero
      <4> QED
        BY <4>1, <4>2, Zenon
    <3> QED
      BY <3>2, <3>3
  <2>2. /\ 0 \in 0 .. 2 /\ 1 \in 0 .. 2 /\ 2 \in 0 .. 2
        /\ \A b \in 0 .. WordBits - 1 :
             0 * WordBits + b = b /\ 1 * WordBits + b = WordBits + b
    BY RegisterSizes
  <2>3. ASSUME NEW b \in 0 .. WordBits - 1
        PROVE  /\ data[0][b] = received[Width - b]
               /\ data[1][b] = received[Width - (WordBits + b)]
               /\ data[2][b] = received[Width - (2 * WordBits + b)]
    <3>1. /\ data[0][b] = received[Width - (0 * WordBits + b)]
          /\ data[1][b] = received[Width - (1 * WordBits + b)]
          /\ data[2][b] = received[Width - (2 * WordBits + b)]
      BY <2>1, <2>2, Zenon
    <3> QED
      BY <2>2, <3>1, Zenon
  <2> QED
    BY <2>3, Zenon DEF WordsAreLastBits
<1>5. Fed(todo, todo, fresh, received)
  <2>1. todo \in Seq(Bit) /\ Len(todo) \in Nat
    BY StreamsType, LenProperties, Zenon
  <2>2. /\ Len(todo) = 0 + Len(todo)
        /\ \A q \in 1 .. Len(todo) : 0 + q = q
        /\ 1 .. 0 = {}
    BY <2>1
  <2>3. \A q \in 1 .. Len(todo) : todo[q] = todo[0 + q]
    BY <2>2, Zenon
  <2>4. \A q \in 1 .. 0 : 0 - q < Width => received[Width - (0 - q)] = todo[q]
    BY <2>2, Zenon
  <2> QED
    BY <1>1, <2>1, <2>2, <2>3, <2>4 DEF Fed
<1>6. IsFrame(todo, encoded)
  BY StreamsType, Zenon DEF IsFrame
<1> QED
  BY <1>1, <1>2, <1>3, <1>4, <1>5, <1>6, Zenon DEF FedInv

LEMMA FedAlways == PSpec => []FedInv
<1>1. FedInv /\ UNCHANGED pvars => FedInv'
  BY Zenon DEF FedInv, pvars, RegisterOK, WordsAreLastBits
<1>2. FedInv /\ [PNext]_pvars => FedInv'
  BY <1>1, FeedStep, Zenon
<1> QED
  BY <1>2, FedInit, PTL DEF PSpec

(***************************************************************************)
(* No data sync and no terminal sync is seen that is made partly of what   *)
(* the register held before, and of a header sync no more than one bit is. *)
(***************************************************************************)
THEOREM NoStaleSyncHolds == PSpec => []NoStaleSync
<1>1. FedInv => NoStaleSync
  <2>1. FedInv => fresh \in Nat
    BY Zenon DEF FedInv, Fed
  <2> QED
    BY <2>1, SeenWhole, Zenon DEF FedInv
<1> QED
  BY <1>1, FedAlways, PTL

(***************************************************************************)
(* Whatever the vocoder says, and whatever the register held before, the   *)
(* decoder's vocoder gets what the encoder's gave, through both the        *)
(* reversals of bits and the words of the register; and the frame has a    *)
(* data sync just when GetData put one there.                              *)
(***************************************************************************)
THEOREM SameFrameDecodedHolds == PSpec => []SameFrameDecoded
  BY FedAlways, FrameWhole, PTL

-----------------------------------------------------------------------------
(***************************************************************************)
(* CDStarDecode.  The types of the decoder's state, the inductive          *)
(* invariant that its other theorems rest on, and that the decoder         *)
(* implements VoiceStream; then DStarFrames, what a caller of the decoder  *)
(* gets, and Relock, a station that is heard after anything else.  What    *)
(* Relock assumes of a station is cited only by the theorems about it.     *)
(***************************************************************************)

(***************************************************************************)
(* index is within the header or the frame at hand, and 0 while there is   *)
(* none.                                                                   *)
(***************************************************************************)
IndexOK ==
  running =>
    /\ readmode = "nullmode" => index = 0
    /\ readmode = "headmode" => index \in 0 .. HeaderBits - 1
    /\ readmode = "datamode" => index \in 0 .. FrameBits - 1

(***************************************************************************)
(* While there is audio to hand over, the frame at hand began in this      *)
(* call: the call will end before the frame does.                          *)
(***************************************************************************)
AudioOK ==
  running /\ audio_ready /\ readmode = "datamode" => index < inp

IInv == TypeOK /\ IndexOK /\ AudioOK

-----------------------------------------------------------------------------
\* The constants the decoder counts with are positive numbers.
LEMMA Counters ==
  /\ FrameBits \in Nat \ {0}
  /\ HeaderBits \in Nat \ {0}
  /\ SyncPeriod \in Nat \ {0, 1}
BY SizeAssumption, DecodeAssumption DEF FrameBits, Width

\* The number of the next frame is one.
LEMMA NextFrameInRange ==
  ASSUME voiceframecount \in 0 .. SyncPeriod - 1
  PROVE  NextFrame \in 0 .. SyncPeriod - 1
BY Counters DEF NextFrame

\* What a turn of the loop that reaches the test for the terminal sync leaves.
LEMMA FinishEffect ==
  ASSUME NEW mode, NEW idx, NEW count, NEW told, Finish(mode, idx, count, told)
  PROVE  /\ inp' = inp + 1
         /\ running' = running
         /\ first_time' = first_time
         /\ \/ /\ readmode' = mode
               /\ index' = idx
               /\ voiceframecount' = count
               /\ calls' = told
            \/ /\ readmode' = "nullmode"
               /\ index' = 0
               /\ voiceframecount' = 0
               /\ calls' = told \o <<"termsync", "Reset">>
BY DEF Finish, Continue

\* A turn that goes on takes a bit of the call; its types follow from what
\* it is told to leave.
LEMMA FinishType ==
  ASSUME TypeOK, InCall,
         NEW mode \in {"nullmode", "headmode", "datamode"},
         NEW idx \in 0 .. FrameBits \cup 0 .. HeaderBits - 1,
         NEW count \in 0 .. SyncPeriod - 1,
         NEW told \in Seq(Told),
         sr' \in Words, audio_ready' \in BOOLEAN,
         Finish(mode, idx, count, told) \/ Continue(mode, idx, count, told)
  PROVE  TypeOK'
<1>1. told \o <<"termsync", "Reset">> \in Seq(Told)
  <2>1. "termsync" \in Told /\ "Reset" \in Told
    BY DEF Told
  <2>2. <<"termsync", "Reset">> \in Seq(Told)
    BY <2>1
  <2> QED
    BY <2>2, ConcatProperties
<1>2. inp' \in 0 .. FrameBits
  <2>1. inp' = inp + 1
    BY Zenon DEF Finish, Continue
  <2>2. inp \in 0 .. FrameBits /\ inp < FrameBits
    BY Zenon DEF InCall, TypeOK
  <2> QED
    BY <2>1, <2>2, Counters
<1>3. running' \in BOOLEAN /\ first_time' \in BOOLEAN
  BY Zenon DEF Finish, Continue, TypeOK
<1>4. \/ /\ readmode' = mode
         /\ index' = idx
         /\ voiceframecount' = count
         /\ calls' = told
      \/ /\ readmode' = "nullmode"
         /\ index' = 0
         /\ voiceframecount' = 0
         /\ calls' = told \o <<"termsync", "Reset">>
  BY Zenon DEF Finish, Continue
<1>5. 0 \in 0 .. FrameBits /\ 0 \in 0 .. SyncPeriod - 1
  BY Counters
<1>6. /\ readmode' \in {"nullmode", "headmode", "datamode"}
      /\ index' \in 0 .. FrameBits \cup 0 .. HeaderBits - 1
      /\ voiceframecount' \in 0 .. SyncPeriod - 1
      /\ calls' \in Seq(Told)
  BY <1>1, <1>4, <1>5
<1> QED
  BY <1>2, <1>3, <1>6, Zenon DEF TypeOK

\* The same of a turn that ends the block.
LEMMA FailType ==
  ASSUME TypeOK,
         NEW mode \in {"nullmode", "headmode", "datamode"},
         NEW idx \in 0 .. FrameBits \cup 0 .. HeaderBits - 1,
         NEW count \in 0 .. SyncPeriod - 1,
         NEW told \in Seq(Told),
         sr' \in Words, audio_ready' \in BOOLEAN,
         Fail(mode, idx, count, told)
  PROVE  TypeOK' /\ ~running'
<1>1. inp' \in 0 .. FrameBits
  BY Counters DEF Fail
<1> QED
  BY <1>1, Zenon DEF Fail, TypeOK

\* The invariant survives a turn that goes on with an index that suits its mode.
LEMMA GoOnInv ==
  ASSUME IInv, InCall,
         NEW mode \in {"nullmode", "headmode", "datamode"},
         NEW idx \in 0 .. FrameBits \cup 0 .. HeaderBits - 1,
         NEW count \in 0 .. SyncPeriod - 1,
         NEW told \in Seq(Told),
         mode = "nullmode" => idx = 0,
         mode = "headmode" => idx \in 0 .. HeaderBits - 1,
         mode = "datamode" => idx \in 0 .. FrameBits - 1,
         mode = "datamode" /\ audio_ready' => idx < inp + 1,
         sr' \in Words, audio_ready' \in BOOLEAN,
         Finish(mode, idx, count, told) \/ Continue(mode, idx, count, told)
  PROVE  IInv'
<1>1. TypeOK'
  BY FinishType, Zenon DEF IInv
<1>2. /\ inp' = inp + 1
      /\ \/ readmode' = mode /\ index' = idx
         \/ readmode' = "nullmode" /\ index' = 0
  BY Zenon DEF Finish, Continue
<1>3. IndexOK'
  BY <1>2 DEF IndexOK
<1>4. AudioOK'
  BY <1>2 DEF AudioOK
<1> QED
  BY <1>1, <1>3, <1>4 DEF IInv

\* And a turn that ends the block.
LEMMA FailInv ==
  ASSUME IInv,
         NEW mode \in {"nullmode", "headmode", "datamode"},
         NEW idx \in 0 .. FrameBits \cup 0 .. HeaderBits - 1,
         NEW count \in 0 .. SyncPeriod - 1,
         NEW told \in Seq(Told),
         sr' \in Words, audio_ready' \in BOOLEAN,
         Fail(mode, idx, count, told)
  PROVE  IInv'
<1>1. TypeOK' /\ ~running'
  BY FailType, Zenon DEF IInv
<1> QED
  BY <1>1, Zenon DEF IInv, IndexOK, AudioOK

\* The last bit of a frame: no audio waits, and the sums the turn makes.
LEMMA LastBitFacts ==
  ASSUME IInv, NEW in \in Bit, LastFrameBit(in)
  PROVE  /\ InCall
         /\ ~audio_ready
         /\ inp \in Nat
         /\ 0 < inp + 1
         /\ index + 1 \in 0 .. FrameBits
         /\ sr' \in Words
         /\ voiceframecount \in 0 .. SyncPeriod - 1
<1>1. InCall /\ running /\ readmode = "datamode"
  BY Zenon DEF LastFrameBit, InCall
<1>2. index \in 0 .. FrameBits - 1 /\ inp \in 0 .. FrameBits - 1
  BY <1>1, Counters DEF IInv, TypeOK, IndexOK, InCall
<1>3. index + 1 >= FrameBits
  BY Zenon DEF LastFrameBit, FrameFull
<1>4. ~(index < inp)
  BY <1>2, <1>3, Counters
<1>5. ~audio_ready
  BY <1>1, <1>4, Zenon DEF IInv, AudioOK
<1>6. sr' \in Words
  <2>1. in \in Nat
    BY DEF Bit
  <2>2. sr' = Pushed(sr, in) /\ sr \in Words
    BY Zenon DEF LastFrameBit, IInv, TypeOK
  <2> QED
    BY <2>1, <2>2, PushedWords
<1>7. voiceframecount \in 0 .. SyncPeriod - 1
  BY Zenon DEF IInv, TypeOK
<1>8. index + 1 \in 0 .. FrameBits /\ inp \in Nat /\ 0 < inp + 1
  BY <1>2, Counters
<1> QED
  BY <1>1, <1>5, <1>6, <1>7, <1>8, Zenon

\* What a step can tell is made of the names in Told.
LEMMA ToldSequences ==
  /\ <<>> \in Seq(Told)
  /\ <<"headsync">> \in Seq(Told)
  /\ <<"SetHeader">> \in Seq(Told)
  /\ <<"Add3", "DecodeData">> \in Seq(Told)
  /\ <<"datasync", "DecodeData">> \in Seq(Told)
  /\ <<"Add3", "missing", "Reset", "DecodeData">> \in Seq(Told)
  /\ <<"Add3", "unexpected", "Reset", "DecodeData">> \in Seq(Told)
<1>1. /\ "headsync" \in Told /\ "SetHeader" \in Told /\ "Add3" \in Told
      /\ "DecodeData" \in Told /\ "datasync" \in Told /\ "missing" \in Told
      /\ "Reset" \in Told /\ "unexpected" \in Told
  BY DEF Told
<1> QED
  BY <1>1

\* The invariant holds when the decoder has been constructed.
LEMMA InitInv == Init => IInv
<1> SUFFICES ASSUME Init PROVE IInv
  OBVIOUS
<1>1. Zero \in Words
  BY SizeAssumption DEF Zero, Words, Word, Bit
<1>2. TypeOK
  <2>1. /\ sr \in Words
        /\ index \in 0 .. FrameBits
        /\ voiceframecount \in 0 .. SyncPeriod - 1
        /\ inp \in 0 .. FrameBits
        /\ calls \in Seq(Told)
    BY <1>1, Counters, ToldSequences DEF Init
  <2>2. /\ readmode \in {"nullmode", "headmode", "datamode"}
        /\ audio_ready \in BOOLEAN /\ first_time \in BOOLEAN /\ running \in BOOLEAN
    BY Zenon DEF Init
  <2> QED
    BY <2>1, <2>2, Zenon DEF TypeOK
<1>3. IndexOK /\ AudioOK
  BY DEF Init, IndexOK, AudioOK
<1> QED
  BY <1>2, <1>3 DEF IInv

(***************************************************************************)
(* Every step of the decoder keeps the invariant.                          *)
(***************************************************************************)
LEMMA StepInv == IInv /\ [Next]_vars => IInv'
<1> SUFFICES ASSUME IInv, [Next]_vars PROVE IInv'
  OBVIOUS
<1> USE ToldSequences
<1>0. /\ 0 \in 0 .. FrameBits \cup 0 .. HeaderBits - 1
      /\ 0 \in 0 .. FrameBits - 1 /\ 0 \in 0 .. HeaderBits - 1
      /\ 0 \in 0 .. SyncPeriod - 1
      /\ AfterSync \in 0 .. SyncPeriod - 1
      /\ voiceframecount \in 0 .. SyncPeriod - 1
      /\ NextFrame \in 0 .. SyncPeriod - 1
  BY Counters, NextFrameInRange DEF AfterSync, IInv, TypeOK
<1>1. CASE UNCHANGED vars
  BY <1>1 DEF IInv, TypeOK, IndexOK, AudioOK, vars
<1>2. CASE Call
  <2>1. inp' \in 0 .. FrameBits
    BY <1>2, Counters DEF Call
  <2>2. calls' \in Seq(Told)
    <3>1. Handed \in Told
      BY DEF Handed, Told
    <3> QED
      BY <1>2, <3>1 DEF Call
  <2>3. TypeOK'
    BY <1>2, <2>1, <2>2, Zenon DEF Call, IInv, TypeOK
  <2>4. IndexOK' /\ AudioOK'
    BY <1>2, Zenon DEF Call, IInv, IndexOK, AudioOK
  <2> QED
    BY <2>3, <2>4, Zenon DEF IInv
<1>3. CASE HeaderBit
  <2>1. index + 1 \in 0 .. HeaderBits - 1
    BY <1>3, Counters DEF HeaderBit, HeaderFull, InCall, IInv, IndexOK
  <2>2. sr' \in Words /\ audio_ready' \in BOOLEAN
    BY <1>3, Zenon DEF HeaderBit, IInv, TypeOK
  <2>3. InCall /\ Continue("headmode", index + 1, voiceframecount, <<>>)
    BY <1>3, Zenon DEF HeaderBit
  <2> QED
    BY <1>0, <2>1, <2>2, <2>3, GoOnInv
<1>4. CASE LastHeaderBit
  <2>1. sr' \in Words /\ audio_ready' \in BOOLEAN
    BY <1>4, Zenon DEF LastHeaderBit, IInv, TypeOK
  <2>2. InCall /\ Continue("datamode", 0, 0, <<"SetHeader">>)
    BY <1>4, Zenon DEF LastHeaderBit
  <2>3. 0 < inp + 1
    BY DEF IInv, TypeOK
  <2> QED
    BY <1>0, <2>1, <2>2, <2>3, GoOnInv
<1>5. ASSUME NEW in \in Bit, FrameBit(in) PROVE IInv'
  <2>1. sr' \in Words
    BY <1>5, PushedWords DEF FrameBit, IInv, TypeOK, Bit
  <2>2. audio_ready' = audio_ready /\ audio_ready' \in BOOLEAN
    BY <1>5, Zenon DEF FrameBit, IInv, TypeOK
  <2>3. InCall /\ Finish("datamode", index + 1, voiceframecount, <<>>)
    BY <1>5, Zenon DEF FrameBit
  <2>4. index + 1 \in 0 .. FrameBits - 1
    BY <1>5, Counters DEF FrameBit, FrameFull, InCall, IInv, IndexOK
  <2>5. audio_ready' => index + 1 < inp + 1
    BY <1>5, <2>2, <2>4 DEF FrameBit, InCall, IInv, AudioOK, TypeOK
  <2>6. index + 1 \in 0 .. FrameBits \cup 0 .. HeaderBits - 1
    BY <2>4, Counters
  <2>7. "datamode" \in {"nullmode", "headmode", "datamode"}
    OBVIOUS
  <2> QED
    BY <1>0, <2>1, <2>2, <2>3, <2>4, <2>5, <2>6, <2>7, GoOnInv
<1>6. ASSUME NEW in \in Bit, SearchBit(in) PROVE IInv'
  <2>1. sr' \in Words
    BY <1>6, PushedWords DEF SearchBit, IInv, TypeOK, Bit
  <2>2. audio_ready' \in BOOLEAN
    BY <1>6, Zenon DEF SearchBit, IInv, TypeOK
  <2>3. InCall /\ Finish("nullmode", index, voiceframecount, <<>>)
    BY <1>6, Zenon DEF SearchBit
  <2>4. index = 0
    BY <1>6, Zenon DEF SearchBit, InCall, IInv, IndexOK
  <2> QED
    BY <1>0, <2>1, <2>2, <2>3, <2>4, GoOnInv
<1>7. ASSUME NEW in \in Bit, HeadFound(in) PROVE IInv'
  <2>1. sr' \in Words
    BY <1>7, PushedWords DEF HeadFound, IInv, TypeOK, Bit
  <2>2. audio_ready' \in BOOLEAN
    BY <1>7, Zenon DEF HeadFound, IInv, TypeOK
  <2>3. InCall /\ Continue("headmode", 0, 0, <<"headsync">>)
    BY <1>7, Zenon DEF HeadFound
  <2> QED
    BY <1>0, <2>1, <2>2, <2>3, GoOnInv
<1>8. ASSUME NEW in \in Bit, NEW ok \in BOOLEAN, FrameInOrder(in, ok) PROVE IInv'
  <2> DEFINE told == <<"Add3", "DecodeData">>
  <2>1. LastFrameBit(in)
    BY <1>8, Zenon DEF FrameInOrder
  <2>2. /\ InCall /\ 0 < inp + 1 /\ sr' \in Words /\ index + 1 \in 0 .. FrameBits
    BY <2>1, LastBitFacts
  <2>3. audio_ready' \in BOOLEAN
    BY <1>8, Zenon DEF FrameInOrder, IInv, TypeOK
  <2>4. \/ Finish("datamode", 0, NextFrame, told)
        \/ Fail("datamode", index + 1, NextFrame, told)
    BY <1>8, Zenon DEF FrameInOrder
  <2>5. CASE Finish("datamode", 0, NextFrame, told)
    BY <1>0, <2>2, <2>3, <2>5, GoOnInv
  <2>6. CASE Fail("datamode", index + 1, NextFrame, told)
    BY <1>0, <2>2, <2>3, <2>6, FailInv
  <2> QED
    BY <2>4, <2>5, <2>6
<1>9. ASSUME NEW in \in Bit, NEW ok \in BOOLEAN, MissingSync(in, ok) PROVE IInv'
  <2> DEFINE told == <<"Add3", "missing", "Reset", "DecodeData">>
  <2>1. LastFrameBit(in)
    BY <1>9, Zenon DEF MissingSync
  <2>2. /\ InCall /\ 0 < inp + 1 /\ sr' \in Words /\ index + 1 \in 0 .. FrameBits
    BY <2>1, LastBitFacts
  <2>3. audio_ready' \in BOOLEAN
    BY <1>9, Zenon DEF MissingSync, IInv, TypeOK
  <2>4. \/ Continue("headmode", 0, 0, told \o <<"headsync">>)
        \/ Finish("nullmode", 0, NextFrame, told)
        \/ Fail("nullmode", index + 1, NextFrame, told)
    BY <1>9, Zenon DEF MissingSync
  <2>5. told \o <<"headsync">> \in Seq(Told)
    BY ConcatProperties
  <2>6. CASE Continue("headmode", 0, 0, told \o <<"headsync">>)
    BY <1>0, <2>2, <2>3, <2>5, <2>6, GoOnInv
  <2>7. CASE Finish("nullmode", 0, NextFrame, told)
    BY <1>0, <2>2, <2>3, <2>7, GoOnInv
  <2>8. CASE Fail("nullmode", index + 1, NextFrame, told)
    BY <1>0, <2>2, <2>3, <2>8, FailInv
  <2> QED
    BY <2>4, <2>6, <2>7, <2>8
<1>10. ASSUME NEW in \in Bit, NEW good \in 0 .. 2, UnexpectedSync(in, good) PROVE IInv'
  <2> DEFINE told == <<"Add3", "unexpected", "Reset", "DecodeData">>
             found == told \o <<"datasync", "DecodeData">>
  <2>1. LastFrameBit(in)
    BY <1>10, Zenon DEF UnexpectedSync
  <2>2. /\ InCall /\ 0 < inp + 1 /\ sr' \in Words /\ index + 1 \in 0 .. FrameBits
    BY <2>1, LastBitFacts
  <2>3. audio_ready' \in BOOLEAN
    BY <1>10, Zenon DEF UnexpectedSync, IInv, TypeOK
  <2>4. \/ Fail("nullmode", index + 1, NextFrame, told)
        \/ Fail("datamode", 0, NextFrame, found)
        \/ Finish("datamode", 0, AfterSync, found)
    BY <1>10, Zenon DEF UnexpectedSync
  <2>5. found \in Seq(Told)
    BY ConcatProperties
  <2>6. CASE Fail("nullmode", index + 1, NextFrame, told)
    BY <1>0, <2>2, <2>3, <2>6, FailInv
  <2>7. CASE Fail("datamode", 0, NextFrame, found)
    BY <1>0, <2>2, <2>3, <2>5, <2>7, FailInv
  <2>8. CASE Finish("datamode", 0, AfterSync, found)
    BY <1>0, <2>2, <2>3, <2>5, <2>8, GoOnInv
  <2> QED
    BY <2>4, <2>6, <2>7, <2>8
<1>11. ASSUME NEW in \in Bit, NEW ok \in BOOLEAN, DataFound(in, ok) PROVE IInv'
  <2> DEFINE told == <<"datasync", "DecodeData">>
  <2>1. sr' \in Words
    BY <1>11, PushedWords DEF DataFound, IInv, TypeOK, Bit
  <2>2. audio_ready' \in BOOLEAN
    BY <1>11, Zenon DEF DataFound, IInv, TypeOK
  <2>3. /\ InCall
        /\ \/ Finish("datamode", 0, AfterSync, told)
           \/ Fail("datamode", 0, voiceframecount, told)
    BY <1>11, Zenon DEF DataFound
  <2>4. 0 < inp + 1
    BY DEF IInv, TypeOK
  <2>5. CASE Finish("datamode", 0, AfterSync, told)
    BY <1>0, <2>1, <2>2, <2>3, <2>4, <2>5, GoOnInv
  <2>6. CASE Fail("datamode", 0, voiceframecount, told)
    BY <1>0, <2>1, <2>2, <2>6, FailInv
  <2> QED
    BY <2>3, <2>5, <2>6
<1> QED
  BY <1>1, <1>2, <1>3, <1>4, <1>5, <1>6, <1>7, <1>8, <1>9, <1>10, <1>11, Zenon
  DEF Next, Take

(***************************************************************************)
(* index stays below the length of what the mode collects, and audio waits *)
(* for the caller only while no frame can end, whatever the bits, the      *)
(* patterns and the vocoder's failures.                                    *)
(***************************************************************************)
THEOREM InvariantHolds == Spec => []IInv
BY InitInv, StepInv, PTL DEF Spec

(***************************************************************************)
(* The types of the decoder's state; among them, no index leaves buffer.   *)
(***************************************************************************)
THEOREM TypeCorrect == Spec => []TypeOK
<1>1. IInv => TypeOK
  BY DEF IInv
<1> QED
  BY <1>1, InvariantHolds, PTL
-----------------------------------------------------------------------------
\* How the state of the decoder shows in VoiceStream.
LEMMA Shows ==
  /\ ~running => phase = "stopped" /\ number = 0
  /\ running /\ readmode = "nullmode" => phase = "search" /\ number = 0
  /\ running /\ readmode = "headmode" => phase = "header" /\ number = 0
  /\ running /\ readmode = "datamode" => phase = "frames" /\ number = voiceframecount
BY DEF phase, number

\* And the state after a step.
LEMMA ShowsNext ==
  /\ ~running' => phase' = "stopped" /\ number' = 0
  /\ running' /\ readmode' = "nullmode" => phase' = "search" /\ number' = 0
  /\ running' /\ readmode' = "headmode" => phase' = "header" /\ number' = 0
  /\ running' /\ readmode' = "datamode" => phase' = "frames" /\ number' = voiceframecount'
BY DEF phase, number

\* A turn that goes on shows as VoiceStream's GoOn.
LEMMA FinishShows ==
  ASSUME running, NEW idx, NEW count, NEW told,
         NEW mode \in {"nullmode", "datamode"}, Finish(mode, idx, count, told)
  PROVE  /\ mode = "nullmode" => Voice!GoOn("search", 0, told)
         /\ mode = "datamode" => Voice!GoOn("frames", count, told)
<1>1. running'
  BY Zenon DEF Finish, Continue
<1>2. CASE readmode' = mode /\ voiceframecount' = count /\ calls' = told
  BY <1>1, <1>2, ShowsNext DEF Voice!GoOn
<1>3. CASE readmode' = "nullmode" /\ calls' = told \o <<"termsync", "Reset">>
  BY <1>1, <1>3, ShowsNext, Zenon DEF Voice!GoOn
<1> QED
  BY <1>2, <1>3, Zenon DEF Finish, Continue

\* And one that ends the block as its Stop.
LEMMA FailShows ==
  ASSUME NEW mode, NEW idx, NEW count, NEW told, Fail(mode, idx, count, told)
  PROVE  Voice!Stop(told)
BY ShowsNext, Zenon DEF Fail, Voice!Stop

\* A turn that tells nothing is Quiet, unless a terminal sync ends the frames.
LEMMA QuietOrEnd ==
  ASSUME running, NEW mode \in {"nullmode", "datamode"}, readmode = mode,
         NEW idx, Finish(mode, idx, voiceframecount, <<>>),
         audio_ready' = audio_ready
  PROVE  Voice!Next
<1>1. running'
  BY Zenon DEF Finish, Continue
<1>2. CASE readmode' = mode /\ voiceframecount' = voiceframecount /\ calls' = <<>>
  <2>1. phase' = phase /\ number' = number /\ phase # "stopped"
    BY <1>1, <1>2, Shows, ShowsNext
  <2> QED
    BY <1>2, <2>1, Zenon DEF Voice!Next, Voice!Quiet
<1>3. CASE readmode' = "nullmode" /\ calls' = <<>> \o <<"termsync", "Reset">>
  <2>1. calls' = <<"termsync", "Reset">>
    BY <1>3
  <2>2. phase \in {"search", "frames"} /\ phase' = "search" /\ number' = 0
    BY <1>1, <1>3, Shows, ShowsNext
  <2> QED
    BY <2>1, <2>2, Zenon DEF Voice!Next, Voice!End
<1> QED
  BY <1>2, <1>3, Zenon DEF Finish, Continue

-----------------------------------------------------------------------------
\* The decoder starts as VoiceStream does.
LEMMA StartsAsVoice == Init => Voice!Init
BY Shows, Zenon DEF Init, Voice!Init

(***************************************************************************)
(* Each step of the decoder is one of VoiceStream's.                       *)
(***************************************************************************)
LEMMA StepsAsVoice == IInv /\ [Next]_vars => [Voice!Next]_(Voice!vars)
<1> SUFFICES ASSUME IInv, [Next]_vars PROVE Voice!Next \/ UNCHANGED Voice!vars
  BY DEF Voice!vars
<1>1. CASE UNCHANGED vars
  BY <1>1 DEF vars, Voice!vars, phase, number
<1>2. CASE Call
  <2>1. /\ phase' = phase /\ number' = number
    BY <1>2, Zenon DEF Call, phase, number
  <2>2. phase # "stopped"
    BY <1>2, Zenon DEF Call, phase, IInv, TypeOK
  <2>3. calls' \in IF audio_ready THEN {<<"audio">>} ELSE {<<"silence">>, <<"long silence">>}
    BY <1>2, Zenon DEF Call, Handed
  <2> QED
    BY <1>2, <2>1, <2>2, <2>3, Zenon DEF Call, Voice!Next, Voice!HandOver
<1>3. CASE HeaderBit
  <2>1. /\ phase = "header" /\ number = 0 /\ phase' = "header" /\ number' = 0
    BY <1>3, Shows, ShowsNext, Zenon DEF HeaderBit, InCall, Continue
  <2>2. calls' = <<>> /\ audio_ready' = audio_ready
    BY <1>3, Zenon DEF HeaderBit, Continue
  <2> QED
    BY <2>1, <2>2, Zenon DEF Voice!Next, Voice!Quiet
<1>4. CASE LastHeaderBit
  <2>1. /\ phase = "header" /\ phase' = "frames" /\ number' = 0
        /\ calls' = <<"SetHeader">> /\ audio_ready' = audio_ready
    BY <1>4, Shows, ShowsNext, Zenon DEF LastHeaderBit, InCall, Continue
  <2> QED
    BY <2>1, Zenon DEF Voice!Next, Voice!EndHeader
<1>5. ASSUME NEW in \in Bit, FrameBit(in) \/ SearchBit(in)
      PROVE  Voice!Next
  <2>1. CASE FrameBit(in)
    BY <2>1, QuietOrEnd, Zenon DEF FrameBit, InCall
  <2>2. CASE SearchBit(in)
    BY <2>2, QuietOrEnd, Zenon DEF SearchBit, InCall
  <2> QED
    BY <1>5, <2>1, <2>2
<1>6. ASSUME NEW in \in Bit, HeadFound(in) PROVE Voice!Next
  <2>1. /\ phase = "search" /\ phase' = "header" /\ number' = 0
        /\ calls' = <<"headsync">> /\ audio_ready' = audio_ready
    BY <1>6, Shows, ShowsNext, Zenon DEF HeadFound, InCall, Continue
  <2> QED
    BY <2>1, Zenon DEF Voice!Next, Voice!StartHeader
<1>7. ASSUME NEW in \in Bit, LastFrameBit(in)
      PROVE  running /\ Voice!FrameEnds /\ number = voiceframecount
  <2>1. ~audio_ready
    BY <1>7, LastBitFacts
  <2>2. running /\ phase = "frames" /\ number = voiceframecount
    BY <1>7, Shows, Zenon DEF LastFrameBit, InCall
  <2> QED
    BY <2>1, <2>2, Zenon DEF Voice!FrameEnds
<1>8. ASSUME NEW in \in Bit, NEW ok \in BOOLEAN, FrameInOrder(in, ok) PROVE Voice!Next
  <2> DEFINE told == <<"Add3", "DecodeData">>
  <2>1. running /\ Voice!FrameEnds /\ number = voiceframecount
    BY <1>7, <1>8, Zenon DEF FrameInOrder
  <2>2. told = <<"Add3">> \o Voice!Decoded
    BY DEF Voice!Decoded
  <2>3. NextFrame = (number + 1) % SyncPeriod
    BY <2>1 DEF NextFrame
  <2>4. \/ Voice!GoOn("frames", (number + 1) % SyncPeriod, told) /\ audio_ready' = TRUE
        \/ Voice!Stop(told) /\ audio_ready' = FALSE
    <3>1. CASE Finish("datamode", 0, NextFrame, told) /\ audio_ready' = TRUE
      BY <2>1, <2>3, <3>1, FinishShows
    <3>2. CASE Fail("datamode", index + 1, NextFrame, told) /\ audio_ready' = audio_ready
      <4>1. Voice!Stop(told)
        BY <3>2, FailShows
      <4>2. audio_ready = FALSE
        BY <2>1, Zenon DEF Voice!FrameEnds, IInv, TypeOK
      <4> QED
        BY <3>2, <4>1, <4>2, Zenon
    <3> QED
      BY <1>8, <3>1, <3>2, Zenon DEF FrameInOrder
  <2>5. Voice!Frame
    <3> HIDE DEF told
    <3> QED
      BY <2>1, <2>2, <2>4, Zenon DEF Voice!Frame
  <2> QED
    BY <2>5 DEF Voice!Next
<1>9. ASSUME NEW in \in Bit, NEW ok \in BOOLEAN, MissingSync(in, ok) PROVE Voice!Next
  <2> DEFINE told == <<"Add3", "missing", "Reset", "DecodeData">>
  <2>1. running /\ Voice!FrameEnds /\ number = voiceframecount
    BY <1>7, <1>9, Zenon DEF MissingSync
  <2>2. told = <<"Add3", "missing", "Reset">> \o Voice!Decoded
    BY DEF Voice!Decoded
  <2>3. number = 0
    BY <1>9, <2>1, Zenon DEF MissingSync, SyncDue
  <2>4. \/ Voice!GoOn("search", 0, told) /\ audio_ready' = TRUE
        \/ /\ phase' = "header" /\ number' = 0
           /\ calls' = told \o <<"headsync">> /\ audio_ready' = TRUE
        \/ Voice!Stop(told) /\ audio_ready' = FALSE
    <3>1. CASE Finish("nullmode", 0, NextFrame, told) /\ audio_ready' = TRUE
      BY <2>1, <3>1, FinishShows
    <3>2. CASE Continue("headmode", 0, 0, told \o <<"headsync">>) /\ audio_ready' = TRUE
      <4>1. running'
        BY <2>1, <3>2, Zenon DEF Continue
      <4> QED
        BY <3>2, <4>1, ShowsNext, Zenon DEF Continue
    <3>3. CASE Fail("nullmode", index + 1, NextFrame, told) /\ audio_ready' = audio_ready
      <4>1. Voice!Stop(told)
        BY <3>3, FailShows
      <4>2. audio_ready = FALSE
        BY <2>1, Zenon DEF Voice!FrameEnds, IInv, TypeOK
      <4> QED
        BY <3>3, <4>1, <4>2, Zenon
    <3> QED
      BY <1>9, <3>1, <3>2, <3>3, Zenon DEF MissingSync
  <2>5. Voice!Lose
    <3> HIDE DEF told
    <3> QED
      BY <2>1, <2>2, <2>3, <2>4, Zenon DEF Voice!Lose
  <2> QED
    BY <2>5 DEF Voice!Next
<1>10. ASSUME NEW in \in Bit, NEW good \in 0 .. 2, UnexpectedSync(in, good) PROVE Voice!Next
  <2> DEFINE told == <<"Add3", "unexpected", "Reset", "DecodeData">>
             found == told \o <<"datasync", "DecodeData">>
  <2>1. running /\ Voice!FrameEnds /\ number = voiceframecount
    BY <1>7, <1>10, Zenon DEF UnexpectedSync
  <2>2. /\ told = <<"Add3", "unexpected", "Reset">> \o Voice!Decoded
        /\ found = (told \o <<"datasync">>) \o Voice!Decoded
    BY DEF Voice!Decoded
  <2>3. number # 0
    BY <1>10, <2>1, Zenon DEF UnexpectedSync, SyncDue
  <2>4. \/ Voice!GoOn("frames", 1, found) /\ audio_ready' = TRUE
        \/ Voice!Stop(told) /\ audio_ready' = FALSE
        \/ Voice!Stop(found) /\ audio_ready' = TRUE
    <3>1. CASE Fail("nullmode", index + 1, NextFrame, told) /\ audio_ready' = audio_ready
      <4>1. Voice!Stop(told)
        BY <3>1, FailShows
      <4>2. audio_ready = FALSE
        BY <2>1, Zenon DEF Voice!FrameEnds, IInv, TypeOK
      <4> QED
        BY <3>1, <4>1, <4>2, Zenon
    <3>2. CASE Fail("datamode", 0, NextFrame, found) /\ audio_ready' = TRUE
      BY <3>2, FailShows
    <3>3. CASE Finish("datamode", 0, AfterSync, found) /\ audio_ready' = TRUE
      <4>1. Voice!GoOn("frames", AfterSync, found)
        BY <2>1, <3>3, FinishShows
      <4> QED
        BY <3>3, <4>1 DEF AfterSync
    <3> QED
      BY <1>10, <3>1, <3>2, <3>3, Zenon DEF UnexpectedSync
  <2>5. Voice!Relock
    <3> HIDE DEF told, found
    <3> QED
      BY <2>1, <2>2, <2>3, <2>4, Zenon DEF Voice!Relock
  <2> QED
    BY <2>5 DEF Voice!Next
<1>11. ASSUME NEW in \in Bit, NEW ok \in BOOLEAN, DataFound(in, ok) PROVE Voice!Next
  <2> DEFINE told == <<"datasync", "DecodeData">>
  <2>1. running /\ phase = "search"
    BY <1>11, Shows, Zenon DEF DataFound, InCall
  <2>2. told = <<"datasync">> \o Voice!Decoded
    BY DEF Voice!Decoded
  <2>3. \/ Voice!GoOn("frames", 1, told) /\ audio_ready' = TRUE
        \/ Voice!Stop(told) /\ audio_ready' = audio_ready
    <3>1. CASE Finish("datamode", 0, AfterSync, told) /\ audio_ready' = TRUE
      <4>1. Voice!GoOn("frames", AfterSync, told)
        BY <2>1, <3>1, FinishShows
      <4> QED
        BY <3>1, <4>1 DEF AfterSync
    <3>2. CASE Fail("datamode", 0, voiceframecount, told) /\ audio_ready' = audio_ready
      BY <3>2, FailShows
    <3> QED
      BY <1>11, <3>1, <3>2, Zenon DEF DataFound
  <2>4. Voice!Lock
    <3> HIDE DEF told
    <3> QED
      BY <2>1, <2>2, <2>3, Zenon DEF Voice!Lock
  <2> QED
    BY <2>4 DEF Voice!Next
<1> QED
  BY <1>1, <1>2, <1>3, <1>4, <1>5, <1>6, <1>8, <1>9, <1>10, <1>11, Zenon
  DEF Next, Take,
      Voice!Next, Voice!HandOver, Voice!Quiet, Voice!EndHeader

(***************************************************************************)
(* The decoder implements VoiceStream.                                     *)
(***************************************************************************)
THEOREM DecoderImplementsVoiceStream == Spec => ImplementsVoiceStream
BY StartsAsVoice, StepsAsVoice, InvariantHolds, PTL DEF Spec, Voice!Spec, ImplementsVoiceStream

-----------------------------------------------------------------------------
(***************************************************************************)
(* For every size and pattern: frames and headers are whole, no audio is   *)
(* lost but to a sync found in the stream, syncs are judged by their       *)
(* distance, and the halves of slow data are of adjacent frames.           *)
(***************************************************************************)
\* since follows the bits, index is the program's: they agree
SinceOK == running /\ readmode # "nullmode" => since = index

\* unsynced follows the syncs, voiceframecount is the program's
UnsyncedOK ==
  running /\ readmode = "datamode" =>
    /\ unsynced \in 0 .. SyncPeriod - 1
    /\ voiceframecount = IF unsynced = SyncPeriod - 1 THEN 0 ELSE unsynced + 1

\* half follows the first halves: the frame after one began where it ended
HalfOK == running /\ readmode = "datamode" /\ SecondHalf => half = index

HInv == IInv /\ SinceOK /\ UnsyncedOK /\ HalfOK

Says(told, name) == \E n \in DOMAIN told : told[n] = name

-----------------------------------------------------------------------------
\* No names say nothing.
LEMMA SaysNone == ASSUME NEW name PROVE ~Says(<<>>, name)
BY DEF Says

\* One name says that name.
LEMMA SaysOne == ASSUME NEW a, NEW name PROVE Says(<<a>>, name) <=> name = a
BY DEF Says

\* Two names say those two.
LEMMA SaysTwo ==
  ASSUME NEW a, NEW b, NEW name
  PROVE  Says(<<a, b>>, name) <=> name = a \/ name = b
<1>1. DOMAIN <<a, b>> = {1, 2} /\ <<a, b>>[1] = a /\ <<a, b>>[2] = b
  OBVIOUS
<1> QED
  BY <1>1, Zenon DEF Says

\* Four names say those four.
LEMMA SaysFour ==
  ASSUME NEW a, NEW b, NEW c, NEW d, NEW name
  PROVE  Says(<<a, b, c, d>>, name) <=> name = a \/ name = b \/ name = c \/ name = d
<1> DEFINE t == <<a, b, c, d>>
<1>1. DOMAIN t = {1, 2, 3, 4} /\ t[1] = a /\ t[2] = b /\ t[3] = c /\ t[4] = d
  OBVIOUS
<1> HIDE DEF t
<1>2. Says(t, name) <=> name = a \/ name = b \/ name = c \/ name = d
  BY <1>1, Zenon DEF Says
<1> QED
  BY <1>2 DEF t

\* What two sequences say one after the other.
LEMMA SaysConcat ==
  ASSUME NEW s \in Seq(Told), NEW t \in Seq(Told), NEW name
  PROVE  Says(s \o t, name) <=> Says(s, name) \/ Says(t, name)
<1>1. Says(s \o t, name) => Says(s, name) \/ Says(t, name)
  <2> SUFFICES ASSUME NEW n \in DOMAIN (s \o t), (s \o t)[n] = name
               PROVE  Says(s, name) \/ Says(t, name)
    BY DEF Says
  <2>1. CASE n <= Len(s)
    <3>1. n \in DOMAIN s /\ s[n] = name
      BY <2>1
    <3> QED
      BY <3>1 DEF Says
  <2>2. CASE n > Len(s)
    <3>1. n - Len(s) \in DOMAIN t /\ t[n - Len(s)] = name
      BY <2>2
    <3> QED
      BY <3>1 DEF Says
  <2> QED
    BY <2>1, <2>2
<1>2. Says(s, name) => Says(s \o t, name)
  <2> SUFFICES ASSUME NEW n \in DOMAIN s, s[n] = name PROVE Says(s \o t, name)
    BY DEF Says
  <2>1. n \in DOMAIN (s \o t) /\ (s \o t)[n] = name
    OBVIOUS
  <2> QED
    BY <2>1 DEF Says
<1>3. Says(t, name) => Says(s \o t, name)
  <2> SUFFICES ASSUME NEW n \in DOMAIN t, t[n] = name PROVE Says(s \o t, name)
    BY DEF Says
  <2>1. Len(s) + n \in DOMAIN (s \o t) /\ (s \o t)[Len(s) + n] = name
    OBVIOUS
  <2> QED
    BY <2>1 DEF Says
<1> QED
  BY <1>1, <1>2, <1>3

\* A terminal sync at the end adds its own names only.
LEMMA SaysTerm ==
  ASSUME NEW told \in Seq(Told), NEW name, name \notin {"termsync", "Reset"}
  PROVE  Says(told \o <<"termsync", "Reset">>, name) <=> Says(told, name)
<1>1. "termsync" \in Told /\ "Reset" \in Told
  BY DEF Told
<1>2. <<"termsync", "Reset">> \in Seq(Told)
  BY <1>1
<1>3. ~Says(<<"termsync", "Reset">>, name)
  BY SaysTwo, Zenon
<1> QED
  BY <1>2, <1>3, SaysConcat

\* So a turn tells what it was told to, whether or not it makes the test.
LEMMA TurnTells ==
  ASSUME NEW mode, NEW idx, NEW count, NEW told \in Seq(Told),
         NEW name, name \notin {"termsync", "Reset"},
         \/ Finish(mode, idx, count, told)
         \/ Continue(mode, idx, count, told)
         \/ Fail(mode, idx, count, told)
  PROVE  tells(name) <=> Says(told, name)
<1>1. calls' = told \/ calls' = told \o <<"termsync", "Reset">>
  BY Zenon DEF Finish, Continue, Fail
<1>2. tells(name) <=> Says(calls', name)
  BY DEF tells, Says
<1>3. CASE calls' = told
  BY <1>2, <1>3, Zenon
<1>4. CASE calls' = told \o <<"termsync", "Reset">>
  <2>1. Says(told \o <<"termsync", "Reset">>, name) <=> Says(told, name)
    BY SaysTerm
  <2> QED
    BY <1>2, <1>4, <2>1, Zenon
<1> QED
  BY <1>1, <1>3, <1>4, Zenon

(***************************************************************************)
(* What each kind of step tells of headers, frames and syncs.              *)
(***************************************************************************)
\* A step outside the frames' ends tells of none.
LEMMA QuietTells ==
  ASSUME NEW in \in Bit,
         Call \/ HeaderBit \/ FrameBit(in) \/ SearchBit(in) \/ HeadFound(in)
  PROVE  /\ ~tells("SetHeader") /\ ~tells("Add3") /\ ~tells("DecodeData")
         /\ ~tells("datasync")
<1>1. CASE Call
  <2>1. Handed \notin {"SetHeader", "Add3", "DecodeData", "datasync"}
    BY DEF Handed
  <2>2. calls' = <<Handed>>
    BY <1>1, Zenon DEF Call
  <2>3. \A name : tells(name) <=> name = Handed
    BY <2>2, SaysOne DEF tells, Says
  <2> QED
    BY <2>1, <2>3
<1>2. CASE HeaderBit \/ FrameBit(in) \/ SearchBit(in)
  <2>1. \/ Continue("headmode", index + 1, voiceframecount, <<>>)
        \/ Finish("datamode", index + 1, voiceframecount, <<>>)
        \/ Finish("nullmode", index, voiceframecount, <<>>)
    BY <1>2, Zenon DEF HeaderBit, FrameBit, SearchBit
  <2>2. <<>> \in Seq(Told)
    BY ToldSequences
  <2>3. ASSUME NEW name, name \notin {"termsync", "Reset"}
        PROVE  ~tells(name)
    <3>1. tells(name) <=> Says(<<>>, name)
      BY <2>1, <2>2, <2>3, TurnTells, Zenon
    <3> QED
      BY <3>1, SaysNone, Zenon
  <2> QED
    BY <2>3
<1>3. CASE HeadFound(in)
  <2>1. Continue("headmode", 0, 0, <<"headsync">>)
    BY <1>3, Zenon DEF HeadFound
  <2>2. <<"headsync">> \in Seq(Told)
    BY ToldSequences
  <2>3. ASSUME NEW name, name \notin {"termsync", "Reset", "headsync"}
        PROVE  ~tells(name)
    <3>1. tells(name) <=> Says(<<"headsync">>, name)
      BY <2>1, <2>2, <2>3, TurnTells, Zenon
    <3> QED
      BY <2>3, <3>1, SaysOne, Zenon
  <2> QED
    BY <2>3
<1> QED
  BY <1>1, <1>2, <1>3

\* The last bit of a header.
LEMMA HeaderTells ==
  ASSUME LastHeaderBit
  PROVE  /\ tells("SetHeader") /\ ~tells("Add3") /\ ~tells("DecodeData")
         /\ ~tells("datasync")
<1>1. Continue("datamode", 0, 0, <<"SetHeader">>)
  BY Zenon DEF LastHeaderBit
<1>2. <<"SetHeader">> \in Seq(Told)
  BY ToldSequences
<1>3. ASSUME NEW name, name \notin {"termsync", "Reset"}
      PROVE  tells(name) <=> name = "SetHeader"
  <2>1. tells(name) <=> Says(<<"SetHeader">>, name)
    BY <1>1, <1>2, <1>3, TurnTells, Zenon
  <2> QED
    BY <2>1, SaysOne, Zenon
<1> QED
  BY <1>3

\* A data sync found in the stream.
LEMMA FoundTells ==
  ASSUME NEW in \in Bit, NEW ok \in BOOLEAN, DataFound(in, ok)
  PROVE  /\ tells("datasync") /\ ~tells("SetHeader") /\ ~tells("Add3")
<1> DEFINE told == <<"datasync", "DecodeData">>
<1>1. \/ Finish("datamode", 0, AfterSync, told)
      \/ Fail("datamode", 0, voiceframecount, told)
  BY Zenon DEF DataFound
<1>2. told \in Seq(Told)
  BY ToldSequences
<1>3. ASSUME NEW name, name \notin {"termsync", "Reset"}
      PROVE  tells(name) <=> name = "datasync" \/ name = "DecodeData"
  <2>1. tells(name) <=> Says(told, name)
    <3> HIDE DEF told
    <3> QED
      BY <1>1, <1>2, <1>3, TurnTells, Zenon
  <2> QED
    BY <2>1, SaysTwo, Zenon
<1> QED
  BY <1>3

\* A frame that is in order.
LEMMA OrderTells ==
  ASSUME NEW in \in Bit, NEW ok \in BOOLEAN, FrameInOrder(in, ok)
  PROVE  /\ tells("Add3") /\ ~tells("SetHeader") /\ ~tells("missing")
         /\ ~tells("unexpected") /\ ~tells("datasync")
<1> DEFINE told == <<"Add3", "DecodeData">>
<1>1. \/ Finish("datamode", 0, NextFrame, told)
      \/ Fail("datamode", index + 1, NextFrame, told)
  BY Zenon DEF FrameInOrder
<1>2. told \in Seq(Told)
  BY ToldSequences
<1>3. ASSUME NEW name, name \notin {"termsync", "Reset"}
      PROVE  tells(name) <=> name = "Add3" \/ name = "DecodeData"
  <2>1. tells(name) <=> Says(told, name)
    <3> HIDE DEF told
    <3> QED
      BY <1>1, <1>2, <1>3, TurnTells, Zenon
  <2> QED
    BY <2>1, SaysTwo, Zenon
<1> QED
  BY <1>3

\* A frame without the sync that was due.
LEMMA MissingTells ==
  ASSUME NEW in \in Bit, NEW ok \in BOOLEAN, MissingSync(in, ok)
  PROVE  tells("Add3") /\ tells("missing") /\ ~tells("SetHeader")
<1> DEFINE told == <<"Add3", "missing", "Reset", "DecodeData">>
           toHeader == told \o <<"headsync">>
<1>1. \/ Continue("headmode", 0, 0, toHeader)
      \/ Finish("nullmode", 0, NextFrame, told)
      \/ Fail("nullmode", index + 1, NextFrame, told)
  BY Zenon DEF MissingSync
<1>2. told \in Seq(Told) /\ <<"headsync">> \in Seq(Told)
  BY ToldSequences
<1>3. toHeader \in Seq(Told)
  BY <1>2, ConcatProperties
<1>4. ASSUME NEW name, name \notin {"termsync", "Reset"}
      PROVE  tells(name) => name \in {"Add3", "missing", "Reset", "DecodeData", "headsync"}
  <2>1. (tells(name) <=> Says(told, name)) \/ (tells(name) <=> Says(toHeader, name))
    <3> HIDE DEF told, toHeader
    <3> QED
      BY <1>1, <1>2, <1>3, <1>4, TurnTells, Zenon
  <2>2. Says(told, name) => name \in {"Add3", "missing", "Reset", "DecodeData"}
    <3>1. Says(told, name) <=> name = "Add3" \/ name = "missing" \/ name = "Reset" \/ name = "DecodeData"
      BY SaysFour
    <3> HIDE DEF told
    <3> QED
      BY <3>1
  <2>3. Says(toHeader, name) => Says(told, name) \/ Says(<<"headsync">>, name)
    <3> HIDE DEF told
    <3> QED
      BY <1>2, SaysConcat, Zenon
  <2>4. Says(<<"headsync">>, name) => name = "headsync"
    BY SaysOne, Zenon
  <2> HIDE DEF told, toHeader
  <2> QED
    BY <2>1, <2>2, <2>3, <2>4
<1>5. ASSUME NEW name, name \in {"Add3", "missing"}
      PROVE  tells(name)
  <2>1. name \notin {"termsync", "Reset"}
    BY <1>5
  <2>2. (tells(name) <=> Says(told, name)) \/ (tells(name) <=> Says(toHeader, name))
    <3> HIDE DEF told, toHeader
    <3> QED
      BY <1>1, <1>2, <1>3, <2>1, TurnTells, Zenon
  <2>3. Says(told, name)
    <3>1. Says(told, name) <=> name = "Add3" \/ name = "missing" \/ name = "Reset" \/ name = "DecodeData"
      BY SaysFour
    <3> HIDE DEF told
    <3> QED
      BY <1>5, <3>1
  <2>4. Says(toHeader, name)
    <3> HIDE DEF told
    <3> QED
      BY <1>2, <2>3, SaysConcat, Zenon
  <2> QED
    BY <2>2, <2>3, <2>4, Zenon
<1> QED
  BY <1>4, <1>5

\* A frame with a sync that was not due.
LEMMA UnexpectedTells ==
  ASSUME NEW in \in Bit, NEW good \in 0 .. 2, UnexpectedSync(in, good)
  PROVE  /\ tells("Add3") /\ tells("unexpected") /\ ~tells("SetHeader")
         /\ good = 2 => tells("datasync")
<1> DEFINE told == <<"Add3", "unexpected", "Reset", "DecodeData">>
           again == <<"datasync", "DecodeData">>
           found == told \o again
<1>1. /\ \/ Fail("nullmode", index + 1, NextFrame, told)
         \/ Fail("datamode", 0, NextFrame, found)
         \/ Finish("datamode", 0, AfterSync, found)
      /\ good = 2 => Finish("datamode", 0, AfterSync, found)
  <2>1. good = 2 => good # 0 /\ good # 1
    OBVIOUS
  <2> HIDE DEF told, found
  <2> QED
    BY <2>1, Zenon DEF UnexpectedSync, told, found
<1>2. told \in Seq(Told) /\ again \in Seq(Told)
  BY ToldSequences
<1>3. found \in Seq(Told)
  BY <1>2, ConcatProperties
<1>4. ASSUME NEW name
      PROVE  Says(found, name) <=> Says(told, name) \/ Says(again, name)
  <2> HIDE DEF told, again
  <2> QED
    BY <1>2, SaysConcat, Zenon
<1>5. ASSUME NEW name, name \notin {"termsync", "Reset"}
      PROVE  (tells(name) <=> Says(told, name)) \/ (tells(name) <=> Says(found, name))
  <2> HIDE DEF told, found
  <2> QED
    BY <1>1, <1>2, <1>3, <1>5, TurnTells, Zenon
<1>6. /\ Says(told, "Add3") /\ Says(told, "unexpected") /\ Says(again, "datasync")
      /\ ~Says(told, "SetHeader") /\ ~Says(again, "SetHeader")
  <2>1. \A name : Says(told, name) <=>
          name = "Add3" \/ name = "unexpected" \/ name = "Reset" \/ name = "DecodeData"
    BY SaysFour
  <2>2. \A name : Says(again, name) <=> name = "datasync" \/ name = "DecodeData"
    BY SaysTwo, Zenon
  <2> HIDE DEF told, again
  <2> QED
    BY <2>1, <2>2
<1>7. good = 2 => (tells("datasync") <=> Says(found, "datasync"))
  <2> HIDE DEF told, found
  <2> QED
    BY <1>1, <1>3, TurnTells
<1> HIDE DEF told, again, found
<1> QED
  BY <1>4, <1>5, <1>6, <1>7

-----------------------------------------------------------------------------
\* A step with history is a step of the decoder.
LEMMA HNextIsNext == [HNext]_hvars => [Next]_vars
BY DEF HNext, hvars, vars

\* A turn of the loop ends with one bit more, or with the call; it does not
\* begin a call, so the history follows it.
LEMMA TurnFollowed ==
  ASSUME HInv, HNext, NEW in \in Bit, Take(in)
  PROVE  Follow
<1>1. inp \in Nat /\ FrameBits # 0 /\ FrameBits \in Nat
  BY Counters DEF HInv, IInv, TypeOK
<1>2. inp' = inp + 1 \/ inp' = FrameBits
  BY Zenon DEF Take, HeaderBit, LastHeaderBit, FrameBit, SearchBit, HeadFound,
     FrameInOrder, MissingSync, DataFound, UnexpectedSync, Finish, Continue, Fail
<1>3. inp' # 0
  BY <1>1, <1>2
<1> QED
  BY <1>3, Zenon DEF HNext

\* The history variables at the construction.
LEMMA HInitInv == HInit => HInv
<1> SUFFICES ASSUME HInit PROVE HInv
  OBVIOUS
<1>1. IInv
  BY InitInv DEF HInit
<1>2. SinceOK /\ UnsyncedOK /\ HalfOK
  BY DEF HInit, Init, SinceOK, UnsyncedOK, HalfOK
<1> QED
  BY <1>1, <1>2 DEF HInv

(***************************************************************************)
(* since stays in step with index.                                         *)
(***************************************************************************)
LEMMA SinceStep ==
  ASSUME HInv, HNext PROVE SinceOK'
<1>0. IInv
  BY DEF HInv
<1>1. CASE Call
  <2>1. inp' = 0
    BY <1>1, Zenon DEF Call
  <2> QED
    BY <1>1, <2>1, Zenon DEF Call, HNext, HInv, SinceOK
<1>2. ASSUME NEW in \in Bit, Take(in) PROVE SinceOK'
  <2>1. Follow
    BY <1>2, TurnFollowed
  <2>2. CASE readmode' = "nullmode" \/ ~running'
    BY <2>2 DEF SinceOK
  <2>3. CASE /\ readmode' # "nullmode" /\ running'
             /\ HeaderBit \/ FrameBit(in)
    <3>1. since = index
      BY <2>3, Zenon DEF HeaderBit, FrameBit, InCall, HInv, SinceOK
    <3>2. index' = index + 1
      <4>1. CASE HeaderBit
        BY <4>1, Zenon DEF HeaderBit, Continue
      <4>2. CASE FrameBit(in)
        BY <2>3, <4>2, Zenon DEF FrameBit, Finish, Continue
      <4> QED
        BY <2>3, <4>1, <4>2
    <3>3. calls' = <<>>
      BY <2>3, Zenon DEF HeaderBit, FrameBit, Finish, Continue
    <3>4. \A name : ~tells(name)
      BY <3>3, SaysNone DEF tells, Says
    <3>5. since' = since + 1
      BY <2>1, <2>3, <3>4, Zenon DEF Follow
    <3> QED
      BY <3>1, <3>2, <3>5, Zenon DEF SinceOK
  <2>4. CASE /\ readmode' # "nullmode" /\ running'
             /\ LastHeaderBit \/ HeadFound(in)
    <3>1. index' = 0
      BY <2>4, Zenon DEF LastHeaderBit, HeadFound, Continue
    <3>2. calls' = <<"SetHeader">> \/ calls' = <<"headsync">>
      BY <2>4, Zenon DEF LastHeaderBit, HeadFound, Continue
    <3>3. tells("SetHeader") \/ tells("headsync")
      BY <3>2, SaysOne DEF tells, Says
    <3>4. since' = 0
      BY <2>1, <3>3, Zenon DEF Follow
    <3> QED
      BY <3>1, <3>4, Zenon DEF SinceOK
  <2>5. CASE /\ readmode' # "nullmode" /\ running'
             /\ \E ok \in BOOLEAN : \/ FrameInOrder(in, ok)
                                  \/ MissingSync(in, ok)
                                  \/ DataFound(in, ok)
    <3> PICK ok \in BOOLEAN : \/ FrameInOrder(in, ok)
                             \/ MissingSync(in, ok)
                             \/ DataFound(in, ok)
      BY <2>5
    <3>1. running /\ (running' = FALSE \/ index' = 0)
      BY <2>5, Zenon DEF FrameInOrder, MissingSync, DataFound, Finish, Continue, Fail,
         LastFrameBit, InCall
    <3>2. tells("Add3") \/ tells("datasync")
      BY OrderTells, MissingTells, FoundTells, Zenon
    <3>3. since' = 0
      BY <2>1, <3>2, Zenon DEF Follow
    <3> QED
      BY <2>5, <3>1, <3>3, Zenon DEF SinceOK
  <2>6. CASE /\ readmode' # "nullmode" /\ running'
             /\ \E good \in 0 .. 2 : UnexpectedSync(in, good)
    <3> PICK good \in 0 .. 2 : UnexpectedSync(in, good)
      BY <2>6
    <3>1. running' = FALSE \/ index' = 0
      BY <2>6, Zenon DEF UnexpectedSync, Finish, Continue, Fail
    <3>2. tells("Add3")
      BY UnexpectedTells
    <3>3. since' = 0
      BY <2>1, <3>2, Zenon DEF Follow
    <3> QED
      BY <2>6, <3>1, <3>3, Zenon DEF SinceOK
  <2>7. CASE SearchBit(in) /\ readmode' # "nullmode"
    <3>1. readmode' = "nullmode"
      BY <2>7, Zenon DEF SearchBit, Finish, Continue
    <3> QED
      BY <2>7, <3>1
  <2> QED
    BY <1>2, <2>2, <2>3, <2>4, <2>5, <2>6, <2>7, Zenon DEF Take
<1> QED
  BY <1>1, <1>2, Zenon DEF HNext, Next

(***************************************************************************)
(* voiceframecount stays in step with the syncs.                           *)
(***************************************************************************)
LEMMA UnsyncedStep ==
  ASSUME HInv, HNext PROVE UnsyncedOK'
<1>0. IInv /\ SyncPeriod \in Nat \ {0, 1}
  BY Counters DEF HInv
<1>1. CASE Call
  <2>1. inp' = 0
    BY <1>1, Zenon DEF Call
  <2> QED
    BY <1>1, <2>1, Zenon DEF Call, HNext, HInv, UnsyncedOK
<1>2. ASSUME NEW in \in Bit, Take(in) PROVE UnsyncedOK'
  <2>1. Follow
    BY <1>2, TurnFollowed
  <2>2. CASE readmode' # "datamode" \/ ~running'
    BY <2>2 DEF UnsyncedOK
  <2> SUFFICES ASSUME readmode' = "datamode", running' PROVE UnsyncedOK'
    BY <2>2
  <2>3. CASE FrameBit(in)
    <3>1. voiceframecount' = voiceframecount
      BY <2>3, Zenon DEF FrameBit, Finish, Continue
    <3>2. ~tells("SetHeader") /\ ~tells("datasync") /\ ~tells("Add3")
      BY <2>3, QuietTells
    <3>3. unsynced' = unsynced
      BY <2>1, <3>2 DEF Follow
    <3>4. running /\ readmode = "datamode"
      BY <2>3, Zenon DEF FrameBit, InCall
    <3> QED
      BY <3>1, <3>3, <3>4 DEF HInv, UnsyncedOK
  <2>4. CASE LastHeaderBit
    <3>1. voiceframecount' = 0
      BY <2>4, Zenon DEF LastHeaderBit, Continue
    <3>2. unsynced' = SyncPeriod - 1
      BY <2>1, <2>4, HeaderTells DEF Follow
    <3> QED
      BY <1>0, <3>1, <3>2 DEF UnsyncedOK
  <2>5. ASSUME NEW ok \in BOOLEAN, FrameInOrder(in, ok) PROVE UnsyncedOK'
    <3>1. voiceframecount' = NextFrame
      BY <2>5, Zenon DEF FrameInOrder, Finish, Continue, Fail
    <3>2. /\ running /\ readmode = "datamode"
          /\ IsDataSync(sr') <=> voiceframecount = 0
      BY <2>5, Zenon DEF FrameInOrder, LastFrameBit, InCall, SyncDue
    <3>3. /\ unsynced \in 0 .. SyncPeriod - 1
          /\ voiceframecount = IF unsynced = SyncPeriod - 1 THEN 0 ELSE unsynced + 1
      BY <3>2 DEF HInv, UnsyncedOK
    <3>4. unsynced' = IF IsDataSync(sr') THEN 0 ELSE unsynced + 1
      <4>1. unsynced < SyncPeriod
        BY <1>0, <3>3
      <4> QED
        BY <2>1, <2>5, <4>1, OrderTells DEF Follow
    <3>5. CASE unsynced = SyncPeriod - 1
      <4>1. voiceframecount = 0 /\ IsDataSync(sr')
        BY <3>2, <3>3, <3>5
      <4>2. voiceframecount' = 1 /\ unsynced' = 0
        BY <1>0, <3>1, <3>4, <4>1 DEF NextFrame
      <4> QED
        BY <1>0, <4>2 DEF UnsyncedOK
    <3>6. CASE unsynced # SyncPeriod - 1
      <4>1. voiceframecount = unsynced + 1 /\ ~IsDataSync(sr')
        BY <1>0, <3>2, <3>3, <3>6
      <4>2. unsynced' = unsynced + 1 /\ unsynced + 1 \in 0 .. SyncPeriod - 1
        BY <1>0, <3>4, <3>3, <3>6, <4>1
      <4>3. voiceframecount' = IF unsynced + 2 = SyncPeriod THEN 0 ELSE unsynced + 2
        BY <1>0, <3>1, <3>3, <3>6, <4>1 DEF NextFrame
      <4> QED
        BY <1>0, <3>3, <4>2, <4>3 DEF UnsyncedOK
    <3> QED
      BY <3>5, <3>6
  <2>6. ASSUME NEW ok \in BOOLEAN, DataFound(in, ok) PROVE UnsyncedOK'
    <3>1. voiceframecount' = 1
      BY <2>6, Zenon DEF DataFound, Finish, Continue, Fail, AfterSync
    <3>2. unsynced' = 0
      BY <2>1, <2>6, FoundTells DEF Follow
    <3> QED
      BY <1>0, <3>1, <3>2 DEF UnsyncedOK
  <2>7. ASSUME NEW good \in 0 .. 2, UnexpectedSync(in, good) PROVE UnsyncedOK'
    <3>1. good = 2
      BY <2>7, Zenon DEF UnexpectedSync, Fail
    <3>2. voiceframecount' = 1
      BY <2>7, <3>1, Zenon DEF UnexpectedSync, Finish, Continue, Fail, AfterSync
    <3>3. unsynced' = 0
      BY <2>1, <2>7, <3>1, UnexpectedTells DEF Follow
    <3> QED
      BY <1>0, <3>2, <3>3 DEF UnsyncedOK
  <2>8. ~HeaderBit /\ ~SearchBit(in) /\ ~HeadFound(in)
    BY Zenon DEF HeaderBit, SearchBit, HeadFound, Finish, Continue
  <2>9. ASSUME NEW ok \in BOOLEAN PROVE ~MissingSync(in, ok)
    BY Zenon DEF MissingSync, Finish, Continue, Fail
  <2> QED
    BY <1>2, <2>3, <2>4, <2>5, <2>6, <2>7, <2>8, <2>9, Zenon DEF Take
<1> QED
  BY <1>1, <1>2, Zenon DEF HNext, Next

(***************************************************************************)
(* half stays in step with index, from a first half to the second.         *)
(***************************************************************************)
LEMMA HalfStep ==
  ASSUME HInv, HNext PROVE HalfOK'
<1>0. /\ IInv /\ SyncPeriod \in Nat \ {0, 1} /\ FrameBits \in Nat
      /\ voiceframecount \in 0 .. SyncPeriod - 1
  BY Counters DEF HInv, IInv, TypeOK
<1>1. CASE Call
  <2>1. inp' = 0
    BY <1>1, Zenon DEF Call
  <2>2. UNCHANGED <<running, readmode, voiceframecount, index, half>>
    BY <1>1, <2>1, Zenon DEF Call, HNext
  <2> QED
    BY <2>2 DEF HInv, HalfOK, SecondHalf
<1>2. ASSUME NEW in \in Bit, Take(in) PROVE HalfOK'
  <2>1. Follow
    BY <1>2, TurnFollowed
  <2>2. CASE ~(readmode' = "datamode" /\ running' /\ SecondHalf')
    BY <2>2 DEF HalfOK
  <2> SUFFICES ASSUME readmode' = "datamode", running', SecondHalf' PROVE HalfOK'
    BY <2>2
  <2>3. voiceframecount' # 0 /\ voiceframecount' # 1
    BY DEF SecondHalf
  <2>4. CASE FrameBit(in)
    <3>1. voiceframecount' = voiceframecount /\ index' = index + 1
      BY <2>4, Zenon DEF FrameBit, Finish, Continue
    <3>2. running /\ readmode = "datamode" /\ index + 1 < FrameBits
      <4>1. running /\ readmode = "datamode" /\ ~(index + 1 >= FrameBits)
        BY <2>4, Zenon DEF FrameBit, InCall, FrameFull
      <4>2. index \in Nat
        BY <1>0, <4>1, Counters DEF IInv, TypeOK
      <4> QED
        BY <1>0, <4>1, <4>2
    <3>3. half = index /\ index \in Nat
      BY <1>0, <3>1, <3>2, Counters DEF HInv, HalfOK, SecondHalf, IInv, TypeOK
    <3>4. ~tells("Add3")
      BY <2>4, QuietTells
    <3>5. half' = half + 1
      BY <1>0, <2>1, <3>2, <3>3, <3>4 DEF Follow
    <3> QED
      BY <3>1, <3>3, <3>5 DEF HalfOK
  <2>5. ~LastHeaderBit
    BY <2>3, Zenon DEF LastHeaderBit, Continue
  <2>6. ASSUME NEW ok \in BOOLEAN, FrameInOrder(in, ok) PROVE HalfOK'
    <3>1. voiceframecount' = NextFrame /\ index' = 0
      BY <2>6, Zenon DEF FrameInOrder, Finish, Continue, Fail
    <3>2. FirstHalf
      <4>1. voiceframecount' = voiceframecount + 1
        BY <1>0, <2>3, <3>1 DEF NextFrame
      <4>2. (voiceframecount + 1) % 2 = 0
        BY <4>1 DEF SecondHalf
      <4> QED
        BY <1>0, <4>2 DEF FirstHalf
    <3>3. half' = 0
      BY <2>1, <2>6, <3>2, OrderTells DEF Follow
    <3> QED
      BY <3>1, <3>3 DEF HalfOK
  <2>7. ASSUME NEW ok \in BOOLEAN PROVE ~DataFound(in, ok)
    BY <2>3, Zenon DEF DataFound, Finish, Continue, Fail, AfterSync
  <2>8. ASSUME NEW good \in 0 .. 2 PROVE ~UnexpectedSync(in, good)
    BY <2>3, Zenon DEF UnexpectedSync, Finish, Continue, Fail, AfterSync
  <2>9. ~HeaderBit /\ ~SearchBit(in) /\ ~HeadFound(in)
    BY Zenon DEF HeaderBit, SearchBit, HeadFound, Finish, Continue
  <2>10. ASSUME NEW ok \in BOOLEAN PROVE ~MissingSync(in, ok)
    BY Zenon DEF MissingSync, Finish, Continue, Fail
  <2> QED
    BY <1>2, <2>4, <2>5, <2>6, <2>7, <2>8, <2>9, <2>10, Zenon DEF Take
<1> QED
  BY <1>1, <1>2, Zenon DEF HNext, Next

(***************************************************************************)
(* The history's invariant is inductive.                                   *)
(***************************************************************************)
THEOREM HistoryInvariant == HSpec => []HInv
<1>1. HInit => HInv
  BY HInitInv
<1>2. HInv /\ [HNext]_hvars => HInv'
  <2> SUFFICES ASSUME HInv, [HNext]_hvars PROVE HInv'
    OBVIOUS
  <2>1. IInv'
    BY HNextIsNext, StepInv DEF HInv
  <2>2. CASE HNext
    BY <2>1, <2>2, SinceStep, UnsyncedStep, HalfStep DEF HInv
  <2>3. CASE UNCHANGED hvars
    BY <2>1, <2>3 DEF hvars, HInv, SinceOK, UnsyncedOK, HalfOK, SecondHalf
  <2> QED
    BY <2>2, <2>3
<1> QED
  BY <1>1, <1>2, PTL DEF HSpec

\* A stutter tells nothing that this lemma's theorems ask about: each of them
\* is about a step, of Call or of one turn of the loop.
LEMMA StepOfHistory ==
  ASSUME HNext
  PROVE  Call \/ \E in \in Bit : Take(in)
BY Zenon DEF HNext, Next

(***************************************************************************)
(* Headers and voice frames are handed on whole, each bit once.            *)
(***************************************************************************)
THEOREM WholeFramesHold == HSpec => WholeFrames
<1> DEFINE A == /\ tells("SetHeader") => since + 1 = HeaderBits
                /\ tells("Add3") => since + 1 = FrameBits
<1>1. ASSUME HInv, HNext PROVE A
  <2>0. IInv
    BY <1>1 DEF HInv
  <2>1. CASE Call
    <3>1. 0 \in Bit
      BY DEF Bit
    <3> QED
      BY <2>1, <3>1, QuietTells
  <2>2. ASSUME NEW in \in Bit, Take(in) PROVE A
    <3>1. CASE HeaderBit \/ FrameBit(in) \/ SearchBit(in) \/ HeadFound(in)
      BY <3>1, QuietTells
    <3>2. CASE LastHeaderBit
      <4>1. running /\ readmode = "headmode" /\ index + 1 >= HeaderBits
        BY <3>2, Zenon DEF LastHeaderBit, InCall, HeaderFull
      <4>2. since = index /\ index \in 0 .. HeaderBits - 1
        BY <1>1, <2>0, <4>1 DEF HInv, SinceOK, IInv, IndexOK
      <4>3. since + 1 = HeaderBits
        BY <4>1, <4>2, Counters
      <4> QED
        BY <3>2, <4>3, HeaderTells
    <3>3. ASSUME LastFrameBit(in) PROVE since + 1 = FrameBits
      <4>1. running /\ readmode = "datamode" /\ index + 1 >= FrameBits
        BY <3>3, Zenon DEF LastFrameBit, InCall, FrameFull
      <4>2. since = index /\ index \in 0 .. FrameBits - 1
        BY <1>1, <2>0, <4>1 DEF HInv, SinceOK, IInv, IndexOK
      <4> QED
        BY <4>1, <4>2, Counters
    <3>4. ASSUME NEW ok \in BOOLEAN, FrameInOrder(in, ok) PROVE A
      <4>1. LastFrameBit(in)
        BY <3>4, Zenon DEF FrameInOrder
      <4> QED
        BY <3>3, <3>4, <4>1, OrderTells
    <3>5. ASSUME NEW ok \in BOOLEAN, MissingSync(in, ok) PROVE A
      <4>1. LastFrameBit(in)
        BY <3>5, Zenon DEF MissingSync
      <4> QED
        BY <3>3, <3>5, <4>1, MissingTells
    <3>6. ASSUME NEW ok \in BOOLEAN, DataFound(in, ok) PROVE A
      BY <3>6, FoundTells
    <3>7. ASSUME NEW good \in 0 .. 2, UnexpectedSync(in, good) PROVE A
      <4>1. LastFrameBit(in)
        BY <3>7, Zenon DEF UnexpectedSync
      <4> QED
        BY <3>3, <3>7, <4>1, UnexpectedTells
    <3> HIDE DEF A
    <3> QED
      BY <2>2, <3>1, <3>2, <3>4, <3>5, <3>6, <3>7, Zenon DEF Take
  <2> QED
    BY <1>1, <2>1, <2>2, StepOfHistory
<1>2. HInv /\ [HNext]_hvars => [A]_hvars
  BY <1>1
<1>3. HSpec => [][A]_hvars
  BY <1>2, HistoryInvariant, PTL DEF HSpec
<1> QED
  BY <1>3 DEF WholeFrames

(***************************************************************************)
(* A frame is complained of exactly when its sync, or its lack of one,     *)
(* does not fit the distance from the sync before.                         *)
(***************************************************************************)
THEOREM SyncJudgedHolds == HSpec => SyncJudged
<1> DEFINE Due == unsynced = SyncPeriod - 1
           A == tells("Add3") => ((tells("missing") \/ tells("unexpected")) <=>
                                    (IsDataSync(sr') # Due))
<1>1. ASSUME HInv, HNext PROVE A
  <2>1. CASE Call
    <3>1. 0 \in Bit
      BY DEF Bit
    <3> QED
      BY <2>1, <3>1, QuietTells
  <2>2. ASSUME NEW in \in Bit, Take(in) PROVE A
    <3>1. ASSUME LastFrameBit(in) PROVE SyncDue <=> Due
      <4>1. running /\ readmode = "datamode"
        BY <3>1, Zenon DEF LastFrameBit, InCall
      <4>2. /\ unsynced \in 0 .. SyncPeriod - 1
            /\ voiceframecount = IF unsynced = SyncPeriod - 1 THEN 0 ELSE unsynced + 1
        BY <1>1, <4>1 DEF HInv, UnsyncedOK
      <4> QED
        BY <4>2, Counters DEF SyncDue
    <3>2. CASE HeaderBit \/ FrameBit(in) \/ SearchBit(in) \/ HeadFound(in)
      BY <3>2, QuietTells
    <3>3. CASE LastHeaderBit
      BY <3>3, HeaderTells
    <3>4. ASSUME NEW ok \in BOOLEAN, DataFound(in, ok) PROVE A
      BY <3>4, FoundTells
    <3> HIDE DEF Due
    <3>5. IsDataSync(sr') \in BOOLEAN
      BY DEF IsDataSync
    <3>6. ASSUME NEW ok \in BOOLEAN, FrameInOrder(in, ok) PROVE A
      <4>1. LastFrameBit(in) /\ (IsDataSync(sr') <=> SyncDue)
        BY <3>6, Zenon DEF FrameInOrder
      <4>2. IsDataSync(sr') <=> Due
        BY <3>1, <4>1
      <4>3. IsDataSync(sr') = Due
        BY <3>5, <4>2 DEF Due
      <4> QED
        BY <3>6, <4>3, OrderTells
    <3>7. ASSUME NEW ok \in BOOLEAN, MissingSync(in, ok) PROVE A
      <4>1. LastFrameBit(in) /\ SyncDue /\ ~IsDataSync(sr')
        BY <3>7, Zenon DEF MissingSync
      <4> QED
        BY <3>1, <3>7, <4>1, MissingTells
    <3>8. ASSUME NEW good \in 0 .. 2, UnexpectedSync(in, good) PROVE A
      <4>1. LastFrameBit(in) /\ ~SyncDue /\ IsDataSync(sr')
        BY <3>8, Zenon DEF UnexpectedSync
      <4> QED
        BY <3>1, <3>8, <4>1, UnexpectedTells
    <3> HIDE DEF A
    <3> QED
      BY <2>2, <3>2, <3>3, <3>4, <3>6, <3>7, <3>8, Zenon DEF Take
  <2> QED
    BY <1>1, <2>1, <2>2, StepOfHistory
<1>2. HInv /\ [HNext]_hvars => [A]_hvars
  BY <1>1
<1>3. HSpec => [][A]_hvars
  BY <1>2, HistoryInvariant, PTL DEF HSpec
<1> QED
  BY <1>3 DEF SyncJudged

(***************************************************************************)
(* No frame's audio is overwritten before the caller has had it, but by a  *)
(* frame that a sync in the stream has made out.                           *)
(***************************************************************************)
THEOREM NoAudioLostHolds == HSpec => NoAudioLost
<1> DEFINE A == audio_ready /\ tells("DecodeData") => tells("datasync") /\ ~tells("Add3")
<1>1. ASSUME HInv, HNext PROVE A
  <2>0. IInv
    BY <1>1 DEF HInv
  <2>1. CASE Call
    <3>1. 0 \in Bit
      BY DEF Bit
    <3> QED
      BY <2>1, <3>1, QuietTells
  <2>2. ASSUME NEW in \in Bit, Take(in) PROVE A
    <3>1. CASE HeaderBit \/ FrameBit(in) \/ SearchBit(in) \/ HeadFound(in)
      BY <3>1, QuietTells
    <3>2. CASE LastHeaderBit
      BY <3>2, HeaderTells
    <3>3. CASE LastFrameBit(in)
      BY <2>0, <3>3, LastBitFacts
    <3>4. ASSUME NEW ok \in BOOLEAN, DataFound(in, ok) PROVE A
      BY <3>4, FoundTells
    <3>5. ASSUME NEW ok \in BOOLEAN, NEW good \in 0 .. 2,
                 FrameInOrder(in, ok) \/ MissingSync(in, ok) \/ UnexpectedSync(in, good)
          PROVE  LastFrameBit(in)
      BY <3>5, Zenon DEF FrameInOrder, MissingSync, UnexpectedSync
    <3>6. TRUE \in BOOLEAN /\ 0 \in 0 .. 2
      OBVIOUS
    <3> HIDE DEF A
    <3> QED
      BY <2>2, <3>1, <3>2, <3>3, <3>4, <3>5, <3>6, Zenon DEF Take
  <2> QED
    BY <1>1, <2>1, <2>2, StepOfHistory
<1>2. HInv /\ [HNext]_hvars => [A]_hvars
  BY <1>1
<1>3. HSpec => [][A]_hvars
  BY <1>2, HistoryInvariant, PTL DEF HSpec
<1> QED
  BY <1>3 DEF NoAudioLost

(***************************************************************************)
(* When the parser gets a second half of slow data, the first half that it *)
(* keeps is of the voice frame right before.                               *)
(***************************************************************************)
THEOREM HalvesAdjacentHolds == HSpec => HalvesAdjacent
<1> DEFINE A == tells("Add3") /\ SecondHalf => half + 1 = FrameBits
<1>1. ASSUME HInv, HNext PROVE A
  <2>0. IInv
    BY <1>1 DEF HInv
  <2>1. CASE Call
    <3>1. 0 \in Bit
      BY DEF Bit
    <3> QED
      BY <2>1, <3>1, QuietTells
  <2>2. ASSUME NEW in \in Bit, Take(in) PROVE A
    <3>1. CASE HeaderBit \/ FrameBit(in) \/ SearchBit(in) \/ HeadFound(in)
      BY <3>1, QuietTells
    <3>2. CASE LastHeaderBit
      BY <3>2, HeaderTells
    <3>3. ASSUME LastFrameBit(in) PROVE A
      <4>1. running /\ readmode = "datamode" /\ index + 1 >= FrameBits
        BY <3>3, Zenon DEF LastFrameBit, InCall, FrameFull
      <4>2. SecondHalf => half = index
        BY <1>1, <4>1 DEF HInv, HalfOK
      <4>3. index \in 0 .. FrameBits - 1
        BY <2>0, <4>1 DEF IInv, IndexOK
      <4> QED
        BY <4>1, <4>2, <4>3, Counters
    <3>4. ASSUME NEW ok \in BOOLEAN, DataFound(in, ok) PROVE A
      BY <3>4, FoundTells
    <3>5. ASSUME NEW ok \in BOOLEAN, NEW good \in 0 .. 2,
                 FrameInOrder(in, ok) \/ MissingSync(in, ok) \/ UnexpectedSync(in, good)
          PROVE  LastFrameBit(in)
      BY <3>5, Zenon DEF FrameInOrder, MissingSync, UnexpectedSync
    <3>6. TRUE \in BOOLEAN /\ 0 \in 0 .. 2
      OBVIOUS
    <3> HIDE DEF A
    <3> QED
      BY <2>2, <3>1, <3>2, <3>3, <3>4, <3>5, <3>6, Zenon DEF Take
  <2> QED
    BY <1>1, <2>1, <2>2, StepOfHistory
<1>2. HInv /\ [HNext]_hvars => [A]_hvars
  BY <1>1
<1>3. HSpec => [][A]_hvars
  BY <1>2, HistoryInvariant, PTL DEF HSpec
<1> QED
  BY <1>3 DEF HalvesAdjacent

-----------------------------------------------------------------------------
(***************************************************************************)
(* For every frame and header size, sync period, patterns and station that *)
(* the assumptions allow: whatever the decoder was fed before, it is in    *)
(* step with the station after Enough bits and stays so.                   *)
(***************************************************************************)
MinOf(a, b) == IF a < b THEN a ELSE b

\* the frames that carry such a number, and those that come before them
Frames(n) == IF n = 0 THEN SyncFrames ELSE PlainFrames
FramesBefore(n) == IF n = 1 THEN SyncFrames ELSE PlainFrames

\* the newest c bits are the same
Agree(d, e, c) == \A i \in 0 .. c - 1 : Ago(d, i) = Ago(e, i)

\* the newest c bits of d are the last that the station has sent
OnAir(d, now, n, p, c) ==
  \E before \in FramesBefore(n) : Agree(d, RegisterOf(LastBits(before, now, p)), c)

\* all but the newest c bits of d are what is left of a header sync
HeadThen(d, c) == \A i \in c .. Width - 1 : Ago(d, i) = Ago(HeadSync, i - c)

\* bits to the end of the next frame with a sync, from bit at of frame n on
ToSync(at, n) == (IF n = 0 THEN 1 ELSE SyncPeriod - n + 1) * FrameBits - at
Period == SyncPeriod * FrameBits

-----------------------------------------------------------------------------
\* The sizes of the registers, the patterns and the frames.
LEMMA Sizes ==
  /\ WordBits \in Nat \ {0}
  /\ Width = 3 * WordBits /\ FrameBits = Width
  /\ DataSyncBits \in 1 .. WordBits
  /\ TermHighBits \in 0 .. WordBits
  /\ TermBits = WordBits + TermHighBits
BY SizeAssumption DEF Width, FrameBits, TermBits

\* A bit that is pushed is the newest, and the others are one older.
LEMMA AgoPushed ==
  ASSUME NEW d \in Words, NEW in \in Bit
  PROVE  /\ Ago(Pushed(d, in), 0) = in
         /\ \A i \in 1 .. Width - 1 : Ago(Pushed(d, in), i) = Ago(d, i - 1)
<1> DEFINE e == Pushed(d, in)
<1>1. in % 2 = in
  BY DEF Bit
<1>2. \A j \in 0 .. 2 : d[j] \in Word
  BY DEF Words
<1>3. /\ e[0] = ShiftIn(d[0], in)
      /\ e[1] = ShiftIn(d[1], TopBit(d[0]))
      /\ e[2] = ShiftIn(d[2], TopBit(d[1]))
  BY DEF Pushed
<1>4. /\ TopBit(d[0]) % 2 = d[0][WordBits - 1]
      /\ TopBit(d[1]) % 2 = d[1][WordBits - 1]
  <2>1. d[0][WordBits - 1] \in Bit /\ d[1][WordBits - 1] \in Bit
    BY <1>2, Sizes DEF Word
  <2> QED
    BY <2>1 DEF TopBit, Bit
<1>5. /\ e[0][0] = in /\ e[1][0] = d[0][WordBits - 1] /\ e[2][0] = d[1][WordBits - 1]
  BY <1>1, <1>3, <1>4, Sizes DEF ShiftIn
<1>6. \A b \in 1 .. WordBits - 1 :
        e[0][b] = d[0][b - 1] /\ e[1][b] = d[1][b - 1] /\ e[2][b] = d[2][b - 1]
  BY <1>3, Sizes DEF ShiftIn
<1> HIDE DEF e
<1>7. Ago(e, 0) = in
  BY <1>5, Sizes DEF Ago
<1>8. ASSUME NEW i \in 1 .. Width - 1 PROVE Ago(e, i) = Ago(d, i - 1)
  <2>1. CASE i < WordBits
    BY <1>6, <2>1, Sizes DEF Ago
  <2>2. CASE i = WordBits
    BY <1>5, <2>2, Sizes DEF Ago
  <2>3. CASE i > WordBits /\ i < 2 * WordBits
    <3>1. i - WordBits \in 1 .. WordBits - 1 /\ (i - WordBits) - 1 = (i - 1) - WordBits
      BY <2>3, Sizes
    <3>2. Ago(e, i) = e[1][i - WordBits] /\ Ago(d, i - 1) = d[1][(i - 1) - WordBits]
      BY <2>3, Sizes DEF Ago
    <3> QED
      BY <1>6, <3>1, <3>2
  <2>4. CASE i = 2 * WordBits
    <3>1. (i - 1) - WordBits = WordBits - 1 /\ i - 2 * WordBits = 0
      BY <2>4, Sizes
    <3>2. Ago(e, i) = e[2][i - 2 * WordBits] /\ Ago(d, i - 1) = d[1][(i - 1) - WordBits]
      BY <2>4, Sizes DEF Ago
    <3> QED
      BY <1>5, <3>1, <3>2
  <2>5. CASE i > 2 * WordBits
    <3>1. /\ i - 2 * WordBits \in 1 .. WordBits - 1
          /\ (i - 2 * WordBits) - 1 = (i - 1) - 2 * WordBits
      BY <2>5, Sizes
    <3>2. /\ Ago(e, i) = e[2][i - 2 * WordBits]
          /\ Ago(d, i - 1) = d[2][(i - 1) - 2 * WordBits]
      BY <2>5, Sizes DEF Ago
    <3> QED
      BY <1>6, <3>1, <3>2
  <2> QED
    BY <2>1, <2>2, <2>3, <2>4, <2>5, Sizes
<1> QED
  BY <1>7, <1>8 DEF e

\* A register made of given bits has them, and its words are words.
LEMMA AgoRegister ==
  ASSUME NEW air \in [0 .. Width - 1 -> Bit]
  PROVE  /\ RegisterOf(air) \in Words
         /\ \A i \in 0 .. Width - 1 : Ago(RegisterOf(air), i) = air[i]
<1> DEFINE d == RegisterOf(air)
<1>1. \A b \in 0 .. WordBits - 1 :
        /\ d[0][b] = air[b]
        /\ d[1][b] = air[WordBits + b]
        /\ d[2][b] = air[2 * WordBits + b]
  BY Sizes DEF RegisterOf
<1>2. d \in Words
  <2>1. ASSUME NEW j \in 0 .. 2, NEW b \in 0 .. WordBits - 1
        PROVE  air[j * WordBits + b] \in Bit
    <3>1. j * WordBits + b \in 0 .. Width - 1
      <4>1. j = 0 \/ j = 1 \/ j = 2
        OBVIOUS
      <4> QED
        BY <4>1, Sizes
    <3> QED
      BY <3>1
  <2> QED
    BY <2>1 DEF RegisterOf, Words, Word
<1> HIDE DEF d
<1>3. ASSUME NEW i \in 0 .. Width - 1 PROVE Ago(d, i) = air[i]
  <2>1. CASE i < WordBits
    BY <1>1, <2>1, Sizes DEF Ago
  <2>2. CASE ~(i < WordBits) /\ i < 2 * WordBits
    <3>1. i - WordBits \in 0 .. WordBits - 1 /\ WordBits + (i - WordBits) = i
      BY <2>2, Sizes
    <3> QED
      BY <1>1, <2>2, <3>1 DEF Ago
  <2>3. CASE ~(i < WordBits) /\ ~(i < 2 * WordBits)
    <3>1. i - 2 * WordBits \in 0 .. WordBits - 1 /\ 2 * WordBits + (i - 2 * WordBits) = i
      BY <2>3, Sizes
    <3> QED
      BY <1>1, <2>3, <3>1 DEF Ago
  <2> QED
    BY <2>1, <2>2, <2>3
<1> QED
  BY <1>2, <1>3 DEF d

\* The bits that Ago names are those of the words.
LEMMA WordsByAge ==
  ASSUME NEW d \in Words
  PROVE  \A b \in 0 .. WordBits - 1 :
           /\ Ago(d, b) = d[0][b]
           /\ Ago(d, WordBits + b) = d[1][b]
           /\ Ago(d, 2 * WordBits + b) = d[2][b]
<1> SUFFICES ASSUME NEW b \in 0 .. WordBits - 1
             PROVE  /\ Ago(d, b) = d[0][b]
                    /\ Ago(d, WordBits + b) = d[1][b]
                    /\ Ago(d, 2 * WordBits + b) = d[2][b]
  OBVIOUS
<1>1. /\ (WordBits + b) - WordBits = b
      /\ (2 * WordBits + b) - 2 * WordBits = b
  BY Sizes
<1> QED
  BY <1>1, Sizes DEF Ago

\* Words with the same bits are the same.
LEMMA SameWord ==
  ASSUME NEW v \in Word, NEW w \in Word, \A b \in 0 .. WordBits - 1 : v[b] = w[b]
  PROVE  v = w
<1> DEFINE Places == 0 .. WordBits - 1
<1>1. v \in [Places -> Bit] /\ w \in [Places -> Bit] /\ \A b \in Places : v[b] = w[b]
  BY Zenon DEF Word
<1> HIDE DEF Places
<1> QED
  BY <1>1

\* The tests look at the newest bits only: all of them, or DataSyncBits, or
\* TermBits.
LEMMA SameTests ==
  ASSUME NEW d \in Words, NEW e \in Words, NEW c \in Nat, Agree(d, e, c)
  PROVE  /\ c >= Width => (IsHeadSync(d) <=> IsHeadSync(e))
         /\ c >= DataSyncBits => (IsDataSync(d) <=> IsDataSync(e))
         /\ c >= TermBits => (IsTermSync(d) <=> IsTermSync(e))
<1>1. \A i \in 0 .. c - 1 : Ago(d, i) = Ago(e, i)
  BY Zenon DEF Agree
<1>2. \A b \in 0 .. WordBits - 1 :
        /\ Ago(d, b) = d[0][b] /\ Ago(e, b) = e[0][b]
        /\ Ago(d, WordBits + b) = d[1][b] /\ Ago(e, WordBits + b) = e[1][b]
        /\ Ago(d, 2 * WordBits + b) = d[2][b] /\ Ago(e, 2 * WordBits + b) = e[2][b]
  BY WordsByAge, Zenon
<1>3. /\ d[0] \in Word /\ d[1] \in Word /\ d[2] \in Word
      /\ e[0] \in Word /\ e[1] \in Word /\ e[2] \in Word
  BY DEF Words
<1>4. ASSUME c >= WordBits PROVE d[0] = e[0]
  <2>1. \A b \in 0 .. WordBits - 1 : d[0][b] = e[0][b]
    BY <1>1, <1>2, <1>4, Sizes
  <2> QED
    BY <1>3, <2>1, SameWord
<1>5. ASSUME c >= Width PROVE d = e
  <2>1. /\ \A b \in 0 .. WordBits - 1 : d[1][b] = e[1][b]
        /\ \A b \in 0 .. WordBits - 1 : d[2][b] = e[2][b]
    <3> SUFFICES ASSUME NEW b \in 0 .. WordBits - 1
                 PROVE  d[1][b] = e[1][b] /\ d[2][b] = e[2][b]
      OBVIOUS
    <3>1. WordBits + b \in 0 .. c - 1 /\ 2 * WordBits + b \in 0 .. c - 1
      BY <1>5, Sizes
    <3> QED
      BY <1>1, <1>2, <3>1
  <2>2. d[0] = e[0]
    BY <1>4, <1>5, Sizes
  <2>3. d[1] = e[1] /\ d[2] = e[2]
    BY <1>3, <2>1, SameWord
  <2>4. \A j \in 0 .. 2 : d[j] = e[j]
    <3>1. \A j \in 0 .. 2 : j = 0 \/ j = 1 \/ j = 2
      OBVIOUS
    <3> QED
      BY <2>2, <2>3, <3>1, Zenon
  <2> QED
    BY <2>4 DEF Words
<1>6. ASSUME c >= DataSyncBits PROVE IsDataSync(d) <=> IsDataSync(e)
  <2>1. \A b \in 0 .. DataSyncBits - 1 : d[0][b] = e[0][b]
    BY <1>1, <1>2, <1>6, Sizes
  <2> QED
    BY <2>1 DEF IsDataSync
<1>7. ASSUME c >= TermBits PROVE IsTermSync(d) <=> IsTermSync(e)
  <2>1. d[0] = e[0]
    BY <1>4, <1>7, Sizes
  <2>2. \A b \in 0 .. TermHighBits - 1 : d[1][b] = e[1][b]
    <3> SUFFICES ASSUME NEW b \in 0 .. TermHighBits - 1 PROVE d[1][b] = e[1][b]
      OBVIOUS
    <3>1. b \in 0 .. WordBits - 1 /\ WordBits + b \in 0 .. c - 1
      BY <1>7, Sizes
    <3> QED
      BY <1>1, <1>2, <3>1
  <2> QED
    BY <2>1, <2>2 DEF IsTermSync
<1> QED
  BY <1>5, <1>6, <1>7

\* A frame in which one pattern passes does not pass the other.
LEMMA OneTestPasses ==
  ASSUME NEW d, IsDataSync(d)
  PROVE  ~IsTermSync(d) /\ ~IsHeadSync(d)
BY PatternAssumption, SizeAssumption DEF IsDataSync, IsTermSync, IsHeadSync

\* What is left of a header sync is not taken for a terminal sync.
LEMMA LeftOverIsNoTerm ==
  ASSUME NEW d \in Words, NEW c \in 1 .. TermBits - 1, HeadThen(d, c)
  PROVE  ~IsTermSync(d)
<1> SUFFICES ASSUME IsTermSync(d) PROVE FALSE
  OBVIOUS
<1>1. PICK i \in c .. TermBits - 1 : TermBit(i) # Ago(HeadSync, i - c)
  BY LeftOverAssumption
<1>2. i \in 0 .. TermBits - 1 /\ i \in c .. Width - 1
  BY <1>1, Sizes
<1>3. Ago(d, i) = Ago(HeadSync, i - c)
  BY <1>2 DEF HeadThen
<1>4. Ago(d, i) = TermBit(i)
  <2>1. CASE i < WordBits
    BY <2>1 DEF Ago, TermBit, IsTermSync
  <2>2. CASE ~(i < WordBits)
    <3>1. i < 2 * WordBits /\ i - WordBits \in 0 .. TermHighBits - 1
      BY <1>2, <2>2, Sizes
    <3> QED
      BY <2>2, <3>1 DEF Ago, TermBit, IsTermSync
  <2> QED
    BY <2>1, <2>2
<1> QED
  BY <1>1, <1>3, <1>4

-----------------------------------------------------------------------------
\* The last bits of two frames are bits.
LEMMA AirType ==
  ASSUME NEW before \in [1 .. FrameBits -> Bit], NEW now \in [1 .. FrameBits -> Bit],
         NEW p \in 0 .. FrameBits
  PROVE  LastBits(before, now, p) \in [0 .. Width - 1 -> Bit]
<1> SUFFICES ASSUME NEW i \in 0 .. Width - 1
             PROVE  (IF i < p THEN now[p - i] ELSE before[FrameBits + p - i]) \in Bit
  BY DEF LastBits
<1>1. CASE i < p
  <2>1. p - i \in 1 .. FrameBits
    BY <1>1, Sizes
  <2> QED
    BY <1>1, <2>1
<1>2. CASE ~(i < p)
  <2>1. FrameBits + p - i \in 1 .. FrameBits
    BY <1>2, Sizes
  <2> QED
    BY <1>2, <2>1
<1> QED
  BY <1>1, <1>2

\* The frames are sequences of bits, those of a number and those before it
\* follow each other, and the station has some of either kind.
LEMMA FramesFollow ==
  ASSUME NEW n \in 0 .. SyncPeriod - 1
  PROVE  /\ Frames(n) \subseteq [1 .. FrameBits -> Bit] /\ Frames(n) # {}
         /\ FramesBefore(n) \subseteq [1 .. FrameBits -> Bit] /\ FramesBefore(n) # {}
         /\ \A before \in FramesBefore(n), now \in Frames(n) :
              /\ Follows(before, now)
              /\ now \in SyncFrames <=> n = 0
         /\ Frames(n) \subseteq FramesBefore((n + 1) % SyncPeriod)
<1>1. (n + 1) % SyncPeriod = 1 <=> n = 0
  BY Counters
<1>2. /\ Frames(n) \subseteq [1 .. FrameBits -> Bit] /\ Frames(n) # {}
      /\ FramesBefore(n) \subseteq [1 .. FrameBits -> Bit] /\ FramesBefore(n) # {}
  BY StationAssumption DEF Frames, FramesBefore
<1>3. Frames(n) \subseteq FramesBefore((n + 1) % SyncPeriod)
  BY <1>1 DEF Frames, FramesBefore
<1>4. ASSUME NEW before \in FramesBefore(n), NEW now \in Frames(n)
      PROVE  Follows(before, now) /\ (now \in SyncFrames <=> n = 0)
  BY StationAssumption DEF Frames, FramesBefore, Follows
<1> QED
  BY <1>2, <1>3, <1>4

\* One more bit of the frame on the air, in the register.
LEMMA AirPushed ==
  ASSUME NEW d \in Words,
         NEW before \in [1 .. FrameBits -> Bit], NEW now \in [1 .. FrameBits -> Bit],
         NEW p \in 0 .. FrameBits - 1, NEW c \in 0 .. FrameBits,
         Agree(d, RegisterOf(LastBits(before, now, p)), c)
  PROVE  Agree(Pushed(d, now[p + 1]), RegisterOf(LastBits(before, now, p + 1)),
               MinOf(c + 1, FrameBits))
<1> DEFINE more == MinOf(c + 1, FrameBits)
           e == Pushed(d, now[p + 1])
<1>1. now[p + 1] \in Bit /\ p + 1 \in 0 .. FrameBits /\ p \in 0 .. FrameBits
  BY Sizes
<1>2. more <= FrameBits /\ more <= c + 1 /\ more \in Nat
  BY Sizes DEF MinOf
<1>3. /\ Ago(e, 0) = now[p + 1]
      /\ \A i \in 1 .. Width - 1 : Ago(e, i) = Ago(d, i - 1)
  BY <1>1, AgoPushed, Zenon
<1>4. \A i \in 0 .. Width - 1 :
        /\ Ago(RegisterOf(LastBits(before, now, p)), i) = LastBits(before, now, p)[i]
        /\ Ago(RegisterOf(LastBits(before, now, p + 1)), i) = LastBits(before, now, p + 1)[i]
  BY <1>1, AirType, AgoRegister, Zenon
<1>5. /\ LastBits(before, now, p + 1)[0] = now[p + 1]
      /\ \A i \in 1 .. Width - 1 : LastBits(before, now, p + 1)[i] = LastBits(before, now, p)[i - 1]
  <2>1. LastBits(before, now, p + 1)[0] = now[p + 1]
    <3>1. 0 \in 0 .. Width - 1 /\ 0 < p + 1 /\ (p + 1) - 0 = p + 1
      BY Sizes
    <3> QED
      BY <3>1 DEF LastBits
  <2>2. ASSUME NEW i \in 1 .. Width - 1
        PROVE  LastBits(before, now, p + 1)[i] = LastBits(before, now, p)[i - 1]
    <3>1. /\ i \in 0 .. Width - 1 /\ i - 1 \in 0 .. Width - 1
          /\ i < p + 1 <=> i - 1 < p
          /\ (p + 1) - i = p - (i - 1)
          /\ FrameBits + (p + 1) - i = FrameBits + p - (i - 1)
      BY Sizes
    <3> QED
      BY <3>1 DEF LastBits
  <2> QED
    BY <2>1, <2>2
<1> SUFFICES ASSUME NEW i \in 0 .. more - 1
             PROVE  Ago(e, i) = Ago(RegisterOf(LastBits(before, now, p + 1)), i)
  BY DEF Agree
<1> HIDE DEF more, e
<1>6. i \in 0 .. Width - 1 /\ (i # 0 => i \in 1 .. Width - 1 /\ i - 1 \in 0 .. c - 1
                                        /\ i - 1 \in 0 .. Width - 1)
  BY <1>2, Sizes
<1>7. CASE i = 0
  BY <1>3, <1>4, <1>5, <1>6, <1>7
<1>8. CASE i # 0
  <2>1. Ago(d, i - 1) = Ago(RegisterOf(LastBits(before, now, p)), i - 1)
    BY <1>6, <1>8 DEF Agree
  <2> QED
    BY <1>3, <1>4, <1>5, <1>6, <1>8, <2>1
<1> QED
  BY <1>7, <1>8

\* A whole frame is the one before the next.
LEMMA AirTurns ==
  ASSUME NEW d, NEW before, NEW now, NEW next, NEW c,
         Agree(d, RegisterOf(LastBits(before, now, FrameBits)), c)
  PROVE  Agree(d, RegisterOf(LastBits(now, next, 0)), c)
<1>1. LastBits(before, now, FrameBits) = LastBits(now, next, 0)
  <2> SUFFICES ASSUME NEW i \in 0 .. Width - 1
               PROVE  (IF i < FrameBits THEN now[FrameBits - i] ELSE before[FrameBits + FrameBits - i])
                        = (IF i < 0 THEN next[0 - i] ELSE now[FrameBits + 0 - i])
    BY DEF LastBits
  <2>1. i < FrameBits /\ ~(i < 0) /\ FrameBits + 0 - i = FrameBits - i
    BY Sizes
  <2> QED
    BY <2>1
<1> QED
  BY <1>1

(***************************************************************************)
(* One bit more from the station, in a register that has its last c bits:  *)
(* the register has one more of them, and what it can be taken for.        *)
(***************************************************************************)
LEMMA BitHeard ==
  ASSUME NEW d \in Words, NEW n \in 0 .. SyncPeriod - 1, NEW now \in Frames(n),
         NEW p \in 0 .. FrameBits - 1, NEW c \in 0 .. FrameBits, OnAir(d, now, n, p, c)
  PROVE  LET e == Pushed(d, now[p + 1])
             more == MinOf(c + 1, FrameBits)
         IN  /\ e \in Words
             /\ p + 1 < FrameBits => OnAir(e, now, n, p + 1, more)
             /\ p + 1 = FrameBits =>
                  \A next : OnAir(e, next, (n + 1) % SyncPeriod, 0, more)
             /\ c + 1 >= FrameBits => ~IsHeadSync(e)
             /\ c + 1 >= DataSyncBits => (IsDataSync(e) <=> p + 1 = FrameBits /\ n = 0)
             /\ c + 1 >= TermBits => ~IsTermSync(e)
<1> DEFINE e == Pushed(d, now[p + 1])
           more == MinOf(c + 1, FrameBits)
<1>1. PICK before \in FramesBefore(n) : Agree(d, RegisterOf(LastBits(before, now, p)), c)
  BY Zenon DEF OnAir
<1>2. /\ now \in [1 .. FrameBits -> Bit] /\ before \in [1 .. FrameBits -> Bit]
      /\ Follows(before, now) /\ (now \in SyncFrames <=> n = 0)
      /\ before \in SyncFrames \cup PlainFrames /\ now \in SyncFrames \cup PlainFrames
      /\ now \in FramesBefore((n + 1) % SyncPeriod)
  BY <1>1, FramesFollow DEF Follows
<1> DEFINE f == RegisterOf(LastBits(before, now, p + 1))
<1>3. Agree(e, f, more)
  BY <1>1, <1>2, AirPushed
<1>4. p + 1 \in 1 .. FrameBits /\ p + 1 \in 0 .. FrameBits
  BY Sizes
<1>5. e \in Words
  <2>1. now[p + 1] \in Nat
    BY <1>2, <1>4 DEF Bit
  <2> QED
    BY <2>1, PushedWords
<1>6. f \in Words
  BY <1>2, <1>4, AirType, AgoRegister
<1>7. /\ ~IsHeadSync(f) /\ ~IsTermSync(f)
      /\ IsDataSync(f) <=> p + 1 = FrameBits /\ n = 0
  BY <1>2, <1>4, StationAssumption
<1>8. /\ more \in Nat
      /\ c + 1 >= FrameBits => more >= Width
      /\ c + 1 >= DataSyncBits => more >= DataSyncBits
      /\ c + 1 >= TermBits => more >= TermBits
  BY Sizes DEF MinOf
<1> HIDE DEF e, f, more
<1>9. /\ more >= Width => (IsHeadSync(e) <=> IsHeadSync(f))
      /\ more >= DataSyncBits => (IsDataSync(e) <=> IsDataSync(f))
      /\ more >= TermBits => (IsTermSync(e) <=> IsTermSync(f))
  BY <1>3, <1>5, <1>6, <1>8, SameTests, Zenon
<1>10. p + 1 < FrameBits => OnAir(e, now, n, p + 1, more)
  BY <1>1, <1>3 DEF OnAir, f
<1>11. ASSUME p + 1 = FrameBits, NEW next
       PROVE  OnAir(e, next, (n + 1) % SyncPeriod, 0, more)
  <2>1. Agree(e, RegisterOf(LastBits(before, now, FrameBits)), more)
    BY <1>3, <1>11 DEF f
  <2>2. Agree(e, RegisterOf(LastBits(now, next, 0)), more)
    BY <2>1, AirTurns, Zenon
  <2> QED
    BY <1>2, <2>2 DEF OnAir
<1>12. /\ c + 1 >= FrameBits => ~IsHeadSync(e)
       /\ c + 1 >= DataSyncBits => (IsDataSync(e) <=> p + 1 = FrameBits /\ n = 0)
       /\ c + 1 >= TermBits => ~IsTermSync(e)
  BY <1>7, <1>8, <1>9, Zenon
<1> QED
  BY <1>5, <1>10, <1>11, <1>12, Zenon DEF e, more

\* Who has the last c bits has fewer of them too, and everyone has none.
LEMMA FewerOnAir ==
  ASSUME NEW d, NEW now, NEW n, NEW p, NEW c \in Nat, NEW fewer \in 0 .. c,
         OnAir(d, now, n, p, c)
  PROVE  OnAir(d, now, n, p, fewer)
<1>1. PICK before \in FramesBefore(n) : Agree(d, RegisterOf(LastBits(before, now, p)), c)
  BY Zenon DEF OnAir
<1>2. Agree(d, RegisterOf(LastBits(before, now, p)), fewer)
  BY <1>1 DEF Agree
<1> QED
  BY <1>2, Zenon DEF OnAir

LEMMA NoneOnAir ==
  ASSUME NEW d, NEW now, NEW n \in 0 .. SyncPeriod - 1, NEW p
  PROVE  OnAir(d, now, n, p, 0)
<1>1. PICK before : before \in FramesBefore(n)
  BY FramesFollow
<1>2. Agree(d, RegisterOf(LastBits(before, now, p)), 0)
  BY DEF Agree
<1> QED
  BY <1>1, <1>2, Zenon DEF OnAir

\* What is left of a header sync gets one bit older.
LEMMA HeadGetsOlder ==
  ASSUME NEW d \in Words, NEW in \in Bit, NEW c \in Nat, HeadThen(d, c)
  PROVE  HeadThen(Pushed(d, in), c + 1)
<1> DEFINE e == Pushed(d, in)
<1>1. \A i \in 1 .. Width - 1 : Ago(e, i) = Ago(d, i - 1)
  BY AgoPushed, Zenon
<1> HIDE DEF e
<1>2. ASSUME NEW i \in c + 1 .. Width - 1 PROVE Ago(e, i) = Ago(HeadSync, i - (c + 1))
  <2>1. /\ i \in 1 .. Width - 1 /\ i - 1 \in c .. Width - 1
        /\ (i - 1) - c = i - (c + 1)
    BY Sizes
  <2>2. Ago(d, i - 1) = Ago(HeadSync, (i - 1) - c)
    BY <2>1 DEF HeadThen
  <2> QED
    BY <1>1, <2>1, <2>2
<1> QED
  BY <1>2 DEF HeadThen, e

-----------------------------------------------------------------------------
\* How long a superframe is, and Enough.
LEMMA EnoughIs ==
  /\ Period \in Nat
  /\ Enough \in Nat
  /\ FrameBits <= Period
  /\ HeaderBits + 2 * FrameBits - 1 + Period <= Enough
  /\ Period + Period <= Enough
<1>1. Period \in Nat /\ FrameBits <= Period
  <2>1. SyncPeriod = (SyncPeriod - 1) + 1 /\ SyncPeriod - 1 \in Nat
    BY Counters
  <2>2. \A q \in Nat : (q + 1) * FrameBits = q * FrameBits + FrameBits /\ q * FrameBits \in Nat
    BY Counters
  <2>3. Period = (SyncPeriod - 1) * FrameBits + FrameBits /\ (SyncPeriod - 1) * FrameBits \in Nat
    BY <2>1, <2>2, Zenon DEF Period
  <2> QED
    BY <2>3, Counters
<1>2. Enough = MaxOf(HeaderBits + 2 * FrameBits - 1, Period) + Period
  BY DEF Enough, Period
<1> QED
  BY <1>1, <1>2, Counters DEF MaxOf

\* There is time for two superframes, or for one after a header and a frame.
LEMMA TimeForTwo ==
  ASSUME NEW a \in Nat, NEW b \in Nat, a + b <= Period
  PROVE  a + b <= Enough /\ a + b + Period <= Enough
<1>1. Period \in Nat /\ Enough \in Nat /\ Period + Period <= Enough
  BY EnoughIs, Zenon
<1> QED
  BY <1>1

LEMMA TimeForOne ==
  ASSUME NEW a \in Nat, NEW b \in 1 .. Period, a <= HeaderBits + 2 * FrameBits - 1
  PROVE  a + b <= Enough
<1>1. /\ Period \in Nat /\ Enough \in Nat /\ HeaderBits \in Nat /\ FrameBits \in Nat
      /\ HeaderBits + 2 * FrameBits - 1 + Period <= Enough
  BY EnoughIs, Counters
<1> QED
  BY <1>1

\* The next frame with a sync ends within a superframe.
LEMMA ToSyncRange ==
  ASSUME NEW at \in 0 .. FrameBits - 1, NEW n \in 0 .. SyncPeriod - 1
  PROVE  /\ ToSync(at, n) \in 1 .. Period
         /\ ToSync(at, n) = ToSync(0, n) - at
         /\ ToSync(at, n) = 1 <=> at + 1 = FrameBits /\ n = 0
<1>1. \A q \in Nat : q * FrameBits \in Nat /\ (q + 1) * FrameBits = q * FrameBits + FrameBits
  BY Counters
<1>2. CASE n = 0
  <2>1. ToSync(at, n) = FrameBits - at /\ ToSync(0, n) = FrameBits
    BY <1>2, Counters DEF ToSync
  <2> QED
    BY <1>2, <2>1, EnoughIs, Counters
<1>3. CASE n # 0
  <2>1. PICK q \in Nat : n = q + 1
    <3>1. n - 1 \in Nat /\ n = (n - 1) + 1
      BY <1>3, Counters
    <3> QED
      BY <3>1
  <2>2. PICK r \in Nat : SyncPeriod = q + r + 1 /\ r > 0
    <3>1. SyncPeriod - q - 1 \in Nat /\ SyncPeriod = q + (SyncPeriod - q - 1) + 1
          /\ SyncPeriod - q - 1 > 0
      BY <2>1, Counters
    <3> QED
      BY <3>1
  <2>3. SyncPeriod - n + 1 = r + 1
    BY <2>1, <2>2, Counters
  <2>4. ToSync(at, n) = r * FrameBits + FrameBits - at /\ ToSync(0, n) = r * FrameBits + FrameBits
    BY <1>1, <1>3, <2>3, Counters DEF ToSync
  <2>5. r * FrameBits >= FrameBits /\ r * FrameBits \in Nat
    <3>1. r - 1 \in Nat /\ r = (r - 1) + 1
      BY <2>2
    <3>2. r * FrameBits = (r - 1) * FrameBits + FrameBits /\ (r - 1) * FrameBits \in Nat
      BY <1>1, <3>1, Zenon
    <3> QED
      BY <3>2, Counters
  <2>6. Period = q * FrameBits + r * FrameBits + FrameBits /\ q * FrameBits \in Nat
    <3>1. (q + r + 1) * FrameBits = q * FrameBits + r * FrameBits + FrameBits
      BY Counters
    <3> QED
      BY <1>1, <2>2, <3>1 DEF Period
  <2> QED
    BY <1>3, <2>4, <2>5, <2>6, Counters
<1> QED
  BY <1>2, <1>3

\* It comes a bit nearer with every bit, until it is there.
LEMMA ToSyncStep ==
  ASSUME NEW at \in 0 .. FrameBits - 1, NEW n \in 0 .. SyncPeriod - 1
  PROVE  /\ at + 1 < FrameBits => ToSync(at + 1, n) = ToSync(at, n) - 1
         /\ at + 1 = FrameBits /\ n = 0 => ToSync(0, (n + 1) % SyncPeriod) = Period
         /\ at + 1 = FrameBits /\ n # 0 => ToSync(0, (n + 1) % SyncPeriod) = ToSync(at, n) - 1
<1>1. ASSUME at + 1 < FrameBits PROVE ToSync(at + 1, n) = ToSync(at, n) - 1
  <2>1. at + 1 \in 0 .. FrameBits - 1
    BY <1>1, Counters
  <2>2. ToSync(at, n) = ToSync(0, n) - at /\ ToSync(at + 1, n) = ToSync(0, n) - (at + 1)
    BY <2>1, ToSyncRange
  <2>3. ToSync(0, n) \in Int
    BY Counters, ToSyncRange
  <2> QED
    BY <2>2, <2>3
<1>2. ASSUME at + 1 = FrameBits, n = 0 PROVE ToSync(0, (n + 1) % SyncPeriod) = Period
  <2>1. (n + 1) % SyncPeriod = 1 /\ SyncPeriod - 1 + 1 = SyncPeriod
    BY <1>2, Counters
  <2> QED
    BY <2>1, EnoughIs DEF ToSync, Period
<1>3. ASSUME at + 1 = FrameBits, n # 0
      PROVE  ToSync(0, (n + 1) % SyncPeriod) = ToSync(at, n) - 1
  <2>1. \A q \in Nat : q * FrameBits \in Nat /\ (q + 1) * FrameBits = q * FrameBits + FrameBits
    BY Counters
  <2>2. CASE n = SyncPeriod - 1
    <3>1. (n + 1) % SyncPeriod = 0 /\ SyncPeriod - n + 1 = 2
      BY <2>2, Counters
    <3>2. ToSync(0, 0) = FrameBits
      BY Counters DEF ToSync
    <3>3. ToSync(at, n) = 2 * FrameBits - at
      BY <1>3, <3>1 DEF ToSync
    <3> QED
      BY <1>3, <3>1, <3>2, <3>3, Counters
  <2>3. CASE n # SyncPeriod - 1
    <3>1. (n + 1) % SyncPeriod = n + 1 /\ n + 1 # 0
      BY <2>3, Counters
    <3>2. PICK r \in Nat : SyncPeriod - (n + 1) + 1 = r /\ SyncPeriod - n + 1 = r + 1
      <4>1. SyncPeriod - n \in Nat /\ SyncPeriod - (n + 1) + 1 = SyncPeriod - n
        BY Counters
      <4> QED
        BY <4>1
    <3>3. ToSync(0, n + 1) = r * FrameBits /\ ToSync(at, n) = r * FrameBits + FrameBits - at
      BY <1>3, <2>1, <3>1, <3>2, Counters DEF ToSync
    <3> QED
      BY <1>3, <2>1, <3>1, <3>3, Counters
  <2> QED
    BY <2>2, <2>3
<1> QED
  BY <1>1, <1>2, <1>3

-----------------------------------------------------------------------------
(***************************************************************************)
(* The inductive invariant.  What the decoder has heard of the station,    *)
(* and how many bits the station will send before its next sync is past.   *)
(***************************************************************************)
Heard == OnAir(sr, frame, turn, pos, MinOf(sent, FrameBits))
Left == ToSync(pos, turn)

\* the station's own state
StationOK ==
  IF Silent
  THEN sent = 0 /\ pos = 0 /\ turn = 0
  ELSE /\ turn \in 0 .. SyncPeriod - 1
       /\ frame \in Frames(turn)
       /\ pos \in 0 .. FrameBits - 1
       /\ sent \in 0 .. Enough
       /\ sent < FrameBits => pos = sent

\* while a header is taken the register keeps its sync
HeadKept == running /\ readmode = "headmode" => IsHeadSync(sr)

(***************************************************************************)
(* Where the decoder can be when a station sends: in step with it; in      *)
(* search of a sync; in a header, which it found when less than a frame    *)
(* had been sent; in the frame after that; in a superframe found when      *)
(* there was time enough for two more, or whose own next sync is due no    *)
(* later than the station's.                                               *)
(***************************************************************************)
Locked == InStep /\ OnAir(sr, frame, turn, pos, FrameBits)

Searching ==
  /\ readmode = "nullmode"
  /\ Heard
  /\ sent + Left <= Enough

InHeader ==
  /\ readmode = "headmode"
  /\ sent - index <= FrameBits - 1

AfterHeader ==
  /\ readmode = "datamode"
  /\ voiceframecount = 0
  /\ HeadThen(sr, index)
  /\ OnAir(sr, frame, turn, pos, index)
  /\ sent - index <= HeaderBits + FrameBits - 1

Early ==
  /\ readmode = "datamode"
  /\ Heard
  /\ sent + Left + Period <= Enough

Awaited ==
  /\ readmode = "datamode"
  /\ Heard
  /\ ToSync(index, voiceframecount) <= Left
  /\ sent + Left <= Enough

Underway == Locked \/ Searching \/ InHeader \/ AfterHeader \/ Early \/ Awaited

RInv ==
  /\ IInv
  /\ StationOK
  /\ HeadKept
  /\ ~Silent /\ running => Underway

-----------------------------------------------------------------------------
\* A frame is not the empty sequence that stands for silence.
LEMMA FramesAreHeard ==
  ASSUME NEW now \in [1 .. FrameBits -> Bit]
  PROVE  now # <<>>
<1>1. 1 \in DOMAIN now
  BY Counters
<1>2. DOMAIN <<>> = {}
  OBVIOUS
<1> QED
  BY <1>1, <1>2

\* The station sends a bit.
LEMMA StationStep ==
  ASSUME StationOK, ~Silent, SendBit
  PROVE  /\ StationOK' /\ ~Silent'
         /\ frame[pos + 1] \in Bit
         /\ turn \in 0 .. SyncPeriod - 1 /\ frame \in Frames(turn)
         /\ pos \in 0 .. FrameBits - 1 /\ sent \in 0 .. Enough
         /\ sent < FrameBits => pos = sent
         /\ sent < Enough => sent' = sent + 1
         /\ \/ pos + 1 < FrameBits /\ pos' = pos + 1 /\ turn' = turn /\ frame' = frame
            \/ pos + 1 = FrameBits /\ pos' = 0 /\ turn' = (turn + 1) % SyncPeriod
         /\ turn' \in 0 .. SyncPeriod - 1 /\ pos' \in 0 .. FrameBits - 1
         /\ sent' \in 0 .. Enough
         /\ sent' < FrameBits => pos' = sent'
<1>1. /\ turn \in 0 .. SyncPeriod - 1 /\ frame \in Frames(turn)
      /\ pos \in 0 .. FrameBits - 1 /\ sent \in 0 .. Enough
      /\ sent < FrameBits => pos = sent
  BY Zenon DEF StationOK
<1>2. frame \in [1 .. FrameBits -> Bit]
  BY <1>1, FramesFollow
<1>3. frame[pos + 1] \in Bit
  BY <1>1, <1>2, Counters
<1>4. sent' = IF sent < Enough THEN sent + 1 ELSE sent
  BY Zenon DEF SendBit
<1>5. sent' \in 0 .. Enough /\ (sent < Enough => sent' = sent + 1)
  BY <1>1, <1>4, EnoughIs
<1>6. \/ pos + 1 < FrameBits /\ pos' = pos + 1 /\ turn' = turn /\ frame' = frame
      \/ /\ pos + 1 = FrameBits /\ pos' = 0 /\ turn' = (turn + 1) % SyncPeriod
         /\ frame' \in Frames(turn')
  BY <1>1, Counters DEF SendBit, Frames
<1>7. turn' \in 0 .. SyncPeriod - 1 /\ frame' \in Frames(turn') /\ pos' \in 0 .. FrameBits - 1
  <2>1. CASE pos + 1 < FrameBits /\ pos' = pos + 1 /\ turn' = turn /\ frame' = frame
    BY <1>1, <2>1, Counters
  <2>2. CASE /\ pos + 1 = FrameBits /\ pos' = 0 /\ turn' = (turn + 1) % SyncPeriod
             /\ frame' \in Frames(turn')
    BY <1>1, <2>2, Counters
  <2> QED
    BY <1>6, <2>1, <2>2
<1>8. sent' < FrameBits => pos' = sent'
  BY <1>1, <1>4, <1>6, Counters, EnoughIs
<1>9. ~Silent'
  <2>1. frame' \in [1 .. FrameBits -> Bit]
    BY <1>7, FramesFollow
  <2> QED
    BY <2>1, FramesAreHeard DEF Silent
<1>10. StationOK'
  BY <1>5, <1>7, <1>8, <1>9, Zenon DEF StationOK
<1> QED
  BY <1>1, <1>3, <1>5, <1>6, <1>7, <1>8, <1>9, <1>10, Zenon

\* Its next sync is a bit nearer, or was sent and is a superframe away.
LEMMA LeftStep ==
  ASSUME StationOK, ~Silent, SendBit
  PROVE  /\ Left \in 1 .. Period /\ Left' \in 1 .. Period
         /\ Left # 1 => Left' = Left - 1
         /\ Left = 1 => Left' = Period
         /\ Left = 1 <=> pos + 1 = FrameBits /\ turn = 0
         /\ Left = 1 => pos' = 0 /\ turn' = 1
         /\ sent < FrameBits => sent + Left <= Period
         /\ sent' < FrameBits => sent' + Left' <= Period
<1>1. /\ turn \in 0 .. SyncPeriod - 1 /\ pos \in 0 .. FrameBits - 1
      /\ turn' \in 0 .. SyncPeriod - 1 /\ pos' \in 0 .. FrameBits - 1
      /\ sent < FrameBits => pos = sent
      /\ sent' < FrameBits => pos' = sent'
      /\ sent \in 0 .. Enough /\ sent' \in 0 .. Enough
      /\ \/ pos + 1 < FrameBits /\ pos' = pos + 1 /\ turn' = turn
         \/ pos + 1 = FrameBits /\ pos' = 0 /\ turn' = (turn + 1) % SyncPeriod
  BY StationStep, Zenon
<1>2. Left' = ToSync(pos', turn')
  BY DEF Left
<1>3. /\ Left \in 1 .. Period /\ Left = ToSync(0, turn) - pos
      /\ Left = 1 <=> pos + 1 = FrameBits /\ turn = 0
  BY <1>1, ToSyncRange, Zenon DEF Left
<1>4. Left' \in 1 .. Period /\ Left' = ToSync(0, turn') - pos'
  BY <1>1, <1>2, ToSyncRange, Zenon
<1>5. ToSync(0, turn) \in 1 .. Period /\ ToSync(0, turn') \in 1 .. Period
  BY <1>1, Counters, ToSyncRange
<1>6. /\ pos + 1 < FrameBits => ToSync(pos + 1, turn) = Left - 1
      /\ pos + 1 = FrameBits /\ turn = 0 => ToSync(0, (turn + 1) % SyncPeriod) = Period
      /\ pos + 1 = FrameBits /\ turn # 0 => ToSync(0, (turn + 1) % SyncPeriod) = Left - 1
  BY <1>1, ToSyncStep, Zenon DEF Left
<1>7. (0 + 1) % SyncPeriod = 1
  BY Counters
<1>8. /\ Left # 1 => Left' = Left - 1
      /\ Left = 1 => Left' = Period
      /\ Left = 1 => pos' = 0 /\ turn' = 1
  <2>1. CASE pos + 1 < FrameBits /\ pos' = pos + 1 /\ turn' = turn
    <3>1. ~(pos + 1 = FrameBits)
      BY <1>1, <2>1, Counters
    <3> QED
      BY <1>2, <1>3, <1>6, <2>1, <3>1, Zenon
  <2>2. CASE pos + 1 = FrameBits /\ pos' = 0 /\ turn' = (turn + 1) % SyncPeriod
    BY <1>2, <1>3, <1>6, <1>7, <2>2, Zenon
  <2> QED
    BY <1>1, <2>1, <2>2
<1>9. /\ sent < FrameBits => sent + Left <= Period
      /\ sent' < FrameBits => sent' + Left' <= Period
  BY <1>1, <1>3, <1>4, <1>5, EnoughIs, Counters
<1> QED
  BY <1>3, <1>4, <1>8, <1>9, Zenon

-----------------------------------------------------------------------------
(***************************************************************************)
(* What a turn of the loop that does not end the block leaves, by mode.    *)
(***************************************************************************)
LEMMA SearchTurn ==
  ASSUME IInv, NEW in \in Bit, Take(in), running', readmode = "nullmode"
  PROVE  /\ sr' = Pushed(sr, in)
         /\ \/ ~IsHeadSync(sr') /\ ~IsDataSync(sr') /\ readmode' = "nullmode"
            \/ IsHeadSync(sr') /\ readmode' = "headmode" /\ index' = 0
            \/ IsDataSync(sr') /\ readmode' = "datamode" /\ index' = 0 /\ voiceframecount' = 1
<1>1. \/ SearchBit(in)
      \/ HeadFound(in)
      \/ \E ok \in BOOLEAN : DataFound(in, ok)
  BY Zenon DEF Take, HeaderBit, LastHeaderBit, FrameBit, FrameInOrder, MissingSync,
               UnexpectedSync, LastFrameBit
<1>2. CASE SearchBit(in)
  BY <1>2, FinishEffect, Zenon DEF SearchBit
<1>3. CASE HeadFound(in)
  BY <1>3, Zenon DEF HeadFound, Continue
<1>4. ASSUME NEW ok \in BOOLEAN, DataFound(in, ok)
      PROVE  /\ sr' = Pushed(sr, in) /\ IsDataSync(sr')
             /\ readmode' = "datamode" /\ index' = 0 /\ voiceframecount' = 1
  <2>1. sr' = Pushed(sr, in) /\ IsDataSync(sr')
    BY <1>4, Zenon DEF DataFound
  <2>2. ~IsTermSync(sr')
    BY <2>1, OneTestPasses, Zenon
  <2>3. Finish("datamode", 0, AfterSync, <<"datasync", "DecodeData">>)
    BY <1>4, Zenon DEF DataFound, Fail
  <2> QED
    BY <2>1, <2>2, <2>3, Zenon DEF Finish, Continue, AfterSync
<1> QED
  BY <1>1, <1>2, <1>3, <1>4, Zenon

LEMMA HeaderTurn ==
  ASSUME IInv, NEW in \in Bit, Take(in), running', readmode = "headmode"
  PROVE  /\ sr' = sr
         /\ \/ readmode' = "headmode" /\ index' = index + 1
            \/ /\ readmode' = "datamode" /\ index' = 0 /\ voiceframecount' = 0
               /\ index + 1 = HeaderBits
<1>1. HeaderBit \/ LastHeaderBit
  BY Zenon DEF Take, SearchBit, HeadFound, DataFound, FrameBit, FrameInOrder, MissingSync,
               UnexpectedSync, LastFrameBit
<1>2. CASE HeaderBit
  BY <1>2, Zenon DEF HeaderBit, Continue
<1>3. CASE LastHeaderBit
  <2>1. /\ sr' = sr /\ readmode' = "datamode" /\ index' = 0 /\ voiceframecount' = 0
        /\ running /\ index + 1 >= HeaderBits
    BY <1>3, Zenon DEF LastHeaderBit, Continue, HeaderFull, InCall
  <2>2. index \in 0 .. HeaderBits - 1
    BY <2>1, Zenon DEF IInv, IndexOK
  <2> QED
    BY <2>1, <2>2, Counters
<1> QED
  BY <1>1, <1>2, <1>3, Zenon

LEMMA FrameTurn ==
  ASSUME IInv, NEW in \in Bit, Take(in), running', readmode = "datamode"
  PROVE  /\ sr' = Pushed(sr, in)
         /\ \/ /\ index + 1 < FrameBits
               /\ \/ IsTermSync(sr') /\ readmode' = "nullmode"
                  \/ /\ readmode' = "datamode" /\ index' = index + 1
                     /\ voiceframecount' = voiceframecount
            \/ /\ index + 1 = FrameBits
               /\ IsDataSync(sr') <=> voiceframecount = 0
               /\ \/ IsTermSync(sr') /\ readmode' = "nullmode"
                  \/ /\ readmode' = "datamode" /\ index' = 0
                     /\ voiceframecount' = NextFrame
            \/ /\ index + 1 = FrameBits
               /\ voiceframecount = 0 /\ ~IsDataSync(sr')
               /\ \/ IsHeadSync(sr') /\ readmode' = "headmode" /\ index' = 0
                  \/ readmode' = "nullmode"
            \/ /\ index + 1 = FrameBits
               /\ voiceframecount # 0 /\ IsDataSync(sr')
               /\ readmode' = "datamode" /\ index' = 0 /\ voiceframecount' = 1
<1>1. \/ FrameBit(in)
      \/ \E ok \in BOOLEAN : FrameInOrder(in, ok)
      \/ \E ok \in BOOLEAN : MissingSync(in, ok)
      \/ \E good \in 0 .. 2 : UnexpectedSync(in, good)
  BY Zenon DEF Take, HeaderBit, LastHeaderBit, SearchBit, HeadFound, DataFound
<1>2. running /\ index \in 0 .. FrameBits - 1
  <2>1. running
    BY Zenon DEF Take, HeaderBit, LastHeaderBit, SearchBit, HeadFound, DataFound, FrameBit,
                 FrameInOrder, MissingSync, UnexpectedSync, LastFrameBit, InCall
  <2> QED
    BY <2>1, Zenon DEF IInv, IndexOK
<1>3. ~(index + 1 >= FrameBits) => index + 1 < FrameBits
  BY <1>2, Counters
<1>4. index + 1 >= FrameBits => index + 1 = FrameBits
  BY <1>2, Counters
<1>5. CASE FrameBit(in)
  <2>1. /\ sr' = Pushed(sr, in) /\ index + 1 < FrameBits
        /\ Finish("datamode", index + 1, voiceframecount, <<>>)
    BY <1>3, <1>5, Zenon DEF FrameBit, FrameFull
  <2> QED
    BY <2>1, Zenon DEF Finish, Continue
<1>6. ASSUME NEW ok \in BOOLEAN, FrameInOrder(in, ok)
      PROVE  /\ sr' = Pushed(sr, in) /\ index + 1 = FrameBits
             /\ IsDataSync(sr') <=> voiceframecount = 0
             /\ \/ IsTermSync(sr') /\ readmode' = "nullmode"
                \/ readmode' = "datamode" /\ index' = 0 /\ voiceframecount' = NextFrame
  <2>1. /\ sr' = Pushed(sr, in) /\ index + 1 = FrameBits
        /\ IsDataSync(sr') <=> voiceframecount = 0
        /\ Finish("datamode", 0, NextFrame, <<"Add3", "DecodeData">>)
    BY <1>4, <1>6, Zenon DEF FrameInOrder, LastFrameBit, FrameFull, SyncDue, Fail
  <2> QED
    BY <2>1, Zenon DEF Finish, Continue
<1>7. ASSUME NEW ok \in BOOLEAN, MissingSync(in, ok)
      PROVE  /\ sr' = Pushed(sr, in) /\ index + 1 = FrameBits
             /\ voiceframecount = 0 /\ ~IsDataSync(sr')
             /\ \/ IsHeadSync(sr') /\ readmode' = "headmode" /\ index' = 0
                \/ readmode' = "nullmode"
  BY <1>4, <1>7, Zenon DEF MissingSync, LastFrameBit, FrameFull, SyncDue, Fail, Finish, Continue
<1>8. ASSUME NEW good \in 0 .. 2, UnexpectedSync(in, good)
      PROVE  /\ sr' = Pushed(sr, in) /\ index + 1 = FrameBits
             /\ voiceframecount # 0 /\ IsDataSync(sr')
             /\ readmode' = "datamode" /\ index' = 0 /\ voiceframecount' = 1
  <2>1. /\ sr' = Pushed(sr, in) /\ index + 1 = FrameBits
        /\ voiceframecount # 0 /\ IsDataSync(sr')
    BY <1>4, <1>8, Zenon DEF UnexpectedSync, LastFrameBit, FrameFull, SyncDue
  <2>2. ~IsTermSync(sr')
    BY <2>1, OneTestPasses, Zenon
  <2>3. PICK told : Finish("datamode", 0, AfterSync, told)
    BY <1>8, Zenon DEF UnexpectedSync, Fail
  <2> QED
    BY <2>1, <2>2, <2>3, Zenon DEF Finish, Continue, AfterSync
<1> QED
  BY <1>1, <1>5, <1>6, <1>7, <1>8, Zenon

\* A bit of the station in the register: what it can be taken for.
LEMMA BitTests ==
  ASSUME StationOK, ~Silent, SendBit, sr \in Words, sr' = Pushed(sr, frame[pos + 1]),
         NEW c \in 0 .. FrameBits, OnAir(sr, frame, turn, pos, c)
  PROVE  /\ sr' \in Words
         /\ OnAir(sr', frame', turn', pos', MinOf(c + 1, FrameBits))
         /\ c + 1 >= FrameBits => ~IsHeadSync(sr')
         /\ c + 1 >= DataSyncBits => (IsDataSync(sr') <=> Left = 1)
         /\ c + 1 >= TermBits => ~IsTermSync(sr')
<1>1. /\ turn \in 0 .. SyncPeriod - 1 /\ frame \in Frames(turn) /\ pos \in 0 .. FrameBits - 1
      /\ \/ pos + 1 < FrameBits /\ pos' = pos + 1 /\ turn' = turn /\ frame' = frame
         \/ pos + 1 = FrameBits /\ pos' = 0 /\ turn' = (turn + 1) % SyncPeriod
  BY StationStep, Zenon
<1>2. Left = 1 <=> pos + 1 = FrameBits /\ turn = 0
  BY LeftStep, Zenon
<1> DEFINE e == Pushed(sr, frame[pos + 1])
           more == MinOf(c + 1, FrameBits)
<1>3. /\ e \in Words
      /\ pos + 1 < FrameBits => OnAir(e, frame, turn, pos + 1, more)
      /\ pos + 1 = FrameBits => \A next : OnAir(e, next, (turn + 1) % SyncPeriod, 0, more)
      /\ c + 1 >= FrameBits => ~IsHeadSync(e)
      /\ c + 1 >= DataSyncBits => (IsDataSync(e) <=> pos + 1 = FrameBits /\ turn = 0)
      /\ c + 1 >= TermBits => ~IsTermSync(e)
  BY <1>1, BitHeard, Zenon
<1>4. sr' = e
  OBVIOUS
<1> HIDE DEF e, more
<1>5. OnAir(e, frame', turn', pos', more)
  BY <1>1, <1>3, Zenon
<1> QED
  BY <1>2, <1>3, <1>4, <1>5, Zenon DEF more

\* The same when the register has all that the station has sent.
LEMMA HeardTests ==
  ASSUME StationOK, ~Silent, SendBit, sr \in Words, sr' = Pushed(sr, frame[pos + 1]),
         Heard, sent < Enough
  PROVE  /\ Heard' /\ sent' = sent + 1
         /\ sent' >= FrameBits => OnAir(sr', frame', turn', pos', FrameBits)
         /\ Left = 1 => sent' >= FrameBits
         /\ sent' >= FrameBits => ~IsHeadSync(sr')
         /\ sent' >= DataSyncBits => (IsDataSync(sr') <=> Left = 1)
         /\ sent' >= TermBits => ~IsTermSync(sr')
<1> DEFINE c == MinOf(sent, FrameBits)
<1>1. /\ sent' = sent + 1 /\ sent \in Nat /\ (sent < FrameBits => pos = sent)
      /\ pos \in 0 .. FrameBits - 1
  BY StationStep
<1>2. /\ c \in 0 .. FrameBits
      /\ MinOf(c + 1, FrameBits) = MinOf(sent', FrameBits)
      /\ c + 1 <= sent'
      /\ sent' >= FrameBits => c + 1 >= FrameBits /\ MinOf(sent', FrameBits) = FrameBits
      /\ \A b \in 0 .. FrameBits : sent' >= b => c + 1 >= b
  BY <1>1, Counters DEF MinOf
<1>3. OnAir(sr, frame, turn, pos, c)
  BY Zenon DEF Heard
<1> HIDE DEF c
<1>4. /\ OnAir(sr', frame', turn', pos', MinOf(c + 1, FrameBits))
      /\ c + 1 >= FrameBits => ~IsHeadSync(sr')
      /\ c + 1 >= DataSyncBits => (IsDataSync(sr') <=> Left = 1)
      /\ c + 1 >= TermBits => ~IsTermSync(sr')
  BY <1>2, <1>3, BitTests, Zenon
<1>5. DataSyncBits \in 0 .. FrameBits /\ TermBits \in 0 .. FrameBits
  BY Sizes
<1>6. Heard'
  <2>1. Heard' <=> OnAir(sr', frame', turn', pos', MinOf(sent', FrameBits))
    BY DEF Heard, FrameBits, Width, WordBits
  <2> QED
    BY <1>2, <1>4, <2>1, Zenon
<1>7. Left = 1 => sent' >= FrameBits
  BY <1>1, LeftStep, Counters
<1> QED
  BY <1>1, <1>2, <1>4, <1>5, <1>6, <1>7, Zenon

-----------------------------------------------------------------------------
(***************************************************************************)
(* From each place, the places that a bit of the station leads to.         *)
(***************************************************************************)
\* The facts of a step that the proofs below begin with.
LEMMA StepFacts ==
  ASSUME StationOK, ~Silent, SendBit, IInv
  PROVE  /\ sent \in 0 .. Enough /\ Left \in 1 .. Period /\ Left' \in 1 .. Period
         /\ frame[pos + 1] \in Bit
         /\ Take(frame[pos + 1])
         /\ sr \in Words
<1>1. Take(frame[pos + 1])
  BY Zenon DEF SendBit
<1>2. sr \in Words
  BY Zenon DEF IInv, TypeOK
<1> QED
  BY <1>1, <1>2, StationStep, LeftStep, Zenon

\* Fewer bits sent than a frame has: time enough for anything.
LEMMA YoungStation ==
  ASSUME StationOK, ~Silent, SendBit, Heard', sent' < FrameBits
  PROVE  /\ readmode' = "nullmode" => Searching'
         /\ readmode' = "datamode" => Early'
<1>1. sent' + Left' <= Period /\ sent' \in Nat /\ Left' \in Nat
  BY LeftStep, StationStep, EnoughIs
<1>2. sent' + Left' <= Enough /\ sent' + Left' + Period <= Enough
  BY <1>1, TimeForTwo, Zenon
<1> QED
  BY <1>2, Zenon DEF Searching, Early

\* In search of a sync: it finds the station's, or one that it takes for it
\* before a frame is out.
LEMMA FromSearching ==
  ASSUME StationOK, ~Silent, SendBit, IInv, running', Searching
  PROVE  Underway'
<1>1. /\ sent \in 0 .. Enough /\ Left \in 1 .. Period /\ Left' \in 1 .. Period
      /\ frame[pos + 1] \in Bit /\ Take(frame[pos + 1]) /\ sr \in Words
  BY StepFacts, Zenon
<1>2. readmode = "nullmode" /\ Heard /\ sent + Left <= Enough /\ sent < Enough
  <2>1. readmode = "nullmode" /\ Heard /\ sent + Left <= Enough
    BY Zenon DEF Searching
  <2> QED
    BY <1>1, <2>1, EnoughIs
<1>3. /\ sr' = Pushed(sr, frame[pos + 1])
      /\ \/ ~IsHeadSync(sr') /\ ~IsDataSync(sr') /\ readmode' = "nullmode"
         \/ IsHeadSync(sr') /\ readmode' = "headmode" /\ index' = 0
         \/ IsDataSync(sr') /\ readmode' = "datamode" /\ index' = 0 /\ voiceframecount' = 1
  BY <1>1, <1>2, SearchTurn, Zenon
<1>4. /\ Heard' /\ sent' = sent + 1
      /\ sent' >= FrameBits => OnAir(sr', frame', turn', pos', FrameBits)
      /\ Left = 1 => sent' >= FrameBits
      /\ sent' >= FrameBits => ~IsHeadSync(sr')
      /\ sent' >= DataSyncBits => (IsDataSync(sr') <=> Left = 1)
  BY <1>1, <1>2, <1>3, HeardTests, Zenon
<1>5. /\ Left # 1 => Left' = Left - 1
      /\ Left = 1 => pos' = 0 /\ turn' = 1
  BY LeftStep, Zenon
<1>6. ~(sent' >= FrameBits) => sent' < FrameBits
  BY <1>1, <1>4, Counters
<1>7. sent' >= FrameBits => sent' >= DataSyncBits
  BY <1>1, <1>4, Sizes
<1>8. CASE ~IsHeadSync(sr') /\ ~IsDataSync(sr') /\ readmode' = "nullmode"
  <2>1. Left # 1
    BY <1>4, <1>7, <1>8, Zenon
  <2>2. sent' + Left' <= Enough
    BY <1>1, <1>2, <1>4, <1>5, <2>1
  <2> QED
    BY <1>4, <1>8, <2>2, Zenon DEF Searching, Underway
<1>9. CASE IsHeadSync(sr') /\ readmode' = "headmode" /\ index' = 0
  <2>1. sent' - index' <= FrameBits - 1
    BY <1>1, <1>4, <1>9, Counters
  <2> QED
    BY <1>9, <2>1, Zenon DEF InHeader, Underway
<1>10. CASE IsDataSync(sr') /\ readmode' = "datamode" /\ index' = 0 /\ voiceframecount' = 1
  <2>1. CASE sent' >= FrameBits
    BY <1>4, <1>5, <1>7, <1>10, <2>1, Zenon DEF InStep, Locked, Underway
  <2>2. CASE sent' < FrameBits
    BY <1>4, <1>10, <2>2, YoungStation, Zenon DEF Underway
  <2> QED
    BY <1>6, <2>1, <2>2, Zenon
<1> QED
  BY <1>3, <1>8, <1>9, <1>10, Zenon

\* In a header: it ends.
LEMMA FromHeader ==
  ASSUME StationOK, ~Silent, SendBit, IInv, HeadKept, running, running', InHeader
  PROVE  Underway'
<1>1. /\ sent \in 0 .. Enough
      /\ frame[pos + 1] \in Bit /\ Take(frame[pos + 1]) /\ sr \in Words
  BY StepFacts, Zenon
<1>2. readmode = "headmode" /\ sent - index <= FrameBits - 1 /\ IsHeadSync(sr)
  BY Zenon DEF InHeader, HeadKept
<1>3. index \in 0 .. HeaderBits - 1
  BY <1>2, Zenon DEF IInv, IndexOK
<1>4. sent' = sent + 1
  <2>1. sent < Enough
    BY <1>1, <1>2, <1>3, EnoughIs, Counters
  <2> QED
    BY <2>1, StationStep, Zenon
<1>5. /\ sr' = sr
      /\ \/ readmode' = "headmode" /\ index' = index + 1
         \/ /\ readmode' = "datamode" /\ index' = 0 /\ voiceframecount' = 0
            /\ index + 1 = HeaderBits
  BY <1>1, <1>2, HeaderTurn, Zenon
<1>6. CASE readmode' = "headmode" /\ index' = index + 1
  <2>1. sent' - index' <= FrameBits - 1
    BY <1>1, <1>2, <1>3, <1>4, <1>6, Counters
  <2> QED
    BY <1>6, <2>1, Zenon DEF InHeader, Underway
<1>7. CASE /\ readmode' = "datamode" /\ index' = 0 /\ voiceframecount' = 0
           /\ index + 1 = HeaderBits
  <2>1. sent' - index' <= HeaderBits + FrameBits - 1
    BY <1>1, <1>2, <1>3, <1>4, <1>7, Counters
  <2>2. HeadThen(sr', index')
    <3>1. sr' = HeadSync
      BY <1>2, <1>5, Zenon DEF IsHeadSync
    <3>2. \A i \in 0 .. Width - 1 : i - 0 = i
      BY Sizes
    <3> QED
      BY <1>7, <3>1, <3>2 DEF HeadThen
  <2>3. OnAir(sr', frame', turn', pos', index')
    <3>1. turn' \in 0 .. SyncPeriod - 1
      BY StationStep, Zenon
    <3> QED
      BY <1>7, <3>1, NoneOnAir, Zenon
  <2> QED
    BY <1>7, <2>1, <2>2, <2>3, Zenon DEF AfterHeader, Underway
<1> QED
  BY <1>5, <1>6, <1>7, Zenon

\* In the frame after a header: it ends with the station's sync, or with none
\* and a search.
LEMMA FromAfterHeader ==
  ASSUME StationOK, ~Silent, SendBit, IInv, running, running', AfterHeader
  PROVE  Underway'
<1>1. /\ sent \in 0 .. Enough /\ Left \in 1 .. Period /\ Left' \in 1 .. Period
      /\ frame[pos + 1] \in Bit /\ Take(frame[pos + 1]) /\ sr \in Words
  BY StepFacts, Zenon
<1>2. /\ readmode = "datamode" /\ voiceframecount = 0 /\ HeadThen(sr, index)
      /\ OnAir(sr, frame, turn, pos, index)
      /\ sent - index <= HeaderBits + FrameBits - 1
  BY Zenon DEF AfterHeader
<1>3. index \in 0 .. FrameBits - 1
  BY <1>2, Zenon DEF IInv, IndexOK
<1>4. sent' = sent + 1
  <2>1. sent < Enough
    BY <1>1, <1>2, <1>3, EnoughIs, Counters
  <2> QED
    BY <2>1, StationStep, Zenon
<1>5. sr' = Pushed(sr, frame[pos + 1])
  BY <1>1, <1>2, FrameTurn, Zenon
<1>6. index \in 0 .. FrameBits /\ index \in Nat
  BY <1>3, Counters
<1>7. /\ OnAir(sr', frame', turn', pos', MinOf(index + 1, FrameBits))
      /\ index + 1 >= FrameBits => ~IsHeadSync(sr')
      /\ index + 1 >= DataSyncBits => (IsDataSync(sr') <=> Left = 1)
      /\ index + 1 >= TermBits => ~IsTermSync(sr')
      /\ sr' \in Words
  BY <1>1, <1>2, <1>5, <1>6, BitTests, Zenon
<1>8. HeadThen(sr', index + 1)
  BY <1>1, <1>2, <1>5, <1>6, HeadGetsOlder, Zenon
<1>9. ~IsTermSync(sr')
  <2>1. CASE index + 1 >= TermBits
    BY <1>7, <2>1, Zenon
  <2>2. CASE ~(index + 1 >= TermBits)
    <3>1. index + 1 \in 1 .. TermBits - 1
      BY <1>6, <2>2, Sizes
    <3> QED
      BY <1>7, <1>8, <3>1, LeftOverIsNoTerm, Zenon
  <2> QED
    BY <2>1, <2>2, Zenon
<1>10. MinOf(index + 1, FrameBits) = index + 1
  BY <1>3, Counters DEF MinOf
<1>11. \/ /\ index + 1 < FrameBits
          /\ readmode' = "datamode" /\ index' = index + 1 /\ voiceframecount' = voiceframecount
       \/ /\ index + 1 = FrameBits /\ IsDataSync(sr')
          /\ readmode' = "datamode" /\ index' = 0 /\ voiceframecount' = NextFrame
       \/ /\ index + 1 = FrameBits /\ ~IsDataSync(sr')
          /\ \/ IsHeadSync(sr') /\ readmode' = "headmode" /\ index' = 0
             \/ readmode' = "nullmode"
  BY <1>1, <1>2, <1>9, FrameTurn, Zenon
<1>12. CASE /\ index + 1 < FrameBits
            /\ readmode' = "datamode" /\ index' = index + 1 /\ voiceframecount' = voiceframecount
  <2>1. sent' - index' <= HeaderBits + FrameBits - 1
    BY <1>1, <1>2, <1>3, <1>4, <1>12, Counters
  <2> QED
    BY <1>2, <1>7, <1>8, <1>10, <1>12, <2>1, Zenon DEF AfterHeader, Underway
<1>13. index + 1 = FrameBits =>
         /\ OnAir(sr', frame', turn', pos', FrameBits)
         /\ ~IsHeadSync(sr')
         /\ IsDataSync(sr') <=> Left = 1
  <2> SUFFICES ASSUME index + 1 = FrameBits
               PROVE  /\ OnAir(sr', frame', turn', pos', FrameBits)
                      /\ ~IsHeadSync(sr')
                      /\ IsDataSync(sr') <=> Left = 1
    OBVIOUS
  <2>1. index + 1 >= FrameBits /\ index + 1 >= DataSyncBits
    BY Sizes
  <2> QED
    BY <1>7, <1>10, <2>1, Zenon
<1>14. CASE /\ index + 1 = FrameBits /\ IsDataSync(sr')
            /\ readmode' = "datamode" /\ index' = 0 /\ voiceframecount' = NextFrame
  <2>1. pos' = 0 /\ turn' = 1
    BY <1>13, <1>14, LeftStep, Zenon
  <2>2. NextFrame = 1
    BY <1>2, Counters DEF NextFrame
  <2> QED
    BY <1>13, <1>14, <2>1, <2>2, Zenon DEF InStep, Locked, Underway
<1>15. CASE index + 1 = FrameBits /\ ~IsDataSync(sr') /\ readmode' = "nullmode"
  <2>1. sent' + Left' <= Enough
    <3>1. sent' <= HeaderBits + 2 * FrameBits - 1
      BY <1>1, <1>2, <1>3, <1>4, <1>15, Counters
    <3>2. sent' \in Nat
      BY <1>1, <1>4
    <3> QED
      BY <1>1, <3>1, <3>2, TimeForOne, Zenon
  <2>2. Heard'
    <3>1. /\ FrameBits \in Nat /\ MinOf(sent', FrameBits) \in 0 .. FrameBits
      BY <1>1, <1>4, Counters DEF MinOf
    <3>2. OnAir(sr', frame', turn', pos', MinOf(sent', FrameBits))
      BY <1>13, <1>15, <3>1, FewerOnAir, Zenon
    <3>3. Heard' <=> OnAir(sr', frame', turn', pos', MinOf(sent', FrameBits))
      BY DEF Heard, FrameBits, Width, WordBits
    <3> QED
      BY <3>2, <3>3, Zenon
  <2> QED
    BY <1>15, <2>1, <2>2, Zenon DEF Searching, Underway
<1> QED
  BY <1>11, <1>12, <1>13, <1>14, <1>15, Zenon

\* What the last step of FromEarly and FromAwaited has to go on.
LEMMA FrameStep ==
  ASSUME StationOK, ~Silent, SendBit, IInv, running, running', readmode = "datamode",
         Heard, sent + Left <= Enough
  PROVE  /\ Heard' /\ sent' = sent + 1 /\ sent \in Nat /\ sent' \in Nat
         /\ Left \in 1 .. Period /\ Left' \in 1 .. Period
         /\ Left # 1 => Left' = Left - 1
         /\ Left = 1 => Left' = Period
         /\ Left # 1 => sent' + Left' = sent + Left
         /\ sent' >= FrameBits => OnAir(sr', frame', turn', pos', FrameBits)
         /\ Left = 1 => sent' >= FrameBits /\ pos' = 0 /\ turn' = 1
         /\ IsHeadSync(sr') => sent' < FrameBits
         /\ Left # 1 /\ IsDataSync(sr') => sent' < FrameBits
         /\ Left = 1 => IsDataSync(sr') /\ ~IsTermSync(sr') /\ ~IsHeadSync(sr')
         /\ index \in 0 .. FrameBits - 1 /\ voiceframecount \in 0 .. SyncPeriod - 1
         /\ readmode' = "datamode" =>
              index' \in 0 .. FrameBits - 1 /\ voiceframecount' \in 0 .. SyncPeriod - 1
<1>1. /\ sent \in 0 .. Enough /\ Left \in 1 .. Period /\ Left' \in 1 .. Period
      /\ frame[pos + 1] \in Bit /\ Take(frame[pos + 1]) /\ sr \in Words
  BY StepFacts, Zenon
<1>2. sent < Enough /\ sent \in Nat
  BY <1>1, EnoughIs
<1>3. sr' = Pushed(sr, frame[pos + 1])
  BY <1>1, FrameTurn, Zenon
<1>4. /\ Heard' /\ sent' = sent + 1
      /\ sent' >= FrameBits => OnAir(sr', frame', turn', pos', FrameBits)
      /\ Left = 1 => sent' >= FrameBits
      /\ sent' >= FrameBits => ~IsHeadSync(sr')
      /\ sent' >= DataSyncBits => (IsDataSync(sr') <=> Left = 1)
      /\ sent' >= TermBits => ~IsTermSync(sr')
  BY <1>1, <1>2, <1>3, HeardTests, Zenon
<1>5. /\ Left # 1 => Left' = Left - 1
      /\ Left = 1 => Left' = Period
      /\ Left = 1 => pos' = 0 /\ turn' = 1
  BY LeftStep, Zenon
<1>6. Left # 1 => sent' + Left' = sent + Left
  BY <1>1, <1>4, <1>5
<1>7. /\ sent' \in Nat
      /\ ~(sent' >= FrameBits) => sent' < FrameBits
      /\ sent' >= FrameBits => sent' >= DataSyncBits /\ sent' >= TermBits
  BY <1>1, <1>4, Sizes
<1>8. index \in 0 .. FrameBits - 1 /\ voiceframecount \in 0 .. SyncPeriod - 1
  BY Zenon DEF IInv, IndexOK, TypeOK
<1>9. readmode' = "datamode" =>
        index' \in 0 .. FrameBits - 1 /\ voiceframecount' \in 0 .. SyncPeriod - 1
  <2>1. IInv'
    BY <1>1, StepInv, Zenon DEF Next
  <2>2. IndexOK' /\ TypeOK'
    BY <2>1, Zenon DEF IInv
  <2> QED
    BY <2>2, Zenon DEF IndexOK, TypeOK, FrameBits, Width, WordBits
<1> QED
  BY <1>1, <1>2, <1>4, <1>5, <1>6, <1>7, <1>8, <1>9, Zenon

\* In a superframe found early: it goes on, or the station's sync passes, and
\* then its own is due before the station's next.
LEMMA FromEarly ==
  ASSUME StationOK, ~Silent, SendBit, IInv, running, running', Early
  PROVE  Underway'
<1>1. readmode = "datamode" /\ Heard /\ sent + Left + Period <= Enough
  BY Zenon DEF Early
<1>2. sent + Left <= Enough
  <2>1. sent \in 0 .. Enough /\ Left \in 1 .. Period
    BY StepFacts, Zenon
  <2> QED
    BY <1>1, <2>1, EnoughIs
<1>3. /\ Heard' /\ sent' = sent + 1 /\ sent \in Nat /\ sent' \in Nat
      /\ Left \in 1 .. Period /\ Left' \in 1 .. Period
      /\ Left = 1 => Left' = Period
      /\ Left # 1 => sent' + Left' = sent + Left
      /\ IsHeadSync(sr') => sent' < FrameBits
      /\ readmode' = "datamode" =>
           index' \in 0 .. FrameBits - 1 /\ voiceframecount' \in 0 .. SyncPeriod - 1
  BY <1>1, <1>2, FrameStep, Zenon
<1>4. /\ sent' + Left' <= Enough
      /\ Left # 1 => sent' + Left' + Period <= Enough
  <2>1. CASE Left = 1
    BY <1>1, <1>3, <2>1, EnoughIs
  <2>2. CASE Left # 1
    BY <1>1, <1>2, <1>3, <2>2
  <2> QED
    BY <2>1, <2>2, Zenon
<1>5. \/ readmode' = "nullmode" \/ readmode' = "datamode"
      \/ IsHeadSync(sr') /\ readmode' = "headmode" /\ index' = 0
  <2>1. frame[pos + 1] \in Bit /\ Take(frame[pos + 1])
    BY StepFacts, Zenon
  <2> QED
    BY <1>1, <2>1, FrameTurn, Zenon
<1>6. CASE readmode' = "nullmode"
  BY <1>3, <1>4, <1>6, Zenon DEF Searching, Underway
<1>7. CASE IsHeadSync(sr') /\ readmode' = "headmode" /\ index' = 0
  <2>1. sent' - index' <= FrameBits - 1
    BY <1>3, <1>7, Counters
  <2> QED
    BY <1>7, <2>1, Zenon DEF InHeader, Underway
<1>8. CASE readmode' = "datamode" /\ Left # 1
  BY <1>3, <1>4, <1>8, Zenon DEF Early, Underway
<1>9. CASE readmode' = "datamode" /\ Left = 1
  <2>1. ToSync(index', voiceframecount') \in 1 .. Period
    BY <1>3, <1>9, ToSyncRange, Zenon
  <2>2. ToSync(index', voiceframecount') <= Left'
    BY <1>3, <1>9, <2>1, EnoughIs
  <2> QED
    BY <1>3, <1>4, <1>9, <2>2, Zenon DEF Awaited, Underway
<1> QED
  BY <1>5, <1>6, <1>7, <1>8, <1>9, Zenon

\* In a superframe whose sync is due no later than the station's: both come
\* together, or there is none and a search begins.
LEMMA FromAwaited ==
  ASSUME StationOK, ~Silent, SendBit, IInv, running, running', Awaited
  PROVE  Underway'
<1>1. /\ readmode = "datamode" /\ Heard /\ sent + Left <= Enough
      /\ ToSync(index, voiceframecount) <= Left
  BY Zenon DEF Awaited
<1>2. /\ Heard' /\ sent' = sent + 1 /\ sent \in Nat /\ sent' \in Nat
      /\ Left \in 1 .. Period /\ Left' \in 1 .. Period
      /\ Left # 1 => Left' = Left - 1
      /\ Left # 1 => sent' + Left' = sent + Left
      /\ sent' >= FrameBits => OnAir(sr', frame', turn', pos', FrameBits)
      /\ Left = 1 => sent' >= FrameBits /\ pos' = 0 /\ turn' = 1
      /\ IsHeadSync(sr') => sent' < FrameBits
      /\ Left # 1 /\ IsDataSync(sr') => sent' < FrameBits
      /\ Left = 1 => IsDataSync(sr') /\ ~IsTermSync(sr') /\ ~IsHeadSync(sr')
      /\ index \in 0 .. FrameBits - 1 /\ voiceframecount \in 0 .. SyncPeriod - 1
  BY <1>1, FrameStep, Zenon
<1> DEFINE due == ToSync(index, voiceframecount)
<1>3. /\ due \in 1 .. Period
      /\ due = 1 <=> index + 1 = FrameBits /\ voiceframecount = 0
      /\ index + 1 < FrameBits => ToSync(index + 1, voiceframecount) = due - 1
      /\ index + 1 = FrameBits /\ voiceframecount # 0 => ToSync(0, NextFrame) = due - 1
  BY <1>2, ToSyncRange, ToSyncStep, Zenon DEF NextFrame
<1> HIDE DEF due
<1>4. due <= Left /\ (Left = 1 => due = 1) /\ due - 1 <= Left - 1
  <2>1. due <= Left
    BY <1>1, Zenon DEF due
  <2> QED
    BY <1>2, <1>3, <2>1
<1>5. Left # 1 => sent' + Left' <= Enough
  BY <1>1, <1>2, Zenon
<1>6. index + 1 < FrameBits => index + 1 # FrameBits
  BY <1>2, Counters
<1> DEFINE in == frame[pos + 1]
<1>7. /\ sr' = Pushed(sr, in)
      /\ \/ /\ index + 1 < FrameBits
            /\ \/ IsTermSync(sr') /\ readmode' = "nullmode"
               \/ /\ readmode' = "datamode" /\ index' = index + 1
                  /\ voiceframecount' = voiceframecount
         \/ /\ index + 1 = FrameBits
            /\ IsDataSync(sr') <=> voiceframecount = 0
            /\ \/ IsTermSync(sr') /\ readmode' = "nullmode"
               \/ /\ readmode' = "datamode" /\ index' = 0
                  /\ voiceframecount' = NextFrame
         \/ /\ index + 1 = FrameBits
            /\ voiceframecount = 0 /\ ~IsDataSync(sr')
            /\ \/ IsHeadSync(sr') /\ readmode' = "headmode" /\ index' = 0
               \/ readmode' = "nullmode"
         \/ /\ index + 1 = FrameBits
            /\ voiceframecount # 0 /\ IsDataSync(sr')
            /\ readmode' = "datamode" /\ index' = 0 /\ voiceframecount' = 1
  <2>1. in \in Bit /\ Take(in)
    BY StepFacts, Zenon
  <2> HIDE DEF in
  <2> QED
    BY <1>1, <2>1, FrameTurn, Zenon
<1> HIDE DEF in
<1>8. ASSUME Left # 1, readmode' = "nullmode" PROVE Underway'
  BY <1>2, <1>5, <1>8, Zenon DEF Searching, Underway
<1>9. ASSUME Left # 1, readmode' = "datamode", IsDataSync(sr') PROVE Underway'
  BY <1>2, <1>9, YoungStation, Zenon DEF Underway
<1>10. ASSUME Left # 1, readmode' = "datamode", ToSync(index', voiceframecount') = due - 1
       PROVE  Underway'
  <2>1. ToSync(index', voiceframecount') <= Left'
    BY <1>2, <1>4, <1>10, Zenon
  <2> QED
    BY <1>2, <1>5, <1>10, <2>1, Zenon DEF Awaited, Underway
<1>11. ASSUME readmode' = "headmode", index' = 0, IsHeadSync(sr') PROVE Underway'
  <2>1. sent' - index' <= FrameBits - 1
    BY <1>2, <1>11, Counters
  <2> QED
    BY <1>11, <2>1, Zenon DEF InHeader, Underway
<1>12. CASE Left = 1
  <2>1. /\ index + 1 = FrameBits /\ voiceframecount = 0
        /\ IsDataSync(sr') /\ ~IsTermSync(sr')
    BY <1>2, <1>3, <1>4, <1>12, Zenon
  <2>2. readmode' = "datamode" /\ index' = 0 /\ voiceframecount' = NextFrame
    BY <1>6, <1>7, <2>1, Zenon
  <2>3. NextFrame = 1
    BY <2>1, Counters DEF NextFrame
  <2> QED
    BY <1>2, <1>12, <2>2, <2>3, Zenon DEF InStep, Locked, Underway
<1>13. CASE Left # 1
  <2>1. ASSUME index + 1 < FrameBits, readmode' = "datamode", index' = index + 1,
               voiceframecount' = voiceframecount
        PROVE  Underway'
    BY <1>3, <1>10, <1>13, <2>1, Zenon
  <2>2. ASSUME index + 1 = FrameBits, IsDataSync(sr') <=> voiceframecount = 0,
               readmode' = "datamode", index' = 0, voiceframecount' = NextFrame
        PROVE  Underway'
    BY <1>3, <1>9, <1>10, <1>13, <2>2, Zenon
  <2> QED
    BY <1>7, <1>8, <1>9, <1>11, <1>13, <2>1, <2>2, Zenon
<1> QED
  BY <1>12, <1>13, Zenon

\* In step: it stays so.
LEMMA FromLocked ==
  ASSUME StationOK, ~Silent, SendBit, IInv, running, running', Locked
  PROVE  Locked'
<1>1. /\ readmode = "datamode" /\ index = pos /\ voiceframecount = turn
      /\ OnAir(sr, frame, turn, pos, FrameBits)
  BY Zenon DEF Locked, InStep
<1>2. /\ frame[pos + 1] \in Bit /\ Take(frame[pos + 1]) /\ sr \in Words
  BY StepFacts, Zenon
<1>3. /\ FrameBits \in 0 .. FrameBits /\ MinOf(FrameBits + 1, FrameBits) = FrameBits
      /\ FrameBits + 1 >= DataSyncBits /\ FrameBits + 1 >= TermBits
  BY Sizes DEF MinOf
<1>4. sr' = Pushed(sr, frame[pos + 1])
  BY <1>1, <1>2, FrameTurn, Zenon
<1>5. /\ OnAir(sr', frame', turn', pos', FrameBits)
      /\ IsDataSync(sr') <=> Left = 1
      /\ ~IsTermSync(sr')
  BY <1>1, <1>2, <1>3, <1>4, BitTests, Zenon
<1>6. IsDataSync(sr') <=> pos + 1 = FrameBits /\ turn = 0
  BY <1>5, LeftStep, Zenon
<1>7. /\ pos + 1 < FrameBits => pos + 1 # FrameBits
      /\ \/ pos + 1 < FrameBits /\ pos' = pos + 1 /\ turn' = turn
         \/ pos + 1 = FrameBits /\ pos' = 0 /\ turn' = (turn + 1) % SyncPeriod
  BY StationStep, Counters
<1>8. \/ /\ index + 1 < FrameBits
         /\ readmode' = "datamode" /\ index' = index + 1 /\ voiceframecount' = voiceframecount
      \/ /\ index + 1 = FrameBits
         /\ readmode' = "datamode" /\ index' = 0 /\ voiceframecount' = NextFrame
  BY <1>1, <1>2, <1>5, <1>6, FrameTurn, Zenon
<1>9. InStep'
  BY <1>1, <1>7, <1>8, Zenon DEF InStep, NextFrame
<1> QED
  BY <1>5, <1>9, Zenon DEF Locked, FrameBits, Width, WordBits

-----------------------------------------------------------------------------
\* The test for the terminal sync does not lead to a header.
LEMMA FinishFindsNoHead ==
  ASSUME NEW mode \in {"nullmode", "datamode"}, NEW idx, NEW n, NEW told,
         Finish(mode, idx, n, told) \/ Fail(mode, idx, n, told)
  PROVE  readmode' # "headmode"
<1>1. readmode' \in {"nullmode", "datamode"}
  BY Zenon DEF Finish, Continue, Fail
<1> QED
  BY <1>1

\* The register is left alone in a header.
LEMMA HeadKeptStep == HeadKept /\ [Next]_vars => HeadKept'
<1> SUFFICES ASSUME HeadKept, [Next]_vars, running', readmode' = "headmode"
             PROVE  IsHeadSync(sr')
  BY Zenon DEF HeadKept
<1>1. CASE UNCHANGED vars
  BY <1>1, Zenon DEF vars, HeadKept
<1>2. CASE Call
  BY <1>2, Zenon DEF Call, HeadKept
<1>3. CASE HeaderBit
  BY <1>3, Zenon DEF HeaderBit, InCall, HeadKept
<1>4. CASE LastHeaderBit
  BY <1>4 DEF LastHeaderBit, Continue
<1>5. ASSUME NEW in \in Bit, FrameBit(in) PROVE FALSE
  BY <1>5, FinishFindsNoHead DEF FrameBit
<1>6. ASSUME NEW in \in Bit, SearchBit(in) PROVE FALSE
  BY <1>6, FinishFindsNoHead DEF SearchBit
<1>7. ASSUME NEW in \in Bit, HeadFound(in) PROVE IsHeadSync(sr')
  BY <1>7, Zenon DEF HeadFound
<1>8. ASSUME NEW in \in Bit, NEW ok \in BOOLEAN, FrameInOrder(in, ok) PROVE FALSE
  BY <1>8, FinishFindsNoHead DEF FrameInOrder
<1>9. ASSUME NEW in \in Bit, NEW ok \in BOOLEAN, MissingSync(in, ok) PROVE IsHeadSync(sr')
  BY <1>9, FinishFindsNoHead DEF MissingSync
<1>10. ASSUME NEW in \in Bit, NEW good \in 0 .. 2, UnexpectedSync(in, good) PROVE FALSE
  BY <1>10, FinishFindsNoHead DEF UnexpectedSync
<1>11. ASSUME NEW in \in Bit, NEW ok \in BOOLEAN, DataFound(in, ok) PROVE FALSE
  BY <1>11, FinishFindsNoHead DEF DataFound
<1> QED
  BY <1>1, <1>2, <1>3, <1>4, <1>5, <1>6, <1>7, <1>8, <1>9, <1>10, <1>11, Zenon
  DEF Next, Take

\* A station begins: the decoder is wherever noise has led it.
LEMMA BeginKeeps ==
  ASSUME RInv, Begin
  PROVE  RInv'
<1>1. /\ sr' = sr /\ readmode' = readmode /\ index' = index /\ running' = running
      /\ voiceframecount' = voiceframecount /\ UNCHANGED vars
      /\ pos' = pos /\ sent' = sent
  BY Zenon DEF Begin, vars
<1>2. IInv'
  BY <1>1, StepInv, Zenon DEF RInv
<1>3. HeadKept'
  BY <1>1, HeadKeptStep, Zenon DEF RInv
<1>4. /\ turn' \in 0 .. SyncPeriod - 1 /\ frame' \in Frames(turn')
      /\ pos' = 0 /\ sent' = 0
  BY Zenon DEF RInv, Begin, StationOK, Frames
<1>5. ~Silent'
  <2>1. frame' \in [1 .. FrameBits -> Bit]
    BY <1>4, FramesFollow
  <2> QED
    BY <2>1, FramesAreHeard DEF Silent
<1>6. StationOK'
  <2>1. pos' \in 0 .. FrameBits - 1 /\ sent' \in 0 .. Enough /\ pos' = sent'
    BY <1>4, Counters, EnoughIs
  <2> QED
    BY <1>4, <1>5, <2>1, Zenon DEF StationOK
<1>7. ASSUME running' PROVE Underway'
  <2>1. /\ Left' \in 1 .. Period /\ sent' + Left' <= Enough
        /\ sent' + Left' + Period <= Enough
    <3>1. Left' = ToSync(pos', turn')
      BY DEF Left
    <3>2. 0 \in 0 .. FrameBits - 1
      BY Counters
    <3>3. Left' \in 1 .. Period
      BY <1>4, <3>1, <3>2, ToSyncRange, Zenon
    <3>4. ASSUME NEW a, NEW b \in 1 .. Period, a = 0
          PROVE  a \in Nat /\ b \in Nat /\ a + b <= Period
      BY <3>4, EnoughIs
    <3> QED
      BY <1>4, <3>3, <3>4, TimeForTwo, Zenon
  <2>2. Heard'
    <3>1. MinOf(sent', FrameBits) = 0
      BY <1>4, Counters DEF MinOf
    <3>2. OnAir(sr', frame', turn', pos', 0)
      BY <1>4, NoneOnAir, Zenon
    <3>3. Heard' <=> OnAir(sr', frame', turn', pos', MinOf(sent', FrameBits))
      BY DEF Heard, FrameBits, Width, WordBits
    <3> QED
      BY <3>1, <3>2, <3>3, Zenon
  <2>3. readmode' \in {"nullmode", "headmode", "datamode"}
    BY <1>2, Zenon DEF IInv, TypeOK
  <2>4. CASE readmode' = "nullmode"
    BY <2>1, <2>2, <2>4, Zenon DEF Searching, Underway
  <2>5. CASE readmode' = "headmode"
    <3>1. index' \in 0 .. HeaderBits - 1
      BY <1>1, <1>7, <2>5, Zenon DEF RInv, IInv, IndexOK
    <3>2. ASSUME NEW a, NEW b \in 0 .. HeaderBits - 1, a = 0
          PROVE  a - b <= FrameBits - 1
      BY <3>2, Counters
    <3> QED
      BY <1>4, <2>5, <3>1, <3>2, Zenon DEF InHeader, Underway
  <2>6. CASE readmode' = "datamode"
    BY <2>1, <2>2, <2>6, Zenon DEF Early, Underway
  <2> QED
    BY <2>3, <2>4, <2>5, <2>6
<1> QED
  BY <1>2, <1>3, <1>6, <1>7, Zenon DEF RInv

\* The station sends a bit.
LEMMA SendKeeps ==
  ASSUME RInv, SendBit
  PROVE  RInv'
<1>1. ~Silent /\ IInv /\ StationOK /\ HeadKept /\ (running => Underway)
  BY Zenon DEF RInv, SendBit
<1>2. /\ StationOK' /\ ~Silent' /\ frame[pos + 1] \in Bit
  BY <1>1, StationStep, Zenon
<1>3. Next
  BY <1>2, Zenon DEF SendBit, Next
<1>4. IInv' /\ HeadKept'
  BY <1>1, <1>3, StepInv, HeadKeptStep, Zenon
<1>5. running
  BY Zenon DEF SendBit, Take, HeaderBit, LastHeaderBit, SearchBit, HeadFound, DataFound,
               FrameBit, FrameInOrder, MissingSync, UnexpectedSync, LastFrameBit, InCall
<1>6. ASSUME running' PROVE Underway'
  <2>1. CASE Locked
    BY <1>1, <1>5, <1>6, <2>1, FromLocked, Zenon DEF Underway
  <2>2. CASE Searching
    BY <1>1, <1>6, <2>2, FromSearching, Zenon
  <2>3. CASE InHeader
    BY <1>1, <1>5, <1>6, <2>3, FromHeader, Zenon
  <2>4. CASE AfterHeader
    BY <1>1, <1>5, <1>6, <2>4, FromAfterHeader, Zenon
  <2>5. CASE Early
    BY <1>1, <1>5, <1>6, <2>5, FromEarly, Zenon
  <2>6. CASE Awaited
    BY <1>1, <1>5, <1>6, <2>6, FromAwaited, Zenon
  <2> QED
    BY <1>1, <1>5, <2>1, <2>2, <2>3, <2>4, <2>5, <2>6, Zenon DEF Underway
<1> QED
  BY <1>2, <1>4, <1>6, Zenon DEF RInv

\* What moves neither the decoder's place nor the station's.
LEMMA RestKeeps ==
  ASSUME RInv, Noise \/ NextCall \/ UNCHANGED rvars
  PROVE  RInv'
<1>1. UNCHANGED <<frame, turn, pos, sent>> /\ [Next]_vars
  BY Zenon DEF Noise, NextCall, Next, rvars, vars
<1>2. IInv' /\ HeadKept'
  BY <1>1, StepInv, HeadKeptStep, Zenon DEF RInv
<1>3. StationOK' /\ Silent' = Silent
  BY <1>1 DEF RInv, StationOK, Silent, Frames
<1>4. ASSUME ~Silent', running' PROVE Underway'
  <2>1. /\ sr' = sr /\ readmode' = readmode /\ index' = index /\ running' = running
        /\ voiceframecount' = voiceframecount
    BY <1>3, <1>4, Zenon DEF Noise, NextCall, Call, rvars
  <2>2. Underway
    BY <1>3, <1>4, <2>1, Zenon DEF RInv
  <2>3. Left' = Left /\ (Heard' <=> Heard)
    BY <1>1, <2>1 DEF Left, Heard, FrameBits, Width, WordBits
  <2>4. /\ Locked => Locked'
        /\ Searching => Searching'
        /\ InHeader => InHeader'
        /\ AfterHeader => AfterHeader'
        /\ Early => Early'
        /\ Awaited => Awaited'
    BY <1>1, <2>1, <2>3, Zenon DEF Locked, InStep, Searching, InHeader, AfterHeader, Early,
                                   Awaited, FrameBits, Width, WordBits
  <2> QED
    BY <2>2, <2>4, Zenon DEF Underway
<1> QED
  BY <1>2, <1>3, <1>4, Zenon DEF RInv

LEMMA InvariantFromInit == RInit => RInv
<1> SUFFICES ASSUME RInit PROVE RInv
  OBVIOUS
<1>1. IInv
  BY InitInv, Zenon DEF RInit
<1>2. Silent /\ sent = 0 /\ pos = 0 /\ turn = 0
  BY Zenon DEF RInit, Silent
<1>3. HeadKept
  BY DEF RInit, Init, HeadKept
<1> QED
  BY <1>1, <1>2, <1>3, Zenon DEF RInv, StationOK

(***************************************************************************)
(* Wherever noise has led the decoder, it is on its way to the station's   *)
(* frames, or in step with them.                                           *)
(***************************************************************************)
THEOREM UnderwayHolds == RSpec => []RInv
<1>1. RInv /\ [RNext]_rvars => RInv'
  BY BeginKeeps, SendKeeps, RestKeeps, Zenon DEF RNext
<1> QED
  BY <1>1, InvariantFromInit, PTL DEF RSpec

(***************************************************************************)
(* After Enough bits of a station the decoder's frames are the station's,  *)
(* and so are their numbers.                                               *)
(***************************************************************************)
THEOREM RelockInTimeHolds == RSpec => []RelockInTime
<1>1. RInv => RelockInTime
  <2> SUFFICES ASSUME RInv, running, sent = Enough PROVE InStep
    BY DEF RelockInTime
  <2>1. /\ Enough \in Nat /\ Enough > 0
        /\ HeaderBits + 2 * FrameBits - 1 <= Enough /\ Period \in Nat
    BY EnoughIs, Counters
  <2>2. ~Silent
    <3>1. Silent => sent = 0
      BY Zenon DEF RInv, StationOK
    <3> QED
      BY <2>1, <3>1
  <2>3. /\ turn \in 0 .. SyncPeriod - 1 /\ pos \in 0 .. FrameBits - 1 /\ Underway /\ IInv
    BY <2>2, Zenon DEF RInv, StationOK
  <2>4. Left \in 1 .. Period
    BY <2>3, ToSyncRange, Zenon DEF Left
  <2>5. sent \in Nat /\ sent = Enough
    BY <2>1
  <2>6. ~(sent + Left <= Enough) /\ ~(sent + Left + Period <= Enough)
    BY <2>1, <2>4, <2>5
  <2>7. ~Searching /\ ~Early /\ ~Awaited
    BY <2>6, Zenon DEF Searching, Early, Awaited
  <2>8. ~InHeader /\ ~AfterHeader
    <3>1. readmode = "headmode" => index \in 0 .. HeaderBits - 1
      BY <2>3, Zenon DEF IInv, IndexOK
    <3>2. readmode = "datamode" => index \in 0 .. FrameBits - 1
      BY <2>3, Zenon DEF IInv, IndexOK
    <3>3. readmode = "headmode" => ~(sent - index <= FrameBits - 1)
      BY <2>1, <2>5, <3>1, Counters
    <3>4. readmode = "datamode" => ~(sent - index <= HeaderBits + FrameBits - 1)
      BY <2>1, <2>5, <3>2, Counters
    <3> QED
      BY <3>3, <3>4, Zenon DEF InHeader, AfterHeader
  <2> QED
    BY <2>3, <2>7, <2>8, Zenon DEF Underway, Locked
<1> QED
  BY <1>1, UnderwayHolds, PTL
=============================================================================
