---------------------------- MODULE MCHeaderOnAir ----------------------------
(* A header of two octets in rows of nine bits; the real table, and the     *)
(* real sizes in the assumptions.                                           *)
EXTENDS HeaderOnAir, Sequences

\* SCRAMBLER_TABLE_BITS: these 127 bits over and over
Table == <<0,0,0,0,1,1,1,0,1,1,1,1,0,0,1,0,1,1,0,0,1,0,0,1,0,0,0,0,0,0,1,0,
           0,0,1,0,0,1,1,0,0,0,1,0,1,1,1,0,1,0,1,1,0,1,1,0,0,0,0,0,1,1,0,0,
           1,1,0,1,0,1,0,0,1,1,1,0,0,1,1,1,1,0,1,1,0,1,0,0,0,0,1,0,1,0,1,0,
           1,1,1,1,1,0,1,0,0,1,0,1,0,0,0,1,1,0,1,1,1,0,0,0,1,1,1,1,1,1,1>>

MCScrambler == [loop \in 0 .. 2 * Pairs - 1 |-> Table[(loop % 127) + 1]]

MCHeaders == {[octet \in 0 .. Octets - 1 |-> IF octet % 2 = 0 THEN a ELSE b] :
                a \in {0, 93, 178, 255}, b \in {0, 78, 161, 255}}

\* the table is what a shift register of seven bits gives, with taps 4 and 7
ASSUME ScramblerRegister ==
  \A i \in 8 .. Len(Table) : Table[i] = Xor(Table[i - 4], Table[i - 7])

\* bursts of this length are those that the proof is about, as are those of
\* 27 bits in the real header
ASSUME BurstScattered == Scattered /\ 27 < High(660, 24) \div 24

RealPlace(k) == AirPlace(660, 24, k)

\* with 660 bits in rows of 24, each bit goes to the place after the last one's
ASSUME RealInterleaver ==
  /\ RealPlace(0) = 0
  /\ {RealPlace(k) : k \in 0 .. 659} = 0 .. 659
  /\ \A k \in 0 .. 659 :
       RealPlace(k) < 659 => RealPlace(NextSlot(660, 24, k)) = RealPlace(k) + 1

\* and bits fewer than 27 apart on the air are at least 23 apart in the code
ASSUME RealSpread ==
  \A k \in 0 .. 659, d \in 1 .. 22 :
    k + d < 660 => RealPlace(k + d) - RealPlace(k) \notin -26 .. 26
=============================================================================
