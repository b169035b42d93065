--------------------------- MODULE MCSyncPatterns ---------------------------
(* The patterns of lib/SyncRegister.cc, at their real size.                *)
EXTENDS SyncPatterns

\* the value of a 32-bit constant, from its hexadecimal digits
Hex(digit) ==
  [b \in 0 .. 31 |-> (digit[8 - (b \div 4)] \div 2 ^ (b % 4)) % 2]

\* IsHeadSync: 0x55555555, 0x55555555, 0x55557650
MCHeadSync ==
  [j \in 0 .. 2 |-> IF j = 0 THEN Hex(<<5, 5, 5, 5, 7, 6, 5, 0>>)
                             ELSE Hex(<<5, 5, 5, 5, 5, 5, 5, 5>>)]
\* IsDataSync: 0xaab468 in the low 24 bits
MCDataSync == [b \in 0 .. 23 |-> Hex(<<0, 0, 10, 10, 11, 4, 6, 8>>)[b]]
\* IsTermSync: 0xaaaa in the low 16 bits of data[1], 0xaaaa135e in data[0]
MCTermHigh == [b \in 0 .. 15 |-> Hex(<<0, 0, 0, 0, 10, 10, 10, 10>>)[b]]
MCTermLow == Hex(<<10, 10, 10, 10, 1, 3, 5, 14>>)

\* octets, from two hexadecimal digits
HexOctet(high, low) == [b \in 0 .. 7 |-> ((16 * high + low) \div 2 ^ b) % 2]

\* syncdata and nulldata of CDV3000U::GetData
MCSlowOctets ==
  [sync |-> <<HexOctet(10, 10), HexOctet(11, 4), HexOctet(6, 8)>>,
   null |-> <<HexOctet(6, 8), HexOctet(9, 4), HexOctet(10, 15)>>]

MCVocoderFrames ==
  {[i \in 1 .. 9 |-> HexOctet(i, 15 - i)], [i \in 1 .. 9 |-> HexOctet(i + 6, i)],
   [i \in 1 .. 9 |-> HexOctet(0, 1)]}
=============================================================================
