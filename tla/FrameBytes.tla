----------------------------- MODULE FrameBytes -----------------------------
(***************************************************************************)
(* The order of the bits of a voice frame, from one vocoder to the other.  *)
(* CDV3000U (lib/DV3000U.cc) reverses the bits of each octet it gets from  *)
(* the vocoder and of each it sends to it; a stream of bits is made of     *)
(* octets by unpack_k_bits_bb (not of the repository), which begins with   *)
(* the most significant, or by a modulator that begins with the least      *)
(* significant, with bit_reverse_bb before it (lib/bit_reverse_bb_impl.cc).*)
(* An octet is a function from bit numbers to bits, as in SyncWords.       *)
(***************************************************************************)
EXTENDS SyncWords, Sequences

\* the table of this name, in both files
bitreverse(octet) == [b \in 0 .. OctetBits - 1 |-> octet[OctetBits - 1 - b]]

\* a plausible slip: the octets of the vocoder are taken as they are
GetDataUnreversed(ambe, slow) == ambe \o slow
\* GetData: the nine octets of the vocoder, and three of slow data
GetData(ambe, slow) == [i \in DOMAIN ambe |-> bitreverse(ambe[i])] \o slow

\* SendData: the octets that go to the vocoder, of a frame of GetDataFrame
SendData(frame, size) == [i \in 1 .. size |-> bitreverse(frame[i - 1])]

\* work of bit_reverse_bb
BitReverse(octets) == [i \in DOMAIN octets |-> bitreverse(octets[i])]

\* the bits of these octets, by the two who may make a stream of them
MostSignificantFirst(octets) ==
  [p \in 1 .. OctetBits * Len(octets) |->
     octets[(p - 1) \div OctetBits + 1][OctetBits - 1 - ((p - 1) % OctetBits)]]
LeastSignificantFirst(octets) ==
  [p \in 1 .. OctetBits * Len(octets) |->
     octets[(p - 1) \div OctetBits + 1][(p - 1) % OctetBits]]

Streams(octets) ==
  {MostSignificantFirst(octets), LeastSignificantFirst(BitReverse(octets))}
=============================================================================
