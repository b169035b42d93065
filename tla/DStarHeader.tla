----------------------------- MODULE DStarHeader -----------------------------
(***************************************************************************)
(* CDStarHeader (lib/DStarHeader.cc): from the bits of a radio header, as  *)
(* they came over the air, to its octets: descrambling, deinterleaving,    *)
(* and a Viterbi decoder for a convolution code with four states.          *)
(*                                                                         *)
(* The constructor is the whole program of this class.  A step is the      *)
(* first two stages, a turn of the decoder's loop (one pair of bits), a    *)
(* turn of the loop that traces the survivor back, or the last stage.      *)
(* fec_decoder is entered anew each time, so nothing is left of the header *)
(* before.                                                                 *)
(***************************************************************************)
EXTENDS Integers

CONSTANTS
  Pairs,      \* pairs of code bits in a header: 330
  Step,       \* bits apart in the code that are next to each other on the air: 24
  Octets,     \* octets of a header: 41
  Scrambler   \* the scrambler's bits

Bits == 2 * Pairs
Bit == {0, 1}
Places == 0 .. Bits - 1
States == 0 .. 3

ASSUME HeaderAssumption ==
  /\ Pairs \in Nat \ {0}
  /\ Step \in Nat \ {0}
  /\ Octets \in Nat
  /\ 8 * Octets <= Pairs
  /\ Scrambler \in [Places -> Bit]

VARIABLES
  stage,      \* where in the constructor
  n,          \* the loop's count: pairs decoded, or those left to trace
  bits,       \* code bits, in the encoder's order
  metric,     \* m_pathMetric
  memory,     \* m_pathMemory0 to 3
  state,      \* of traceBack
  out,        \* h2: the descrambled bits, then traceBack's
  header

vars == <<stage, n, bits, metric, memory, state, out, header>>

Xor(a, b) == (a + b) % 2

(***************************************************************************)
(* The order on the air, of size bits: every step-th bit, from each of the *)
(* first step bits on.  Two kinds of columns, as step does not divide      *)
(* size: from a long one it is high - 1 back to the top of the next (671)  *)
(* and from a short one step less (647).                                   *)
(***************************************************************************)
\* step times the number of rows: 672
High(size, step) == step * ((size + step - 1) \div step)

\* the place after k's
NextSlot(size, step, k) ==
  LET up == k + step
  IN  IF up >= High(size, step) THEN up - (High(size, step) - 1)
      ELSE IF up >= size THEN up - (High(size, step) - step - 1) ELSE up

\* where the bit with number loop on the air goes
Slot[loop \in Places] ==
  IF loop = 0 THEN 0 ELSE NextSlot(Bits, Step, Slot[loop - 1])

\* a plausible slip: the table is read from its second bit on
scrambleLate(in) == [loop \in Places |-> Xor(in[loop], Scrambler[(loop + 1) % Bits])]
scramble(in) == [loop \in Places |-> Xor(in[loop], Scrambler[loop])]

\* a place that no bit goes to keeps what was there
deinterleave(in, old) ==
  [k \in Places |-> IF \E loop \in Places : Slot[loop] = k
                    THEN in[CHOOSE loop \in Places : Slot[loop] = k]
                    ELSE old[k]]

(***************************************************************************)
(* The trellis.  Two paths lead to a state, path 0 and path 1; on each the *)
(* encoder sends a pair of bits, in this table as data[1], data[0], by the *)
(* index of the metric.                                                    *)
(***************************************************************************)
\* the state before s on a path
From(s, path) == s \div 2 + 2 * path

\* a plausible slip: the pairs of metric[6] and metric[7] exchanged
ExpectedSwapped == <<<<0, 0>>, <<1, 1>>, <<1, 0>>, <<0, 1>>,
                     <<1, 1>>, <<0, 0>>, <<1, 0>>, <<0, 1>>>>
Expected == <<<<0, 0>>, <<1, 1>>, <<1, 0>>, <<0, 1>>,
              <<1, 1>>, <<0, 0>>, <<0, 1>>, <<1, 0>>>>

\* how many bits of the pair at hand are not as expected
BranchMetric(s, path) ==
  LET pair == Expected[s + 4 * path + 1]
  IN  Xor(bits[2 * n], pair[1]) + Xor(bits[2 * n + 1], pair[2])

PathMetric(s, path) == BranchMetric(s, path) + metric[From(s, path)]

\* path 0 only where it is strictly better
Best(s) == IF PathMetric(s, 0) < PathMetric(s, 1) THEN 0 ELSE 1

\* a plausible slip: the older bit of the state is read out
LastInOlder(s) == s \div 2
\* the bit that went into the encoder last, by its state
LastIn(s) == s % 2

bit2octet == <<1, 2, 4, 8, 16, 32, 64, 128>>

\* the octet with number octet in a string of bits
OctetOf(h, octet) ==
  LET part(bit) == h[8 * octet + bit] * bit2octet[bit + 1]
  IN  part(0) + part(1) + part(2) + part(3) + part(4) + part(5) + part(6) + part(7)

NoMetric == [s \in States |-> 0]
NoMemory == [k \in 0 .. Pairs - 1 |-> [s \in States |-> 0]]

Init ==
  /\ stage = "new"
  /\ n = 0
  /\ bits = [k \in Places |-> 0]
  /\ metric = NoMetric
  /\ memory = NoMemory
  /\ state = 0
  /\ out = [k \in Places |-> 0]
  /\ header = [octet \in 0 .. Octets - 1 |-> 0]

\* the constructor begins, with the bits in buffer, and fec_decoder
CDStarHeader(in) ==
  /\ stage = "new"
  /\ stage' = "fec"
  /\ bits' = deinterleave(scramble(in), in)
  /\ out' = scramble(in)
  /\ n' = 0
  /\ metric' = NoMetric
  /\ memory' = NoMemory
  /\ state' = 0
  /\ UNCHANGED header

\* a plausible slip: the loop goes on past the first pair
LastTurnLate == n = 0
\* the pair at hand is the last that traceBack sees
LastTurn == n = 1

viterbiDecode ==
  /\ stage = "fec"
  /\ n' = n + 1
  /\ metric' = [s \in States |-> PathMetric(s, Best(s))]
  /\ memory' = [memory EXCEPT ![n] = [s \in States |-> Best(s)]]
  /\ stage' = IF n + 1 = Pairs THEN "trace" ELSE "fec"
  /\ UNCHANGED <<bits, state, out, header>>

\* the path that ends in state 0, back from its end
traceBack ==
  /\ stage = "trace"
  /\ n' = n - 1
  /\ out' = [out EXCEPT ![n - 1] = LastIn(state)]
  /\ state' = From(state, memory[n - 1][state])
  /\ stage' = IF LastTurn THEN "pack" ELSE "trace"
  /\ UNCHANGED <<bits, metric, memory, header>>

\* bits into octets; those after the last octet are not used
PackOctets ==
  /\ stage = "pack"
  /\ stage' = "done"
  /\ header' = [octet \in 0 .. Octets - 1 |-> OctetOf(out, octet)]
  /\ UNCHANGED <<n, bits, metric, memory, state, out>>

Decode == viterbiDecode \/ traceBack \/ PackOctets

Next == Decode \/ \E in \in [Places -> Bit] : CDStarHeader(in)

Spec == Init /\ [][Next]_vars

TypeOK ==
  /\ stage \in {"new", "fec", "trace", "pack", "done"}
  /\ n \in 0 .. Pairs
  /\ stage = "fec" => n < Pairs
  /\ stage = "trace" => n > 0
  /\ bits \in [Places -> Bit]
  /\ metric \in [States -> Nat]
  /\ memory \in [0 .. Pairs - 1 -> [States -> Bit]]
  /\ state \in States
  /\ out \in [Places -> Bit]
  /\ header \in [0 .. Octets - 1 -> 0 .. 255]
=============================================================================
