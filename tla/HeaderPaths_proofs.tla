------------------------- MODULE HeaderPaths_proofs -------------------------
(***************************************************************************)
(* That the Viterbi decoder of CDStarHeader finds the least metrics and    *)
(* reads out the path that has them, for headers of any size and any bits  *)
(* received; and that a station's header is read as it was sent, if the    *)
(* interleaver scatters the burst of errors in it.                         *)
(***************************************************************************)
EXTENDS HeaderOnAir, FiniteSetTheorems, WellFoundedInduction, TLAPS

(***************************************************************************)
(* Exclusive or of bits is a bit.                                          *)
(***************************************************************************)
LEMMA XorType == ASSUME NEW a \in Bit, NEW b \in Bit PROVE Xor(a, b) \in Bit
  BY DEF Xor, Bit

(***************************************************************************)
(* Each path to a state comes from a state.                                *)
(***************************************************************************)
LEMMA FromType ==
  ASSUME NEW s \in States, NEW path \in Bit PROVE From(s, path) \in States
  BY DEF From, States, Bit

(***************************************************************************)
(* The encoder stays within its states and sends pairs of bits.            *)
(***************************************************************************)
LEMMA EncoderType ==
  ASSUME NEW s \in States, NEW in \in Bit
  PROVE  /\ After(s, in) \in States
         /\ Sends(s, in) \in Bit \X Bit
  BY DEF After, Sends, States, Bit

(***************************************************************************)
(* Descrambling and deinterleaving leave bits, wherever the deinterleaver  *)
(* puts them.                                                              *)
(***************************************************************************)
LEMMA AirType ==
  ASSUME NEW in \in [Places -> Bit]
  PROVE  /\ scramble(in) \in [Places -> Bit]
         /\ deinterleave(scramble(in), in) \in [Places -> Bit]
<1>1. scramble(in) \in [Places -> Bit]
  <2>1. \A loop \in Places : Xor(in[loop], Scrambler[loop]) \in Bit
    BY HeaderAssumption, XorType
  <2> QED
    BY <2>1 DEF scramble
<1>2. \A k \in Places :
        (\E loop \in Places : Slot[loop] = k) =>
          (CHOOSE loop \in Places : Slot[loop] = k) \in Places
  BY Zenon
<1> QED
  BY <1>1, <1>2 DEF deinterleave

(***************************************************************************)
(* The two paths of the decoder's table that lead to s are the encoder's   *)
(* steps into s, with the pairs that the encoder sends on them; and there  *)
(* are no others.                                                          *)
(***************************************************************************)
LEMMA TrellisIsEncoders ==
  ASSUME NEW s \in States, NEW path \in Bit
  PROVE  /\ After(From(s, path), LastIn(s)) = s
         /\ Sends(From(s, path), LastIn(s)) = Expected[s + 4 * path + 1]
         /\ LastIn(s) \in Bit
<1>1. CASE s = 0
  BY <1>1 DEF After, Sends, From, LastIn, Expected, Bit
<1>2. CASE s = 1
  BY <1>2 DEF After, Sends, From, LastIn, Expected, Bit
<1>3. CASE s = 2
  BY <1>3 DEF After, Sends, From, LastIn, Expected, Bit
<1>4. CASE s = 3
  BY <1>4 DEF After, Sends, From, LastIn, Expected, Bit
<1> QED
  BY <1>1, <1>2, <1>3, <1>4 DEF States

LEMMA EncodersAreTrellis ==
  ASSUME NEW t \in States, NEW in \in Bit
  PROVE  \E path \in Bit : /\ t = From(After(t, in), path)
                           /\ in = LastIn(After(t, in))
<1> DEFINE path == t \div 2
<1>1. path \in Bit
  BY DEF States, Bit
<1>2. t = From(After(t, in), path) /\ in = LastIn(After(t, in))
  BY DEF States, Bit, After, From, LastIn
<1> QED
  BY <1>1, <1>2

(***************************************************************************)
(* Metrics are counts, and a state keeps the lesser of its two.            *)
(***************************************************************************)
LEMMA MetricType ==
  ASSUME TypeOK, stage = "fec", NEW s \in States, NEW path \in Bit
  PROVE  /\ BranchMetric(s, path) \in Nat
         /\ PathMetric(s, path) = BranchMetric(s, path) + metric[From(s, path)]
         /\ PathMetric(s, path) \in Nat
         /\ BranchMetric(s, path) = Wrong(Sends(From(s, path), LastIn(s)))
<1>1. 2 * n \in Places /\ 2 * n + 1 \in Places
  BY HeaderAssumption DEF TypeOK, Places, Bits
<1>2. Sends(From(s, path), LastIn(s)) \in Bit \X Bit
  BY FromType, TrellisIsEncoders, EncoderType
<1>3. BranchMetric(s, path) = Wrong(Sends(From(s, path), LastIn(s)))
  BY TrellisIsEncoders, Zenon DEF BranchMetric, Wrong
<1>4. Wrong(Sends(From(s, path), LastIn(s))) \in Nat
  <2> DEFINE pair == Sends(From(s, path), LastIn(s))
  <2>1. pair[1] \in Bit /\ pair[2] \in Bit
    BY <1>2
  <2>2. bits[2 * n] \in Bit /\ bits[2 * n + 1] \in Bit
    BY <1>1 DEF TypeOK
  <2>3. Xor(bits[2 * n], pair[1]) \in Bit /\ Xor(bits[2 * n + 1], pair[2]) \in Bit
    BY <2>1, <2>2, XorType
  <2> QED
    BY <2>3 DEF Wrong, Bit
<1>5. metric[From(s, path)] \in Nat
  BY FromType DEF TypeOK
<1> QED
  BY <1>3, <1>4, <1>5 DEF PathMetric

LEMMA BestIsLess ==
  ASSUME TypeOK, stage = "fec", NEW s \in States
  PROVE  /\ Best(s) \in Bit
         /\ \A path \in Bit : PathMetric(s, Best(s)) <= PathMetric(s, path)
<1>1. PathMetric(s, 0) \in Nat /\ PathMetric(s, 1) \in Nat
  BY MetricType DEF Bit
<1>2. CASE PathMetric(s, 0) < PathMetric(s, 1)
  BY <1>1, <1>2 DEF Best, Bit
<1>3. CASE ~(PathMetric(s, 0) < PathMetric(s, 1))
  BY <1>1, <1>3 DEF Best, Bit
<1> QED
  BY <1>2, <1>3

(***************************************************************************)
(* The types, and that metrics are least, are preserved by every step.     *)
(***************************************************************************)
LEMMA TypeStep == ASSUME TypeOK, [PNext]_pvars PROVE TypeOK'
<1> USE HeaderAssumption
<1>1. ASSUME NEW in \in [Places -> Bit], Receive(in) PROVE TypeOK'
  <2>1. bits' \in [Places -> Bit] /\ out' \in [Places -> Bit]
    BY <1>1, AirType DEF Receive, CDStarHeader
  <2>2. metric' \in [States -> Nat] /\ memory' \in [0 .. Pairs - 1 -> [States -> Bit]]
    BY <1>1 DEF Receive, CDStarHeader, NoMetric, NoMemory, Bit
  <2>3. stage' = "fec" /\ n' = 0 /\ state' = 0 /\ header' = header
    BY <1>1 DEF Receive, CDStarHeader
  <2>4. n' \in 0 .. Pairs /\ n' < Pairs /\ state' \in States
    BY <2>3 DEF States
  <2> QED
    BY <2>1, <2>2, <2>3, <2>4 DEF TypeOK
<1>2. CASE DecodePair
  <2> USE <1>2 DEF DecodePair, viterbiDecode
  <2>1. /\ n' \in 1 .. Pairs
        /\ stage' \in {"fec", "trace"}
        /\ stage' = "fec" => n' < Pairs
    BY DEF TypeOK
  <2>2. metric' \in [States -> Nat]
    BY BestIsLess, MetricType
  <2>3. memory' \in [0 .. Pairs - 1 -> [States -> Bit]]
    <3>1. [s \in States |-> Best(s)] \in [States -> Bit]
      BY BestIsLess
    <3> QED
      BY <3>1 DEF TypeOK
  <2>4. UNCHANGED <<bits, state, out, header>>
    OBVIOUS
  <2> HIDE DEF DecodePair, viterbiDecode
  <2> QED
    BY <2>1, <2>2, <2>3, <2>4 DEF TypeOK
<1>3. CASE traceBack /\ UNCHANGED costs
  <2> USE <1>3 DEF traceBack
  <2>1. n' \in 0 .. Pairs - 1 /\ (stage' = "trace" => n' > 0)
    BY DEF TypeOK, LastTurn
  <2>2. state' \in States
    <3>1. memory[n - 1][state] \in Bit
      BY DEF TypeOK
    <3> QED
      BY <3>1, FromType DEF TypeOK
  <2>3. out' \in [Places -> Bit]
    <3>1. LastIn(state) \in Bit
      BY DEF TypeOK, States, LastIn, Bit
    <3> QED
      BY <3>1 DEF TypeOK
  <2> QED
    BY <2>1, <2>2, <2>3 DEF TypeOK
<1>4. CASE PackOctets /\ UNCHANGED costs
  <2>1. \A octet \in 0 .. Octets - 1 : OctetOf(out, octet) \in 0 .. 255
    <3> TAKE octet \in 0 .. Octets - 1
    <3>1. \A bit \in 0 .. 7 : 8 * octet + bit \in Places
      BY DEF Places, Bits
    <3>2. \A bit \in 0 .. 7 : out[8 * octet + bit] \in {0, 1}
      BY <3>1 DEF TypeOK, Bit
    <3> QED
      BY <3>2 DEF OctetOf, bit2octet
  <2> QED
    BY <1>4, <2>1 DEF PackOctets, TypeOK
<1>5. CASE UNCHANGED pvars
  BY <1>5 DEF pvars, TypeOK
<1> QED
  BY <1>1, <1>2, <1>3, <1>4, <1>5 DEF PNext, Finish

LEMMA TypeInit == ASSUME Init PROVE TypeOK
  BY HeaderAssumption DEF Init, NoMetric, NoMemory, TypeOK, States, Bit, Bits

CostsOK == costs \subseteq States \X Nat

LEMMA LeastStep ==
  ASSUME TypeOK, CostsOK, LeastMetric, DecodePair
  PROVE  CostsOK' /\ LeastMetric'
<1> stage = "fec"
  BY DEF DecodePair, viterbiDecode
<1>1. \A t \in States, in \in Bit : Wrong(Sends(t, in)) \in Nat
  <2> TAKE t \in States, in \in Bit
  <2>1. PICK path \in Bit : t = From(After(t, in), path) /\ in = LastIn(After(t, in))
    BY EncodersAreTrellis
  <2> QED
    BY <2>1, EncoderType, MetricType
<1>2. CostsOK'
  <2> SUFFICES ASSUME NEW p \in costs, NEW in \in Bit
               PROVE  <<After(p[1], in), p[2] + Wrong(Sends(p[1], in))>> \in States \X Nat
    BY DEF CostsOK, DecodePair
  <2>1. p[1] \in States /\ p[2] \in Nat
    BY DEF CostsOK
  <2>2. After(p[1], in) \in States /\ Wrong(Sends(p[1], in)) \in Nat
    BY <1>1, <2>1, EncoderType
  <2>3. p[2] + Wrong(Sends(p[1], in)) \in Nat
    BY <2>1, <2>2
  <2> QED
    BY <2>2, <2>3
<1>3. ASSUME NEW s \in States PROVE <<s, metric'[s]>> \in costs'
  <2> DEFINE t == From(s, Best(s))
  <2>1. t \in States /\ LastIn(s) \in Bit /\ After(t, LastIn(s)) = s
    BY BestIsLess, FromType, TrellisIsEncoders
  <2>2. <<t, metric[t]>> \in costs
    BY <2>1 DEF LeastMetric
  <2>3. metric'[s] = metric[t] + Wrong(Sends(t, LastIn(s)))
    <3>1. metric'[s] = PathMetric(s, Best(s))
      BY DEF DecodePair, viterbiDecode
    <3>2. metric[t] \in Nat
      BY <2>1 DEF TypeOK
    <3> QED
      BY <3>1, <3>2, BestIsLess, MetricType
  <2> QED
    BY <2>1, <2>2, <2>3 DEF DecodePair
<1>4. ASSUME NEW q \in costs' PROVE metric'[q[1]] <= q[2]
  <2>1. PICK p \in costs, in \in Bit :
          q = <<After(p[1], in), p[2] + Wrong(Sends(p[1], in))>>
    BY <1>4 DEF DecodePair
  <2>2. p[1] \in States /\ p[2] \in Nat /\ metric[p[1]] <= p[2]
    BY DEF CostsOK, LeastMetric
  <2> DEFINE s == After(p[1], in)
  <2>3. PICK path \in Bit : p[1] = From(s, path) /\ in = LastIn(s)
    BY <2>2, EncodersAreTrellis
  <2>4. s \in States
    BY <2>2, EncoderType
  <2>5. metric'[s] <= PathMetric(s, path)
    BY <2>4, BestIsLess DEF DecodePair, viterbiDecode
  <2>6. PathMetric(s, path) = Wrong(Sends(p[1], in)) + metric[p[1]]
    BY <2>3, <2>4, MetricType
  <2>7. metric[p[1]] \in Nat /\ metric'[s] \in Nat
    BY <2>2, <2>4, BestIsLess, MetricType DEF TypeOK, DecodePair, viterbiDecode
  <2> QED
    BY <1>1, <2>1, <2>2, <2>5, <2>6, <2>7
<1> QED
  BY <1>2, <1>3, <1>4 DEF LeastMetric

\* before the first pair, every state is reached at no cost
LEMMA LeastAtFirst ==
  ASSUME metric = NoMetric, costs = NoCosts PROVE CostsOK /\ LeastMetric
  BY DEF NoMetric, NoCosts, CostsOK, LeastMetric

LEMMA QuietStep ==
  ASSUME CostsOK, LeastMetric, [PNext]_pvars, ~DecodePair
  PROVE  CostsOK' /\ LeastMetric'
<1>1. ASSUME NEW in \in [Places -> Bit], Receive(in)
      PROVE  CostsOK' /\ LeastMetric'
  <2>1. metric' = NoMetric /\ costs' = NoCosts
    BY <1>1, Zenon DEF Receive, CDStarHeader
  <2> QED
    BY <2>1 DEF NoMetric, NoCosts, CostsOK, LeastMetric
<1>2. CASE Finish \/ UNCHANGED pvars
  <2>1. metric' = metric /\ costs' = costs
    BY <1>2, Zenon DEF pvars, Finish, traceBack, PackOctets
  <2> QED
    BY <2>1 DEF CostsOK, LeastMetric
<1> QED
  BY <1>1, <1>2, Zenon DEF PNext

(***************************************************************************)
(* With any sizes and any bits, no index of the constructor's loops leaves *)
(* its arrays, and octets are octets.                                      *)
(***************************************************************************)
THEOREM TypeCorrect == PSpec => []TypeOK
<1>1. PInit => TypeOK
  BY TypeInit DEF PInit
<1>2. TypeOK /\ [PNext]_pvars => TypeOK'
  BY TypeStep
<1> QED
  BY <1>1, <1>2, PTL DEF PSpec

(***************************************************************************)
(* m_pathMetric is, for each state, the least number of wrong bits on any  *)
(* path of the encoder that ends there: for headers of any length, and     *)
(* whatever has been received.                                             *)
(***************************************************************************)
THEOREM MetricIsLeast == PSpec => []LeastMetric
<1> DEFINE IInv == TypeOK /\ CostsOK /\ LeastMetric
<1>1. PInit => IInv
  <2> SUFFICES ASSUME PInit PROVE CostsOK /\ LeastMetric
    BY TypeInit DEF PInit
  <2> QED
    BY LeastAtFirst DEF PInit, Init
<1>2. IInv /\ [PNext]_pvars => IInv'
  BY TypeStep, LeastStep, QuietStep
<1>3. IInv => LeastMetric
  OBVIOUS
<1> QED
  BY <1>1, <1>2, <1>3, PTL DEF PSpec

-----------------------------------------------------------------------------
(***************************************************************************)
(* The traced path.  What the decoder knows of it at the end it has in     *)
(* pieces: metric has the costs of the last states only, memory the step   *)
(* into each state, out the bits.  M puts the metrics back, for each       *)
(* number of pairs k, and P the states.                                    *)
(***************************************************************************)
Pair(b, k, pair) == Xor(b[2 * k], pair[1]) + Xor(b[2 * k + 1], pair[2])

\* M[k] are the metrics after k pairs, for k up to m
Metrics(M, m, b, mem) ==
  /\ M \in [0 .. Pairs -> [States -> Nat]]
  /\ M[0] = NoMetric
  /\ \A k \in 0 .. m - 1, s \in States :
       LET t == From(s, mem[k][s])
       IN  M[k + 1][s] = M[k][t] + Pair(b, k, Sends(t, LastIn(s)))

\* P[k] are the states that the path memories lead to from state 0 at the
\* end, for k from m on; o has the bits read out on the way
Traced(P, m, mem, o) ==
  /\ P \in [0 .. Pairs -> States]
  /\ P[Pairs] = 0
  /\ \A k \in m .. Pairs - 1 :
       P[k] = From(P[k + 1], mem[k][P[k + 1]]) /\ o[k] = LastIn(P[k + 1])

Remembered ==
  /\ stage = "fec" =>
       state = 0 /\ \E M : Metrics(M, n, bits, memory) /\ M[n] = metric
  /\ stage \in {"trace", "pack", "done"} =>
       /\ \E M : Metrics(M, Pairs, bits, memory) /\ M[Pairs] = metric
       /\ \E P : Traced(P, n, memory, out) /\ P[n] = state
  /\ stage \in {"pack", "done"} => n = 0

-----------------------------------------------------------------------------
\* A turn of the decoder adds the metrics after one pair more.
LEMMA PairRemembered ==
  ASSUME TypeOK, Remembered, viterbiDecode
  PROVE  \E M : Metrics(M, n + 1, bits', memory') /\ M[n + 1] = metric'
<1>1. /\ stage = "fec" /\ n \in 0 .. Pairs - 1 /\ bits' = bits
      /\ metric' = [s \in States |-> PathMetric(s, Best(s))]
      /\ memory' = [memory EXCEPT ![n] = [s \in States |-> Best(s)]]
  BY HeaderAssumption DEF viterbiDecode, TypeOK
<1>2. PICK M : Metrics(M, n, bits, memory) /\ M[n] = metric
  BY <1>1, Zenon DEF Remembered
<1>3. /\ M \in [0 .. Pairs -> [States -> Nat]]
      /\ M[0] = NoMetric
      /\ \A k \in 0 .. n - 1, s \in States :
           LET t == From(s, memory[k][s])
           IN  M[k + 1][s] = M[k][t] + Pair(bits, k, Sends(t, LastIn(s)))
  BY <1>2, Zenon DEF Metrics
<1> DEFINE N == [M EXCEPT ![n + 1] = metric']
<1>4. metric' \in [States -> Nat]
  BY <1>1, BestIsLess, MetricType
<1>5. /\ N \in [0 .. Pairs -> [States -> Nat]]
      /\ N[n + 1] = metric'
      /\ \A k \in 0 .. n : N[k] = M[k]
  BY <1>1, <1>3, <1>4, HeaderAssumption
<1>6. \A k \in 0 .. n - 1 : memory'[k] = memory[k]
  BY <1>1 DEF TypeOK
<1>7. memory'[n] = [s \in States |-> Best(s)]
  BY <1>1 DEF TypeOK
<1> HIDE DEF N
<1>8. ASSUME NEW k \in 0 .. n, NEW s \in States
      PROVE  LET t == From(s, memory'[k][s])
             IN  N[k + 1][s] = N[k][t] + Pair(bits, k, Sends(t, LastIn(s)))
  <2>1. CASE k < n
    <3>1. k \in 0 .. n - 1 /\ k + 1 \in 0 .. n
      BY <1>1, <2>1
    <3> QED
      BY <1>3, <1>5, <1>6, <3>1
  <2>2. CASE k = n
    <3>1. N[n + 1][s] = PathMetric(s, Best(s)) /\ memory'[n][s] = Best(s)
      BY <1>1, <1>5, <1>7
    <3>2. N[n] = metric
      BY <1>1, <1>2, <1>5
    <3>3. BranchMetric(s, Best(s)) = Pair(bits, n, Sends(From(s, Best(s)), LastIn(s)))
      BY <1>1, BestIsLess, MetricType DEF Wrong, Pair
    <3>4. PathMetric(s, Best(s)) = BranchMetric(s, Best(s)) + metric[From(s, Best(s))]
      BY <1>1, BestIsLess, MetricType
    <3>5. BranchMetric(s, Best(s)) \in Nat /\ metric[From(s, Best(s))] \in Nat
      BY <1>1, BestIsLess, MetricType, FromType DEF TypeOK
    <3>6. PathMetric(s, Best(s)) = metric[From(s, Best(s))] + BranchMetric(s, Best(s))
      BY <3>4, <3>5
    <3> QED
      BY <2>2, <3>1, <3>2, <3>3, <3>6
  <2> QED
    BY <1>1, <2>1, <2>2
<1>9. N[0] = NoMetric
  BY <1>1, <1>3, <1>5
<1>10. (n + 1) - 1 = n
  BY <1>1
<1>11. Metrics(N, n + 1, bits', memory')
  BY <1>1, <1>5, <1>8, <1>9, <1>10, Zenon DEF Metrics
<1> QED
  BY <1>5, <1>11, Zenon

\* A turn of traceBack adds a state to the path, and its bit.
LEMMA TurnTraced ==
  ASSUME TypeOK, Remembered, traceBack
  PROVE  \E P : Traced(P, n', memory', out') /\ P[n'] = state'
<1>1. /\ stage = "trace" /\ n \in 1 .. Pairs /\ n' = n - 1 /\ memory' = memory
      /\ out' = [out EXCEPT ![n - 1] = LastIn(state)]
      /\ state' = From(state, memory[n - 1][state])
      /\ state \in States
  BY HeaderAssumption DEF traceBack, TypeOK
<1>2. PICK P : Traced(P, n, memory, out) /\ P[n] = state
  BY <1>1, Zenon DEF Remembered
<1>3. /\ P \in [0 .. Pairs -> States]
      /\ P[Pairs] = 0
      /\ \A k \in n .. Pairs - 1 :
           P[k] = From(P[k + 1], memory[k][P[k + 1]]) /\ out[k] = LastIn(P[k + 1])
  BY <1>2, Zenon DEF Traced
<1> DEFINE Q == [P EXCEPT ![n - 1] = state']
<1>4. state' \in States
  <2>1. memory[n - 1][state] \in Bit
    BY <1>1, HeaderAssumption DEF TypeOK
  <2> QED
    BY <1>1, <2>1, FromType
<1>5. /\ Q \in [0 .. Pairs -> States]
      /\ Q[n - 1] = state'
      /\ \A k \in n .. Pairs : Q[k] = P[k]
  BY <1>1, <1>3, <1>4, HeaderAssumption
<1>6. /\ out'[n - 1] = LastIn(state)
      /\ \A k \in n .. Pairs - 1 : out'[k] = out[k]
  <2>1. \A k \in 0 .. Pairs - 1 : k \in Places
    BY HeaderAssumption DEF Places, Bits
  <2> QED
    BY <1>1, <2>1, HeaderAssumption DEF TypeOK
<1> HIDE DEF Q
<1>7. Q[Pairs] = 0
  BY <1>1, <1>3, <1>5, HeaderAssumption
<1>8. ASSUME NEW k \in n - 1 .. Pairs - 1
      PROVE  Q[k] = From(Q[k + 1], memory[k][Q[k + 1]]) /\ out'[k] = LastIn(Q[k + 1])
  <2>1. CASE k = n - 1
    <3>1. k + 1 = n /\ n \in n .. Pairs
      BY <1>1, <2>1
    <3>2. Q[k + 1] = state
      BY <1>2, <1>5, <3>1
    <3> QED
      BY <1>1, <1>5, <1>6, <2>1, <3>2
  <2>2. CASE k # n - 1
    <3>1. k \in n .. Pairs - 1 /\ k \in n .. Pairs /\ k + 1 \in n .. Pairs
      BY <1>1, <2>2, HeaderAssumption
    <3> QED
      BY <1>3, <1>5, <1>6, <3>1
  <2> QED
    BY <2>1, <2>2
<1>9. Traced(Q, n', memory', out')
  BY <1>1, <1>5, <1>7, <1>8, Zenon DEF Traced
<1> QED
  BY <1>1, <1>5, <1>9, Zenon

LEMMA RememberedStep ==
  ASSUME TypeOK, Remembered, [PNext]_pvars
  PROVE  Remembered'
<1>1. ASSUME NEW in \in [Places -> Bit], Receive(in) PROVE Remembered'
  <2>1. stage' = "fec" /\ state' = 0 /\ n' = 0 /\ metric' = NoMetric
    BY <1>1, Zenon DEF Receive, CDStarHeader
  <2> DEFINE M == [k \in 0 .. Pairs |-> NoMetric]
  <2>2. /\ M \in [0 .. Pairs -> [States -> Nat]]
        /\ M[0] = NoMetric
        /\ 0 .. 0 - 1 = {}
    BY HeaderAssumption DEF NoMetric
  <2> HIDE DEF M
  <2>3. Metrics(M, n', bits', memory') /\ M[n'] = metric'
    BY <2>1, <2>2 DEF Metrics
  <2>4. \E N : Metrics(N, n', bits', memory') /\ N[n'] = metric'
    BY <2>3, Zenon
  <2>5. stage' \notin {"trace", "pack", "done"}
    BY <2>1
  <2> QED
    BY <2>1, <2>4, <2>5 DEF Remembered
<1>2. CASE DecodePair
  <2>1. /\ viterbiDecode /\ stage = "fec" /\ n' = n + 1 /\ state' = state
        /\ stage' = IF n + 1 = Pairs THEN "trace" ELSE "fec"
    BY <1>2, Zenon DEF DecodePair, viterbiDecode
  <2>2. state' = 0
    BY <2>1, Zenon DEF Remembered
  <2>3. \E M : Metrics(M, n', bits', memory') /\ M[n'] = metric'
    BY <2>1, PairRemembered, Zenon
  <2>4. CASE stage' = "fec"
    BY <2>2, <2>3, <2>4 DEF Remembered
  <2>5. CASE stage' = "trace" /\ n' = Pairs
    <3> DEFINE P == [k \in 0 .. Pairs |-> 0]
    <3>1. /\ P \in [0 .. Pairs -> States]
          /\ P[Pairs] = 0
          /\ Pairs .. Pairs - 1 = {}
      BY HeaderAssumption DEF States
    <3> HIDE DEF P
    <3>2. Traced(P, Pairs, memory', out')
      BY <3>1 DEF Traced
    <3>3. \E Q : Traced(Q, n', memory', out') /\ Q[n'] = state'
      BY <2>2, <2>5, <3>1, <3>2, Zenon
    <3>4. \E M : Metrics(M, Pairs, bits', memory') /\ M[Pairs] = metric'
      BY <2>3, <2>5
    <3> QED
      BY <2>5, <3>3, <3>4 DEF Remembered
  <2> QED
    BY <2>1, <2>4, <2>5
<1>3. CASE traceBack
  <2>1. /\ stage = "trace" /\ bits' = bits /\ memory' = memory /\ metric' = metric
        /\ n' = n - 1 /\ stage' = IF LastTurn THEN "pack" ELSE "trace"
    BY <1>3, Zenon DEF traceBack
  <2>2. \E M : Metrics(M, Pairs, bits', memory') /\ M[Pairs] = metric'
    BY <2>1 DEF Remembered
  <2>3. \E P : Traced(P, n', memory', out') /\ P[n'] = state'
    BY <1>3, TurnTraced, Zenon
  <2>4. stage' \in {"pack", "done"} => n' = 0
    BY <2>1, HeaderAssumption DEF LastTurn, TypeOK
  <2>5. stage' # "fec"
    BY <2>1
  <2> QED
    BY <2>2, <2>3, <2>4, <2>5 DEF Remembered
<1>4. CASE PackOctets \/ UNCHANGED pvars
  <2>1. /\ UNCHANGED <<n, bits, metric, memory, state, out>>
        /\ \/ stage' = stage
           \/ stage = "pack" /\ stage' = "done"
    BY <1>4, Zenon DEF PackOctets, pvars
  <2>2. CASE stage' = stage
    BY <2>1, <2>2 DEF Remembered
  <2>3. CASE stage = "pack" /\ stage' = "done"
    BY <2>1, <2>3 DEF Remembered
  <2> QED
    BY <2>1, <2>2, <2>3
<1> QED
  BY <1>1, <1>2, <1>3, <1>4, Zenon DEF PNext, Finish

-----------------------------------------------------------------------------
\* A state is two bits, and the one before has the older as its newer.
LEMMA StateBits ==
  ASSUME NEW s \in States
  PROVE  /\ s % 2 \in Bit /\ s \div 2 \in Bit
         /\ 2 * (s \div 2) + (s % 2) = s
         /\ \A path \in Bit : From(s, path) % 2 = s \div 2
<1>1. \A path \in Bit : From(s, path) % 2 = s \div 2
  BY DEF From, States, Bit
<1> QED
  BY <1>1 DEF States, Bit

\* The bits that traceBack has read out are the input of the path it went:
\* encoded from its first state on they give the pairs of its steps.
LEMMA PathEncoded ==
  ASSUME TypeOK, NEW P, Traced(P, 0, memory, out), NEW k \in 0 .. Pairs - 1
  PROVE  Encoded(P[0])[k] = Sends(P[k], LastIn(P[k + 1]))
<1>0. Pairs \in Nat \ {0}
  BY HeaderAssumption
<1>1. P \in [0 .. Pairs -> States]
  BY Zenon DEF Traced
<1>2. ASSUME NEW i \in 0 .. Pairs - 1
      PROVE  P[i] % 2 = P[i + 1] \div 2 /\ out[i] = P[i + 1] % 2
  <2>1. P[i] = From(P[i + 1], memory[i][P[i + 1]]) /\ out[i] = LastIn(P[i + 1])
    BY DEF Traced
  <2>2. P[i + 1] \in States
    BY <1>0, <1>1
  <2>3. memory[i][P[i + 1]] \in Bit
    BY <2>2 DEF TypeOK
  <2> QED
    BY <2>1, <2>2, <2>3, StateBits DEF LastIn
<1> DEFINE before(i) == IF i >= 0 THEN out[i] ELSE IF i = -1 THEN P[0] % 2 ELSE P[0] \div 2
<1>3. before(k - 1) = P[k] % 2
  <2>1. CASE k = 0
    <3>1. k - 1 = -1 /\ ~(k - 1 >= 0)
      BY <2>1
    <3> QED
      BY <2>1, <3>1
  <2>2. CASE k # 0
    <3>1. k - 1 >= 0 /\ k - 1 \in 0 .. Pairs - 1 /\ (k - 1) + 1 = k
      BY <1>0, <2>2
    <3>2. before(k - 1) = out[k - 1]
      BY <3>1
    <3> QED
      BY <1>2, <3>1, <3>2
  <2> QED
    BY <2>1, <2>2
<1>4. before(k - 2) = P[k] \div 2
  <2>1. CASE k = 0
    <3>1. ~(k - 2 >= 0) /\ k - 2 # -1
      BY <2>1
    <3> QED
      BY <2>1, <3>1
  <2>2. CASE k = 1
    <3>1. ~(k - 2 >= 0) /\ k - 2 = -1 /\ 0 \in 0 .. Pairs - 1 /\ 0 + 1 = 1
      BY <1>0, <2>2
    <3>2. P[0] % 2 = P[1] \div 2
      BY <1>2, <3>1
    <3> QED
      BY <2>2, <3>1, <3>2
  <2>3. CASE k # 0 /\ k # 1
    <3>1. /\ k - 2 >= 0 /\ k - 2 \in 0 .. Pairs - 1 /\ (k - 2) + 1 = k - 1
          /\ k - 1 \in 0 .. Pairs - 1 /\ (k - 1) + 1 = k
      BY <1>0, <2>3
    <3>2. before(k - 2) = out[k - 2]
      BY <3>1
    <3>3. out[k - 2] = P[k - 1] % 2 /\ P[k - 1] % 2 = P[k] \div 2
      BY <1>2, <3>1
    <3> QED
      BY <3>2, <3>3
  <2> QED
    BY <2>1, <2>2, <2>3
<1>5. Encoded(P[0])[k] = Sends(2 * before(k - 2) + before(k - 1), out[k])
  BY DEF Encoded
<1> HIDE DEF before
<1>6. P[k] \in States
  BY <1>0, <1>1
<1>7. 2 * before(k - 2) + before(k - 1) = P[k]
  <2>1. 2 * (P[k] \div 2) + (P[k] % 2) = P[k]
    BY <1>6, StateBits, Zenon
  <2> QED
    BY <1>3, <1>4, <2>1, Zenon
<1>8. out[k] = LastIn(P[k + 1])
  BY <1>2 DEF LastIn
<1> QED
  BY <1>5, <1>7, <1>8

\* the wrong bits among the first m
WrongUpTo(s, m) == {i \in 0 .. m - 1 : bits[i] # Encoded(s)[i \div 2][(i % 2) + 1]}

\* A bit more is one wrong bit more, or none.
LEMMA WrongBit ==
  ASSUME NEW s, NEW m \in Nat, bits[m] \in Bit, Encoded(s)[m \div 2][(m % 2) + 1] \in Bit
  PROVE  /\ IsFiniteSet(WrongUpTo(s, m))
         /\ Cardinality(WrongUpTo(s, m)) \in Nat
         /\ Cardinality(WrongUpTo(s, m + 1)) =
              Cardinality(WrongUpTo(s, m)) + Xor(bits[m], Encoded(s)[m \div 2][(m % 2) + 1])
<1> DEFINE W == WrongUpTo(s, m)
           code == Encoded(s)[m \div 2][(m % 2) + 1]
<1>1. IsFiniteSet(W)
  <2>1. IsFiniteSet(0 .. m - 1)
    <3>1. 0 \in Int /\ m - 1 \in Int
      OBVIOUS
    <3> QED
      BY <3>1, FS_Interval, Zenon
  <2>2. W \in SUBSET (0 .. m - 1)
    BY DEF WrongUpTo
  <2> QED
    BY <2>1, <2>2, FS_Subset, Zenon
<1>2. Cardinality(W) \in Nat
  BY <1>1, FS_CardinalityType, Zenon
<1>3. m \notin W
  BY DEF WrongUpTo
<1>4. 0 .. (m + 1) - 1 = (0 .. m - 1) \cup {m}
  BY SMT
<1>5. CASE bits[m] = code
  <2>1. WrongUpTo(s, m + 1) = W
    BY <1>4, <1>5 DEF WrongUpTo
  <2>2. Xor(bits[m], code) = 0
    <3> HIDE DEF code
    <3> QED
      BY <1>5 DEF Xor, Bit
  <2> QED
    BY <1>1, <1>2, <2>1, <2>2
<1>6. CASE bits[m] # code
  <2>1. WrongUpTo(s, m + 1) = W \cup {m}
    BY <1>4, <1>6 DEF WrongUpTo
  <2>2. Xor(bits[m], code) = 1
    <3>1. code \in Bit
      OBVIOUS
    <3> HIDE DEF code
    <3> QED
      BY <1>6, <3>1 DEF Xor, Bit
  <2>3. Cardinality(W \cup {m}) = Cardinality(W) + 1
    BY <1>1, <1>3, FS_AddElement, Zenon
  <2> QED
    BY <1>1, <1>2, <2>1, <2>2, <2>3
<1> QED
  BY <1>5, <1>6

\* Step k + 1 of the traced path costs the wrong bits of its pair.
LEMMA StepWrong ==
  ASSUME TypeOK, NEW P, Traced(P, 0, memory, out), NEW k \in 0 .. Pairs - 1
  PROVE  /\ Cardinality(WrongUpTo(P[0], 2 * k)) \in Nat
         /\ Cardinality(WrongUpTo(P[0], 2 * (k + 1))) =
              Cardinality(WrongUpTo(P[0], 2 * k))
                + Pair(bits, k, Sends(P[k], LastIn(P[k + 1])))
<1> DEFINE pair == Sends(P[k], LastIn(P[k + 1]))
           c(m) == Cardinality(WrongUpTo(P[0], m))
<1>1. Encoded(P[0])[k] = pair
  BY PathEncoded, Zenon
<1>2. pair[1] \in Bit /\ pair[2] \in Bit
  <2>1. P \in [0 .. Pairs -> States]
    BY Zenon DEF Traced
  <2>2. P[k] \in States /\ P[k + 1] \in States
    BY <2>1, HeaderAssumption
  <2>3. LastIn(P[k + 1]) \in Bit
    BY <2>2, StateBits, Zenon DEF LastIn
  <2>4. pair \in Bit \X Bit
    BY <2>2, <2>3, EncoderType, Zenon
  <2> QED
    BY <2>4
<1>3. bits[2 * k] \in Bit /\ bits[2 * k + 1] \in Bit
  <2>1. 2 * k \in Places /\ 2 * k + 1 \in Places
    BY HeaderAssumption DEF Places, Bits
  <2> QED
    BY <2>1 DEF TypeOK
<1>4. /\ 2 * k \in Nat /\ (2 * k) \div 2 = k /\ ((2 * k) % 2) + 1 = 1
      /\ 2 * k + 1 \in Nat /\ (2 * k + 1) \div 2 = k /\ ((2 * k + 1) % 2) + 1 = 2
      /\ (2 * k + 1) + 1 = 2 * (k + 1)
  OBVIOUS
<1> HIDE DEF pair
<1>5. c(2 * k) \in Nat /\ c(2 * k + 1) = c(2 * k) + Xor(bits[2 * k], pair[1])
  <2>1. Encoded(P[0])[(2 * k) \div 2][((2 * k) % 2) + 1] = pair[1]
    BY <1>1, <1>4, Zenon
  <2> QED
    BY <1>2, <1>3, <1>4, <2>1, WrongBit, Zenon
<1>6. c((2 * k + 1) + 1) = c(2 * k + 1) + Xor(bits[2 * k + 1], pair[2])
  <2>1. Encoded(P[0])[(2 * k + 1) \div 2][((2 * k + 1) % 2) + 1] = pair[2]
    BY <1>1, <1>4, Zenon
  <2> QED
    BY <1>2, <1>3, <1>4, <2>1, WrongBit, Zenon
<1>7. Xor(bits[2 * k], pair[1]) \in Nat /\ Xor(bits[2 * k + 1], pair[2]) \in Nat
  BY <1>2, <1>3, XorType DEF Bit
<1>8. c(2 * (k + 1)) = c(2 * k) + (Xor(bits[2 * k], pair[1]) + Xor(bits[2 * k + 1], pair[2]))
  <2>1. c(2 * (k + 1)) = c(2 * k + 1) + Xor(bits[2 * k + 1], pair[2])
    BY <1>4, <1>6, Zenon
  <2> HIDE DEF c
  <2> QED
    BY <1>5, <1>7, <2>1
<1> QED
  BY <1>5, <1>8, Zenon DEF pair, Pair

\* So the wrong bits up to each state of the path are what the metrics say:
\* were they not, there would be a first state for which they are not.
LEMMA PathCost ==
  ASSUME TypeOK, NEW M, Metrics(M, Pairs, bits, memory),
         NEW P, Traced(P, 0, memory, out)
  PROVE  \A k \in 0 .. Pairs : Cardinality(WrongUpTo(P[0], 2 * k)) = M[k][P[k]]
<1> DEFINE c(k) == Cardinality(WrongUpTo(P[0], 2 * k))
           Off == {k \in 0 .. Pairs : c(k) # M[k][P[k]]}
<1>0. Pairs \in Nat \ {0}
  BY HeaderAssumption
<1>1. SUFFICES ASSUME Off # {} PROVE FALSE
  OBVIOUS
<1>2. Off \subseteq Nat
  BY <1>0
<1>3. PICK k \in Off : \A j \in Off : ~ (<<j, k>> \in OpToRel(<, Nat))
  BY <1>1, <1>2, NatLessThanWellFounded, WFMin
<1>4. k \in 0 .. Pairs /\ c(k) # M[k][P[k]]
  OBVIOUS
<1>5. /\ M[0] = NoMetric
      /\ \A j \in 0 .. Pairs - 1, s \in States :
           LET t == From(s, memory[j][s])
           IN  M[j + 1][s] = M[j][t] + Pair(bits, j, Sends(t, LastIn(s)))
  BY Zenon DEF Metrics
<1>6. /\ P \in [0 .. Pairs -> States]
      /\ \A j \in 0 .. Pairs - 1 : P[j] = From(P[j + 1], memory[j][P[j + 1]])
  BY Zenon DEF Traced
<1>7. CASE k = 0
  <2>1. WrongUpTo(P[0], 2 * 0) = {}
    BY DEF WrongUpTo
  <2>2. c(0) = 0
    BY <2>1, FS_EmptySet
  <2>3. P[0] \in States
    BY <1>0, <1>6
  <2>4. M[0][P[0]] = 0
    BY <1>5, <2>3 DEF NoMetric
  <2> QED
    BY <1>4, <1>7, <2>2, <2>4
<1>8. CASE k # 0
  <2> DEFINE j == k - 1
  <2>1. j \in 0 .. Pairs - 1 /\ j + 1 = k /\ j \in 0 .. Pairs /\ j < k /\ j \in Nat /\ k \in Nat
    BY <1>0, <1>4, <1>8
  <2> HIDE DEF j
  <2>2. j \notin Off
    <3>1. <<j, k>> \in OpToRel(<, Nat)
      BY <2>1 DEF OpToRel
    <3> HIDE DEF Off
    <3> QED
      BY <1>3, <3>1, Zenon
  <2>3. c(j) = M[j][P[j]]
    BY <2>1, <2>2, Zenon
  <2>4. c(j + 1) = c(j) + Pair(bits, j, Sends(P[j], LastIn(P[j + 1])))
    BY <2>1, StepWrong, Zenon
  <2>5. P[j + 1] \in States /\ P[j] = From(P[j + 1], memory[j][P[j + 1]])
    BY <1>0, <1>6, <2>1
  <2>6. M[j + 1][P[j + 1]] = M[j][P[j]] + Pair(bits, j, Sends(P[j], LastIn(P[j + 1])))
    BY <1>5, <2>1, <2>5, Zenon
  <2>7. c(k) = M[k][P[k]]
    BY <2>1, <2>3, <2>4, <2>6, Zenon
  <2> QED
    BY <1>4, <2>7
<1> QED
  BY <1>7, <1>8

\* Of every place, Distance counts the wrong bits up to the last.
LEMMA DistanceIsWrong == \A s : Distance(s) = Cardinality(WrongUpTo(s, 2 * Pairs))
<1>1. 0 .. 2 * Pairs - 1 = Places
  BY HeaderAssumption DEF Places, Bits
<1> QED
  BY <1>1, Zenon DEF Distance, WrongUpTo

\* What the decoder remembers tells of the nearest path.
LEMMA Nearest == ASSUME TypeOK, Remembered PROVE TracedIsNearest
<1> SUFFICES ASSUME stage \in {"pack", "done"}
             PROVE  /\ \E s \in States : Distance(s) = metric[0]
                    /\ out[Pairs - 1] = 0
                    /\ Pairs > 1 => out[Pairs - 2] = 0
  BY Zenon DEF TracedIsNearest
<1>0. Pairs \in Nat \ {0}
  BY HeaderAssumption
<1>1. n = 0 /\ stage \in {"trace", "pack", "done"}
  BY DEF Remembered
<1>2. PICK M : Metrics(M, Pairs, bits, memory) /\ M[Pairs] = metric
  BY <1>1, Zenon DEF Remembered
<1>3. PICK P : Traced(P, 0, memory, out)
  BY <1>1, Zenon DEF Remembered
<1>4. /\ P \in [0 .. Pairs -> States]
      /\ P[Pairs] = 0
      /\ \A k \in 0 .. Pairs - 1 :
           P[k] = From(P[k + 1], memory[k][P[k + 1]]) /\ out[k] = LastIn(P[k + 1])
  BY <1>3, Zenon DEF Traced
<1>5. P[0] \in States /\ Distance(P[0]) = metric[0]
  <2>1. Pairs \in 0 .. Pairs /\ 0 \in 0 .. Pairs
    BY <1>0
  <2>2. Cardinality(WrongUpTo(P[0], 2 * Pairs)) = M[Pairs][P[Pairs]]
    BY <1>2, <1>3, <2>1, PathCost, Zenon
  <2> QED
    BY <1>2, <1>4, <2>1, <2>2, DistanceIsWrong, Zenon
<1>6. Pairs - 1 \in 0 .. Pairs - 1 /\ (Pairs - 1) + 1 = Pairs
  BY <1>0
<1>7. out[Pairs - 1] = 0
  <2>1. out[Pairs - 1] = LastIn(0)
    BY <1>4, <1>6, Zenon
  <2> QED
    BY <2>1 DEF LastIn
<1>8. ASSUME Pairs > 1 PROVE out[Pairs - 2] = 0
  <2>1. Pairs - 2 \in 0 .. Pairs - 1 /\ (Pairs - 2) + 1 = Pairs - 1
    BY <1>0, <1>8
  <2>2. out[Pairs - 2] = LastIn(P[Pairs - 1])
    BY <1>4, <2>1, Zenon
  <2>3. P[Pairs - 1] = From(0, memory[Pairs - 1][0])
    BY <1>4, <1>6, Zenon
  <2>4. memory[Pairs - 1][0] \in Bit
    BY <1>6 DEF TypeOK, States
  <2>5. LastIn(From(0, memory[Pairs - 1][0])) = 0
    BY <2>4 DEF LastIn, From, Bit
  <2> QED
    BY <2>2, <2>3, <2>5, Zenon
<1> QED
  BY <1>5, <1>7, <1>8

(***************************************************************************)
(* What traceBack reads out of the path memories is the input of a path of *)
(* the encoder that ends in state 0 and has just as many wrong bits as     *)
(* m_pathMetric[0] says; with MetricIsLeast, as few as any: for headers of *)
(* any length, and whatever has been received.                             *)
(***************************************************************************)
THEOREM TracedIsNearestHolds == PSpec => []TracedIsNearest
<1> DEFINE IInv == TypeOK /\ Remembered
<1>1. PInit => IInv
  <2>1. PInit => stage = "new"
    BY Zenon DEF PInit, Init
  <2> QED
    BY <2>1, TypeInit DEF PInit, Remembered
<1>2. IInv /\ [PNext]_pvars => IInv'
  BY TypeStep, RememberedStep
<1>3. IInv => TracedIsNearest
  BY Nearest
<1> QED
  BY <1>1, <1>2, <1>3, PTL DEF PSpec

-----------------------------------------------------------------------------
(***************************************************************************)
(* The interleaver.  The code bits are in Rows rows; the last row has Long *)
(* of them, so that the columns from Long on are one bit shorter, if it is *)
(* not full.                                                               *)
(***************************************************************************)
Rows == High(Bits, Step) \div Step
Long == Step - (High(Bits, Step) - Bits)
Column(k) == k % Step
Row(k) == k \div Step
Length(c) == IF c < Long THEN Rows ELSE Rows - 1
\* the place on the air of the first bit of column c
First(c) == Rows * c - Shorter(Bits, Step, c)

Air(k) == AirPlace(Bits, Step, k)

LEMMA DivideExactly ==
  ASSUME NEW a \in Nat \ {0}, NEW q \in Nat
  PROVE  (a * q) \div a = q
OBVIOUS

LEMMA TimesMore ==
  ASSUME NEW a \in Nat, NEW p \in Nat, NEW q \in Nat
  PROVE  /\ a * (p + q) = a * p + a * q
         /\ a * p \in Nat /\ a * q \in Nat
OBVIOUS

LEMMA Divided ==
  ASSUME NEW a \in Nat \ {0}, NEW k \in Nat
  PROVE  /\ k \div a \in Nat /\ k % a \in 0 .. a - 1
         /\ k = a * (k \div a) + (k % a)
OBVIOUS

LEMMA DividedOnce ==
  ASSUME NEW a \in Nat \ {0}, NEW q \in Nat, NEW r \in 0 .. a - 1
  PROVE  (a * q + r) \div a = q /\ (a * q + r) % a = r
OBVIOUS

LEMMA Rectangle ==
  /\ Step \in Nat \ {0} /\ Bits \in Nat \ {0} /\ Rows \in Nat \ {0} /\ Long \in 1 .. Step
  /\ High(Bits, Step) = Step * Rows
  /\ Step * Rows \in Nat
  /\ Bits = Step * Rows - Step + Long
<1>1. Step \in Nat \ {0} /\ Bits \in Nat \ {0}
  BY HeaderAssumption DEF Bits
<1> DEFINE x == Bits + Step - 1
           q == x \div Step
<1>2. x \in Nat
  BY <1>1
<1>3. q \in Nat /\ x % Step \in 0 .. Step - 1 /\ x = Step * q + (x % Step)
  BY <1>1, <1>2, Divided
<1>4. High(Bits, Step) = Step * q
  BY Zenon DEF High
<1> HIDE DEF q
<1>5. Rows = q
  BY <1>1, <1>3, <1>4, DivideExactly DEF Rows
<1>6. Step * q \in Nat
  BY <1>1, <1>3
<1>7. Bits = Step * q - Step + ((x % Step) + 1)
  BY <1>1, <1>3, <1>6
<1>8. Long = (x % Step) + 1
  BY <1>1, <1>3, <1>4, <1>6, <1>7 DEF Long
<1>9. q # 0
  <2>1. CASE q = 0
    <3>1. Step * q = 0
      BY <1>1, <2>1
    <3> QED
      BY <1>1, <1>3, <1>7, <3>1
  <2> QED
    BY <2>1
<1> HIDE DEF x
<1> QED
  BY <1>1, <1>3, <1>4, <1>5, <1>6, <1>7, <1>8, <1>9

\* a place is a column and a row
LEMMA PlaceParts ==
  ASSUME NEW k \in Places
  PROVE  /\ k \in Nat
         /\ Column(k) \in 0 .. Step - 1 /\ Row(k) \in 0 .. Rows - 1
         /\ k = Step * Row(k) + Column(k)
         /\ Row(k) + 1 <= Length(Column(k))
<1>1. k \in Nat /\ k < Bits
  BY Rectangle DEF Places
<1> DEFINE c == Column(k)
           r == Row(k)
<1>2. r \in Nat /\ c \in 0 .. Step - 1 /\ k = Step * r + c
  BY <1>1, Rectangle, Divided DEF Column, Row
<1> HIDE DEF c, r
<1>3. ASSUME r >= Rows PROVE FALSE
  <2> DEFINE more == r - Rows
  <2>1. more \in Nat /\ r = Rows + more
    BY <1>2, <1>3, Rectangle
  <2> HIDE DEF more
  <2>2. Step * r = Step * Rows + Step * more /\ Step * more \in Nat
    BY <2>1, Rectangle, TimesMore
  <2> QED
    BY <1>1, <1>2, <2>2, Rectangle
<1>4. ASSUME r = Rows - 1 PROVE c < Long
  <2>1. Rows = r + 1
    BY <1>2, <1>4, Rectangle
  <2>2. Step * Rows = Step * r + Step /\ Step * r \in Nat
    <3>1. Step * (r + 1) = Step * r + Step * 1 /\ Step * r \in Nat /\ Step * 1 = Step
      BY <1>2, Rectangle, TimesMore
    <3> QED
      BY <2>1, <3>1
  <2> QED
    BY <1>1, <1>2, <2>2, Rectangle
<1>5. r + 1 <= Length(c)
  BY <1>2, <1>3, <1>4, Rectangle DEF Length
<1>6. r \in 0 .. Rows - 1
  BY <1>2, <1>3, Rectangle
<1> QED
  BY <1>1, <1>2, <1>5, <1>6 DEF c, r

LEMMA PartsPlace ==
  ASSUME NEW c \in 0 .. Step - 1, NEW r \in Nat, r + 1 <= Length(c)
  PROVE  /\ Step * r + c \in Places
         /\ Column(Step * r + c) = c /\ Row(Step * r + c) = r
<1>0. Step \in Nat \ {0} /\ c \in Nat
  BY Rectangle
<1>1. Column(Step * r + c) = c /\ Row(Step * r + c) = r
  BY <1>0, DividedOnce DEF Column, Row
<1> DEFINE more == Rows - 1 - r
<1>2. more \in Nat /\ Rows = r + (1 + more) /\ (more = 0 => c < Long)
  BY <1>0, Rectangle DEF Length
<1> HIDE DEF more
<1>3. Step * Rows = Step * r + Step + Step * more /\ Step * r \in Nat /\ Step * more \in Nat
  <2>1. Step * (1 + more) = Step * 1 + Step * more /\ Step * 1 = Step /\ Step * more \in Nat
    BY <1>0, <1>2, TimesMore
  <2>2. Step * (r + (1 + more)) = Step * r + Step * (1 + more) /\ Step * r \in Nat
    BY <1>0, <1>2, TimesMore
  <2> QED
    BY <1>0, <1>2, <2>1, <2>2
<1>4. more # 0 => Step * more >= Step
  <2> SUFFICES ASSUME more # 0 PROVE Step * more >= Step
    OBVIOUS
  <2> DEFINE m == more - 1
  <2>1. m \in Nat /\ more = 1 + m
    BY <1>2
  <2> HIDE DEF m
  <2>2. Step * (1 + m) = Step * 1 + Step * m /\ Step * 1 = Step /\ Step * m \in Nat
    BY <1>0, <2>1, TimesMore
  <2> QED
    BY <1>0, <2>1, <2>2
<1>5. Step * r + c \in Nat /\ Step * r + c < Bits
  BY <1>0, <1>2, <1>3, <1>4, Rectangle
<1> QED
  BY <1>1, <1>5, Rectangle DEF Places

\* After a place comes the next row's, and after a column the next column.
LEMMA NextPlace ==
  ASSUME NEW k \in Places
  PROVE  NextSlot(Bits, Step, k) =
           IF Row(k) + 1 < Length(Column(k)) THEN Step * (Row(k) + 1) + Column(k)
                                             ELSE Column(k) + 1
<1> DEFINE c == Column(k)
           r == Row(k)
<1>1. /\ k \in Nat /\ c \in 0 .. Step - 1 /\ r \in 0 .. Rows - 1
      /\ k = Step * r + c /\ r + 1 <= Length(c)
  BY PlaceParts
<1> HIDE DEF c, r
<1>2. Step * (r + 1) = Step * r + Step /\ Step * r \in Nat
  <2>1. Step * (r + 1) = Step * r + Step * 1 /\ Step * r \in Nat /\ Step * 1 = Step
    BY <1>1, Rectangle, TimesMore
  <2> QED
    BY <2>1
<1>3. k + Step = Step * (r + 1) + c
  BY <1>1, <1>2, Rectangle
<1>4. CASE r + 1 < Length(c)
  <2>1. Step * (r + 1) + c \in Places
    <3>1. r + 1 \in Nat /\ (r + 1) + 1 <= Length(c)
      BY <1>1, <1>4, Rectangle DEF Length
    <3> QED
      BY <1>1, <3>1, PartsPlace, Zenon
  <2>2. k + Step < Bits /\ Bits <= High(Bits, Step)
    BY <1>3, <2>1, Rectangle DEF Places
  <2>3. ~(k + Step >= High(Bits, Step)) /\ ~(k + Step >= Bits)
    BY <1>1, <2>2, Rectangle
  <2> QED
    BY <1>3, <1>4, <2>3, Zenon DEF NextSlot, c, r
<1>5. CASE ~(r + 1 < Length(c))
  <2>1. r + 1 = Length(c)
    BY <1>1, <1>5, Rectangle DEF Length
  <2>2. CASE c < Long
    <3>1. k + Step = High(Bits, Step) + c
      BY <1>3, <2>1, <2>2, Rectangle DEF Length
    <3>2. k + Step >= High(Bits, Step) /\ (k + Step) - (High(Bits, Step) - 1) = c + 1
      BY <1>1, <3>1, Rectangle
    <3> QED
      BY <1>5, <3>2, Zenon DEF NextSlot, c, r
  <2>3. CASE ~(c < Long)
    <3>1. Rows = (r + 1) + 1
      BY <1>1, <2>1, <2>3, Rectangle DEF Length
    <3>2. Step * Rows = Step * (r + 1) + Step
      <4>1. Step * ((r + 1) + 1) = Step * (r + 1) + Step * 1 /\ Step * 1 = Step
        BY <1>1, Rectangle, TimesMore
      <4> QED
        BY <3>1, <4>1
    <3>3. /\ ~(k + Step >= High(Bits, Step)) /\ k + Step >= Bits
          /\ (k + Step) - (High(Bits, Step) - Step - 1) = c + 1
      BY <1>1, <1>2, <1>3, <2>3, <3>2, Rectangle
    <3> QED
      BY <1>5, <3>3, Zenon DEF NextSlot, c, r
  <2> QED
    BY <2>2, <2>3
<1> QED
  BY <1>4, <1>5

\* Columns follow one another on the air, from the first place to the last.
LEMMA TimesAtLeast ==
  ASSUME NEW a \in Nat \ {0}, NEW q \in Nat PROVE a * q >= q /\ a * q \in Nat
<1> DEFINE b == a - 1
<1>1. b \in Nat /\ a = 1 + b
  OBVIOUS
<1> HIDE DEF b
<1>2. q * (1 + b) = q * 1 + q * b /\ q * b \in Nat /\ q * 1 = q
  BY <1>1, TimesMore
<1>3. q * a = a * q
  OBVIOUS
<1> QED
  BY <1>1, <1>2, <1>3

LEMMA ColumnsFollow ==
  /\ First(0) = 0 /\ First(Step) = Bits
  /\ \A c, d \in 0 .. Step : c < d => First(d) >= First(c) + Length(c)
  /\ \A c \in 0 .. Step - 1 : First(c + 1) = First(c) + Length(c)
  /\ \A c \in 0 .. Step : First(c) \in Int
<1>1. \A c \in 0 .. Step :
        First(c) = Rows * c - (IF c > Long THEN c - Long ELSE 0) /\ Rows * c \in Nat
  BY Rectangle, TimesMore DEF First, Shorter, Long
<1>2. First(0) = 0
  BY <1>1, Rectangle
<1>3. First(Step) = Bits
  <2>1. Rows * Step = Step * Rows
    BY Rectangle
  <2> QED
    BY <1>1, <2>1, Rectangle
<1>4. ASSUME NEW c \in 0 .. Step, NEW d \in 0 .. Step, c < d
      PROVE  /\ First(d) >= First(c) + Length(c)
             /\ d = c + 1 => First(d) = First(c) + Length(c)
  <2> DEFINE f == d - c - 1
  <2>1. f \in Nat /\ d = c + (1 + f) /\ c \in Nat
    BY <1>4, Rectangle
  <2> HIDE DEF f
  <2>2. Rows * f >= f /\ Rows * f \in Nat
    BY <2>1, Rectangle, TimesAtLeast
  <2>3. Rows * d = Rows * c + Rows + Rows * f
    <3>1. Rows * (1 + f) = Rows * 1 + Rows * f /\ Rows * 1 = Rows
      BY <2>1, Rectangle, TimesMore
    <3>2. Rows * (c + (1 + f)) = Rows * c + Rows * (1 + f) /\ Rows * c \in Nat
      BY <2>1, Rectangle, TimesMore
    <3> QED
      BY <2>1, <2>2, <3>1, <3>2, Rectangle
  <2>4. /\ First(d) = Rows * d - (IF d > Long THEN d - Long ELSE 0)
        /\ First(c) = Rows * c - (IF c > Long THEN c - Long ELSE 0)
        /\ Rows * c \in Nat /\ Rows * d \in Nat
    BY <1>1
  <2>5. First(d) >= First(c) + Length(c)
    BY <2>1, <2>2, <2>3, <2>4, Rectangle DEF Length
  <2>6. d = c + 1 => First(d) = First(c) + Length(c)
    <3>1. d = c + 1 => f = 0
      BY <2>1
    <3>2. f = 0 => Rows * f = 0
      BY Rectangle
    <3> QED
      BY <2>1, <2>3, <2>4, <3>1, <3>2, Rectangle DEF Length
  <2> QED
    BY <2>5, <2>6
<1>5. \A c \in 0 .. Step - 1 : c + 1 \in 0 .. Step /\ c \in 0 .. Step /\ c < c + 1
  BY Rectangle
<1>6. \A c \in 0 .. Step : First(c) \in Int
  BY <1>1, Rectangle
<1> QED
  BY <1>2, <1>3, <1>4, <1>5, <1>6

\* Air takes the places one to one to those on the air, in their order.
LEMMA AirIs == \A k : Air(k) = First(Column(k)) + Row(k)
  BY Zenon DEF Air, AirPlace, First, Column, Row, Rows

LEMMA AirStays == ASSUME NEW k \in Places PROVE Air(k) \in Places
<1> DEFINE c == Column(k)
           r == Row(k)
<1>1. c \in 0 .. Step - 1 /\ r \in 0 .. Rows - 1 /\ r + 1 <= Length(c)
  BY PlaceParts
<1>2. Air(k) = First(c) + r
  BY AirIs
<1> HIDE DEF c, r
<1>3. First(c) \in Int /\ First(c) >= 0
  <2>1. CASE c = 0
    BY <2>1, ColumnsFollow
  <2>2. CASE c # 0
    <3>1. 0 \in 0 .. Step /\ c \in 0 .. Step /\ 0 < c
      BY <1>1, <2>2, Rectangle
    <3>2. First(c) >= First(0) + Length(0) /\ First(c) \in Int /\ First(0) = 0
      BY <3>1, ColumnsFollow, Zenon
    <3> QED
      BY <3>2, Rectangle DEF Length
  <2> QED
    BY <2>1, <2>2
<1>4. First(c) + Length(c) <= Bits
  <2>1. c \in 0 .. Step /\ Step \in 0 .. Step /\ c < Step
    BY <1>1, Rectangle
  <2>2. First(Step) >= First(c) + Length(c) /\ First(Step) = Bits
    BY <2>1, ColumnsFollow, Zenon
  <2> QED
    BY <1>3, <2>2, Rectangle DEF Length
<1> QED
  BY <1>1, <1>2, <1>3, <1>4, Rectangle DEF Length, Places

LEMMA AirOnce ==
  ASSUME NEW k \in Places, NEW j \in Places, Air(k) = Air(j)
  PROVE  k = j
<1>1. \A i \in Places :
        /\ Column(i) \in 0 .. Step - 1 /\ Row(i) \in 0 .. Rows - 1
        /\ i = Step * Row(i) + Column(i)
        /\ Row(i) + 1 <= Length(Column(i)) /\ Length(Column(i)) \in Int
        /\ Air(i) = First(Column(i)) + Row(i) /\ First(Column(i)) \in Int
  <2> TAKE i \in Places
  <2>1. Column(i) \in 0 .. Step - 1 /\ Column(i) \in 0 .. Step
    BY PlaceParts, Rectangle
  <2>2. First(Column(i)) \in Int
    BY <2>1, ColumnsFollow, Zenon
  <2>3. Length(Column(i)) \in Int
    BY Rectangle DEF Length
  <2> QED
    BY <2>1, <2>2, <2>3, PlaceParts, AirIs, Zenon
<1>2. ASSUME NEW i \in Places, NEW l \in Places, Column(i) < Column(l)
      PROVE  Air(i) < Air(l)
  <2>1. Column(i) \in 0 .. Step /\ Column(l) \in 0 .. Step
    BY <1>1, Rectangle
  <2>2. First(Column(l)) >= First(Column(i)) + Length(Column(i))
    BY <1>2, <2>1, ColumnsFollow, Zenon
  <2> QED
    BY <1>1, <2>2, Rectangle
<1>3. ~(Column(k) < Column(j)) /\ ~(Column(j) < Column(k))
  <2>1. Air(k) \in Int /\ Air(j) \in Int
    BY AirStays, Rectangle DEF Places
  <2> QED
    BY <1>2, <2>1
<1>4. Column(k) = Column(j)
  <2>1. Column(k) \in 0 .. Step - 1 /\ Column(j) \in 0 .. Step - 1
    BY <1>1, Zenon
  <2> QED
    BY <1>3, <2>1, Rectangle
<1>5. Row(k) = Row(j)
  <2>1. /\ Row(k) \in 0 .. Rows - 1 /\ Row(j) \in 0 .. Rows - 1
        /\ First(Column(k)) \in Int
        /\ First(Column(k)) + Row(k) = First(Column(k)) + Row(j)
    BY <1>1, <1>4, Zenon
  <2> QED
    BY <2>1, Rectangle
<1> QED
  BY <1>1, <1>4, <1>5, Zenon

LEMMA AirFirst == 0 \in Places /\ Air(0) = 0
<1>1. 0 \in 0 .. Step - 1 /\ 0 \in Nat /\ 0 + 1 <= Length(0)
  BY Rectangle DEF Length
<1>2. Step * 0 + 0 \in Places /\ Column(Step * 0 + 0) = 0 /\ Row(Step * 0 + 0) = 0
  BY <1>1, PartsPlace, Zenon
<1>3. Step * 0 + 0 = 0
  BY Rectangle
<1> QED
  BY <1>2, <1>3, AirIs, ColumnsFollow

LEMMA AirNext ==
  ASSUME NEW k \in Places, Air(k) < Bits - 1
  PROVE  /\ NextSlot(Bits, Step, k) \in Places
         /\ Air(NextSlot(Bits, Step, k)) = Air(k) + 1
<1> DEFINE c == Column(k)
           r == Row(k)
<1>1. c \in 0 .. Step - 1 /\ r \in 0 .. Rows - 1 /\ r + 1 <= Length(c)
  BY PlaceParts
<1>2. Air(k) = First(c) + r
  BY AirIs
<1>3. NextSlot(Bits, Step, k) = IF r + 1 < Length(c) THEN Step * (r + 1) + c ELSE c + 1
  BY NextPlace
<1> HIDE DEF c, r
<1>4. c \in 0 .. Step /\ First(c) \in Int /\ First(c + 1) = First(c) + Length(c)
  <2>1. c \in 0 .. Step
    BY <1>1, Rectangle
  <2> QED
    BY <1>1, <2>1, ColumnsFollow, Zenon
<1>5. CASE r + 1 < Length(c)
  <2>1. r + 1 \in Nat /\ (r + 1) + 1 <= Length(c)
    BY <1>1, <1>5, Rectangle DEF Length
  <2> DEFINE k2 == Step * (r + 1) + c
  <2>2. k2 \in Places /\ Column(k2) = c /\ Row(k2) = r + 1
    BY <1>1, <2>1, PartsPlace, Zenon
  <2>3. Air(k2) = First(c) + (r + 1)
    BY <2>2, AirIs, Zenon
  <2>4. Air(k2) = Air(k) + 1
    BY <1>1, <1>2, <1>4, <2>3, Rectangle
  <2> QED
    BY <1>3, <1>5, <2>2, <2>4, Zenon
<1>6. CASE ~(r + 1 < Length(c))
  <2>1. r + 1 = Length(c) /\ First(c + 1) = Air(k) + 1 /\ First(c + 1) < Bits
    BY <1>1, <1>2, <1>4, <1>6, Rectangle DEF Length
  <2>2. c + 1 # Step
    BY <2>1, ColumnsFollow, Rectangle
  <2>3. c + 1 \in 0 .. Step - 1 /\ c + 1 \in 0 .. Step /\ c \in Nat
    BY <1>1, <2>2, Rectangle
  <2>4. 0 + 1 <= Length(c + 1)
    <3> SUFFICES ASSUME Length(c + 1) < 1 PROVE FALSE
      BY Rectangle DEF Length
    <3>1. Rows = 1 /\ ~(c + 1 < Long)
      BY Rectangle DEF Length
    <3>2. c < Long
      BY <1>1, <2>1, <3>1, Rectangle DEF Length
    <3>3. c + 1 = Long
      BY <2>3, <3>1, <3>2, Rectangle
    <3>4. Bits = Long
      BY <3>1, Rectangle
    <3>5. First(c + 1) = c + 1
      BY <2>3, <3>1, <3>3, Rectangle DEF First, Shorter, Long
    <3> QED
      BY <2>1, <3>3, <3>4, <3>5, Rectangle
  <2> DEFINE k2 == Step * 0 + (c + 1)
  <2>5. k2 \in Places /\ Column(k2) = c + 1 /\ Row(k2) = 0
    <3>1. 0 \in Nat
      OBVIOUS
    <3> QED
      BY <2>3, <2>4, <3>1, PartsPlace, Zenon
  <2>6. k2 = c + 1
    BY <2>3, Rectangle
  <2>7. Air(c + 1) = First(c + 1) + 0
    BY <2>5, <2>6, AirIs, Zenon
  <2>8. Air(c + 1) = Air(k) + 1
    BY <1>1, <1>2, <1>4, <2>1, <2>7, Rectangle
  <2> QED
    BY <1>3, <1>6, <2>5, <2>6, <2>8, Zenon
<1> QED
  BY <1>5, <1>6

\* Every place on the air is one's: were it not, there would be a first.
LEMMA AirOnto == \A loop \in Places : \E k \in Places : Air(k) = loop
<1> DEFINE None == {loop \in Places : ~ \E k \in Places : Air(k) = loop}
<1>1. SUFFICES ASSUME None # {} PROVE FALSE
  OBVIOUS
<1>2. None \subseteq Nat
  BY Rectangle DEF Places
<1>3. PICK loop \in None : \A i \in None : ~ (<<i, loop>> \in OpToRel(<, Nat))
  BY <1>1, <1>2, NatLessThanWellFounded, WFMin
<1>4. loop \in Places /\ ~ \E k \in Places : Air(k) = loop
  OBVIOUS
<1>5. loop # 0
  BY <1>4, AirFirst, Zenon
<1> DEFINE i == loop - 1
<1>6. i \in Places /\ i \in Nat /\ loop \in Nat /\ i < loop /\ i + 1 = loop /\ i < Bits - 1
  BY <1>4, <1>5, Rectangle DEF Places
<1> HIDE DEF i
<1>7. i \notin None
  <2>1. <<i, loop>> \in OpToRel(<, Nat)
    BY <1>6 DEF OpToRel
  <2> HIDE DEF None
  <2> QED
    BY <1>3, <2>1, Zenon
<1>8. PICK k \in Places : Air(k) = i
  BY <1>6, <1>7, Zenon
<1>9. NextSlot(Bits, Step, k) \in Places /\ Air(NextSlot(Bits, Step, k)) = loop
  <2>1. Air(k) < Bits - 1
    BY <1>6, <1>8, Zenon
  <2> QED
    BY <1>6, <1>8, <2>1, AirNext, Zenon
<1> QED
  BY <1>4, <1>9, Zenon

\* what Slot is: a function that takes a place on the air to the one whose
\* bit is there
Slots(f) ==
  /\ f \in [Places -> Places]
  /\ \A loop \in Places : Air(f[loop]) = loop

LEMMA SlotsFollow ==
  ASSUME NEW f, Slots(f), NEW loop \in Places
  PROVE  f[loop] = IF loop = 0 THEN 0 ELSE NextSlot(Bits, Step, f[loop - 1])
<1>1. \A l \in Places : f[l] \in Places /\ Air(f[l]) = l
  BY DEF Slots
<1>2. CASE loop = 0
  BY <1>1, <1>2, AirFirst, AirOnce, Zenon
<1>3. CASE loop # 0
  <2> DEFINE i == loop - 1
  <2>1. i \in Places /\ i + 1 = loop /\ i < Bits - 1
    BY <1>3, Rectangle DEF Places
  <2> HIDE DEF i
  <2>2. f[i] \in Places /\ Air(f[i]) = i
    BY <1>1, <2>1, Zenon
  <2>3. Air(f[i]) < Bits - 1
    BY <2>1, <2>2, Zenon
  <2>4. /\ NextSlot(Bits, Step, f[i]) \in Places
        /\ Air(NextSlot(Bits, Step, f[i])) = Air(f[i]) + 1
    BY <2>2, <2>3, AirNext, Zenon
  <2>5. f[loop] = NextSlot(Bits, Step, f[i])
    <3>1. f[loop] \in Places /\ Air(f[loop]) = loop
      BY <1>1, Zenon
    <3>2. Air(NextSlot(Bits, Step, f[i])) = Air(f[loop])
      BY <2>1, <2>2, <2>4, <3>1, Zenon
    <3> QED
      BY <2>4, <3>1, <3>2, AirOnce, Zenon
  <2> QED
    BY <1>3, <2>5, Zenon DEF i
<1> QED
  BY <1>2, <1>3

LEMMA SlotIs == Slots(Slot)
<1> DEFINE g == [loop \in Places |-> CHOOSE k \in Places : Air(k) = loop]
<1>1. Slots(g)
  <2>1. \A loop \in Places : g[loop] \in Places /\ Air(g[loop]) = loop
    BY AirOnto, Zenon
  <2> QED
    BY <2>1, Zenon DEF Slots
<1> HIDE DEF g
<1>2. g = [loop \in Places |->
            IF loop = 0 THEN 0 ELSE NextSlot(Bits, Step, g[loop - 1])]
  <2>1. \A loop \in Places :
          g[loop] = IF loop = 0 THEN 0 ELSE NextSlot(Bits, Step, g[loop - 1])
    BY <1>1, SlotsFollow, Zenon
  <2>2. g = [loop \in Places |-> g[loop]]
    BY <1>1 DEF Slots
  <2> QED
    BY <2>1, <2>2, Zenon
<1>3. Slot = [loop \in Places |->
                IF loop = 0 THEN 0 ELSE NextSlot(Bits, Step, Slot[loop - 1])]
  BY <1>2, Zenon DEF Slot
<1>4. \A loop \in Places :
        Slot[loop] = IF loop = 0 THEN 0 ELSE NextSlot(Bits, Step, Slot[loop - 1])
  BY <1>3, Zenon
<1> DEFINE Off == {loop \in Places : Slot[loop] # g[loop]}
<1>5. Off = {}
  <2>1. SUFFICES ASSUME Off # {} PROVE FALSE
    OBVIOUS
  <2>2. Off \subseteq Nat
    BY Rectangle DEF Places
  <2>3. PICK loop \in Off : \A i \in Off : ~ (<<i, loop>> \in OpToRel(<, Nat))
    BY <2>1, <2>2, NatLessThanWellFounded, WFMin
  <2>4. loop \in Places /\ Slot[loop] # g[loop]
    OBVIOUS
  <2>5. g[loop] = IF loop = 0 THEN 0 ELSE NextSlot(Bits, Step, g[loop - 1])
    BY <1>1, <2>4, SlotsFollow, Zenon
  <2>6. loop # 0
    BY <1>4, <2>4, <2>5, Zenon
  <2>7. loop - 1 \in Places /\ loop - 1 \in Nat /\ loop \in Nat /\ loop - 1 < loop
    BY <2>4, <2>6, Rectangle DEF Places
  <2>8. <<loop - 1, loop>> \in OpToRel(<, Nat)
    BY <2>7 DEF OpToRel
  <2>9. loop - 1 \notin Off
    <3> HIDE DEF Off
    <3> QED
      BY <2>3, <2>8, Zenon
  <2>10. Slot[loop - 1] = g[loop - 1]
    BY <2>7, <2>9, Zenon
  <2> QED
    BY <1>4, <2>4, <2>5, <2>10, Zenon
<1>6. Slot = g
  <2>1. \A loop \in Places : Slot[loop] = g[loop]
    BY <1>5, Zenon
  <2>2. Slot = [loop \in Places |-> Slot[loop]] /\ g = [loop \in Places |-> g[loop]]
    <3>1. g = [loop \in Places |-> g[loop]]
      BY <1>1 DEF Slots
    <3>2. Slot = [loop \in Places |-> Slot[loop]]
      BY <1>3, <1>4, Zenon
    <3> QED
      BY <3>1, <3>2, Zenon
  <2> QED
    BY <2>1, <2>2, Zenon
<1> QED
  BY <1>1, <1>6, Zenon

\* So the deinterleaver takes each bit from where the interleaver puts it.
LEMMA Deinterleaved ==
  ASSUME NEW in, NEW old, NEW k \in Places
  PROVE  Air(k) \in Places /\ deinterleave(in, old)[k] = in[Air(k)]
<1>1. Air(k) \in Places
  BY AirStays
<1>2. \A loop \in Places : Slot[loop] \in Places /\ Air(Slot[loop]) = loop
  BY SlotIs DEF Slots
<1>3. Slot[Air(k)] = k
  BY <1>1, <1>2, AirOnce, Zenon
<1>4. (CHOOSE loop \in Places : Slot[loop] = k) = Air(k)
  <2>1. \A loop \in Places : Slot[loop] = k => loop = Air(k)
    BY <1>2, Zenon
  <2> QED
    BY <1>1, <1>3, <2>1, Zenon
<1> QED
  BY <1>1, <1>3, <1>4, Zenon DEF deinterleave

-----------------------------------------------------------------------------
(***************************************************************************)
(* The station's bits, and the states that its encoder is in on them.      *)
(***************************************************************************)
LEMMA Powers ==
  \A bit \in 0 .. 7 : 2 ^ bit = bit2octet[bit + 1] /\ 2 ^ bit \in Nat \ {0}
<1> SUFFICES ASSUME NEW bit \in 0 .. 7
             PROVE  2 ^ bit = bit2octet[bit + 1] /\ 2 ^ bit \in Nat \ {0}
  OBVIOUS
<1>1. /\ 2 ^ 0 = 1 /\ 2 ^ 1 = 2 /\ 2 ^ 2 = 4 /\ 2 ^ 3 = 8
      /\ 2 ^ 4 = 16 /\ 2 ^ 5 = 32 /\ 2 ^ 6 = 64 /\ 2 ^ 7 = 128
  OBVIOUS
<1>2. /\ bit2octet[0 + 1] = 1 /\ bit2octet[1 + 1] = 2 /\ bit2octet[2 + 1] = 4
      /\ bit2octet[3 + 1] = 8 /\ bit2octet[4 + 1] = 16 /\ bit2octet[5 + 1] = 32
      /\ bit2octet[6 + 1] = 64 /\ bit2octet[7 + 1] = 128
  BY DEF bit2octet
<1>3. /\ bit = 0 \/ bit = 1 \/ bit = 2 \/ bit = 3
         \/ bit = 4 \/ bit = 5 \/ bit = 6 \/ bit = 7
  OBVIOUS
<1>4. 2 ^ bit = bit2octet[bit + 1]
  <2>1. CASE bit = 0
    BY <1>1, <1>2, <2>1, Zenon
  <2>2. CASE bit = 1
    BY <1>1, <1>2, <2>2, Zenon
  <2>3. CASE bit = 2
    BY <1>1, <1>2, <2>3, Zenon
  <2>4. CASE bit = 3
    BY <1>1, <1>2, <2>4, Zenon
  <2>5. CASE bit = 4
    BY <1>1, <1>2, <2>5, Zenon
  <2>6. CASE bit = 5
    BY <1>1, <1>2, <2>6, Zenon
  <2>7. CASE bit = 6
    BY <1>1, <1>2, <2>7, Zenon
  <2>8. CASE bit = 7
    BY <1>1, <1>2, <2>8, Zenon
  <2> QED
    BY <1>3, <2>1, <2>2, <2>3, <2>4, <2>5, <2>6, <2>7, <2>8, Zenon
<1>5. bit2octet[bit + 1] \in Nat \ {0}
  BY DEF bit2octet
<1> QED
  BY <1>4, <1>5, Zenon

LEMMA DataType ==
  ASSUME NEW h \in Headers, NEW i \in Int
  PROVE  Data(h, i) \in Bit /\ (i >= 8 * Octets => Data(h, i) = 0)
<1>0. Octets \in Nat
  BY HeaderAssumption
<1>1. CASE i \in 0 .. 8 * Octets - 1
  <2>1. i \div 8 \in 0 .. Octets - 1 /\ i % 8 \in 0 .. 7
    BY <1>0, <1>1
  <2>2. h[i \div 8] \in 0 .. 255
    BY <2>1, AirAssumption
  <2>3. 2 ^ (i % 8) \in Nat \ {0}
    BY <2>1, Powers, Zenon
  <2> DEFINE a == h[i \div 8]
             b == 2 ^ (i % 8)
  <2>4. a \in Nat /\ b \in Nat \ {0}
    BY <2>2, <2>3
  <2> HIDE DEF a, b
  <2>5. (a \div b) % 2 \in Bit
    BY <2>4 DEF Bit
  <2>6. Data(h, i) = (a \div b) % 2
    BY <1>1, Zenon DEF Data, a, b
  <2>7. ~(i >= 8 * Octets)
    BY <1>0, <1>1
  <2> QED
    BY <2>5, <2>6, <2>7, Zenon
<1>2. CASE i \notin 0 .. 8 * Octets - 1
  BY <1>2 DEF Data, Bit
<1> QED
  BY <1>1, <1>2

LEMMA DataOf ==
  ASSUME NEW h \in Headers, NEW octet \in 0 .. Octets - 1, NEW bit \in 0 .. 7
  PROVE  Data(h, 8 * octet + bit) = (h[octet] \div bit2octet[bit + 1]) % 2
<1> DEFINE i == 8 * octet + bit
<1>1. i \in 0 .. 8 * Octets - 1 /\ i \div 8 = octet /\ i % 8 = bit
  BY HeaderAssumption
<1>2. Data(h, i) = (h[octet] \div (2 ^ bit)) % 2
  BY <1>1, Zenon DEF Data
<1> QED
  BY <1>2, Powers, Zenon

\* the encoder's state before bit i
InState(h, i) == 2 * Data(h, i - 2) + Data(h, i - 1)

LEMMA StateMoves ==
  ASSUME NEW h \in Headers, NEW i \in Int
  PROVE  /\ InState(h, i) \in States
         /\ After(InState(h, i), Data(h, i)) = InState(h, i + 1)
         /\ i >= 8 * Octets + 2 => InState(h, i) = 0
<1> DEFINE a == Data(h, i - 2)
           b == Data(h, i - 1)
           c == Data(h, i)
<1>1. a \in Bit /\ b \in Bit /\ c \in Bit
  <2>1. i - 2 \in Int /\ i - 1 \in Int
    OBVIOUS
  <2> QED
    BY <2>1, DataType, Zenon
<1>2. InState(h, i) = 2 * a + b
  BY DEF InState
<1>3. InState(h, i + 1) = 2 * b + c
  <2>1. (i + 1) - 2 = i - 1 /\ (i + 1) - 1 = i
    OBVIOUS
  <2> QED
    BY <2>1, Zenon DEF InState
<1>4. ASSUME i >= 8 * Octets + 2 PROVE a = 0 /\ b = 0
  <2>1. i - 2 \in Int /\ i - 1 \in Int /\ i - 2 >= 8 * Octets /\ i - 1 >= 8 * Octets
    BY <1>4, HeaderAssumption
  <2> QED
    BY <2>1, DataType, Zenon
<1> HIDE DEF a, b, c
<1>5. 2 * a + b \in States /\ After(2 * a + b, c) = 2 * b + c
  BY <1>1 DEF Bit, States, After
<1>6. a = 0 /\ b = 0 => 2 * a + b = 0
  OBVIOUS
<1> QED
  BY <1>2, <1>3, <1>4, <1>5, <1>6, Zenon DEF c

LEMMA CodeOf ==
  ASSUME NEW h \in Headers, NEW i \in 0 .. Pairs - 1
  PROVE  /\ 2 * i \in Places /\ 2 * i + 1 \in Places
         /\ Code(h, 2 * i) = Sends(InState(h, i), Data(h, i))[1]
         /\ Code(h, 2 * i + 1) = Sends(InState(h, i), Data(h, i))[2]
         /\ Code(h, 2 * i) \in Bit /\ Code(h, 2 * i + 1) \in Bit
<1>1. /\ 2 * i \in Places /\ 2 * i + 1 \in Places /\ i \in Int
      /\ (2 * i) \div 2 = i /\ ((2 * i) % 2) + 1 = 1
      /\ (2 * i + 1) \div 2 = i /\ ((2 * i + 1) % 2) + 1 = 2
  BY HeaderAssumption DEF Places, Bits
<1>2. Sends(InState(h, i), Data(h, i)) \in Bit \X Bit
  BY <1>1, DataType, StateMoves, EncoderType, Zenon
<1>3. /\ Sends(InState(h, i), Data(h, i))[1] \in Bit
      /\ Sends(InState(h, i), Data(h, i))[2] \in Bit
  BY <1>2
<1>4. /\ Code(h, 2 * i) = Sends(InState(h, i), Data(h, i))[1]
      /\ Code(h, 2 * i + 1) = Sends(InState(h, i), Data(h, i))[2]
  BY <1>1, Zenon DEF Code, InState
<1> QED
  BY <1>1, <1>3, <1>4, Zenon

LEMMA CodeType == ASSUME NEW h \in Headers, NEW k \in Places PROVE Code(h, k) \in Bit
<1> DEFINE i == k \div 2
<1>1. i \in 0 .. Pairs - 1 /\ (k = 2 * i \/ k = 2 * i + 1)
  BY HeaderAssumption DEF Places, Bits
<1> HIDE DEF i
<1> QED
  BY <1>1, CodeOf, Zenon

\* An octet is its bits.
LEMMA OctetBits ==
  ASSUME NEW a \in 0 .. 255
  PROVE  a = ((a \div 1) % 2) * 1 + ((a \div 2) % 2) * 2 + ((a \div 4) % 2) * 4
               + ((a \div 8) % 2) * 8 + ((a \div 16) % 2) * 16 + ((a \div 32) % 2) * 32
               + ((a \div 64) % 2) * 64 + ((a \div 128) % 2) * 128
OBVIOUS

LEMMA OctetRead ==
  ASSUME NEW h \in Headers, NEW o, \A k \in 0 .. Pairs - 1 : o[k] = Data(h, k),
         NEW octet \in 0 .. Octets - 1
  PROVE  OctetOf(o, octet) = h[octet]
<1> DEFINE a == h[octet]
<1>1. a \in 0 .. 255
  BY AirAssumption
<1>2. \A bit \in 0 .. 7 : o[8 * octet + bit] = (a \div bit2octet[bit + 1]) % 2
  <2> TAKE bit \in 0 .. 7
  <2>1. 8 * octet + bit \in 0 .. Pairs - 1
    BY HeaderAssumption
  <2> QED
    BY <2>1, DataOf, Zenon
<1> HIDE DEF a
<1>3. /\ o[8 * octet + 0] = (a \div 1) % 2 /\ o[8 * octet + 1] = (a \div 2) % 2
      /\ o[8 * octet + 2] = (a \div 4) % 2 /\ o[8 * octet + 3] = (a \div 8) % 2
      /\ o[8 * octet + 4] = (a \div 16) % 2 /\ o[8 * octet + 5] = (a \div 32) % 2
      /\ o[8 * octet + 6] = (a \div 64) % 2 /\ o[8 * octet + 7] = (a \div 128) % 2
  BY <1>2 DEF bit2octet
<1>4. OctetOf(o, octet) =
        o[8 * octet + 0] * 1 + o[8 * octet + 1] * 2 + o[8 * octet + 2] * 4
          + o[8 * octet + 3] * 8 + o[8 * octet + 4] * 16 + o[8 * octet + 5] * 32
          + o[8 * octet + 6] * 64 + o[8 * octet + 7] * 128
  <2>1. /\ bit2octet[0 + 1] = 1 /\ bit2octet[1 + 1] = 2 /\ bit2octet[2 + 1] = 4
        /\ bit2octet[3 + 1] = 8 /\ bit2octet[4 + 1] = 16 /\ bit2octet[5 + 1] = 32
        /\ bit2octet[6 + 1] = 64 /\ bit2octet[7 + 1] = 128
    BY DEF bit2octet
  <2> QED
    BY <2>1 DEF OctetOf
<1> QED
  <2>1. OctetOf(o, octet) =
          ((a \div 1) % 2) * 1 + ((a \div 2) % 2) * 2 + ((a \div 4) % 2) * 4
            + ((a \div 8) % 2) * 8 + ((a \div 16) % 2) * 16 + ((a \div 32) % 2) * 32
            + ((a \div 64) % 2) * 64 + ((a \div 128) % 2) * 128
    BY <1>3, <1>4, SMT
  <2> QED
    BY <1>1, <2>1, OctetBits, Zenon DEF a

-----------------------------------------------------------------------------
(***************************************************************************)
(* A burst on the air: in the code its bits are a row apart, less one      *)
(* where it goes over to the next column.                                  *)
(***************************************************************************)
\* the bit of b with number k is wrong
Off(b, h, k) == b[k] # Code(h, k)
Apart(b, h) ==
  \A k, l \in Places : Off(b, h, k) /\ Off(b, h, l) /\ k < l => l - k >= 8

LEMMA RowsApart ==
  ASSUME NEW q \in Nat, NEW r \in Nat, q < r
  PROVE  Step * r - Step * q >= Step /\ Step * r \in Nat /\ Step * q \in Nat
<1> DEFINE m == r - q - 1
<1>1. m \in Nat /\ r = q + (1 + m)
  OBVIOUS
<1> HIDE DEF m
<1>2. Step * (1 + m) = Step * 1 + Step * m /\ Step * 1 = Step /\ Step * m \in Nat
  BY <1>1, Rectangle, TimesMore
<1>3. Step * (q + (1 + m)) = Step * q + Step * (1 + m) /\ Step * q \in Nat
  BY <1>1, Rectangle, TimesMore
<1> QED
  BY <1>1, <1>2, <1>3, Rectangle

\* Of two places less than a column apart on the air, the one that comes
\* first is in the same column or in the one before, and there further down.
LEMMA NeighbourColumns ==
  ASSUME Burst < Rows, NEW k \in Places, NEW l \in Places,
         Column(k) < Column(l), Air(l) - Air(k) < Burst
  PROVE  Column(l) = Column(k) + 1 /\ Row(l) < Row(k)
<1> DEFINE c == Column(k)
           d == Column(l)
           q == Row(k)
           r == Row(l)
<1>1. /\ c \in 0 .. Step - 1 /\ d \in 0 .. Step - 1 /\ c < d
      /\ q \in 0 .. Rows - 1 /\ r \in 0 .. Rows - 1
      /\ q + 1 <= Length(c) /\ r + 1 <= Length(d)
      /\ Air(k) = First(c) + q /\ Air(l) = First(d) + r
  BY PlaceParts, AirIs
<1> HIDE DEF c, d, q, r
<1>2. /\ c \in 0 .. Step /\ d \in 0 .. Step /\ c + 1 \in 0 .. Step
      /\ c \in 0 .. Step - 1
  BY <1>1, Rectangle
<1>3. /\ First(c) \in Int /\ First(d) \in Int
      /\ First(c + 1) = First(c) + Length(c)
      /\ c + 1 < d => First(d) >= First(c + 1) + Length(c + 1)
  BY <1>2, ColumnsFollow, Zenon
<1>4. /\ Length(c) \in {Rows - 1, Rows} /\ Length(c + 1) \in {Rows - 1, Rows}
  BY DEF Length
<1>5. Burst \in Nat
  BY AirAssumption
<1>6. ~(c + 1 < d)
  <2> SUFFICES ASSUME c + 1 < d PROVE FALSE
    OBVIOUS
  <2> QED
    BY <1>1, <1>3, <1>4, <1>5, Rectangle
<1>7. d = c + 1
  BY <1>1, <1>6, Rectangle
<1>8. First(d) = First(c) + Length(c)
  BY <1>3, <1>7
<1>9. r < q
  BY <1>1, <1>3, <1>4, <1>5, <1>8, Rectangle
<1> QED
  BY <1>7, <1>9 DEF c, d, q, r

LEMMA Spread ==
  ASSUME Scattered, NEW k \in Places, NEW l \in Places, k < l,
         Air(k) - Air(l) < Burst, Air(l) - Air(k) < Burst
  PROVE  l - k >= 8
<1> DEFINE c == Column(k)
           d == Column(l)
           q == Row(k)
           r == Row(l)
<1>1. /\ c \in 0 .. Step - 1 /\ d \in 0 .. Step - 1
      /\ q \in 0 .. Rows - 1 /\ r \in 0 .. Rows - 1
      /\ k = Step * q + c /\ l = Step * r + d
  BY PlaceParts
<1>2. Air(k) \in Int /\ Air(l) \in Int /\ Burst \in Nat
  BY AirStays, AirAssumption, Rectangle DEF Places
<1>3. Burst > 1 /\ Step > 8 /\ Burst < Rows
  <2>1. Air(k) # Air(l)
    <3>1. k # l
      BY Rectangle DEF Places
    <3> QED
      BY <3>1, AirOnce, Zenon
  <2>2. ~(Burst <= 1)
    BY <1>2, <2>1
  <2>3. Burst > 1
    BY <1>2, <2>2
  <2>4. Step > 8 /\ Burst < Rows
    BY <2>2, Zenon DEF Scattered, Rows
  <2> QED
    BY <2>3, <2>4
<1>4. c < d => d = c + 1 /\ r < q
  BY <1>3, NeighbourColumns, Zenon
<1>5. d < c => c = d + 1 /\ q < r
  BY <1>3, NeighbourColumns, Zenon
<1> HIDE DEF c, d, q, r
<1>6. c \in Nat /\ d \in Nat /\ q \in Nat /\ r \in Nat /\ Step \in Nat
  BY <1>1, Rectangle
<1>7. q < r => Step * r - Step * q >= Step
  BY <1>6, RowsApart, Zenon
<1>8. r < q => Step * q - Step * r >= Step
  BY <1>6, RowsApart, Zenon
<1>9. Step * q \in Nat /\ Step * r \in Nat /\ (q = r => Step * q = Step * r)
  BY <1>6, TimesMore
<1> DEFINE x == Step * q
           y == Step * r
<1>10. /\ x \in Nat /\ y \in Nat /\ (q = r => x = y)
       /\ (q < r => y - x >= Step) /\ (r < q => x - y >= Step)
       /\ k = x + c /\ l = y + d
  BY <1>1, <1>7, <1>8, <1>9, Zenon
<1> HIDE DEF x, y
<1>11. CASE c < d
  <2>1. x - y >= Step /\ d = c + 1
    BY <1>4, <1>10, <1>11
  <2> QED
    BY <1>3, <1>6, <1>10, <2>1
<1>12. CASE d < c
  <2>1. y - x >= Step /\ c = d + 1
    BY <1>5, <1>10, <1>12
  <2> QED
    BY <1>3, <1>6, <1>10, <2>1
<1>13. CASE c = d
  <2>1. x < y
    BY <1>6, <1>10, <1>13
  <2>2. q < r
    BY <1>6, <1>10, <2>1
  <2> QED
    BY <1>3, <1>6, <1>10, <1>13, <2>2
<1> QED
  BY <1>6, <1>11, <1>12, <1>13

\* What is received is the station's code, but for wrong bits far apart.
LEMMA ReceivedAs ==
  ASSUME Scattered, NEW h \in Headers, NEW first \in 0 .. Bits
  PROVE  /\ OnAir(h, first) \in [Places -> Bit]
         /\ Apart(deinterleave(scramble(OnAir(h, first)), OnAir(h, first)), h)
<1> DEFINE air == OnAir(h, first)
           wrong(loop) == IF loop \in first .. first + Burst - 1 THEN 1 ELSE 0
<1>1. ASSUME NEW k \in Places
      PROVE  /\ Air(k) \in Places
             /\ air[Air(k)] = (Code(h, k) + Scrambler[Air(k)] + wrong(Air(k))) % 2
  <2>1. (CHOOSE j \in Places : AirPlace(Bits, Step, j) = Air(k)) = k
    BY AirOnce, Zenon DEF Air
  <2>2. Air(k) \in Places
    BY AirStays
  <2> QED
    BY <2>1, <2>2, Zenon DEF OnAir
<1>2. ASSUME NEW k \in Places
      PROVE  Code(h, k) \in Bit /\ Scrambler[Air(k)] \in Bit /\ wrong(Air(k)) \in Bit
  BY CodeType, AirStays, HeaderAssumption DEF Bit
<1>3. \A x, y, z \in Bit :
        /\ (x + y + z) % 2 \in Bit
        /\ Xor((x + y + z) % 2, y) # x => z = 1
  BY DEF Bit, Xor
<1>4. air \in [Places -> Bit]
  <2>1. ASSUME NEW loop \in Places PROVE air[loop] \in Bit
    <3>1. PICK k \in Places : Air(k) = loop
      BY AirOnto, Zenon
    <3> HIDE DEF air, wrong
    <3>2. air[loop] = (Code(h, k) + Scrambler[Air(k)] + wrong(Air(k))) % 2
      BY <1>1, <3>1, Zenon
    <3>3. (Code(h, k) + Scrambler[Air(k)] + wrong(Air(k))) % 2 \in Bit
      BY <1>2, <1>3, Zenon
    <3> QED
      BY <3>2, <3>3, Zenon
  <2>2. air = [loop \in Places |-> air[loop]]
    BY DEF OnAir
  <2> HIDE DEF air
  <2> QED
    BY <2>1, <2>2
<1> HIDE DEF air
<1> DEFINE b == deinterleave(scramble(air), air)
<1>5. ASSUME NEW k \in Places, Off(b, h, k) PROVE Air(k) \in first .. first + Burst - 1
  <2>1. b[k] = scramble(air)[Air(k)]
    BY Deinterleaved, Zenon
  <2>2. scramble(air)[Air(k)] = Xor(air[Air(k)], Scrambler[Air(k)])
    BY <1>1, Zenon DEF scramble
  <2>3. wrong(Air(k)) = 1
    <3> HIDE DEF b, wrong
    <3>1. Xor((Code(h, k) + Scrambler[Air(k)] + wrong(Air(k))) % 2, Scrambler[Air(k)])
            # Code(h, k)
      BY <1>1, <1>5, <2>1, <2>2, Zenon DEF Off
    <3> QED
      BY <1>2, <1>3, <3>1, Zenon
  <2> QED
    BY <2>3
<1> HIDE DEF b
<1>6. Apart(b, h)
  <2> SUFFICES ASSUME NEW k \in Places, NEW l \in Places,
                      Off(b, h, k), Off(b, h, l), k < l
               PROVE  l - k >= 8
    BY Zenon DEF Apart
  <2>1. /\ Air(k) \in first .. first + Burst - 1
        /\ Air(l) \in first .. first + Burst - 1
    BY <1>5
  <2>2. Air(k) - Air(l) < Burst /\ Air(l) - Air(k) < Burst
    BY <2>1, AirAssumption, Rectangle
  <2> QED
    BY <2>2, Spread, Zenon
<1> QED
  BY <1>4, <1>6, Zenon DEF air, b

-----------------------------------------------------------------------------
(***************************************************************************)
(* By how much a path is behind the station's.  Of a pair that the two     *)
(* have different, each bit received right sets the path back by one, and  *)
(* a wrong one brings it forward by one.  Wrong bits come four pairs apart *)
(* at least; wait is how many pairs must pass before the next.  newer and  *)
(* older tell whether the two bits of the paths' states differ, parted     *)
(* whether the paths' inputs ever have: then, when the states are alike    *)
(* again, the path is behind.                                              *)
(***************************************************************************)
Differ(a, b) == IF a = b THEN 0 ELSE 1

Gain(differ, wrong) == IF differ = 0 THEN 0 ELSE IF wrong = 1 THEN -1 ELSE 1

Behind(newer, older, parted, wait) ==
  IF parted = 0
  THEN IF older = 1 /\ newer = 0 /\ wait = 3 THEN -1 ELSE 0
  ELSE IF older = 1 THEN IF wait = 0 THEN 1 ELSE IF wait = 3 THEN -1 ELSE 0
       ELSE IF newer = 1 THEN IF wait = 2 THEN -1 ELSE 0
       ELSE 1

BehindGrows(newer, older, parted, wait, in, w1, w2) ==
  Behind(in, newer, IF parted = 1 \/ in = 1 THEN 1 ELSE 0,
         IF w1 = 1 \/ w2 = 1 THEN 3 ELSE IF wait > 0 THEN wait - 1 ELSE 0)
    <= Behind(newer, older, parted, wait)
         + (Gain((in + newer + older) % 2, w1) + Gain((in + older) % 2, w2))

LEMMA BehindStep ==
  ASSUME NEW newer \in Bit, NEW older \in Bit, NEW in \in Bit,
         NEW parted \in Bit, NEW wait \in 0 .. 3,
         NEW w1 \in Bit, NEW w2 \in Bit, w1 = 0 \/ w2 = 0,
         w1 = 1 \/ w2 = 1 => wait = 0
  PROVE  BehindGrows(newer, older, parted, wait, in, w1, w2)
<1>1. CASE newer = 0 /\ older = 0
  BY <1>1 DEF Bit, BehindGrows, Behind, Gain
<1>2. CASE newer = 1 /\ older = 0
  BY <1>2 DEF Bit, BehindGrows, Behind, Gain
<1>3. CASE newer = 0 /\ older = 1
  BY <1>3 DEF Bit, BehindGrows, Behind, Gain
<1>4. CASE newer = 1 /\ older = 1
  BY <1>4 DEF Bit, BehindGrows, Behind, Gain
<1> QED
  BY <1>1, <1>2, <1>3, <1>4 DEF Bit

PairGains(s, a, t, b, r1, r2) ==
  LET in == Differ(a, b)
      newer == Differ(s % 2, t % 2)
      older == Differ(s \div 2, t \div 2)
  IN  (Xor(r1, Sends(s, a)[1]) + Xor(r2, Sends(s, a)[2]))
        - (Xor(r1, Sends(t, b)[1]) + Xor(r2, Sends(t, b)[2]))
      = Gain((in + newer + older) % 2, Differ(r1, Sends(t, b)[1]))
          + Gain((in + older) % 2, Differ(r2, Sends(t, b)[2]))

LEMMA PairGain ==
  ASSUME NEW s \in States, NEW t \in States, NEW a \in Bit, NEW b \in Bit,
         NEW r1 \in Bit, NEW r2 \in Bit
  PROVE  PairGains(s, a, t, b, r1, r2)
<1>1. CASE s = 0
  BY <1>1 DEF Bit, States, Sends, Xor, Gain, Differ, PairGains
<1>2. CASE s = 1
  BY <1>2 DEF Bit, States, Sends, Xor, Gain, Differ, PairGains
<1>3. CASE s = 2
  BY <1>3 DEF Bit, States, Sends, Xor, Gain, Differ, PairGains
<1>4. CASE s = 3
  BY <1>4 DEF Bit, States, Sends, Xor, Gain, Differ, PairGains
<1> QED
  BY <1>1, <1>2, <1>3, <1>4 DEF States

LEMMA AfterBits ==
  ASSUME NEW s \in States, NEW in \in Bit
  PROVE  After(s, in) % 2 = in /\ After(s, in) \div 2 = s % 2
BY DEF States, Bit, After

\* a wrong bit in pair j
OffPair(b, h, j) == \E k \in Places : Off(b, h, k) /\ (k = 2 * j \/ k = 2 * j + 1)

\* before pair i
Wait(b, h, i) ==
  IF OffPair(b, h, i - 1) THEN 3
  ELSE IF OffPair(b, h, i - 2) THEN 2
  ELSE IF OffPair(b, h, i - 3) THEN 1 ELSE 0

LEMMA WaitStep ==
  ASSUME NEW b, NEW h, Apart(b, h), NEW i \in 0 .. Pairs - 1
  PROVE  /\ Wait(b, h, i) \in 0 .. 3 /\ Wait(b, h, 0) = 0
         /\ ~Off(b, h, 2 * i) \/ ~Off(b, h, 2 * i + 1)
         /\ Off(b, h, 2 * i) \/ Off(b, h, 2 * i + 1) => Wait(b, h, i) = 0
         /\ Wait(b, h, i + 1) =
              IF Off(b, h, 2 * i) \/ Off(b, h, 2 * i + 1) THEN 3
              ELSE IF Wait(b, h, i) > 0 THEN Wait(b, h, i) - 1 ELSE 0
<1> DEFINE x(k) == Off(b, h, k)
           o(j) == OffPair(b, h, j)
<1>1. i \in Nat /\ 2 * i \in Places /\ 2 * i + 1 \in Places
  BY HeaderAssumption DEF Places, Bits
<1>2. \A k, l \in Places : x(k) /\ x(l) /\ k < l => l - k >= 8
  BY Zenon DEF Apart
<1>3. o(i) <=> x(2 * i) \/ x(2 * i + 1)
  BY <1>1, Zenon DEF OffPair
<1>4. \A j \in Int : o(j) <=> \E k \in Places : x(k) /\ (k = 2 * j \/ k = 2 * j + 1)
  BY Zenon DEF OffPair
<1> HIDE DEF x, o
<1>5. ~x(2 * i) \/ ~x(2 * i + 1)
  BY <1>1, <1>2
<1>6. ASSUME o(i), NEW m \in 1 .. 3 PROVE ~o(i - m)
  <2>1. PICK l \in Places : x(l) /\ (l = 2 * i \/ l = 2 * i + 1)
    BY <1>1, <1>3, <1>6, Zenon
  <2>2. i - m \in Int
    BY <1>1
  <2>3. SUFFICES ASSUME NEW k \in Places, x(k), k = 2 * (i - m) \/ k = 2 * (i - m) + 1
                 PROVE  FALSE
    BY <1>4, <2>2, Zenon
  <2>4. k < l /\ l - k < 8
    BY <1>1, <2>1, <2>3
  <2>5. l - k >= 8
    BY <1>2, <2>1, <2>3, <2>4, Zenon
  <2> QED
    BY <1>1, <2>1, <2>3, <2>4, <2>5
<1>7. \A j \in Int : j < 0 => ~o(j)
  <2> SUFFICES ASSUME NEW j \in Int, j < 0, NEW k \in Places, k = 2 * j \/ k = 2 * j + 1
               PROVE  FALSE
    BY <1>4, Zenon
  <2> QED
    BY Rectangle DEF Places
<1>8. /\ Wait(b, h, i) = IF o(i - 1) THEN 3 ELSE IF o(i - 2) THEN 2
                         ELSE IF o(i - 3) THEN 1 ELSE 0
      /\ Wait(b, h, i + 1) = IF o(i) THEN 3 ELSE IF o(i - 1) THEN 2
                             ELSE IF o(i - 2) THEN 1 ELSE 0
      /\ Wait(b, h, 0) = IF o(-1) THEN 3 ELSE IF o(-2) THEN 2
                         ELSE IF o(-3) THEN 1 ELSE 0
  <2>1. /\ (i + 1) - 1 = i /\ (i + 1) - 2 = i - 1 /\ (i + 1) - 3 = i - 2
        /\ 0 - 1 = -1 /\ 0 - 2 = -2 /\ 0 - 3 = -3
    BY <1>1
  <2> QED
    BY <2>1, Zenon DEF Wait, o
<1>9. Wait(b, h, 0) = 0
  <2>1. ~o(-1) /\ ~o(-2) /\ ~o(-3)
    BY <1>7
  <2> QED
    BY <1>8, <2>1, Zenon
<1>10. o(i) => Wait(b, h, i) = 0
  <2>1. o(i) => ~o(i - 1) /\ ~o(i - 2) /\ ~o(i - 3)
    BY <1>6
  <2> QED
    BY <1>8, <2>1, Zenon
<1>11. Wait(b, h, i) \in 0 .. 3
  BY <1>8
<1>12. Wait(b, h, i + 1) = IF o(i) THEN 3 ELSE IF Wait(b, h, i) > 0 THEN Wait(b, h, i) - 1 ELSE 0
  BY <1>8
<1> QED
  BY <1>3, <1>5, <1>9, <1>10, <1>11, <1>12, Zenon DEF x

-----------------------------------------------------------------------------
(***************************************************************************)
(* What the path of the station's bits costs: w[i] after i pairs.          *)
(***************************************************************************)
SentCost(w, m, b, h) ==
  /\ w \in [0 .. Pairs -> Nat]
  /\ w[0] = 0
  /\ \A i \in 0 .. m - 1 :
       w[i + 1] = w[i] + Pair(b, i, Sends(InState(h, i), Data(h, i)))

LEMMA PairType ==
  ASSUME NEW b \in [Places -> Bit], NEW i \in 0 .. Pairs - 1, NEW pair \in Bit \X Bit
  PROVE  /\ b[2 * i] \in Bit /\ b[2 * i + 1] \in Bit
         /\ pair[1] \in Bit /\ pair[2] \in Bit
         /\ Pair(b, i, pair) \in Nat
<1>1. 2 * i \in Places /\ 2 * i + 1 \in Places
  BY HeaderAssumption DEF Places, Bits
<1>2. b[2 * i] \in Bit /\ b[2 * i + 1] \in Bit /\ pair[1] \in Bit /\ pair[2] \in Bit
  BY <1>1
<1>3. Xor(b[2 * i], pair[1]) \in Bit /\ Xor(b[2 * i + 1], pair[2]) \in Bit
  BY <1>2, XorType
<1> QED
  BY <1>2, <1>3 DEF Pair, Bit

LEMMA SentCosts ==
  ASSUME TypeOK, DecodePair, sent \in Headers,
         NEW w, SentCost(w, n, bits, sent), <<InState(sent, n), w[n]>> \in costs
  PROVE  \E v : /\ SentCost(v, n + 1, bits, sent)
                /\ <<InState(sent, n + 1), v[n + 1]>> \in costs'
<1> DEFINE s == InState(sent, n)
           in == Data(sent, n)
           v == [w EXCEPT ![n + 1] = w[n] + Wrong(Sends(s, in))]
<1>1. n \in 0 .. Pairs - 1 /\ n \in Nat /\ n \in Int /\ bits \in [Places -> Bit]
  BY HeaderAssumption, Rectangle DEF DecodePair, viterbiDecode, TypeOK
<1>2. s \in States /\ in \in Bit /\ After(s, in) = InState(sent, n + 1)
  BY <1>1, DataType, StateMoves, Zenon
<1>3. Wrong(Sends(s, in)) = Pair(bits, n, Sends(s, in)) /\ Wrong(Sends(s, in)) \in Nat
  <2>1. Sends(s, in) \in Bit \X Bit
    BY <1>2, EncoderType, Zenon
  <2>2. Pair(bits, n, Sends(s, in)) \in Nat
    BY <1>1, <2>1, PairType, Zenon
  <2> QED
    BY <2>2, Zenon DEF Wrong, Pair
<1>4. /\ w \in [0 .. Pairs -> Nat] /\ w[0] = 0
      /\ \A i \in 0 .. n - 1 :
           w[i + 1] = w[i] + Pair(bits, i, Sends(InState(sent, i), Data(sent, i)))
  BY Zenon DEF SentCost
<1>5. <<After(s, in), w[n] + Wrong(Sends(s, in))>> \in costs'
  <2> HIDE DEF s, in
  <2>1. \A p \in costs, i \in Bit :
          <<After(p[1], i), p[2] + Wrong(Sends(p[1], i))>> \in costs'
    BY DEF DecodePair
  <2> DEFINE p == <<s, w[n]>>
  <2>2. p \in costs /\ p[1] = s /\ p[2] = w[n]
    BY DEF s
  <2> HIDE DEF p
  <2> QED
    BY <1>2, <2>1, <2>2, Zenon
<1> HIDE DEF s, in
<1>6. /\ v \in [0 .. Pairs -> Nat]
      /\ v[n + 1] = w[n] + Wrong(Sends(s, in))
      /\ \A i \in 0 .. n : v[i] = w[i]
  <2>1. w[n] + Wrong(Sends(s, in)) \in Nat
    BY <1>1, <1>3, <1>4, HeaderAssumption
  <2> QED
    BY <1>1, <1>4, <2>1, HeaderAssumption
<1> HIDE DEF v
<1>7. ASSUME NEW i \in 0 .. (n + 1) - 1
      PROVE  v[i + 1] = v[i] + Pair(bits, i, Sends(InState(sent, i), Data(sent, i)))
  <2>1. CASE i = n
    <3>1. v[n + 1] = v[n] + Pair(bits, n, Sends(s, in))
      BY <1>1, <1>3, <1>6
    <3> QED
      BY <2>1, <3>1, Zenon DEF s, in
  <2>2. CASE i # n
    <3>1. i \in 0 .. n - 1 /\ i \in 0 .. n /\ i + 1 \in 0 .. n
      BY <1>1, <2>2
    <3> QED
      BY <1>4, <1>6, <3>1, Zenon
  <2> QED
    BY <2>1, <2>2
<1>8. v[0] = 0
  BY <1>1, <1>4, <1>6
<1>9. SentCost(v, n + 1, bits, sent)
  BY <1>6, <1>7, <1>8, Zenon DEF SentCost
<1> QED
  BY <1>2, <1>5, <1>6, <1>9, Zenon

-----------------------------------------------------------------------------
\* whether the traced path's input is another than the station's before bit i
Parted(h, i) == IF \E j \in 0 .. i - 1 : out[j] # Data(h, j) THEN 1 ELSE 0

\* by how much the traced path is behind after i pairs, at least
Lag(P, h, i) ==
  Behind(Differ(P[i] % 2, InState(h, i) % 2), Differ(P[i] \div 2, InState(h, i) \div 2),
         Parted(h, i), Wait(bits, h, i))

Lags(M, P, w, h, i) == M[i][P[i]] >= w[i] + Lag(P, h, i)

LEMMA LagType ==
  \A newer, older, parted, wait : Behind(newer, older, parted, wait) \in {-1, 0, 1}
BY DEF Behind

LEMMA PartedStep ==
  ASSUME NEW h, NEW i \in Nat
  PROVE  /\ Parted(h, i) \in Bit
         /\ Parted(h, i + 1) =
              IF Parted(h, i) = 1 \/ Differ(out[i], Data(h, i)) = 1 THEN 1 ELSE 0
<1>1. 0 .. (i + 1) - 1 = (0 .. i - 1) \cup {i}
  BY SMT
<1>2. (\E j \in 0 .. (i + 1) - 1 : out[j] # Data(h, j))
        <=> (\E j \in 0 .. i - 1 : out[j] # Data(h, j)) \/ out[i] # Data(h, i)
  BY <1>1, Zenon
<1> DEFINE before == \E j \in 0 .. i - 1 : out[j] # Data(h, j)
           now == out[i] # Data(h, i)
<1>3. /\ Parted(h, i) = IF before THEN 1 ELSE 0
      /\ Parted(h, i + 1) = IF before \/ now THEN 1 ELSE 0
      /\ Differ(out[i], Data(h, i)) = IF now THEN 1 ELSE 0
  BY <1>2, Zenon DEF Parted, Differ
<1> HIDE DEF before, now
<1> QED
  BY <1>3 DEF Bit

\* a step of the traced path, and what it costs
TracedOn(M, P, i) ==
  /\ P[i] \in States /\ P[i + 1] \in States /\ out[i] \in Bit
  /\ P[i + 1] = After(P[i], out[i])
  /\ M[i][P[i]] \in Nat
  /\ M[i + 1][P[i + 1]] = M[i][P[i]] + Pair(bits, i, Sends(P[i], out[i]))

LEMMA TracedStep ==
  ASSUME TypeOK, NEW M, Metrics(M, Pairs, bits, memory),
         NEW P, Traced(P, 0, memory, out), NEW i \in 0 .. Pairs - 1
  PROVE  TracedOn(M, P, i)
<1>1. /\ M \in [0 .. Pairs -> [States -> Nat]]
      /\ \A j \in 0 .. Pairs - 1, s \in States :
           LET t == From(s, memory[j][s])
           IN  M[j + 1][s] = M[j][t] + Pair(bits, j, Sends(t, LastIn(s)))
  BY Zenon DEF Metrics
<1>2. /\ P \in [0 .. Pairs -> States]
      /\ P[i] = From(P[i + 1], memory[i][P[i + 1]]) /\ out[i] = LastIn(P[i + 1])
  BY Zenon DEF Traced
<1>3. i \in 0 .. Pairs /\ i + 1 \in 0 .. Pairs
  BY HeaderAssumption
<1>4. P[i] \in States /\ P[i + 1] \in States
  <2>1. P \in [0 .. Pairs -> States]
    BY <1>2, Zenon
  <2> QED
    BY <1>3, <2>1
<1>5. memory[i][P[i + 1]] \in Bit
  BY <1>4 DEF TypeOK
<1>6. out[i] \in Bit /\ P[i + 1] = After(P[i], out[i])
  BY <1>2, <1>4, <1>5, TrellisIsEncoders, Zenon
<1>7. M[i][P[i]] \in Nat
  BY <1>1, <1>3, <1>4
<1>8. M[i + 1][P[i + 1]] = M[i][P[i]] + Pair(bits, i, Sends(P[i], out[i]))
  BY <1>1, <1>2, <1>4, Zenon
<1> QED
  BY <1>4, <1>6, <1>7, <1>8, Zenon DEF TracedOn

LEMMA LagStep ==
  ASSUME TypeOK, NEW h \in Headers, Apart(bits, h),
         NEW w, SentCost(w, Pairs, bits, h),
         NEW M, Metrics(M, Pairs, bits, memory), NEW P, Traced(P, 0, memory, out),
         NEW i \in 0 .. Pairs - 1, Lags(M, P, w, h, i)
  PROVE  Lags(M, P, w, h, i + 1)
<1> DEFINE s == P[i]
           a == out[i]
           t == InState(h, i)
           b == Data(h, i)
           p == Sends(s, a)
           q == Sends(t, b)
           r1 == bits[2 * i]
           r2 == bits[2 * i + 1]
           in == Differ(a, b)
           newer == Differ(s % 2, t % 2)
           older == Differ(s \div 2, t \div 2)
           w1 == Differ(r1, q[1])
           w2 == Differ(r2, q[2])
           parted == Parted(h, i)
           wait == Wait(bits, h, i)
<1>0. i \in Nat /\ i \in Int /\ bits \in [Places -> Bit]
  BY Rectangle DEF TypeOK
<1>1. /\ s \in States /\ P[i + 1] \in States /\ a \in Bit
      /\ P[i + 1] = After(s, a)
      /\ M[i][s] \in Nat
      /\ M[i + 1][P[i + 1]] = M[i][s] + Pair(bits, i, p)
  <2>1. TracedOn(M, P, i)
    BY TracedStep, Zenon
  <2> QED
    BY <2>1, Zenon DEF TracedOn
<1>2. /\ t \in States /\ b \in Bit /\ InState(h, i + 1) = After(t, b)
  BY <1>0, StateMoves, DataType, Zenon
<1>3. w[i] \in Nat /\ w[i + 1] = w[i] + Pair(bits, i, q)
  <2>1. /\ w \in [0 .. Pairs -> Nat]
        /\ \A j \in 0 .. Pairs - 1 :
             w[j + 1] = w[j] + Pair(bits, j, Sends(InState(h, j), Data(h, j)))
    BY Zenon DEF SentCost
  <2>2. i \in 0 .. Pairs
    BY HeaderAssumption
  <2> QED
    BY <2>1, <2>2
<1>4. p \in Bit \X Bit /\ q \in Bit \X Bit
  BY <1>1, <1>2, EncoderType, Zenon
<1>5. /\ r1 \in Bit /\ r2 \in Bit /\ q[1] \in Bit /\ q[2] \in Bit
      /\ Pair(bits, i, p) \in Nat /\ Pair(bits, i, q) \in Nat
  BY <1>0, <1>4, PairType, Zenon
<1>6. Pair(bits, i, p) - Pair(bits, i, q)
        = Gain((in + newer + older) % 2, w1) + Gain((in + older) % 2, w2)
  <2>1. PairGains(s, a, t, b, r1, r2)
    BY <1>1, <1>2, <1>5, PairGain, Zenon
  <2> QED
    BY <2>1, Zenon DEF Pair, PairGains
<1>7. /\ in \in Bit /\ newer \in Bit /\ older \in Bit /\ w1 \in Bit /\ w2 \in Bit
  BY DEF Differ, Bit
<1>8. /\ w1 = 1 <=> Off(bits, h, 2 * i)
      /\ w2 = 1 <=> Off(bits, h, 2 * i + 1)
  <2>1. Code(h, 2 * i) = q[1] /\ Code(h, 2 * i + 1) = q[2]
    BY CodeOf, Zenon
  <2> QED
    BY <2>1 DEF Off, Differ
<1>9. /\ parted \in Bit
      /\ Parted(h, i + 1) = IF parted = 1 \/ in = 1 THEN 1 ELSE 0
  BY <1>0, PartedStep, Zenon
<1>10. /\ wait \in 0 .. 3
       /\ w1 = 0 \/ w2 = 0
       /\ w1 = 1 \/ w2 = 1 => wait = 0
       /\ Wait(bits, h, i + 1) =
            IF w1 = 1 \/ w2 = 1 THEN 3 ELSE IF wait > 0 THEN wait - 1 ELSE 0
  <2>1. /\ wait \in 0 .. 3
        /\ ~Off(bits, h, 2 * i) \/ ~Off(bits, h, 2 * i + 1)
        /\ Off(bits, h, 2 * i) \/ Off(bits, h, 2 * i + 1) => wait = 0
        /\ Wait(bits, h, i + 1) =
             IF Off(bits, h, 2 * i) \/ Off(bits, h, 2 * i + 1) THEN 3
             ELSE IF wait > 0 THEN wait - 1 ELSE 0
    BY WaitStep, Zenon
  <2>2. w1 = 0 \/ w2 = 0
    BY <1>7, <1>8, <2>1 DEF Bit
  <2> HIDE DEF w1, w2, wait
  <2> QED
    BY <1>8, <2>1, <2>2, Zenon
<1>11. Lag(P, h, i + 1) =
         Behind(in, newer, IF parted = 1 \/ in = 1 THEN 1 ELSE 0,
                IF w1 = 1 \/ w2 = 1 THEN 3 ELSE IF wait > 0 THEN wait - 1 ELSE 0)
  <2>1. /\ P[i + 1] % 2 = a /\ P[i + 1] \div 2 = s % 2
        /\ InState(h, i + 1) % 2 = b /\ InState(h, i + 1) \div 2 = t % 2
    <3>1. After(s, a) % 2 = a /\ After(s, a) \div 2 = s % 2
      BY <1>1, AfterBits, Zenon
    <3>2. After(t, b) % 2 = b /\ After(t, b) \div 2 = t % 2
      BY <1>2, AfterBits, Zenon
    <3> QED
      BY <1>1, <1>2, <3>1, <3>2, Zenon
  <2> QED
    BY <1>9, <1>10, <2>1, Zenon DEF Lag
<1>12. Lag(P, h, i) = Behind(newer, older, parted, wait)
  BY Zenon DEF Lag
<1>13. M[i][s] >= w[i] + Lag(P, h, i)
  BY Zenon DEF Lags
<1> HIDE DEF s, a, t, b, p, q, r1, r2, in, newer, older, w1, w2, parted, wait
<1>14. Lag(P, h, i + 1)
         <= Lag(P, h, i) + (Gain((in + newer + older) % 2, w1) + Gain((in + older) % 2, w2))
  <2>1. BehindGrows(newer, older, parted, wait, in, w1, w2)
    BY <1>7, <1>9, <1>10, BehindStep, Zenon
  <2> QED
    BY <1>11, <1>12, <2>1, Zenon DEF BehindGrows
<1>15. Lag(P, h, i + 1) <= Lag(P, h, i) + (Pair(bits, i, p) - Pair(bits, i, q))
  BY <1>6, <1>14, Zenon
<1>16. Lag(P, h, i) \in Int /\ Lag(P, h, i + 1) \in Int
  BY LagType DEF Lag
<1>17. M[i][s] + Pair(bits, i, p) >= (w[i] + Pair(bits, i, q)) + Lag(P, h, i + 1)
  BY <1>1, <1>3, <1>5, <1>13, <1>15, <1>16
<1> QED
  BY <1>1, <1>3, <1>17, Zenon DEF Lags

\* So after any number of pairs: were it not so, there would be a first.
LEMMA PathLags ==
  ASSUME TypeOK, NEW h \in Headers, Apart(bits, h),
         NEW w, SentCost(w, Pairs, bits, h),
         NEW M, Metrics(M, Pairs, bits, memory), NEW P, Traced(P, 0, memory, out)
  PROVE  \A i \in 0 .. Pairs : Lags(M, P, w, h, i)
<1> DEFINE Not == {i \in 0 .. Pairs : ~Lags(M, P, w, h, i)}
<1>0. Pairs \in Nat \ {0}
  BY HeaderAssumption
<1>1. SUFFICES ASSUME Not # {} PROVE FALSE
  OBVIOUS
<1>2. Not \subseteq Nat
  BY <1>0
<1>3. PICK i \in Not : \A j \in Not : ~ (<<j, i>> \in OpToRel(<, Nat))
  BY <1>1, <1>2, NatLessThanWellFounded, WFMin
<1>4. i \in 0 .. Pairs /\ ~Lags(M, P, w, h, i)
  OBVIOUS
<1>5. CASE i = 0
  <2>1. 0 \in 0 .. Pairs - 1 /\ 0 .. 0 - 1 = {}
    BY <1>0
  <2>2. Wait(bits, h, 0) = 0
    BY <2>1, WaitStep, Zenon
  <2>3. Parted(h, 0) = 0
    BY <2>1, Zenon DEF Parted
  <2>4. Lag(P, h, 0) = 0
    BY <2>2, <2>3 DEF Lag, Behind
  <2>5. w[0] = 0
    BY Zenon DEF SentCost
  <2>6. M[0][P[0]] \in Nat
    <3>1. TracedOn(M, P, 0)
      BY <2>1, TracedStep, Zenon
    <3> QED
      BY <3>1, Zenon DEF TracedOn
  <2>7. Lags(M, P, w, h, 0)
    BY <2>4, <2>5, <2>6 DEF Lags
  <2> QED
    BY <1>4, <1>5, <2>7, Zenon
<1>6. CASE i # 0
  <2> DEFINE j == i - 1
  <2>1. /\ j \in 0 .. Pairs - 1 /\ j \in 0 .. Pairs /\ j + 1 = i
        /\ j < i /\ j \in Nat /\ i \in Nat
    BY <1>0, <1>4, <1>6
  <2> HIDE DEF j
  <2>2. <<j, i>> \in OpToRel(<, Nat)
    BY <2>1 DEF OpToRel
  <2>3. j \notin Not
    <3> HIDE DEF Not
    <3> QED
      BY <1>3, <2>2, Zenon
  <2>4. Lags(M, P, w, h, j)
    BY <2>1, <2>3, Zenon
  <2>5. Lags(M, P, w, h, j + 1)
    BY <2>1, <2>4, LagStep, Zenon
  <2> QED
    BY <1>4, <2>1, <2>5, Zenon
<1> QED
  BY <1>5, <1>6

\* A path that ends in state 0 and costs no more than the station's has the
\* station's bits.
LEMMA CheapIsSent ==
  ASSUME TypeOK, NEW h \in Headers, Apart(bits, h),
         NEW w, SentCost(w, Pairs, bits, h),
         NEW M, Metrics(M, Pairs, bits, memory), NEW P, Traced(P, 0, memory, out),
         M[Pairs][0] <= w[Pairs]
  PROVE  \A k \in 0 .. Pairs - 1 : out[k] = Data(h, k)
<1>0. Pairs \in Nat /\ Pairs \in Int /\ Pairs \in 0 .. Pairs /\ Pairs >= 8 * Octets + 2
  BY HeaderAssumption, AirAssumption
<1>1. P[Pairs] = 0 /\ InState(h, Pairs) = 0
  <2>1. P[Pairs] = 0
    BY Zenon DEF Traced
  <2>2. InState(h, Pairs) = 0
    BY <1>0, StateMoves, Zenon
  <2> QED
    BY <2>1, <2>2
<1>2. M[Pairs][P[Pairs]] >= w[Pairs] + Lag(P, h, Pairs)
  <2>1. Lags(M, P, w, h, Pairs)
    BY <1>0, PathLags, Zenon
  <2> QED
    BY <2>1, Zenon DEF Lags
<1>3. M[Pairs][0] \in Nat /\ w[Pairs] \in Nat
  BY <1>0 DEF Metrics, SentCost, States
<1>4. Lag(P, h, Pairs) \in Int
  BY LagType DEF Lag
<1>5. Lag(P, h, Pairs) <= 0
  BY <1>1, <1>2, <1>3, <1>4
<1>6. Parted(h, Pairs) = 0
  <2>1. Differ(P[Pairs] % 2, InState(h, Pairs) % 2) = 0
    BY <1>1, Zenon DEF Differ
  <2>2. Differ(P[Pairs] \div 2, InState(h, Pairs) \div 2) = 0
    BY <1>1, Zenon DEF Differ
  <2>3. Parted(h, Pairs) # 0 => Lag(P, h, Pairs) = 1
    BY <2>1, <2>2 DEF Lag, Behind
  <2> QED
    BY <1>5, <2>3
<1> QED
  BY <1>6 DEF Parted

-----------------------------------------------------------------------------
\* a header on its way: of the bits received wrong ones are far apart, and
\* the station's path costs no more than these
Sent(w) ==
  /\ Apart(bits, sent)
  /\ LET m == IF stage = "fec" THEN n ELSE Pairs
     IN  SentCost(w, m, bits, sent) /\ <<InState(sent, m), w[m]>> \in costs

Packed == header = [octet \in 0 .. Octets - 1 |-> OctetOf(out, octet)]

Underway ==
  /\ sent \in Headers
  /\ stage # "new" => \E w : Sent(w)
  /\ stage = "done" => Packed

LEMMA UnderwayStep ==
  ASSUME Scattered, TypeOK, Underway, [HNext]_hvars
  PROVE  Underway'
<1>0. sent' = sent /\ sent \in Headers /\ sent' \in Headers
  BY Zenon DEF HNext, hvars, Underway
<1>1. ASSUME NEW first \in 0 .. Bits, Transmit(first) PROVE Underway'
  <2> DEFINE in == OnAir(sent, first)
             w == [i \in 0 .. Pairs |-> 0]
  <2>1. /\ stage' = "fec" /\ n' = 0 /\ costs' = NoCosts
        /\ bits' = deinterleave(scramble(in), in)
    BY <1>1, Zenon DEF Transmit, Receive, CDStarHeader
  <2>2. Apart(deinterleave(scramble(in), in), sent)
    BY <1>0, ReceivedAs, Zenon
  <2>3. Apart(bits', sent')
    BY <1>0, <2>1, <2>2, Zenon
  <2>4. w \in [0 .. Pairs -> Nat] /\ w[0] = 0 /\ 0 .. 0 - 1 = {}
    BY HeaderAssumption
  <2> HIDE DEF w
  <2>5. SentCost(w, 0, bits', sent')
    BY <2>4, Zenon DEF SentCost
  <2>6. <<InState(sent', 0), w[0]>> \in costs'
    <3>1. InState(sent, 0) \in States
      <4>1. 0 \in Int
        OBVIOUS
      <4> QED
        BY <1>0, <4>1, StateMoves, Zenon
    <3> QED
      BY <1>0, <2>1, <2>4, <3>1 DEF NoCosts
  <2>7. Sent(w)'
    BY <2>1, <2>3, <2>5, <2>6, Zenon DEF Sent
  <2>8. stage' # "done"
    BY <2>1
  <2> QED
    BY <1>0, <2>7, <2>8, Zenon DEF Underway
<1>2. CASE DecodePair /\ UNCHANGED sent
  <2>1. /\ stage = "fec" /\ stage # "new" /\ n' = n + 1 /\ bits' = bits
        /\ stage' = IF n + 1 = Pairs THEN "trace" ELSE "fec"
    BY <1>2 DEF DecodePair, viterbiDecode
  <2>2. PICK w : Sent(w)
    BY <2>1, Zenon DEF Underway
  <2>3. /\ Apart(bits, sent)
        /\ SentCost(w, n, bits, sent) /\ <<InState(sent, n), w[n]>> \in costs
    BY <2>1, <2>2, Zenon DEF Sent
  <2>4. PICK v : /\ SentCost(v, n + 1, bits, sent)
                 /\ <<InState(sent, n + 1), v[n + 1]>> \in costs'
    BY <1>0, <1>2, <2>3, SentCosts, Zenon
  <2>5. (IF stage' = "fec" THEN n' ELSE Pairs) = n + 1 /\ stage' # "done"
    BY <2>1
  <2>6. Sent(v)'
    BY <1>0, <2>1, <2>3, <2>4, <2>5, Zenon DEF Sent
  <2> QED
    BY <1>0, <2>5, <2>6, Zenon DEF Underway
<1>3. CASE (Finish \/ UNCHANGED pvars) /\ UNCHANGED sent
  <2>1. /\ bits' = bits /\ costs' = costs
        /\ stage' = "new" => stage = "new"
        /\ stage' = "fec" => stage = "fec" /\ n' = n
        /\ stage = "fec" => stage' = "fec" /\ n' = n
        /\ stage = "new" => stage' = "new"
    BY <1>3 DEF Finish, traceBack, PackOctets, pvars
  <2>2. ASSUME stage' # "new" PROVE \E w : Sent(w)'
    <3>1. PICK w : Sent(w)
      BY <2>1, <2>2, Zenon DEF Underway
    <3>2. (IF stage' = "fec" THEN n' ELSE Pairs) = (IF stage = "fec" THEN n ELSE Pairs)
      BY <2>1, Zenon
    <3>3. Sent(w)'
      BY <1>0, <2>1, <3>1, <3>2, Zenon DEF Sent
    <3> QED
      BY <3>3, Zenon
  <2>3. stage' = "done" => Packed'
    <3>1. CASE PackOctets
      BY <3>1, Zenon DEF PackOctets, Packed
    <3>2. CASE traceBack
      BY <3>2 DEF traceBack
    <3>3. CASE UNCHANGED pvars
      BY <3>3, Zenon DEF pvars, Underway, Packed
    <3> QED
      BY <1>3, <3>1, <3>2, <3>3, Zenon DEF Finish
  <2> QED
    BY <1>0, <2>2, <2>3, Zenon DEF Underway
<1>4. CASE UNCHANGED hvars
  <2>1. UNCHANGED pvars /\ UNCHANGED sent
    BY <1>4, Zenon DEF hvars, pvars
  <2> QED
    BY <1>3, <2>1, Zenon
<1> QED
  BY <1>1, <1>2, <1>3, <1>4, Zenon DEF HNext

LEMMA AirSteps ==
  ASSUME Scattered, sent \in Headers, [HNext]_hvars
  PROVE  [PNext]_pvars
<1>1. ASSUME NEW first \in 0 .. Bits, Transmit(first) PROVE PNext
  <2>1. OnAir(sent, first) \in [Places -> Bit]
    BY ReceivedAs, Zenon
  <2> QED
    BY <1>1, <2>1, Zenon DEF Transmit, PNext
<1>2. UNCHANGED hvars => UNCHANGED pvars
  BY Zenon DEF hvars, pvars
<1> QED
  BY <1>1, <1>2, Zenon DEF HNext, PNext

(***************************************************************************)
(* A header is read as the station sent it, wherever on the air a burst of *)
(* wrong bits falls that is shorter than a column of the interleaver with  *)
(* rows of nine bits or more (24 in 28 rows: a burst of 27 at most; or of  *)
(* one bit, whatever the rows): for headers of any length and contents,    *)
(* and any scrambler.                                                      *)
(***************************************************************************)
THEOREM HeaderReadHolds == ASSUME Scattered PROVE HSpec => []HeaderRead
<1> DEFINE IInv == TypeOK /\ CostsOK /\ LeastMetric /\ Remembered /\ Underway
<1>1. HInit => IInv
  <2>1. HInit => stage = "new" /\ sent \in Headers /\ PInit
    BY Zenon DEF HInit, PInit, Init
  <2>2. HInit => TypeOK /\ CostsOK /\ LeastMetric
    BY <2>1, TypeInit, LeastAtFirst DEF PInit, Init
  <2>3. HInit => Remembered /\ Underway
    BY <2>1 DEF Remembered, Underway
  <2> QED
    BY <2>2, <2>3
<1>2. IInv /\ [HNext]_hvars => IInv'
  <2> SUFFICES ASSUME IInv, [HNext]_hvars PROVE IInv'
    OBVIOUS
  <2>1. [PNext]_pvars
    BY AirSteps DEF Underway
  <2>2. TypeOK' /\ CostsOK' /\ LeastMetric' /\ Remembered'
    BY <2>1, TypeStep, LeastStep, QuietStep, RememberedStep
  <2> QED
    BY <2>2, UnderwayStep
<1>3. IInv => HeaderRead
  <2> SUFFICES ASSUME IInv, stage = "done" PROVE header = sent
    BY DEF HeaderRead
  <2>1. stage # "new" /\ stage # "fec" /\ stage \in {"trace", "pack", "done"} /\ n = 0
    BY DEF Remembered
  <2>2. PICK w : Sent(w)
    BY <2>1 DEF Underway
  <2>3. sent \in Headers /\ Packed
    BY DEF Underway
  <2>4. /\ Apart(bits, sent) /\ SentCost(w, Pairs, bits, sent)
        /\ <<InState(sent, Pairs), w[Pairs]>> \in costs
    BY <2>1, <2>2, Zenon DEF Sent
  <2>5. PICK M : Metrics(M, Pairs, bits, memory) /\ M[Pairs] = metric
    BY <2>1, Zenon DEF Remembered
  <2>6. PICK P : Traced(P, 0, memory, out)
    BY <2>1, Zenon DEF Remembered
  <2>7. InState(sent, Pairs) = 0
    <3>1. Pairs \in Int /\ Pairs >= 8 * Octets + 2
      BY HeaderAssumption, AirAssumption
    <3> QED
      BY <2>3, <3>1, StateMoves, Zenon
  <2>8. M[Pairs][0] <= w[Pairs]
    <3>1. \A p \in costs : p[1] = 0 => metric[0] <= p[2]
      BY DEF LeastMetric, States
    <3> QED
      BY <2>4, <2>5, <2>7, <3>1
  <2>9. \A k \in 0 .. Pairs - 1 : out[k] = Data(sent, k)
    BY <2>3, <2>4, <2>5, <2>6, <2>8, CheapIsSent, Zenon
  <2>10. \A octet \in 0 .. Octets - 1 : OctetOf(out, octet) = sent[octet]
    BY <2>3, <2>9, OctetRead, Zenon
  <2>11. sent = [octet \in 0 .. Octets - 1 |-> sent[octet]]
    BY <2>3, AirAssumption
  <2> QED
    BY <2>3, <2>10, <2>11, Zenon DEF Packed
<1> QED
  BY <1>1, <1>2, <1>3, PTL DEF HSpec
=============================================================================
