---------------------------- MODULE HeaderPaths ----------------------------
(***************************************************************************)
(* CDStarHeader with any bits, and beside it the encoder whose code its    *)
(* Viterbi decoder undoes.  The encoder is no part of the repository; it   *)
(* is a shift register that shares nothing with the decoder's table.       *)
(*                                                                         *)
(* costs is a history: for every path through the trellis, wherever it     *)
(* begins, the state in which it ends and in how many bits it differs from *)
(* those received so far.                                                  *)
(***************************************************************************)
EXTENDS DStarHeader, FiniteSets

VARIABLE costs

pvars == <<stage, n, bits, metric, memory, state, out, header, costs>>

(***************************************************************************)
(* The encoder's state is the last two bits: the newer one counts 1, the   *)
(* older one 2.                                                            *)
(***************************************************************************)
After(s, in) == (2 * s + in) % 4
Sends(s, in) == <<(in + s + (s \div 2)) % 2, (in + (s \div 2)) % 2>>

\* how many bits of the pair at hand are not those of pair
Wrong(pair) == Xor(bits[2 * n], pair[1]) + Xor(bits[2 * n + 1], pair[2])

NoCosts == States \X {0}

PInit == Init /\ costs = NoCosts

\* a header comes in
Receive(in) == CDStarHeader(in) /\ costs' = NoCosts

DecodePair ==
  /\ viterbiDecode
  /\ costs' = {<<After(p[1], in), p[2] + Wrong(Sends(p[1], in))>> :
                 p \in costs, in \in Bit}

Finish == (traceBack \/ PackOctets) /\ UNCHANGED costs

PNext ==
  \/ \E in \in [Places -> Bit] : Receive(in)
  \/ DecodePair
  \/ Finish

PSpec == PInit /\ [][PNext]_pvars

(***************************************************************************)
(* m_pathMetric[s] is the least number of wrong bits on any path of the    *)
(* encoder that ends in s (viterbiDecode: the four comparisons, the eight  *)
(* metrics and the states before each state all have to be right).         *)
(***************************************************************************)
LeastMetric ==
  \A s \in States :
    /\ <<s, metric[s]>> \in costs
    /\ \A p \in costs : p[1] = s => metric[s] <= p[2]

\* the code of out, encoded from state s on: a pair for each bit
Encoded(s) ==
  LET before(i) == IF i >= 0 THEN out[i] ELSE IF i = -1 THEN s % 2 ELSE s \div 2
  IN  [k \in 0 .. Pairs - 1 |-> Sends(2 * before(k - 2) + before(k - 1), out[k])]

\* in how many bits it is not what was received
Distance(s) ==
  Cardinality({k \in Places : bits[k] # Encoded(s)[k \div 2][(k % 2) + 1]})

(***************************************************************************)
(* What traceBack reads out of the path memories is the input of a path    *)
(* that ends in state 0 and differs from the bits received in just as many *)
(* bits as m_pathMetric[0] says, so in as few as any: memory and metric    *)
(* tell of the same path.                                                  *)
(***************************************************************************)
TracedIsNearest ==
  stage \in {"pack", "done"} =>
    /\ \E s \in States : Distance(s) = metric[0]
    /\ out[Pairs - 1] = 0
    /\ Pairs > 1 => out[Pairs - 2] = 0
=============================================================================
