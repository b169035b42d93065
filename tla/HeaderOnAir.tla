----------------------------- MODULE HeaderOnAir -----------------------------
(***************************************************************************)
(* A header from a station to CDStarHeader, with a burst of wrong bits on  *)
(* the air.  The station is no part of the repository: it does what        *)
(* lib/DStarHeader.cc undoes, in closed forms that share nothing with the  *)
(* decoder's loops and tables but the scrambler's bits.                    *)
(***************************************************************************)
EXTENDS HeaderPaths

CONSTANTS
  Headers,   \* what stations send: functions from 0 .. Octets - 1 to octets
  Burst      \* bits of a burst of errors

\* two zeros after the octets bring the encoder back to state 0
ASSUME AirAssumption ==
  /\ Headers \subseteq [0 .. Octets - 1 -> 0 .. 255]
  /\ Burst \in Nat
  /\ 8 * Octets + 2 <= Pairs

VARIABLE sent   \* the station's header

hvars == <<stage, n, bits, metric, memory, state, out, header, costs, sent>>

\* bit i of the station's header; zeros before and after it
Data(h, i) == IF i \in 0 .. 8 * Octets - 1
              THEN (h[i \div 8] \div (2 ^ (i % 8))) % 2 ELSE 0

\* the code bit with number k
Code(h, k) ==
  LET i == k \div 2
  IN  Sends(2 * Data(h, i - 2) + Data(h, i - 1), Data(h, i))[(k % 2) + 1]

(***************************************************************************)
(* The interleaver: code bits in rows of step, sent column by column; the  *)
(* last row may not be full.                                               *)
(***************************************************************************)
Shorter(size, step, column) ==
  LET long == step - (High(size, step) - size)
  IN  IF column > long THEN column - long ELSE 0
AirPlace(size, step, k) ==
  LET rows == High(size, step) \div step
      column == k % step
  IN  (rows * column - Shorter(size, step, column)) + (k \div step)

\* the header h on the air, with the errors that begin at place first
OnAir(h, first) ==
  [loop \in Places |->
     LET k == CHOOSE k \in Places : AirPlace(Bits, Step, k) = loop
         wrong == IF loop \in first .. first + Burst - 1 THEN 1 ELSE 0
     IN  (Code(h, k) + Scrambler[loop] + wrong) % 2]

\* the interleaver takes a burst apart that is shorter than a column of it:
\* in the code its bits are a row apart, less one at most
Scattered == Burst <= 1 \/ (Step > 8 /\ Burst < High(Bits, Step) \div Step)

HInit == PInit /\ sent \in Headers

\* the station's header comes in; a burst that begins at Bits is none
Transmit(first) == Receive(OnAir(sent, first))

HNext ==
  /\ \/ \E first \in 0 .. Bits : Transmit(first)
     \/ DecodePair
     \/ Finish
  /\ UNCHANGED sent

HSpec == HInit /\ [][HNext]_hvars

(***************************************************************************)
(* The header is read as it was sent, wherever on the air a burst of Burst *)
(* wrong bits falls: the deinterleaver takes the burst apart into single   *)
(* errors, and the decoder corrects these (the constructor as a whole).    *)
(***************************************************************************)
HeaderRead == stage = "done" => header = sent
=============================================================================
