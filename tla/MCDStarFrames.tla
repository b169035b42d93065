---------------------------- MODULE MCDStarFrames ----------------------------
(***************************************************************************)
(* Three words of two bits, so that a frame and a call of Process have six *)
(* bits, and patterns of that size with what matters of the real ones: the *)
(* header sync contains neither of the others, and no suffix of a pattern  *)
(* completes what a header sync leaves in the register.                    *)
(***************************************************************************)
EXTENDS DStarFrames, DStarVoice

\* in the order of arrival: header sync 010000, data sync 11, terminal sync 101
MCHeadSync == [j \in 0 .. 2 |-> [b \in 0 .. 1 |-> IF j = 2 /\ b = 0 THEN 1 ELSE 0]]
MCDataSync == [b \in 0 .. 1 |-> 1]
MCTermHigh == [b \in 0 .. 0 |-> 1]
MCTermLow == [b \in 0 .. 1 |-> 1 - b]
=============================================================================
