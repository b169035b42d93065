------------------------------ MODULE MCRelock ------------------------------
(***************************************************************************)
(* Three words of three bits: a frame has nine.  In the order of arrival   *)
(* the header sync is 010101000, the data sync 110, the terminal sync      *)
(* 1111.  The station's frames, in any order, have none of them but the    *)
(* data sync where it belongs.                                             *)
(***************************************************************************)
EXTENDS Relock

MCHeadSync == [j \in 0 .. 2 |-> [b \in 0 .. 2 |-> IF <<j, b>> \in {<<2, 1>>, <<1, 2>>, <<1, 0>>} THEN 1 ELSE 0]]
MCDataSync == [b \in 0 .. 2 |-> IF b = 0 THEN 0 ELSE 1]
MCTermHigh == [b \in 0 .. 0 |-> 1]
MCTermLow == [b \in 0 .. 2 |-> 1]

MCSyncFrames == {<<0, 1, 0, 0, 0, 0, 1, 1, 0>>, <<1, 0, 0, 0, 1, 0, 1, 1, 0>>}
MCPlainFrames == {<<0, 1, 0, 0, 1, 0, 0, 1, 0>>, <<0, 0, 0, 0, 0, 0, 0, 0, 0>>}
=============================================================================
