------------------------------ MODULE MCDV3000U ------------------------------
(***************************************************************************)
(* Bytes from 0 to 6 and an answer of seven bytes after the header, so     *)
(* that its length takes both bytes of payload_length.  Some of the frames *)
(* have in them what looks like the start of an answer: to a reset, to a   *)
(* frame, and one that is too long.                                        *)
(***************************************************************************)
EXTENDS DV3000UCalls

MCFieldOf == [q \in Asked |-> CASE q = "reset" -> 5 [] q = "prodid" -> 4
                                [] q = "verstring" -> 3 [] q = "ratep" -> 2]
MCTextOf == [q \in Asked |-> CASE q = "reset" -> <<>> [] q = "prodid" -> <<1>>
                               [] q = "verstring" -> <<1, 6>> [] q = "ratep" -> <<0>>]
MCFrames == {<<1, 2, 3, 4, 5>>, <<6, 0, 1, 0, 5>>, <<6, 1, 0, 2, 0>>,
             <<6, 1, 1, 2, 0>>}
=============================================================================
