---------------------------- MODULE MCFlowgraphs ----------------------------
(***************************************************************************)
(* A sync in every third frame, four frames, a ring of four slots, and two *)
(* descriptors, so that one of them can be opened again at once.           *)
(***************************************************************************)
EXTENDS Flowgraphs
=============================================================================
