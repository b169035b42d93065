------------------------- MODULE MCSlowDataConsole -------------------------
(* The sizes of MCSlowData, with the history of the console.               *)
EXTENDS MCSlowData, SlowDataConsole
=============================================================================
