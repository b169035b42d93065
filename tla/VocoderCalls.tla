----------------------------- MODULE VocoderCalls -----------------------------
(***************************************************************************)
(* What CDV3000U promises to the blocks that call it (lib/DV3000U.h, read  *)
(* without its line and its bytes): a device is opened before it is called, *)
(* a call brings what the vocoder has made of this very frame, or is the   *)
(* last one, and after a failure nothing helps but to start again.         *)
(* DV3000UCalls shows that DV3000U implements it.                          *)
(***************************************************************************)
CONSTANTS
  Results,   \* what the vocoder may make of a frame
  None       \* nothing

VARIABLES
  call,      \* "closed", "opening", "ready", "busy" or "failed"
  made,      \* what the vocoder makes of the frame of this call, or None
  result     \* what the caller has of it

vars == <<call, made, result>>

Init ==
  /\ call = "closed"
  /\ made = None
  /\ result = None

Open ==
  /\ call = "closed"
  /\ call' = "opening"
  /\ UNCHANGED <<made, result>>

Opened ==
  /\ call = "opening"
  /\ call' = "ready"
  /\ UNCHANGED <<made, result>>

\* a frame goes to the vocoder, which answers or does not
Begin ==
  /\ call = "ready"
  /\ call' = "busy"
  /\ made' \in Results \cup {None}
  /\ result' = None

Return ==
  /\ call = "busy"
  /\ made # None
  /\ call' = "ready"
  /\ result' = made
  /\ made' = None

Fail ==
  /\ call' = "failed"
  /\ made' = None
  /\ result' = None

Close ==
  /\ call' = "closed"
  /\ made' = None
  /\ result' = None

Next ==
  \/ Open \/ Opened \/ Begin \/ Return
  \/ call # "failed" /\ Fail
  \/ call # "closed" /\ Close

Spec == Init /\ [][Next]_vars
=============================================================================
