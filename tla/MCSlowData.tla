----------------------------- MODULE MCSlowData -----------------------------
(***************************************************************************)
(* Fragments of two characters, one in each half; a header of two full     *)
(* fragments and one character, a message of two fragments; frames 0 to 2. *)
(***************************************************************************)
EXTENDS SlowData

MCOther == {"a", "tab"}
MCSpaces == {"tab"}
MCRadioHeaders == {[i \in 0 .. 4 |-> IF i \in blanks THEN Blank ELSE "a"] : blanks \in SUBSET (0 .. 4)}
MCTextCharsAll == {NUL, Blank, "tab", "a"}
MCTextChars == {Blank, "a"}

\* texts, of blanks and of other white space; headers, messages and fragments of
\* unknown keys; texts and messages of blanks and of other white space
MCMixes ==
  {[keys |-> {3}, chars |-> {NUL, Blank, "a"}], [keys |-> {3}, chars |-> {"tab", "a"}],
   [keys |-> {4, 5, 6}, chars |-> MCTextChars],
   [keys |-> {3, 4}, chars |-> {Blank}], [keys |-> {3, 4}, chars |-> {"tab"}]}
\* texts without NULs
MCTextMix == {[keys |-> {3}, chars |-> MCTextChars]}
=============================================================================
