------------------------- MODULE MCSlowDataStation -------------------------
(***************************************************************************)
(* Fragments of three characters, a header of three fragments and one      *)
(* character, a message of three fragments; every character another one.   *)
(***************************************************************************)
EXTENDS SlowDataStation

MCStationHeader == <<"F", "R", "P", " ", "T", "U", "R", " ", "M", "C">>
MCStationMessage == <<"h", "e", "l", " ", "o", "w", "o", "r", "d">>
MCTextChars == {MCStationHeader[i] : i \in DOMAIN MCStationHeader}
                 \cup {MCStationMessage[i] : i \in DOMAIN MCStationMessage}
MCOther == MCTextChars \ {Blank}
MCRadioHeaders == {InMemory(MCStationHeader)}
MCMixes == {[keys |-> {4, 5}, chars |-> MCTextChars]}
=============================================================================
