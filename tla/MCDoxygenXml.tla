---------------------------- MODULE MCDoxygenXml ----------------------------
(***************************************************************************)
(* Every class as the outermost element, with few nodes; the classes of    *)
(* descriptions, where nesting matters, with one more.                     *)
(***************************************************************************)
EXTENDS DoxygenXml

CONSTANT Nodes

MCRoots == [cls \in DOMAIN Types |-> IF cls \in DOMAIN Places THEN Nodes + 1 ELSE Nodes]
=============================================================================
