--------------------------- MODULE MCMessageTrees ---------------------------
(* Instances of MessageTrees for TLC. *)
EXTENDS MessageTrees

\* Prompts are interchangeable; safety runs only.
Symmetry == Permutations(Prompts)
=============================================================================
