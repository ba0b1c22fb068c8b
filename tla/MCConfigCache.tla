--------------------------- MODULE MCConfigCache ---------------------------
(* Instances of ConfigCache for TLC: tasks and caps are interchangeable.   *)
EXTENDS ConfigCache, TLC

Symmetry == Permutations(Tasks) \cup Permutations(Caps)
============================================================================
