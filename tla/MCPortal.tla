------------------------------ MODULE MCPortal ------------------------------
(* An instance of Portal for TLC: two people whose grants are chosen, and  *)
(* a name that the grant store does not have.                              *)
EXTENDS Portal, TLC

CONSTANTS ann, ben, nobody, search

Viewer == {[role |-> "viewer", service |-> AnyService]}
Editor == {[role |-> "service-editor", service |-> search]}
Operator == {[role |-> "operator", service |-> AnyService]}
MCGrantSets == {Viewer, Editor, Operator}

Symmetry ==
    Permutations(Slots) \cup Permutations(Tabs) \cup Permutations(Titles)
       \cup Permutations({ann, ben})
=============================================================================
