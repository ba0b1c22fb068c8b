---------------------------- MODULE MCLimitStore ----------------------------
(* Instances of LimitStore for TLC.  A tuple is a pair of its service and  *)
(* a number.  Two principals may edit, a third may not.                    *)
EXTENDS LimitStore, TLC

CONSTANTS alice, bob, carol

OneKey == {<<1, 1>>}
MCServiceOf == [k \in Keys |-> k[1]]
MCEditors == [s \in Services |-> {alice, bob} \cap Actors]

Symmetry == Permutations(Calls) \cup Permutations({alice, bob} \cap Actors)
=============================================================================
