------------------------------ MODULE MCListing ------------------------------
(* Instances of LimitStore and Listing for TLC.  A tuple is a pair of its  *)
(* service and a number.  alice may edit every service, bob none.          *)
EXTENDS Listing, TLC

CONSTANTS alice, bob

MCKeys == {<<1, 1>>, <<1, 2>>, <<2, 1>>}
MCServiceOf == [k \in Keys |-> k[1]]
MCEditors == [s \in Services |-> {alice}]

(* No action reads an answer that was given. *)
WithoutReplies == <<services, limits, audit, call, sequences, begun, listing>>

Symmetry == Permutations(Calls)
=============================================================================
