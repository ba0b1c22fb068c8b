---------------------------- MODULE MCEnforcer ----------------------------
(* An instance of Enforcer for TLC. *)
EXTENDS Enforcer, TLC

(* Windows of different lengths, as calendar months have, and a cap that   *)
(* may be reconfigured from one unit to the other between two calls.  The  *)
(* first minute closes at once: its key can be created, outlive it and be  *)
(* reclaimed within the bound on the clock.                                *)
MCBoundaries == [minute |-> {1, 6}, day |-> {6}]
MCJitter == [minute |-> 1, day |-> 0]
MCCaps == {[limit |-> 1, unit |-> "minute"], [limit |-> 0, unit |-> "day"]}

(* The producers are interchangeable. *)
Symmetry == Permutations(Producers)
===========================================================================
