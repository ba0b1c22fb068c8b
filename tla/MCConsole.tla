----------------------------- MODULE MCConsole -----------------------------
(* Instances of Console for TLC. *)
EXTENDS Console, TLC

CONSTANTS star, acme

Op(kind, key, arg, flag) == [kind |-> kind, key |-> key, arg |-> arg, flag |-> flag]

(* Changes of the default's row, which are reviewed or not as they may be. *)
ConfigRequests ==
    {Op("create", star, 1, FALSE), Op("update", star, 2, FALSE),
     Op("delete", star, 1, TRUE), Op("update", acme, 1, TRUE)}

(* A refund that needs no review, one that does, and a reset. *)
CounterRequests ==
    {Op("refund", acme, 1, FALSE), Op("refund", acme, 2, FALSE),
     Op("reset", acme, 1, FALSE)}

(* Both at once, on the default: rival changes, a refund and a reset. *)
MixedRequests ==
    {Op("create", star, 1, FALSE), Op("update", star, 2, FALSE), Op("delete", star, 1, TRUE),
     Op("refund", star, 1, FALSE), Op("refund", star, 2, FALSE), Op("reset", star, 1, FALSE)}

Symmetry == Permutations(Handlers) \cup Permutations(Operators)
============================================================================
