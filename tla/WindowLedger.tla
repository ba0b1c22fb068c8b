--------------------------- MODULE WindowLedger ---------------------------
(***************************************************************************)
(* What the data plane promises about one limit, a (service, customer,     *)
(* rate limit id) tuple: one balance of consumed quota per fixed window.   *)
(* A charge is added, a refund is taken off and floored at zero, and no    *)
(* balance is ever forgotten before its window has been closed for Pad     *)
(* ticks.  TTLs, keys, replicas, clocks and calls in flight do not appear  *)
(* here; Enforcer shows that they implement this.                          *)
(***************************************************************************)
EXTENDS Integers

CONSTANTS
    Windows,    \* every fixed window, a record with its closing time "reset"
    MaxAmount,  \* largest cost or refund of one call
    Pad         \* ticks for which a closed window still counts late calls

VARIABLES clock, balance, lost  \* lost: how often the shard lost its data

ledgerVars == <<clock, balance, lost>>

Floor(x) == IF x < 0 THEN 0 ELSE x

Closed(w, t) == w.reset + Pad < t

LedgerInit ==
    /\ clock = 0
    /\ balance = [w \in Windows |-> 0]
    /\ lost = 0

(* Charge always applies, over quota or not. *)
Add(w, amount) ==
    /\ balance' = [balance EXCEPT ![w] = @ + amount]
    /\ UNCHANGED <<clock, lost>>

Credit(w, amount) ==
    /\ balance' = [balance EXCEPT ![w] = Floor(@ - amount)]
    /\ UNCHANGED <<clock, lost>>

(* Time passes, and any set of closed windows is reclaimed. *)
Pass ==
    /\ clock' = clock + 1
    /\ \E gone \in SUBSET {w \in Windows : Closed(w, clock + 1)} :
          balance' = [w \in Windows |-> IF w \in gone THEN 0 ELSE balance[w]]
    /\ UNCHANGED lost

(* The counter shard is lost: quota resets, nothing else happens. *)
Lose ==
    /\ balance' = [w \in Windows |-> 0]
    /\ lost' = lost + 1
    /\ UNCHANGED clock

LedgerNext ==
    \/ \E w \in Windows, a \in 0 .. MaxAmount : Add(w, a) \/ Credit(w, a)
    \/ Pass
    \/ Lose

LedgerSpec == LedgerInit /\ [][LedgerNext]_ledgerVars
===========================================================================
