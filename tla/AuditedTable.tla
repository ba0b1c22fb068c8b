----------------------------- MODULE AuditedTable -----------------------------
(***************************************************************************)
(* What the control plane promises about limit_config: a table whose rows  *)
(* change one at a time, each change together with the audit entry that    *)
(* tells it.  Handlers, transactions, row locks, sequences, rollbacks and  *)
(* lost connections do not appear here; LimitStore shows that they         *)
(* implement this.                                                         *)
(***************************************************************************)
EXTENDS Integers

CONSTANTS
    Services,   \* service names
    Keys,       \* the tuples that rows are for
    ServiceOf,  \* the service of a tuple
    Values,     \* contents of a row
    Editors,    \* Editors[s]: who may edit the limits of s
    NoRow       \* what a tuple without a row has

VARIABLES
    services,   \* the registered services
    rows,       \* rows[k]: the row of tuple k, or NoRow
    trail       \* the audit entries

tableVars == <<services, rows, trail>>

TableInit ==
    /\ services = {}
    /\ rows = [k \in Keys |-> NoRow]
    /\ trail = {}

Enroll(s) ==
    /\ services' = services \cup {s}
    /\ UNCHANGED <<rows, trail>>

(* An entry has a number of its own, after those of its tuple's history,   *)
(* and is the only one of the request that it answers.                     *)
Follows(e) ==
    \A f \in trail :
       /\ f.id # e.id /\ f.at # e.at
       /\ f.key = e.key => f.id < e.id

(* The row begins a life under an id that no row ever had, goes on with    *)
(* the id that it has, or ends.                                            *)
Inserts(e) ==
    /\ e.op = "INSERT" /\ e.old = NoRow
    /\ \A f \in trail : f.config # e.config
    /\ e.new.id = e.config /\ e.new.value \in Values

Updates(e) ==
    /\ e.op = "UPDATE" /\ e.old # NoRow /\ e.old.id = e.config
    /\ e.new.id = e.config /\ e.new.value \in Values

Deletes(e) ==
    /\ e.op = "DELETE" /\ e.old # NoRow /\ e.old.id = e.config
    /\ e.new = NoRow

(* One row changes, from what it is, by someone who may edit it. *)
Change(e) ==
    /\ ServiceOf[e.key] \in services /\ e.by \in Editors[ServiceOf[e.key]]
    /\ Follows(e)
    /\ e.old = rows[e.key]
    /\ Inserts(e) \/ Updates(e) \/ Deletes(e)
    /\ rows' = [rows EXCEPT ![e.key] = e.new]
    /\ trail' = trail \cup {e}
    /\ UNCHANGED services

TableNext ==
    \/ \E s \in Services : Enroll(s)
    \/ \E e \in trail' \ trail : Change(e)

TableSpec == TableInit /\ [][TableNext]_tableVars
===============================================================================
