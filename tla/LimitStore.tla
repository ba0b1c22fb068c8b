----------------------------- MODULE LimitStore -----------------------------
(***************************************************************************)
(* The write path of the control plane: the create, update and delete      *)
(* handlers of quotamgmt over Postgres, with the trigger that keeps the    *)
(* audit trail.  A handler runs one transaction: the actor is set (Begin), *)
(* one statement writes the row and its audit entry (Statement), and the   *)
(* transaction commits or not (Commit, Disconnect).                        *)
(*                                                                         *)
(* Isolation is READ COMMITTED, the default: a statement sees what is      *)
(* committed when it starts, and waits for another transaction's           *)
(* uncommitted change to a row it has found.  limits and audit are what is *)
(* committed; uncommitted changes are in call.  A sequence number is gone  *)
(* once it is drawn, even if the transaction rolls back.                   *)
(***************************************************************************)
EXTENDS Integers, FiniteSets

CONSTANTS
    Calls,      \* handlers that may run at once
    Services,   \* service names
    Keys,       \* (service, customer, rate limit id) tuples
    ServiceOf,  \* the service of a tuple
    Values,     \* (limit_value, time_unit) pairs
    Actors,     \* principals
    Editors,    \* Editors[s]: who may edit the limits of s
    MaxCalls    \* bound on the number of requests

ASSUME KeyAssumption == ServiceOf \in [Keys -> Services]
ASSUME EditorAssumption == Editors \in [Services -> SUBSET Actors]
ASSUME CallAssumption == MaxCalls \in Nat

VARIABLES
    services,   \* the registered services
    limits,     \* limits[k]: the row of tuple k in limit_config, or NoRow
    audit,      \* the rows of limit_config_audit
    call,       \* call[c]: the transaction that c has open
    reply,      \* reply[c]: the last request c answered, and its status
    nextId, nextAudit,  \* the identity sequences of the two tables
    begun       \* requests so far; numbers them, and orders their now()

vars == <<services, limits, audit, call, reply, nextId, nextAudit, begun>>
sequences == <<nextId, nextAudit>>

NoRow == [id |-> 0]
NoEntry == [id |-> 0]
NoReply == [status |-> "none"]
Idle == [pc |-> "idle"]

Row == [id : Nat \ {0}, value : Values]

(* flag is create_if_absent of an update, allow_missing of a delete. *)
Request ==
    [op : {"create", "update", "delete"}, key : Keys, value : Values,
     flag : BOOLEAN, by : Actors, at : 1 .. MaxCalls]

(* The requests a caller may send at n; a delete's value means nothing. *)
Sent(n) ==
    {r \in Request :
        /\ r.at = n
        /\ r.op = "create" => ~r.flag
        /\ r.op = "delete" => r.value = CHOOSE v \in Values : TRUE}

Pending(c) == call[c].pc = "wrote" /\ call[c].entry # NoEntry

Inserts(r) == r.op = "create" \/ (r.op = "update" /\ r.flag)
---------------------------------------------------------------------------
(* Faults, never part of Spec, each before the definition it would spoil:  *)
(* no row locks, locks taken before the write, a write that does not mind  *)
(* a missing row, an upsert that deletes and inserts, a trigger that takes *)
(* the id from OLD.                                                        *)
NoRowLocks(k) == FALSE

LockedFromBegin(k) ==
    Cardinality({c \in Calls : call[c] # Idle /\ call[c].req.key = k}) > 1

(* A transaction's change to k is not committed yet. *)
Locked(k) == \E c \in Calls : Pending(c) /\ call[c].entry.key = k

(* An INSERT meets an uncommitted change in the unique index; an UPDATE or *)
(* DELETE only waits for a row that it can see.                            *)
Waits(r) == Locked(r.key) /\ (Inserts(r) \/ limits[r.key] # NoRow)

NeverMissing(r) ==
    IF Inserts(r)
    THEN IF ServiceOf[r.key] \notin services THEN "FAILED_PRECONDITION"
         ELSE IF r.op = "create" /\ limits[r.key] # NoRow THEN "ALREADY_EXISTS" ELSE "OK"
    ELSE "OK"

(* What the statement of r comes to, when it does not wait. *)
Outcome(r) ==
    IF Inserts(r)
    THEN IF ServiceOf[r.key] \notin services THEN "FAILED_PRECONDITION"
         ELSE IF r.op = "create" /\ limits[r.key] # NoRow THEN "ALREADY_EXISTS" ELSE "OK"
    ELSE IF ~r.flag /\ limits[r.key] = NoRow THEN "NOT_FOUND" ELSE "OK"

ReplacedRow(r) ==
    IF r.op = "delete" THEN NoRow ELSE [id |-> nextId, value |-> r.value]

NewRow(r) ==
    IF r.op = "delete" THEN NoRow
    ELSE [id |-> IF limits[r.key] = NoRow THEN nextId ELSE limits[r.key].id,
          value |-> r.value]

AuditedFromOld(r) ==
    [id |-> nextAudit, key |-> r.key, config |-> limits[r.key].id, op |-> "UPDATE",
     old |-> limits[r.key], new |-> NewRow(r), by |-> r.by, at |-> r.at]

(* limit_config_audit_write, fired by a statement that affected a row. *)
Audited(r) ==
    LET old == limits[r.key] IN
    [id     |-> nextAudit,
     key    |-> r.key,
     config |-> IF r.op = "delete" THEN old.id ELSE NewRow(r).id,
     op     |-> IF r.op = "delete" THEN "DELETE"
                ELSE IF old = NoRow THEN "INSERT" ELSE "UPDATE",
     old |-> old, new |-> NewRow(r), by |-> r.by, at |-> r.at]

(* A delete with allow_missing of an absent row affects none. *)
Affects(r) == r.op # "delete" \/ limits[r.key] # NoRow
---------------------------------------------------------------------------
Init ==
    /\ services = {}
    /\ limits = [k \in Keys |-> NoRow]
    /\ audit = {}
    /\ call = [c \in Calls |-> Idle]
    /\ reply = [c \in Calls |-> NoReply]
    /\ nextId = 1 /\ nextAudit = 1 /\ begun = 0

(* registerService commits on its own; a taken name is ALREADY_EXISTS. *)
Register(s) ==
    /\ s \notin services
    /\ services' = services \cup {s}
    /\ UNCHANGED <<limits, audit, call, reply, sequences, begun>>

Answer(c, r, status) ==
    /\ reply' = [reply EXCEPT ![c] = [req |-> r, status |-> status]]
    /\ call' = [call EXCEPT ![c] = Idle]

(* The handler up to its statement: principal, validation, editor check,   *)
(* and a transaction with the actor set.                                   *)
Begin(c) ==
    /\ call[c] = Idle /\ begun < MaxCalls
    /\ begun' = begun + 1
    /\ \E r \in Sent(begun + 1) :
          IF r.by \in Editors[ServiceOf[r.key]]
          THEN call' = [call EXCEPT ![c] = [pc |-> "open", req |-> r]] /\ UNCHANGED reply
          ELSE Answer(c, r, "PERMISSION_DENIED")
    /\ UNCHANGED <<services, limits, audit, sequences>>

(* An insert draws an id whether or not it finds a conflict.  A statement  *)
(* that fails has written nothing, and the handler rolls back.             *)
Statement(c) ==
    LET r == call[c].req IN
    /\ call[c].pc = "open"
    /\ ~Waits(r)
    /\ nextId' = IF Inserts(r) THEN nextId + 1 ELSE nextId
    /\ IF Outcome(r) # "OK"
       THEN Answer(c, r, Outcome(r)) /\ UNCHANGED nextAudit
       ELSE /\ call' = [call EXCEPT ![c] = [pc |-> "wrote", req |-> r,
                          entry |-> IF Affects(r) THEN Audited(r) ELSE NoEntry]]
            /\ nextAudit' = IF Affects(r) THEN nextAudit + 1 ELSE nextAudit
            /\ UNCHANGED reply
    /\ UNCHANGED <<services, limits, audit, begun>>

(* SqlErrors: a connection exception is UNAVAILABLE, an exception of a     *)
(* state it does not know, or of none, is INTERNAL.                        *)
DatabaseErrors == {"UNAVAILABLE", "INTERNAL"}

(* The commit makes the row and its audit entry visible together; its      *)
(* acknowledgement may be lost.                                            *)
Commit(c) ==
    LET e == call[c].entry IN
    /\ call[c].pc = "wrote"
    /\ IF e = NoEntry
       THEN UNCHANGED <<limits, audit>>
       ELSE /\ limits' = [limits EXCEPT ![e.key] = e.new]
            /\ audit' = audit \cup {e}
    /\ \E status \in {"OK"} \cup DatabaseErrors : Answer(c, call[c].req, status)
    /\ UNCHANGED <<services, sequences, begun>>

(* The connection or the process is lost, and Postgres rolls back. *)
Disconnect(c) ==
    /\ call[c] # Idle
    /\ \E status \in DatabaseErrors : Answer(c, call[c].req, status)
    /\ UNCHANGED <<services, limits, audit, sequences, begun>>

Handle(c) == Begin(c) \/ Statement(c) \/ Commit(c) \/ Disconnect(c)

Next == (\E s \in Services : Register(s)) \/ (\E c \in Calls : Handle(c))

Spec == Init /\ [][Next]_vars

(* Postgres runs a statement that need not wait, and handlers go on to     *)
(* commit; nobody has to send a request or to lose a connection.           *)
FairSpec ==
    /\ Spec
    /\ \A c \in Calls : WF_vars(Statement(c)) /\ WF_vars(Commit(c))
---------------------------------------------------------------------------
Entry ==
    [id : Nat \ {0}, key : Keys, config : Nat \ {0},
     op : {"INSERT", "UPDATE", "DELETE"}, old : Row \cup {NoRow},
     new : Row \cup {NoRow}, by : Actors, at : 1 .. MaxCalls]

Statuses ==
    {"OK", "PERMISSION_DENIED", "FAILED_PRECONDITION", "ALREADY_EXISTS",
     "NOT_FOUND"} \cup DatabaseErrors

TypeOK ==
    /\ services \subseteq Services
    /\ limits \in [Keys -> Row \cup {NoRow}]
    /\ audit \subseteq Entry
    /\ call \in [Calls -> {Idle} \cup [pc : {"open"}, req : Request]
          \cup [pc : {"wrote"}, req : Request, entry : Entry \cup {NoEntry}]]
    /\ reply \in [Calls -> {NoReply} \cup [req : Request, status : Statuses]]
    /\ nextId \in Nat \ {0} /\ nextAudit \in Nat \ {0}
    /\ begun \in 0 .. MaxCalls

History(k) == {e \in audit : e.key = k}

(* e is the first entry of history H, or the last; f comes right before e. *)
First(H, e) == \A f \in H : f.id >= e.id
Last(H, e) == \A f \in H : f.id <= e.id
Adjacent(H, f, e) == f.id < e.id /\ \A g \in H : g.id <= f.id \/ g.id >= e.id

(* The audit trail is complete and in order: replaying the entries of a    *)
(* tuple by audit_id, as ListAuditEntries shows them, every entry starts   *)
(* from the row the one before it left, and the last one leaves the row    *)
(* that limit_config has.  It holds although audit ids are drawn before    *)
(* commit and transactions roll back.                                      *)
AuditExplainsTable ==
    \A k \in Keys :
       /\ History(k) = {} => limits[k] = NoRow
       /\ \A e \in History(k) :
             /\ First(History(k), e) => e.old = NoRow
             /\ Last(History(k), e) => e.new = limits[k]
             /\ \A f \in History(k) : Adjacent(History(k), f, e) => e.old = f.new

(* What a caller is told agrees with the trail: a request that succeeded   *)
(* has one entry, under its principal and with its value, unless it was    *)
(* a delete that allowed a missing row; one that failed has none; only the *)
(* two statuses of a database error leave it open.                         *)
RepliesMatchAudit ==
    \A c \in Calls : reply[c] # NoReply =>
       LET r == reply[c].req
           mine == {e \in audit : e.at = r.at}
       IN /\ reply[c].status = "OK" /\ ~(r.op = "delete" /\ r.flag) => mine # {}
          /\ reply[c].status \notin {"OK"} \cup DatabaseErrors => mine = {}
          /\ \A e \in mine :
                /\ mine = {e} /\ e.key = r.key /\ e.by = r.by
                /\ IF r.op = "delete" THEN e.new = NoRow ELSE e.new.value = r.value

(* A config id belongs to one tuple for ever and to one life of its row:   *)
(* it is inserted once, no update changes it, and a tuple that is deleted  *)
(* and created again gets another.                                         *)
ConfigIdHasOneLife ==
    \A e \in audit :
       /\ e.op = "UPDATE" => e.old.id = e.config /\ e.new.id = e.config
       /\ \A f \in audit : e.config = f.config =>
             /\ e.key = f.key
             /\ e.op = f.op /\ e.op # "UPDATE" => e = f

(* Every request is answered: no handler waits for a row for ever. *)
EveryCallAnswered == \A c \in Calls : call[c] # Idle ~> call[c] = Idle

(* What makes the properties above inductive.  A pending change starts     *)
(* from the committed row, comes after the tuple's history and is the only *)
(* one of its tuple: this is what the row locks give.                      *)
ChangesFit ==
    /\ \A e \in audit : e.id < nextAudit
    /\ \A c \in Calls : Pending(c) =>
          LET e == call[c].entry IN
          /\ e.id < nextAudit /\ e.old = limits[e.key]
          /\ \A f \in audit : f.key = e.key => f.id < e.id
          /\ \A d \in Calls \ {c} : Pending(d) => call[d].entry.key # e.key

(* The ids of rows, entries and pending inserts are drawn ones; a row's id *)
(* is in no other tuple's history and not deleted; a pending insert's id   *)
(* is nowhere else.                                                        *)
IdsFit ==
    /\ \A e \in audit : e.config < nextId
    /\ \A k \in Keys : limits[k] # NoRow =>
          /\ limits[k].id < nextId
          /\ \A e \in audit : e.config = limits[k].id => e.key = k /\ e.op # "DELETE"
          /\ \A l \in Keys \ {k} : limits[l].id # limits[k].id
    /\ \A c \in Calls : Pending(c) =>
          LET e == call[c].entry IN
          /\ e.config < nextId
          /\ e.new = NoRow <=> e.op = "DELETE"
          /\ e.new # NoRow => e.new.id = e.config
          /\ IF e.op = "INSERT"
             THEN /\ \A f \in audit : f.config # e.config
                  /\ \A k \in Keys : limits[k].id # e.config
                  /\ \A d \in Calls \ {c} :
                        Pending(d) => call[d].entry.config # e.config
             ELSE limits[e.key] # NoRow /\ e.config = limits[e.key].id

(* Requests are numbered: an open one has no entry yet and shares its      *)
(* number with no other, and a pending change is what it asks for.         *)
RequestsFit ==
    /\ \A e \in audit : e.at <= begun
    /\ \A e, f \in audit : e.at = f.at => e = f
    /\ \A c \in Calls : reply[c] # NoReply => reply[c].req.at <= begun
    /\ \A c \in Calls : call[c] # Idle =>
          LET r == call[c].req IN
          /\ r.at <= begun
          /\ \A e \in audit : e.at # r.at
          /\ \A d \in Calls : reply[d] # NoReply => reply[d].req.at # r.at
          /\ \A d \in Calls \ {c} : call[d] # Idle => call[d].req.at # r.at
          /\ call[c].pc = "wrote" /\ ~(r.op = "delete" /\ r.flag) => Pending(c)
          /\ Pending(c) =>
                LET e == call[c].entry IN
                /\ e.at = r.at /\ e.key = r.key /\ e.by = r.by
                /\ IF r.op = "delete" THEN e.new = NoRow ELSE e.new.value = r.value

(* The transactions implement the audited table: a commit is one change of *)
(* one row, made by an editor from the row as it is, together with its     *)
(* entry, and nothing else that a handler does can be seen.                *)
Table == INSTANCE AuditedTable WITH rows <- limits, trail <- audit

ImplementsTable == Table!TableSpec

(* What that needs besides.  Rows are of registered services; requests at  *)
(* work are of editors; a pending change has an audit id of its own and is *)
(* an insert exactly if there is no row.                                   *)
WritersFit ==
    /\ \A k \in Keys : limits[k] # NoRow => ServiceOf[k] \in services
    /\ \A c \in Calls : call[c] # Idle =>
          call[c].req.by \in Editors[ServiceOf[call[c].req.key]]
    /\ \A c \in Calls : Pending(c) =>
          LET e == call[c].entry IN
          /\ ServiceOf[e.key] \in services
          /\ e.op = "INSERT" <=> e.old = NoRow
          /\ \A f \in audit : f.id # e.id
          /\ \A d \in Calls \ {c} : Pending(d) => call[d].entry.id # e.id

(* AuditRepository.java:46 lists a history "newest first"; by the time an  *)
(* entry shows, changed_at, later entries of a tuple are not older.        *)
NewestFirst ==
    \A e, f \in audit : e.key = f.key /\ e.id > f.id => e.at >= f.at
=============================================================================
