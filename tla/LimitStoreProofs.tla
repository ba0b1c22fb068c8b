--------------------------- MODULE LimitStoreProofs ---------------------------
(* The types, the audit trail and the config ids of LimitStore, for any    *)
(* number of handlers, tuples, values and principals.                      *)
EXTENDS LimitStore, TLAPS

LEMMA TypeInit == Init => TypeOK
  BY CallAssumption DEF Init, TypeOK, NoRow, NoReply, Idle

(* What the statement writes is well formed. *)
LEMMA NewRowTyped ==
  ASSUME TypeOK, NEW r \in Request
  PROVE  NewRow(r) \in Row \cup {NoRow}
  BY DEF TypeOK, NewRow, Request, Row, NoRow

LEMMA EntryTyped ==
  ASSUME TypeOK, NEW r \in Request, Affects(r)
  PROVE  Audited(r) \in Entry
<1>1. limits[r.key] \in Row \cup {NoRow} /\ NewRow(r) \in Row \cup {NoRow}
  BY NewRowTyped DEF TypeOK, Request
<1>2. r.op = "delete" => limits[r.key].id \in Nat \ {0}
  BY <1>1 DEF Affects, Row
<1>3. r.op # "delete" => NewRow(r).id \in Nat \ {0}
  BY <1>1 DEF NewRow, Row, NoRow, TypeOK
<1>4. Audited(r).config \in Nat \ {0}
  BY <1>2, <1>3 DEF Audited
<1> QED BY <1>1, <1>4 DEF Audited, Entry, TypeOK, Request

LEMMA AnswerTyped ==
  ASSUME TypeOK, NEW c \in Calls, NEW r \in Request, NEW s \in Statuses,
         Answer(c, r, s)
  PROVE  /\ call' \in [Calls -> {Idle} \cup [pc : {"open"}, req : Request]
               \cup [pc : {"wrote"}, req : Request, entry : Entry \cup {NoEntry}]]
         /\ reply' \in [Calls -> {NoReply} \cup [req : Request, status : Statuses]]
  BY DEF TypeOK, Answer

(* A transaction's request and entry, from where it is. *)
LEMMA CallTyped ==
  ASSUME TypeOK, NEW c \in Calls, call[c] # Idle
  PROVE  /\ call[c].req \in Request /\ call[c].pc \in {"open", "wrote"}
         /\ call[c].pc = "wrote" => call[c].entry \in Entry \cup {NoEntry}
  BY DEF TypeOK, Idle

LEMMA TypeStep == TypeOK /\ [Next]_vars => TypeOK'
<1> SUFFICES ASSUME TypeOK, [Next]_vars PROVE TypeOK'
  OBVIOUS
<1>1. CASE UNCHANGED vars
  BY <1>1 DEF TypeOK, vars
<1>2. ASSUME NEW s \in Services, Register(s) PROVE TypeOK'
  BY <1>2 DEF TypeOK, Register, sequences
<1>3. ASSUME NEW c \in Calls, Begin(c) PROVE TypeOK'
  <2>1. PICK r \in Sent(begun + 1) :
           IF r.by \in Editors[ServiceOf[r.key]]
           THEN call' = [call EXCEPT ![c] = [pc |-> "open", req |-> r]] /\ UNCHANGED reply
           ELSE Answer(c, r, "PERMISSION_DENIED")
    BY <1>3 DEF Begin
  <2>2. r \in Request
    BY <2>1 DEF Sent
  <2>3. begun' \in 0 .. MaxCalls
    BY <1>3, CallAssumption DEF Begin, TypeOK
  <2>4. CASE Answer(c, r, "PERMISSION_DENIED")
    BY <1>3, <2>2, <2>3, <2>4, AnswerTyped DEF Begin, TypeOK, Statuses, sequences
  <2>5. CASE call' = [call EXCEPT ![c] = [pc |-> "open", req |-> r]] /\ UNCHANGED reply
    BY <1>3, <2>2, <2>3, <2>5 DEF Begin, TypeOK, sequences
  <2> QED BY <2>1, <2>4, <2>5
<1>4. ASSUME NEW c \in Calls, Statement(c) PROVE TypeOK'
  <2> DEFINE r == call[c].req
  <2>1. r \in Request
    BY <1>4, CallTyped DEF Statement, Idle
  <2>2. nextId' \in Nat \ {0}
    BY <1>4 DEF Statement, TypeOK
  <2>3. CASE Outcome(r) # "OK"
    <3>1. Answer(c, r, Outcome(r)) /\ UNCHANGED nextAudit
      BY <1>4, <2>3 DEF Statement
    <3>2. Outcome(r) \in Statuses
      BY DEF Outcome, Statuses
    <3> HIDE DEF r
    <3> QED BY <1>4, <2>1, <2>2, <3>1, <3>2, AnswerTyped DEF Statement, TypeOK
  <2>4. CASE Outcome(r) = "OK"
    <3> DEFINE e == IF Affects(r) THEN Audited(r) ELSE NoEntry
    <3>1. e \in Entry \cup {NoEntry}
      BY <2>1, EntryTyped
    <3>2. /\ call' = [call EXCEPT ![c] = [pc |-> "wrote", req |-> r, entry |-> e]]
          /\ nextAudit' = IF Affects(r) THEN nextAudit + 1 ELSE nextAudit
          /\ UNCHANGED <<services, limits, audit, reply, begun>>
      BY <1>4, <2>4 DEF Statement
    <3> HIDE DEF r, e
    <3> QED BY <2>1, <2>2, <3>1, <3>2 DEF TypeOK
  <2> QED BY <2>3, <2>4
<1>5. ASSUME NEW c \in Calls, Commit(c) PROVE TypeOK'
  <2>1. /\ call[c].req \in Request /\ call[c].entry \in Entry \cup {NoEntry}
    BY <1>5, CallTyped DEF Commit, Idle
  <2>2. PICK s \in {"OK"} \cup DatabaseErrors : Answer(c, call[c].req, s)
    BY <1>5 DEF Commit
  <2>3. s \in Statuses
    BY DEF Statuses
  <2>4. limits' \in [Keys -> Row \cup {NoRow}] /\ audit' \subseteq Entry
    BY <1>5, <2>1 DEF Commit, TypeOK, Entry
  <2> QED BY <1>5, <2>1, <2>2, <2>3, <2>4, AnswerTyped DEF Commit, TypeOK, sequences
<1>6. ASSUME NEW c \in Calls, Disconnect(c) PROVE TypeOK'
  <2>1. PICK s \in DatabaseErrors : Answer(c, call[c].req, s)
    BY <1>6 DEF Disconnect
  <2>2. call[c].req \in Request /\ s \in Statuses
    BY <1>6, CallTyped DEF Disconnect, Statuses
  <2> QED BY <1>6, <2>1, <2>2, AnswerTyped DEF Disconnect, TypeOK, sequences
<1> QED BY <1>1, <1>2, <1>3, <1>4, <1>5, <1>6 DEF Next, Handle

(* Rows, audit entries, transactions and replies stay well formed. *)
THEOREM StoreTypeCorrect == Spec => []TypeOK
<1> QED BY TypeInit, TypeStep, PTL DEF Spec
---------------------------------------------------------------------------

(* What a step can do to rows, entries and pending changes: nothing, add a *)
(* pending change to a tuple that has none, or commit one.                 *)
Quiet ==
    /\ UNCHANGED <<limits, audit>>
    /\ nextAudit' >= nextAudit /\ nextId' >= nextId
    /\ \A d \in Calls : Pending(d)' => Pending(d) /\ call'[d].entry = call[d].entry

WritesEntry(c, r) ==
    /\ UNCHANGED <<limits, audit>>
    /\ nextAudit' = nextAudit + 1
    /\ nextId' = IF Inserts(r) THEN nextId + 1 ELSE nextId
    /\ r = call[c].req /\ Affects(r) /\ ~Locked(r.key) /\ Outcome(r) = "OK"
    /\ call'[c].entry = Audited(r)
    /\ \A d \in Calls \ {c} : call'[d] = call[d]

CommitsEntry(c) ==
    LET e == call[c].entry IN
    /\ Pending(c) /\ call'[c] = Idle
    /\ limits' = [limits EXCEPT ![e.key] = e.new]
    /\ audit' = audit \cup {e}
    /\ UNCHANGED <<nextAudit, nextId>>
    /\ \A d \in Calls \ {c} : call'[d] = call[d]

(* A statement that affects a row found its tuple unlocked. *)
LEMMA WriterHasLock ==
  ASSUME TypeOK, NEW r \in Request, ~Waits(r), Outcome(r) = "OK", Affects(r)
  PROVE  ~Locked(r.key)
<1>1. CASE Inserts(r) \/ limits[r.key] # NoRow
  BY <1>1, Zenon DEF Waits
<1>2. CASE ~Inserts(r) /\ limits[r.key] = NoRow
  <2>1. r.op = "update" /\ ~r.flag
    BY <1>2, Zenon DEF Affects, Inserts, Request
  <2>2. Outcome(r) = "NOT_FOUND"
    BY <1>2, <2>1, Zenon DEF Outcome
  <2> QED BY <2>2, Zenon
<1> QED BY <1>1, <1>2, Zenon

LEMMA StatementEffect ==
  ASSUME TypeOK, NEW c \in Calls, Statement(c)
  PROVE  Quiet \/ \E r \in Request : WritesEntry(c, r)
<1> DEFINE r == call[c].req
<1>1. r \in Request
  BY CallTyped DEF Statement, Idle
<1>2. nextId' >= nextId
  BY DEF Statement, TypeOK
<1>3. CASE Outcome(r) # "OK"
  BY <1>2, <1>3 DEF Statement, Answer, Quiet, TypeOK, Pending, Idle
<1>4. CASE Outcome(r) = "OK" /\ ~Affects(r)
  BY <1>2, <1>4 DEF Statement, Quiet, TypeOK, Pending
<1>5. CASE Outcome(r) = "OK" /\ Affects(r)
  <2>1. ~Locked(r.key)
    BY <1>1, <1>5, WriterHasLock, Zenon DEF Statement
  <2>2. call' = [call EXCEPT ![c] = [pc |-> "wrote", req |-> r, entry |-> Audited(r)]]
    BY <1>5, Zenon DEF Statement
  <2>3. call'[c].entry = Audited(r) /\ \A d \in Calls \ {c} : call'[d] = call[d]
    BY <2>2, Zenon DEF TypeOK
  <2>4. WritesEntry(c, r)
    BY <1>5, <2>1, <2>3, Zenon DEF Statement, WritesEntry
  <2> QED BY <1>1, <2>4, Zenon
<1> QED BY <1>3, <1>4, <1>5, Zenon

LEMMA CommitEffect ==
  ASSUME TypeOK, NEW c \in Calls, Commit(c)
  PROVE  Quiet \/ CommitsEntry(c)
<1>1. \E s \in {"OK"} \cup DatabaseErrors : Answer(c, call[c].req, s)
  BY Zenon DEF Commit
<1>2. call'[c] = Idle /\ \A d \in Calls \ {c} : call'[d] = call[d]
  BY <1>1, Zenon DEF Answer, TypeOK
<1>3. CASE call[c].entry = NoEntry
  BY <1>2, <1>3 DEF Commit, Quiet, Pending, Idle, TypeOK, sequences
<1>4. CASE call[c].entry # NoEntry
  BY <1>2, <1>4, Zenon DEF Commit, CommitsEntry, Pending, sequences
<1> QED BY <1>3, <1>4, Zenon

LEMMA StepEffect ==
  ASSUME TypeOK, [Next]_vars
  PROVE  \/ Quiet
         \/ \E c \in Calls, r \in Request : WritesEntry(c, r)
         \/ \E c \in Calls : CommitsEntry(c)
<1>1. CASE UNCHANGED vars
  BY <1>1 DEF vars, Quiet, Pending, TypeOK
<1>2. ASSUME NEW s \in Services, Register(s) PROVE Quiet
  BY <1>2 DEF Register, Quiet, Pending, TypeOK, sequences
<1>3. ASSUME NEW c \in Calls, Begin(c) PROVE Quiet
  <2>1. PICK r \in Sent(begun + 1) :
           IF r.by \in Editors[ServiceOf[r.key]]
           THEN call' = [call EXCEPT ![c] = [pc |-> "open", req |-> r]] /\ UNCHANGED reply
           ELSE Answer(c, r, "PERMISSION_DENIED")
    BY <1>3, Zenon DEF Begin
  <2>2. \E x : x.pc # "wrote" /\ call' = [call EXCEPT ![c] = x]
    BY <2>1, Zenon DEF Answer, Idle
  <2> QED BY <1>3, <2>2 DEF Begin, Quiet, Pending, TypeOK, sequences
<1>4. ASSUME NEW c \in Calls, Disconnect(c) PROVE Quiet
  BY <1>4 DEF Disconnect, Answer, Quiet, Pending, TypeOK, sequences, Idle
<1> QED BY <1>1, <1>2, <1>3, <1>4, StatementEffect, CommitEffect, Zenon DEF Next, Handle
---------------------------------------------------------------------------
LEMMA PendingTyped ==
  ASSUME TypeOK, NEW c \in Calls, Pending(c)
  PROVE  call[c].entry \in Entry
  BY CallTyped DEF Pending, Idle

LEMMA ChangesInit == Init => AuditExplainsTable /\ ChangesFit
  BY DEF Init, AuditExplainsTable, ChangesFit, History, Pending, Idle

LEMMA ChangesStep ==
  ASSUME TypeOK, TypeOK', ChangesFit, [Next]_vars
  PROVE  ChangesFit'
<1>1. CASE Quiet
  BY <1>1, PendingTyped DEF Quiet, ChangesFit, TypeOK, Entry
<1>2. ASSUME NEW c \in Calls, NEW r \in Request, WritesEntry(c, r)
      PROVE  ChangesFit'
  <2>1. \A d \in Calls \ {c} :
           /\ Pending(d)' <=> Pending(d)
           /\ call'[d].entry = call[d].entry
           /\ Pending(d) => call[d].entry.key # r.key
    BY <1>2, Zenon DEF WritesEntry, Pending, Locked
  <2>2. /\ call'[c].entry.id = nextAudit /\ call'[c].entry.key = r.key
        /\ call'[c].entry.old = limits'[r.key]
    BY <1>2 DEF WritesEntry, Audited
  <2>3. nextAudit' = nextAudit + 1 /\ audit' = audit /\ limits' = limits
    BY <1>2, Zenon DEF WritesEntry
  <2>4. \A f \in audit' : f.id < nextAudit /\ f.id \in Nat
    BY <2>3, Zenon DEF ChangesFit, TypeOK, Entry
  <2>5. ASSUME NEW d \in Calls \ {c}, Pending(d)'
        PROVE  LET e == call'[d].entry IN
               /\ e.id < nextAudit' /\ e.old = limits'[e.key]
               /\ \A f \in audit' : f.key = e.key => f.id < e.id
               /\ \A b \in Calls \ {d} : Pending(b)' => call'[b].entry.key # e.key
    <3>1. Pending(d) /\ call'[d].entry = call[d].entry /\ call[d].entry.key # r.key
      BY <2>1, <2>5, Zenon
    <3>2. call[d].entry.id \in Nat
      BY <3>1, PendingTyped, Zenon DEF Entry
    <3> QED BY <2>1, <2>2, <2>3, <3>1, <3>2 DEF ChangesFit, TypeOK
  <2>6. nextAudit \in Nat
    BY Zenon DEF TypeOK
  <2> QED BY <2>1, <2>2, <2>3, <2>4, <2>5, <2>6 DEF ChangesFit
<1>3. ASSUME NEW c \in Calls, CommitsEntry(c)
      PROVE  ChangesFit'
  <2> DEFINE e == call[c].entry
  <2>1. e \in Entry /\ e.id < nextAudit
    BY <1>3, PendingTyped, Zenon DEF CommitsEntry, ChangesFit
  <2>2. audit' = audit \cup {e} /\ nextAudit' = nextAudit
    BY <1>3, Zenon DEF CommitsEntry
  <2>3. ~Pending(c)'
    BY <1>3 DEF CommitsEntry, Pending, Idle
  <2>4. \A d \in Calls \ {c} :
           /\ Pending(d)' <=> Pending(d)
           /\ call'[d].entry = call[d].entry
           /\ Pending(d) => call[d].entry.key # e.key
    BY <1>3, Zenon DEF CommitsEntry, Pending, ChangesFit
  <2>5. \A k \in Keys \ {e.key} : limits'[k] = limits[k]
    BY <1>3, <2>1, Zenon DEF CommitsEntry, TypeOK
  <2>6. ASSUME NEW d \in Calls, Pending(d)'
        PROVE  LET g == call'[d].entry IN
               /\ g.id < nextAudit' /\ g.old = limits'[g.key]
               /\ \A f \in audit' : f.key = g.key => f.id < g.id
               /\ \A b \in Calls \ {d} : Pending(b)' => call'[b].entry.key # g.key
    <3>1. d # c /\ Pending(d) /\ call'[d].entry = call[d].entry
      BY <2>3, <2>4, <2>6, Zenon
    <3>2. call[d].entry.key \in Keys \ {e.key}
      BY <2>4, <3>1, PendingTyped, Zenon DEF Entry
    <3> QED BY <2>2, <2>3, <2>4, <2>5, <3>1, <3>2 DEF ChangesFit
  <2> HIDE DEF e
  <2>7. \A f \in audit' : f.id < nextAudit'
    BY <2>1, <2>2, Zenon DEF ChangesFit
  <2> QED BY <2>6, <2>7, Zenon DEF ChangesFit
<1> QED BY <1>1, <1>2, <1>3, StepEffect, Zenon

LEMMA AuditStep ==
  ASSUME TypeOK, ChangesFit, AuditExplainsTable, [Next]_vars
  PROVE  AuditExplainsTable'
<1>1. CASE UNCHANGED <<limits, audit>>
  BY <1>1 DEF AuditExplainsTable, History
<1>2. ASSUME NEW c \in Calls, CommitsEntry(c)
      PROVE  AuditExplainsTable'
  <2> DEFINE e == call[c].entry
             H == History(e.key)
  <2>1. e \in Entry /\ e.old = limits[e.key]
    BY <1>2, PendingTyped, Zenon DEF CommitsEntry, ChangesFit
  <2>2. \A f \in H : f.id < e.id /\ f.id \in Nat /\ f \in audit
    BY <1>2, <2>1 DEF CommitsEntry, ChangesFit, History, TypeOK, Entry
  <2>3. limits' = [limits EXCEPT ![e.key] = e.new] /\ audit' = audit \cup {e}
    BY <1>2, Zenon DEF CommitsEntry
  <2>4. ASSUME NEW k \in Keys, k # e.key
        PROVE  History(k)' = History(k) /\ limits'[k] = limits[k]
    BY <2>3, <2>4, Zenon DEF History, TypeOK
  <2>5. ASSUME NEW k \in Keys, k = e.key
        PROVE  History(k)' = H \cup {e} /\ limits'[k] = e.new
    BY <2>3, <2>5, Zenon DEF History, TypeOK
  <2>6. e.id \in Nat
    BY <2>1, Zenon DEF Entry
  <2>7. /\ H = {} => limits[e.key] = NoRow
        /\ \A g \in H :
              /\ First(H, g) => g.old = NoRow
              /\ Last(H, g) => g.new = limits[e.key]
              /\ \A f \in H : Adjacent(H, f, g) => g.old = f.new
    BY <2>1, Zenon DEF AuditExplainsTable, Entry
  <2>8. \A g \in H \cup {e} :
           /\ First(H \cup {e}, g) => g.old = NoRow
           /\ Last(H \cup {e}, g) => g.new = e.new
           /\ \A f \in H \cup {e} : Adjacent(H \cup {e}, f, g) => g.old = f.new
    <3> HIDE DEF e, H
    <3>1. ASSUME NEW g \in H
          PROVE  /\ First(H \cup {e}, g) => First(H, g)
                 /\ ~Last(H \cup {e}, g)
                 /\ \A f \in H : Adjacent(H \cup {e}, f, g) => Adjacent(H, f, g)
                 /\ ~Adjacent(H \cup {e}, e, g)
      BY <2>2, <2>6 DEF First, Last, Adjacent
    <3>2. First(H \cup {e}, e) => H = {}
      BY <2>2, <2>6 DEF First
    <3>3. ASSUME NEW f \in H, Adjacent(H \cup {e}, f, e)
          PROVE  Last(H, f)
      BY <2>2, <2>6, <3>3 DEF Last, Adjacent
    <3>4. ~Adjacent(H \cup {e}, e, e)
      BY <2>6 DEF Adjacent
    <3> QED BY <2>1, <2>7, <3>1, <3>2, <3>3, <3>4, Zenon
  <2> HIDE DEF H
  <2>9. ASSUME NEW k \in Keys
        PROVE  /\ History(k)' = {} => limits'[k] = NoRow
               /\ \A g \in History(k)' :
                     /\ First(History(k)', g) => g.old = NoRow
                     /\ Last(History(k)', g) => g.new = limits'[k]
                     /\ \A f \in History(k)' :
                           Adjacent(History(k)', f, g) => g.old = f.new
    <3>1. CASE k = e.key
      <4> History(k)' = H \cup {e} /\ limits'[k] = e.new
        BY <2>5, <3>1, Zenon
      <4> HIDE DEF e
      <4> QED BY <2>8, Zenon
    <3>2. CASE k # e.key
      BY <2>4, <3>2 DEF AuditExplainsTable
    <3> QED BY <3>1, <3>2, Zenon
  <2> QED BY <2>9, Zenon DEF AuditExplainsTable, First, Last, Adjacent
<1> QED BY <1>1, <1>2, StepEffect, Zenon DEF Quiet, WritesEntry

(* In every reachable state the audit trail of a tuple replays, by audit   *)
(* id, to the row that limit_config holds.  The row locks make the pending *)
(* change of a tuple unique and later than its history (ChangesFit).       *)
THEOREM AuditTrailReplays == Spec => []AuditExplainsTable
<1>1. TypeOK /\ ChangesFit /\ AuditExplainsTable /\ [Next]_vars
         => (TypeOK /\ ChangesFit /\ AuditExplainsTable)'
  BY TypeStep, ChangesStep, AuditStep, Zenon
<1> QED BY TypeInit, ChangesInit, <1>1, PTL DEF Spec
---------------------------------------------------------------------------
(* How the trigger's entry relates to the row the statement found. *)
LEMMA EntryKinds ==
  ASSUME TypeOK, NEW r \in Request, Affects(r), Outcome(r) = "OK"
  PROVE  LET e == Audited(r) IN
         /\ e.key = r.key
         /\ e.new = NoRow <=> e.op = "DELETE"
         /\ e.new # NoRow => e.new.id = e.config
         /\ e.op = "INSERT" =>
               limits[r.key] = NoRow /\ e.config = nextId /\ Inserts(r)
         /\ e.op # "INSERT" =>
               limits[r.key] # NoRow /\ e.config = limits[r.key].id
<1>1. limits[r.key] \in Row \cup {NoRow} /\ nextId \in Nat \ {0}
  BY Zenon DEF TypeOK, Request
<1>2. CASE limits[r.key] = NoRow
  <2>1. r.op # "delete"
    BY <1>2, Zenon DEF Affects
  <2>2. Inserts(r)
    <3>1. CASE r.op = "update" /\ ~r.flag
      BY <1>2, <3>1, Zenon DEF Outcome, Inserts
    <3> QED BY <2>1, <3>1, Zenon DEF Inserts, Request
  <2>3. NewRow(r) = [id |-> nextId, value |-> r.value]
    BY <1>2, <2>1, Zenon DEF NewRow
  <2> QED BY <1>1, <1>2, <2>1, <2>2, <2>3 DEF Audited, NoRow
<1>3. CASE limits[r.key] # NoRow /\ r.op = "delete"
  BY <1>1, <1>3, Zenon DEF Audited, NewRow
<1>4. CASE limits[r.key] # NoRow /\ r.op # "delete"
  <2>1. limits[r.key] \in Row
    BY <1>1, <1>4, Zenon
  <2>2. NewRow(r).id = limits[r.key].id /\ NewRow(r).id # 0
    BY <1>4, <2>1, Zenon DEF NewRow, Row
  <2>3. NewRow(r) # NoRow
    BY <2>2 DEF NoRow
  <2> QED BY <1>4, <2>2, <2>3, Zenon DEF Audited
<1> QED BY <1>2, <1>3, <1>4, Zenon

LEMMA IdsInit == Init => ConfigIdHasOneLife /\ IdsFit
  BY DEF Init, ConfigIdHasOneLife, IdsFit, Pending, Idle

(* Ids are positive, except that of no row. *)
LEMMA IdTyped ==
  ASSUME TypeOK, NEW k \in Keys
  PROVE  /\ limits[k].id \in Nat
         /\ limits[k] = NoRow <=> limits[k].id = 0
  BY DEF TypeOK, Row, NoRow

(* A pending change's id is in no other tuple and, unless it is new, is    *)
(* the id of the tuple's row.                                              *)
LEMMA PendingIdUnique ==
  ASSUME TypeOK, ChangesFit, IdsFit, NEW c \in Calls, Pending(c)
  PROVE  LET e == call[c].entry IN
         /\ \A k \in Keys \ {e.key} : limits[k].id # e.config
         /\ \A f \in audit : f.config = e.config => f.key = e.key /\ f.op # "DELETE"
         /\ \A d \in Calls \ {c} : Pending(d) => call[d].entry.config # e.config
<1> DEFINE e == call[c].entry
<1>1. e \in Entry
  BY PendingTyped, Zenon
<1>2. CASE e.op = "INSERT"
  BY <1>2, Zenon DEF IdsFit
<1>3. CASE e.op # "INSERT"
  <2>1. e.key \in Keys /\ limits[e.key] # NoRow /\ e.config = limits[e.key].id
    BY <1>1, <1>3, Zenon DEF IdsFit, Entry
  <2>2. /\ \A k \in Keys \ {e.key} : limits[k].id # e.config
        /\ \A f \in audit : f.config = e.config => f.key = e.key /\ f.op # "DELETE"
    BY <2>1 DEF IdsFit
  <2>3. ASSUME NEW d \in Calls \ {c}, Pending(d)
        PROVE  call[d].entry.config # e.config
    <3> DEFINE g == call[d].entry
    <3>1. g \in Entry /\ g.key # e.key
      BY <2>3, PendingTyped, Zenon DEF ChangesFit
    <3>2. CASE g.op = "INSERT"
      BY <2>1, <2>3, <3>2, Zenon DEF IdsFit
    <3>3. CASE g.op # "INSERT"
      <4>1. g.config = limits[g.key].id
        BY <2>3, <3>3, Zenon DEF IdsFit
      <4> QED BY <2>2, <3>1, <4>1, Zenon DEF Entry
    <3> QED BY <3>2, <3>3, Zenon
  <2> QED BY <2>2, <2>3, Zenon
<1> QED BY <1>2, <1>3, Zenon

LEMMA LifeStep ==
  ASSUME TypeOK, ChangesFit, IdsFit, ConfigIdHasOneLife, [Next]_vars
  PROVE  ConfigIdHasOneLife'
<1>1. CASE UNCHANGED audit
  BY <1>1, Zenon DEF ConfigIdHasOneLife
<1>2. ASSUME NEW c \in Calls, CommitsEntry(c) PROVE ConfigIdHasOneLife'
  <2> DEFINE e == call[c].entry
  <2>1. Pending(c) /\ e \in Entry /\ audit' = audit \cup {e}
    BY <1>2, PendingTyped, Zenon DEF CommitsEntry
  <2>2. e.op = "UPDATE" => e.old.id = e.config /\ e.new.id = e.config
    BY <2>1, Zenon DEF ChangesFit, IdsFit
  <2>3. \A f \in audit : e.config = f.config =>
           e.key = f.key /\ (e.op = f.op => e.op = "UPDATE")
    <3>1. CASE e.op = "INSERT"
      BY <2>1, <3>1, Zenon DEF IdsFit
    <3>2. CASE e.op # "INSERT"
      BY <2>1, <3>2, PendingIdUnique DEF Entry
    <3> QED BY <3>1, <3>2, Zenon
  <2> HIDE DEF e
  <2> QED BY <2>1, <2>2, <2>3 DEF ConfigIdHasOneLife
<1> QED BY <1>1, <1>2, StepEffect, Zenon DEF Quiet, WritesEntry

(* IdsFit, split into its part about rows and its part about one pending   *)
(* change.                                                                 *)
RowsIdsFit ==
    /\ \A e \in audit : e.config < nextId
    /\ \A k \in Keys : limits[k] # NoRow =>
          /\ limits[k].id < nextId
          /\ \A e \in audit : e.config = limits[k].id => e.key = k /\ e.op # "DELETE"
          /\ \A l \in Keys \ {k} : limits[l].id # limits[k].id

PendingIdFits(c) ==
    LET e == call[c].entry IN
    /\ e.config < nextId
    /\ e.new = NoRow <=> e.op = "DELETE"
    /\ e.new # NoRow => e.new.id = e.config
    /\ IF e.op = "INSERT"
       THEN /\ \A f \in audit : f.config # e.config
            /\ \A k \in Keys : limits[k].id # e.config
            /\ \A d \in Calls \ {c} : Pending(d) => call[d].entry.config # e.config
       ELSE limits[e.key] # NoRow /\ e.config = limits[e.key].id

(* A pending change still fits when rows and entries stay and no other     *)
(* pending change takes its id.                                            *)
LEMMA PendingIdStays ==
  ASSUME NEW d \in Calls, PendingIdFits(d), UNCHANGED <<limits, audit>>,
         call'[d].entry = call[d].entry, call[d].entry.config < nextId',
         call[d].entry.op = "INSERT" =>
            \A b \in Calls \ {d} : Pending(b)' => call'[b].entry.config # call[d].entry.config
  PROVE  PendingIdFits(d)'
<1> DEFINE g == call[d].entry
<1>1. limits' = limits /\ audit' = audit /\ call'[d].entry = g
  OBVIOUS
<1>2. CASE g.op = "INSERT"
  BY <1>1, <1>2, Zenon DEF PendingIdFits
<1>3. CASE g.op # "INSERT"
  BY <1>1, <1>3, Zenon DEF PendingIdFits
<1> QED BY <1>2, <1>3

LEMMA IdsAfterWrite ==
  ASSUME TypeOK, ChangesFit, IdsFit, NEW c \in Calls, NEW r \in Request, WritesEntry(c, r)
  PROVE  RowsIdsFit' /\ \A d \in Calls : Pending(d)' => PendingIdFits(d)'
<1> DEFINE e == Audited(r)
<1>1. /\ limits' = limits /\ audit' = audit /\ call'[c].entry = e
      /\ nextId' = IF Inserts(r) THEN nextId + 1 ELSE nextId
      /\ \A d \in Calls \ {c} : (Pending(d)' <=> Pending(d)) /\ call'[d].entry = call[d].entry
  BY Zenon DEF WritesEntry, Pending
<1>2. nextId \in Nat /\ nextId' \in Nat /\ nextId' >= nextId
  BY <1>1, SMTT(40) DEF TypeOK
<1>3. \A f \in audit : f.config \in Nat
  BY Zenon DEF TypeOK, Entry
<1>4. \A k \in Keys : limits[k].id \in Nat /\ (limits[k] = NoRow <=> limits[k].id = 0)
  BY IdTyped, Zenon
<1>5. \A d \in Calls : Pending(d) => call[d].entry.config \in Nat /\ call[d].entry.config < nextId
  BY PendingTyped, Zenon DEF Entry, IdsFit
<1>6. RowsIdsFit'
  BY <1>1, <1>2, <1>3, <1>4, SMTT(40) DEF RowsIdsFit, IdsFit
<1>7. /\ e.key = r.key
      /\ e.new = NoRow <=> e.op = "DELETE"
      /\ e.new # NoRow => e.new.id = e.config
      /\ e.op = "INSERT" =>
            limits[r.key] = NoRow /\ e.config = nextId /\ Inserts(r)
      /\ e.op # "INSERT" =>
            limits[r.key] # NoRow /\ e.config = limits[r.key].id
  BY EntryKinds, Zenon DEF WritesEntry
<1>8. r.key \in Keys
  BY Zenon DEF Request
<1>9. \A f \in audit : f.config < nextId
  BY Zenon DEF IdsFit
<1>10. \A k \in Keys : limits[k].id < nextId
  BY <1>4, SMTT(40) DEF IdsFit, TypeOK
<1> HIDE DEF e
<1>11. PendingIdFits(c)'
  BY <1>1, <1>2, <1>3, <1>4, <1>5, <1>7, <1>8, <1>9, <1>10, SMTT(40) DEF PendingIdFits
<1>12. ASSUME NEW d \in Calls \ {c}, Pending(d)' PROVE PendingIdFits(d)'
  <2>1. Pending(d) /\ call'[d].entry = call[d].entry /\ call[d].entry.config < nextId'
    BY <1>1, <1>2, <1>5, <1>12, SMTT(40)
  <2>2. call[d].entry.op = "INSERT" => call[d].entry.config # e.config
    BY <1>2, <1>5, <1>7, <1>8, <2>1, SMTT(40) DEF IdsFit
  <2>3. PendingIdFits(d)
    BY <2>1, Zenon DEF IdsFit, PendingIdFits
  <2>4. ASSUME call[d].entry.op = "INSERT", NEW b \in Calls \ {d}, Pending(b)'
        PROVE  call'[b].entry.config # call[d].entry.config
    <3>1. CASE b = c
      BY <1>1, <2>2, <2>4, <3>1, Zenon
    <3>2. CASE b # c
      BY <1>1, <2>3, <2>4, <3>2, Zenon DEF PendingIdFits
    <3> QED BY <3>1, <3>2
  <2> QED BY <1>1, <2>1, <2>3, <2>4, PendingIdStays, Zenon
<1> QED BY <1>6, <1>11, <1>12, Zenon

LEMMA IdsAfterCommit ==
  ASSUME TypeOK, ChangesFit, IdsFit, NEW c \in Calls, CommitsEntry(c)
  PROVE  RowsIdsFit' /\ \A d \in Calls : Pending(d)' => PendingIdFits(d)'
<1> DEFINE e == call[c].entry
<1>1. Pending(c) /\ e \in Entry /\ e.key \in Keys
  BY PendingTyped, Zenon DEF CommitsEntry, Entry
<1>2. /\ \A k \in Keys \ {e.key} : limits[k].id # e.config
      /\ \A f \in audit : f.config = e.config => f.key = e.key /\ f.op # "DELETE"
      /\ \A d \in Calls \ {c} : Pending(d) => call[d].entry.config # e.config
  BY <1>1, PendingIdUnique, Zenon
<1>3. /\ e.config < nextId
      /\ e.new = NoRow <=> e.op = "DELETE"
      /\ e.new # NoRow => e.new.id = e.config
  BY <1>1, Zenon DEF IdsFit
<1>4. /\ audit' = audit \cup {e} /\ nextId' = nextId
      /\ limits'[e.key] = e.new
      /\ \A k \in Keys \ {e.key} : limits'[k] = limits[k]
  BY <1>1, Zenon DEF CommitsEntry, TypeOK
<1>5. e.config \in Nat \ {0} /\ NoRow.id = 0
  BY <1>1, Zenon DEF Entry, NoRow
<1>6. \A k \in Keys : limits[k].id \in Nat /\ (limits[k] = NoRow <=> limits[k].id = 0)
  BY IdTyped, Zenon
<1>7. ~Pending(c)' /\ \A d \in Calls \ {c} :
         /\ Pending(d)' <=> Pending(d)
         /\ call'[d].entry = call[d].entry
         /\ Pending(d) => call[d].entry.key \in Keys \ {e.key}
  <2>1. ~Pending(c)'
    BY DEF CommitsEntry, Pending, Idle
  <2>2. \A d \in Calls \ {c} : call'[d] = call[d]
    BY Zenon DEF CommitsEntry
  <2> QED BY <1>1, <2>1, <2>2, PendingTyped, Zenon DEF Pending, ChangesFit, Entry
<1> HIDE DEF e
<1>8. RowsIdsFit'
  <2>1. \A f \in audit' : f.config < nextId'
    BY <1>3, <1>4, Zenon DEF IdsFit
  <2>2. ASSUME NEW k \in Keys, limits'[k] # NoRow
        PROVE  /\ limits'[k].id < nextId'
               /\ \A f \in audit' : f.config = limits'[k].id => f.key = k /\ f.op # "DELETE"
               /\ \A l \in Keys \ {k} : limits'[l].id # limits'[k].id
    <3>1. CASE k = e.key
      BY <1>2, <1>3, <1>4, <2>2, <3>1, Zenon
    <3>2. CASE k # e.key
      BY <1>2, <1>3, <1>4, <1>5, <1>6, <2>2, <3>2, SMTT(40) DEF IdsFit
    <3> QED BY <3>1, <3>2, Zenon
  <2> QED BY <2>1, <2>2, Zenon DEF RowsIdsFit
<1>9. ASSUME NEW d \in Calls, Pending(d)' PROVE PendingIdFits(d)'
  <2> DEFINE g == call[d].entry
  <2>1. /\ d # c /\ Pending(d) /\ call'[d].entry = g
        /\ g.key \in Keys \ {e.key}
    BY <1>7, <1>9, Zenon
  <2>2. PendingIdFits(d)
    BY <2>1, Zenon DEF IdsFit, PendingIdFits
  <2>3. g.config # e.config /\ g.config # 0
    BY <1>2, <2>1, PendingTyped, Zenon DEF Entry
  <2>4. limits'[e.key].id # g.config
    BY <1>3, <1>4, <1>5, <2>3, Zenon
  <2>5. \A k \in Keys : limits[k].id # g.config => limits'[k].id # g.config
    BY <1>4, <2>4, Zenon
  <2> QED BY <1>4, <1>7, <2>1, <2>2, <2>3, <2>5, ZenonT(40) DEF PendingIdFits
<1> QED BY <1>8, <1>9, Zenon

LEMMA IdsStep ==
  ASSUME TypeOK, TypeOK', ChangesFit, IdsFit, [Next]_vars
  PROVE  IdsFit'
<1>1. CASE Quiet
  <2>1. RowsIdsFit'
    <3>1. limits' = limits /\ audit' = audit /\ RowsIdsFit
      BY <1>1, Zenon DEF Quiet, IdsFit, RowsIdsFit
    <3>2. nextId \in Nat /\ nextId' \in Nat /\ nextId' >= nextId
      BY <1>1 DEF Quiet, TypeOK
    <3>3. \A i \in Nat : i < nextId => i < nextId'
      BY <3>2
    <3>4. \A f \in audit : f.config \in Nat
      BY DEF TypeOK, Entry
    <3> QED BY <3>1, <3>3, <3>4, IdTyped, Zenon DEF RowsIdsFit
  <2>2. \A d \in Calls : Pending(d)' => PendingIdFits(d)'
    <3> SUFFICES ASSUME NEW d \in Calls, Pending(d)' PROVE PendingIdFits(d)'
      OBVIOUS
    <3>1. Pending(d) /\ call'[d].entry = call[d].entry /\ UNCHANGED <<limits, audit>>
      BY <1>1, Zenon DEF Quiet
    <3>2. PendingIdFits(d)
      BY <3>1, Zenon DEF IdsFit, PendingIdFits
    <3>3. call[d].entry.config \in Nat /\ call[d].entry.config < nextId
      BY <3>1, <3>2, PendingTyped, Zenon DEF Entry, PendingIdFits
    <3>4. nextId \in Nat /\ nextId' \in Nat /\ nextId' >= nextId
      BY <1>1 DEF Quiet, TypeOK
    <3>5. call[d].entry.config < nextId'
      BY <3>3, <3>4
    <3>6. call[d].entry.op = "INSERT" =>
             \A b \in Calls \ {d} : Pending(b)' => call'[b].entry.config # call[d].entry.config
      BY <1>1, <3>2, Zenon DEF Quiet, PendingIdFits
    <3> QED BY <3>1, <3>2, <3>5, <3>6, PendingIdStays, Zenon
  <2> QED BY <2>1, <2>2, Zenon DEF IdsFit, RowsIdsFit, PendingIdFits
<1>2. ASSUME RowsIdsFit' /\ \A d \in Calls : Pending(d)' => PendingIdFits(d)'
      PROVE  IdsFit'
  BY <1>2, Zenon DEF IdsFit, RowsIdsFit, PendingIdFits
<1> QED BY <1>1, <1>2, IdsAfterWrite, IdsAfterCommit, StepEffect, Zenon

(* An id of limit_config names one tuple and one life of its row, across   *)
(* updates, upserts, rollbacks, deletes and re-creations.                  *)
THEOREM ConfigIdsLiveOnce == Spec => []ConfigIdHasOneLife
<1>1. /\ TypeOK /\ ChangesFit /\ IdsFit /\ ConfigIdHasOneLife /\ [Next]_vars
      => (TypeOK /\ ChangesFit /\ IdsFit /\ ConfigIdHasOneLife)'
  BY TypeStep, ChangesStep, IdsStep, LifeStep, Zenon
<1> QED BY TypeInit, ChangesInit, IdsInit, <1>1, PTL DEF Spec
===============================================================================
