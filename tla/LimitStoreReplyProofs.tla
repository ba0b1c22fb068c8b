--------------------------- MODULE LimitStoreReplyProofs ---------------------------
(* What LimitStore answers agrees with the audit trail, and its            *)
(* transactions implement AuditedTable, for any number of handlers,        *)
(* tuples, values and principals.                                          *)
EXTENDS LimitStoreProofs

(* A reply q agrees with the audit entries A. *)
Honest(A, q) ==
    LET r == q.req
        mine == {e \in A : e.at = r.at}
    IN /\ q.status = "OK" /\ ~(r.op = "delete" /\ r.flag) => mine # {}
       /\ q.status \notin {"OK"} \cup DatabaseErrors => mine = {}
       /\ \A e \in mine :
             /\ mine = {e} /\ e.key = r.key /\ e.by = r.by
             /\ IF r.op = "delete" THEN e.new = NoRow ELSE e.new.value = r.value

LEMMA HonestReplies ==
  RepliesMatchAudit <=> \A c \in Calls : reply[c] # NoReply => Honest(audit, reply[c])
  BY Zenon DEF RepliesMatchAudit, Honest

(* An entry of another request changes nothing for q. *)
LEMMA HonestStays ==
  ASSUME NEW A, NEW q, NEW e, e.at # q.req.at, Honest(A, q)
  PROVE  Honest(A \cup {e}, q)
<1>1. {f \in A \cup {e} : f.at = q.req.at} = {f \in A : f.at = q.req.at}
  BY Zenon
<1> QED BY <1>1, Zenon DEF Honest

(* A request without an entry may be told anything but success. *)
LEMMA HonestFailure ==
  ASSUME NEW A, NEW r, NEW s, \A f \in A : f.at # r.at,
         s # "OK" \/ (r.op = "delete" /\ r.flag)
  PROVE  Honest(A, [req |-> r, status |-> s])
  BY Zenon DEF Honest

(* The entry e is what the request r asks for. *)
Answers(e, r) ==
    /\ e.at = r.at /\ e.key = r.key /\ e.by = r.by
    /\ IF r.op = "delete" THEN e.new = NoRow ELSE e.new.value = r.value

(* A request whose entry is the only one may be told that it succeeded. *)
LEMMA HonestSuccess ==
  ASSUME NEW A, NEW r, NEW s \in {"OK"} \cup DatabaseErrors, NEW e,
         \A f \in A : f.at # r.at, Answers(e, r)
  PROVE  Honest(A \cup {e}, [req |-> r, status |-> s])
<1>1. {f \in A \cup {e} : f.at = r.at} = {e}
  BY Zenon DEF Answers
<1> QED BY <1>1, Zenon DEF Honest, Answers

LEMMA RequestsInit == Init => RepliesMatchAudit /\ RequestsFit
  BY Zenon DEF Init, RepliesMatchAudit, RequestsFit

LEMMA RepliesStep ==
  ASSUME TypeOK, RequestsFit, RepliesMatchAudit, [Next]_vars
  PROVE  RepliesMatchAudit'
<1> DEFINE Fine(c) == reply'[c] # NoReply => Honest(audit', reply'[c])
<1>0. SUFFICES \A c \in Calls : Fine(c)
  BY Zenon DEF RepliesMatchAudit, Honest
<1>1. \A c \in Calls : reply[c] # NoReply => Honest(audit, reply[c])
  BY HonestReplies, Zenon
<1>2. CASE UNCHANGED <<audit, reply>>
  BY <1>1, <1>2, Zenon
<1>3. ASSUME NEW c \in Calls, NEW r \in Request, NEW s, Answer(c, r, s),
             audit' = audit, \A f \in audit : f.at # r.at,
             s # "OK" \/ (r.op = "delete" /\ r.flag)
      PROVE  \A d \in Calls : Fine(d)
  <2>1. reply'[c] = [req |-> r, status |-> s]
    BY <1>3, Zenon DEF Answer, TypeOK
  <2>2. \A d \in Calls \ {c} : reply'[d] = reply[d]
    BY <1>3, Zenon DEF Answer, TypeOK
  <2>3. Honest(audit, [req |-> r, status |-> s])
    BY <1>3, HonestFailure, Zenon
  <2> QED BY <1>1, <1>3, <2>1, <2>2, <2>3, Zenon
<1>4. ASSUME NEW c \in Calls, call[c] # Idle
      PROVE  call[c].req \in Request /\ \A f \in audit : f.at # call[c].req.at
  BY <1>4, CallTyped, Zenon DEF RequestsFit
<1>5. ASSUME NEW c \in Calls, Begin(c) PROVE \A d \in Calls : Fine(d)
  <2>1. PICK r \in Sent(begun + 1) :
           IF r.by \in Editors[ServiceOf[r.key]]
           THEN call' = [call EXCEPT ![c] = [pc |-> "open", req |-> r]] /\ UNCHANGED reply
           ELSE Answer(c, r, "PERMISSION_DENIED")
    BY <1>5, Zenon DEF Begin
  <2>2. r \in Request /\ r.at = begun + 1 /\ audit' = audit
    BY <1>5, <2>1, Zenon DEF Sent, Begin
  <2>3. \A f \in audit : f.at # r.at
    BY <2>2 DEF RequestsFit, TypeOK, Entry
  <2> QED BY <1>2, <1>3, <2>1, <2>2, <2>3, Zenon
<1>6. ASSUME NEW c \in Calls, Statement(c) PROVE \A d \in Calls : Fine(d)
  <2>1. audit' = audit /\ call[c] # Idle
    BY <1>6 DEF Statement, Idle
  <2>2. CASE Outcome(call[c].req) # "OK"
    <3>1. Answer(c, call[c].req, Outcome(call[c].req))
      BY <1>6, <2>2, Zenon DEF Statement
    <3> QED BY <1>3, <1>4, <2>1, <2>2, <3>1, Zenon
  <2>3. CASE Outcome(call[c].req) = "OK"
    BY <1>2, <1>6, <2>1, <2>3, Zenon DEF Statement
  <2> QED BY <2>2, <2>3, Zenon
<1>7. ASSUME NEW c \in Calls, Commit(c) PROVE \A d \in Calls : Fine(d)
  <2> DEFINE r == call[c].req
             e == call[c].entry
  <2>1. call[c] # Idle /\ r \in Request /\ \A f \in audit : f.at # r.at
    BY <1>4, <1>7 DEF Commit, Idle
  <2>2. PICK s \in {"OK"} \cup DatabaseErrors : Answer(c, r, s)
    BY <1>7, Zenon DEF Commit
  <2>3. CASE e = NoEntry
    <3>1. r.op = "delete" /\ r.flag
      BY <1>7, <2>1, <2>3, Zenon DEF Commit, RequestsFit, Pending
    <3>2. audit' = audit
      BY <1>7, <2>3, Zenon DEF Commit
    <3> QED BY <1>3, <2>1, <2>2, <3>1, <3>2, Zenon
  <2>4. CASE e # NoEntry
    <3>1. Answers(e, r)
      BY <1>7, <2>1, <2>4, Zenon DEF Commit, RequestsFit, Pending, Answers
    <3>2. audit' = audit \cup {e}
      BY <1>7, <2>4, Zenon DEF Commit
    <3>3. reply'[c] = [req |-> r, status |-> s] /\ \A d \in Calls \ {c} : reply'[d] = reply[d]
      BY <2>2, Zenon DEF Answer, TypeOK
    <3>4. \A d \in Calls : reply[d] # NoReply => reply[d].req.at # e.at
      BY <2>1, <3>1 DEF RequestsFit, Answers
    <3> HIDE DEF r, e
    <3>5. Honest(audit', reply'[c])
      <4>1. Honest(audit \cup {e}, [req |-> r, status |-> s])
        BY <2>1, <3>1, HonestSuccess, Zenon
      <4> QED BY <3>2, <3>3, <4>1, Zenon
    <3>6. \A d \in Calls \ {c} : Fine(d)
      BY <1>1, <3>2, <3>3, <3>4, HonestStays, Zenon
    <3> QED BY <3>5, <3>6, Zenon
  <2> QED BY <2>3, <2>4, Zenon
<1>8. ASSUME NEW c \in Calls, Disconnect(c) PROVE \A d \in Calls : Fine(d)
  BY <1>3, <1>4, <1>8, Zenon DEF Disconnect, DatabaseErrors
<1>9. ASSUME NEW s \in Services, Register(s) PROVE \A d \in Calls : Fine(d)
  BY <1>2, <1>9, Zenon DEF Register
<1>10. CASE UNCHANGED vars
  BY <1>2, <1>10, Zenon DEF vars
<1> HIDE DEF Fine
<1> QED BY <1>5, <1>6, <1>7, <1>8, <1>9, <1>10, Zenon DEF Next, Handle

(* What the entry of a successful statement owes to its request. *)
LEMMA EntryAnswers ==
  ASSUME TypeOK, NEW r \in Request, Affects(r)
  PROVE  LET e == Audited(r) IN
         /\ e.at = r.at /\ e.key = r.key /\ e.by = r.by /\ e # NoEntry
         /\ IF r.op = "delete" THEN e.new = NoRow ELSE e.new.value = r.value
<1>1. r.op # "delete" => NewRow(r).value = r.value
  BY Zenon DEF NewRow, TypeOK, Row, Request
<1>2. Audited(r).id # 0
  BY Zenon DEF Audited, TypeOK
<1>3. Audited(r) # NoEntry
  BY <1>2 DEF NoEntry
<1>4. r.op = "delete" => NewRow(r) = NoRow
  BY Zenon DEF NewRow
<1>5. /\ Audited(r).at = r.at /\ Audited(r).key = r.key /\ Audited(r).by = r.by
      /\ Audited(r).new = NewRow(r)
  BY Zenon DEF Audited
<1> QED BY <1>1, <1>3, <1>4, <1>5, Zenon

(* RequestsFit, for one open transaction. *)
OpenFits(c) ==
    LET r == call[c].req IN
    /\ r.at <= begun
    /\ \A e \in audit : e.at # r.at
    /\ \A d \in Calls : reply[d] # NoReply => reply[d].req.at # r.at
    /\ \A d \in Calls \ {c} : call[d] # Idle => call[d].req.at # r.at
    /\ call[c].pc = "wrote" /\ ~(r.op = "delete" /\ r.flag) => Pending(c)
    /\ Pending(c) =>
          LET e == call[c].entry IN
          /\ e.at = r.at /\ e.key = r.key /\ e.by = r.by
          /\ IF r.op = "delete" THEN e.new = NoRow ELSE e.new.value = r.value

AnsweredFit ==
    /\ \A e \in audit : e.at <= begun
    /\ \A e, f \in audit : e.at = f.at => e = f
    /\ \A c \in Calls : reply[c] # NoReply => reply[c].req.at <= begun

(* Closing a transaction frees its number for its reply and its entry. *)
LEMMA RequestsAfterAnswer ==
  ASSUME TypeOK, RequestsFit, NEW c \in Calls, call[c] # Idle, NEW s,
         Answer(c, call[c].req, s), begun' = begun,
         audit' = audit \/ (Pending(c) /\ audit' = audit \cup {call[c].entry})
  PROVE  AnsweredFit' /\ \A d \in Calls : call'[d] # Idle => OpenFits(d)'
<1> DEFINE r == call[c].req
<1>1. /\ r.at <= begun
      /\ \A e \in audit : e.at # r.at
      /\ \A d \in Calls \ {c} : call[d] # Idle => call[d].req.at # r.at
      /\ Pending(c) => call[c].entry.at = r.at
  BY Zenon DEF RequestsFit
<1>2. /\ reply'[c] = [req |-> r, status |-> s] /\ call'[c] = Idle
      /\ \A d \in Calls \ {c} : reply'[d] = reply[d] /\ call'[d] = call[d]
  BY Zenon DEF Answer, TypeOK
<1>3. \A e \in audit' : e \in audit \/ (e = call[c].entry /\ e.at = r.at)
  BY <1>1, Zenon
<1> HIDE DEF r
<1>4. AnsweredFit'
  BY <1>1, <1>2, <1>3 DEF AnsweredFit, RequestsFit
<1>5. ASSUME NEW d \in Calls, call'[d] # Idle PROVE OpenFits(d)'
  <2>1. d # c /\ call[d] # Idle /\ call'[d] = call[d]
    BY <1>2, <1>5, Zenon
  <2>2. OpenFits(d) /\ call[d].req.at # r.at
    BY <1>1, <2>1, Zenon DEF RequestsFit, OpenFits
  <2>3. Pending(d)' <=> Pending(d)
    BY <2>1, Zenon DEF Pending
  <2>4. \A b \in Calls \ {d} : call'[b] # Idle => call'[b].req.at # call[d].req.at
    BY <1>2, <2>2, Zenon DEF OpenFits
  <2>5. \A b \in Calls : reply'[b] # NoReply => reply'[b].req.at # call[d].req.at
    BY <1>2, <2>2 DEF OpenFits
  <2>6. \A e \in audit' : e.at # call[d].req.at
    BY <1>3, <2>2, Zenon DEF OpenFits
  <2> QED BY <2>1, <2>2, <2>3, <2>4, <2>5, <2>6, Zenon DEF OpenFits
<1> QED BY <1>4, <1>5, Zenon

(* A transaction that starts, or that goes on to its write. *)
LEMMA RequestsAfterMove ==
  ASSUME TypeOK, RequestsFit, NEW c \in Calls, UNCHANGED <<audit, reply>>,
         begun' >= begun, begun' \in Nat,
         \A d \in Calls \ {c} : call'[d] = call[d],
         call'[c] # Idle, call'[c].req.at \in Nat, call'[c].req.at <= begun',
         call'[c].req.at > begun \/ (call[c] # Idle /\ call'[c].req = call[c].req),
         LET r == call'[c].req IN
         /\ call'[c].pc = "wrote" /\ ~(r.op = "delete" /\ r.flag) => Pending(c)'
         /\ Pending(c)' =>
               LET e == call'[c].entry IN
               /\ e.at = r.at /\ e.key = r.key /\ e.by = r.by
               /\ IF r.op = "delete" THEN e.new = NoRow ELSE e.new.value = r.value
  PROVE  AnsweredFit' /\ \A d \in Calls : call'[d] # Idle => OpenFits(d)'
<1> DEFINE n == call'[c].req.at
<1>1. /\ \A e \in audit : e.at \in Nat /\ e.at <= begun
      /\ \A d \in Calls : reply[d] # NoReply =>
            reply[d].req.at \in Nat /\ reply[d].req.at <= begun
      /\ \A d \in Calls : call[d] # Idle =>
            call[d].req.at \in Nat /\ call[d].req.at <= begun
      /\ begun \in Nat
  BY CallTyped DEF TypeOK, Entry, Request, RequestsFit
<1>2. /\ \A e \in audit : e.at # n
      /\ \A d \in Calls : reply[d] # NoReply => reply[d].req.at # n
      /\ \A d \in Calls \ {c} : call[d] # Idle => call[d].req.at # n
  <2>1. CASE n > begun
    BY <1>1, <2>1
  <2>2. CASE call[c] # Idle /\ call'[c].req = call[c].req
    BY <2>2 DEF RequestsFit
  <2> QED BY <2>1, <2>2, Zenon
<1>3. AnsweredFit'
  BY <1>1 DEF AnsweredFit, RequestsFit
<1>4. OpenFits(c)'
  BY <1>2, Zenon DEF OpenFits
<1>5. ASSUME NEW d \in Calls \ {c}, call'[d] # Idle PROVE OpenFits(d)'
  <2>1. call[d] # Idle /\ call'[d] = call[d] /\ (Pending(d)' <=> Pending(d))
    BY <1>5, Zenon DEF Pending
  <2>2. OpenFits(d)
    BY <2>1, Zenon DEF RequestsFit, OpenFits
  <2>3. \A b \in Calls \ {d} : call'[b] # Idle => call'[b].req.at # call[d].req.at
    BY <1>2, <2>1, <2>2 DEF OpenFits
  <2>4. call[d].req.at <= begun'
    BY <1>1, <2>1
  <2> QED BY <2>1, <2>2, <2>3, <2>4 DEF OpenFits
<1> QED BY <1>3, <1>4, <1>5, Zenon

LEMMA RequestsStep ==
  ASSUME TypeOK, TypeOK', RequestsFit, [Next]_vars
  PROVE  RequestsFit'
<1> DEFINE Goal == AnsweredFit' /\ \A d \in Calls : call'[d] # Idle => OpenFits(d)'
<1>0. SUFFICES Goal
  BY Zenon DEF RequestsFit, AnsweredFit, OpenFits
<1>1. CASE UNCHANGED <<audit, call, reply, begun>>
  <2>1. AnsweredFit /\ \A d \in Calls : call[d] # Idle => OpenFits(d)
    BY Zenon DEF RequestsFit, AnsweredFit, OpenFits
  <2> QED BY <1>1, <2>1, SMTT(40) DEF AnsweredFit, OpenFits, Pending
<1>2. ASSUME NEW c \in Calls, Begin(c) PROVE Goal
  <2>1. PICK r \in Sent(begun + 1) :
           IF r.by \in Editors[ServiceOf[r.key]]
           THEN call' = [call EXCEPT ![c] = [pc |-> "open", req |-> r]] /\ UNCHANGED reply
           ELSE Answer(c, r, "PERMISSION_DENIED")
    BY <1>2, Zenon DEF Begin
  <2>2. r.at = begun + 1 /\ begun' = begun + 1 /\ begun \in Nat /\ begun' \in Nat
    BY <1>2, <2>1 DEF Sent, Begin, TypeOK
  <2>3. audit' = audit /\ call[c] = Idle
    BY <1>2, Zenon DEF Begin
  <2>4. CASE call' = [call EXCEPT ![c] = [pc |-> "open", req |-> r]] /\ UNCHANGED reply
    <3>1. /\ call'[c] = [pc |-> "open", req |-> r]
          /\ \A d \in Calls \ {c} : call'[d] = call[d]
      BY <2>4, Zenon DEF TypeOK
    <3>2. call'[c] # Idle /\ call'[c].req = r /\ call'[c].pc = "open"
      BY <3>1 DEF Idle
    <3>3. ~Pending(c)'
      BY <3>2, Zenon DEF Pending
    <3> QED BY <2>2, <2>3, <2>4, <3>1, <3>2, <3>3, RequestsAfterMove
  <2>5. CASE Answer(c, r, "PERMISSION_DENIED")
    <3>1. /\ reply'[c] = [req |-> r, status |-> "PERMISSION_DENIED"]
          /\ \A d \in Calls \ {c} : reply'[d] = reply[d]
          /\ call' = call
      BY <2>3, <2>5, SMTT(40) DEF Answer, TypeOK
    <3>2. /\ \A e \in audit : e.at \in Nat /\ e.at <= begun
          /\ \A d \in Calls : reply[d] # NoReply =>
                reply[d].req.at \in Nat /\ reply[d].req.at <= begun
          /\ \A d \in Calls : call[d] # Idle =>
                call[d].req.at \in Nat /\ call[d].req.at <= begun
      BY CallTyped, SMTT(40) DEF TypeOK, Entry, Request, RequestsFit
    <3>3. AnsweredFit'
      BY <2>2, <2>3, <3>1, <3>2, SMTT(40) DEF AnsweredFit, RequestsFit
    <3>4. ASSUME NEW d \in Calls, call'[d] # Idle PROVE OpenFits(d)'
      <4>1. OpenFits(d) /\ (Pending(d)' <=> Pending(d))
        BY <3>1, <3>4, Zenon DEF RequestsFit, OpenFits, Pending
      <4>2. call[d].req.at <= begun' /\ call[d].req.at # r.at
        BY <2>2, <3>1, <3>2, <3>4
      <4> QED BY <2>3, <3>1, <4>1, <4>2, SMTT(40) DEF OpenFits
    <3> QED BY <3>3, <3>4, Zenon
  <2> QED BY <2>1, <2>4, <2>5, Zenon
<1>3. ASSUME NEW c \in Calls, Statement(c) PROVE Goal
  <2> DEFINE r == call[c].req
  <2>1. /\ call[c] # Idle /\ audit' = audit /\ begun' = begun
    BY <1>3, SMTT(40) DEF Statement, Idle
  <2>2. r \in Request /\ r.at \in Nat /\ r.at <= begun /\ begun \in Nat
    BY <2>1, CallTyped, SMTT(40) DEF Request, RequestsFit, TypeOK
  <2>3. CASE Outcome(r) # "OK"
    <3>1. Answer(c, r, Outcome(r))
      BY <1>3, <2>3, Zenon DEF Statement
    <3> QED BY <2>1, <3>1, RequestsAfterAnswer, Zenon
  <2>4. CASE Outcome(r) = "OK"
    <3> DEFINE e == IF Affects(r) THEN Audited(r) ELSE NoEntry
    <3>1. /\ call' = [call EXCEPT ![c] = [pc |-> "wrote", req |-> r, entry |-> e]]
          /\ reply' = reply
      BY <1>3, <2>4, Zenon DEF Statement
    <3>2. call'[c] = [pc |-> "wrote", req |-> r, entry |-> e]
          /\ \A d \in Calls \ {c} : call'[d] = call[d]
      BY <3>1, Zenon DEF TypeOK
    <3>3. call'[c] # Idle /\ call'[c].req = r /\ call'[c].pc = "wrote" /\ call'[c].entry = e
      BY <3>2 DEF Idle
    <3>4. Pending(c)' <=> e # NoEntry
      BY <3>3, Zenon DEF Pending
    <3>5. e # NoEntry =>
             /\ e.at = r.at /\ e.key = r.key /\ e.by = r.by
             /\ IF r.op = "delete" THEN e.new = NoRow ELSE e.new.value = r.value
      BY <2>2, EntryAnswers, Zenon
    <3>6. ~(r.op = "delete" /\ r.flag) => e # NoEntry
      <4>1. CASE r.op = "delete" /\ ~r.flag
        BY <2>2, <2>4, <4>1, EntryAnswers, Zenon DEF Outcome, Inserts, Affects
      <4>2. CASE r.op # "delete"
        BY <2>2, <4>2, EntryAnswers, Zenon DEF Affects
      <4> QED BY <4>1, <4>2, Zenon
    <3> HIDE DEF r, e
    <3> QED BY <2>1, <2>2, <3>1, <3>2, <3>3, <3>4, <3>5, <3>6, RequestsAfterMove DEF r
  <2> QED BY <2>3, <2>4, Zenon
<1>4. ASSUME NEW c \in Calls, Commit(c) PROVE Goal
  <2>1. call[c] # Idle /\ begun' = begun
    BY <1>4 DEF Commit, Idle
  <2>2. PICK s \in {"OK"} \cup DatabaseErrors : Answer(c, call[c].req, s)
    BY <1>4, Zenon DEF Commit
  <2>3. audit' = audit \/ (Pending(c) /\ audit' = audit \cup {call[c].entry})
    BY <1>4, Zenon DEF Commit, Pending
  <2> QED BY <2>1, <2>2, <2>3, RequestsAfterAnswer, Zenon
<1>5. ASSUME NEW c \in Calls, Disconnect(c) PROVE Goal
  BY <1>5, RequestsAfterAnswer, Zenon DEF Disconnect
<1>6. ASSUME NEW s \in Services, Register(s) PROVE Goal
  BY <1>1, <1>6, Zenon DEF Register
<1>7. CASE UNCHANGED vars
  BY <1>1, <1>7, Zenon DEF vars
<1> HIDE DEF Goal
<1> QED BY <1>2, <1>3, <1>4, <1>5, <1>6, <1>7, Zenon DEF Next, Handle

(* What quotamgmt tells a caller agrees with the audit trail: success has  *)
(* its one entry under the caller's name, failure none, and only the two   *)
(* statuses of a database error leave it open.                             *)
THEOREM RepliesAreHonest == Spec => []RepliesMatchAudit
<1>1. TypeOK /\ RequestsFit /\ RepliesMatchAudit /\ [Next]_vars
         => (TypeOK /\ RequestsFit /\ RepliesMatchAudit)'
  BY TypeStep, RequestsStep, RepliesStep, Zenon
<1> QED BY TypeInit, RequestsInit, <1>1, PTL DEF Spec
---------------------------------------------------------------------------
LEMMA WritersInit == Init => WritersFit
  BY DEF Init, WritersFit, Pending, Idle

(* Services are only ever added, one at a time. *)
LEMMA ServicesStep ==
  ASSUME [Next]_vars
  PROVE  UNCHANGED services \/ \E s \in Services : Register(s)
  BY Zenon DEF Next, Handle, vars, Begin, Statement, Commit, Disconnect

(* A request is at work only for someone who may edit its tuple. *)
LEMMA OpenedByEditor ==
  ASSUME TypeOK, WritersFit, [Next]_vars, NEW c \in Calls, call'[c] # Idle
  PROVE  call'[c].req.by \in Editors[ServiceOf[call'[c].req.key]]
<1> DEFINE Goal == call'[c].req.by \in Editors[ServiceOf[call'[c].req.key]]
<1>1. ASSUME call'[c] = call[c] PROVE Goal
  BY <1>1, Zenon DEF WritersFit
<1>2. ASSUME NEW d \in Calls, NEW r, NEW s, Answer(d, r, s) PROVE Goal
  <2>1. d # c /\ call'[c] = call[c]
    BY <1>2, Zenon DEF Answer, TypeOK
  <2> QED BY <1>1, <2>1, Zenon
<1>3. ASSUME NEW d \in Calls, Begin(d) PROVE Goal
  <2>1. PICK r \in Sent(begun + 1) :
           IF r.by \in Editors[ServiceOf[r.key]]
           THEN call' = [call EXCEPT ![d] = [pc |-> "open", req |-> r]] /\ UNCHANGED reply
           ELSE Answer(d, r, "PERMISSION_DENIED")
    BY <1>3, Zenon DEF Begin
  <2>2. CASE Answer(d, r, "PERMISSION_DENIED")
    BY <1>2, <2>2, Zenon
  <2>3. CASE /\ r.by \in Editors[ServiceOf[r.key]]
             /\ call' = [call EXCEPT ![d] = [pc |-> "open", req |-> r]]
    <3>1. call'[c] = call[c] \/ call'[c].req = r
      BY <2>3, Zenon DEF TypeOK
    <3> QED BY <1>1, <2>3, <3>1, Zenon
  <2> QED BY <2>1, <2>2, <2>3, Zenon
<1>4. ASSUME NEW d \in Calls, Statement(d) PROVE Goal
  <2>1. CASE Outcome(call[d].req) # "OK"
    BY <1>2, <1>4, <2>1, Zenon DEF Statement
  <2>2. CASE Outcome(call[d].req) = "OK"
    <3>1. call[d] # Idle
      BY <1>4 DEF Statement, Idle
    <3>2. PICK e : call' = [call EXCEPT ![d] = [pc |-> "wrote", req |-> call[d].req,
                                                entry |-> e]]
      BY <1>4, <2>2, Zenon DEF Statement
    <3>3. call'[c] = call[c] \/ (d = c /\ call'[c].req = call[c].req)
      BY <3>2, Zenon DEF TypeOK
    <3> QED BY <1>1, <3>1, <3>3, Zenon DEF WritersFit
  <2> QED BY <2>1, <2>2, Zenon
<1>5. ASSUME NEW d \in Calls, Commit(d) \/ Disconnect(d) PROVE Goal
  BY <1>2, <1>5, Zenon DEF Commit, Disconnect
<1>6. ASSUME UNCHANGED call PROVE Goal
  BY <1>1, <1>6, Zenon
<1> HIDE DEF Goal
<1>7. Goal
  BY <1>3, <1>4, <1>5, <1>6, Zenon DEF Next, Handle, Register, vars
<1> QED BY <1>7, Zenon DEF Goal
LEMMA WritersStep ==
  ASSUME TypeOK, ChangesFit, WritersFit, [Next]_vars
  PROVE  WritersFit'
<1> DEFINE OfWriter(e) ==
         ServiceOf[e.key] \in services' /\ (e.op = "INSERT" <=> e.old = NoRow)
<1>1. services \subseteq services'
  BY ServicesStep, Zenon DEF Register
<1>2. \A c \in Calls : call'[c] # Idle =>
         call'[c].req.by \in Editors[ServiceOf[call'[c].req.key]]
  BY OpenedByEditor, Zenon
<1>3. \A c \in Calls : Pending(c) => OfWriter(call[c].entry)
  BY <1>1, Zenon DEF WritersFit
<1>4. ASSUME Quiet PROVE WritersFit'
  BY <1>1, <1>2, <1>3, <1>4, Zenon DEF Quiet, WritersFit
<1>5. ASSUME NEW c \in Calls, NEW r \in Request, WritesEntry(c, r) PROVE WritersFit'
  <2> DEFINE e == Audited(r)
  <2>1. call'[c].entry = e /\ e.key = r.key /\ e.id = nextAudit /\ e.old = limits[r.key]
    BY <1>5, Zenon DEF WritesEntry, Audited
  <2>2. e.op = "INSERT" <=> e.old = NoRow
    BY <1>5, <2>1, EntryKinds, Zenon DEF WritesEntry
  <2>3. ServiceOf[r.key] \in services
    <3>1. CASE Inserts(r)
      BY <1>5, <3>1, Zenon DEF WritesEntry, Outcome
    <3>2. CASE ~Inserts(r)
      <4>1. limits[r.key] # NoRow
        BY <1>5, <3>2, EntryKinds, Zenon DEF WritesEntry
      <4> QED BY <4>1, Zenon DEF WritersFit, Request
    <3> QED BY <3>1, <3>2, Zenon
  <2>4. OfWriter(e)
    BY <1>1, <2>1, <2>2, <2>3, Zenon
  <2>5. \A f \in audit : f.id # nextAudit
    BY DEF ChangesFit, TypeOK, Entry
  <2>6. \A d \in Calls : Pending(d) => call[d].entry.id # nextAudit
    BY PendingTyped DEF ChangesFit, TypeOK, Entry
  <2>7. \A d \in Calls \ {c} : call'[d] = call[d] /\ (Pending(d)' <=> Pending(d))
    BY <1>5, Zenon DEF WritesEntry, Pending
  <2> HIDE DEF e, OfWriter
  <2>8. \A d \in Calls : Pending(d)' => OfWriter(call'[d].entry)
    BY <1>3, <2>1, <2>4, <2>7, Zenon
  <2>9. \A d \in Calls : Pending(d)' =>
           /\ \A f \in audit' : f.id # call'[d].entry.id
           /\ \A b \in Calls \ {d} : Pending(b)' => call'[b].entry.id # call'[d].entry.id
    <3>1. \A d \in Calls \ {c} : Pending(d)' =>
             /\ call'[d].entry.id # nextAudit
             /\ \A f \in audit : f.id # call'[d].entry.id
             /\ \A b \in Calls \ {c, d} : Pending(b)' => call'[b].entry.id # call'[d].entry.id
      BY <2>6, <2>7, Zenon DEF WritersFit
    <3>2. audit' = audit /\ call'[c].entry.id = nextAudit
      BY <1>5, <2>1, Zenon DEF WritesEntry
    <3> QED BY <2>5, <3>1, <3>2, Zenon
  <2>10. \A k \in Keys : limits'[k] # NoRow => ServiceOf[k] \in services'
    BY <1>1, <1>5, Zenon DEF WritesEntry, WritersFit
  <2> QED BY <1>2, <2>8, <2>9, <2>10, Zenon DEF WritersFit, OfWriter
<1>6. ASSUME NEW c \in Calls, CommitsEntry(c) PROVE WritersFit'
  <2>1. Pending(c) /\ ServiceOf[call[c].entry.key] \in services
        /\ call[c].entry.key \in Keys
    BY <1>6, PendingTyped, Zenon DEF CommitsEntry, WritersFit, Entry
  <2>2. \A d \in Calls : Pending(d)' =>
           d # c /\ Pending(d) /\ call'[d].entry = call[d].entry
    BY <1>6 DEF CommitsEntry, Pending, Idle
  <2>3. \A k \in Keys : limits'[k] # NoRow => ServiceOf[k] \in services'
    BY <1>1, <1>6, <2>1, Zenon DEF CommitsEntry, WritersFit, TypeOK
  <2>4. \A d \in Calls : Pending(d)' => OfWriter(call'[d].entry)
    BY <1>3, <2>2, Zenon
  <2>5. \A d \in Calls : Pending(d)' =>
           /\ \A f \in audit' : f.id # call'[d].entry.id
           /\ \A b \in Calls \ {d} : Pending(b)' => call'[b].entry.id # call'[d].entry.id
    <3>1. audit' = audit \cup {call[c].entry}
      BY <1>6, Zenon DEF CommitsEntry
    <3>2. \A d \in Calls : Pending(d)' =>
             /\ \A f \in audit : f.id # call[d].entry.id
             /\ call[c].entry.id # call[d].entry.id
             /\ \A b \in Calls \ {d} : Pending(b) => call[b].entry.id # call[d].entry.id
      BY <2>1, <2>2, Zenon DEF WritersFit
    <3> QED BY <2>2, <3>1, <3>2, Zenon
  <2> QED BY <1>2, <2>3, <2>4, <2>5, Zenon DEF WritersFit
<1> QED BY <1>4, <1>5, <1>6, StepEffect, Zenon

(* A commit is a change of the audited table. *)
LEMMA CommitIsChange ==
  ASSUME TypeOK, ChangesFit, IdsFit, RequestsFit, WritersFit,
         NEW c \in Calls, CommitsEntry(c), UNCHANGED services
  PROVE  call[c].entry \in audit' \ audit /\ Table!Change(call[c].entry)
<1> DEFINE e == call[c].entry
<1>1. Pending(c) /\ call[c] # Idle /\ e \in Entry
  BY PendingTyped DEF CommitsEntry, Pending, Idle
<1>2. limits' = [limits EXCEPT ![e.key] = e.new] /\ audit' = audit \cup {e}
  BY Zenon DEF CommitsEntry
<1>3. e.at = call[c].req.at /\ e.key = call[c].req.key /\ e.by = call[c].req.by
  BY <1>1, Zenon DEF RequestsFit
<1>4. ServiceOf[e.key] \in services /\ e.by \in Editors[ServiceOf[e.key]]
  BY <1>1, <1>3, Zenon DEF WritersFit
<1>5. Table!Follows(e)
  <2>1. \A f \in audit : f.id # e.id
    BY <1>1, Zenon DEF WritersFit
  <2>2. \A f \in audit : f.at # e.at
    <3>1. \A f \in audit : f.at # call[c].req.at
      BY <1>1, Zenon DEF RequestsFit
    <3> QED BY <1>3, <3>1, Zenon
  <2>3. \A f \in audit : f.key = e.key => f.id < e.id
    BY <1>1, Zenon DEF ChangesFit
  <2> QED BY <2>1, <2>2, <2>3, Zenon DEF Table!Follows
<1>6. e.old = limits[e.key]
  BY <1>1, Zenon DEF ChangesFit
<1>7. e \notin audit
  BY <1>1, Zenon DEF WritersFit
<1>8. Table!Inserts(e) \/ Table!Updates(e) \/ Table!Deletes(e)
  <2>1. /\ e.op = "INSERT" <=> e.old = NoRow
        /\ e.op = "DELETE" <=> e.new = NoRow
        /\ e.new # NoRow => e.new.id = e.config
    BY <1>1, Zenon DEF WritersFit, IdsFit
  <2>2. e.new # NoRow => e.new.value \in Values
    BY <1>1, Zenon DEF Entry, Row
  <2>3. e.op \in {"INSERT", "UPDATE", "DELETE"}
    BY <1>1, Zenon DEF Entry
  <2>4. e.op = "INSERT" => \A f \in audit : f.config # e.config
    BY <1>1, Zenon DEF IdsFit
  <2>5. e.op # "INSERT" => e.old.id = e.config
    BY <1>1, <1>6, Zenon DEF IdsFit
  <2> HIDE DEF e
  <2>6. CASE e.op = "INSERT"
    BY <2>1, <2>2, <2>4, <2>6 DEF Table!Inserts
  <2>7. CASE e.op = "UPDATE"
    BY <2>1, <2>2, <2>5, <2>7 DEF Table!Updates
  <2>8. CASE e.op = "DELETE"
    BY <2>1, <2>5, <2>8 DEF Table!Deletes
  <2> QED BY <2>3, <2>6, <2>7, <2>8, Zenon
<1> HIDE DEF e
<1>9. Table!Change(e)
  BY <1>2, <1>4, <1>5, <1>6, <1>8, Zenon DEF Table!Change
<1> QED BY <1>2, <1>7, <1>9, Zenon DEF e

(* Every step of a handler is a change of the audited table or is not seen *)
(* there at all.                                                           *)
LEMMA TableStep ==
  ASSUME TypeOK, ChangesFit, IdsFit, RequestsFit, WritersFit, [Next]_vars
  PROVE  [Table!TableNext]_(Table!tableVars)
<1>1. ASSUME NEW s \in Services, Register(s) PROVE Table!TableNext
  BY <1>1, Zenon DEF Register, Table!Enroll, Table!TableNext
<1>2. ASSUME NEW c \in Calls, CommitsEntry(c), UNCHANGED services PROVE Table!TableNext
  BY <1>2, CommitIsChange, Zenon DEF Table!TableNext
<1>3. ASSUME UNCHANGED <<services, limits, audit>> PROVE UNCHANGED Table!tableVars
  BY <1>3, Zenon DEF Table!tableVars
<1> QED BY <1>1, <1>2, <1>3, ServicesStep, StepEffect, Zenon DEF Quiet, WritesEntry

(* quotamgmt implements the audited table: whatever handlers run at once,  *)
(* wait, fail, roll back or lose their connection, limit_config changes    *)
(* one row at a time, by an editor, from the row as it is, and together    *)
(* with the one entry that tells the change.                               *)
THEOREM StoreImplementsTable == Spec => ImplementsTable
<1>1. Init => Table!TableInit
  BY Zenon DEF Init, Table!TableInit
<1>2. /\ TypeOK /\ ChangesFit /\ IdsFit /\ RequestsFit /\ WritersFit /\ [Next]_vars
      => (TypeOK /\ ChangesFit /\ IdsFit /\ RequestsFit /\ WritersFit)'
  BY TypeStep, ChangesStep, IdsStep, RequestsStep, WritersStep, Zenon
<1>3. Spec => [](TypeOK /\ ChangesFit /\ IdsFit /\ RequestsFit /\ WritersFit)
  BY TypeInit, ChangesInit, IdsInit, RequestsInit, WritersInit, <1>2, PTL DEF Spec
<1>4. TypeOK /\ ChangesFit /\ IdsFit /\ RequestsFit /\ WritersFit /\ [Next]_vars
         => [Table!TableNext]_(Table!tableVars)
  BY TableStep, Zenon
<1> QED BY <1>1, <1>3, <1>4, PTL DEF Spec, ImplementsTable, Table!TableSpec
===============================================================================
