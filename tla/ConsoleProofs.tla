--------------------------- MODULE ConsoleProofs ---------------------------
(* Proofs about Console, for any number of people, tuples, requests in     *)
(* flight, restarts and charges, and every review policy.                  *)
EXTENDS Console, TLAPS

LEMMA CallTyped ==
  ASSUME TypeOK, NEW h \in Handlers
  PROVE  /\ handler[h] # Free <=> handler[h] \in Call
         /\ handler[h].pc # "free" => handler[h] \in Call
  BY DEF TypeOK, Free, Call

LEMMA ReviewTyped ==
  ASSUME TypeOK, NEW i \in Ids, reviews[i].status # "none"
  PROVE  reviews[i] \in Review
  BY DEF TypeOK, NoReview

LEMMA ReviewedTyped ==
  ASSUME NEW op \in Ops
  PROVE  Reviewed(op) \in Ops /\ SameChange(op, Reviewed(op))
  BY Zenon DEF Reviewed, Ops, SameChange

LEMMA StartedTyped ==
  ASSUME NEW u \in Users, NEW op \in Ops, NEW n \in Ids, NEW r \in {Direct} \cup Ids
  PROVE  Started(u, op, n, r) \in Call
  BY BoundAssumption DEF Started, Call, Ops

LEMMA TypeInit == Init => TypeOK
<1> SUFFICES ASSUME Init PROVE TypeOK
  BY Zenon
<1> QED BY BoundAssumption DEF Init, TypeOK

LEMMA TypeStep == TypeOK /\ [Next]_vars => TypeOK'
<1> SUFFICES ASSUME TypeOK, [Next]_vars PROVE TypeOK'
  BY Zenon
<1>1. CASE UNCHANGED vars
  BY <1>1, Zenon DEF TypeOK, vars
<1>2. ASSUME NEW h \in Handlers, NEW u \in Users, NEW op \in Requests, Submit(h, u, op)
      PROVE  TypeOK'
  <2>1. op \in Ops /\ sent + 1 \in Ids /\ sent' \in 0 .. MaxRequests
    BY <1>2, RequestAssumption, BoundAssumption DEF Submit, TypeOK, Ids
  <2>2. Started(u, op, sent + 1, Direct) \in Call
    BY <2>1, StartedTyped, Zenon
  <2>3. [op |-> op, initiator |-> u, status |-> "pending"] \in Review
    BY <2>1, Zenon DEF Review
  <2> QED BY <1>2, <2>1, <2>2, <2>3, Zenon DEF TypeOK, Submit, backends
<1>3. ASSUME NEW h \in Handlers, NEW u \in Users, NEW i \in Ids, Approve(h, u, i)
      PROVE  TypeOK'
  <2>1. sent + 1 \in Ids /\ sent' \in 0 .. MaxRequests
    BY <1>3, BoundAssumption DEF Approve, TypeOK, Ids
  <2>2. reviews[i] \in Review
    BY <1>3, ReviewTyped, Zenon DEF Approve, MayDecide
  <2>3. Started(u, Reviewed(reviews[i].op), sent + 1, i) \in Call
    BY <2>1, <2>2, StartedTyped, ReviewedTyped, Zenon DEF Review
  <2>4. [reviews[i] EXCEPT !.status = "approved"] \in Review
    BY <2>2, Zenon DEF Review
  <2> QED BY <1>3, <2>1, <2>3, <2>4, Zenon DEF TypeOK, Approve, backends
<1>4. ASSUME NEW u \in Users, NEW i \in Ids, Reject(u, i) PROVE TypeOK'
  <2>1. [reviews[i] EXCEPT !.status = "rejected"] \in Review
    BY <1>4, ReviewTyped, Zenon DEF Review, Reject, MayDecide
  <2> QED BY <1>4, <2>1, Zenon DEF TypeOK, Reject, backends
<1>5. ASSUME NEW h \in Handlers, GetUsage(h) PROVE TypeOK'
  <2>1. handler[h] \in Call /\ handler[h].op.key \in Keys
    BY <1>5, CallTyped, Zenon DEF GetUsage, Call, Ops
  <2>2. Entry(handler[h], 0) \in LogEntry
    BY <2>1, Zenon DEF Entry, LogEntry, Call
  <2>3. [handler[h] EXCEPT !.pc = "send", !.amount = used[handler[h].op.key],
            !.charged = charged[handler[h].op.key], !.epoch = epoch[handler[h].op.key]] \in Call
    BY <2>1, Zenon DEF Call, TypeOK
  <2> QED BY <1>5, <2>2, <2>3, Zenon DEF TypeOK, GetUsage, backends
<1>6. ASSUME NEW h \in Handlers, Execute(h) PROVE TypeOK'
  <2> DEFINE c == handler[h]
             k == c.op.key
             e == [n |-> c.n, op |-> c.op, by |-> c.user, review |-> c.review,
                   created |-> c.op.kind = "update" /\ cap[k] = 0]
  <2>1. c \in Call /\ k \in Keys /\ c.op.arg \in 1 .. MaxAmount
    BY <1>6, CallTyped, Zenon DEF Execute, Call, Ops
  <2>2. e \in Effect
    BY <2>1, Zenon DEF Effect, Call
  <2>3. [c EXCEPT !.pc = "executed"] \in Call
    BY <2>1, Zenon DEF Call
  <2>4. cap' \in [Keys -> 0 .. MaxAmount]
    BY <1>6, <2>1, BoundAssumption DEF Execute, TypeOK
  <2>5. used' \in [Keys -> Nat] /\ epoch' \in [Keys -> Nat]
    <3>1. Refunded(k, c.amount) \in Nat
      BY <2>1 DEF Refunded, TypeOK, Call
    <3> QED BY <1>6, <2>1, <3>1 DEF Execute, TypeOK
  <2>6. effects' \subseteq Effect
    BY <1>6, <2>2, Zenon DEF Execute, TypeOK
  <2>7. handler' \in [Handlers -> {Free} \cup Call]
    BY <1>6, <2>3, Zenon DEF Execute, TypeOK
  <2> QED BY <1>6, <2>4, <2>5, <2>6, <2>7, Zenon DEF TypeOK, Execute
<1>7. ASSUME NEW h \in Handlers, Answered(h) PROVE TypeOK'
  <2>1. Entry(handler[h], handler[h].amount) \in LogEntry
    BY <1>7, CallTyped, Zenon DEF Entry, LogEntry, Call, Answered
  <2> QED BY <1>7, <2>1, Zenon DEF TypeOK, Answered, backends
<1>8. ASSUME NEW h \in Handlers, Failed(h) PROVE TypeOK'
  BY <1>8, Zenon DEF TypeOK, Failed, backends
<1>9. ASSUME Restart PROVE TypeOK'
  <2>1. ASSUME NEW i \in Ids, reviews[i] # NoReview
        PROVE  [reviews[i] EXCEPT !.status = "lost"] \in Review
    BY <2>1, Zenon DEF TypeOK, Review
  <2>2. ASSUME NEW h \in Handlers, handler[h].pc \in {"send", "orphan"}
        PROVE  [handler[h] EXCEPT !.pc = "orphan"] \in Call
    BY <2>2, CallTyped, Zenon DEF Call
  <2>3. reviews' \in [Ids -> {NoReview} \cup Review]
    BY <1>9, <2>1, Zenon DEF Restart
  <2>4. handler' \in [Handlers -> {Free} \cup Call]
    BY <1>9, <2>2, Zenon DEF Restart
  <2> QED BY <1>9, <2>3, <2>4, BoundAssumption DEF TypeOK, Restart, backends
<1>10. ASSUME NEW k \in Keys, Charge(k) PROVE TypeOK'
  BY <1>10 DEF TypeOK, Charge
<1>11. ASSUME NEW k \in Keys, Roll(k) PROVE TypeOK'
  BY <1>11 DEF TypeOK, Roll
<1> QED BY <1>1, <1>2, <1>3, <1>4, <1>5, <1>6, <1>7, <1>8, <1>9, <1>10, <1>11, Zenon DEF Next

(* Counters never go below zero, whatever is refunded and reset, and the   *)
(* console's state is well formed.                                         *)
THEOREM ConsoleTypeCorrect == Spec => []TypeOK
  BY TypeInit, TypeStep, PTL DEF Spec

(* A decided review is never decided again, forgotten or not. *)
Decided(i) == reviews[i].status \in {"approved", "lost"}

Stays(i) ==
    /\ reviews'[i].status \in {"approved", "lost"}
    /\ reviews'[i].op = reviews[i].op /\ reviews'[i].initiator = reviews[i].initiator

LEMMA DecidedStays ==
  ASSUME TypeOK, CallsSanctioned, [Next]_vars, NEW i \in Ids, Decided(i)
  PROVE  Stays(i)
<1> reviews[i] \in Review /\ reviews[i] # NoReview
  BY ReviewTyped DEF Decided, NoReview
<1>1. CASE UNCHANGED reviews
  BY <1>1, Zenon DEF Decided, Stays
<1>2. ASSUME NEW h \in Handlers, NEW u \in Users, NEW op \in Requests, Submit(h, u, op)
      PROVE  Stays(i)
  <2>1. sent + 1 \in Ids /\ sent + 1 > sent
    BY <1>2, BoundAssumption DEF Submit, TypeOK, Ids
  <2>2. i # sent + 1
    BY <2>1, Zenon DEF CallsSanctioned
  <2> QED BY <1>2, <2>2, Zenon DEF Submit, Stays, Decided, TypeOK
<1>3. ASSUME NEW h \in Handlers, NEW u \in Users, NEW j \in Ids, Approve(h, u, j)
      PROVE  Stays(i)
  BY <1>3, Zenon DEF Approve, MayDecide, Decided, Stays, TypeOK
<1>4. ASSUME NEW u \in Users, NEW j \in Ids, Reject(u, j) PROVE Stays(i)
  BY <1>4, Zenon DEF Reject, MayDecide, Decided, Stays, TypeOK
<1>5. ASSUME Restart PROVE Stays(i)
  BY <1>5, Zenon DEF Restart, Stays, Review
<1>6. \/ UNCHANGED reviews \/ Restart
      \/ \E h \in Handlers, u \in Users, op \in Requests : Submit(h, u, op)
      \/ \E h \in Handlers, u \in Users, j \in Ids : Approve(h, u, j)
      \/ \E u \in Users, j \in Ids : Reject(u, j)
  BY Zenon DEF Next, vars, GetUsage, Execute, Answered, Failed, Charge, Roll
<1> QED BY <1>1, <1>2, <1>3, <1>4, <1>5, <1>6, Zenon

LEMMA SanctionStays ==
  ASSUME TypeOK, CallsSanctioned, [Next]_vars, NEW op, NEW u, NEW r \in {Direct} \cup Ids,
         Sanctioned(op, u, r)
  PROVE  Sanctioned(op, u, r)'
<1>1. CASE r = Direct
  BY <1>1, Zenon DEF Sanctioned, NeedsReview
<1>2. CASE r # Direct
  <2>1. Stays(r)
    BY <1>2, DecidedStays, Zenon DEF Sanctioned, Decided
  <2> QED BY <1>2, <2>1, Zenon DEF Sanctioned, Stays, SameChange
<1> QED BY <1>1, <1>2, Zenon

(* A step leaves each handler alone, frees it, moves it on with the same   *)
(* change, or starts it on a change that the policy or a fresh decision    *)
(* sanctions.                                                              *)
SameCall(a, b) ==
    b.n = a.n /\ b.op = a.op /\ b.user = a.user /\ b.review = a.review

Begins(h) ==
    \/ handler'[h].review = Direct /\ ~NeedsReview(handler'[h].op)
    \/ LET i == handler'[h].review IN
       /\ i \in Ids /\ reviews[i].status = "pending" /\ reviews'[i].status = "approved"
       /\ SameChange(reviews'[i].op, handler'[h].op)
       /\ handler'[h].user \in Operators /\ reviews'[i].initiator # handler'[h].user

LEMMA HandlerStep ==
  ASSUME TypeOK, [Next]_vars, NEW h \in Handlers, handler'[h] # Free
  PROVE  \/ handler[h] # Free /\ SameCall(handler[h], handler'[h])
         \/ /\ handler[h] = Free /\ Begins(h)
            /\ \A g \in Handlers \ {h} : handler'[g] = handler[g]
            /\ effects' = effects /\ handler'[h].pc # "executed"
            /\ handler'[h].n = sent + 1 /\ sent' = sent + 1
<1> DEFINE Goal ==
         \/ handler[h] # Free /\ SameCall(handler[h], handler'[h])
         \/ /\ handler[h] = Free /\ Begins(h)
            /\ \A g \in Handlers \ {h} : handler'[g] = handler[g]
            /\ effects' = effects /\ handler'[h].pc # "executed"
            /\ handler'[h].n = sent + 1 /\ sent' = sent + 1
<1>1. CASE handler'[h] = handler[h]
  BY <1>1, Zenon DEF SameCall
<1>2. ASSUME NEW g \in Handlers, NEW u \in Users, NEW op \in Requests, Submit(g, u, op),
             handler'[h] # handler[h]
      PROVE  Goal
  <2>1. g = h /\ handler[h] = Free /\ ~NeedsReview(op)
        /\ handler' = [handler EXCEPT ![h] = Started(u, op, sent + 1, Direct)]
    BY <1>2, Zenon DEF Submit, TypeOK
  <2>2. handler'[h] = Started(u, op, sent + 1, Direct)
    BY <2>1, Zenon DEF TypeOK
  <2>3. Begins(h) /\ handler'[h].pc # "executed" /\ handler'[h].n = sent + 1
    BY <2>1, <2>2 DEF Begins, Started
  <2> QED BY <1>2, <2>1, <2>3, Zenon DEF Submit, backends, TypeOK
<1>3. ASSUME NEW g \in Handlers, NEW u \in Users, NEW i \in Ids, Approve(g, u, i),
             handler'[h] # handler[h]
      PROVE  Goal
  <2>1. /\ g = h /\ handler[h] = Free /\ u \in Operators /\ MayDecide(u, i)
        /\ handler' = [handler EXCEPT ![h] =
                          Started(u, Reviewed(reviews[i].op), sent + 1, i)]
    BY <1>3, Zenon DEF Approve, TypeOK
  <2>2. handler'[h] = Started(u, Reviewed(reviews[i].op), sent + 1, i)
    BY <2>1, Zenon DEF TypeOK
  <2>3. reviews[i] \in Review /\ SameChange(reviews[i].op, Reviewed(reviews[i].op))
    BY <2>1, ReviewTyped, ReviewedTyped, Zenon DEF MayDecide, Review
  <2>4. /\ reviews'[i].status = "approved" /\ reviews'[i].op = reviews[i].op
        /\ reviews'[i].initiator = reviews[i].initiator
    BY <1>3, <2>3, Zenon DEF Approve, TypeOK, Review
  <2>5. /\ handler'[h].review = i /\ handler'[h].op = Reviewed(reviews[i].op)
        /\ handler'[h].user = u /\ handler'[h].pc # "executed"
        /\ handler'[h].n = sent + 1
    BY <2>2 DEF Started
  <2>6. Begins(h)
    BY <2>1, <2>3, <2>4, <2>5, Zenon DEF Begins, MayDecide
  <2> QED BY <1>3, <2>1, <2>5, <2>6, Zenon DEF Approve, backends, TypeOK
<1>4. ASSUME NEW g \in Handlers, GetUsage(g) \/ Execute(g) \/ Answered(g) \/ Failed(g),
             handler'[h] # handler[h]
      PROVE  Goal
  <2>1. g = h /\ handler[h] # Free
    BY <1>4 DEF GetUsage, Execute, Answered, Failed, Free, TypeOK
  <2>2. handler[h] \in Call
    BY <2>1, CallTyped, Zenon
  <2>3. CASE GetUsage(h)
    <3>1. handler'[h] = [handler[h] EXCEPT !.pc = "send",
             !.amount = used[handler[h].op.key], !.charged = charged[handler[h].op.key],
             !.epoch = epoch[handler[h].op.key]]
      BY <2>3, Zenon DEF GetUsage, TypeOK
    <3> QED BY <2>1, <2>2, <3>1, Zenon DEF SameCall, Call
  <2>4. CASE Execute(h)
    <3>1. handler'[h] = [handler[h] EXCEPT !.pc = "executed"]
      BY <2>4, Zenon DEF Execute, TypeOK
    <3> QED BY <2>1, <2>2, <3>1, Zenon DEF SameCall, Call
  <2>5. CASE Answered(h) \/ Failed(h)
    BY <2>5, Zenon DEF Answered, Failed, TypeOK
  <2> QED BY <1>4, <2>1, <2>3, <2>4, <2>5, Zenon
<1>5. ASSUME Restart, handler'[h] # handler[h] PROVE Goal
  <2>1. handler[h].pc \in {"send", "orphan"}
        /\ handler'[h] = [handler[h] EXCEPT !.pc = "orphan"]
    BY <1>5, Zenon DEF Restart
  <2>2. handler[h] \in Call /\ handler[h] # Free
    BY <2>1, CallTyped, Zenon
  <2> QED BY <2>1, <2>2, Zenon DEF SameCall, Call
<1>6. handler'[h] = handler[h] \/ Restart
      \/ (\E g \in Handlers, u \in Users, op \in Requests : Submit(g, u, op))
      \/ (\E g \in Handlers, u \in Users, i \in Ids : Approve(g, u, i))
      \/ (\E g \in Handlers : GetUsage(g) \/ Execute(g) \/ Answered(g) \/ Failed(g))
  BY Zenon DEF Next, vars, Reject, Charge, Roll
<1> QED BY <1>1, <1>2, <1>3, <1>4, <1>5, <1>6, Zenon

(* A step adds at most one effect, that of a handler's sent call. *)
Adds(h, e) ==
    /\ handler[h].pc \in {"send", "orphan"}
    /\ effects' = effects \cup {e} /\ e \in Effect
    /\ e.n = handler[h].n /\ e.op = handler[h].op /\ e.by = handler[h].user
    /\ e.review = handler[h].review
    /\ handler'[h] = Free \/ handler'[h].pc = "executed"
    /\ \A g \in Handlers \ {h} : handler'[g] = handler[g]

LEMMA EffectStep ==
  ASSUME TypeOK, [Next]_vars
  PROVE  effects' = effects \/ \E h \in Handlers, e \in Effect : Adds(h, e)
<1>1. ASSUME NEW h \in Handlers, Execute(h)
      PROVE  \E e \in Effect : Adds(h, e)
  <2> DEFINE c == handler[h]
             e == [n |-> c.n, op |-> c.op, by |-> c.user, review |-> c.review,
                   created |-> c.op.kind = "update" /\ cap[c.op.key] = 0]
  <2>1. c \in Call
    BY <1>1, CallTyped, Zenon DEF Execute
  <2>2. e \in Effect
    BY <2>1, Zenon DEF Effect, Call
  <2>3. effects' = effects \cup {e} /\ c.pc \in {"send", "orphan"}
    BY <1>1, Zenon DEF Execute
  <2>4. /\ handler'[h] = Free \/ handler'[h].pc = "executed"
        /\ \A g \in Handlers \ {h} : handler'[g] = handler[g]
    BY <1>1, <2>1, Zenon DEF Execute, TypeOK, Call
  <2>5. Adds(h, e)
    BY <2>2, <2>3, <2>4, Zenon DEF Adds
  <2> QED BY <2>2, <2>5, Zenon
<1>2. effects' = effects \/ \E h \in Handlers : Execute(h)
  BY Zenon DEF Next, vars, backends, Submit, Approve, Reject, GetUsage, Answered, Failed,
         Restart, Charge, Roll
<1> QED BY <1>1, <1>2, Zenon

LEMMA EffectTyped ==
  ASSUME TypeOK, NEW e \in effects
  PROVE  e \in Effect /\ e.review \in {Direct} \cup Ids
  BY Zenon DEF TypeOK, Effect

LEMMA SentStep ==
  ASSUME TypeOK, [Next]_vars
  PROVE  sent \in Nat /\ sent' \in Nat /\ sent <= sent'
<1>1. sent' = sent \/ sent' = sent + 1
  BY Zenon DEF Next, vars, Submit, Approve, Reject, GetUsage, Execute, Answered, Failed,
         Restart, Charge, Roll
<1> QED BY <1>1, BoundAssumption, SMTT(40) DEF TypeOK

LEMMA SanctionStep ==
  ASSUME TypeOK, CallsSanctioned, [Next]_vars
  PROVE  CallsSanctioned'
<1>1. ASSUME NEW i \in Ids, i > sent' PROVE reviews'[i] = NoReview
  <2>1. sent \in Nat /\ sent' \in Nat /\ sent <= sent'
    BY SentStep, Zenon
  <2>2. i > sent /\ reviews[i] = NoReview
    BY <1>1, <2>1 DEF CallsSanctioned, Ids
  <2>3. ASSUME NEW h \in Handlers, NEW u \in Users, NEW op \in Requests, Submit(h, u, op)
        PROVE  reviews'[i] = NoReview
    <3>1. i # sent + 1
      BY <1>1, <2>3 DEF Submit, Ids, TypeOK
    <3> QED BY <2>2, <2>3, <3>1, Zenon DEF Submit, TypeOK
  <2>4. ASSUME NEW u \in Users, NEW j \in Ids, MayDecide(u, j) PROVE j # i
    BY <2>2, <2>4 DEF MayDecide, NoReview
  <2>5. ASSUME NEW h \in Handlers, NEW u \in Users, NEW j \in Ids, Approve(h, u, j)
        PROVE  reviews'[i] = NoReview
    BY <2>2, <2>4, <2>5, Zenon DEF Approve, TypeOK
  <2>6. ASSUME NEW u \in Users, NEW j \in Ids, Reject(u, j) PROVE reviews'[i] = NoReview
    BY <2>2, <2>4, <2>6, Zenon DEF Reject, TypeOK
  <2>7. CASE Restart
    BY <2>2, <2>7, Zenon DEF Restart
  <2>8. CASE UNCHANGED reviews
    BY <2>2, <2>8, Zenon
  <2>9. \/ UNCHANGED reviews \/ Restart
        \/ \E h \in Handlers, u \in Users, op \in Requests : Submit(h, u, op)
        \/ \E h \in Handlers, u \in Users, j \in Ids : Approve(h, u, j)
        \/ \E u \in Users, j \in Ids : Reject(u, j)
    BY Zenon DEF Next, vars, GetUsage, Execute, Answered, Failed, Charge, Roll
  <2> QED BY <2>3, <2>5, <2>6, <2>7, <2>8, <2>9, Zenon
<1>2. ASSUME NEW h \in Handlers, handler'[h] # Free
      PROVE  Sanctioned(handler[h].op, handler[h].user, handler[h].review)'
  <2>1. CASE handler[h] # Free /\ SameCall(handler[h], handler'[h])
    <3>1. Sanctioned(handler[h].op, handler[h].user, handler[h].review)
      BY <2>1, Zenon DEF CallsSanctioned
    <3>2. handler[h].review \in {Direct} \cup Ids
      BY <2>1, CallTyped, Zenon DEF Call
    <3>3. \A op, u : Sanctioned(op, u, handler[h].review) =>
             (handler'[h].review = handler[h].review /\ handler'[h].op = op
              /\ handler'[h].user = u
                => Sanctioned(handler[h].op, handler[h].user, handler[h].review)')
      <4> SUFFICES ASSUME NEW op, NEW u, NEW r \in {Direct} \cup Ids, r = handler[h].review,
                          Sanctioned(op, u, r), handler'[h].review = r,
                          handler'[h].op = op, handler'[h].user = u
                   PROVE  Sanctioned(handler[h].op, handler[h].user, handler[h].review)'
        BY <3>2, Zenon
      <4>1. Sanctioned(op, u, r)'
        BY SanctionStays, Zenon
      <4> QED BY <4>1, Zenon DEF Sanctioned, NeedsReview, SameChange
    <3> QED BY <2>1, <3>1, <3>3, Zenon DEF SameCall
  <2>2. CASE Begins(h)
    BY <2>2 DEF Begins, Sanctioned, Direct, Ids, NeedsReview, SameChange
  <2> QED BY <1>2, <2>1, <2>2, HandlerStep, Zenon
<1>3. ASSUME NEW e \in effects' PROVE Sanctioned(e.op, e.by, e.review)'
  <2>1. CASE e \in effects
    BY <2>1, EffectTyped, SanctionStays, Zenon DEF CallsSanctioned
  <2>2. ASSUME NEW h \in Handlers, Adds(h, e) PROVE Sanctioned(e.op, e.by, e.review)'
    <3>1. handler[h] # Free /\ e.review \in {Direct} \cup Ids
      BY <2>2 DEF Adds, Free, Effect
    <3>2. Sanctioned(e.op, e.by, e.review)
      BY <2>2, <3>1, Zenon DEF Adds, CallsSanctioned
    <3> QED BY <3>1, <3>2, SanctionStays, Zenon
  <2> QED BY <2>1, <2>2, EffectStep DEF Adds
<1> QED BY <1>1, <1>2, <1>3, Zenon DEF CallsSanctioned

(* An executed call stays so until its handler is free. *)
LEMMA BackwardStep ==
  ASSUME TypeOK, [Next]_vars, NEW h \in Handlers, handler[h].pc = "executed"
  PROVE  handler'[h] = handler[h] \/ handler'[h] = Free
<1>1. handler[h] # Free
  BY DEF Free
<1> QED BY <1>1, Zenon DEF Next, vars, TypeOK, Submit, Approve, Reject, GetUsage, Execute, Answered,
           Failed, Restart, Charge, Roll

(* A review has at most one call and at most one effect. *)
LEMMA OnceStep ==
  ASSUME TypeOK, CallsSanctioned, OneCall, ReviewedOnce, [Next]_vars
  PROVE  OneCall' /\ ReviewedOnce'
<1>1. ASSUME NEW h \in Handlers, handler[h] # Free, handler[h].review # Direct
      PROVE  handler[h].review \in Ids /\ Decided(handler[h].review)
  BY <1>1, CallTyped, Zenon DEF CallsSanctioned, Sanctioned, Decided, Call
<1>2. ASSUME NEW e \in effects, e.review # Direct
      PROVE  e.review \in Ids /\ Decided(e.review)
  BY <1>2, EffectTyped, Zenon DEF CallsSanctioned, Sanctioned, Decided
<1>3. ASSUME NEW h \in Handlers, handler[h] = Free, handler'[h] # Free,
             handler'[h].review # Direct
      PROVE  /\ \A g \in Handlers \ {h} : handler'[g] = handler[g]
             /\ \A g \in Handlers : handler[g] # Free => handler[g].review # handler'[h].review
             /\ \A e \in effects : e.review # handler'[h].review
             /\ effects' = effects
  <2>1. /\ \A g \in Handlers \ {h} : handler'[g] = handler[g]
        /\ effects' = effects /\ handler'[h].review \in Ids
        /\ ~Decided(handler'[h].review)
    BY <1>3, HandlerStep, Zenon DEF Begins, Decided
  <2> QED BY <1>1, <1>2, <1>3, <2>1, Zenon
<1>4. ASSUME NEW g \in Handlers, NEW h \in Handlers, handler'[g] # Free, handler'[h] # Free,
             handler'[h].review # Direct, handler'[g].review = handler'[h].review
      PROVE  g = h
  <2>1. CASE handler[g] # Free /\ handler[h] # Free
    BY <1>4, <2>1, HandlerStep DEF SameCall, OneCall
  <2>2. CASE handler[h] = Free
    BY <1>3, <1>4, <2>2, Zenon
  <2>3. CASE handler[g] = Free
    BY <1>3, <1>4, <2>3, Zenon
  <2> QED BY <2>1, <2>2, <2>3, Zenon
<1>5. ASSUME NEW h \in Handlers, handler'[h] # Free, handler'[h].review # Direct,
             handler'[h].pc # "executed", NEW e \in effects'
      PROVE  e.review # handler'[h].review
  <2>1. CASE handler[h] = Free
    BY <1>3, <1>5, <2>1, Zenon
  <2>2. CASE handler[h] # Free
    <3>1. SameCall(handler[h], handler'[h])
      BY <1>5, <2>2, HandlerStep, Zenon
    <3>2. handler[h].pc # "executed"
      BY <1>5, <2>2, BackwardStep, Zenon
    <3>3. CASE e \in effects
      BY <1>5, <2>2, <3>1, <3>2, <3>3, Zenon DEF SameCall, OneCall
    <3>4. ASSUME NEW g \in Handlers, Adds(g, e) PROVE e.review # handler'[h].review
      <4>1. g # h /\ handler[g] # Free
        BY <1>5, <3>4 DEF Adds, Free
      <4> QED BY <1>5, <2>2, <3>1, <3>4, <4>1 DEF SameCall, OneCall, Adds
    <3> QED BY <3>3, <3>4, EffectStep DEF Adds
  <2> QED BY <2>1, <2>2, Zenon
<1>6. OneCall'
  BY <1>4, <1>5, Zenon DEF OneCall
<1>7. ASSUME NEW e \in effects', NEW f \in effects', e.review = f.review, e.review # Direct
      PROVE  e = f
  <2>1. CASE effects' = effects
    BY <1>7, <2>1, Zenon DEF ReviewedOnce
  <2>2. ASSUME NEW h \in Handlers, NEW x \in Effect, Adds(h, x) PROVE e = f
    <3>1. handler[h] # Free /\ handler[h].pc # "executed"
      BY <2>2 DEF Adds, Free
    <3>2. \A y \in effects : y.review = x.review => x.review = Direct
      BY <2>2, <3>1, Zenon DEF OneCall, Adds
    <3> QED BY <1>7, <2>2, <3>2, Zenon DEF Adds, ReviewedOnce
  <2> QED BY <2>1, <2>2, EffectStep, Zenon
<1> QED BY <1>6, <1>7, Zenon DEF ReviewedOnce

Safe == TypeOK /\ CallsSanctioned /\ OneCall /\ ReviewedOnce

LEMMA SafeInit == Init => Safe
<1> SUFFICES ASSUME Init PROVE Safe
  BY Zenon
<1> QED BY TypeInit, Zenon DEF Init, Safe, CallsSanctioned, OneCall, ReviewedOnce

LEMMA SafeStep == Safe /\ [Next]_vars => Safe'
  BY TypeStep, SanctionStep, OnceStep, Zenon DEF Safe

(* Two-person review holds: a risky change reaches a backend only after    *)
(* somebody else, an operator, approved that very change.                  *)
THEOREM TwoPersonReview == Spec => []FourEyes
<1>1. Safe => FourEyes
  <2> SUFFICES ASSUME Safe, NEW e \in effects, NeedsReview(e.op)
               PROVE  /\ e.review # Direct
                      /\ reviews[e.review].status \in {"approved", "lost"}
                      /\ SameChange(reviews[e.review].op, e.op)
                      /\ e.by \in Operators /\ reviews[e.review].initiator # e.by
    BY Zenon DEF FourEyes
  <2> QED BY Zenon DEF Safe, CallsSanctioned, Sanctioned
<1> QED BY <1>1, SafeInit, SafeStep, PTL DEF Spec

(* An approval is carried out at most once, whatever handlers interleave,  *)
(* fail or are cut off by a restart.                                       *)
THEOREM ApprovedChangeRunsOnce == Spec => []ReviewedOnce
<1>1. Safe => ReviewedOnce
  BY Zenon DEF Safe
<1> QED BY <1>1, SafeInit, SafeStep, PTL DEF Spec

(* Where a handler's call goes in one step. *)
Restarted(h) == \E u, op, n, r : handler'[h] = Started(u, op, n, r)

Reads(h) ==
    LET k == handler[h].op.key IN
    /\ handler[h].pc = "usage"
    /\ handler'[h] = [handler[h] EXCEPT !.pc = "send", !.amount = used[k],
                                       !.charged = charged[k], !.epoch = epoch[k]]
    /\ UNCHANGED backends

LEMMA HandlerNext ==
  ASSUME TypeOK, [Next]_vars, NEW h \in Handlers
  PROVE  \/ handler'[h] = handler[h] \/ handler'[h] = Free
         \/ Restarted(h) \/ Reads(h)
         \/ Execute(h) /\ handler'[h] = [handler[h] EXCEPT !.pc = "executed"]
         \/ /\ handler[h].pc \in {"send", "orphan"} /\ UNCHANGED backends
            /\ handler'[h] = [handler[h] EXCEPT !.pc = "orphan"]
<1>1. ASSUME NEW g \in Handlers, NEW u \in Users, NEW op \in Requests, Submit(g, u, op)
      PROVE  handler'[h] = handler[h] \/ Restarted(h)
  BY <1>1 DEF Submit, TypeOK, Restarted
<1>2. ASSUME NEW g \in Handlers, NEW u \in Users, NEW i \in Ids, Approve(g, u, i)
      PROVE  handler'[h] = handler[h] \/ Restarted(h)
  BY <1>2, Zenon DEF Approve, TypeOK, Restarted
<1>3. ASSUME NEW g \in Handlers, GetUsage(g)
      PROVE  handler'[h] = handler[h] \/ handler'[h] = Free \/ Reads(h)
  BY <1>3, Zenon DEF GetUsage, TypeOK, Reads
<1>4. ASSUME NEW g \in Handlers, Execute(g)
      PROVE  \/ handler'[h] = handler[h] \/ handler'[h] = Free
             \/ Execute(h) /\ handler'[h] = [handler[h] EXCEPT !.pc = "executed"]
  <2>1. CASE g = h
    <3>1. handler'[h] = (IF handler[h].pc = "send"
                         THEN [handler[h] EXCEPT !.pc = "executed"] ELSE Free)
      BY <1>4, <2>1, Zenon DEF Execute, TypeOK
    <3> QED BY <1>4, <2>1, <3>1, Zenon
  <2>2. CASE g # h
    BY <1>4, <2>2, Zenon DEF Execute, TypeOK
  <2> QED BY <2>1, <2>2, Zenon
<1>5. ASSUME NEW g \in Handlers, Answered(g) \/ Failed(g)
      PROVE  handler'[h] = handler[h] \/ handler'[h] = Free
  BY <1>5, Zenon DEF Answered, Failed, TypeOK
<1>6. CASE Restart
  BY <1>6, Zenon DEF Restart
<1> QED BY <1>1, <1>2, <1>3, <1>4, <1>5, <1>6, Zenon DEF Next, vars, Reject, Charge, Roll

LEMMA HandlerPc ==
  ASSUME TypeOK, NEW h \in Handlers
  PROVE  /\ handler'[h] = Free => handler'[h].pc = "free"
         /\ Restarted(h) => handler'[h].pc \in {"usage", "send"}
         /\ Reads(h) => handler'[h].pc = "send"
         /\ Execute(h) /\ handler'[h] = [handler[h] EXCEPT !.pc = "executed"]
               => handler'[h].pc = "executed"
         /\ handler[h].pc \in {"send", "orphan"}
               /\ handler'[h] = [handler[h] EXCEPT !.pc = "orphan"]
               => handler'[h].pc = "orphan"
<1>1. Restarted(h) => handler'[h].pc \in {"usage", "send"}
  BY DEF Restarted, Started
<1>2. Reads(h) => handler'[h].pc = "send"
  BY CallTyped, Zenon DEF Reads, Call
<1>3. Execute(h) /\ handler'[h] = [handler[h] EXCEPT !.pc = "executed"]
         => handler'[h].pc = "executed"
  BY CallTyped DEF Execute, Call
<1>4. handler[h].pc \in {"send", "orphan"}
         /\ handler'[h] = [handler[h] EXCEPT !.pc = "orphan"]
         => handler'[h].pc = "orphan"
  BY CallTyped, Zenon DEF Call
<1> QED BY <1>1, <1>2, <1>3, <1>4 DEF Free

(* Effects are never taken back, so what was seen stays seen. *)
LEMMA SeenStep ==
  ASSUME TypeOK, ExecutedSeen, [Next]_vars
  PROVE  ExecutedSeen'
<1>1. effects \subseteq effects'
  BY EffectStep, Zenon DEF Adds
<1>a. ASSUME NEW h \in Handlers, handler'[h].pc = "usage"
      PROVE  handler'[h].op.kind = "reset"
  <2>1. \/ handler'[h] = handler[h] \/ Restarted(h)
    BY <1>a, HandlerNext, HandlerPc, Zenon
  <2>2. CASE Restarted(h)
    BY <1>a, <2>2 DEF Restarted, Started
  <2> QED BY <1>a, <2>1, <2>2 DEF ExecutedSeen
<1> SUFFICES ASSUME NEW h \in Handlers, handler'[h].pc = "executed"
             PROVE  Seen(handler[h].n, handler[h].op, handler[h].user, handler[h].review)'
  BY <1>a, Zenon DEF ExecutedSeen
<1>2. CASE handler[h].pc = "executed"
  <2>1. handler'[h] = handler[h]
    BY <1>2, BackwardStep DEF Free
  <2> QED BY <1>1, <1>2, <2>1 DEF ExecutedSeen, Seen
<1>3. CASE handler[h].pc # "executed"
  <2>1. Execute(h) /\ handler'[h] # Free
    BY <1>3, HandlerNext, HandlerPc, Zenon
  <2>2. SameCall(handler[h], handler'[h])
    <3>1. handler[h] # Free
      BY <2>1 DEF Execute, Free
    <3> QED BY <2>1, <3>1, HandlerStep, Zenon
  <2>3. \E e \in effects' : e.n = handler[h].n /\ e.op = handler[h].op
                               /\ e.by = handler[h].user /\ e.review = handler[h].review
    <3> DEFINE c == handler[h]
               e == [n |-> c.n, op |-> c.op, by |-> c.user, review |-> c.review,
                     created |-> c.op.kind = "update" /\ cap[c.op.key] = 0]
    <3>1. e \in effects'
      BY <2>1, Zenon DEF Execute
    <3> WITNESS e \in effects'
    <3> QED BY Zenon
  <2> QED BY <2>2, <2>3, Zenon DEF Seen, SameCall
<1> QED BY <1>2, <1>3, Zenon

LEMMA LogStep ==
  ASSUME TypeOK, ExecutedSeen, LogIsTrue, [Next]_vars
  PROVE  LogIsTrue'
<1>1. effects \subseteq effects'
  BY EffectStep, Zenon DEF Adds
<1> SUFFICES ASSUME NEW l \in log'
             PROVE  \/ l.op.kind = "reset" /\ l.amount = 0
                    \/ \E e \in effects' : e.n = l.n /\ e.op = l.op /\ e.by = l.actor
                                            /\ e.review = l.review
  BY Zenon DEF LogIsTrue
<1>2. CASE l \in log
  BY <1>1, <1>2, Zenon DEF LogIsTrue
<1>3. ASSUME NEW h \in Handlers, GetUsage(h), l = Entry(handler[h], 0)
      PROVE  l.op.kind = "reset" /\ l.amount = 0
  BY <1>3, Zenon DEF ExecutedSeen, GetUsage, Entry
<1>4. ASSUME NEW h \in Handlers, Answered(h), l = Entry(handler[h], handler[h].amount)
      PROVE  \E e \in effects' : e.n = l.n /\ e.op = l.op /\ e.by = l.actor
                                 /\ e.review = l.review
  BY <1>1, <1>4, Zenon DEF Answered, ExecutedSeen, Seen, Entry
<1>5. \/ l \in log
      \/ \E h \in Handlers : GetUsage(h) /\ l = Entry(handler[h], 0)
      \/ \E h \in Handlers : Answered(h) /\ l = Entry(handler[h], handler[h].amount)
  BY Zenon DEF Next, vars, Submit, Approve, Reject, GetUsage, Execute, Answered, Failed, Restart,
         Charge, Roll
<1> QED BY <1>2, <1>3, <1>4, <1>5, Zenon

LogSafe == TypeOK /\ ExecutedSeen /\ LogIsTrue

(* The action log holds no change that did not happen, and attributes each *)
(* to the person for whom it was made.                                     *)
THEOREM ActionLogIsTrue == Spec => []LogIsTrue
<1>1. Init => LogSafe
  BY TypeInit DEF Init, LogSafe, ExecutedSeen, LogIsTrue, Free
<1>2. LogSafe /\ [Next]_vars => LogSafe'
  BY TypeStep, SeenStep, LogStep, Zenon DEF LogSafe
<1>3. LogSafe => LogIsTrue
  BY Zenon DEF LogSafe
<1> QED BY <1>1, <1>2, <1>3, PTL DEF Spec

(* A tuple's counters over one step: nothing, a charge, or a credit or new *)
(* window, which is marked in epoch.                                       *)
LEMMA CounterStep ==
  ASSUME TypeOK, [Next]_vars, NEW k \in Keys
  PROVE  \/ used'[k] = used[k] /\ charged'[k] = charged[k] /\ epoch'[k] = epoch[k]
         \/ used'[k] = used[k] + 1 /\ charged'[k] = charged[k] + 1 /\ epoch'[k] = epoch[k]
         \/ charged'[k] = charged[k] /\ epoch'[k] = epoch[k] + 1
<1>1. ASSUME NEW j \in Keys, Charge(j) \/ Roll(j)
      PROVE  \/ used'[k] = used[k] /\ charged'[k] = charged[k] /\ epoch'[k] = epoch[k]
             \/ used'[k] = used[k] + 1 /\ charged'[k] = charged[k] + 1 /\ epoch'[k] = epoch[k]
             \/ charged'[k] = charged[k] /\ epoch'[k] = epoch[k] + 1
  BY <1>1, Zenon DEF Charge, Roll, TypeOK
<1>2. ASSUME NEW h \in Handlers, Execute(h)
      PROVE  \/ used'[k] = used[k] /\ charged'[k] = charged[k] /\ epoch'[k] = epoch[k]
             \/ charged'[k] = charged[k] /\ epoch'[k] = epoch[k] + 1
  <2>1. charged' = charged
    BY <1>2, Zenon DEF Execute
  <2>2. \/ used' = used /\ epoch' = epoch
        \/ \E j, a : /\ used' = [used EXCEPT ![j] = a]
                     /\ epoch' = [epoch EXCEPT ![j] = @ + 1]
    BY <1>2, Zenon DEF Execute
  <2> QED BY <2>1, <2>2, Zenon DEF TypeOK
<1>3. \/ UNCHANGED <<used, charged, epoch>>
      \/ \E h \in Handlers : Execute(h)
      \/ \E j \in Keys : Charge(j) \/ Roll(j)
  BY ZenonT(40) DEF Next, vars, backends, Submit, Approve, Reject, GetUsage, Answered, Failed, Restart
<1> QED BY <1>1, <1>2, <1>3, Zenon

(* Only the execution of a call changes both it and a counter's epoch. *)
LEMMA ChangesTogether ==
  ASSUME TypeOK, [Next]_vars, NEW h \in Handlers, NEW k \in Keys,
         handler'[h] # handler[h], epoch'[k] # epoch[k]
  PROVE  Execute(h)
<1>1. \/ UNCHANGED epoch \/ UNCHANGED handler
      \/ \E g \in Handlers : Execute(g)
  BY Zenon DEF Next, vars, backends, Submit, Approve, Reject, GetUsage, Answered, Failed, Restart,
         Charge, Roll
<1>2. ASSUME NEW g \in Handlers, Execute(g) PROVE g = h
  BY <1>2, Zenon DEF Execute, TypeOK
<1> QED BY <1>1, <1>2, Zenon

LEMMA ResetStep ==
  ASSUME TypeOK, ResetRead, [Next]_vars
  PROVE  ResetRead'
<1> SUFFICES ASSUME NEW h \in Handlers, NEW k, k = handler'[h].op.key,
                    handler'[h].pc \in {"send", "orphan"}, handler'[h].op.kind = "reset"
             PROVE  /\ handler'[h].epoch <= epoch'[k] /\ handler'[h].charged <= charged'[k]
                    /\ handler'[h].epoch = epoch'[k] =>
                          used'[k] = handler'[h].amount + (charged'[k] - handler'[h].charged)
  BY Zenon DEF ResetRead
<1>1. CASE handler[h].pc \in {"send", "orphan"} /\ SameCall(handler[h], handler'[h])
           /\ handler'[h].amount = handler[h].amount
           /\ handler'[h].charged = handler[h].charged /\ handler'[h].epoch = handler[h].epoch
  <2>1. handler[h] \in Call /\ handler[h].op.key = k /\ k \in Keys
    BY <1>1, CallTyped, Zenon DEF SameCall, Call, Ops
  <2>2. /\ handler[h].epoch <= epoch[k] /\ handler[h].charged <= charged[k]
        /\ handler[h].epoch = epoch[k] =>
              used[k] = handler[h].amount + (charged[k] - handler[h].charged)
    BY <1>1, <2>1, Zenon DEF ResetRead, SameCall
  <2>3. /\ handler[h].epoch \in Nat /\ handler[h].charged \in Nat /\ handler[h].amount \in Nat
        /\ epoch[k] \in Nat /\ charged[k] \in Nat /\ used[k] \in Nat
    BY <2>1, Zenon DEF TypeOK, Call
  <2> QED BY <1>1, <2>1, <2>2, <2>3, CounterStep, SMTT(40)
<1>2. CASE Reads(h)
  <2>1. handler[h] \in Call
    BY <1>2, CallTyped, Zenon DEF Reads
  <2>2. /\ handler'[h].op = handler[h].op /\ k \in Keys
        /\ handler'[h].amount = used[k] /\ handler'[h].charged = charged[k]
        /\ handler'[h].epoch = epoch[k]
    BY <1>2, <2>1 DEF Reads, Call, Ops
  <2> QED BY <1>2, <2>2 DEF Reads, backends, TypeOK
<1>3. CASE Restarted(h)
  BY <1>3 DEF Restarted, Started
<1>4. CASE handler'[h] = handler[h]
  BY <1>1, <1>4, Zenon DEF SameCall
<1>5. CASE handler[h].pc \in {"send", "orphan"}
           /\ handler'[h] = [handler[h] EXCEPT !.pc = "orphan"]
  BY <1>1, <1>5, CallTyped DEF SameCall, Call
<1>6. handler'[h].pc # "executed" /\ handler'[h] # Free
  BY DEF Free
<1>7. ~(Execute(h) /\ handler'[h] = [handler[h] EXCEPT !.pc = "executed"])
  BY <1>6, CallTyped, Zenon DEF Execute, Call
<1> QED BY <1>2, <1>3, <1>4, <1>5, <1>6, <1>7, HandlerNext, Zenon

(* A reset takes off what it read and no later charge, unless a refund, a  *)
(* reset or the end of the window came in between.                         *)
THEOREM ResetIsSafeForProducers == Spec => ResetKeepsLaterCharges
<1> DEFINE Inv == TypeOK /\ ResetRead
           Keeps == \A h \in Handlers :
             LET c == handler[h]
                 k == c.op.key
             IN /\ c.pc \in {"send", "orphan"} /\ c.op.kind = "reset"
                /\ c.epoch = epoch[k] /\ epoch'[k] # epoch[k] /\ handler'[h] # c
                => used'[k] = charged[k] - c.charged
<1>1. Init => Inv
  BY TypeInit DEF Init, ResetRead, Free
<1>2. Inv /\ [Next]_vars => Inv'
  BY TypeStep, ResetStep, Zenon
<1>3. Inv /\ [Next]_vars => [Keeps]_vars
  <2> SUFFICES ASSUME Inv, [Next]_vars, NEW h \in Handlers, NEW k, k = handler[h].op.key,
                      handler[h].pc \in {"send", "orphan"}, handler[h].op.kind = "reset",
                      handler[h].epoch = epoch[k], epoch'[k] # epoch[k],
                      handler'[h] # handler[h]
               PROVE  used'[k] = charged[k] - handler[h].charged
    BY Zenon
  <2>1. handler[h] \in Call /\ handler[h] # Free /\ k \in Keys
    BY CallTyped, Zenon DEF Call, Ops
  <2>2. Execute(h)
    BY <2>1, ChangesTogether, Zenon
  <2>3. used'[k] = Refunded(k, handler[h].amount)
    BY <2>1, <2>2, Zenon DEF Execute, TypeOK
  <2>4. /\ used[k] = handler[h].amount + (charged[k] - handler[h].charged)
        /\ handler[h].charged <= charged[k]
    BY Zenon DEF ResetRead
  <2>5. /\ handler[h].charged \in Nat /\ handler[h].amount \in Nat
        /\ charged[k] \in Nat /\ used[k] \in Nat
    BY <2>1, Zenon DEF TypeOK, Call
  <2> QED BY <2>3, <2>4, <2>5 DEF Refunded
<1> QED BY <1>1, <1>2, <1>3, PTL DEF Spec, ResetKeepsLaterCharges
---------------------------------------------------------------------------
LEMMA NumbersInit == Init => NumbersFit
<1> SUFFICES ASSUME Init PROVE NumbersFit
  BY Zenon
<1> QED BY Zenon DEF Init, NumbersFit

(* Calls and effects so far have numbers up to sent. *)
LEMMA NumbersBelow ==
  ASSUME TypeOK, NumbersFit, [Next]_vars
  PROVE  /\ \A h \in Handlers : handler[h] # Free =>
               handler[h].n <= sent' /\ handler[h].n # sent + 1
         /\ \A e \in effects : e.n <= sent' /\ e.n # sent + 1
<1>1. ASSUME NEW n \in Nat, n <= sent PROVE n <= sent' /\ n # sent + 1
  BY <1>1, SentStep
<1>2. ASSUME NEW h \in Handlers, handler[h] # Free
      PROVE  handler[h].n \in Nat /\ handler[h].n <= sent
  BY <1>2, CallTyped DEF NumbersFit, Call, Ids
<1>3. ASSUME NEW e \in effects PROVE e.n \in Nat /\ e.n <= sent
  BY <1>3, EffectTyped DEF NumbersFit, Effect, Ids
<1> QED BY <1>1, <1>2, <1>3, Zenon

(* An effect is an earlier one, or that of a call just executed. *)
LEMMA NewEffect ==
  ASSUME TypeOK, [Next]_vars, NEW e \in effects'
  PROVE  e \in effects \/ \E h \in Handlers : Adds(h, e)
<1>1. ASSUME NEW h \in Handlers, NEW f \in Effect, Adds(h, f)
      PROVE  e \in effects \/ \E g \in Handlers : Adds(g, e)
  <2>1. e \in effects \/ e = f
    BY <1>1, Zenon DEF Adds
  <2> QED BY <1>1, <2>1, Zenon
<1> QED BY <1>1, EffectStep, Zenon

LEMMA NumbersStep ==
  ASSUME TypeOK, NumbersFit, [Next]_vars
  PROVE  NumbersFit'
<1>1. ASSUME NEW h \in Handlers, handler'[h] # Free, handler[h] = Free
      PROVE  /\ \A g \in Handlers \ {h} : handler'[g] = handler[g]
             /\ effects' = effects /\ handler'[h].n = sent + 1 /\ sent' = sent + 1
  BY <1>1, HandlerStep, Zenon
<1>2. ASSUME NEW h \in Handlers, handler'[h] # Free, handler[h] # Free
      PROVE  handler'[h].n = handler[h].n
  BY <1>2, HandlerStep, Zenon DEF SameCall
<1>3. ASSUME NEW e \in effects' PROVE e.n <= sent'
  <2>1. ASSUME NEW h \in Handlers, Adds(h, e) PROVE e.n <= sent'
    <3>1. handler[h] # Free
      BY <2>1 DEF Adds, Free
    <3>2. e.n = handler[h].n
      BY <2>1, Zenon DEF Adds
    <3> QED BY <3>1, <3>2, NumbersBelow, Zenon
  <2> QED BY <2>1, NewEffect, NumbersBelow, Zenon
<1>4. ASSUME NEW h \in Handlers, handler'[h] # Free PROVE handler'[h].n <= sent'
  <2>1. CASE handler[h] = Free
    BY <1>1, <1>4, <2>1, SentStep
  <2> QED BY <1>2, <1>4, <2>1, NumbersBelow, Zenon
<1>5. ASSUME NEW h \in Handlers, NEW g \in Handlers \ {h}, handler'[h] # Free, handler'[g] # Free
      PROVE  handler'[g].n # handler'[h].n
  <2>1. CASE handler[h] = Free
    BY <1>1, <1>5, <2>1, NumbersBelow, Zenon
  <2>2. CASE handler[g] = Free
    BY <1>1, <1>5, <2>2, NumbersBelow, Zenon
  <2>3. CASE handler[h] # Free /\ handler[g] # Free
    BY <1>2, <1>5, <2>3, Zenon DEF NumbersFit
  <2> QED BY <2>1, <2>2, <2>3, Zenon
<1>6. ASSUME NEW h \in Handlers, handler'[h] # Free, handler'[h].pc # "executed",
             NEW e \in effects'
      PROVE  e.n # handler'[h].n
  <2>1. CASE handler[h] = Free
    BY <1>1, <1>6, <2>1, NumbersBelow, Zenon
  <2>2. CASE handler[h] # Free
    <3>1. handler[h].pc # "executed"
      BY <1>6, <2>2, BackwardStep, Zenon
    <3>2. CASE e \in effects
      BY <1>2, <1>6, <2>2, <3>1, <3>2, Zenon DEF NumbersFit
    <3>3. ASSUME NEW g \in Handlers, Adds(g, e) PROVE e.n # handler'[h].n
      <4>1. g # h /\ handler[g] # Free
        BY <1>6, <3>3 DEF Adds, Free
      <4>2. e.n = handler[g].n
        BY <3>3, Zenon DEF Adds
      <4> QED BY <1>2, <1>6, <2>2, <4>1, <4>2, Zenon DEF NumbersFit
    <3> QED BY <3>2, <3>3, NewEffect, Zenon
  <2> QED BY <2>1, <2>2, Zenon
<1> QED BY <1>3, <1>4, <1>5, <1>6, Zenon DEF NumbersFit

(* What a review says of who asked stays as it is once it is decided, and  *)
(* with it the permits and what has been done.                             *)
LEMMA AskerStays ==
  ASSUME TypeOK, CallsSanctioned, [Next]_vars
  PROVE  \A i \in Ids : reviews[i].status \in {"approved", "lost"} =>
            reviews'[i].initiator = reviews[i].initiator
  BY DecidedStays, Zenon DEF Decided, Stays

LEMMA PermitStays ==
  ASSUME TypeOK, CallsSanctioned, [Next]_vars, NEW h \in Handlers,
         handler[h] # Free, SameCall(handler[h], handler'[h])
  PROVE  Permit(handler[h])' = Permit(handler[h])
<1>1. handler[h].review \in {Direct} \cup Ids
  BY CallTyped, Zenon DEF Call
<1>2. Asker(handler[h].user, handler[h].review)' = Asker(handler[h].user, handler[h].review)
  BY <1>1, AskerStays, Zenon DEF Asker, SameCall, CallsSanctioned, Sanctioned
<1> QED BY <1>2, Zenon DEF Permit, SameCall, What

LEMMA MadeStays ==
  ASSUME TypeOK, CallsSanctioned, [Next]_vars, NEW e \in effects
  PROVE  Made(e)' = Made(e)
<1>1. Asker(e.by, e.review)' = Asker(e.by, e.review)
  BY EffectTyped, AskerStays, Zenon DEF Asker, CallsSanctioned, Sanctioned
<1> QED BY <1>1, Zenon DEF Made, What

LEMMA DoneStays ==
  ASSUME TypeOK, CallsSanctioned, [Next]_vars, effects' = effects
  PROVE  Done' = Done
  BY MadeStays, Zenon DEF Done

(* The permits but that of h, and the waiting reviews but i: what a step   *)
(* of one handler, or on one review, leaves alone.                         *)
PermitsBut(h) == {Permit(handler[g]) : g \in {f \in Handlers \ {h} : Live(f)}}

WaitingBut(i) == {Wish(j) : j \in {k \in Ids \ {i} : Waits(k)}}

LEMMA PermitsSplit ==
  ASSUME NEW h \in Handlers
  PROVE  /\ Live(h) => Permits = PermitsBut(h) \cup {Permit(handler[h])}
         /\ ~Live(h) => Permits = PermitsBut(h)
         /\ Live(h)' => Permits' = PermitsBut(h)' \cup {Permit(handler[h])'}
         /\ ~Live(h)' => Permits' = PermitsBut(h)'
<1>1. Live(h) => Permits = PermitsBut(h) \cup {Permit(handler[h])}
  BY Zenon DEF Permits, PermitsBut
<1>2. ~Live(h) => Permits = PermitsBut(h)
  BY Zenon DEF Permits, PermitsBut
<1>3. Live(h)' => Permits' = PermitsBut(h)' \cup {Permit(handler[h])'}
  BY Zenon DEF Permits, PermitsBut
<1>4. ~Live(h)' => Permits' = PermitsBut(h)'
  BY Zenon DEF Permits, PermitsBut
<1> QED BY <1>1, <1>2, <1>3, <1>4, Zenon

LEMMA PermitsButStay ==
  ASSUME TypeOK, CallsSanctioned, [Next]_vars, NEW h \in Handlers,
         \A g \in Handlers \ {h} : handler'[g] = handler[g]
  PROVE  PermitsBut(h)' = PermitsBut(h)
<1>1. ASSUME NEW g \in Handlers \ {h}
      PROVE  /\ Live(g)' <=> Live(g)
             /\ Live(g) => Permit(handler[g])' = Permit(handler[g])
  <2>1. Live(g)' <=> Live(g)
    BY Zenon DEF Live
  <2>2. Live(g) => handler[g] # Free /\ SameCall(handler[g], handler'[g])
    BY DEF Live, Free, SameCall
  <2> QED BY <2>1, <2>2, PermitStays, Zenon
<1> QED BY <1>1, Zenon DEF PermitsBut

LEMMA WaitingSplit ==
  ASSUME NEW i \in Ids
  PROVE  /\ Waits(i) => Waiting = WaitingBut(i) \cup {Wish(i)}
         /\ ~Waits(i) => Waiting = WaitingBut(i)
         /\ Waits(i)' => Waiting' = WaitingBut(i)' \cup {Wish(i)'}
         /\ ~Waits(i)' => Waiting' = WaitingBut(i)'
         /\ \A w \in WaitingBut(i) : w.id # i
<1>1. Waits(i) => Waiting = WaitingBut(i) \cup {Wish(i)}
  BY Zenon DEF Waiting, WaitingBut
<1>2. ~Waits(i) => Waiting = WaitingBut(i)
  BY Zenon DEF Waiting, WaitingBut
<1>3. Waits(i)' => Waiting' = WaitingBut(i)' \cup {Wish(i)'}
  BY Zenon DEF Waiting, WaitingBut
<1>4. ~Waits(i)' => Waiting' = WaitingBut(i)'
  BY Zenon DEF Waiting, WaitingBut
<1>5. \A w \in WaitingBut(i) : w.id # i
  <2>1. \A j \in Ids : Wish(j).id = j
    BY DEF Wish
  <2> QED BY <2>1, Zenon DEF WaitingBut
<1> QED BY <1>1, <1>2, <1>3, <1>4, <1>5, Zenon

LEMMA WaitingButStay ==
  ASSUME NEW i \in Ids, \A j \in Ids \ {i} : reviews'[j] = reviews[j]
  PROVE  WaitingBut(i)' = WaitingBut(i)
<1>1. ASSUME NEW j \in Ids \ {i}
      PROVE  (Waits(j)' <=> Waits(j)) /\ Wish(j)' = Wish(j)
  BY Zenon DEF Waits, Wish, What
<1> QED BY <1>1, Zenon DEF WaitingBut

LEMMA WaitingStays ==
  ASSUME UNCHANGED reviews
  PROVE  Waiting' = Waiting
<1>1. ASSUME NEW j \in Ids PROVE (Waits(j)' <=> Waits(j)) /\ Wish(j)' = Wish(j)
  BY Zenon DEF Waits, Wish, What
<1> QED BY <1>1, Zenon DEF Waiting

(* A live call is a call, and its permit has its number. *)
LEMMA LiveCall ==
  ASSUME TypeOK, NEW h \in Handlers, Live(h)
  PROVE  handler[h] # Free /\ handler[h] \in Call /\ handler[h].pc # "executed"
<1>1. handler[h].pc # "free" /\ handler[h].pc # "executed"
  BY DEF Live
<1> QED BY <1>1, CallTyped, Zenon DEF Free

(* The number of the next request is new to permits and changes, and so is *)
(* a review that was not asked for yet.                                    *)
LEMMA NextNumberFresh ==
  ASSUME TypeOK, NumbersFit, [Next]_vars
  PROVE  \A p \in Permits \cup Done : p.n # sent + 1
<1>1. ASSUME NEW h \in Handlers, Live(h) PROVE Permit(handler[h]).n # sent + 1
  BY <1>1, LiveCall, NumbersBelow, Zenon DEF Permit
<1>2. ASSUME NEW e \in effects PROVE Made(e).n # sent + 1
  BY <1>2, NumbersBelow, Zenon DEF Made
<1> QED BY <1>1, <1>2, Zenon DEF Permits, Done

LEMMA NextReviewFresh ==
  ASSUME TypeOK, CallsSanctioned, NEW i \in Ids, i > sent
  PROVE  /\ \A w \in Waiting : w.id # i
         /\ \A p \in Permits \cup Done : p.review # i
<1>1. reviews[i] = NoReview /\ i # Direct
  BY DEF CallsSanctioned, Direct, Ids
<1>2. ~Waits(i) /\ reviews[i].status \notin {"approved", "lost"}
  BY <1>1 DEF NoReview, Waits
<1>3. \A w \in Waiting : w.id # i
  BY <1>2, WaitingSplit, Zenon
<1>4. ASSUME NEW op, NEW u, NEW r, Sanctioned(op, u, r) PROVE r # i
  BY <1>1, <1>2, <1>4, Zenon DEF Sanctioned
<1>5. ASSUME NEW h \in Handlers, Live(h) PROVE Permit(handler[h]).review # i
  BY <1>4, <1>5, LiveCall, Zenon DEF Permit, CallsSanctioned
<1>6. ASSUME NEW e \in effects PROVE Made(e).review # i
  BY <1>4, <1>6, Zenon DEF Made, CallsSanctioned
<1> QED BY <1>3, <1>5, <1>6, Zenon DEF Permits, Done

(* A handler that starts a change is issued a fresh permit for it. *)
LEMMA StartIssues ==
  ASSUME TypeOK, CallsSanctioned, NumbersFit, [Next]_vars, NEW h \in Handlers,
         handler[h] = Free, handler'[h] # Free, NEW p, p = Permit(handler[h])'
  PROVE  p \in Permits' \ Permits /\ Promise!Issue(p)
<1>1. /\ \A g \in Handlers \ {h} : handler'[g] = handler[g]
      /\ effects' = effects /\ handler'[h].n = sent + 1 /\ handler'[h].pc # "executed"
  BY HandlerStep, Zenon
<1>2. ~Live(h) /\ Live(h)'
  <2>1. handler'[h] \in Call
    BY TypeStep, Zenon DEF TypeOK
  <2> QED BY <1>1, <2>1 DEF Live, Free, Call
<1>3. Permits' = Permits \cup {p}
  BY <1>1, <1>2, PermitsSplit, PermitsButStay, Zenon
<1>4. p.n = sent + 1
  BY <1>1, Zenon DEF Permit
<1>5. \A q \in Permits \cup Done : q.n # p.n
  BY <1>4, NextNumberFresh, Zenon
<1>6. Done' = Done
  BY <1>1, DoneStays, Zenon
<1> QED BY <1>3, <1>5, <1>6, Zenon DEF Promise!Issue

(* A live call that ends takes its permit with it, and no other. *)
LEMMA EndUses ==
  ASSUME TypeOK, CallsSanctioned, NumbersFit, [Next]_vars, NEW h \in Handlers,
         \A g \in Handlers \ {h} : handler'[g] = handler[g],
         Live(h), ~Live(h)', NEW p, p = Permit(handler[h])
  PROVE  p \in Permits \ Permits' /\ Permits' = Permits \ {p}
<1>1. p \notin PermitsBut(h)
  <2>1. ASSUME NEW g \in Handlers \ {h}, Live(g) PROVE Permit(handler[g]).n # p.n
    BY <2>1, LiveCall, Zenon DEF Permit, NumbersFit
  <2> QED BY <2>1, Zenon DEF PermitsBut
<1>2. Permits = PermitsBut(h) \cup {p} /\ Permits' = PermitsBut(h)
  BY PermitsSplit, PermitsButStay, Zenon
<1> QED BY <1>1, <1>2, Zenon

(* A step that ends no live call and starts none leaves the permits alone. *)
LEMMA PermitsStay ==
  ASSUME TypeOK, CallsSanctioned, [Next]_vars, NEW h \in Handlers,
         \A g \in Handlers \ {h} : handler'[g] = handler[g],
         Live(h)' <=> Live(h),
         Live(h) => SameCall(handler[h], handler'[h])
  PROVE  Permits' = Permits
<1>1. PermitsBut(h)' = PermitsBut(h)
  BY PermitsButStay, Zenon
<1>2. CASE Live(h)
  <2>1. Permit(handler[h])' = Permit(handler[h])
    BY <1>2, LiveCall, PermitStays, Zenon
  <2> QED BY <1>1, <1>2, <2>1, PermitsSplit, Zenon
<1>3. CASE ~Live(h)
  <2>1. Permits = PermitsBut(h) /\ Permits' = PermitsBut(h)'
    BY <1>3, PermitsSplit, Zenon
  <2> QED BY <1>1, <2>1, Zenon
<1> QED BY <1>2, <1>3, Zenon

LEMMA IdlePermits ==
  ASSUME TypeOK, CallsSanctioned, [Next]_vars, UNCHANGED handler
  PROVE  Permits' = Permits
<1>1. ASSUME NEW g \in Handlers
      PROVE  /\ Live(g)' <=> Live(g)
             /\ Live(g) => Permit(handler[g])' = Permit(handler[g])
  <2>1. Live(g)' <=> Live(g)
    BY Zenon DEF Live
  <2>2. SameCall(handler[g], handler'[g])
    BY Zenon DEF SameCall
  <2> QED BY <2>1, <2>2, LiveCall, PermitStays, Zenon
<1> QED BY <1>1, Zenon DEF Permits

(* Whether a change is risky does not depend on its flag. *)
LEMMA RiskOfWhat ==
  ASSUME NEW a \in Ops, NEW b \in Ops, What(a) = What(b)
  PROVE  NeedsReview(a) <=> NeedsReview(b)
<1>1. a.kind = b.kind /\ a.key = b.key /\ a.arg = b.arg
  BY DEF What
<1> QED BY <1>1, Zenon DEF NeedsReview

LEMMA SubmitRefines ==
  ASSUME TypeOK, CallsSanctioned, NumbersFit, [Next]_vars,
         NEW h \in Handlers, NEW u \in Users, NEW op \in Requests, Submit(h, u, op)
  PROVE  Promise!ReviewNext
<1> DEFINE May == [v \in Users |-> {What(o) : o \in {x \in Ops : MayDo(v, x)}}]
           Risk == {What(o) : o \in {x \in Ops : NeedsReview(x)}}
<1>0. PICK i : i = sent + 1
  BY Zenon
<1>1. op \in Ops /\ i \in Ids /\ i > sent
  BY <1>0, RequestAssumption, BoundAssumption DEF Submit, TypeOK, Ids
<1>2. What(op) \in May[u]
  BY <1>1, Zenon DEF Submit
<1>3. What(op) \in Risk <=> NeedsReview(op)
  BY <1>1, RiskOfWhat, Zenon
<1>4. effects' = effects /\ Done' = Done
  BY DoneStays, Zenon DEF Submit, backends
<1>5. CASE NeedsReview(op)
  <2>1. PICK w : w = Wish(i)'
    BY Zenon
  <2>2. /\ reviews'[i] = [op |-> op, initiator |-> u, status |-> "pending"]
        /\ \A j \in Ids \ {i} : reviews'[j] = reviews[j]
        /\ handler' = handler
    BY <1>0, <1>1, <1>5, Zenon DEF Submit, TypeOK
  <2>3. Waits(i)' /\ w.id = i /\ w.change = What(op) /\ w.by = u
    BY <2>1, <2>2 DEF Waits, Wish, What
  <2>4. ~Waits(i)
    BY <1>1 DEF CallsSanctioned, Waits, NoReview
  <2>5. Waiting' = Waiting \cup {w}
    BY <1>1, <2>1, <2>2, <2>3, <2>4, WaitingSplit, WaitingButStay, Zenon
  <2>6. /\ \A v \in Waiting : v.id # w.id
        /\ \A p \in Permits \cup Done : p.review # w.id
    BY <1>1, <2>3, NextReviewFresh, Zenon
  <2>7. Permits' = Permits
    BY <2>2, IdlePermits, Zenon
  <2>8. Promise!Ask(w)
    BY <1>2, <1>3, <1>4, <1>5, <2>3, <2>5, <2>6, <2>7, Zenon DEF Promise!Ask
  <2> QED BY <2>5, <2>6, <2>8, Zenon DEF Promise!ReviewNext
<1>6. CASE ~NeedsReview(op)
  <2>1. PICK p : p = Permit(handler[h])'
    BY Zenon
  <2>2. /\ handler[h] = Free /\ handler'[h] = Started(u, op, i, Direct)
        /\ UNCHANGED reviews
    BY <1>0, <1>6, Zenon DEF Submit, TypeOK
  <2>3. handler'[h].op = op /\ handler'[h].user = u /\ handler'[h].review = Direct
        /\ handler'[h] # Free
    BY <2>2 DEF Started, Free
  <2>4. p.by = u /\ p.change = What(op) /\ p.review = Direct /\ p.asker = u
    BY <2>1, <2>3 DEF Permit, Asker, What
  <2>5. p \in Permits' \ Permits /\ Promise!Issue(p)
    BY <2>1, <2>2, <2>3, StartIssues, Zenon
  <2>6. Waiting' = Waiting
    BY <2>2, WaitingStays, Zenon
  <2>7. Promise!Allow(p)
    BY <1>2, <1>3, <1>6, <2>4, <2>5, <2>6, Zenon DEF Promise!Allow
  <2> QED BY <2>5, <2>7, Zenon DEF Promise!ReviewNext
<1> QED BY <1>5, <1>6, Zenon

(* A review that is decided waits no longer, and the others go on. *)
LEMMA DecisionEnds ==
  ASSUME NEW i \in Ids, \A j \in Ids \ {i} : reviews'[j] = reviews[j],
         Waits(i), ~Waits(i)', NEW w, w = Wish(i)
  PROVE  w \in Waiting \ Waiting' /\ Waiting' = Waiting \ {w}
<1>1. WaitingBut(i)' = WaitingBut(i)
  BY WaitingButStay, Zenon
<1>2. Waiting = WaitingBut(i) \cup {w} /\ Waiting' = WaitingBut(i)'
  BY WaitingSplit, Zenon
<1>3. w.id = i
  BY DEF Wish
<1>4. w \notin WaitingBut(i)
  BY <1>3, WaitingSplit, Zenon
<1> QED BY <1>1, <1>2, <1>4, Zenon

LEMMA ApproveRefines ==
  ASSUME TypeOK, CallsSanctioned, NumbersFit, [Next]_vars,
         NEW h \in Handlers, NEW u \in Users, NEW i \in Ids, Approve(h, u, i)
  PROVE  Promise!ReviewNext
<1>1. PICK w : w = Wish(i)
  BY Zenon
<1>2. PICK p : p = Permit(handler[h])'
  BY Zenon
<1>3. Waits(i) /\ reviews[i] \in Review /\ u \in Operators /\ reviews[i].initiator # u
  BY ReviewTyped DEF Approve, MayDecide, Waits
<1>4. /\ reviews'[i] = [reviews[i] EXCEPT !.status = "approved"]
      /\ \A j \in Ids \ {i} : reviews'[j] = reviews[j]
      /\ handler[h] = Free
      /\ handler'[h] = Started(u, Reviewed(reviews[i].op), sent + 1, i)
  BY Zenon DEF Approve, TypeOK
<1>5. reviews'[i].status = "approved" /\ reviews'[i].initiator = reviews[i].initiator
  BY <1>3, <1>4, Zenon DEF Review
<1>6. ~Waits(i)'
  BY <1>5 DEF Waits
<1>7. What(Reviewed(reviews[i].op)) = What(reviews[i].op)
  BY <1>3, ReviewedTyped, Zenon DEF Review, SameChange, What
<1>8. /\ handler'[h].op = Reviewed(reviews[i].op) /\ handler'[h].user = u
      /\ handler'[h].review = i /\ handler'[h] # Free
  BY <1>4 DEF Started, Free
<1>9. i # Direct
  BY DEF Ids, Direct
<1>10. p.by = u /\ p.change = w.change /\ p.review = w.id /\ p.asker = w.by /\ w.id = i
       /\ w.by = reviews[i].initiator
  BY <1>1, <1>2, <1>5, <1>7, <1>8, <1>9 DEF Permit, Wish, Asker, What
<1>11. p \in Permits' \ Permits /\ Promise!Issue(p)
  BY <1>2, <1>4, <1>8, StartIssues, Zenon
<1>12. w \in Waiting \ Waiting' /\ Waiting' = Waiting \ {w}
  BY <1>1, <1>3, <1>4, <1>6, DecisionEnds, Zenon
<1>13. Promise!Agree(w, p)
  BY <1>3, <1>10, <1>11, <1>12, Zenon DEF Promise!Agree
<1> QED BY <1>11, <1>12, <1>13, Zenon DEF Promise!ReviewNext

LEMMA RejectRefines ==
  ASSUME TypeOK, CallsSanctioned, [Next]_vars,
         NEW u \in Users, NEW i \in Ids, Reject(u, i)
  PROVE  Promise!ReviewNext
<1>1. PICK w : w = Wish(i)
  BY Zenon
<1>2. Waits(i) /\ reviews[i] \in Review /\ u \in Operators /\ reviews[i].initiator # u
  BY ReviewTyped DEF Reject, MayDecide, Waits
<1>3. /\ reviews'[i] = [reviews[i] EXCEPT !.status = "rejected"]
      /\ \A j \in Ids \ {i} : reviews'[j] = reviews[j]
  BY Zenon DEF Reject, TypeOK
<1>4. ~Waits(i)'
  BY <1>2, <1>3 DEF Waits, Review
<1>5. w.id = i /\ w.by # u
  BY <1>1, <1>2 DEF Wish
<1>6. w \in Waiting \ Waiting' /\ Waiting' = Waiting \ {w}
  BY <1>1, <1>2, <1>3, <1>4, DecisionEnds, Zenon
<1>7. Permits' = Permits /\ Done' = Done
  BY IdlePermits, DoneStays, Zenon DEF Reject, backends
<1>8. Promise!Refuse(w)
  BY <1>2, <1>5, <1>6, <1>7, Zenon DEF Promise!Refuse
<1> QED BY <1>6, <1>8, Zenon DEF Promise!ReviewNext

LEMMA ExecuteRefines ==
  ASSUME TypeOK, CallsSanctioned, NumbersFit, [Next]_vars,
         NEW h \in Handlers, Execute(h)
  PROVE  Promise!ReviewNext
<1>1. PICK p : p = Permit(handler[h])
  BY Zenon
<1>2. Live(h) /\ handler[h] \in Call
  BY CallTyped DEF Execute, Live, Free
<1>3. PICK e : /\ effects' = effects \cup {e}
               /\ e = [n |-> handler[h].n, op |-> handler[h].op, by |-> handler[h].user,
                       review |-> handler[h].review,
                       created |-> /\ handler[h].op.kind = "update"
                                   /\ cap[handler[h].op.key] = 0]
  BY Zenon DEF Execute
<1>4. Made(e) = p
  BY <1>1, <1>3 DEF Made, Permit
<1>5. UNCHANGED reviews
  BY Zenon DEF Execute
<1>6. \A f : Made(f)' = Made(f)
  BY <1>5, Zenon DEF Made, Asker, What
<1>7. Done' = Done \cup {p}
  BY <1>3, <1>4, <1>6, Zenon DEF Done
<1>8. \A g \in Handlers \ {h} : handler'[g] = handler[g]
  BY Zenon DEF Execute, TypeOK
<1>9. ~Live(h)'
  BY <1>2 DEF Execute, TypeOK, Live, Free, Call
<1>10. p \in Permits \ Permits' /\ Permits' = Permits \ {p}
  BY <1>1, <1>2, <1>8, <1>9, EndUses, Zenon
<1>11. Waiting' = Waiting
  BY <1>5, WaitingStays, Zenon
<1>12. Promise!Make(p)
  BY <1>7, <1>10, <1>11, Zenon DEF Promise!Make
<1> QED BY <1>10, <1>12, Zenon DEF Promise!ReviewNext

(* A call that ends without an effect drops its permit, if it had one. *)
LEMMA EndRefines ==
  ASSUME TypeOK, CallsSanctioned, NumbersFit, [Next]_vars, NEW h \in Handlers,
         handler' = [handler EXCEPT ![h] = Free],
         UNCHANGED <<reviews, effects>>
  PROVE  Promise!ReviewNext \/ UNCHANGED <<Waiting, Permits, Done>>
<1>1. Waiting' = Waiting /\ Done' = Done
  BY WaitingStays, DoneStays, Zenon
<1>2. ~Live(h)' /\ \A g \in Handlers \ {h} : handler'[g] = handler[g]
  BY DEF TypeOK, Live, Free
<1>3. CASE Live(h)
  <2>1. PICK p : p = Permit(handler[h])
    BY Zenon
  <2>2. p \in Permits \ Permits' /\ Permits' = Permits \ {p}
    BY <1>2, <1>3, <2>1, EndUses, Zenon
  <2>3. Promise!Drop(p)
    BY <1>1, <2>2, Zenon DEF Promise!Drop
  <2> QED BY <2>2, <2>3, Zenon DEF Promise!ReviewNext
<1>4. CASE ~Live(h)
  <2>1. Permits' = Permits
    BY <1>2, <1>4, PermitsStay, Zenon
  <2> QED BY <1>1, <2>1, Zenon
<1> QED BY <1>3, <1>4, Zenon

LEMMA RestartRefines ==
  ASSUME TypeOK, CallsSanctioned, [Next]_vars, Restart
  PROVE  Promise!ReviewNext
<1>1. \A i \in Ids : ~Waits(i)'
  <2> SUFFICES ASSUME NEW i \in Ids PROVE ~Waits(i)'
    BY Zenon
  <2>1. CASE reviews[i] = NoReview
    BY <2>1 DEF Restart, Waits, NoReview
  <2>2. CASE reviews[i] # NoReview
    <3>1. reviews'[i] = [reviews[i] EXCEPT !.status = "lost"] /\ reviews[i] \in Review
      BY <2>2, Zenon DEF Restart, TypeOK
    <3> QED BY <3>1 DEF Waits, Review
  <2> QED BY <2>1, <2>2, Zenon
<1>2. Waiting' = {}
  BY <1>1, Zenon DEF Waiting
<1>3. ASSUME NEW h \in Handlers, Live(h)'
      PROVE  Live(h) /\ Permit(handler[h])' = Permit(handler[h])
  <2>1. handler'[h] # Free
    BY <1>3 DEF Live, Free
  <2>2. Live(h) /\ handler[h] # Free
    BY <2>1 DEF Restart, Live, Free
  <2>3. SameCall(handler[h], handler'[h])
    BY <2>1, <2>2, HandlerStep, Zenon
  <2> QED BY <2>2, <2>3, PermitStays, Zenon
<1>4. Permits' \subseteq Permits
  BY <1>3, Zenon DEF Permits
<1>5. Done' = Done
  BY DoneStays, Zenon DEF Restart, backends
<1> QED BY <1>2, <1>4, <1>5, Zenon DEF Promise!Forget, Promise!ReviewNext

(* Reading the usage for a reset moves the call on under its permit. *)
LEMMA UsageRefines ==
  ASSUME TypeOK, CallsSanctioned, NumbersFit, [Next]_vars, NEW h \in Handlers, GetUsage(h)
  PROVE  Promise!ReviewNext \/ UNCHANGED <<Waiting, Permits, Done>>
<1>1. UNCHANGED <<reviews, effects>>
  BY Zenon DEF GetUsage, backends
<1>2. CASE handler' = [handler EXCEPT ![h] = Free]
  BY <1>1, <1>2, EndRefines, Zenon
<1>3. CASE handler' # [handler EXCEPT ![h] = Free]
  <2>1. /\ handler'[h] = [handler[h] EXCEPT !.pc = "send",
               !.amount = used[handler[h].op.key], !.charged = charged[handler[h].op.key],
               !.epoch = epoch[handler[h].op.key]]
        /\ \A g \in Handlers \ {h} : handler'[g] = handler[g]
    BY <1>3, Zenon DEF GetUsage, TypeOK
  <2>2. Live(h) /\ handler[h] \in Call
    BY CallTyped DEF GetUsage, Live, Free
  <2>3. Live(h)' /\ SameCall(handler[h], handler'[h])
    BY <2>1, <2>2, Zenon DEF Live, SameCall, Call
  <2>4. Permits' = Permits
    BY <2>1, <2>2, <2>3, PermitsStay, Zenon
  <2> QED BY <1>1, <2>4, WaitingStays, DoneStays, Zenon
<1> QED BY <1>2, <1>3, Zenon

LEMMA ReviewStep ==
  ASSUME TypeOK, CallsSanctioned, NumbersFit, [Next]_vars
  PROVE  [Promise!ReviewNext]_(Promise!reviewVars)
<1> DEFINE Goal == Promise!ReviewNext \/ UNCHANGED <<Waiting, Permits, Done>>
<1>1. ASSUME NEW h \in Handlers, Answered(h) \/ Failed(h) PROVE Goal
  BY <1>1, EndRefines, Zenon DEF Answered, Failed, backends
<1>2. ASSUME NEW h \in Handlers, GetUsage(h) PROVE Goal
  BY <1>2, UsageRefines, Zenon
<1>3. ASSUME UNCHANGED <<reviews, handler, effects>> PROVE Goal
  BY <1>3, WaitingStays, IdlePermits, DoneStays, Zenon
<1>4. ASSUME NEW k \in Keys, Charge(k) \/ Roll(k) PROVE Goal
  BY <1>3, <1>4, Zenon DEF Charge, Roll
<1>5. ASSUME UNCHANGED vars PROVE Goal
  BY <1>3, <1>5, Zenon DEF vars
<1> HIDE DEF Goal
<1>6. Promise!ReviewNext => Goal
  BY Zenon DEF Goal
<1>7. Goal
  BY <1>1, <1>2, <1>4, <1>5, <1>6, SubmitRefines, ApproveRefines, RejectRefines, ExecuteRefines,
     RestartRefines, Zenon DEF Next
<1> QED BY <1>7, Zenon DEF Goal, Promise!reviewVars

(* The console implements two-person review: whatever its handlers         *)
(* interleave, lose or leave behind at a restart, each change it makes     *)
(* uses up one permit, and each permit of a risky change stems from one    *)
(* decision by an operator who did not ask for it.                         *)
THEOREM ConsoleImplementsReview == Spec => ImplementsReview
<1>1. Init => Promise!ReviewInit
  <2> SUFFICES ASSUME Init PROVE Promise!ReviewInit
    BY Zenon
  <2>1. Waiting = {}
    BY DEF Init, Waiting, Waits, NoReview
  <2>2. Permits = {}
    BY DEF Init, Permits, Live, Free
  <2>3. Done = {}
    BY Zenon DEF Init, Done
  <2> QED BY <2>1, <2>2, <2>3, Zenon DEF Promise!ReviewInit
<1>2. Safe /\ NumbersFit /\ [Next]_vars => (Safe /\ NumbersFit)'
  BY SafeStep, NumbersStep, Zenon DEF Safe
<1>3. Safe /\ NumbersFit /\ [Next]_vars => [Promise!ReviewNext]_(Promise!reviewVars)
  BY ReviewStep, Zenon DEF Safe
<1> QED BY SafeInit, NumbersInit, <1>1, <1>2, <1>3, PTL
        DEF Spec, ImplementsReview, Promise!ReviewSpec
============================================================================
