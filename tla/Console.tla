------------------------------ MODULE Console ------------------------------
(***************************************************************************)
(* The back end of the admin console, quotaui/bff: changes that signed-in  *)
(* people make to limits and counters, two-person review of the risky      *)
(* ones, and the action log.  Node runs handlers one at a time but         *)
(* interleaves them at their awaits, which are the calls to quotamgmt and  *)
(* quotaenforcer.  Reviews and the log live in the process's memory.       *)
(*                                                                         *)
(* A call that was sent may be executed or not, and its answer may be      *)
(* lost; a call outlives the process that sent it.                         *)
(***************************************************************************)
EXTENDS Integers, FiniteSets

CONSTANTS
    Handlers,     \* requests that may be handled at once
    Users,        \* people with a session
    Operators,    \* those with a global operator or admin grant
    Editors,      \* those with a service-editor grant for the service
    Keys,         \* limit tuples of the service
    Defaults,     \* those whose customer is '*'
    MaxAmount,    \* caps and refunds range over 1 .. MaxAmount
    Requests,     \* the changes people ask for
    ReviewDefaults, ReviewResets, Threshold,  \* ReviewPolicy
    MaxRequests, MaxCharges, MaxRolls, MaxRestarts   \* bounds

ASSUME PeopleAssumption ==
    Operators \subseteq Users /\ Editors \subseteq Users
ASSUME TupleAssumption == Defaults \subseteq Keys
ASSUME PolicyAssumption ==
    ReviewDefaults \in BOOLEAN /\ ReviewResets \in BOOLEAN /\ Threshold \in Nat
ASSUME BoundAssumption ==
    MaxAmount \in Nat \ {0} /\ MaxRequests \in Nat /\ MaxCharges \in Nat
    /\ MaxRolls \in Nat /\ MaxRestarts \in Nat

VARIABLES
    reviews,   \* reviews[i]: the review that request i asked for, or NoReview
    handler,   \* handler[h]: the change h is making, or Free
    log,       \* the action log
    cap, used, \* the backends: each tuple's cap (0: no row) and counter
    charged, epoch,  \* per tuple: charges so far; refunds and windows so far
    effects,   \* history: the calls that the backends executed
    sent, restarts   \* counters for the bounds; sent numbers the requests

vars == <<reviews, handler, log, cap, used, charged, epoch, effects, sent, restarts>>
backends == <<cap, used, charged, epoch, effects>>

Ids == 1 .. MaxRequests
Free == [pc |-> "free"]
NoReview == [status |-> "none"]
Direct == 0  \* the review id of a change that needed none

(* arg is limit_value or amount; flag is create_if_absent or allow_missing. *)
Ops ==
    [kind : {"create", "update", "delete", "refund", "reset"}, key : Keys,
     arg : 1 .. MaxAmount, flag : BOOLEAN]

ASSUME RequestAssumption == Requests \subseteq Ops

IsConfig(op) == op.kind \in {"create", "update", "delete"}

(* authorize, for the service of the tuples. *)
MayDo(u, op) == u \in Operators \/ (IsConfig(op) /\ u \in Editors)

(* reviewReason; the create route does not ask it. *)
NeedsReview(op) ==
    \/ op.kind \in {"update", "delete"} /\ ReviewDefaults /\ op.key \in Defaults
    \/ op.kind = "reset" /\ ReviewResets
    \/ op.kind = "refund" /\ op.arg > Threshold

(* executePendingOp sets the flag, whatever the initiator asked for. *)
Reviewed(op) == [op EXCEPT !.flag = (op.kind = "update")]

(* A PendingOp: what a review says of a change. *)
SameChange(a, b) == a.kind = b.kind /\ a.key = b.key /\ a.arg = b.arg
---------------------------------------------------------------------------
(* Faults, never part of Spec, each before the definition it would spoil:  *)
(* a decision that does not look at the initiator or at the status, a      *)
(* refund that clears the counter or has no floor, a log written before    *)
(* the answer, a review that opens again when its change fails.            *)
DecideOwn(u, i) == reviews[i].status = "pending"

MayDecide(u, i) == reviews[i].status = "pending" /\ reviews[i].initiator # u

ClearUsed(k, amount) == 0

NoFloor(k, amount) == used[k] - amount

(* The REFUND script. *)
Refunded(k, amount) == IF used[k] < amount THEN 0 ELSE used[k] - amount

Entry(c, amount) ==
    [n |-> c.n, op |-> c.op, actor |-> c.user, amount |-> amount, review |-> c.review]

Init ==
    /\ reviews = [i \in Ids |-> NoReview]
    /\ handler = [h \in Handlers |-> Free]
    /\ log = {} /\ effects = {}
    /\ cap \in [Keys -> 0 .. 1]
    /\ used = [k \in Keys |-> 0]
    /\ charged = [k \in Keys |-> 0] /\ epoch = [k \in Keys |-> 0]
    /\ sent = 0 /\ restarts = 0

(* What op's handler has in hand when it starts to act for u. *)
Started(u, op, n, review) ==
    [pc |-> IF op.kind = "reset" THEN "usage" ELSE "send", n |-> n, user |-> u,
     op |-> op, review |-> review, amount |-> op.arg,
     charged |-> 0, epoch |-> 0]

(* The write routes: a change is checked, and then done or put to review. *)
Submit(h, u, op) ==
    /\ handler[h] = Free /\ sent < MaxRequests /\ MayDo(u, op)
    /\ sent' = sent + 1
    /\ IF NeedsReview(op)
       THEN /\ reviews' = [reviews EXCEPT ![sent + 1] =
                             [op |-> op, initiator |-> u, status |-> "pending"]]
            /\ UNCHANGED handler
       ELSE /\ handler' = [handler EXCEPT ![h] = Started(u, op, sent + 1, Direct)]
            /\ UNCHANGED reviews
    /\ UNCHANGED <<log, backends, restarts>>

ApproveAgain(h, u, i) ==
    /\ handler[h] = Free /\ sent < MaxRequests
    /\ u \in Operators
    /\ reviews[i].status \in {"pending", "approved"} /\ reviews[i].initiator # u
    /\ sent' = sent + 1
    /\ reviews' = [reviews EXCEPT ![i].status = "approved"]
    /\ handler' = [handler EXCEPT ![h] = Started(u, Reviewed(reviews[i].op), sent + 1, i)]
    /\ UNCHANGED <<log, backends, restarts>>

(* POST approve: the review is decided before the change is made. *)
Approve(h, u, i) ==
    /\ handler[h] = Free /\ sent < MaxRequests
    /\ u \in Operators /\ MayDecide(u, i)
    /\ sent' = sent + 1
    /\ reviews' = [reviews EXCEPT ![i].status = "approved"]
    /\ handler' = [handler EXCEPT ![h] = Started(u, Reviewed(reviews[i].op), sent + 1, i)]
    /\ UNCHANGED <<log, backends, restarts>>

Reject(u, i) ==
    /\ u \in Operators /\ MayDecide(u, i)
    /\ reviews' = [reviews EXCEPT ![i].status = "rejected"]
    /\ UNCHANGED <<handler, log, backends, sent, restarts>>

(* resetWindow reads the counter; one that is empty is not refunded.  The  *)
(* enforcer resolves the tuple through its own cache, and shows one that   *)
(* it finds unconfigured as empty.                                         *)
GetUsage(h) ==
    LET c == handler[h]
        k == c.op.key
    IN /\ c.pc = "usage"
       /\ \/ /\ log' = log \cup {Entry(c, 0)}
             /\ handler' = [handler EXCEPT ![h] = Free]
          \/ /\ used[k] > 0
             /\ handler' = [handler EXCEPT ![h] =
                     [c EXCEPT !.pc = "send", !.amount = used[k],
                               !.charged = charged[k], !.epoch = epoch[k]]]
             /\ UNCHANGED log
       /\ UNCHANGED <<reviews, backends, sent, restarts>>

(* quotamgmt and quotaenforcer execute a change, or refuse it. *)
Accepted(op) ==
    CASE op.kind = "create" -> cap[op.key] = 0
      [] op.kind \in {"update", "delete"} -> op.flag \/ cap[op.key] # 0
      [] OTHER -> TRUE

(* A call is executed.  One whose sender is gone has nobody to answer to.  *)
(* A refund of a tuple that the enforcer finds unconfigured does nothing.  *)
Execute(h) ==
    LET c == handler[h]
        k == c.op.key
    IN /\ c.pc \in {"send", "orphan"} /\ Accepted(c.op)
       /\ cap' = IF IsConfig(c.op)
                 THEN [cap EXCEPT ![k] = IF c.op.kind = "delete" THEN 0 ELSE c.op.arg]
                 ELSE cap
       /\ \/ UNCHANGED <<used, epoch>>
          \/ /\ ~IsConfig(c.op)
             /\ used' = [used EXCEPT ![k] = Refunded(k, c.amount)]
             /\ epoch' = [epoch EXCEPT ![k] = @ + 1]
       /\ effects' = effects \cup
             {[n |-> c.n, op |-> c.op, by |-> c.user, review |-> c.review,
               created |-> c.op.kind = "update" /\ cap[k] = 0]}
       /\ handler' = [handler EXCEPT ![h] =
             IF c.pc = "send" THEN [c EXCEPT !.pc = "executed"] ELSE Free]
       /\ UNCHANGED <<reviews, log, charged, sent, restarts>>

LoggedFirst(h) ==
    /\ handler[h].pc \in {"send", "executed"}
    /\ log' = log \cup {Entry(handler[h], handler[h].amount)}
    /\ handler' = [handler EXCEPT ![h] = Free]
    /\ UNCHANGED <<reviews, backends, sent, restarts>>

(* The answer is in: the change is logged. *)
Answered(h) ==
    /\ handler[h].pc = "executed"
    /\ log' = log \cup {Entry(handler[h], handler[h].amount)}
    /\ handler' = [handler EXCEPT ![h] = Free]
    /\ UNCHANGED <<reviews, backends, sent, restarts>>

FailedReopens(h) ==
    /\ handler[h] # Free
    /\ handler' = [handler EXCEPT ![h] = Free]
    /\ reviews' = [i \in Ids |->
          IF i = handler[h].review THEN [reviews[i] EXCEPT !.status = "pending"]
          ELSE reviews[i]]
    /\ UNCHANGED <<log, backends, sent, restarts>>

(* The call is refused, does not get through, or its answer does not: the  *)
(* handler reports the error.                                              *)
Failed(h) ==
    /\ handler[h] # Free
    /\ handler' = [handler EXCEPT ![h] = Free]
    /\ UNCHANGED <<reviews, log, backends, sent, restarts>>

(* The process restarts: reviews and log are gone, calls that were sent    *)
(* are not.                                                                *)
Restart ==
    /\ restarts < MaxRestarts
    /\ restarts' = restarts + 1
    /\ log' = {}
    /\ reviews' = [i \in Ids |-> IF reviews[i] = NoReview THEN NoReview
                                 ELSE [reviews[i] EXCEPT !.status = "lost"]]
    /\ handler' = [h \in Handlers |->
          IF handler[h].pc \in {"send", "orphan"} THEN [handler[h] EXCEPT !.pc = "orphan"]
          ELSE Free]
    /\ UNCHANGED <<backends, sent>>

(* Producers charge, and windows end. *)
Charge(k) ==
    /\ charged[k] < MaxCharges
    /\ used' = [used EXCEPT ![k] = @ + 1] /\ charged' = [charged EXCEPT ![k] = @ + 1]
    /\ UNCHANGED <<reviews, handler, log, cap, epoch, effects, sent, restarts>>

Roll(k) ==
    /\ epoch[k] < MaxRolls
    /\ used' = [used EXCEPT ![k] = 0] /\ epoch' = [epoch EXCEPT ![k] = @ + 1]
    /\ UNCHANGED <<reviews, handler, log, cap, charged, effects, sent, restarts>>

Next ==
    \/ \E h \in Handlers, u \in Users : (\E op \in Requests : Submit(h, u, op))
                                        \/ (\E i \in Ids : Approve(h, u, i))
    \/ \E u \in Users, i \in Ids : Reject(u, i)
    \/ \E h \in Handlers : GetUsage(h) \/ Execute(h) \/ Answered(h) \/ Failed(h)
    \/ Restart
    \/ \E k \in Keys : Charge(k) \/ Roll(k)

Spec == Init /\ [][Next]_vars
---------------------------------------------------------------------------
Review == [op : Ops, initiator : Users,
           status : {"pending", "approved", "rejected", "lost"}]

Call == [pc : {"usage", "send", "executed", "orphan"}, n : Ids, user : Users, op : Ops,
         review : {Direct} \cup Ids, amount : Nat, charged : Nat, epoch : Nat]

LogEntry == [n : Ids, op : Ops, actor : Users, amount : Nat, review : {Direct} \cup Ids]

Effect == [n : Ids, op : Ops, by : Users, review : {Direct} \cup Ids,
           created : BOOLEAN]

(* Counters never go below zero, and everything else is well formed. *)
TypeOK ==
    /\ reviews \in [Ids -> {NoReview} \cup Review]
    /\ handler \in [Handlers -> {Free} \cup Call]
    /\ log \subseteq LogEntry /\ effects \subseteq Effect
    /\ cap \in [Keys -> 0 .. MaxAmount] /\ used \in [Keys -> Nat]
    /\ charged \in [Keys -> Nat] /\ epoch \in [Keys -> Nat]
    /\ sent \in 0 .. MaxRequests /\ restarts \in 0 .. MaxRestarts

(* Two-person review: a backend only ever executes a risky change that one *)
(* person submitted and another, an operator, approved; and it does so     *)
(* once, whoever approves it at the same time, retries it or restarts the  *)
(* console.                                                                *)
FourEyes ==
    \A e \in effects : NeedsReview(e.op) =>
       /\ e.review # Direct
       /\ LET r == reviews[e.review] IN
          /\ r.status \in {"approved", "lost"} /\ SameChange(r.op, e.op)
          /\ e.by \in Operators /\ r.initiator # e.by

ReviewedOnce ==
    \A e, f \in effects : e.review = f.review /\ e.review # Direct => e = f

(* The action log tells the truth: an entry is of a call that the backend  *)
(* carried out for the person it names, or of the reset of an empty        *)
(* window.  Such a call need not have changed anything.                    *)
LogIsTrue ==
    \A l \in log :
       \/ l.op.kind = "reset" /\ l.amount = 0
       \/ \E e \in effects : e.n = l.n /\ e.op = l.op /\ e.by = l.actor
                                /\ e.review = l.review

(* A reset that nothing else credited in between, and that no window end   *)
(* overtook, takes off what it read and keeps every charge made since.     *)
ResetKeepsLaterCharges ==
    [][\A h \in Handlers :
          LET c == handler[h]
              k == c.op.key
          IN /\ c.pc \in {"send", "orphan"} /\ c.op.kind = "reset"
             /\ c.epoch = epoch[k] /\ epoch'[k] # epoch[k] /\ handler'[h] # c
             => used'[k] = charged[k] - c.charged]_vars

(* The handlers implement two-person review: what is sent to a backend is  *)
(* a permit, which the policy or an approval gave; executing it uses it    *)
(* up.  create_if_absent and allow_missing are not part of a change.       *)
What(op) == [kind |-> op.kind, key |-> op.key, arg |-> op.arg]

Asker(u, r) == IF r = Direct THEN u ELSE reviews[r].initiator

Permit(c) == [n |-> c.n, change |-> What(c.op), by |-> c.user,
              asker |-> Asker(c.user, c.review), review |-> c.review]

Made(e) == [n |-> e.n, change |-> What(e.op), by |-> e.by,
            asker |-> Asker(e.by, e.review), review |-> e.review]

Wish(i) == [id |-> i, change |-> What(reviews[i].op), by |-> reviews[i].initiator]

Waits(i) == reviews[i].status = "pending"
Waiting == {Wish(i) : i \in {j \in Ids : Waits(j)}}

Live(h) == handler[h].pc \in {"usage", "send", "orphan"}
Permits == {Permit(handler[h]) : h \in {g \in Handlers : Live(g)}}

Done == {Made(e) : e \in effects}

Promise == INSTANCE ReviewedChanges WITH
    MayAsk <- [u \in Users |-> {What(op) : op \in {o \in Ops : MayDo(u, o)}}],
    Risky <- {What(op) : op \in {o \in Ops : NeedsReview(o)}},
    waiting <- Waiting, permits <- Permits, done <- Done

ImplementsReview == Promise!ReviewSpec

(* operations.ts says of its executors that the direct routes and the      *)
(* approval path call them "so the applied change is identical either      *)
(* way": an approved update would make a missing row only if the person    *)
(* who submitted it had set create_if_absent.                              *)
AppliedAsSubmitted ==
    \A e \in effects :
       e.review # Direct /\ e.created => reviews[e.review].op.flag

(* actionlog.ts keeps a log of refunds and resets "so nothing a human does *)
(* is unattributable": one that was executed would be in the log, or on    *)
(* its way there.                                                          *)
NothingUnattributed ==
    \A e \in effects : IsConfig(e.op)
       \/ (\E l \in log : l.n = e.n)
       \/ (\E h \in Handlers : handler[h] # Free /\ handler[h].n = e.n)
---------------------------------------------------------------------------
(* What makes them inductive.  A change is sanctioned by the policy, or by *)
(* a review that is decided, and a decided review is never decided again;  *)
(* review ids are fresh; a review has one call, and no effect before it;   *)
(* an executed call is among the effects, and only a reset reads usage; a  *)
(* reset's amount is what the counter still holds from before the reading. *)
Sanctioned(op, u, r) ==
    IF r = Direct THEN ~NeedsReview(op)
    ELSE /\ reviews[r].status \in {"approved", "lost"} /\ SameChange(reviews[r].op, op)
         /\ u \in Operators /\ reviews[r].initiator # u

CallsSanctioned ==
    /\ \A i \in Ids : i > sent => reviews[i] = NoReview
    /\ \A h \in Handlers : handler[h] # Free =>
          Sanctioned(handler[h].op, handler[h].user, handler[h].review)
    /\ \A e \in effects : Sanctioned(e.op, e.by, e.review)

OneCall ==
    \A h \in Handlers : handler[h] # Free /\ handler[h].review # Direct =>
       /\ \A g \in Handlers : handler[g] # Free /\ handler[g].review = handler[h].review
                                => g = h
       /\ handler[h].pc # "executed" => \A e \in effects : e.review # handler[h].review

(* Requests are numbered: no two calls share a number, and a call that is  *)
(* still to be executed shares it with no effect.                          *)
NumbersFit ==
    /\ \A e \in effects : e.n <= sent
    /\ \A h \in Handlers : handler[h] # Free =>
          /\ handler[h].n <= sent
          /\ \A g \in Handlers \ {h} : handler[g] # Free => handler[g].n # handler[h].n
          /\ handler[h].pc # "executed" => \A e \in effects : e.n # handler[h].n

Seen(n, op, u, r) ==
    \E e \in effects : e.n = n /\ e.op = op /\ e.by = u /\ e.review = r

ExecutedSeen ==
    \A h \in Handlers :
       /\ handler[h].pc = "executed" =>
             Seen(handler[h].n, handler[h].op, handler[h].user, handler[h].review)
       /\ handler[h].pc = "usage" => handler[h].op.kind = "reset"

ResetRead ==
    \A h \in Handlers :
       handler[h].pc \in {"send", "orphan"} /\ handler[h].op.kind = "reset" =>
          LET k == handler[h].op.key IN
          /\ handler[h].epoch <= epoch[k] /\ handler[h].charged <= charged[k]
          /\ handler[h].epoch = epoch[k] =>
                used[k] = handler[h].amount + (charged[k] - handler[h].charged)
============================================================================
