----------------------------- MODULE LimitsPage -----------------------------
(***************************************************************************)
(* The Limits page of the front end (LimitsBrowser, LimitEditor) for one   *)
(* person who may write, over the console's limits routes and a table that *)
(* others change too.  Every await of the page is a request on the wire;   *)
(* answers come in any order, and what the page then does it does with the *)
(* fields of the render in which the button was clicked.                   *)
(*                                                                         *)
(* A change of the default goes to review: the console keeps it, and may   *)
(* carry it out later, for somebody else, with the flags of its own.       *)
(*                                                                         *)
(* One service and one rate limit id, both filled in, so that a tuple is a *)
(* customer.  The contents of a row, limit and unit, are one valid value.  *)
(***************************************************************************)
EXTENDS Integers, Sequences

CONSTANTS
    Customers,    \* customers, the default's '*' among them
    Star,         \* '*', the default for all customers
    Values,       \* contents of a row
    Nothing,      \* no row, no customer, no editor
    MaxRequests,  \* requests of the page
    MaxElsewhere  \* writes by others

VARIABLES
    table,      \* limit_config: contents of each customer's row
    filter,     \* the filter fields of the page
    limits,     \* the rows that the page shows
    effective,  \* the hint below them
    editing,    \* the row that the editor was opened on
    form,       \* the editor's fields
    typed,      \* what is typed to confirm a delete
    wire,       \* the requests of the page, in the order of sending
    reviews,    \* the changes that wait for review
    landed,     \* for every save that wrote: what was shown, what was written
    elsewhere   \* number of writes by others

page == <<limits, effective, editing, form, typed>>
store == <<table, reviews, landed>>
vars == <<filter, page, wire, store, elsewhere>>

(* config_id is null in the row that a new limit starts from. *)
EMPTY == [customer |-> Nothing, row |-> CHOOSE v \in Values : TRUE, isNew |-> TRUE]
Row(c) == [customer |-> c, row |-> table[c], isNew |-> FALSE]

Filters == [customer : Customers \cup {Nothing}, kind : {"all", "defaults", "overrides"}]

Init ==
    /\ table \in [Customers -> Values \cup {Nothing}]
    /\ filter = [customer |-> Nothing, kind |-> "all"]
    /\ limits = {} /\ effective = Nothing
    /\ editing = Nothing /\ form = EMPTY /\ typed = Nothing
    /\ wire = << >> /\ reviews = {} /\ landed = {} /\ elsewhere = 0
---------------------------------------------------------------------------
(* A request, with the filter that its click has seen. *)
Request(op, f, q) == [op |-> op, filter |-> f, of |-> q, stage |-> "asked", answer |-> Nothing]

Send(op, q) ==
    /\ Len(wire) < MaxRequests
    /\ wire' = Append(wire, Request(op, filter, q))

ChangeFilter ==
    /\ filter' \in Filters
    /\ UNCHANGED <<page, wire, store, elsewhere>>

Search ==
    /\ Send("list", Nothing)
    /\ UNCHANGED <<filter, page, store, elsewhere>>

(* The editor keeps its fields when it is open already: it is the same     *)
(* component, with another row to start from.                              *)
Open(l) ==
    /\ editing' = l
    /\ IF editing = Nothing THEN form' = l /\ typed' = Nothing ELSE UNCHANGED <<form, typed>>
    /\ UNCHANGED <<filter, limits, effective, wire, store, elsewhere>>

Edit == \E l \in limits : Open(l)
New == Open(EMPTY)

(* The tuple's fields are disabled unless the limit is new. *)
Fill ==
    /\ editing # Nothing
    /\ \/ \E v \in Values : form' = [form EXCEPT !.row = v]
       \/ editing.isNew /\ \E c \in Customers : form' = [form EXCEPT !.customer = c]
    /\ UNCHANGED <<filter, limits, effective, editing, typed, wire, store, elsewhere>>

Type ==
    /\ editing # Nothing /\ ~editing.isNew
    /\ typed' \in Customers
    /\ UNCHANGED <<filter, limits, effective, editing, form, wire, store, elsewhere>>

Close == editing' = Nothing /\ form' = EMPTY /\ typed' = Nothing

Cancel ==
    /\ editing # Nothing
    /\ Close
    /\ UNCHANGED <<filter, limits, effective, wire, store, elsewhere>>

(* The change preview: oldRow and newRow of the DiffTable. *)
Preview ==
    [before |-> IF editing.isNew THEN Nothing ELSE editing.row, after |-> form.row]

Save ==
    /\ editing # Nothing
    /\ Send(IF editing.isNew THEN "create" ELSE "update",
            [customer |-> form.customer, row |-> form.row, shown |-> Preview])
    /\ UNCHANGED <<filter, page, store, elsewhere>>

Del ==
    /\ editing # Nothing /\ ~editing.isNew
    /\ typed = form.customer
    /\ Send("delete", [customer |-> form.customer])
    /\ UNCHANGED <<filter, page, store, elsewhere>>
---------------------------------------------------------------------------
(* The rows of a listing, and the effective limit of a customer. *)
Listed(f) ==
    {Row(c) : c \in {d \in Customers :
        /\ table[d] # Nothing
        /\ IF f.kind = "defaults" THEN d = Star ELSE f.customer \in {Nothing, d}
        /\ f.kind = "overrides" => d # Star}}

Resolved(c) == IF table[c] # Nothing THEN table[c] ELSE table[Star]

(* The hint is asked for a concrete customer only. *)
WantsHint(f) == f.customer \notin {Nothing, Star}

(* stage becomes what came of it: "ok", "pending" or "error". *)
Answer(i, outcome, a) == wire' = [wire EXCEPT ![i].stage = outcome, ![i].answer = a]

Read(i) ==
    /\ \/ wire[i].op = "list" /\ Answer(i, "ok", Listed(wire[i].filter))
       \/ wire[i].op = "resolve" /\ Answer(i, "ok", Resolved(wire[i].filter.customer))
    /\ UNCHANGED store

(* validateLimit and validateKey: the tuple is complete. *)
Valid(q) == q.customer # Nothing

(* reviewReason. *)
NeedsReview(q, op) == op # "create" /\ q.customer = Star

(* Creating needs a free tuple, the rest a taken one. *)
Accepted(q, op) ==
    /\ Valid(q) /\ ~NeedsReview(q, op)
    /\ op = "create" <=> table[q.customer] = Nothing

(* quotamgmt writes or deletes the row. *)
Put(q, op, reviewed) ==
    LET new == IF op = "delete" THEN Nothing ELSE q.row IN
    /\ table' = [table EXCEPT ![q.customer] = new]
    /\ landed' = IF op = "delete" THEN landed
                 ELSE landed \cup {[shown |-> q.shown, reviewed |-> reviewed,
                                    written |-> [before |-> table[q.customer], after |-> new]]}

Write(i) ==
    /\ wire[i].op \in {"create", "update", "delete"}
    /\ Accepted(wire[i].of, wire[i].op)
    /\ Put(wire[i].of, wire[i].op, FALSE)
    /\ \E outcome \in {"ok", "error"} : Answer(i, outcome, Nothing)
    /\ UNCHANGED reviews

Review(i) ==
    /\ wire[i].op \in {"update", "delete"}
    /\ NeedsReview(wire[i].of, wire[i].op)
    /\ reviews' = reviews \cup {[id |-> i, op |-> wire[i].op, of |-> wire[i].of]}
    /\ \E outcome \in {"pending", "error"} : Answer(i, outcome, Nothing)
    /\ UNCHANGED <<table, landed>>

Refuse(i) ==
    /\ wire[i].op \in {"create", "update", "delete"}
    /\ ~Accepted(wire[i].of, wire[i].op) /\ ~NeedsReview(wire[i].of, wire[i].op)
    /\ Answer(i, "error", Nothing)
    /\ UNCHANGED store

Fail(i) ==
    /\ Answer(i, "error", Nothing)
    /\ UNCHANGED store

Serve(i) ==
    /\ wire[i].stage = "asked"
    /\ Read(i) \/ Write(i) \/ Review(i) \/ Refuse(i) \/ Fail(i)
    /\ UNCHANGED <<filter, page, elsewhere>>

(* Someone else approves a review, and executePendingOp carries it out: an *)
(* update with create_if_absent, a delete without allow_missing.  Or it is *)
(* rejected, fails or goes with the console.                               *)
Decide ==
    /\ \E v \in reviews :
          /\ reviews' = reviews \ {v}
          /\ \/ (v.op = "delete" => table[v.of.customer] # Nothing) /\ Put(v.of, v.op, TRUE)
             \/ UNCHANGED <<table, landed>>
    /\ UNCHANGED <<filter, page, wire, elsewhere>>

Elsewhere ==
    /\ elsewhere < MaxElsewhere
    /\ elsewhere' = elsewhere + 1
    /\ \E c \in Customers, v \in Values \cup {Nothing} : table' = [table EXCEPT ![c] = v]
    /\ UNCHANGED <<filter, page, wire, reviews, landed>>
---------------------------------------------------------------------------
(* What an await goes on with.  search asks for the hint after the rows,   *)
(* and onSaved searches again, both with the fields of the click; onSaved  *)
(* closes whatever editor is open by then.                                 *)
Then(i, op) == wire' = [wire EXCEPT ![i] = Request(op, @.filter, Nothing)]
Done(i) == wire' = [wire EXCEPT ![i].stage = "done", ![i].answer = Nothing, ![i].of = Nothing]

Found(i) ==
    /\ wire[i].op = "list" /\ wire[i].stage = "ok"
    /\ limits' = wire[i].answer
    /\ IF WantsHint(wire[i].filter) THEN Then(i, "resolve") /\ UNCHANGED effective
       ELSE Done(i) /\ effective' = Nothing
    /\ UNCHANGED <<editing, form, typed>>

Hinted(i) ==
    /\ wire[i].op = "resolve" /\ wire[i].stage = "ok"
    /\ effective' = [customer |-> wire[i].filter.customer, row |-> wire[i].answer]
    /\ Done(i)
    /\ UNCHANGED <<limits, editing, form, typed>>

Lost(i) ==
    /\ wire[i].op \in {"list", "resolve"} /\ wire[i].stage = "error"
    /\ limits' = {}
    /\ Done(i)
    /\ UNCHANGED <<effective, editing, form, typed>>

Saved(i) ==
    /\ wire[i].op \in {"create", "update", "delete"} /\ wire[i].stage = "ok"
    /\ Close
    /\ Then(i, "list")
    /\ UNCHANGED <<limits, effective>>

(* A notice that the change waits for review, or an error; the editor stays. *)
Noted(i) ==
    /\ wire[i].op \in {"create", "update", "delete"} /\ wire[i].stage \in {"pending", "error"}
    /\ Done(i)
    /\ UNCHANGED page

Arrive(i) ==
    /\ Found(i) \/ Hinted(i) \/ Lost(i) \/ Saved(i) \/ Noted(i)
    /\ UNCHANGED <<filter, store, elsewhere>>

Next ==
    \/ ChangeFilter \/ Search \/ Edit \/ New \/ Fill \/ Type \/ Cancel \/ Save \/ Del
    \/ \E i \in DOMAIN wire : Serve(i) \/ Arrive(i)
    \/ Decide
    \/ Elsewhere

Spec == Init /\ [][Next]_vars
---------------------------------------------------------------------------
Rows == [customer : Customers, row : Values, isNew : {FALSE}]
Drafts == [customer : Customers \cup {Nothing}, row : Values, isNew : BOOLEAN]
Keys == [customer : Customers \cup {Nothing}]
Diffs == [before : Values \cup {Nothing}, after : Values]
Changes == [customer : Customers \cup {Nothing}, row : Values, shown : Diffs]

Reads ==
    [op : {"list", "resolve"}, filter : Filters, of : {Nothing},
     stage : {"asked", "error"}, answer : {Nothing}]
    \cup [op : {"list"}, filter : Filters, of : {Nothing}, stage : {"ok"}, answer : SUBSET Rows]
    \cup [op : {"resolve"}, filter : Filters, of : {Nothing},
          stage : {"ok"}, answer : Values \cup {Nothing}]

Saves ==
    [op : {"create", "update"}, filter : Filters, of : Changes,
     stage : {"asked", "ok", "pending", "error"}, answer : {Nothing}]

Deletes ==
    [op : {"delete"}, filter : Filters, of : Keys,
     stage : {"asked", "ok", "pending", "error"}, answer : {Nothing}]

Finished ==
    [op : {"list", "resolve", "create", "update", "delete"}, filter : Filters,
     of : {Nothing}, stage : {"done"}, answer : {Nothing}]

Reviews ==
    [id : Nat, op : {"update"}, of : Changes] \cup [id : Nat, op : {"delete"}, of : Keys]

Requests == Reads \cup Saves \cup Deletes \cup Finished

TypeOK ==
    /\ table \in [Customers -> Values \cup {Nothing}]
    /\ filter \in Filters /\ limits \subseteq Rows
    /\ effective \in {Nothing} \cup [customer : Customers, row : Values \cup {Nothing}]
    /\ editing \in {Nothing, EMPTY} \cup Rows
    /\ form \in Drafts /\ typed \in Customers \cup {Nothing}
    /\ wire \in Seq(Requests)
    /\ reviews \subseteq Reviews
    /\ landed \subseteq [shown : Diffs, reviewed : BOOLEAN, written : Diffs]
    /\ elsewhere \in Nat

(* The preview is the change: what a save writes to limit_config_audit, a  *)
(* row before and a row after, is what the editor showed at the click.     *)
PreviewIsTheChange == \A e \in landed : e.written = e.shown

(* As far as the preview goes: it shows the contents that the save then    *)
(* writes, and never a change as a creation.  It may show another row      *)
(* before, and a creation as a change only where the save was reviewed.    *)
PreviewErrsInTheOldRow ==
    \A e \in landed :
       /\ e.written.after = e.shown.after
       /\ e.shown.before = Nothing => e.written.before = Nothing
       /\ e.written.before = Nothing => e.shown.before = Nothing \/ e.reviewed

(* Its strengthening: a save on its way carries what it showed, and what   *)
(* it showed before is nothing just when it creates; so does one that      *)
(* waits for review, and it is of the default.  A hint is asked for a      *)
(* customer.                                                               *)
AsShown(r) ==
    /\ r.op \in {"create", "update"} /\ r.stage = "asked" =>
          /\ r.of.row = r.of.shown.after
          /\ r.of.shown.before = Nothing <=> r.op = "create"
    /\ r.op = "resolve" => r.filter.customer \in Customers

SentAsShown == \A i \in DOMAIN wire : AsShown(wire[i])

ReviewedAsShown ==
    \A v \in reviews :
       /\ v.of.customer = Star
       /\ v.op = "update" => v.of.row = v.of.shown.after /\ v.of.shown.before # Nothing
=============================================================================
