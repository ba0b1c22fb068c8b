-------------------------- MODULE LimitsPageProofs --------------------------
(* How far the preview of the Limits page can be trusted, for any number   *)
(* of customers, contents, requests and writes by others.                  *)
EXTENDS LimitsPage, TLAPS

(* A default exists for every limit's key, a row has contents, and no row  *)
(* is not a row.                                                           *)
PageConstants == Star \in Customers /\ Values # {} /\ Nothing \notin Values

LEMMA EmptyTyped ==
  ASSUME PageConstants
  PROVE  EMPTY \in Drafts /\ EMPTY.isNew /\ EMPTY.customer = Nothing /\ EMPTY.row \in Values
<1>1. (CHOOSE v \in Values : TRUE) \in Values
  BY Zenon DEF PageConstants
<1> QED BY <1>1 DEF EMPTY, Drafts

LEMMA EditingTyped ==
  ASSUME PageConstants, TypeOK, editing # Nothing
  PROVE  /\ editing \in Drafts
         /\ ~editing.isNew => editing.row \in Values
  BY EmptyTyped DEF TypeOK, Rows, Drafts

(* What a request is, by its operation and its stage. *)
LEMMA RequestFields ==
  ASSUME TypeOK, NEW i \in DOMAIN wire
  PROVE  /\ wire[i] \in Requests
         /\ wire[i] = [op |-> wire[i].op, filter |-> wire[i].filter, of |-> wire[i].of,
                       stage |-> wire[i].stage, answer |-> wire[i].answer]
         /\ wire[i].filter \in Filters
<1>1. wire[i] \in Requests
  BY DEF TypeOK
<1>2. CASE wire[i] \in Reads
  BY <1>1, <1>2 DEF Reads
<1>3. CASE wire[i] \in Saves
  BY <1>1, <1>3 DEF Saves
<1>4. CASE wire[i] \in Deletes
  BY <1>1, <1>4 DEF Deletes
<1>5. CASE wire[i] \in Finished
  BY <1>1, <1>5 DEF Finished
<1> QED BY <1>1, <1>2, <1>3, <1>4, <1>5, Zenon DEF Requests

LEMMA ReadFields ==
  ASSUME TypeOK, NEW i \in DOMAIN wire, wire[i].op \in {"list", "resolve"}, wire[i].stage # "done"
  PROVE  /\ wire[i] \in Reads
         /\ wire[i].of = Nothing
         /\ wire[i].op = "list" /\ wire[i].stage = "ok" => wire[i].answer \in SUBSET Rows
         /\ wire[i].op = "resolve" /\ wire[i].stage = "ok" =>
               wire[i].answer \in Values \cup {Nothing}
<1>1. wire[i] \in Requests
  BY RequestFields
<1>2. wire[i] \in Reads
  BY <1>1 DEF Requests, Saves, Deletes, Finished
<1> QED BY <1>2 DEF Reads

LEMMA SaveFields ==
  ASSUME TypeOK, NEW i \in DOMAIN wire, wire[i].op \in {"create", "update"}, wire[i].stage # "done"
  PROVE  /\ wire[i] \in Saves
         /\ wire[i].of \in Changes
         /\ wire[i].of.customer \in Customers \cup {Nothing} /\ wire[i].of.row \in Values
         /\ wire[i].of.shown \in Diffs
<1>1. wire[i] \in Requests
  BY RequestFields
<1>2. wire[i] \in Saves
  BY <1>1 DEF Requests, Reads, Deletes, Finished
<1> QED BY <1>2 DEF Saves, Changes

LEMMA DeleteFields ==
  ASSUME TypeOK, NEW i \in DOMAIN wire, wire[i].op = "delete", wire[i].stage # "done"
  PROVE  /\ wire[i] \in Deletes /\ wire[i].of \in Keys
         /\ wire[i].of.customer \in Customers \cup {Nothing}
<1>1. wire[i] \in Requests
  BY RequestFields
<1>2. wire[i] \in Deletes
  BY <1>1 DEF Requests, Reads, Saves, Finished
<1> QED BY <1>2 DEF Deletes, Keys
---------------------------------------------------------------------------
(* What a step does to the wire: it appends a request or replaces one. *)
LEMMA PutKeeps ==
  ASSUME TypeOK, SentAsShown, NEW i \in DOMAIN wire, NEW r \in Requests, AsShown(r),
         wire' = [wire EXCEPT ![i] = r]
  PROVE  wire' \in Seq(Requests) /\ SentAsShown'
<1>1. wire \in Seq(Requests)
  BY DEF TypeOK
<1>2. wire' \in Seq(Requests) /\ DOMAIN wire' = DOMAIN wire
  BY <1>1
<1>3. ASSUME NEW j \in DOMAIN wire PROVE wire'[j] = IF j = i THEN r ELSE wire[j]
  BY <1>1
<1>4. ASSUME NEW j \in DOMAIN wire' PROVE AsShown(wire'[j])
  BY <1>2, <1>3, <1>4, Zenon DEF SentAsShown
<1> QED BY <1>2, <1>4, Zenon DEF SentAsShown

LEMMA SendKeeps ==
  ASSUME TypeOK, SentAsShown, NEW op, NEW q, Send(op, q),
         Request(op, filter, q) \in Requests, AsShown(Request(op, filter, q))
  PROVE  wire' \in Seq(Requests) /\ SentAsShown'
<1>1. PICK r \in Requests : r = Request(op, filter, q)
  BY Zenon
<1>2. wire \in Seq(Requests) /\ wire' = Append(wire, r)
  BY <1>1 DEF TypeOK, Send
<1>3. /\ wire' \in Seq(Requests) /\ Len(wire) \in Nat /\ DOMAIN wire = 1 .. Len(wire)
      /\ DOMAIN wire' = 1 .. Len(wire) + 1 /\ wire'[Len(wire) + 1] = r
      /\ \A j \in 1 .. Len(wire) : wire'[j] = wire[j]
  BY <1>2
<1>4. ASSUME NEW j \in DOMAIN wire' PROVE AsShown(wire'[j])
  <2>1. j = Len(wire) + 1 \/ j \in 1 .. Len(wire)
    BY <1>3, <1>4
  <2> QED BY <1>1, <1>3, <2>1, Zenon DEF SentAsShown
<1> QED BY <1>3, <1>4, Zenon DEF SentAsShown

LEMMA RecordIs ==
  ASSUME NEW op, NEW f, NEW q, NEW stage, NEW a,
         NEW r \in [op : {op}, filter : {f}, of : {q}, stage : {stage}, answer : {a}]
  PROVE  r = [op |-> op, filter |-> f, of |-> q, stage |-> stage, answer |-> a]
  OBVIOUS

LEMMA AnswerIs ==
  ASSUME TypeOK, NEW i \in DOMAIN wire, NEW outcome, NEW a, Answer(i, outcome, a)
  PROVE  wire' = [wire EXCEPT ![i] =
             [op |-> wire[i].op, filter |-> wire[i].filter, of |-> wire[i].of,
              stage |-> outcome, answer |-> a]]
<1>1. wire' = [wire EXCEPT ![i] = [wire[i] EXCEPT !.stage = outcome, !.answer = a]]
  BY DEF Answer
<1>2. [wire[i] EXCEPT !.stage = outcome, !.answer = a] =
         [op |-> wire[i].op, filter |-> wire[i].filter, of |-> wire[i].of,
          stage |-> outcome, answer |-> a]
  <2>1. PICK r : r = wire[i]
    OBVIOUS
  <2>2. r \in [op : {r.op}, filter : {r.filter}, of : {r.of}, stage : {r.stage},
               answer : {r.answer}]
    BY <2>1, RequestFields
  <2>3. [r EXCEPT !.stage = outcome, !.answer = a]
           \in [op : {r.op}, filter : {r.filter}, of : {r.of}, stage : {outcome}, answer : {a}]
    BY <2>2
  <2>4. [r EXCEPT !.stage = outcome, !.answer = a] =
           [op |-> r.op, filter |-> r.filter, of |-> r.of, stage |-> outcome, answer |-> a]
    BY <2>3, RecordIs, Zenon
  <2> QED BY <2>1, <2>4
<1> QED BY <1>1, <1>2, Zenon

LEMMA DoneIs ==
  ASSUME TypeOK, NEW i \in DOMAIN wire, Done(i)
  PROVE  wire' = [wire EXCEPT ![i] =
             [op |-> wire[i].op, filter |-> wire[i].filter, of |-> Nothing,
              stage |-> "done", answer |-> Nothing]]
<1>1. wire' = [wire EXCEPT ![i] =
          [wire[i] EXCEPT !.stage = "done", !.answer = Nothing, !.of = Nothing]]
  BY DEF Done
<1>2. [wire[i] EXCEPT !.stage = "done", !.answer = Nothing, !.of = Nothing] =
         [op |-> wire[i].op, filter |-> wire[i].filter, of |-> Nothing,
          stage |-> "done", answer |-> Nothing]
  <2>1. PICK r : r = wire[i]
    OBVIOUS
  <2>2. r \in [op : {r.op}, filter : {r.filter}, of : {r.of}, stage : {r.stage},
               answer : {r.answer}]
    BY <2>1, RequestFields
  <2>3. [r EXCEPT !.stage = "done", !.answer = Nothing, !.of = Nothing]
           \in [op : {r.op}, filter : {r.filter}, of : {Nothing}, stage : {"done"},
                answer : {Nothing}]
    BY <2>2
  <2>4. [r EXCEPT !.stage = "done", !.answer = Nothing, !.of = Nothing] =
           [op |-> r.op, filter |-> r.filter, of |-> Nothing, stage |-> "done", answer |-> Nothing]
    BY <2>3, RecordIs, Zenon
  <2> QED BY <2>1, <2>4
<1> QED BY <1>1, <1>2, Zenon

LEMMA ThenIs ==
  ASSUME TypeOK, NEW i \in DOMAIN wire, NEW op, Then(i, op)
  PROVE  wire' = [wire EXCEPT ![i] = Request(op, wire[i].filter, Nothing)]
  BY Zenon DEF Then
---------------------------------------------------------------------------
PageInv == TypeOK /\ SentAsShown /\ ReviewedAsShown /\ PreviewErrsInTheOldRow

LEMMA PageInit ==
  ASSUME PageConstants
  PROVE  Init => PageInv
<1> SUFFICES ASSUME Init PROVE PageInv
  OBVIOUS
<1>1. filter \in Filters
  BY DEF Init, Filters
<1>2. wire \in Seq(Requests) /\ DOMAIN wire = {}
  BY DEF Init
<1>3. form \in Drafts
  BY EmptyTyped DEF Init
<1>4. TypeOK
  BY <1>1, <1>2, <1>3, Zenon DEF Init, TypeOK
<1> QED BY <1>2, <1>4, Zenon
        DEF Init, PageInv, SentAsShown, ReviewedAsShown, PreviewErrsInTheOldRow

(* The steps of the page that send nothing. *)
LEMMA LocalStep ==
  ASSUME PageConstants, TypeOK, SentAsShown,
         ChangeFilter \/ Edit \/ New \/ Fill \/ Type \/ Cancel
  PROVE  TypeOK' /\ SentAsShown' /\ reviews' = reviews /\ landed' = landed
<1>1. UNCHANGED <<wire, table, reviews, landed>>
  BY Zenon DEF ChangeFilter, Edit, New, Open, Fill, Type, Cancel, page, store
<1>2. SentAsShown'
  BY <1>1, Zenon DEF SentAsShown
<1>3. CASE ChangeFilter
  BY <1>1, <1>2, <1>3, Zenon DEF ChangeFilter, page, TypeOK
<1>4. ASSUME NEW l \in Rows \cup {EMPTY}, Open(l) PROVE TypeOK'
  <2>1. l \in Drafts
    BY EmptyTyped DEF Rows, Drafts
  <2>2. form' \in Drafts /\ typed' \in Customers \cup {Nothing}
    BY <1>4, <2>1, Zenon DEF Open, TypeOK
  <2> QED BY <1>1, <1>4, <2>2, Zenon DEF Open, TypeOK
<1>5. CASE Edit \/ New
  BY <1>1, <1>2, <1>4, <1>5, Zenon DEF Edit, New, TypeOK
<1>6. CASE Fill
  <2>1. form' \in Drafts
    BY <1>6 DEF Fill, TypeOK, Drafts
  <2> QED BY <1>1, <1>2, <1>6, <2>1, Zenon DEF Fill, TypeOK
<1>7. CASE Type
  BY <1>1, <1>2, <1>7, Zenon DEF Type, TypeOK
<1>8. CASE Cancel
  BY <1>1, <1>2, <1>8, EmptyTyped, Zenon DEF Cancel, Close, TypeOK
<1> QED BY <1>3, <1>5, <1>6, <1>7, <1>8

(* Search, Save and Delete send a request. *)
LEMMA SendStep ==
  ASSUME PageConstants, TypeOK, SentAsShown, Search \/ Save \/ Del
  PROVE  TypeOK' /\ SentAsShown' /\ reviews' = reviews /\ landed' = landed
<1>1. UNCHANGED <<table, filter, limits, effective, editing, form, typed, reviews, landed, elsewhere>>
  BY Zenon DEF Search, Save, Del, page, store
<1>2. filter \in Filters /\ form.customer \in Customers \cup {Nothing} /\ form.row \in Values
  BY DEF TypeOK, Drafts
<1>3. CASE Search
  <2>1. Request("list", filter, Nothing) \in Reads /\ AsShown(Request("list", filter, Nothing))
    BY <1>2 DEF Request, Reads, AsShown
  <2> QED BY <1>1, <1>3, <2>1, SendKeeps, Zenon DEF Search, Requests, TypeOK
<1>4. CASE Save
  <2>1. PICK op : op = IF editing.isNew THEN "create" ELSE "update"
    OBVIOUS
  <2>2. PICK d : d = Preview
    OBVIOUS
  <2>3. /\ d \in Diffs /\ d.after = form.row
        /\ editing.isNew \in BOOLEAN /\ (d.before = Nothing <=> editing.isNew)
    BY <1>2, <1>4, <2>2, EditingTyped DEF Save, Preview, Diffs, Drafts, PageConstants
  <2> DEFINE q == [customer |-> form.customer, row |-> form.row, shown |-> d]
  <2>4. q \in Changes /\ q.row = form.row /\ q.shown = d
    BY <1>2, <2>3 DEF Changes
  <2>5. Send(op, q)
    BY <1>4, <2>1, <2>2, Zenon DEF Save
  <2> HIDE DEF q
  <2>6. Request(op, filter, q) \in Saves
    BY <1>2, <2>1, <2>3, <2>4 DEF Request, Saves
  <2>7. AsShown(Request(op, filter, q))
    BY <2>1, <2>3, <2>4 DEF Request, AsShown
  <2> QED BY <1>1, <2>5, <2>6, <2>7, SendKeeps, Zenon DEF Requests, TypeOK
<1>5. CASE Del
  <2> DEFINE q == [customer |-> form.customer]
  <2>1. q \in Keys /\ Send("delete", q)
    BY <1>2, <1>5 DEF Del, Keys
  <2> HIDE DEF q
  <2>2. Request("delete", filter, q) \in Deletes /\ AsShown(Request("delete", filter, q))
    BY <1>2, <2>1 DEF Request, Deletes, AsShown
  <2> QED BY <1>1, <2>1, <2>2, SendKeeps, Zenon DEF Requests, TypeOK
<1> QED BY <1>3, <1>4, <1>5, <1>1
---------------------------------------------------------------------------
(* What the console reads for the page. *)
LEMMA ListedTyped ==
  ASSUME TypeOK, NEW f
  PROVE  Listed(f) \in SUBSET Rows
<1>1. ASSUME NEW c \in Customers, table[c] # Nothing PROVE Row(c) \in Rows
  BY <1>1 DEF Row, Rows, TypeOK
<1> QED BY <1>1, Zenon DEF Listed

LEMMA ResolvedTyped ==
  ASSUME PageConstants, TypeOK, NEW c \in Customers
  PROVE  Resolved(c) \in Values \cup {Nothing}
  BY DEF Resolved, PageConstants, TypeOK

(* An answer keeps a request well formed, if it is one of its kind. *)
LEMMA AnswerKeeps ==
  ASSUME TypeOK, SentAsShown, NEW i \in DOMAIN wire, NEW outcome, NEW a, Answer(i, outcome, a),
         outcome # "asked",
         [op |-> wire[i].op, filter |-> wire[i].filter, of |-> wire[i].of,
          stage |-> outcome, answer |-> a] \in Requests
  PROVE  wire' \in Seq(Requests) /\ SentAsShown'
<1> DEFINE r == [op |-> wire[i].op, filter |-> wire[i].filter, of |-> wire[i].of,
                 stage |-> outcome, answer |-> a]
<1>1. r.op = wire[i].op /\ r.filter = wire[i].filter /\ r.stage # "asked"
  OBVIOUS
<1>2. AsShown(wire[i])
  BY Zenon DEF SentAsShown
<1>3. wire' = [wire EXCEPT ![i] = r]
  BY AnswerIs, Zenon
<1> HIDE DEF r
<1>4. AsShown(r)
  BY <1>1, <1>2, Zenon DEF AsShown
<1> QED BY <1>3, <1>4, PutKeeps, Zenon DEF r

(* A write that is answered. *)
LEMMA WriteAnswered ==
  ASSUME TypeOK, SentAsShown, NEW i \in DOMAIN wire, wire[i].op \in {"create", "update", "delete"},
         wire[i].stage = "asked", NEW outcome \in {"ok", "pending", "error"},
         Answer(i, outcome, Nothing)
  PROVE  wire' \in Seq(Requests) /\ SentAsShown'
<1>1. CASE wire[i].op \in {"create", "update"}
  <2>1. [op |-> wire[i].op, filter |-> wire[i].filter, of |-> wire[i].of,
         stage |-> outcome, answer |-> Nothing] \in Saves
    BY <1>1, SaveFields DEF Saves
  <2> QED BY <2>1, AnswerKeeps, Zenon DEF Requests
<1>2. CASE wire[i].op = "delete"
  <2>1. [op |-> wire[i].op, filter |-> wire[i].filter, of |-> wire[i].of,
         stage |-> outcome, answer |-> Nothing] \in Deletes
    BY <1>2, DeleteFields DEF Deletes
  <2> QED BY <2>1, AnswerKeeps, Zenon DEF Requests
<1> QED BY <1>1, <1>2

LEMMA ReadStep ==
  ASSUME PageConstants, TypeOK, SentAsShown, NEW i \in DOMAIN wire, wire[i].stage = "asked", Read(i)
  PROVE  wire' \in Seq(Requests) /\ SentAsShown'
<1>1. wire[i].op \in {"list", "resolve"} /\ wire[i].of = Nothing /\ wire[i].filter \in Filters
  BY ReadFields, RequestFields DEF Read
<1>2. CASE wire[i].op = "list"
  <2>1. PICK a \in SUBSET Rows : a = Listed(wire[i].filter)
    BY ListedTyped, Zenon
  <2>2. Answer(i, "ok", a)
    BY <1>2, <2>1, Zenon DEF Read
  <2>3. [op |-> wire[i].op, filter |-> wire[i].filter, of |-> wire[i].of,
         stage |-> "ok", answer |-> a] \in Reads
    BY <1>1, <1>2 DEF Reads
  <2> QED BY <2>2, <2>3, AnswerKeeps, Zenon DEF Requests
<1>3. CASE wire[i].op = "resolve"
  <2>1. wire[i].filter.customer \in Customers
    BY <1>3, Zenon DEF SentAsShown, AsShown
  <2>2. PICK a \in Values \cup {Nothing} : a = Resolved(wire[i].filter.customer)
    BY <2>1, ResolvedTyped, Zenon
  <2>3. Answer(i, "ok", a)
    BY <1>3, <2>2, Zenon DEF Read
  <2>4. [op |-> wire[i].op, filter |-> wire[i].filter, of |-> wire[i].of,
         stage |-> "ok", answer |-> a] \in Reads
    BY <1>1, <1>3 DEF Reads
  <2> QED BY <2>3, <2>4, AnswerKeeps, Zenon DEF Requests
<1> QED BY <1>1, <1>2, <1>3

LEMMA RefusedStep ==
  ASSUME TypeOK, SentAsShown, NEW i \in DOMAIN wire, wire[i].stage = "asked", Refuse(i) \/ Fail(i)
  PROVE  wire' \in Seq(Requests) /\ SentAsShown'
<1>1. Answer(i, "error", Nothing)
  BY Zenon DEF Refuse, Fail
<1>2. CASE wire[i].op \in {"create", "update", "delete"}
  BY <1>1, <1>2, WriteAnswered, Zenon
<1>3. CASE wire[i].op \in {"list", "resolve"}
  <2>1. [op |-> wire[i].op, filter |-> wire[i].filter, of |-> wire[i].of,
         stage |-> "error", answer |-> Nothing] \in Reads
    BY <1>3, ReadFields, RequestFields DEF Reads
  <2> QED BY <1>1, <2>1, AnswerKeeps, Zenon DEF Requests
<1>4. wire[i].op \in {"create", "update", "delete", "list", "resolve"}
  BY RequestFields DEF Requests, Reads, Saves, Deletes, Finished
<1> QED BY <1>2, <1>3, <1>4

(* A save lands: it writes the contents shown, onto a row that the preview *)
(* had too unless it was reviewed.                                         *)
LEMMA PutStep ==
  ASSUME PageConstants, TypeOK, PreviewErrsInTheOldRow,
         NEW op \in {"create", "update", "delete"}, NEW q, NEW reviewed \in BOOLEAN,
         Put(q, op, reviewed), q.customer \in Customers,
         op # "delete" =>
            /\ q.row \in Values /\ q.shown \in Diffs /\ q.row = q.shown.after
            /\ q.shown.before = Nothing => table[q.customer] = Nothing
            /\ table[q.customer] = Nothing => q.shown.before = Nothing \/ reviewed
  PROVE  /\ table' \in [Customers -> Values \cup {Nothing}]
         /\ landed' \subseteq [shown : Diffs, reviewed : BOOLEAN, written : Diffs]
         /\ PreviewErrsInTheOldRow'
<1>1. CASE op = "delete"
  <2>1. table' = [table EXCEPT ![q.customer] = Nothing] /\ landed' = landed
    BY <1>1, Zenon DEF Put
  <2>2. table' \in [Customers -> Values \cup {Nothing}]
    BY <2>1 DEF TypeOK
  <2> QED BY <2>1, <2>2, Zenon DEF TypeOK, PreviewErrsInTheOldRow
<1>2. CASE op # "delete"
  <2> DEFINE e == [shown |-> q.shown, reviewed |-> reviewed,
                   written |-> [before |-> table[q.customer], after |-> q.row]]
  <2>1. table' = [table EXCEPT ![q.customer] = q.row] /\ landed' = landed \cup {e}
    BY <1>2, Zenon DEF Put
  <2>2. table' \in [Customers -> Values \cup {Nothing}]
    BY <1>2, <2>1 DEF TypeOK
  <2>3. /\ e \in [shown : Diffs, reviewed : BOOLEAN, written : Diffs]
        /\ e.written.after = e.shown.after
        /\ e.shown.before = Nothing => e.written.before = Nothing
        /\ e.written.before = Nothing => e.shown.before = Nothing \/ e.reviewed
    <3>1. [before |-> table[q.customer], after |-> q.row] \in Diffs
      BY <1>2 DEF TypeOK, Diffs
    <3> QED BY <1>2, <3>1
  <2> HIDE DEF e
  <2>4. landed' \subseteq [shown : Diffs, reviewed : BOOLEAN, written : Diffs]
    BY <2>1, <2>3, Zenon DEF TypeOK
  <2>5. PreviewErrsInTheOldRow'
    BY <2>1, <2>3, Zenon DEF PreviewErrsInTheOldRow
  <2> QED BY <2>2, <2>4, <2>5
<1> QED BY <1>1, <1>2

(* Without a review the old row is there just when the save was an update, *)
(* and then the preview had one too.                                       *)
LEMMA WriteStep ==
  ASSUME PageConstants, TypeOK, SentAsShown, PreviewErrsInTheOldRow,
         NEW i \in DOMAIN wire, wire[i].stage = "asked", Write(i)
  PROVE  /\ wire' \in Seq(Requests) /\ SentAsShown'
         /\ table' \in [Customers -> Values \cup {Nothing}]
         /\ landed' \subseteq [shown : Diffs, reviewed : BOOLEAN, written : Diffs]
         /\ PreviewErrsInTheOldRow'
<1>1. /\ wire[i].op \in {"create", "update", "delete"} /\ Accepted(wire[i].of, wire[i].op)
      /\ Put(wire[i].of, wire[i].op, FALSE)
      /\ \E outcome \in {"ok", "error"} : Answer(i, outcome, Nothing)
  BY Zenon DEF Write
<1>2. wire' \in Seq(Requests) /\ SentAsShown'
  BY <1>1, WriteAnswered, Zenon
<1>3. PICK q, op : q = wire[i].of /\ op = wire[i].op
  OBVIOUS
<1>4. op \in {"create", "update", "delete"} /\ Put(q, op, FALSE)
  BY <1>1, <1>3, Zenon
<1>5. q.customer \in Customers
  BY <1>1, <1>3, SaveFields, DeleteFields DEF Accepted, Valid
<1>6. op # "delete" =>
         /\ q.row \in Values /\ q.shown \in Diffs /\ q.row = q.shown.after
         /\ q.shown.before = Nothing <=> op = "create"
  BY <1>1, <1>3, SaveFields DEF SentAsShown, AsShown
<1>7. table[q.customer] = Nothing <=> op = "create"
  BY <1>1, <1>3, Zenon DEF Accepted
<1> QED BY <1>2, <1>4, <1>5, <1>6, <1>7, PutStep, Zenon

LEMMA ReviewStep ==
  ASSUME PageConstants, TypeOK, SentAsShown, ReviewedAsShown,
         NEW i \in DOMAIN wire, wire[i].stage = "asked", Review(i)
  PROVE  /\ wire' \in Seq(Requests) /\ SentAsShown'
         /\ reviews' \subseteq Reviews /\ ReviewedAsShown'
<1>1. /\ wire[i].op \in {"update", "delete"} /\ wire[i].of.customer = Star
      /\ \E outcome \in {"pending", "error"} : Answer(i, outcome, Nothing)
  BY Zenon DEF Review, NeedsReview
<1>2. wire' \in Seq(Requests) /\ SentAsShown'
  BY <1>1, WriteAnswered, Zenon
<1>3. PICK q, op : q = wire[i].of /\ op = wire[i].op
  OBVIOUS
<1> DEFINE v == [id |-> i, op |-> op, of |-> q]
<1>4. reviews' = reviews \cup {v}
  BY <1>3, Zenon DEF Review
<1>5. i \in Nat
  BY DEF TypeOK
<1>6. /\ op = "update" => /\ q \in Changes /\ q.row = q.shown.after
                          /\ q.shown.before # Nothing
      /\ op = "delete" => q \in Keys
  BY <1>1, <1>3, SaveFields, DeleteFields DEF SentAsShown, AsShown
<1>7. v \in Reviews /\ v.of = q /\ v.op = op
  BY <1>1, <1>3, <1>5, <1>6 DEF Reviews
<1> HIDE DEF v
<1>8. reviews' \subseteq Reviews
  BY <1>4, <1>7, Zenon DEF TypeOK
<1>9. ReviewedAsShown'
  BY <1>1, <1>3, <1>4, <1>6, <1>7, Zenon DEF ReviewedAsShown
<1> QED BY <1>2, <1>8, <1>9

LEMMA ServeStep ==
  ASSUME PageConstants, PageInv, NEW i \in DOMAIN wire, Serve(i)
  PROVE  PageInv'
<1> USE DEF PageInv
<1>1. /\ UNCHANGED <<filter, limits, effective, editing, form, typed, elsewhere>>
      /\ wire[i].stage = "asked"
  BY Zenon DEF Serve, page
<1>2. CASE Write(i)
  <2>1. reviews' = reviews
    BY <1>2, Zenon DEF Write
  <2> QED BY <1>1, <1>2, <2>1, WriteStep, Zenon DEF TypeOK, ReviewedAsShown
<1>3. CASE Review(i)
  <2>1. UNCHANGED <<table, landed>>
    BY <1>3, Zenon DEF Review
  <2> QED BY <1>1, <1>3, <2>1, ReviewStep, Zenon DEF TypeOK, PreviewErrsInTheOldRow
<1>4. CASE Read(i) \/ Refuse(i) \/ Fail(i)
  <2>1. UNCHANGED <<table, reviews, landed>>
    BY <1>4, Zenon DEF Read, Refuse, Fail, store
  <2>2. wire' \in Seq(Requests) /\ SentAsShown'
    BY <1>1, <1>4, ReadStep, RefusedStep, Zenon
  <2> QED BY <1>1, <2>1, <2>2, Zenon DEF TypeOK, ReviewedAsShown, PreviewErrsInTheOldRow
<1> QED BY <1>2, <1>3, <1>4, Zenon DEF Serve

(* A review is carried out: it was shown as a change, and it may create. *)
LEMMA DecideStep ==
  ASSUME PageConstants, PageInv, Decide
  PROVE  PageInv'
<1> USE DEF PageInv
<1>1. PICK v \in reviews :
         /\ reviews' = reviews \ {v}
         /\ Put(v.of, v.op, TRUE) \/ UNCHANGED <<table, landed>>
  BY Zenon DEF Decide
<1>2. UNCHANGED <<filter, limits, effective, editing, form, typed, wire, elsewhere>>
  BY Zenon DEF Decide, page
<1>3. reviews' \subseteq Reviews /\ SentAsShown' /\ ReviewedAsShown'
  BY <1>1, <1>2, Zenon DEF TypeOK, SentAsShown, ReviewedAsShown
<1>4. CASE UNCHANGED <<table, landed>>
  BY <1>2, <1>3, <1>4, Zenon DEF TypeOK, PreviewErrsInTheOldRow
<1>5. CASE Put(v.of, v.op, TRUE)
  <2>1. v \in Reviews /\ v.of.customer \in Customers
    BY <1>1, Zenon DEF TypeOK, ReviewedAsShown, PageConstants
  <2>2. PICK q, op : q = v.of /\ op = v.op
    OBVIOUS
  <2>3. op \in {"update", "delete"} /\ (op = "update" => q.row \in Values /\ q.shown \in Diffs)
    BY <2>1, <2>2 DEF Reviews, Changes
  <2>4. op = "update" => q.row = q.shown.after /\ q.shown.before # Nothing
    BY <1>1, <2>2, Zenon DEF ReviewedAsShown
  <2>5. Put(q, op, TRUE) /\ q.customer \in Customers
    BY <1>5, <2>1, <2>2, Zenon
  <2>6. op \in {"create", "update", "delete"} /\ (op # "delete" => op = "update")
    BY <2>3
  <2>7. /\ table' \in [Customers -> Values \cup {Nothing}]
        /\ landed' \subseteq [shown : Diffs, reviewed : BOOLEAN, written : Diffs]
        /\ PreviewErrsInTheOldRow'
    BY <2>3, <2>4, <2>5, <2>6, PutStep, Zenon
  <2> QED BY <1>2, <1>3, <2>7, Zenon DEF TypeOK
<1> QED BY <1>1, <1>4, <1>5
---------------------------------------------------------------------------
(* An answer comes in, and the request is done or goes on as another. *)
LEMMA DoneKeeps ==
  ASSUME TypeOK, SentAsShown, NEW i \in DOMAIN wire, Done(i)
  PROVE  wire' \in Seq(Requests) /\ SentAsShown'
<1> DEFINE r == [op |-> wire[i].op, filter |-> wire[i].filter, of |-> Nothing,
                 stage |-> "done", answer |-> Nothing]
<1>1. r.op = wire[i].op /\ r.filter = wire[i].filter /\ r.stage # "asked"
  OBVIOUS
<1>2. AsShown(wire[i])
  BY Zenon DEF SentAsShown
<1>3. wire' = [wire EXCEPT ![i] = r]
  BY DoneIs, Zenon
<1>4. wire[i].op \in {"create", "update", "delete", "list", "resolve"}
  BY RequestFields DEF Requests, Reads, Saves, Deletes, Finished
<1>5. r \in Finished
  BY <1>4, RequestFields DEF Finished
<1> HIDE DEF r
<1>6. AsShown(r)
  BY <1>1, <1>2, Zenon DEF AsShown
<1> QED BY <1>3, <1>5, <1>6, PutKeeps, Zenon DEF Requests

LEMMA ThenKeeps ==
  ASSUME TypeOK, SentAsShown, NEW i \in DOMAIN wire, NEW op \in {"list", "resolve"}, Then(i, op),
         op = "resolve" => WantsHint(wire[i].filter)
  PROVE  wire' \in Seq(Requests) /\ SentAsShown'
<1>1. PICK f \in Filters : f = wire[i].filter
  BY RequestFields, Zenon
<1>2. op = "resolve" => f.customer \in Customers
  BY <1>1 DEF WantsHint, Filters
<1>3. Request(op, f, Nothing) \in Reads /\ AsShown(Request(op, f, Nothing))
  BY <1>2 DEF Request, Reads, AsShown
<1>4. wire' = [wire EXCEPT ![i] = Request(op, f, Nothing)]
  BY <1>1, ThenIs, Zenon
<1> QED BY <1>3, <1>4, PutKeeps, Zenon DEF Requests

LEMMA ArriveStep ==
  ASSUME PageConstants, PageInv, NEW i \in DOMAIN wire, Arrive(i)
  PROVE  PageInv'
<1> USE DEF PageInv
<1>1. UNCHANGED <<table, filter, reviews, landed, elsewhere>>
  BY Zenon DEF Arrive, store
<1>2. SUFFICES /\ wire' \in Seq(Requests) /\ SentAsShown'
               /\ limits' \subseteq Rows
               /\ effective' \in {Nothing} \cup [customer : Customers, row : Values \cup {Nothing}]
               /\ editing' \in {Nothing, EMPTY} \cup Rows /\ form' \in Drafts
               /\ typed' \in Customers \cup {Nothing}
  BY <1>1, Zenon DEF TypeOK, ReviewedAsShown, PreviewErrsInTheOldRow
<1>3. CASE Found(i)
  <2>1. limits' \subseteq Rows /\ UNCHANGED <<editing, form, typed>>
    BY <1>3, ReadFields DEF Found
  <2>2. CASE WantsHint(wire[i].filter)
    BY <1>3, <2>1, <2>2, ThenKeeps, Zenon DEF Found, TypeOK
  <2>3. CASE ~WantsHint(wire[i].filter)
    BY <1>3, <2>1, <2>3, DoneKeeps, Zenon DEF Found, TypeOK
  <2> QED BY <2>2, <2>3
<1>4. CASE Hinted(i)
  <2>1. wire[i].filter.customer \in Customers
    BY <1>4, Zenon DEF Hinted, SentAsShown, AsShown
  <2>2. wire[i].answer \in Values \cup {Nothing}
    BY <1>4, ReadFields DEF Hinted
  <2>3. effective' \in [customer : Customers, row : Values \cup {Nothing}]
    BY <1>4, <2>1, <2>2 DEF Hinted
  <2> QED BY <1>4, <2>3, DoneKeeps, Zenon DEF Hinted, TypeOK
<1>5. CASE Lost(i)
  BY <1>5, DoneKeeps, Zenon DEF Lost, TypeOK
<1>6. CASE Saved(i)
  BY <1>6, ThenKeeps, EmptyTyped, Zenon DEF Saved, Close, TypeOK
<1>7. CASE Noted(i)
  BY <1>7, DoneKeeps, Zenon DEF Noted, TypeOK, page
<1> QED BY <1>3, <1>4, <1>5, <1>6, <1>7, Zenon DEF Arrive

LEMMA PageStep ==
  ASSUME PageConstants, PageInv, [Next]_vars
  PROVE  PageInv'
<1> USE DEF PageInv
<1>1. CASE UNCHANGED vars
  BY <1>1, Zenon
  DEF vars, page, store, TypeOK, SentAsShown, ReviewedAsShown, PreviewErrsInTheOldRow
<1>2. CASE Elsewhere
  <2>1. /\ table' \in [Customers -> Values \cup {Nothing}] /\ elsewhere' \in Nat
        /\ UNCHANGED <<filter, limits, effective, editing, form, typed, wire, reviews, landed>>
    BY <1>2 DEF Elsewhere, page, TypeOK
  <2> QED BY <2>1, Zenon DEF TypeOK, SentAsShown, ReviewedAsShown, PreviewErrsInTheOldRow
<1>3. CASE ChangeFilter \/ Search \/ Edit \/ New \/ Fill \/ Type \/ Cancel \/ Save \/ Del
  <2>1. TypeOK' /\ SentAsShown' /\ reviews' = reviews /\ landed' = landed
    BY <1>3, LocalStep, SendStep
  <2> QED BY <2>1, Zenon DEF ReviewedAsShown, PreviewErrsInTheOldRow
<1>4. CASE \E i \in DOMAIN wire : Serve(i) \/ Arrive(i)
  BY <1>4, ServeStep, ArriveStep, Zenon
<1>5. CASE Decide
  BY <1>5, DecideStep, Zenon
<1> QED BY <1>1, <1>2, <1>3, <1>4, <1>5, Zenon DEF Next

(* The page, its editor and its requests stay well formed. *)
THEOREM PageTypeCorrect == ASSUME PageConstants PROVE Spec => []TypeOK
<1>1. Init => PageInv
  BY PageInit
<1>2. PageInv /\ [Next]_vars => PageInv'
  BY PageStep
<1> QED BY <1>1, <1>2, PTL DEF Spec, PageInv

(* Whichever rows are opened over one another, whatever others write and   *)
(* in whatever order answers come in and reviews are carried out, a save   *)
(* writes the contents that the preview showed, a save that was shown to   *)
(* create does create, and one that was shown to change a row creates only *)
(* when it was reviewed (executePendingOp's create_if_absent).             *)
THEOREM PreviewErrsNoFurther == ASSUME PageConstants PROVE Spec => []PreviewErrsInTheOldRow
<1>1. Init => PageInv
  BY PageInit
<1>2. PageInv /\ [Next]_vars => PageInv'
  BY PageStep
<1> QED BY <1>1, <1>2, PTL DEF Spec, PageInv
=============================================================================
