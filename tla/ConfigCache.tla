---------------------------- MODULE ConfigCache ----------------------------
(***************************************************************************)
(* The read-through config cache of one quotaenforcer instance, for one    *)
(* (service, customer, rate limit id) key, over the limit_config table     *)
(* that the control plane writes.  Instances share nothing but the table,  *)
(* and entries of different keys are independent.                          *)
(*                                                                         *)
(* resolve() runs in any number of tasks at once.  It gives up the mutex   *)
(* and the thread while its query is out, so a miss takes three steps:     *)
(* Miss, Snapshot (Postgres reads the rows) and Store (the answer is back) *)
(* or Fail.  Nothing joins two queries for one key, and nothing orders     *)
(* their stores.                                                           *)
(*                                                                         *)
(* Time only counts as durations: an entry carries the ticks it has left,  *)
(* an answer the ticks since its snapshot, and age[v] the ticks since v    *)
(* was last what the table says.                                           *)
(***************************************************************************)
EXTENDS Integers, FiniteSets

CONSTANTS
    Tasks,         \* concurrent calls of resolve
    Caps,          \* caps a row may hold
    Unconfigured,  \* no row; also the answer when none is known
    PositiveTtl, NegativeTtl, Jitter,   \* settings, in ticks
    MaxLatency,    \* slowest answer of Postgres (the code sets no timeout)
    MaxAge,        \* ages are counted up to here
    MaxWrites      \* bound on the number of config writes

ASSUME ValueAssumption == Unconfigured \notin Caps

ASSUME DurationAssumption ==
    /\ PositiveTtl \in Nat \ {0} /\ NegativeTtl \in Nat \ {0}
    /\ Jitter \in Nat /\ MaxLatency \in Nat /\ MaxWrites \in Nat
    /\ MaxAge \in Nat
    /\ MaxAge > MaxLatency + Jitter + PositiveTtl
    /\ MaxAge > MaxLatency + Jitter + NegativeTtl

Values == Caps \cup {Unconfigured}

VARIABLES
    rows,    \* rows.exact, rows.default: the customer's row and the '*' row
    up,      \* Postgres can be reached
    entry,   \* the cache entry: its value and ticks left, or NoEntry
    task,    \* task[t]: where t is in resolve, and what it has in hand
    answer,  \* answer[t]: t's last answer, how it was found, and its age then
    warm,    \* a lookup has completed since the process started
    age, writes

vars == <<rows, up, entry, task, answer, warm, age, writes>>

Never == MaxAge + 1  \* the age of a value that the table never had
NoEntry == [left |-> -1]
Ready == [at |-> "ready"]
NoAnswer == [how |-> "none"]
---------------------------------------------------------------------------
(* query_db: the customer's own row before the '*' row, or no row at all. *)
Resolution(r) == IF r.exact # Unconfigured THEN r.exact ELSE r.default

TtlOf(v) == IF v = Unconfigured THEN NegativeTtl ELSE PositiveTtl

(* Faults, never part of Spec, each before the definition it would spoil:  *)
(* jitter that shortens the TTL, a get_fresh without its expiry filter, a  *)
(* failed lookup that ignores an expired entry, and further down a hit     *)
(* that renews its entry.                                                  *)
JitterSubtracted(v, jitter) == TtlOf(v) - jitter

Lifetime(v, jitter) == TtlOf(v) + jitter

AnyEntryIsFresh == entry # NoEntry

Fresh == entry.left > 0

FreshOrNothing == IF Fresh THEN entry.val ELSE Unconfigured

LastKnownGood == IF entry = NoEntry THEN Unconfigured ELSE entry.val

Init ==
    /\ rows \in [{"exact", "default"} -> Values]
    /\ up \in BOOLEAN
    /\ entry = NoEntry
    /\ task = [t \in Tasks |-> Ready]
    /\ answer = [t \in Tasks |-> NoAnswer]
    /\ age = [v \in Values |-> IF v = Resolution(rows) THEN 0 ELSE Never]
    /\ warm = FALSE
    /\ writes = 0

Answer(t, v, how) ==
    /\ answer' = [answer EXCEPT ![t] = [val |-> v, how |-> how, age |-> age[v], warm |-> warm]]
    /\ task' = [task EXCEPT ![t] = Ready]

HitRenews(t) ==
    /\ task[t] = Ready /\ Fresh
    /\ Answer(t, entry.val, "hit")
    /\ entry' = [entry EXCEPT !.left = Lifetime(entry.val, 0)]
    /\ UNCHANGED <<rows, up, warm, age, writes>>

(* resolve, first part: a fresh entry answers at once, else the query goes *)
(* out.                                                                    *)
Hit(t) ==
    /\ task[t] = Ready /\ Fresh
    /\ Answer(t, entry.val, "hit")
    /\ UNCHANGED <<rows, up, entry, warm, age, writes>>

Miss(t) ==
    /\ task[t] = Ready /\ ~Fresh
    /\ task' = [task EXCEPT ![t] = [at |-> "query"]]
    /\ UNCHANGED <<rows, up, entry, answer, warm, age, writes>>

Snapshot(t) ==
    /\ task[t].at = "query" /\ up
    /\ task' = [task EXCEPT ![t] = [at |-> "read", val |-> Resolution(rows), late |-> 0]]
    /\ UNCHANGED <<rows, up, entry, answer, warm, age, writes>>

Returns(t) == task[t].at = "read" /\ up

(* The rows are back: store() overwrites whatever is there, and counts the *)
(* TTL from now, not from the snapshot.                                    *)
Store(t) ==
    /\ Returns(t)
    /\ \E j \in 0 .. Jitter :
          entry' = [val |-> task[t].val, left |-> Lifetime(task[t].val, j)]
    /\ warm' = TRUE
    /\ Answer(t, task[t].val, "query")
    /\ UNCHANGED <<rows, up, age, writes>>

(* No connection or a broken one: the entry, expired or not, else allow. *)
Fail(t) ==
    /\ task[t] # Ready /\ ~up
    /\ Answer(t, LastKnownGood, "failed")
    /\ UNCHANGED <<rows, up, entry, warm, age, writes>>

(* The caller hangs up and its future is dropped at an await. *)
Cancel(t) ==
    /\ task[t] # Ready
    /\ task' = [task EXCEPT ![t] = Ready]
    /\ UNCHANGED <<rows, up, entry, answer, warm, age, writes>>
---------------------------------------------------------------------------
(* The control plane commits a new value for a row, or deletes it. *)
Write ==
    /\ writes < MaxWrites
    /\ writes' = writes + 1
    /\ \E r \in {"exact", "default"}, v \in Values :
          rows[r] # v /\ rows' = [rows EXCEPT ![r] = v]
    /\ age' = [age EXCEPT ![Resolution(rows')] = 0]
    /\ UNCHANGED <<up, entry, task, answer, warm>>

Outage == up' = ~up /\ UNCHANGED <<rows, entry, task, answer, warm, age, writes>>

(* The process restarts with an empty cache. *)
Restart ==
    /\ entry # NoEntry
    /\ entry' = NoEntry /\ warm' = FALSE
    /\ task' = [t \in Tasks |-> Ready]
    /\ answer' = [t \in Tasks |-> NoAnswer]
    /\ UNCHANGED <<rows, up, age, writes>>

Older(t) ==
    IF task[t].at = "read" THEN [task[t] EXCEPT !.late = @ + 1] ELSE task[t]

Tick ==
    /\ \A t \in Tasks : task[t].at = "read" => task[t].late < MaxLatency
    /\ task' = [t \in Tasks |-> Older(t)]
    /\ entry' = IF entry.left > 0 THEN [entry EXCEPT !.left = @ - 1] ELSE entry
    /\ age' = [v \in Values |->
          IF v = Resolution(rows) \/ age[v] >= MaxAge THEN age[v] ELSE age[v] + 1]
    /\ UNCHANGED <<rows, up, answer, warm, writes>>

Step(t) == Hit(t) \/ Miss(t) \/ Snapshot(t) \/ Store(t) \/ Fail(t) \/ Cancel(t)

Next == (\E t \in Tasks : Step(t)) \/ Write \/ Outage \/ Restart \/ Tick

Spec == Init /\ [][Next]_vars

(* Time passes, Postgres answers when it can be reached, and the runtime   *)
(* polls a task whose answer is there.                                     *)
FairSpec ==
    /\ Spec /\ WF_vars(Tick)
    /\ \A t \in Tasks : WF_vars(Snapshot(t)) /\ WF_vars(Store(t)) /\ WF_vars(Fail(t))
---------------------------------------------------------------------------
TypeOK ==
    /\ rows \in [{"exact", "default"} -> Values]
    /\ up \in BOOLEAN
    /\ entry \in [val : Values, left : Nat] \cup {NoEntry}
    /\ task \in [Tasks -> [at : {"read"}, val : Values, late : 0 .. MaxLatency]
                             \cup {Ready, [at |-> "query"]}]
    /\ answer \in [Tasks -> [val : Values, how : {"hit", "query", "failed"},
                               age : 0 .. Never, warm : BOOLEAN] \cup {NoAnswer}]
    /\ age \in [Values -> 0 .. Never]
    /\ warm \in BOOLEAN
    /\ writes \in 0 .. MaxWrites

(* What a value's staleness may reach before it is dropped. *)
Staleness(v) == MaxLatency + TtlOf(v) + Jitter

(* While lookups succeed, no answer is staler than its TTL, the jitter and *)
(* the latency of one query, even when a slow query overwrites the entry   *)
(* of a faster and later one.                                              *)
BoundedStaleness ==
    \A t \in Tasks :
       answer[t].how \in {"hit", "query"} => answer[t].age < Staleness(answer[t].val)

(* A change of the table is in force in time: a value that the table has   *)
(* not had for that long is nowhere left to be answered without asking,    *)
(* neither in the entry nor in the hands of a lookup, however often it is  *)
(* asked for and whichever slow query stored it.                           *)
OldValuesAreGone ==
    \A v \in Values : age[v] >= Staleness(v) =>
       /\ Fresh => entry.val # v
       /\ \A t \in Tasks : task[t].at = "read" => task[t].val # v

(* An outage never lifts a known cap: if the key has been configured all   *)
(* along, an instance that once completed a lookup of it never answers     *)
(* Unconfigured.                                                           *)
OutageKeepsCaps ==
    \A t \in Tasks :
       answer[t].how = "failed" /\ answer[t].warm /\ age[Unconfigured] = Never
          => answer[t].val # Unconfigured

(* Once Postgres stays reachable and the last config write is done, what   *)
(* the cache would answer is eventually the table's own, for good: no      *)
(* stale entry and no slow query keeps an old cap alive.                   *)
Current ==
    /\ Fresh => entry.val = Resolution(rows)
    /\ \A t \in Tasks : task[t].at = "read" => task[t].val = Resolution(rows)

ConfigPropagates == <>[]up => <>[]Current

(* design/quotaenforcer.md:648: "Single-flight guarantees at most one      *)
(* in-flight fetch per key per instance; concurrent callers await it".     *)
SingleFlight == Cardinality({t \in Tasks : task[t] # Ready}) <= 1
============================================================================
