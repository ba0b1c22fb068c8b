------------------------- MODULE ConfigCacheProofs -------------------------
(* Theorems about ConfigCache, for every value of its constants. *)
EXTENDS ConfigCache, TLAPS

LEMMA ResolutionTyped ==
    ASSUME rows \in [{"exact", "default"} -> Values]
    PROVE  Resolution(rows) \in Values
<1>1. rows.exact \in Values /\ rows.default \in Values
  OBVIOUS
<1>2. QED
  BY <1>1 DEF Resolution

LEMMA LifetimeTyped ==
    ASSUME NEW v, NEW j \in 0 .. Jitter
    PROVE  /\ Lifetime(v, j) \in Nat /\ MaxLatency + Lifetime(v, j) <= Staleness(v)
           /\ MaxLatency < Staleness(v) /\ Staleness(v) < MaxAge
  BY DurationAssumption DEF Lifetime, TtlOf, Staleness

LEMMA ReadTyped ==
    ASSUME TypeOK, NEW t \in Tasks, task[t].at = "read"
    PROVE  task[t].val \in Values /\ task[t].late \in 0 .. MaxLatency
  BY DEF TypeOK, Ready

LEMMA EntryTyped ==
    ASSUME TypeOK, entry # NoEntry
    PROVE  entry.val \in Values /\ entry.left \in Nat
  BY DEF TypeOK

LEMMA AnswerTyped ==
    ASSUME TypeOK, NEW t \in Tasks, NEW v \in Values,
           NEW how \in {"hit", "query", "failed"}, Answer(t, v, how)
    PROVE  /\ answer' \in [Tasks -> [val : Values, how : {"hit", "query", "failed"},
                                     age : 0 .. Never, warm : BOOLEAN] \cup {NoAnswer}]
           /\ task' \in [Tasks -> [at : {"read"}, val : Values, late : 0 .. MaxLatency]
                                     \cup {Ready, [at |-> "query"]}]
  BY DEF TypeOK, Answer

LEMMA AnswerEffect ==
    ASSUME TypeOK, NEW t \in Tasks, NEW v, NEW how, Answer(t, v, how)
    PROVE  /\ answer'[t] = [val |-> v, how |-> how, age |-> age[v], warm |-> warm]
           /\ task'[t] = Ready
           /\ \A u \in Tasks : u # t => answer'[u] = answer[u] /\ task'[u] = task[u]
  BY DEF TypeOK, Answer
---------------------------------------------------------------------------
LEMMA TypeInit == Init => TypeOK
<1> SUFFICES ASSUME Init PROVE TypeOK
  OBVIOUS
<1>1. 0 \in 0 .. Never /\ Never \in 0 .. Never /\ 0 \in 0 .. MaxWrites
  BY DurationAssumption DEF Never
<1>2. QED
  BY Zenon, <1>1 DEF Init, TypeOK

LEMMA TypeStep == TypeOK /\ [Next]_vars => TypeOK'
<1> SUFFICES ASSUME TypeOK, [Next]_vars PROVE TypeOK'
  OBVIOUS
<1>1. ASSUME NEW t \in Tasks, Hit(t) PROVE TypeOK'
  <2>1. entry.val \in Values
    BY <1>1, EntryTyped DEF Hit, Fresh, NoEntry
  <2>2. QED
    BY <1>1, <2>1, AnswerTyped DEF Hit, TypeOK
<1>2. ASSUME NEW t \in Tasks, Miss(t) \/ Cancel(t) PROVE TypeOK'
  BY <1>2 DEF Miss, Cancel, TypeOK
<1>3. ASSUME NEW t \in Tasks, Snapshot(t) PROVE TypeOK'
  <2>1. Resolution(rows) \in Values /\ 0 \in 0 .. MaxLatency
    BY ResolutionTyped, DurationAssumption DEF TypeOK
  <2>2. QED
    BY <1>3, <2>1 DEF Snapshot, TypeOK
<1>4. ASSUME NEW t \in Tasks, Store(t) PROVE TypeOK'
  <2>1. task[t].val \in Values
    BY <1>4, ReadTyped DEF Store, Returns
  <2>2. entry' \in [val : Values, left : Nat]
    BY <1>4, <2>1, LifetimeTyped DEF Store, Returns
  <2>3. QED
    BY <1>4, <2>1, <2>2, AnswerTyped DEF Store, Returns, TypeOK
<1>5. ASSUME NEW t \in Tasks, Fail(t) PROVE TypeOK'
  <2>1. LastKnownGood \in Values
    BY EntryTyped DEF LastKnownGood, Values
  <2>2. QED
    BY <1>5, <2>1, AnswerTyped DEF Fail, TypeOK
<1>6. CASE Write
  <2>1. rows' \in [{"exact", "default"} -> Values]
    BY <1>6 DEF Write, TypeOK
  <2>2. Resolution(rows') \in Values /\ 0 \in 0 .. Never
    <3>1. rows'.exact \in Values /\ rows'.default \in Values
      BY <2>1
    <3>2. QED
      BY <3>1, DurationAssumption DEF Resolution, Never
  <2>3. QED
    BY <1>6, <2>1, <2>2, DurationAssumption DEF Write, TypeOK
<1>7. CASE Outage \/ Restart
  BY Zenon, <1>7 DEF Outage, Restart, TypeOK
<1>8. CASE Tick
  <2>1. \A t \in Tasks : Older(t) \in [at : {"read"}, val : Values, late : 0 .. MaxLatency]
                                        \cup {Ready, [at |-> "query"]}
    <3> SUFFICES ASSUME NEW t \in Tasks
                 PROVE  Older(t) \in [at : {"read"}, val : Values, late : 0 .. MaxLatency]
                                       \cup {Ready, [at |-> "query"]}
      OBVIOUS
    <3>1. CASE task[t].at = "read"
      <4>1. task[t] \in [at : {"read"}, val : Values, late : 0 .. MaxLatency]
        BY <3>1 DEF TypeOK, Ready
      <4>2. task[t].late + 1 \in 0 .. MaxLatency
        BY <1>8, <3>1, <4>1, DurationAssumption DEF Tick
      <4>3. QED
        BY <3>1, <4>1, <4>2 DEF Older
    <3>2. CASE task[t].at # "read"
      BY <3>2 DEF Older, TypeOK
    <3>3. QED
      BY <3>1, <3>2
  <2>2. entry' \in [val : Values, left : Nat] \cup {NoEntry}
    <3>1. CASE entry.left > 0
      <4>1. entry \in [val : Values, left : Nat]
        BY <3>1 DEF TypeOK, NoEntry
      <4>2. QED
        BY <1>8, <3>1, <4>1 DEF Tick
    <3>2. CASE ~(entry.left > 0)
      BY <1>8, <3>2 DEF Tick, TypeOK
    <3>3. QED
      BY <3>1, <3>2
  <2>3. age' \in [Values -> 0 .. Never]
    BY <1>8, DurationAssumption DEF Tick, TypeOK, Never
  <2>4. QED
    BY <1>8, <2>1, <2>2, <2>3 DEF Tick, TypeOK
<1>9. CASE UNCHANGED vars
  BY <1>9 DEF vars, TypeOK
<1>10. QED
  BY <1>1, <1>2, <1>3, <1>4, <1>5, <1>6, <1>7, <1>8, <1>9 DEF Next, Step

(* The cache, its tasks and its answers stay well formed. *)
THEOREM CacheTypeCorrect == Spec => []TypeOK
  BY TypeInit, TypeStep, PTL DEF Spec
---------------------------------------------------------------------------
(* Why the staleness is bounded: a snapshot is as old as it is late, and   *)
(* the age of an entry plus what it has left never exceeds the bound.      *)
ReadsAreRecent ==
    \A t \in Tasks : task[t].at = "read" => age[task[t].val] <= task[t].late

EntryExpiresInTime ==
    entry.left > 0 => age[entry.val] + entry.left <= Staleness(entry.val)

StalenessInv ==
    /\ age[Resolution(rows)] = 0
    /\ ReadsAreRecent
    /\ EntryExpiresInTime
    /\ BoundedStaleness

LEMMA StalenessInit == Init => StalenessInv
<1> SUFFICES ASSUME Init PROVE StalenessInv
  OBVIOUS
<1>1. age[Resolution(rows)] = 0
  BY ResolutionTyped DEF Init
<1>2. ReadsAreRecent /\ EntryExpiresInTime /\ BoundedStaleness
  BY DEF Init, Ready, NoEntry, NoAnswer, ReadsAreRecent, EntryExpiresInTime, BoundedStaleness
<1>3. QED
  BY <1>1, <1>2 DEF StalenessInv

LEMMA AnswerKeepsBounds ==
    ASSUME TypeOK, ReadsAreRecent, BoundedStaleness, NEW t \in Tasks, NEW v \in Values,
           NEW how \in {"hit", "query", "failed"}, Answer(t, v, how), age' = age,
           how # "failed" => age[v] < Staleness(v)
    PROVE  ReadsAreRecent' /\ BoundedStaleness'
<1>1. /\ answer'[t] = [val |-> v, how |-> how, age |-> age[v], warm |-> warm]
      /\ task'[t] = Ready
      /\ \A u \in Tasks : u # t => answer'[u] = answer[u] /\ task'[u] = task[u]
  BY AnswerEffect
<1>2. ReadsAreRecent'
  BY <1>1 DEF ReadsAreRecent, Ready
<1>3. ASSUME NEW u \in Tasks, answer'[u].how \in {"hit", "query"}
      PROVE  answer'[u].age < Staleness(answer'[u].val)
  BY <1>1, <1>3 DEF BoundedStaleness
<1>4. QED
  BY <1>2, <1>3 DEF BoundedStaleness, Staleness, TtlOf

LEMMA StalenessStep == TypeOK /\ StalenessInv /\ [Next]_vars => StalenessInv'
<1> SUFFICES ASSUME TypeOK, [Next]_vars, age[Resolution(rows)] = 0,
                    ReadsAreRecent, EntryExpiresInTime, BoundedStaleness
             PROVE  /\ age'[Resolution(rows)'] = 0
                    /\ ReadsAreRecent' /\ EntryExpiresInTime' /\ BoundedStaleness'
  BY DEF StalenessInv
<1> DEFINE Kept == /\ age'[Resolution(rows)'] = 0
                   /\ ReadsAreRecent' /\ EntryExpiresInTime' /\ BoundedStaleness'
<1>1. ASSUME NEW t \in Tasks, Hit(t) PROVE Kept
  <2>1. entry.val \in Values /\ entry.left \in Nat /\ entry.left > 0
    BY <1>1, EntryTyped DEF Hit, Fresh, NoEntry
  <2>2. age[entry.val] < Staleness(entry.val)
    <3>1. age[entry.val] \in Nat /\ Staleness(entry.val) \in Nat
      BY <2>1, DurationAssumption DEF TypeOK, Staleness, TtlOf, Never
    <3>2. QED
      BY <2>1, <3>1 DEF EntryExpiresInTime
  <2>3. ReadsAreRecent' /\ BoundedStaleness'
    BY <1>1, <2>1, <2>2, AnswerKeepsBounds DEF Hit
  <2>4. QED
    BY <1>1, <2>3 DEF Hit, Resolution, EntryExpiresInTime, Staleness, TtlOf
<1>2. ASSUME NEW t \in Tasks, Miss(t) \/ Cancel(t) PROVE Kept
  <2>1. ReadsAreRecent'
    BY <1>2 DEF Miss, Cancel, ReadsAreRecent, Ready, TypeOK
  <2>2. QED
    BY <1>2, <2>1 DEF Miss, Cancel, Resolution, EntryExpiresInTime, BoundedStaleness, Staleness, TtlOf
<1>3. ASSUME NEW t \in Tasks, Snapshot(t) PROVE Kept
  <2>1. ReadsAreRecent'
    BY <1>3 DEF Snapshot, ReadsAreRecent, TypeOK
  <2>2. QED
    BY <1>3, <2>1 DEF Snapshot, Resolution, EntryExpiresInTime, BoundedStaleness, Staleness, TtlOf
<1>4. ASSUME NEW t \in Tasks, Store(t) PROVE Kept
  <2>1. PICK v \in Values : v = task[t].val
    BY <1>4, ReadTyped DEF Store, Returns
  <2>2. age[v] \in Nat /\ age[v] <= MaxLatency
    <3>1. age[v] \in Int /\ age[v] >= 0 /\ task[t].late \in 0 .. MaxLatency
      BY <1>4, <2>1, ReadTyped, DurationAssumption DEF Store, Returns, TypeOK, Never
    <3>2. QED
      BY <1>4, <2>1, <3>1, DurationAssumption DEF Store, Returns, ReadsAreRecent
  <2>3. PICK j \in 0 .. Jitter : entry' = [val |-> v, left |-> Lifetime(v, j)]
    BY <1>4, <2>1 DEF Store, Returns
  <2>4. /\ Lifetime(v, j) \in Nat /\ MaxLatency + Lifetime(v, j) <= Staleness(v)
        /\ MaxLatency < Staleness(v) /\ Staleness(v) \in Nat
    BY LifetimeTyped, DurationAssumption DEF Staleness, TtlOf
  <2>5. EntryExpiresInTime'
    BY <1>4, <2>2, <2>3, <2>4, DurationAssumption
       DEF Store, Returns, EntryExpiresInTime, Staleness, TtlOf
  <2>6. age[v] < Staleness(v)
    BY <2>2, <2>4, DurationAssumption
  <2>7. ReadsAreRecent' /\ BoundedStaleness'
    BY <1>4, <2>1, <2>6, AnswerKeepsBounds DEF Store, Returns
  <2>8. QED
    BY <1>4, <2>5, <2>7 DEF Store, Returns, Resolution
<1>5. ASSUME NEW t \in Tasks, Fail(t) PROVE Kept
  <2>1. LastKnownGood \in Values
    BY EntryTyped DEF LastKnownGood, Values
  <2>2. ReadsAreRecent' /\ BoundedStaleness'
    BY <1>5, <2>1, AnswerKeepsBounds DEF Fail
  <2>3. QED
    BY <1>5, <2>2 DEF Fail, Resolution, EntryExpiresInTime, Staleness, TtlOf
<1>6. CASE Write
  <2>1. PICK new \in Values : new = Resolution(rows') /\ age' = [age EXCEPT ![new] = 0]
    <3>1. rows' \in [{"exact", "default"} -> Values]
      BY <1>6 DEF Write, TypeOK
    <3>2. rows'.exact \in Values /\ rows'.default \in Values
      BY <3>1
    <3>3. QED
      BY Zenon, <1>6, <3>2 DEF Write, Resolution
  <2>2. age'[Resolution(rows)'] = 0
    BY <2>1 DEF TypeOK, Resolution
  <2>3. \A v \in Values : age'[v] \in Nat /\ age[v] \in Nat /\ age'[v] <= age[v]
    BY <2>1, DurationAssumption DEF TypeOK, Never
  <2>4. ReadsAreRecent'
    <3> SUFFICES ASSUME NEW t \in Tasks, task[t].at = "read"
                 PROVE  age'[task[t].val] <= task[t].late
      BY Zenon, <1>6 DEF Write, ReadsAreRecent
    <3>1. QED
      BY <2>3, ReadTyped, DurationAssumption DEF ReadsAreRecent
  <2>5. EntryExpiresInTime'
    <3> SUFFICES ASSUME entry.left > 0
                 PROVE  age'[entry.val] + entry.left <= Staleness(entry.val)
      BY <1>6 DEF Write, EntryExpiresInTime, Staleness, TtlOf
    <3>1. entry.val \in Values /\ entry.left \in Nat
      BY EntryTyped DEF NoEntry
    <3>2. Staleness(entry.val) \in Nat
      BY DurationAssumption DEF Staleness, TtlOf
    <3>3. QED
      BY <2>3, <3>1, <3>2 DEF EntryExpiresInTime
  <2>6. BoundedStaleness'
    BY <1>6 DEF Write, BoundedStaleness, Staleness, TtlOf
  <2>7. QED
    BY <2>2, <2>4, <2>5, <2>6
<1>7. CASE Outage
  BY <1>7 DEF Outage, Resolution, ReadsAreRecent, EntryExpiresInTime, BoundedStaleness,
              Staleness, TtlOf
<1>8. CASE Restart
  BY <1>8 DEF Restart, Resolution, ReadsAreRecent, EntryExpiresInTime, BoundedStaleness,
              Ready, NoEntry, NoAnswer
<1>9. CASE Tick
  <2>1. age'[Resolution(rows)'] = 0
    BY <1>9, ResolutionTyped DEF Tick, TypeOK, Resolution
  <2>2. \A v \in Values : age'[v] \in Nat /\ age[v] \in Nat /\ age'[v] <= age[v] + 1
    BY <1>9, DurationAssumption DEF Tick, TypeOK, Never
  <2>3. ReadsAreRecent'
    <3> SUFFICES ASSUME NEW t \in Tasks, task'[t].at = "read"
                 PROVE  age'[task'[t].val] <= task'[t].late
      BY DEF ReadsAreRecent
    <3>1. task'[t] = Older(t)
      BY <1>9 DEF Tick
    <3>2. CASE task[t].at = "read"
      <4>1. task[t] \in [at : {"read"}, val : Values, late : 0 .. MaxLatency]
        BY <3>2 DEF TypeOK, Ready
      <4>2. task'[t].val = task[t].val /\ task'[t].late = task[t].late + 1
        BY <3>1, <3>2, <4>1 DEF Older
      <4>3. QED
        BY <2>2, <3>2, <4>1, <4>2, DurationAssumption DEF ReadsAreRecent
    <3>3. CASE task[t].at # "read"
      BY <3>1, <3>3 DEF Older
    <3>4. QED
      BY <3>2, <3>3
  <2>4. EntryExpiresInTime'
    <3>1. CASE entry.left > 0
      <4>1. entry \in [val : Values, left : Nat] /\ Staleness(entry.val) \in Nat
        BY <3>1, DurationAssumption DEF TypeOK, NoEntry, Staleness, TtlOf
      <4>2. entry' = [entry EXCEPT !.left = @ - 1]
        BY <1>9, <3>1 DEF Tick
      <4>3. entry'.val = entry.val /\ entry'.left = entry.left - 1
        BY <4>1, <4>2
      <4>4. age[entry.val] + entry.left <= Staleness(entry.val)
        BY <3>1 DEF EntryExpiresInTime
      <4>5. age'[entry.val] + (entry.left - 1) <= Staleness(entry.val)
        BY <2>2, <4>1, <4>4
      <4>6. QED
        BY <4>3, <4>5 DEF EntryExpiresInTime, Staleness, TtlOf
    <3>2. CASE ~(entry.left > 0)
      BY <1>9, <3>2 DEF Tick, EntryExpiresInTime
    <3>3. QED
      BY <3>1, <3>2
  <2>5. BoundedStaleness'
    BY <1>9 DEF Tick, BoundedStaleness, Staleness, TtlOf
  <2>6. QED
    BY <2>1, <2>3, <2>4, <2>5
<1>10. CASE UNCHANGED vars
  BY <1>10 DEF vars, Resolution, ReadsAreRecent, EntryExpiresInTime, BoundedStaleness,
               Staleness, TtlOf
<1>11. QED
  BY <1>1, <1>2, <1>3, <1>4, <1>5, <1>6, <1>7, <1>8, <1>9, <1>10 DEF Next, Step

(* An answer found in the cache or by a query is never staler than the TTL *)
(* of its kind, the jitter and one query's latency, for any number of      *)
(* concurrent lookups in any order.                                        *)
THEOREM StalenessBounded == Spec => []BoundedStaleness
<1>1. Spec => []StalenessInv
  BY StalenessInit, StalenessStep, CacheTypeCorrect, PTL DEF Spec
<1>2. StalenessInv => BoundedStaleness
  BY DEF StalenessInv
<1>3. QED
  BY <1>1, <1>2, PTL

LEMMA RecentInHand ==
    ASSUME TypeOK, StalenessInv
    PROVE  /\ Fresh => age[entry.val] < Staleness(entry.val)
           /\ \A t \in Tasks :
                 task[t].at = "read" => age[task[t].val] < Staleness(task[t].val)
<1>1. ASSUME Fresh PROVE age[entry.val] < Staleness(entry.val)
  <2>1. entry.val \in Values /\ entry.left \in Nat /\ entry.left > 0
    BY <1>1, EntryTyped DEF Fresh, NoEntry
  <2>2. age[entry.val] \in Nat /\ Staleness(entry.val) \in Nat
    BY <2>1, DurationAssumption DEF TypeOK, Staleness, TtlOf, Never
  <2>3. QED
    BY <2>1, <2>2 DEF StalenessInv, EntryExpiresInTime
<1>2. ASSUME NEW t \in Tasks, task[t].at = "read"
      PROVE  age[task[t].val] < Staleness(task[t].val)
  <2>1. PICK v \in Values : v = task[t].val
    BY <1>2, ReadTyped
  <2>2. task[t].late \in 0 .. MaxLatency /\ age[v] \in Nat
    BY <1>2, ReadTyped, DurationAssumption DEF TypeOK, Never
  <2>3. age[v] <= task[t].late
    BY <1>2, <2>1 DEF StalenessInv, ReadsAreRecent
  <2>4. MaxLatency < Staleness(v) /\ Staleness(v) \in Nat
    BY DurationAssumption DEF Staleness, TtlOf
  <2>5. QED
    BY <2>1, <2>2, <2>3, <2>4, DurationAssumption
<1>3. QED
  BY <1>1, <1>2

(* A value that the table has not had for its TTL, the jitter and one      *)
(* query's latency is neither in a fresh entry nor in the hands of a       *)
(* lookup: the bound on how long a config change takes, whatever the       *)
(* number and order of lookups.                                            *)
THEOREM ChangesTakeEffect == Spec => []OldValuesAreGone
<1>1. TypeOK /\ StalenessInv => OldValuesAreGone
  <2> SUFFICES ASSUME TypeOK, StalenessInv, NEW v \in Values, age[v] >= Staleness(v)
               PROVE  /\ Fresh => entry.val # v
                      /\ \A t \in Tasks : task[t].at = "read" => task[t].val # v
    BY DEF OldValuesAreGone
  <2>1. age[v] \in Nat /\ Staleness(v) \in Nat
    BY DurationAssumption DEF TypeOK, Staleness, TtlOf, Never
  <2>2. ~(age[v] < Staleness(v))
    BY <2>1
  <2>3. QED
    BY Zenon, <2>2, RecentInHand
<1>2. Spec => []StalenessInv
  BY StalenessInit, StalenessStep, CacheTypeCorrect, PTL DEF Spec
<1>3. QED
  BY <1>1, <1>2, CacheTypeCorrect, PTL

(* Once the table has kept its resolution for that long, whatever other    *)
(* values it had before, the cache answers the table's own until the next  *)
(* write: the safety half of ConfigPropagates, with its bound.             *)
THEOREM SettledIsCurrent ==
    Spec => []((\A v \in Values \ {Resolution(rows)} : age[v] >= Staleness(v)) => Current)
<1>1. ASSUME TypeOK, OldValuesAreGone,
             \A v \in Values \ {Resolution(rows)} : age[v] >= Staleness(v)
      PROVE  Current
  <2>1. ASSUME Fresh PROVE entry.val = Resolution(rows)
    <3>1. entry.val \in Values
      BY <1>1, <2>1, EntryTyped DEF Fresh, NoEntry
    <3>2. QED
      BY Zenon, <1>1, <2>1, <3>1 DEF OldValuesAreGone
  <2>2. ASSUME NEW t \in Tasks, task[t].at = "read" PROVE task[t].val = Resolution(rows)
    <3>1. task[t].val \in Values
      BY <1>1, <2>2, ReadTyped
    <3>2. QED
      BY Zenon, <1>1, <2>2, <3>1 DEF OldValuesAreGone
  <2>3. QED
    BY <2>1, <2>2 DEF Current
<1>2. QED
  BY <1>1, CacheTypeCorrect, ChangesTakeEffect, PTL
---------------------------------------------------------------------------
(* Why an outage keeps a cap: whatever the cache holds was in the table at *)
(* some time, and a cache that was filled stays so.                        *)
KnownInv ==
    /\ warm => entry # NoEntry
    /\ entry # NoEntry => age[entry.val] # Never
    /\ \A t \in Tasks :
          answer[t].how = "failed" /\ answer[t].warm => age[answer[t].val] # Never

(* No step makes the table forget that it once had a value. *)
LEMMA SeenStaysSeen ==
    ASSUME TypeOK, [Next]_vars, NEW v \in Values, age[v] # Never
    PROVE  age'[v] # Never
<1>1. CASE Tick
  BY <1>1, DurationAssumption DEF Tick, TypeOK, Never
<1>2. CASE Write
  <2>1. age' = [age EXCEPT ![Resolution(rows')] = 0]
    BY <1>2 DEF Write
  <2>2. QED
    BY <2>1, DurationAssumption DEF TypeOK, Never
<1>3. CASE age' = age
  BY <1>3
<1>4. QED
  BY <1>1, <1>2, <1>3
     DEF Next, Step, vars, Hit, Miss, Snapshot, Store, Returns, Fail, Cancel, Outage, Restart

LEMMA KnownStep ==
    TypeOK /\ StalenessInv /\ KnownInv /\ [Next]_vars => KnownInv'
<1> SUFFICES ASSUME TypeOK, StalenessInv, KnownInv, [Next]_vars PROVE KnownInv'
  OBVIOUS
<1>1. entry # NoEntry => entry.val \in Values /\ age'[entry.val] # Never
  BY EntryTyped, SeenStaysSeen DEF KnownInv
<1>2. ASSUME NEW u \in Tasks, answer[u].how = "failed", answer[u].warm
      PROVE  age'[answer[u].val] # Never
  <2>1. answer[u].val \in Values
    BY <1>2 DEF TypeOK, NoAnswer
  <2>2. QED
    BY <1>2, <2>1, SeenStaysSeen DEF KnownInv
<1>3. ASSUME NEW t \in Tasks, Hit(t) PROVE KnownInv'
  <2>1. entry.val \in Values
    BY <1>3, EntryTyped DEF Hit, Fresh, NoEntry
  <2>2. \A u \in Tasks : answer'[u].how = "failed" => answer'[u] = answer[u]
    BY <1>3 DEF Hit, Answer, TypeOK
  <2>3. QED
    BY <1>1, <1>2, <1>3, <2>1, <2>2 DEF Hit, KnownInv
<1>4. ASSUME NEW t \in Tasks, Store(t) PROVE KnownInv'
  <2>1. PICK v \in Values : v = task[t].val
    BY <1>4, ReadTyped DEF Store, Returns
  <2>2. age[v] # Never
    <3>1. age[v] \in Int /\ task[t].late \in 0 .. MaxLatency /\ age[v] <= task[t].late
      BY <1>4, <2>1, ReadTyped, DurationAssumption
         DEF Store, Returns, TypeOK, Never, StalenessInv, ReadsAreRecent
    <3>2. QED
      BY <3>1, DurationAssumption DEF Never
  <2>3. PICK j \in 0 .. Jitter : entry' = [val |-> v, left |-> Lifetime(v, j)]
    BY <1>4, <2>1 DEF Store, Returns
  <2>4. entry' # NoEntry
    BY <2>3, LifetimeTyped DEF NoEntry
  <2>5. entry'.val = v /\ age'[v] # Never
    BY <1>4, <2>2, <2>3 DEF Store, Returns
  <2>6. \A u \in Tasks : answer'[u].how = "failed" => answer'[u] = answer[u]
    BY <1>4 DEF Store, Returns, Answer, TypeOK
  <2>7. QED
    BY <1>2, <2>4, <2>5, <2>6 DEF KnownInv
<1>5. ASSUME NEW t \in Tasks, Fail(t) PROVE KnownInv'
  <2>1. LastKnownGood \in Values
    BY EntryTyped DEF LastKnownGood, Values
  <2>2. warm => age'[LastKnownGood] # Never
    BY <1>1 DEF KnownInv, LastKnownGood
  <2>3. /\ answer'[t].val = LastKnownGood /\ answer'[t].warm = warm
        /\ \A u \in Tasks : u # t => answer'[u] = answer[u]
    BY <1>5 DEF Fail, Answer, TypeOK
  <2>4. \A u \in Tasks :
           answer'[u].how = "failed" /\ answer'[u].warm => age'[answer'[u].val] # Never
    BY <1>2, <2>2, <2>3
  <2>5. QED
    BY <1>1, <1>5, <2>4 DEF Fail, KnownInv
<1>6. ASSUME NEW t \in Tasks, Miss(t) \/ Snapshot(t) \/ Cancel(t) PROVE KnownInv'
  BY <1>1, <1>2, <1>6 DEF Miss, Snapshot, Cancel, KnownInv
<1>7. CASE Write \/ Outage
  BY <1>1, <1>2, <1>7 DEF Write, Outage, KnownInv
<1>8. CASE Restart
  BY <1>8 DEF Restart, KnownInv, NoAnswer
<1>9. CASE Tick
  <2>1. entry # NoEntry => entry' # NoEntry /\ entry'.val = entry.val
    BY <1>9 DEF Tick, TypeOK, NoEntry
  <2>2. entry = NoEntry => entry' = NoEntry
    BY <1>9 DEF Tick, NoEntry
  <2>3. QED
    BY <1>1, <1>2, <1>9, <2>1, <2>2 DEF Tick, KnownInv
<1>10. CASE UNCHANGED vars
  BY <1>1, <1>2, <1>10 DEF vars, KnownInv
<1>11. QED
  BY <1>3, <1>4, <1>5, <1>6, <1>7, <1>8, <1>9, <1>10 DEF Next, Step

(* A key that has a cap whenever it is looked up does not become unlimited *)
(* because Postgres is away, once one lookup has completed.                *)
THEOREM OutagesKeepCaps == Spec => []OutageKeepsCaps
<1>1. Init => KnownInv
  BY DEF Init, KnownInv, NoAnswer
<1>2. Spec => []StalenessInv
  BY StalenessInit, StalenessStep, CacheTypeCorrect, PTL DEF Spec
<1>3. Spec => []KnownInv
  BY <1>1, <1>2, KnownStep, CacheTypeCorrect, PTL DEF Spec
<1>4. KnownInv => OutageKeepsCaps
  BY DEF KnownInv, OutageKeepsCaps
<1>5. QED
  BY <1>3, <1>4, PTL
===========================================================================
