----------------------------- MODULE Enforcer -----------------------------
(***************************************************************************)
(* The data plane (quotaenforcer) for one limit: any number of stateless   *)
(* replicas run CheckQuota, Charge, Refund and GetUsage against one Redis  *)
(* shard.  A call is two atomic steps with an await between them:          *)
(*                                                                         *)
(*   - Invoke: validate, resolve the cap, read the replica's wall clock,   *)
(*     compute the window and, for a charge, the jittered TTL;             *)
(*   - Check, Charge, Refund or Usage: the Lua script on the shard.        *)
(*                                                                         *)
(* A replica keeps nothing between calls, so it appears only as the clock  *)
(* error of its reading.  The cap is any member of Caps: what the config   *)
(* cache may answer is the subject of ConfigCache.  Producers are          *)
(* unconstrained: they may skip the check, retry a charge that was already *)
(* applied, or never charge.                                               *)
(*                                                                         *)
(* Time is counted in ticks, Sec of them to the second, so that            *)
(* num_seconds() really truncates.  A window is named by its unit and its  *)
(* closing time.                                                           *)
(***************************************************************************)
EXTENDS Integers, FiniteSets

CONSTANTS
    Producers,   \* callers, each with at most one call outstanding
    Units,       \* time units
    Boundaries,  \* Boundaries[u]: the instants at which windows of u close
    JitterCap,   \* JitterCap[u]: largest TTL jitter of u, in seconds
    Caps,        \* caps the config cache may resolve to
    MaxLimit,    \* largest limit_value of Caps
    MaxCost,     \* largest cost or amount of a request
    Sec,         \* ticks per second
    Grace,       \* ttl_grace_secs
    MaxSkew,     \* a replica's clock is at most this many ticks ahead
    NoPermit,    \* the producer holds no positive answer of a check
    MaxTime,     \* bound on the clock
    MaxCalls,    \* bound on the number of calls
    MaxLosses    \* bound on the number of shard losses

ASSUME UnitAssumption ==
    /\ Boundaries \in [Units -> SUBSET Nat]
    /\ JitterCap \in [Units -> Nat]
    /\ \A u \in Units, t \in 0 .. MaxTime + MaxSkew :
          \E b \in Boundaries[u] :
             b > t /\ \A c \in Boundaries[u] : c > t => b <= c

ASSUME CapAssumption ==
    /\ MaxLimit \in Nat \ {0}
    /\ Caps \subseteq [limit : 0 .. MaxLimit, unit : Units]

(* The pad covers the clock error and the truncated second. *)
ASSUME TimeAssumption ==
    /\ Sec \in Nat \ {0} /\ Grace \in Nat \ {0}
    /\ MaxSkew \in Nat /\ MaxSkew <= (Grace - 1) * Sec
    /\ MaxTime \in Nat /\ MaxCalls \in Nat /\ MaxLosses \in Nat

ASSUME ProducerAssumption ==
    /\ IsFiniteSet(Producers) /\ Producers # {}
    /\ MaxCost \in Nat \ {0}

VARIABLES
    now,        \* the clock of the shard
    consumed,   \* consumed[w]: the integer under w's key, 0 when absent
    expiry,     \* expiry[w]: NoKey, NoTTL, or the instant w's key expires
    call,       \* call[p]: p's call between its two steps, or Idle
    permit,     \* permit[p]: the window whose check admitted p's request
    unguarded,  \* unguarded[w]: cost charged to w without a permit for w
    calls, losses

store == <<consumed, expiry>>
vars == <<now, consumed, expiry, call, permit, unguarded, calls, losses>>
---------------------------------------------------------------------------
Windows == UNION {{[unit |-> u, reset |-> b] : b \in Boundaries[u]} : u \in Units}

ASSUME PermitAssumption == NoPermit \notin Windows

NoKey == -2  \* Redis's TTL replies for an absent key and a persistent one
NoTTL == -1

Idle == [op |-> "idle"]

(* compute_window: the window of unit u at local time t closes at the next *)
(* boundary, calendar months included, and remaining_secs is truncated.    *)
ResetAt(u, t) ==
    CHOOSE b \in Boundaries[u] :
       b > t /\ \A c \in Boundaries[u] : c > t => b <= c

ComputeWindow(u, t) == [unit |-> u, reset |-> ResetAt(u, t)]

RemainingSecs(w, t) == (w.reset - t) \div Sec

AtLeast(lo, x) == IF x < lo THEN lo ELSE x

(* Faults, never part of Spec: each is a plausible slip in the definition  *)
(* after it, put in its place to see that a property notices.              *)
JitterSubtracted(remaining, jitter) == AtLeast(1, remaining + Grace - jitter)

JitteredTtl(remaining, jitter) == AtLeast(1, remaining + Grace + jitter)

(* A cost of 0 means 1; a negative cost or amount is INVALID_ARGUMENT.     *)
NormalizeCost(c) == IF c = 0 THEN 1 ELSE c

Amounts == -1 .. MaxCost

AnyAmount(a) == TRUE

ValidAmount(a) == a >= 0
---------------------------------------------------------------------------
(* The three scripts, each atomic on the shard, after some faults: a TTL   *)
(* only on a key that was absent, no floor, the whole balance refunded.    *)
ExpireOnlyNewKey(w, cost, ttl) ==
    /\ consumed' = [consumed EXCEPT ![w] = @ + cost]
    /\ expiry' = [expiry EXCEPT ![w] = IF @ = NoKey THEN now + ttl * Sec ELSE @]

RefundUnfloored(w, amount) ==
    /\ consumed' = [consumed EXCEPT ![w] = @ - amount]
    /\ expiry' = [expiry EXCEPT ![w] = IF @ = NoKey THEN NoTTL ELSE @]

RefundClears(w, amount) ==
    /\ consumed' = [consumed EXCEPT ![w] = 0]
    /\ expiry' = [expiry EXCEPT ![w] = IF @ = NoKey THEN NoTTL ELSE @]

CHARGE(w, cost, ttl) ==
    /\ consumed' = [consumed EXCEPT ![w] = @ + cost]
    /\ expiry' = [expiry EXCEPT ![w] = IF @ < 0 THEN now + ttl * Sec ELSE @]

REFUND(w, amount) ==
    /\ consumed' = [consumed EXCEPT ![w] = AtLeast(0, @ - amount)]
    /\ expiry' = [expiry EXCEPT ![w] = IF @ = NoKey THEN NoTTL ELSE @]

CHECK(w, limit, cost) == limit - consumed[w] >= cost
---------------------------------------------------------------------------
Init ==
    /\ now = 0
    /\ consumed = [w \in Windows |-> 0]
    /\ expiry = [w \in Windows |-> NoKey]
    /\ call = [p \in Producers |-> Idle]
    /\ permit = [p \in Producers |-> NoPermit]
    /\ unguarded = [w \in Windows |-> 0]
    /\ calls = 0 /\ losses = 0

(* A valid request up to the await on the shard. *)
Request(p, op, amount, cap, skew, jitter) ==
    LET w == ComputeWindow(cap.unit, now + skew)
    IN  call' = [call EXCEPT ![p] =
            [op |-> op, amount |-> amount, limit |-> cap.limit, win |-> w,
             ttl |-> JitteredTtl(RemainingSecs(w, now + skew), jitter)]]

Invoke(p) ==
    /\ call[p] = Idle /\ calls < MaxCalls
    /\ calls' = calls + 1
    /\ \E a \in Amounts, cap \in Caps, skew \in 0 .. MaxSkew :
          /\ ValidAmount(a)
          /\ \/ Request(p, "check", NormalizeCost(a), cap, skew, 0)
             \/ \E j \in 0 .. JitterCap[cap.unit] :
                   Request(p, "charge", NormalizeCost(a), cap, skew, j)
             \/ Request(p, "refund", a, cap, skew, 0)
             \/ Request(p, "usage", 0, cap, skew, 0)
    /\ UNCHANGED <<now, store, permit, unguarded, losses>>

(* No cap, or no window for its unit: the early return allows, counts      *)
(* nothing, and the producer's request is admitted without a permit.       *)
Unlimited(p) ==
    /\ call[p] = Idle
    /\ permit' = [permit EXCEPT ![p] = NoPermit]
    /\ UNCHANGED <<now, store, call, unguarded, calls, losses>>

Return(p) == call' = [call EXCEPT ![p] = Idle]

Check(p) ==
    /\ call[p].op = "check"
    /\ permit' = [permit EXCEPT ![p] =
          IF CHECK(call[p].win, call[p].limit, call[p].amount)
          THEN call[p].win ELSE NoPermit]
    /\ Return(p)
    /\ UNCHANGED <<now, store, unguarded, calls, losses>>

(* A charge spends the permit it was admitted with. *)
Charge(p) ==
    LET w == call[p].win
    IN  /\ call[p].op = "charge"
        /\ CHARGE(w, call[p].amount, call[p].ttl)
        /\ permit' = [permit EXCEPT ![p] = NoPermit]
        /\ unguarded' = [unguarded EXCEPT ![w] =
              IF permit[p] = w THEN @ ELSE @ + call[p].amount]
        /\ Return(p)
        /\ UNCHANGED <<now, calls, losses>>

Refund(p) ==
    /\ call[p].op = "refund"
    /\ REFUND(call[p].win, call[p].amount)
    /\ Return(p)
    /\ UNCHANGED <<now, permit, unguarded, calls, losses>>

Usage(p) ==
    /\ call[p].op = "usage"
    /\ Return(p)
    /\ UNCHANGED <<now, store, permit, unguarded, calls, losses>>

(* The shard was not reached: UNAVAILABLE, nothing applied.  (An error     *)
(* after the script ran is the script's action: the store has changed.)    *)
Unavailable(p) ==
    /\ call[p] # Idle
    /\ Return(p)
    /\ UNCHANGED <<now, store, permit, unguarded, calls, losses>>

(* The clock advances; a key whose time has come is gone. *)
Expired(w, t) == 0 <= expiry[w] /\ expiry[w] <= t

Tick ==
    /\ now < MaxTime
    /\ now' = now + 1
    /\ consumed' = [w \in Windows |-> IF Expired(w, now + 1) THEN 0 ELSE consumed[w]]
    /\ expiry' = [w \in Windows |-> IF Expired(w, now + 1) THEN NoKey ELSE expiry[w]]
    /\ UNCHANGED <<call, permit, unguarded, calls, losses>>

(* A restart or failover of the shard without its data. *)
ShardLoss ==
    /\ losses < MaxLosses
    /\ losses' = losses + 1
    /\ consumed' = [w \in Windows |-> 0]
    /\ expiry' = [w \in Windows |-> NoKey]
    /\ UNCHANGED <<now, call, permit, unguarded, calls>>

Next ==
    \/ \E p \in Producers :
          \/ Invoke(p) \/ Unlimited(p) \/ Unavailable(p)
          \/ Check(p) \/ Charge(p) \/ Refund(p) \/ Usage(p)
    \/ Tick
    \/ ShardLoss

Spec == Init /\ [][Next]_vars
---------------------------------------------------------------------------
Calls ==
    [op : {"check", "charge", "refund", "usage"}, amount : 0 .. MaxCost,
     limit : 0 .. MaxLimit, win : Windows, ttl : Nat]

(* Every variable has its type.  The counters are naturals: REFUND's floor *)
(* and the rejection of negative costs never let one drop below zero.      *)
TypeOK ==
    /\ now \in 0 .. MaxTime
    /\ consumed \in [Windows -> Nat]
    /\ expiry \in [Windows -> Nat \cup {NoKey, NoTTL}]
    /\ call \in [Producers -> Calls \cup {Idle}]
    /\ permit \in [Producers -> Windows \cup {NoPermit}]
    /\ unguarded \in [Windows -> Nat]
    /\ calls \in 0 .. MaxCalls /\ losses \in 0 .. MaxLosses

(* Ticks after its close for which a window surely still has its key: the  *)
(* grace, less the truncated second and the clock error.                   *)
LatePad == (Grace - 1) * Sec - MaxSkew

(* A key with a TTL outlives its window by more than LatePad, whichever    *)
(* replica created it and however late its charge reached the shard        *)
(* (window.rs: "a live key is never at risk of early expiry").             *)
NoEarlyExpiry ==
    \A w \in Windows : expiry[w] >= 0 => expiry[w] > w.reset + LatePad

(* The strengthening that makes it inductive: the TTL a charge carries to  *)
(* the shard still reaches past its window, however long it is in flight.  *)
PendingTtlCovers ==
    \A p \in Producers :
       call[p].op = "charge" =>
          now + call[p].ttl * Sec > call[p].win.reset + LatePad

(* A key without a TTL is the empty one that a refund leaves when it finds *)
(* no key: no charge is ever held by a key that Redis would never reclaim. *)
PersistentKeyIsEmpty ==
    \A w \in Windows : expiry[w] = NoTTL => consumed[w] = 0

(* The strengthening that makes it inductive: an absent key counts as 0.   *)
AbsentKeyIsEmpty ==
    \A w \in Windows : expiry[w] = NoKey => consumed[w] = 0

(* Check does not reserve, so concurrent requests overshoot the cap; the   *)
(* overshoot is less than one maximal charge per producer, plus what was   *)
(* charged to the window without a positive check of that same window.     *)
BoundedOvershoot ==
    \A w \in Windows :
       consumed[w] <= MaxLimit + Cardinality(Producers) * MaxCost - 1 + unguarded[w]

(* The strengthening that makes it inductive: each permit still held for a *)
(* window may yet add a maximal charge to it, and a check asks for 1 or    *)
(* more.                                                                   *)
Holders(w) == {p \in Producers : permit[p] = w}

PermitsCovered ==
    /\ \A p \in Producers : call[p].op = "check" => call[p].amount >= 1
    /\ \A w \in Windows :
          consumed[w] + MaxCost * Cardinality(Holders(w))
             <= MaxLimit + Cardinality(Producers) * MaxCost - 1 + unguarded[w]

(* The replicas, the scripts and the TTLs implement the ledger: an applied *)
(* charge is counted until its window has been closed for LatePad ticks.   *)
Ledger == INSTANCE WindowLedger
    WITH MaxAmount <- MaxCost, Pad <- LatePad,
         clock <- now, balance <- consumed, lost <- losses

ImplementsLedger == Ledger!LedgerSpec
===========================================================================
