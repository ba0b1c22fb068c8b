-------------------------- MODULE EnforcerProofs --------------------------
(* Theorems about Enforcer, for every value of its constants. *)
EXTENDS Enforcer, FiniteSetTheorems, TLAPS

(* Truncating division loses less than one divisor: num_seconds() drops    *)
(* less than a second of the time left in the window.                      *)
LEMMA DivBound ==
    ASSUME NEW a \in Nat, NEW s \in Nat \ {0}
    PROVE  a \div s \in Nat /\ a - s < (a \div s) * s
  OBVIOUS

(* The window compute_window finds is one of the unit's windows, and it    *)
(* closes after the instant it was computed for.                           *)
LEMMA WindowFound ==
    ASSUME NEW u \in Units, NEW t \in 0 .. MaxTime + MaxSkew
    PROVE  /\ ComputeWindow(u, t) \in Windows
           /\ ComputeWindow(u, t).reset \in Nat
           /\ ComputeWindow(u, t).reset > t
<1>1. /\ ResetAt(u, t) \in Boundaries[u]
      /\ ResetAt(u, t) > t
  BY UnitAssumption, Zenon DEF ResetAt
<1>2. Boundaries[u] \subseteq Nat
  BY UnitAssumption, Zenon
<1>3. QED
  BY <1>1, <1>2 DEF ComputeWindow, Windows

(* The TTL a charge computes at clock reading t reaches past its window's  *)
(* close by more than LatePad, counted from the shard's own clock.         *)
LEMMA TtlCovers ==
    ASSUME NEW u \in Units, NEW clk \in 0 .. MaxTime, NEW skew \in 0 .. MaxSkew,
           NEW j \in Nat
    PROVE  LET w == ComputeWindow(u, clk + skew)
               ttl == JitteredTtl(RemainingSecs(w, clk + skew), j)
           IN  ttl \in Nat /\ clk + ttl * Sec > w.reset + LatePad
<1> DEFINE t == clk + skew
           w == ComputeWindow(u, t)
           q == RemainingSecs(w, t)
           ttl == JitteredTtl(q, j)
<1>1. t \in 0 .. MaxTime + MaxSkew /\ t <= clk + MaxSkew
  BY TimeAssumption
<1>2. w.reset \in Nat /\ w.reset - t \in Nat
  BY <1>1, WindowFound, TimeAssumption
<1>3. q \in Nat /\ w.reset - t - Sec < q * Sec
  BY <1>2, DivBound, TimeAssumption, Zenon DEF RemainingSecs
<1>4. ttl \in Nat /\ ttl >= q + Grace
  BY <1>3, TimeAssumption DEF JitteredTtl, AtLeast
<1>5. ttl * Sec >= q * Sec + Grace * Sec
  <2>1. ASSUME NEW x \in Nat, NEW y \in Nat, NEW s \in Nat, x >= y
        PROVE  x * s >= y * s
    BY <2>1
  <2>2. ttl * Sec >= (q + Grace) * Sec
    BY <2>1, <1>3, <1>4, TimeAssumption
  <2>3. (q + Grace) * Sec = q * Sec + Grace * Sec
    BY <1>3, TimeAssumption
  <2>4. QED
    BY <2>2, <2>3, Zenon
<1>6. LatePad = Grace * Sec - Sec - MaxSkew
  BY TimeAssumption DEF LatePad
<1>7. /\ q * Sec \in Int /\ Grace * Sec \in Int /\ ttl * Sec \in Int
      /\ t \in Int /\ clk \in Int /\ Sec \in Int /\ MaxSkew \in Int
  BY <1>1, <1>3, <1>4, TimeAssumption
<1>8. clk + ttl * Sec > w.reset + LatePad
  BY <1>1, <1>2, <1>3, <1>5, <1>6, <1>7
<1>9. QED
  BY <1>4, <1>8, Zenon

(* A call built by Request is well formed, and if it is a charge its TTL   *)
(* covers the window from now on.                                          *)
LEMMA RequestTyped ==
    ASSUME TypeOK, NEW p \in Producers, NEW op \in {"check", "charge", "refund", "usage"},
           NEW a \in 0 .. MaxCost, NEW cap \in Caps, NEW skew \in 0 .. MaxSkew,
           NEW j \in Nat, Request(p, op, a, cap, skew, j)
    PROVE  /\ call' \in [Producers -> Calls \cup {Idle}]
           /\ \A q \in Producers : q # p => call'[q] = call[q]
           /\ call'[p].op = op /\ call'[p].amount = a
           /\ now + call'[p].ttl * Sec > call'[p].win.reset + LatePad
<1> DEFINE w == ComputeWindow(cap.unit, now + skew)
           ttl == JitteredTtl(RemainingSecs(w, now + skew), j)
           c == [op |-> op, amount |-> a, limit |-> cap.limit, win |-> w, ttl |-> ttl]
<1>1. cap.unit \in Units /\ cap.limit \in 0 .. MaxLimit
  BY CapAssumption, Zenon
<1>2. now \in 0 .. MaxTime /\ now + skew \in 0 .. MaxTime + MaxSkew
  BY TimeAssumption DEF TypeOK
<1>3. w \in Windows
  BY <1>1, <1>2, WindowFound, Zenon
<1>4. ttl \in Nat /\ now + ttl * Sec > w.reset + LatePad
  BY <1>1, <1>2, TtlCovers, Zenon
<1>5. c \in Calls
  BY <1>1, <1>3, <1>4, Zenon DEF Calls
<1>6. call' = [call EXCEPT ![p] = c]
  BY Zenon DEF Request
<1>7. QED
  BY <1>4, <1>5, <1>6, Zenon DEF TypeOK
---------------------------------------------------------------------------
(* Type correctness is inductive by itself. *)
LEMMA TypeInit == Init => TypeOK
  BY TimeAssumption DEF Init, TypeOK

(* What Invoke does to the calls: the new one is well formed, its TTL      *)
(* covers its window, and a check asks for 1 or more.                      *)
LEMMA InvokeEffect ==
    ASSUME TypeOK, NEW p \in Producers, Invoke(p)
    PROVE  /\ call' \in [Producers -> Calls \cup {Idle}]
           /\ \A q \in Producers : q # p => call'[q] = call[q]
           /\ now + call'[p].ttl * Sec > call'[p].win.reset + LatePad
           /\ call'[p].op = "check" => call'[p].amount >= 1
<1>1. PICK a \in Amounts, cap \in Caps, skew \in 0 .. MaxSkew :
         /\ ValidAmount(a)
         /\ \/ Request(p, "check", NormalizeCost(a), cap, skew, 0)
            \/ \E j \in 0 .. JitterCap[cap.unit] :
                  Request(p, "charge", NormalizeCost(a), cap, skew, j)
            \/ Request(p, "refund", a, cap, skew, 0)
            \/ Request(p, "usage", 0, cap, skew, 0)
  BY Zenon DEF Invoke
<1>2. /\ a \in 0 .. MaxCost /\ 0 \in 0 .. MaxCost
      /\ NormalizeCost(a) \in 0 .. MaxCost /\ NormalizeCost(a) >= 1
  BY <1>1, ProducerAssumption DEF Amounts, ValidAmount, NormalizeCost
<1>3. JitterCap[cap.unit] \in Nat
  BY UnitAssumption, CapAssumption, Zenon
<1>4. QED
  BY <1>1, <1>2, <1>3, RequestTyped

LEMMA ReturnTyped ==
    ASSUME TypeOK, NEW p \in Producers, Return(p)
    PROVE  call' \in [Producers -> Calls \cup {Idle}]
  BY Zenon DEF TypeOK, Return

(* A call that is not idle has a window, an amount and a TTL. *)
LEMMA CallTyped ==
    ASSUME TypeOK, NEW p \in Producers, call[p] # Idle
    PROVE  /\ call[p].win \in Windows /\ call[p].amount \in 0 .. MaxCost
           /\ call[p].limit \in 0 .. MaxLimit /\ call[p].ttl \in Nat
  BY Zenon DEF TypeOK, Calls

LEMMA TypeStep == TypeOK /\ [Next]_vars => TypeOK'
<1> SUFFICES ASSUME TypeOK, [Next]_vars PROVE TypeOK'
  BY Zenon
<1>1. ASSUME NEW p \in Producers, Invoke(p) PROVE TypeOK'
  <2>1. call' \in [Producers -> Calls \cup {Idle}]
    BY <1>1, InvokeEffect, Zenon
  <2>2. calls' \in 0 .. MaxCalls
    BY <1>1, TimeAssumption DEF Invoke, TypeOK
  <2>3. QED
    BY <1>1, <2>1, <2>2, Zenon DEF Invoke, TypeOK, store
<1>2. ASSUME NEW p \in Producers, Unlimited(p) PROVE TypeOK'
  BY <1>2, Zenon DEF Unlimited, TypeOK, store
<1>3. ASSUME NEW p \in Producers, Unavailable(p) PROVE TypeOK'
  BY <1>3, ReturnTyped, Zenon DEF Unavailable, TypeOK, store
<1>4. ASSUME NEW p \in Producers, Check(p) PROVE TypeOK'
  <2>1. call[p].win \in Windows
    BY <1>4, CallTyped DEF Check, Idle
  <2>2. QED
    BY <1>4, <2>1, ReturnTyped, Zenon DEF Check, TypeOK, store
<1>5. ASSUME NEW p \in Producers, Charge(p) PROVE TypeOK'
  <2>1. call[p].win \in Windows /\ call[p].amount \in Nat /\ call[p].ttl \in Nat
    BY <1>5, CallTyped, ProducerAssumption DEF Charge, Idle
  <2>2. now + call[p].ttl * Sec \in Nat
    BY <2>1, TimeAssumption DEF TypeOK
  <2>3. consumed' \in [Windows -> Nat] /\ unguarded' \in [Windows -> Nat]
    BY <1>5, <2>1 DEF Charge, CHARGE, TypeOK
  <2>4. expiry' \in [Windows -> Nat \cup {NoKey, NoTTL}]
    BY <1>5, <2>1, <2>2, Zenon DEF Charge, CHARGE, TypeOK
  <2>5. QED
    BY <1>5, <2>3, <2>4, ReturnTyped, Zenon DEF Charge, TypeOK
<1>6. ASSUME NEW p \in Producers, Refund(p) PROVE TypeOK'
  <2>1. call[p].win \in Windows /\ call[p].amount \in Nat
    BY <1>6, CallTyped, ProducerAssumption DEF Refund, Idle
  <2>2. consumed' \in [Windows -> Nat]
    BY <1>6, <2>1 DEF Refund, REFUND, AtLeast, TypeOK
  <2>3. expiry' \in [Windows -> Nat \cup {NoKey, NoTTL}]
    BY <1>6, <2>1, Zenon DEF Refund, REFUND, TypeOK
  <2>4. QED
    BY <1>6, <2>2, <2>3, ReturnTyped, Zenon DEF Refund, TypeOK
<1>7. ASSUME NEW p \in Producers, Usage(p) PROVE TypeOK'
  BY <1>7, ReturnTyped, Zenon DEF Usage, TypeOK, store
<1>8. CASE Tick
  BY <1>8, TimeAssumption DEF Tick, TypeOK
<1>9. CASE ShardLoss
  BY <1>9, TimeAssumption DEF ShardLoss, TypeOK
<1>10. CASE UNCHANGED vars
  BY <1>10, Zenon DEF vars, TypeOK
<1>11. QED
  BY <1>1, <1>2, <1>3, <1>4, <1>5, <1>6, <1>7, <1>8, <1>9, <1>10, Zenon DEF Next

(* The counters stay natural numbers and every call in flight stays well   *)
(* formed, for any number of producers, windows, costs and caps.           *)
THEOREM TypeCorrect == Spec => []TypeOK
  BY TypeInit, TypeStep, PTL DEF Spec
---------------------------------------------------------------------------
LEMMA ResetTyped == \A w \in Windows : w.reset \in Nat
  BY UnitAssumption DEF Windows

LEMMA PadTyped == LatePad \in Nat
  BY TimeAssumption DEF LatePad

ExpiryInv == PendingTtlCovers /\ NoEarlyExpiry

LEMMA ExpiryInit == Init => ExpiryInv
<1> SUFFICES ASSUME Init PROVE ExpiryInv
  BY Zenon
<1>1. PendingTtlCovers
  BY Zenon DEF Init, PendingTtlCovers, Idle
<1>2. NoEarlyExpiry
  BY DEF Init, NoEarlyExpiry, NoKey
<1>3. QED
  BY <1>1, <1>2, Zenon DEF ExpiryInv

(* A step that leaves the other calls alone and lets no time pass keeps    *)
(* their TTLs long enough.                                                 *)
LEMMA ReturnKeepsPending ==
    ASSUME TypeOK, PendingTtlCovers, NEW p \in Producers, Return(p), UNCHANGED now
    PROVE  PendingTtlCovers'
  BY Zenon DEF TypeOK, PendingTtlCovers, Return, Idle

LEMMA ExpiryStep == TypeOK /\ ExpiryInv /\ [Next]_vars => ExpiryInv'
<1> SUFFICES ASSUME TypeOK, PendingTtlCovers, NoEarlyExpiry, [Next]_vars
             PROVE  PendingTtlCovers' /\ NoEarlyExpiry'
  BY Zenon DEF ExpiryInv
<1>1. ASSUME NEW p \in Producers, Invoke(p) PROVE PendingTtlCovers' /\ NoEarlyExpiry'
  BY <1>1, InvokeEffect, Zenon DEF Invoke, store, PendingTtlCovers, NoEarlyExpiry
<1>2. ASSUME NEW p \in Producers, Unlimited(p) PROVE PendingTtlCovers' /\ NoEarlyExpiry'
  BY <1>2, Zenon DEF Unlimited, store, PendingTtlCovers, NoEarlyExpiry
<1>3. ASSUME NEW p \in Producers, Unavailable(p) \/ Usage(p) \/ Check(p)
      PROVE  PendingTtlCovers' /\ NoEarlyExpiry'
  <2>1. Return(p) /\ UNCHANGED <<now, consumed, expiry>>
    BY <1>3, Zenon DEF Unavailable, Usage, Check, store
  <2>2. QED
    BY <2>1, ReturnKeepsPending, Zenon DEF NoEarlyExpiry
<1>4. ASSUME NEW p \in Producers, Charge(p) PROVE PendingTtlCovers' /\ NoEarlyExpiry'
  <2>1. call[p].win \in Windows
    BY <1>4, CallTyped DEF Charge, Idle
  <2>2. now + call[p].ttl * Sec > call[p].win.reset + LatePad
    BY <1>4, Zenon DEF Charge, PendingTtlCovers
  <2>3. NoEarlyExpiry'
    BY <1>4, <2>1, <2>2, Zenon DEF Charge, CHARGE, NoEarlyExpiry, TypeOK
  <2>4. QED
    BY <1>4, <2>3, ReturnKeepsPending, Zenon DEF Charge
<1>5. ASSUME NEW p \in Producers, Refund(p) PROVE PendingTtlCovers' /\ NoEarlyExpiry'
  <2>1. call[p].win \in Windows
    BY <1>5, CallTyped DEF Refund, Idle
  <2>2. NoEarlyExpiry'
    BY <1>5, <2>1 DEF Refund, REFUND, NoEarlyExpiry, NoTTL, TypeOK
  <2>3. QED
    BY <1>5, <2>2, ReturnKeepsPending, Zenon DEF Refund
<1>6. CASE Tick
  <2>1. NoEarlyExpiry'
    BY <1>6 DEF Tick, NoEarlyExpiry, NoKey
  <2>2. ASSUME NEW q \in Producers, call[q].op = "charge"
        PROVE  now + 1 + call[q].ttl * Sec > call[q].win.reset + LatePad
    <3>1. call[q].ttl * Sec \in Nat /\ call[q].win.reset \in Nat
      BY <2>2, CallTyped, ResetTyped, TimeAssumption DEF Idle
    <3>2. QED
      BY <2>2, <3>1, PadTyped, TimeAssumption DEF PendingTtlCovers, TypeOK
  <2>3. PendingTtlCovers'
    BY <1>6, <2>2, Zenon DEF Tick, PendingTtlCovers
  <2>4. QED
    BY <2>1, <2>3, Zenon
<1>7. CASE ShardLoss
  BY <1>7 DEF ShardLoss, PendingTtlCovers, NoEarlyExpiry, NoKey
<1>8. CASE UNCHANGED vars
  BY <1>8, Zenon DEF vars, PendingTtlCovers, NoEarlyExpiry
<1>9. QED
  BY <1>1, <1>2, <1>3, <1>4, <1>5, <1>6, <1>7, <1>8, Zenon DEF Next

(* No key with a TTL expires before its window has been closed for more    *)
(* than LatePad ticks: the jittered TTL of window.rs is long enough for    *)
(* every calendar, clock error and delay the assumptions allow.            *)
THEOREM KeysOutliveWindows == Spec => []NoEarlyExpiry
<1>1. Spec => []ExpiryInv
  BY ExpiryInit, ExpiryStep, TypeCorrect, PTL DEF Spec
<1>2. ExpiryInv => NoEarlyExpiry
  BY Zenon DEF ExpiryInv
<1>3. QED
  BY <1>1, <1>2, PTL
---------------------------------------------------------------------------
EmptyInv == PersistentKeyIsEmpty /\ AbsentKeyIsEmpty

LEMMA EmptyStep == TypeOK /\ EmptyInv /\ [Next]_vars => EmptyInv'
<1> SUFFICES ASSUME TypeOK, EmptyInv, [Next]_vars PROVE EmptyInv'
  BY Zenon
<1> USE DEF EmptyInv, PersistentKeyIsEmpty, AbsentKeyIsEmpty
<1>1. ASSUME NEW p \in Producers,
             Invoke(p) \/ Unlimited(p) \/ Unavailable(p) \/ Check(p) \/ Usage(p)
      PROVE  EmptyInv'
  BY <1>1, Zenon DEF Invoke, Unlimited, Unavailable, Check, Usage, store
<1>2. ASSUME NEW p \in Producers, Charge(p) PROVE EmptyInv'
  <2>1. call[p].win \in Windows /\ call[p].ttl \in Nat
    BY <1>2, CallTyped DEF Charge, Idle
  <2>2. now + call[p].ttl * Sec \in Nat
    BY <2>1, TimeAssumption DEF TypeOK
  <2>3. \A w \in Windows :
           IF w = call[p].win THEN expiry'[w] \in Nat
           ELSE expiry'[w] = expiry[w] /\ consumed'[w] = consumed[w]
    BY <1>2, <2>1, <2>2 DEF Charge, CHARGE, TypeOK, NoKey, NoTTL
  <2>4. QED
    BY <2>3 DEF NoKey, NoTTL
<1>3. ASSUME NEW p \in Producers, Refund(p) PROVE EmptyInv'
  <2>1. call[p].win \in Windows /\ call[p].amount \in Nat
    BY <1>3, CallTyped, ProducerAssumption DEF Refund, Idle
  <2>2. \A w \in Windows :
           /\ consumed[w] = 0 => consumed'[w] = 0
           /\ expiry'[w] = expiry[w] \/ (expiry[w] = NoKey /\ expiry'[w] = NoTTL)
    BY <1>3, <2>1 DEF Refund, REFUND, AtLeast, TypeOK
  <2>3. QED
    BY <2>2, Zenon DEF NoKey, NoTTL
<1>4. CASE Tick \/ ShardLoss
  BY <1>4, Zenon DEF Tick, ShardLoss, NoKey, NoTTL
<1>5. CASE UNCHANGED vars
  BY <1>5, Zenon DEF vars
<1>6. QED
  BY <1>1, <1>2, <1>3, <1>4, <1>5, Zenon DEF Next

(* A key that Redis would never reclaim holds no charge: CHARGE gives a    *)
(* TTL to a key that lacks one, so only a refund of nothing leaves one.    *)
THEOREM OnlyEmptyKeysPersist == Spec => []PersistentKeyIsEmpty
<1>1. Init => EmptyInv
  BY Zenon DEF Init, EmptyInv, PersistentKeyIsEmpty, AbsentKeyIsEmpty
<1>2. Spec => []EmptyInv
  BY <1>1, EmptyStep, TypeCorrect, PTL DEF Spec
<1>3. EmptyInv => PersistentKeyIsEmpty
  BY Zenon DEF EmptyInv
<1>4. QED
  BY <1>2, <1>3, PTL
---------------------------------------------------------------------------
(* The step of the refinement: charges, refunds, time and losses of the    *)
(* shard are the ledger's own, and everything else leaves it alone.        *)
LEMMA LedgerStep ==
    TypeOK /\ NoEarlyExpiry /\ [Next]_vars => [Ledger!LedgerNext]_(Ledger!ledgerVars)
<1> SUFFICES ASSUME TypeOK, NoEarlyExpiry, [Next]_vars
             PROVE  Ledger!LedgerNext \/ UNCHANGED <<now, consumed, losses>>
  BY Zenon DEF Ledger!ledgerVars
<1>1. ASSUME NEW p \in Producers,
             Invoke(p) \/ Unlimited(p) \/ Unavailable(p) \/ Check(p) \/ Usage(p)
      PROVE  UNCHANGED <<now, consumed, losses>>
  BY <1>1, Zenon DEF Invoke, Unlimited, Unavailable, Check, Usage, store
<1>2. ASSUME NEW p \in Producers, Charge(p) PROVE Ledger!LedgerNext
  <2>1. call[p].win \in Windows /\ call[p].amount \in 0 .. MaxCost
    BY <1>2, CallTyped DEF Charge, Idle
  <2>2. Ledger!Add(call[p].win, call[p].amount)
    BY <1>2, Zenon DEF Charge, CHARGE, Ledger!Add
  <2>3. QED
    BY <2>1, <2>2, Zenon DEF Ledger!LedgerNext
<1>3. ASSUME NEW p \in Producers, Refund(p) PROVE Ledger!LedgerNext
  <2>1. call[p].win \in Windows /\ call[p].amount \in 0 .. MaxCost
    BY <1>3, CallTyped DEF Refund, Idle
  <2>2. Ledger!Credit(call[p].win, call[p].amount)
    BY <1>3, Zenon DEF Refund, REFUND, AtLeast, Ledger!Credit, Ledger!Floor
  <2>3. QED
    BY <2>1, <2>2, Zenon DEF Ledger!LedgerNext
<1>4. CASE Tick
  <2> DEFINE gone == {w \in Windows : Expired(w, now + 1)}
  <2>1. \A w \in gone : Ledger!Closed(w, now + 1)
    <3> SUFFICES ASSUME NEW w \in gone PROVE Ledger!Closed(w, now + 1)
      BY Zenon
    <3>1. expiry[w] \in Int /\ w.reset \in Int /\ LatePad \in Int /\ now \in Int
      BY ResetTyped, PadTyped, TimeAssumption DEF TypeOK, NoKey, NoTTL
    <3>2. QED
      BY <3>1 DEF Expired, NoEarlyExpiry, Ledger!Closed
  <2>2. consumed' = [w \in Windows |-> IF w \in gone THEN 0 ELSE consumed[w]]
    BY <1>4, Zenon DEF Tick
  <2>3. gone \in SUBSET {w \in Windows : Ledger!Closed(w, now + 1)}
    BY <2>1, Zenon
  <2>4. Ledger!Pass
    BY <1>4, <2>2, <2>3, Zenon DEF Tick, Ledger!Pass
  <2>5. QED
    BY <2>4, Zenon DEF Ledger!LedgerNext
<1>5. CASE ShardLoss
  BY <1>5, Zenon DEF ShardLoss, Ledger!Lose, Ledger!LedgerNext
<1>6. CASE UNCHANGED vars
  BY <1>6, Zenon DEF vars
<1>7. QED
  BY <1>1, <1>2, <1>3, <1>4, <1>5, <1>6, Zenon DEF Next

(* The data plane implements the ledger: a charge that was applied counts  *)
(* until its window has been closed for more than LatePad ticks or the     *)
(* shard is lost, whatever the replicas and their clocks do.               *)
THEOREM EnforcerImplementsLedger == Spec => ImplementsLedger
<1>1. Init => Ledger!LedgerInit
  BY Zenon DEF Init, Ledger!LedgerInit
<1>2. QED
  BY <1>1, LedgerStep, TypeCorrect, KeysOutliveWindows, PTL
     DEF Spec, ImplementsLedger, Ledger!LedgerSpec
---------------------------------------------------------------------------
Slack(w) == MaxLimit + Cardinality(Producers) * MaxCost - 1 + unguarded[w]

Covered(w) == consumed[w] + MaxCost * Cardinality(Holders(w)) <= Slack(w)

LEMMA HoldersFinite ==
    ASSUME NEW w
    PROVE  /\ IsFiniteSet(Holders(w)) /\ Cardinality(Holders(w)) \in Nat
           /\ Cardinality(Holders(w)) <= Cardinality(Producers)
           /\ Cardinality(Producers) \in Nat
  BY ProducerAssumption, FS_Subset, FS_CardinalityType, Zenon DEF Holders

LEMMA Monotone ==
    ASSUME NEW m \in Nat, NEW x \in Nat, NEW y \in Nat, x <= y
    PROVE  m * x <= m * y
  OBVIOUS

(* A step that neither consumes, nor grants a permit for w, nor forgets an *)
(* unguarded charge keeps w covered.                                       *)
LEMMA CoveredShrinks ==
    ASSUME TypeOK, TypeOK', NEW w \in Windows, Covered(w),
           consumed'[w] <= consumed[w], unguarded'[w] = unguarded[w],
           Holders(w)' \subseteq Holders(w)
    PROVE  Covered(w)'
<1>1. /\ Cardinality(Holders(w)) \in Nat /\ Cardinality(Holders(w)') \in Nat
      /\ Cardinality(Holders(w)') <= Cardinality(Holders(w))
  BY HoldersFinite, FS_Subset, FS_CardinalityType, Zenon
<1>2. MaxCost * Cardinality(Holders(w)') <= MaxCost * Cardinality(Holders(w))
  BY <1>1, Monotone, ProducerAssumption, Zenon
<1>3. /\ MaxCost * Cardinality(Holders(w)') \in Nat
      /\ MaxCost * Cardinality(Holders(w)) \in Nat
      /\ consumed[w] \in Nat /\ consumed'[w] \in Nat /\ unguarded[w] \in Nat
      /\ Cardinality(Producers) * MaxCost \in Nat
  BY <1>1, HoldersFinite, ProducerAssumption DEF TypeOK
<1>4. QED
  BY <1>2, <1>3, CapAssumption DEF Covered, Slack

(* A permit for w is granted only while w has room for a cost of at least  *)
(* 1, so even if every producer then holds one w is covered.               *)
LEMMA CoveredByCheck ==
    ASSUME TypeOK, NEW w \in Windows, NEW limit \in 0 .. MaxLimit,
           NEW cost \in 1 .. MaxCost, CHECK(w, limit, cost),
           consumed'[w] = consumed[w], unguarded'[w] = unguarded[w]
    PROVE  Covered(w)'
<1>1. consumed[w] \in Nat /\ unguarded[w] \in Nat /\ consumed[w] <= MaxLimit - 1
  BY CapAssumption, ProducerAssumption DEF CHECK, TypeOK
<1>2. /\ Cardinality(Holders(w)') \in Nat /\ Cardinality(Producers) \in Nat
      /\ Cardinality(Holders(w)') <= Cardinality(Producers)
  BY ProducerAssumption, FS_Subset, FS_CardinalityType, Zenon DEF Holders
<1>3. /\ MaxCost * Cardinality(Holders(w)') <= MaxCost * Cardinality(Producers)
      /\ MaxCost * Cardinality(Holders(w)') \in Nat
      /\ MaxCost * Cardinality(Producers) = Cardinality(Producers) * MaxCost
      /\ Cardinality(Producers) * MaxCost \in Nat
  BY <1>2, Monotone, ProducerAssumption
<1>4. QED
  BY <1>1, <1>3, CapAssumption DEF Covered, Slack

(* A charge spends its permit for w, or is counted as unguarded. *)
LEMMA CoveredByCharge ==
    ASSUME TypeOK, NEW p \in Producers, Charge(p),
           NEW w \in Windows, w = call[p].win, Covered(w)
    PROVE  Covered(w)'
<1> DEFINE H == Holders(w)
<1>0. PICK cost \in Nat : cost = call[p].amount /\ cost <= MaxCost
  BY CallTyped, ProducerAssumption DEF Charge, Idle
<1>2. /\ consumed[w] \in Nat /\ unguarded[w] \in Nat
      /\ consumed'[w] = consumed[w] + cost
      /\ unguarded'[w] = IF permit[p] = w THEN unguarded[w] ELSE unguarded[w] + cost
  BY <1>0, Zenon DEF Charge, CHARGE, TypeOK
<1>3. H' = H \ {p}
  BY PermitAssumption, Zenon DEF Charge, Holders, TypeOK
<1>4. /\ IsFiniteSet(H) /\ Cardinality(H) \in Nat /\ Cardinality(Producers) \in Nat
      /\ Cardinality(H') = IF permit[p] = w THEN Cardinality(H) - 1 ELSE Cardinality(H)
  <2>1. IsFiniteSet(H) /\ Cardinality(H) \in Nat /\ Cardinality(Producers) \in Nat
    BY HoldersFinite, Zenon
  <2>2. Cardinality(H \ {p}) = IF p \in H THEN Cardinality(H) - 1 ELSE Cardinality(H)
    BY <2>1, FS_RemoveElement, Zenon
  <2>3. p \in H <=> permit[p] = w
    BY Zenon DEF Holders
  <2>4. QED
    BY <1>3, <2>1, <2>2, <2>3, Zenon
<1>5. /\ MaxCost * Cardinality(H) \in Int /\ Cardinality(Producers) * MaxCost \in Int
      /\ MaxCost * (Cardinality(H) - 1) = MaxCost * Cardinality(H) - MaxCost
  BY <1>4, ProducerAssumption
<1>6. consumed[w] + MaxCost * Cardinality(H) <= Slack(w)
  BY Zenon DEF Covered
<1>7. consumed'[w] + MaxCost * Cardinality(H') <= Slack(w)'
  <2>1. CASE permit[p] = w
    BY <2>1, <1>0, <1>2, <1>4, <1>5, <1>6, CapAssumption, ProducerAssumption DEF Slack
  <2>2. CASE permit[p] # w
    BY <2>2, <1>0, <1>2, <1>4, <1>5, <1>6, CapAssumption, ProducerAssumption, SMTT(40) DEF Slack
  <2>3. QED
    BY <2>1, <2>2, Zenon
<1>8. QED
  BY <1>7, Zenon DEF Covered

CheckCosts == \A p \in Producers : call[p].op = "check" => call[p].amount >= 1

LEMMA ReturnKeepsCosts ==
    ASSUME TypeOK, CheckCosts, NEW p \in Producers, Return(p)
    PROVE  CheckCosts'
  BY Zenon DEF TypeOK, CheckCosts, Return, Idle

LEMMA PermitsInit == Init => PermitsCovered
<1> SUFFICES ASSUME Init PROVE PermitsCovered
  BY Zenon
<1>1. \A p \in Producers : call[p].op # "check"
  BY Zenon DEF Init, Idle
<1>2. ASSUME NEW w \in Windows PROVE Covered(w)
  <2>1. Holders(w) = {}
    BY PermitAssumption, Zenon DEF Init, Holders
  <2>2. Cardinality(Holders(w)) = 0
    BY <2>1, FS_EmptySet, Zenon
  <2>3. Cardinality(Producers) * MaxCost \in Nat
    BY ProducerAssumption, FS_CardinalityType
  <2>4. QED
    BY <2>2, <2>3, CapAssumption, ProducerAssumption DEF Init, Covered, Slack
<1>3. QED
  BY <1>1, <1>2, Zenon DEF PermitsCovered, Covered, Slack

LEMMA PermitsStep ==
    TypeOK /\ TypeOK' /\ PermitsCovered /\ [Next]_vars => PermitsCovered'
<1> SUFFICES ASSUME TypeOK, TypeOK', CheckCosts, \A w \in Windows : Covered(w), [Next]_vars
             PROVE  CheckCosts' /\ \A w \in Windows : Covered(w)'
  BY Zenon DEF PermitsCovered, CheckCosts, Covered, Slack
<1>1. ASSUME NEW p \in Producers, Invoke(p)
      PROVE  CheckCosts' /\ \A w \in Windows : Covered(w)'
  BY <1>1, InvokeEffect, Zenon DEF Invoke, store, CheckCosts, Covered, Slack, Holders
<1>2. ASSUME NEW p \in Producers, Unlimited(p)
      PROVE  CheckCosts' /\ \A w \in Windows : Covered(w)'
  <2>1. \A w \in Windows : Holders(w)' \subseteq Holders(w)
    BY <1>2, PermitAssumption, Zenon DEF Unlimited, Holders, TypeOK
  <2>2. CheckCosts' /\ \A w \in Windows : consumed'[w] <= consumed[w]
    BY <1>2 DEF Unlimited, store, CheckCosts, TypeOK
  <2>3. QED
    BY <1>2, <2>1, <2>2, CoveredShrinks, Zenon DEF Unlimited
<1>3. ASSUME NEW p \in Producers, Unavailable(p) \/ Usage(p)
      PROVE  CheckCosts' /\ \A w \in Windows : Covered(w)'
  BY <1>3, ReturnKeepsCosts, Zenon DEF Unavailable, Usage, store, Covered, Slack, Holders
<1>4. ASSUME NEW p \in Producers, Check(p)
      PROVE  CheckCosts' /\ \A w \in Windows : Covered(w)'
  <2>1. call[p].limit \in 0 .. MaxLimit /\ call[p].amount \in 1 .. MaxCost
    BY <1>4, CallTyped, ProducerAssumption DEF Check, Idle, CheckCosts
  <2>2. ASSUME NEW w \in Windows PROVE Covered(w)'
    <3>1. consumed'[w] = consumed[w] /\ unguarded'[w] = unguarded[w] /\ consumed[w] \in Nat
      BY <1>4, Zenon DEF Check, store, TypeOK
    <3>2. CASE w = call[p].win /\ CHECK(w, call[p].limit, call[p].amount)
      BY <2>1, <3>1, <3>2, CoveredByCheck, Zenon
    <3>3. CASE ~(w = call[p].win /\ CHECK(w, call[p].limit, call[p].amount))
      <4>1. permit'[p] # w
        BY <1>4, <3>3, PermitAssumption, Zenon DEF Check, TypeOK
      <4>2. Holders(w)' \subseteq Holders(w)
        BY <1>4, <4>1, Zenon DEF Check, Holders, TypeOK
      <4>3. QED
        BY <3>1, <4>2, CoveredShrinks
    <3>4. QED
      BY <3>2, <3>3, Zenon
  <2>3. QED
    BY <1>4, <2>2, ReturnKeepsCosts, Zenon DEF Check
<1>5. ASSUME NEW p \in Producers, Charge(p)
      PROVE  CheckCosts' /\ \A w \in Windows : Covered(w)'
  <2>1. ASSUME NEW w \in Windows, w # call[p].win PROVE Covered(w)'
    <3>1. consumed'[w] = consumed[w] /\ unguarded'[w] = unguarded[w] /\ consumed[w] \in Nat
      BY <1>5, <2>1 DEF Charge, CHARGE, TypeOK
    <3>2. Holders(w)' \subseteq Holders(w)
      BY <1>5, PermitAssumption, Zenon DEF Charge, Holders, TypeOK
    <3>3. QED
      BY <3>1, <3>2, CoveredShrinks
  <2>2. QED
    BY <1>5, <2>1, CoveredByCharge, ReturnKeepsCosts, Zenon DEF Charge
<1>6. ASSUME NEW p \in Producers, Refund(p)
      PROVE  CheckCosts' /\ \A w \in Windows : Covered(w)'
  <2>1. call[p].win \in Windows /\ call[p].amount \in Nat
    BY <1>6, CallTyped, ProducerAssumption, SMTT(40) DEF Refund, Idle
  <2>2. \A w \in Windows : consumed'[w] <= consumed[w] /\ unguarded'[w] = unguarded[w]
    BY <1>6, <2>1 DEF Refund, REFUND, AtLeast, TypeOK
  <2>3. \A w \in Windows : Holders(w)' \subseteq Holders(w)
    BY <1>6, Zenon DEF Refund, Holders
  <2>4. QED
    BY <1>6, <2>2, <2>3, CoveredShrinks, ReturnKeepsCosts, Zenon DEF Refund
<1>7. CASE Tick \/ ShardLoss
  <2>1. \A w \in Windows : consumed'[w] <= consumed[w] /\ unguarded'[w] = unguarded[w]
    BY <1>7, SMTT(40) DEF Tick, ShardLoss, TypeOK
  <2>2. CheckCosts' /\ \A w \in Windows : Holders(w)' \subseteq Holders(w)
    BY <1>7, Zenon DEF Tick, ShardLoss, CheckCosts, Holders
  <2>3. QED
    BY <2>1, <2>2, CoveredShrinks, Zenon
<1>8. CASE UNCHANGED vars
  BY <1>8, Zenon DEF vars, CheckCosts, Covered, Slack, Holders
<1>9. QED
  BY <1>1, <1>2, <1>3, <1>4, <1>5, <1>6, <1>7, <1>8, Zenon DEF Next

(* The overshoot of a cap is bounded by the concurrency: less than one     *)
(* maximal charge per producer, plus what was charged without a check.     *)
THEOREM OvershootBounded == Spec => []BoundedOvershoot
<1>1. Spec => []PermitsCovered
  BY PermitsInit, PermitsStep, TypeCorrect, PTL DEF Spec
<1>2. TypeOK /\ PermitsCovered => BoundedOvershoot
  <2> SUFFICES ASSUME TypeOK, PermitsCovered, NEW w \in Windows
               PROVE  consumed[w] <= Slack(w)
    BY Zenon DEF BoundedOvershoot, Slack
  <2>1. MaxCost * Cardinality(Holders(w)) \in Nat /\ Cardinality(Producers) * MaxCost \in Nat
    BY HoldersFinite, ProducerAssumption
  <2>2. QED
    BY <2>1, CapAssumption DEF PermitsCovered, Slack, TypeOK
<1>3. QED
  BY <1>1, <1>2, TypeCorrect, PTL
===========================================================================
