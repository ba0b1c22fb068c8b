---------------------------- MODULE ListingProofs ----------------------------
(* Keyset paging is exact, for any page size and any number of writers,    *)
(* tuples and principals.                                                  *)
EXTENDS Listing, LimitStoreProofs, FiniteSetTheorems

Invariants == TypeOK /\ ChangesFit /\ IdsFit /\ ListTypeOK /\ ListingFits

LEMMA ListStart == ListInit => Invariants /\ ListedOnce
<1> SUFFICES ASSUME ListInit PROVE Invariants /\ ListedOnce
  OBVIOUS
<1>1. TypeOK /\ ChangesFit /\ IdsFit
  BY TypeInit, ChangesInit, IdsInit, Zenon DEF ListInit
<1>2. listing = NoListing /\ Listed = {} /\ ListTypeOK
  BY DEF ListInit, NoListing, Listed, ListTypeOK
<1>3. ListingFits
  BY <1>2 DEF ListingFits, ListInit, Init, NoListing, NoRow
<1>4. ListedOnce
  BY <1>2 DEF ListedOnce, NoListing
<1> QED BY <1>1, <1>2, <1>3, <1>4, Zenon DEF Invariants

LEMMA BeforeTrans ==
  ASSUME NEW q, NEW l \in Nat, NEW m \in Nat, NEW n \in Nat, Before(q, l, m), Before(q, m, n)
  PROVE  Before(q, l, n)
  BY DEF Before

(* Every row has a positive key. *)
LEMMA ScopeTyped ==
  ASSUME TypeOK, NEW q
  PROVE  Scope(q) \subseteq Nat \ {0}
<1>1. CASE q.of = "limits"
  BY <1>1, IdTyped DEF Scope
<1>2. CASE q.of = "audit"
  BY <1>2 DEF Scope, TypeOK, Entry
<1>3. CASE q.of \notin {"limits", "audit"}
  BY <1>3, ServiceAssumption DEF Scope, TypeOK
<1> QED BY <1>1, <1>2, <1>3

(* The shape of a listing, and what it has shown. *)
LEMMA ListingShape ==
  ASSUME ListTypeOK
  PROVE  /\ listing.pages \in Seq(SUBSET (Nat \ {0})) /\ listing.base \subseteq Nat \ {0}
         /\ listing.more \in BOOLEAN
         /\ Listed \subseteq Nat \ {0}
         /\ listing.more => /\ listing.of \in {"limits", "audit", "services"}
                            /\ listing.cursor \in Nat
         /\ listing.of \notin {"limits", "audit", "services"} => listing = NoListing
<1>1. CASE listing = NoListing
  BY <1>1 DEF NoListing, Listed
<1>2. CASE listing # NoListing
  <2>1. /\ listing.pages \in Seq(SUBSET (Nat \ {0}))
        /\ listing.base \in SUBSET (Nat \ {0}) /\ listing.more \in BOOLEAN
        /\ listing.of \in {"limits", "audit", "services"} /\ listing.cursor \in Nat
    BY <1>2, Zenon DEF ListTypeOK
  <2>2. \A i \in DOMAIN listing.pages : listing.pages[i] \subseteq Nat \ {0}
    BY <2>1
  <2>3. Listed \subseteq Nat \ {0}
    BY <2>2, Zenon DEF Listed
  <2> QED BY <2>1, <2>3, Zenon
<1> QED BY <1>1, <1>2
---------------------------------------------------------------------------
(* The writers go on.  Audit entries and services stay. *)
LEMMA StoreGrows ==
  ASSUME TypeOK, [Next]_vars
  PROVE  audit \subseteq audit' /\ services \subseteq services'
<1>1. audit \subseteq audit'
  BY StepEffect, Zenon DEF Quiet, WritesEntry, CommitsEntry
<1>2. services \subseteq services'
  BY Zenon DEF Next, Handle, Register, Begin, Statement, Commit, Disconnect, vars
<1> QED BY <1>1, <1>2

(* What a commit leaves in its tuple. *)
LEMMA CommittedRow ==
  ASSUME TypeOK, IdsFit, NEW c \in Calls, CommitsEntry(c)
  PROVE  LET e == call[c].entry IN
         /\ e \in audit' /\ e.key \in Keys
         /\ limits'[e.key].id # 0 => limits'[e.key].id = e.config
         /\ \/ \A f \in audit : f.config # e.config
            \/ e.config = limits[e.key].id
         /\ \A k \in Keys \ {e.key} : limits'[k] = limits[k]
<1> DEFINE e == call[c].entry
<1>1. e \in Entry /\ e \in audit' /\ limits' = [limits EXCEPT ![e.key] = e.new] /\ Pending(c)
  BY PendingTyped, Zenon DEF CommitsEntry
<1>2. /\ e.new # NoRow => e.new.id = e.config
      /\ \/ \A f \in audit : f.config # e.config
         \/ e.config = limits[e.key].id
  BY <1>1, Zenon DEF IdsFit
<1>3. e.key \in Keys
  BY <1>1 DEF Entry
<1> HIDE DEF e
<1>4. limits'[e.key] = e.new /\ \A k \in Keys \ {e.key} : limits'[k] = limits[k]
  BY <1>1, <1>3, Zenon DEF TypeOK
<1>5. limits'[e.key].id # 0 => limits'[e.key].id = e.config
  BY <1>2, <1>4 DEF NoRow
<1> QED BY <1>1, <1>2, <1>3, <1>4, <1>5, Zenon DEF e

LEMMA RowIsLogged ==
  ASSUME ListingFits, NEW k \in Keys, limits[k] # NoRow
  PROVE  \E e \in audit : e.config = limits[k].id /\ e.key = k
  BY DEF ListingFits

LEMMA RowsStayLogged ==
  ASSUME TypeOK, TypeOK', IdsFit, ListingFits, [Next]_vars, NEW k \in Keys, limits'[k] # NoRow
  PROVE  \E e \in audit' : e.config = limits'[k].id /\ e.key = k
<1>1. limits'[k].id # 0
  BY DEF TypeOK, Row, NoRow
<1>2. CASE limits'[k] = limits[k]
  <2>1. \E e \in audit : e.config = limits[k].id /\ e.key = k
    BY <1>2, RowIsLogged
  <2>2. audit \subseteq audit'
    BY StoreGrows, Zenon
  <2> QED BY <1>2, <2>1, <2>2, Zenon
<1>3. ASSUME NEW c \in Calls, CommitsEntry(c), limits'[k] # limits[k]
      PROVE  \E e \in audit' : e.config = limits'[k].id /\ e.key = k
  BY <1>1, <1>3, CommittedRow, Zenon
<1> QED BY <1>2, <1>3, StepEffect, Zenon DEF Quiet, WritesEntry

(* A row that was there at the start of the listing and is there after a   *)
(* step was there before the step: ids are not used twice.                 *)
LEMMA NoRevival ==
  ASSUME TypeOK, TypeOK', IdsFit, ListingFits, [Next]_vars, NEW k \in Keys,
         limits'[k].id # 0, \E f \in audit : f.config = limits'[k].id
  PROVE  limits[k].id = limits'[k].id
<1>1. CASE limits'[k] = limits[k]
  BY <1>1
<1>2. ASSUME NEW c \in Calls, CommitsEntry(c), limits'[k] # limits[k]
      PROVE  limits[k].id = limits'[k].id
  BY <1>2, CommittedRow, Zenon
<1> QED BY <1>1, <1>2, StepEffect, Zenon DEF Quiet, WritesEntry

LEMMA WantedStays ==
  ASSUME TypeOK, [Next]_vars, UNCHANGED listing, listing.of # "limits"
  PROVE  Wanted(listing) \subseteq Wanted(listing)'
<1>1. audit \subseteq audit' /\ services \subseteq services'
  BY StoreGrows
<1>2. Scope(listing) \subseteq Scope(listing)'
  <2>1. CASE listing.of = "audit"
    BY <1>1, <2>1 DEF Scope
  <2>2. CASE listing.of # "audit"
    BY <1>1, <2>2 DEF Scope
  <2> QED BY <2>1, <2>2
<1>3. ASSUME NEW n, Matches(listing, n) PROVE Matches(listing, n)'
  BY <1>1, <1>3 DEF Matches
<1> QED BY <1>2, <1>3, Zenon DEF Wanted

LEMMA WantedBefore ==
  ASSUME TypeOK, TypeOK', IdsFit, ListingFits, [Next]_vars, UNCHANGED listing,
         NEW n \in listing.base, n \in Wanted(listing)'
  PROVE  n \in Wanted(listing)
<1>1. CASE listing.of = "limits"
  <2>1. n \in Scope(listing)' /\ \E f \in audit : f.config = n
    BY <1>1, Zenon DEF Wanted, ListingFits
  <2>2. PICK k \in Keys : ServiceOf[k] = listing.service /\ limits'[k].id = n /\ n # 0
    BY <1>1, <2>1 DEF Scope
  <2>3. limits[k].id = n
    BY <2>1, <2>2, NoRevival, Zenon
  <2>4. n \in Scope(listing)
    BY <1>1, <2>2, <2>3 DEF Scope
  <2> QED BY <1>1, <2>4 DEF Wanted, Matches
<1>2. CASE listing.of # "limits"
  BY <1>2, Zenon DEF ListingFits
<1> QED BY <1>1, <1>2

LEMMA StoreStep ==
  ASSUME Invariants, ListedOnce, [Next]_vars, UNCHANGED listing
  PROVE  (Invariants /\ ListedOnce)'
<1>1. TypeOK /\ ChangesFit /\ IdsFit /\ ListTypeOK /\ ListingFits
  BY Zenon DEF Invariants
<1>2. TypeOK' /\ ChangesFit' /\ IdsFit'
  BY <1>1, TypeStep, ChangesStep, IdsStep, Zenon
<1>3. ListTypeOK' /\ Listed' = Listed
  BY <1>1, Zenon DEF ListTypeOK, Listed
<1>4. audit \subseteq audit'
  BY <1>1, StoreGrows
<1>5. ASSUME NEW n \in listing.base, n \in Wanted(listing)' PROVE n \in Wanted(listing)
  BY <1>1, <1>2, <1>5, WantedBefore, Zenon
<1>6. ListingFits'
  <2>1. \A k \in Keys : limits'[k] # NoRow =>
           \E e \in audit' : e.config = limits'[k].id /\ e.key = k
    BY <1>1, <1>2, RowsStayLogged, Zenon
  <2>2. IF listing.of = "limits"
        THEN \A n \in listing.base : \E e \in audit' : e.config = n
        ELSE listing.base \subseteq Wanted(listing)'
    BY <1>1, <1>4, WantedStays, Zenon DEF ListingFits
  <2>3. \A n \in (listing.base \cap Wanted(listing)') \ Listed :
           listing.more /\ (listing.cursor = 0 \/ Before(listing, listing.cursor, n))
    BY <1>1, <1>5, Zenon DEF ListingFits
  <2> QED BY <1>1, <1>3, <2>1, <2>2, <2>3, Zenon DEF ListingFits, Before
<1>7. ListedOnce'
  <2>1. ~listing.more => listing.base \cap Wanted(listing)' \subseteq Listed
    BY <1>5, Zenon DEF ListedOnce
  <2> QED BY <1>3, <2>1, Zenon DEF ListedOnce, Before
<1> QED BY <1>2, <1>3, <1>6, <1>7, Zenon DEF Invariants
---------------------------------------------------------------------------
(* The client goes on. *)
LEMMA StoreKept ==
  ASSUME Invariants, UNCHANGED vars
  PROVE  /\ (TypeOK /\ ChangesFit /\ IdsFit)'
         /\ \A k \in Keys : limits'[k] # NoRow =>
               \E e \in audit' : e.config = limits'[k].id /\ e.key = k
<1>1. TypeOK /\ ChangesFit /\ IdsFit /\ ListingFits /\ [Next]_vars
  BY Zenon DEF Invariants
<1>2. (TypeOK /\ ChangesFit /\ IdsFit)'
  BY <1>1, TypeStep, ChangesStep, IdsStep, Zenon
<1> QED BY <1>1, <1>2, RowsStayLogged, Zenon

LEMMA LeaveStep ==
  ASSUME Invariants, Leave
  PROVE  (Invariants /\ ListedOnce)'
<1>1. listing' = NoListing /\ UNCHANGED vars
  BY DEF Leave
<1>2. Listed' = {} /\ ListTypeOK'
  BY <1>1 DEF Listed, ListTypeOK, NoListing
<1>3. ListingFits'
  BY <1>1, <1>2, StoreKept DEF ListingFits, NoListing
<1>4. ListedOnce'
  BY <1>1, <1>2 DEF ListedOnce, NoListing
<1> QED BY <1>1, <1>2, <1>3, <1>4, StoreKept, Zenon DEF Invariants

LEMMA OpenStep ==
  ASSUME Invariants, NEW kind \in {"limits", "audit", "services"},
         NEW s \in Services \cup {0}, NEW who \in Actors \cup {Anyone},
         Open(kind, s, who)
  PROVE  (Invariants /\ ListedOnce)'
<1> DEFINE q == [of |-> kind, service |-> s, filter |-> who]
<1>1. UNCHANGED vars /\ TypeOK /\ ListingFits
  BY Zenon DEF Open, Invariants
<1>2. /\ listing' = [of |-> kind, service |-> s, filter |-> who,
                     cursor |-> 0, more |-> TRUE, pages |-> << >>, base |-> Wanted(q)]
  BY Zenon DEF Open
<1>3. /\ listing'.of = kind /\ listing'.service = s /\ listing'.filter = who
      /\ listing'.cursor = 0 /\ listing'.more /\ listing'.pages = << >>
      /\ listing'.base = Wanted(q)
  BY <1>2
<1>4. UNCHANGED <<limits, audit, services>>
  BY <1>1 DEF vars
<1>5. Scope(listing)' = Scope(q)
  BY <1>3, <1>4, Zenon DEF Scope
<1>6. \A n : Matches(listing, n)' <=> Matches(q, n)
  BY <1>3, <1>4, Zenon DEF Matches
<1>7. Wanted(listing)' = Wanted(q) /\ Wanted(q) \subseteq Scope(q)
  BY <1>5, <1>6, Zenon DEF Wanted
<1>8. Listed' = {}
  BY <1>3 DEF Listed
<1>9. ListTypeOK'
  <2>1. Wanted(q) \in SUBSET (Nat \ {0})
    BY <1>1, <1>7, ScopeTyped
  <2> HIDE DEF q
  <2> QED BY <1>2, <2>1 DEF ListTypeOK
<1>10. ListingFits'
  <2>1. kind = "limits" => \A n \in Wanted(q) : \E e \in audit' : e.config = n
    <3> SUFFICES ASSUME kind = "limits", NEW n \in Scope(q)
                 PROVE  \E e \in audit' : e.config = n
      BY <1>7, Zenon
    <3>1. q.of = "limits"
      OBVIOUS
    <3>2. PICK k \in Keys : limits[k].id = n /\ n # 0
      <4> HIDE DEF q
      <4> QED BY <3>1 DEF Scope
    <3>3. limits[k] # NoRow
      BY <3>2 DEF NoRow
    <3> QED BY <1>1, <1>4, <3>2, <3>3, Zenon DEF ListingFits
  <2> HIDE DEF q
  <2>2. /\ IF listing'.of = "limits"
           THEN \A n \in listing'.base : \E e \in audit' : e.config = n
           ELSE listing'.base \subseteq Wanted(listing)'
        /\ listing'.more => \A n \in Listed' : listing'.cursor # 0
              /\ (n = listing'.cursor \/ Before(listing', n, listing'.cursor))
        /\ \A n \in (listing'.base \cap Wanted(listing)') \ Listed' :
              listing'.more /\ (listing'.cursor = 0 \/ Before(listing', listing'.cursor, n))
    BY <1>3, <1>7, <1>8, <2>1
  <2> QED BY <1>1, <2>2, StoreKept, Zenon DEF ListingFits
<1>11. ListedOnce'
  BY <1>3, <1>8 DEF ListedOnce
<1> QED BY <1>1, <1>9, <1>10, <1>11, StoreKept, Zenon DEF Invariants

(* A page and what is left after it. *)
LEMMA PageSplits ==
  ASSUME NEW R, NEW P \in SUBSET R, IsPage(listing, P, R), P # R
  PROVE  P # {}
<1>1. Cardinality(P) = PageSize
  BY Zenon DEF IsPage
<1> QED BY <1>1, FS_EmptySet, PageAssumption

LEMMA TurnPageStep ==
  ASSUME Invariants, ListedOnce, TurnPage
  PROVE  (Invariants /\ ListedOnce)'
<1> DEFINE R == Beyond(listing)
<1>1. TypeOK /\ ListTypeOK /\ ListingFits /\ UNCHANGED vars /\ listing.more
  BY Zenon DEF TurnPage, Invariants
<1>2. PICK P \in SUBSET R :
         /\ IsPage(listing, P, R)
         /\ \E n \in IF P = {} THEN {0} ELSE P :
               /\ IsLast(listing, n, P)
               /\ listing' = [listing EXCEPT
                     !.cursor = n, !.more = P # R,
                     !.pages = Append(@, {p \in P : Matches(listing, p)})]
  BY Zenon DEF TurnPage
<1>3. PICK n \in IF P = {} THEN {0} ELSE P :
         /\ IsLast(listing, n, P)
         /\ listing' = [listing EXCEPT
               !.cursor = n, !.more = P # R,
               !.pages = Append(@, {p \in P : Matches(listing, p)})]
  BY <1>2, Zenon
<1> DEFINE new == {p \in P : Matches(listing, p)}
           at  == Len(listing.pages) + 1
<1>4. /\ listing.of \in {"limits", "audit", "services"} /\ listing.cursor \in Nat
      /\ listing.pages \in Seq(SUBSET (Nat \ {0})) /\ Listed \subseteq Nat \ {0}
      /\ listing # NoListing
  BY <1>1, ListingShape DEF NoListing
<1>5. R \subseteq Scope(listing) /\ R \subseteq Nat \ {0} /\ new \subseteq P
      /\ \A r \in R : listing.cursor = 0 \/ Before(listing, listing.cursor, r)
  BY <1>1, ScopeTyped DEF Beyond
<1>6. n \in Nat /\ (P # {} => n \in P)
  BY <1>5
<1>7. listing \in [of : {"limits", "audit", "services"}, service : Services \cup {0},
                    filter : Actors \cup {Anyone}, cursor : Nat, more : BOOLEAN,
                    pages : Seq(SUBSET (Nat \ {0})), base : SUBSET (Nat \ {0})]
  BY <1>1, <1>4, Zenon DEF ListTypeOK
<1>8. new \in SUBSET (Nat \ {0})
  BY <1>5, Zenon
<1> HIDE DEF R, new
<1>9. /\ listing'.of = listing.of /\ listing'.service = listing.service
      /\ listing'.filter = listing.filter
      /\ listing'.base = listing.base
      /\ listing'.cursor = n /\ listing'.more = (P # R)
      /\ listing'.pages = Append(listing.pages, new)
  BY <1>3, <1>7 DEF new
<1>10. ListTypeOK'
  <2> DEFINE ps == Append(listing.pages, new)
             more == P # R
  <2>1. ps \in Seq(SUBSET (Nat \ {0})) /\ more \in BOOLEAN
    BY <1>4, <1>8
  <2>2. listing' = [listing EXCEPT !.cursor = n, !.more = more, !.pages = ps]
    BY <1>3, Zenon DEF new
  <2> HIDE DEF ps, more
  <2>3. listing' \in [of : {"limits", "audit", "services"}, service : Services \cup {0},
                      filter : Actors \cup {Anyone}, cursor : Nat, more : BOOLEAN,
                      pages : Seq(SUBSET (Nat \ {0})), base : SUBSET (Nat \ {0})]
    BY <1>6, <1>7, <2>1, <2>2
  <2> QED BY <2>3, Zenon DEF ListTypeOK
<1>11. /\ DOMAIN listing'.pages = DOMAIN listing.pages \cup {at} /\ at \notin DOMAIN listing.pages
       /\ listing'.pages[at] = new /\ at \in Nat
       /\ \A i \in DOMAIN listing.pages : listing'.pages[i] = listing.pages[i]
                                         /\ i \in Nat /\ i < at
  BY <1>4, <1>9
<1> HIDE DEF at
<1>12. Listed' = Listed \cup new
  BY <1>11 DEF Listed
<1>13. /\ \A l, m : Before(listing, l, m)' = Before(listing, l, m)
       /\ Wanted(listing)' = Wanted(listing)
  <2>1. Scope(listing)' = Scope(listing)
    BY <1>1, <1>9, Zenon DEF Scope, vars
  <2>2. \A m : Matches(listing, m)' <=> Matches(listing, m)
    BY <1>1, <1>9, Zenon DEF Matches, vars
  <2>3. \A l, m : Before(listing, l, m)' = Before(listing, l, m)
    BY <1>9 DEF Before
  <2> QED BY <2>1, <2>2, <2>3, Zenon DEF Wanted
(* The new page comes after all that was shown. *)
<1>14. ASSUME NEW m \in Listed, NEW r \in R PROVE Before(listing, m, r)
  <2>1. listing.cursor # 0 /\ (m = listing.cursor \/ Before(listing, m, listing.cursor))
    BY <1>1, Zenon DEF ListingFits
  <2>2. Before(listing, listing.cursor, r) /\ m \in Nat /\ r \in Nat
    BY <1>4, <1>5, <2>1
  <2> QED BY <1>4, <2>1, <2>2, BeforeTrans, Zenon
<1>15. P = {} => P = R
  BY <1>2, PageSplits, Zenon
<1>16. ListingFits'
  <2>1. IF listing'.of = "limits"
        THEN \A m \in listing'.base : \E e \in audit' : e.config = m
        ELSE listing'.base \subseteq Wanted(listing)'
    BY <1>1, <1>9, <1>13, Zenon DEF ListingFits, vars
  <2>2. ASSUME P # R, NEW m \in Listed \cup new
        PROVE  n # 0 /\ (m = n \/ Before(listing, m, n))
    <3>1. n \in P /\ n \in R /\ n # 0
      BY <1>5, <1>6, <1>15, <2>2
    <3>2. CASE m \in Listed
      BY <1>14, <3>1, <3>2, Zenon
    <3>3. CASE m \in new
      BY <1>3, <1>5, <3>1, <3>3, Zenon DEF IsLast
    <3> QED BY <2>2, <3>2, <3>3, Zenon
  <2>3. ASSUME NEW m \in listing.base \cap Wanted(listing), m \notin Listed \cup new
        PROVE  P # R /\ Before(listing, n, m)
    <3>1. m \in Scope(listing) /\ Matches(listing, m)
      BY Zenon DEF Wanted
    <3>2. listing.cursor = 0 \/ Before(listing, listing.cursor, m)
      BY <1>1, <2>3, Zenon DEF ListingFits
    <3>3. m \in R /\ m \notin P
      BY <2>3, <3>1, <3>2, Zenon DEF R, Beyond, new
    <3>4. n \in P
      BY <1>6, <1>15, <3>3, Zenon
    <3> QED BY <1>2, <3>3, <3>4, Zenon DEF IsPage
  <2>4. listing'.more => \A m \in Listed' : listing'.cursor # 0
           /\ (m = listing'.cursor \/ Before(listing, m, listing'.cursor))
    BY <1>9, <1>12, <2>2, Zenon
  <2>5. \A m \in (listing'.base \cap Wanted(listing)') \ Listed' :
           listing'.more /\ (listing'.cursor = 0 \/ Before(listing, listing'.cursor, m))
    BY <1>9, <1>12, <1>13, <2>3, Zenon
  <2>6. \A l, m : Before(listing', l, m) <=> Before(listing, l, m)
    BY <1>9 DEF Before
  <2>7. /\ listing'.more => \A m \in Listed' : listing'.cursor # 0
              /\ (m = listing'.cursor \/ Before(listing', m, listing'.cursor))
        /\ \A m \in (listing'.base \cap Wanted(listing)') \ Listed' :
              listing'.more /\ (listing'.cursor = 0 \/ Before(listing', listing'.cursor, m))
    BY <2>4, <2>5, <2>6, Zenon
  <2> QED BY <1>1, <2>1, <2>7, StoreKept, Zenon DEF ListingFits
<1>17. ListedOnce'
  <2>1. ASSUME NEW i \in DOMAIN listing'.pages, NEW j \in DOMAIN listing'.pages, i < j,
               NEW l \in listing'.pages[i], NEW m \in listing'.pages[j]
        PROVE  Before(listing, l, m)
    <3>1. i \in DOMAIN listing.pages
      BY <1>11, <2>1
    <3>2. l \in listing.pages[i] /\ l \in Listed
      BY <1>11, <2>1, <3>1, Zenon DEF Listed
    <3>3. CASE j \in DOMAIN listing.pages
      BY <1>11, <2>1, <3>1, <3>2, <3>3, Zenon DEF ListedOnce
    <3>4. CASE j = at
      BY <1>5, <1>11, <1>14, <2>1, <3>2, <3>4, Zenon DEF new
    <3> QED BY <1>11, <3>3, <3>4, Zenon
  <2>2. ~listing'.more => listing'.base \cap Wanted(listing)' \subseteq Listed'
    BY <1>16, Zenon DEF ListingFits
  <2> QED BY <1>13, <2>1, <2>2, Zenon DEF ListedOnce
<1> QED BY <1>1, <1>10, <1>16, <1>17, StoreKept, Zenon DEF Invariants

LEMMA ListStep ==
  ASSUME Invariants, ListedOnce, [ListNext]_allVars
  PROVE  (Invariants /\ ListedOnce)'
<1>1. CASE [Next]_vars /\ UNCHANGED listing
  BY <1>1, StoreStep, Zenon
<1>2. ASSUME NEW s \in Services, ListLimits(s) \/ ListAudit(s)
      PROVE  (Invariants /\ ListedOnce)'
  <2>1. PICK kind \in {"limits", "audit"}, who \in Actors \cup {Anyone} : Open(kind, s, who)
    BY <1>2, Zenon DEF ListLimits, ListAudit
  <2>2. kind \in {"limits", "audit", "services"} /\ s \in Services \cup {0}
    BY Zenon
  <2> QED BY <2>1, <2>2, OpenStep, Zenon
<1>3. ASSUME ListServices
      PROVE  (Invariants /\ ListedOnce)'
  <2>1. Open("services", 0, Anyone)
    BY <1>3, Zenon DEF ListServices
  <2>2. "services" \in {"limits", "audit", "services"} /\ 0 \in Services \cup {0}
        /\ Anyone \in Actors \cup {Anyone}
    BY Zenon
  <2> QED BY <2>1, <2>2, OpenStep, Zenon
<1> QED BY <1>1, <1>2, <1>3, TurnPageStep, LeaveStep, Zenon DEF ListNext, Read, allVars
---------------------------------------------------------------------------
(* LimitAdminService.listLimits, listServices and listAuditEntries: a      *)
(* client that follows the page tokens sees no row twice and misses none   *)
(* that was there from the first page to the last, whatever is committed   *)
(* meanwhile and whatever the page size.                                   *)
THEOREM PagingIsExact == ListSpec => []ListedOnce
<1>1. ListInit => Invariants /\ ListedOnce
  BY ListStart
<1>2. Invariants /\ ListedOnce /\ [ListNext]_allVars
      => (Invariants /\ ListedOnce)'
  BY ListStep
<1> QED BY <1>1, <1>2, PTL DEF ListSpec
=============================================================================
