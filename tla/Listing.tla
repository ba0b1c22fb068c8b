------------------------------- MODULE Listing -------------------------------
(***************************************************************************)
(* Paged reading beside the write path: a client asks the console for the  *)
(* limits of a service, for its audit trail or for the services, and       *)
(* follows the page tokens while the handlers of LimitStore go on          *)
(* committing.  A token is the key of the last row of a page (PageToken);  *)
(* a page is one SELECT of the rows beyond it, and sees what is committed  *)
(* by then.                                                                *)
(*                                                                         *)
(* The console lets whoever holds a grant read every service.  quotamgmt   *)
(* knows the reader only as the console, by its own bearer token, and asks *)
(* on every page whether that principal may view the service.              *)
(*                                                                         *)
(* A row is named by its key: a config id, an audit id, or a service, and  *)
(* services are numbered here in the order of their names.  The customer,  *)
(* rate limit, config id and since filters narrow the same WHERE by what   *)
(* never changes in a row, as the service does, and are left out.          *)
(***************************************************************************)
EXTENDS LimitStore, Sequences

CONSTANTS
    Viewable,   \* the services that the console's principal may view
    PageSize    \* rows of a page, after clampPageSize

ASSUME ServiceAssumption == Services \subseteq Nat \ {0}
ASSUME ViewableAssumption == Viewable \subseteq Services
ASSUME PageAssumption == PageSize \in Nat \ {0}

VARIABLE listing  \* the listing that a client is reading

allVars == <<vars, listing>>

Anyone == [any |-> TRUE]
NoListing == [of |-> "none", more |-> FALSE, pages |-> << >>, base |-> {}]
---------------------------------------------------------------------------
(* The rows of the listing's service, or the services that may be viewed.  *)
Scope(q) ==
    CASE q.of = "limits" ->
            {limits[k].id : k \in {l \in Keys : ServiceOf[l] = q.service}} \ {0}
      [] q.of = "audit" ->
            {e.id : e \in {f \in audit : ServiceOf[f.key] = q.service}}
      [] q.of = "services" -> services \cap Viewable
      [] OTHER -> {}

(* The audit trail is listed newest first, the rest in ascending order. *)
Before(q, m, n) == IF q.of = "audit" THEN m > n ELSE m < n

(* A fault, never part of ListSpec: a page that starts at its token. *)
FromToken(q) == {n \in Scope(q) : q.cursor = 0 \/ ~Before(q, n, q.cursor)}

(* id > cursor, or audit_id < cursor; without a token, all of them. *)
Beyond(q) == {n \in Scope(q) : q.cursor = 0 \/ Before(q, q.cursor, n)}

(* The console drops what someone else changed after it has got the page. *)
Matches(q, n) ==
    q.of = "audit" /\ q.filter # Anyone => \E e \in audit : e.id = n /\ e.by = q.filter

(* P is the first page of the rows R, and n its last row. *)
IsPage(q, P, R) ==
    /\ \A p \in P, r \in R \ P : Before(q, p, r)
    /\ IF Cardinality(R) > PageSize THEN Cardinality(P) = PageSize ELSE P = R

IsLast(q, n, P) == \A p \in P : p = n \/ Before(q, p, n)
---------------------------------------------------------------------------
ListInit == Init /\ listing = NoListing

(* What a listing has to show: the rows of its scope that match, as they   *)
(* are when it is asked for.                                               *)
Wanted(q) == {n \in Scope(q) : Matches(q, n)}

(* A reader turns to a listing; the first request has no token. *)
Open(kind, s, who) ==
    LET q == [of |-> kind, service |-> s, filter |-> who] IN
    /\ listing = NoListing
    /\ listing' = [of |-> kind, service |-> s, filter |-> who,
                   cursor |-> 0, more |-> TRUE, pages |-> << >>, base |-> Wanted(q)]
    /\ UNCHANGED vars

ListLimits(s) == Open("limits", s, Anyone)

ListAudit(s) == \E who \in Actors \cup {Anyone} : Open("audit", s, who)

ListServices == Open("services", 0, Anyone)

(* requireViewer; a list of services is narrowed instead. *)
MayView(q) == q.of = "services" \/ q.service \in Viewable

(* One page: PageSize rows and a token, or the rest and none. *)
TurnPage ==
    LET R == Beyond(listing) IN
    /\ listing.more /\ MayView(listing)
    /\ \E P \in SUBSET R :
          /\ IsPage(listing, P, R)
          /\ \E n \in IF P = {} THEN {0} ELSE P :
                /\ IsLast(listing, n, P)
                /\ listing' = [listing EXCEPT
                      !.cursor = n, !.more = P # R,
                      !.pages = Append(@, {p \in P : Matches(listing, p)})]
    /\ UNCHANGED vars

(* The pages of the front end show the first page and drop its token; a    *)
(* page that is refused, or lost, ends a listing too.                      *)
Leave ==
    /\ listing.more
    /\ listing' = NoListing
    /\ UNCHANGED vars

Read ==
    \/ \E s \in Services : ListLimits(s) \/ ListAudit(s)
    \/ ListServices
    \/ TurnPage
    \/ Leave

ListNext == (Next /\ UNCHANGED listing) \/ Read

ListSpec == ListInit /\ [][ListNext]_allVars
---------------------------------------------------------------------------
Listed == UNION {listing.pages[i] : i \in DOMAIN listing.pages}

(* Paging is exact although rows come and go between two pages: a listing  *)
(* repeats no row and keeps its order across pages, and once it has no     *)
(* further page it has shown every row that was there when it was asked    *)
(* for and is there now.                                                   *)
ListedOnce ==
    /\ \A i, j \in DOMAIN listing.pages : i < j =>
          \A m \in listing.pages[i], n \in listing.pages[j] : Before(listing, m, n)
    /\ ~listing.more => listing.base \cap Wanted(listing) \subseteq Listed

ListTypeOK ==
    listing \in {NoListing}
       \cup [of : {"limits", "audit", "services"}, service : Services \cup {0},
             filter : Actors \cup {Anyone}, cursor : Nat, more : BOOLEAN,
             pages : Seq(SUBSET (Nat \ {0})), base : SUBSET (Nat \ {0})]

(* What makes ListedOnce inductive.  A row's id is in the trail of         *)
(* its tuple, so a row that was there at the start and is there now never  *)
(* was away; the pages so far reach up to the cursor, and what is still    *)
(* wanted lies beyond it.                                                  *)
ListingFits ==
    /\ \A k \in Keys : limits[k] # NoRow =>
          \E e \in audit : e.config = limits[k].id /\ e.key = k
    /\ IF listing.of = "limits"
       THEN \A n \in listing.base : \E e \in audit : e.config = n
       ELSE listing.base \subseteq Wanted(listing)
    /\ listing.more => \A n \in Listed :
          listing.cursor # 0 /\ (n = listing.cursor \/ Before(listing, n, listing.cursor))
    /\ \A n \in (listing.base \cap Wanted(listing)) \ Listed :
          listing.more /\ (listing.cursor = 0 \/ Before(listing, listing.cursor, n))
=============================================================================
