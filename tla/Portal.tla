------------------------------- MODULE Portal -------------------------------
(***************************************************************************)
(* Who acts: the tabs of one browser, the console's sessions, and the      *)
(* service registry that is written through them.  The session cookie is   *)
(* the browser's and its tabs share it; the person on the screen and the   *)
(* CSRF token are the tab's.  A session is named by a number, and so are   *)
(* its cookie and its token; 0 is none.                                    *)
(*                                                                         *)
(* A request is sent, answered by the console and applied by its tab in    *)
(* separate steps, requests overtake each other, and either way may fail.  *)
(* An answer's cookie counts when its headers arrive; the tab goes on when *)
(* it has the body.                                                        *)
(***************************************************************************)
EXTENDS Integers, Sequences

CONSTANTS
    Tabs,          \* tabs of the browser
    Slots,         \* requests that may be on their way at once
    Users,         \* names typed at the sign-in form
    Known,         \* those in the grant store
    Names,         \* service names
    Titles,        \* (display name, owner) pairs
    GrantSets,     \* sets of grants that a person may hold
    EditorsCreate, \* Policy.allowServiceEditorCreateService
    MaxSessions,   \* bound on sign-ins
    MaxRestarts    \* bound on restarts of the console

ASSUME KnownAssumption == Known \subseteq Users
ASSUME PortalBounds == MaxSessions \in Nat /\ MaxRestarts \in Nat

Roles == {"viewer", "service-editor", "operator", "admin"}
AnyService == [any |-> TRUE]
Grant == [role : Roles, service : Names \cup {AnyService}]

ASSUME GrantAssumption == GrantSets \subseteq SUBSET Grant

VARIABLES
    grants,     \* grants[u], the grant store; nothing writes it
    owner,      \* owner[i]: the person of the i-th session
    live,       \* sessions in the store; it is lost with the process
    cookie,     \* the browser's session cookie
    tab,        \* tab[t]: whether t has loaded, whom it shows, its CSRF token
    editing,    \* editing[t]: the service in t's edit panel, or NoEdit
    wire,       \* wire[s]: a request on its way, or its answer
    registry,   \* the service table of quotamgmt
    actionLog,  \* the console's action log, and whom the tab showed
    restarts

browser == <<cookie, tab, editing>>
backend == <<registry, actionLog>>
vars == <<grants, owner, live, cookie, tab, editing, wire, registry, actionLog, restarts>>

Nobody == [nobody |-> TRUE]
NoTitle == [none |-> TRUE]

ASSUME TitleAssumption == NoTitle \notin Titles

NoEdit == [none |-> TRUE]
Free == [stage |-> "free"]
SignedOut == [user |-> Nobody, token |-> 0]

Init ==
    /\ grants \in [Known -> GrantSets]
    /\ owner = << >> /\ live = {} /\ cookie = 0 /\ restarts = 0
    /\ tab = [t \in Tabs |-> [status |-> "closed", user |-> Nobody, token |-> 0]]
    /\ editing = [t \in Tabs |-> NoEdit]
    /\ wire = [s \in Slots |-> Free]
    /\ registry = [n \in Names |-> NoTitle]
    /\ actionLog = {}
---------------------------------------------------------------------------
(* Roles.  hasGlobalRole("operator") and canEditService are the same on    *)
(* both sides; the front end offers what canDo allows, and the console     *)
(* refuses what authorize does not.                                        *)
IsOperator(G) == \E g \in G : g.service = AnyService /\ g.role \in {"operator", "admin"}

CanEditService(G, n) ==
    IsOperator(G) \/ [role |-> "service-editor", service |-> n] \in G

CanDo(G, op, n) == IF op = "edit" THEN CanEditService(G, n) ELSE IsOperator(G)

Authorize(G, op, n) ==
    IF op = "edit" THEN CanEditService(G, n)
    ELSE IsOperator(G) \/ (EditorsCreate /\ CanEditService(G, n))
---------------------------------------------------------------------------
(* The front end.  fetch sends the browser's cookie, and the tab's token   *)
(* with a write; a request keeps here what its handler looks at.           *)
Send(r) == \E s \in Slots : wire[s] = Free /\ wire' = [wire EXCEPT ![s] = r]

(* A new tab asks who is signed in. *)
Open(t) ==
    /\ tab[t].status = "closed"
    /\ tab' = [tab EXCEPT ![t].status = "loading"]
    /\ Send([stage |-> "sent", kind |-> "session", tab |-> t, cookie |-> cookie])
    /\ UNCHANGED <<grants, owner, live, cookie, editing, backend, restarts>>

Login(t, u) ==
    /\ tab[t].status = "ready" /\ tab[t].user = Nobody
    /\ Send([stage |-> "sent", kind |-> "login", tab |-> t, user |-> u])
    /\ UNCHANGED <<grants, owner, live, browser, backend, restarts>>

Logout(t) ==
    /\ tab[t].status = "ready" /\ tab[t].user # Nobody
    /\ Send([stage |-> "sent", kind |-> "logout", tab |-> t, cookie |-> cookie])
    /\ UNCHANGED <<grants, owner, live, browser, backend, restarts>>

(* Edit of a listed service.  The role is asked for here and not at Save:  *)
(* the panel stays while the page does, even when another person signs in. *)
Edit(t, n) ==
    /\ tab[t].status = "ready" /\ tab[t].user # Nobody
    /\ registry[n] # NoTitle /\ CanDo(grants[tab[t].user], "edit", n)
    /\ editing' = [editing EXCEPT ![t] = n]
    /\ UNCHANGED <<grants, owner, live, cookie, tab, wire, backend, restarts>>

(* Cancel, another page, or the answer of an earlier write. *)
Cancel(t) ==
    /\ editing[t] # NoEdit
    /\ editing' = [editing EXCEPT ![t] = NoEdit]
    /\ UNCHANGED <<grants, owner, live, cookie, tab, wire, backend, restarts>>

(* Register, or Save while the edit panel is open.  as is history: whom    *)
(* the tab shows.                                                          *)
Write(t, n, title, op) ==
    [stage |-> "sent", kind |-> "service", cookie |-> cookie, token |-> tab[t].token,
     body |-> [op |-> op, name |-> n, title |-> title], as |-> tab[t].user]

Submit(t, n, title) ==
    /\ tab[t].status = "ready" /\ tab[t].user # Nobody
    /\ \/ /\ editing[t] = NoEdit /\ CanDo(grants[tab[t].user], "create", n)
          /\ Send(Write(t, n, title, "create"))
       \/ editing[t] = n /\ Send(Write(t, n, title, "edit"))
    /\ UNCHANGED <<grants, owner, live, browser, backend, restarts>>
---------------------------------------------------------------------------
(* The console.  Only answers that the session context of a tab applies    *)
(* travel on: the payload of a session, or SignedOut.                      *)
Payload(i) == [user |-> owner[i], token |-> i]

Reply(s, stage, payload) ==
    wire' = [wire EXCEPT ![s] = [stage |-> stage, tab |-> @.tab, payload |-> payload]]

(* Faults, never part of Spec, each before the definition it would spoil:  *)
(* a failed load that leaves no session value, and further down a gate     *)
(* without the token and a log written whatever the answer is.             *)
AppliesNull(r) ==
    IF r.kind = "session" THEN [stage |-> "body", tab |-> r.tab, payload |-> Nobody] ELSE Free

(* A request that failed.  The load of a tab falls back to SignedOut; a    *)
(* failed sign-in or sign-out changes nothing.                             *)
Failed(r) ==
    IF r.kind = "session"
    THEN [stage |-> "body", tab |-> r.tab, payload |-> SignedOut]
    ELSE Free

Fail(s) == wire' = [wire EXCEPT ![s] = Failed(@)]

Received(s, kind) == wire[s].stage = "sent" /\ wire[s].kind = kind

GetSession(s) ==
    /\ Received(s, "session")
    /\ IF wire[s].cookie \in live THEN Reply(s, "body", Payload(wire[s].cookie)) ELSE Fail(s)
    /\ UNCHANGED <<grants, owner, live, browser, backend, restarts>>

(* A session that the browser already has stays in the store. *)
DevLogin(s) ==
    LET new == Len(owner) + 1 IN
    /\ Received(s, "login")
    /\ IF wire[s].user \in Known
       THEN /\ Len(owner) < MaxSessions
            /\ owner' = Append(owner, wire[s].user)
            /\ live' = live \cup {new}
            /\ Reply(s, "headers", [user |-> wire[s].user, token |-> new])
       ELSE Fail(s) /\ UNCHANGED <<owner, live>>
    /\ UNCHANGED <<grants, browser, backend, restarts>>

(* Ends the cookie's session, which need not be the one the tab shows. *)
EndSession(s) ==
    /\ Received(s, "logout")
    /\ live' = live \ {wire[s].cookie}
    /\ Reply(s, "headers", SignedOut)
    /\ UNCHANGED <<grants, owner, browser, backend, restarts>>

AuthOnly(r) == r.cookie \in live

(* requireAuth and requireCsrf. *)
PassesGate(r) == r.cookie \in live /\ r.token = r.cookie

(* A create or edit up to its call: from here the handler has its person. *)
Admit(s) ==
    LET r == wire[s]
        who == owner[r.cookie]
    IN /\ Received(s, "service")
       /\ IF PassesGate(r) /\ Authorize(grants[who], r.body.op, r.body.name)
          THEN wire' = [wire EXCEPT ![s] =
                  [stage |-> "calling", body |-> r.body, as |-> r.as, actor |-> who]]
          ELSE Fail(s)
       /\ UNCHANGED <<grants, owner, live, browser, backend, restarts>>

(* ServiceRepository.register: a plain INSERT; a taken name is refused. *)
Inserted(row, title) == IF row = NoTitle THEN title ELSE row

LoggedUnasked(s) ==
    LET b == wire[s].body IN
    /\ wire[s].stage = "calling"
    /\ registry' = [registry EXCEPT ![b.name] = Inserted(@, b.title)]
    /\ actionLog' = actionLog \cup
          {[actor |-> wire[s].actor, as |-> wire[s].as, entry |-> b]}
    /\ wire' = [wire EXCEPT ![s] = Free]
    /\ UNCHANGED <<grants, owner, live, browser, restarts>>

(* RegisterService, for a create and for an edit, and the log entry unless *)
(* the answer is an error or is lost.                                      *)
RegisterService(s) ==
    LET b == wire[s].body IN
    /\ wire[s].stage = "calling"
    /\ registry' = [registry EXCEPT ![b.name] = Inserted(@, b.title)]
    /\ \/ UNCHANGED actionLog
       \/ /\ registry[b.name] = NoTitle
          /\ actionLog' = actionLog \cup
                {[actor |-> wire[s].actor, as |-> wire[s].as, entry |-> b]}
    /\ wire' = [wire EXCEPT ![s] = Free]
    /\ UNCHANGED <<grants, owner, live, browser, restarts>>

(* Sessions, the log and the requests inside go with the process. *)
Restart ==
    /\ restarts < MaxRestarts
    /\ restarts' = restarts + 1
    /\ live' = {} /\ actionLog' = {}
    /\ wire' = [s \in Slots |->
          CASE wire[s].stage = "sent" -> Failed(wire[s])
            [] wire[s].stage = "calling" -> Free
            [] OTHER -> wire[s]]
    /\ UNCHANGED <<grants, owner, browser, registry>>
---------------------------------------------------------------------------
(* The network, and the tab again. *)
Lose(s) ==
    /\ \/ wire[s].stage = "sent" /\ Fail(s)
       \/ wire[s].stage \in {"calling", "headers"} /\ wire' = [wire EXCEPT ![s] = Free]
    /\ UNCHANGED <<grants, owner, live, browser, backend, restarts>>

(* Set-Cookie of a sign-in, or the cleared cookie of a sign-out. *)
Arrive(s) ==
    /\ wire[s].stage = "headers"
    /\ cookie' = wire[s].payload.token
    /\ wire' = [wire EXCEPT ![s].stage = "body"]
    /\ UNCHANGED <<grants, owner, live, tab, editing, backend, restarts>>

(* apply: the person and the token change together; the pages go with the  *)
(* last person, and stay when one person replaces another.  (setCsrf acts  *)
(* at once and setSession with the next render: a click in between is not  *)
(* modelled.)                                                              *)
Apply(s) ==
    LET p == wire[s].payload IN
    /\ wire[s].stage = "body"
    /\ tab' = [tab EXCEPT ![wire[s].tab] =
                   [status |-> "ready", user |-> p.user, token |-> p.token]]
    /\ editing' = [editing EXCEPT ![wire[s].tab] = IF p.user = Nobody THEN NoEdit ELSE @]
    /\ wire' = [wire EXCEPT ![s] = Free]
    /\ UNCHANGED <<grants, owner, live, cookie, backend, restarts>>

Handle(s) == GetSession(s) \/ DevLogin(s) \/ EndSession(s) \/ Admit(s) \/ RegisterService(s)

Use(t) ==
    \/ Open(t) \/ Logout(t) \/ Cancel(t)
    \/ \E u \in Users : Login(t, u)
    \/ \E n \in Names : Edit(t, n) \/ \E title \in Titles : Submit(t, n, title)

Next ==
    \/ \E t \in Tabs : Use(t)
    \/ \E s \in Slots : Handle(s) \/ Lose(s) \/ Arrive(s) \/ Apply(s)
    \/ Restart

Spec == Init /\ [][Next]_vars
---------------------------------------------------------------------------
Service == [op : {"create", "edit"}, name : Names, title : Titles]
People == Known \cup {Nobody}

Messages ==
    [stage : {"sent"}, kind : {"session", "logout"}, tab : Tabs, cookie : Nat]
    \cup [stage : {"sent"}, kind : {"login"}, tab : Tabs, user : Users]
    \cup [stage : {"sent"}, kind : {"service"}, cookie : Nat, token : Nat,
          body : Service, as : Known]
    \cup [stage : {"calling"}, body : Service, as : Known, actor : Known]
    \cup [stage : {"headers", "body"}, tab : Tabs, payload : [user : People, token : Nat]]

TypeOK ==
    /\ grants \in [Known -> GrantSets]
    /\ owner \in Seq(Known) /\ Len(owner) <= MaxSessions
    /\ live \subseteq 1 .. Len(owner) /\ cookie \in Nat
    /\ tab \in [Tabs -> [status : {"closed", "loading", "ready"}, user : People, token : Nat]]
    /\ editing \in [Tabs -> {NoEdit} \cup Names]
    /\ wire \in [Slots -> {Free} \cup Messages]
    /\ registry \in [Names -> Titles \cup {NoTitle}]
    /\ actionLog \subseteq [actor : Known, as : Known, entry : Service]
    /\ restarts \in 0 .. MaxRestarts

(* What the console lets through, does and logs in someone's name was sent *)
(* from a tab that showed this very person, whoever else has signed in or  *)
(* out in another tab meanwhile and in whatever order answers came in.     *)
ActsAsShown ==
    /\ \A s \in Slots : Received(s, "service") /\ PassesGate(wire[s]) =>
          owner[wire[s].cookie] = wire[s].as
    /\ \A s \in Slots : wire[s].stage = "calling" => wire[s].actor = wire[s].as
    /\ \A e \in actionLog : e.actor = e.as

(* An edit that reaches quotamgmt takes effect: services.ts:95 has the PUT *)
(* route "edit display_name/owner (RegisterService upsert)".               *)
EditTakesEffect ==
    [][\A s \in Slots : RegisterService(s) /\ wire[s].body.op = "edit" =>
          registry'[wire[s].body.name] = wire[s].body.title]_vars

(* What happens instead: a registered service keeps its display name and   *)
(* owner for ever, since RegisterService inserts and never updates.        *)
RegistrationIsFinal ==
    [][\A n \in Names : registry[n] # NoTitle => registry'[n] = registry[n]]_vars

(* The action log and the registry agree: what an entry says was           *)
(* registered is what quotamgmt has, the person it names was allowed to    *)
(* register it, and no other entry claims the same service, whoever        *)
(* registers it at the same time and whatever answers are lost.  (One      *)
(* entry to a service, because quotamgmt refuses every edit of it.)        *)
RegistryLogIsTrue ==
    \A e \in actionLog :
       /\ registry[e.entry.name] = e.entry.title
       /\ Authorize(grants[e.actor], e.entry.op, e.entry.name)
       /\ \A f \in actionLog : f.entry.name = e.entry.name => f = e

(* Its strengthening: a call to quotamgmt is within the grants of the      *)
(* person it is made for.                                                  *)
CallsAreAllowed ==
    \A s \in Slots : wire[s].stage = "calling" =>
       Authorize(grants[wire[s].actor], wire[s].body.op, wire[s].body.name)

(* What makes the other properties inductive: whom a tab or an answer      *)
(* shows is the person of the session whose token it has, and a write on   *)
(* its way carries both.                                                   *)
Tied(p, o) == p.user # Nobody => p.token \in 1 .. Len(o) /\ o[p.token] = p.user

MessageIsTied(r, o) ==
    /\ r.stage \in {"headers", "body"} => Tied(r.payload, o)
    /\ r.stage = "sent" /\ r.kind = "service" =>
          r.token \in 1 .. Len(o) /\ o[r.token] = r.as

ShownIsTied ==
    /\ \A t \in Tabs : Tied(tab[t], owner)
    /\ \A s \in Slots : MessageIsTied(wire[s], owner)
=============================================================================
