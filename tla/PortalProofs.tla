---------------------------- MODULE PortalProofs ----------------------------
(* Portal's properties, for any number of tabs, requests, sign-ins and     *)
(* people, whatever they are granted.                                      *)
EXTENDS Portal, TLAPS

LEMMA PortalTypeInit == Init => TypeOK
  BY PortalBounds DEF Init, TypeOK, People

LEMMA FailedTyped ==
  ASSUME NEW r \in Messages, r.stage = "sent"
  PROVE  Failed(r) \in {Free} \cup Messages
  BY Zenon DEF Failed, Messages, Free, SignedOut, People

LEMMA MessageFields ==
  ASSUME TypeOK, NEW s \in Slots
  PROVE  /\ wire[s] \in {Free} \cup Messages
         /\ wire[s].stage # "free" => wire[s] \in Messages
         /\ \A k \in {"session", "logout"} : Received(s, k) =>
               wire[s] \in [stage : {"sent"}, kind : {"session", "logout"}, tab : Tabs, cookie : Nat]
         /\ Received(s, "login") =>
               wire[s] \in [stage : {"sent"}, kind : {"login"}, tab : Tabs, user : Users]
         /\ Received(s, "service") =>
               wire[s] \in [stage : {"sent"}, kind : {"service"}, cookie : Nat, token : Nat,
                            body : Service, as : Known]
         /\ wire[s].stage = "calling" =>
               wire[s] \in [stage : {"calling"}, body : Service, as : Known, actor : Known]
         /\ wire[s].stage \in {"headers", "body"} =>
               wire[s] \in [stage : {"headers", "body"}, tab : Tabs,
                            payload : [user : People, token : Nat]]
  BY DEF TypeOK, Messages, Free, Received

(* Storing a message of the right form in a slot. *)
LEMMA StoreTyped ==
  ASSUME TypeOK, NEW s \in Slots, NEW r \in {Free} \cup Messages,
         wire' = [wire EXCEPT ![s] = r]
  PROVE  wire' \in [Slots -> {Free} \cup Messages]
  BY Zenon DEF TypeOK

LEMMA FailTyped ==
  ASSUME TypeOK, NEW s \in Slots, wire[s].stage = "sent", Fail(s)
  PROVE  wire' \in [Slots -> {Free} \cup Messages]
<1>1. wire[s] \in Messages
  BY MessageFields
<1>2. wire' = [wire EXCEPT ![s] = Failed(wire[s])]
  BY Zenon DEF Fail
<1> QED BY <1>1, <1>2, FailedTyped, StoreTyped, Zenon

(* What a click on Register or Save sends. *)
LEMMA SubmitSends ==
  ASSUME NEW t \in Tabs, NEW n \in Names, NEW title \in Titles, Submit(t, n, title)
  PROVE  \E op \in {"create", "edit"}, s \in Slots :
            wire' = [wire EXCEPT ![s] = Write(t, n, title, op)]
  BY Zenon DEF Submit, Send

LEMMA UseTyped ==
  ASSUME TypeOK, NEW t \in Tabs, Use(t)
  PROVE  TypeOK'
<1>1. CASE Open(t)
  <2> DEFINE r == [stage |-> "sent", kind |-> "session", tab |-> t, cookie |-> cookie]
  <2>1. r \in Messages
    BY DEF TypeOK, Messages
  <2>2. PICK s \in Slots : wire' = [wire EXCEPT ![s] = r]
    BY <1>1, Zenon DEF Open, Send
  <2> HIDE DEF r
  <2>3. wire' \in [Slots -> {Free} \cup Messages]
    BY <2>1, <2>2, StoreTyped, Zenon
  <2> QED BY <1>1, <2>3 DEF Open, TypeOK, backend
<1>2. ASSUME NEW u \in Users, Login(t, u) PROVE TypeOK'
  <2> DEFINE r == [stage |-> "sent", kind |-> "login", tab |-> t, user |-> u]
  <2>1. r \in Messages
    BY DEF Messages
  <2>2. PICK s \in Slots : wire' = [wire EXCEPT ![s] = r]
    BY <1>2, Zenon DEF Login, Send
  <2> HIDE DEF r
  <2>3. wire' \in [Slots -> {Free} \cup Messages]
    BY <2>1, <2>2, StoreTyped, Zenon
  <2> QED BY <1>2, <2>3 DEF Login, TypeOK, backend, browser
<1>3. CASE Logout(t)
  <2> DEFINE r == [stage |-> "sent", kind |-> "logout", tab |-> t, cookie |-> cookie]
  <2>1. r \in Messages
    BY DEF TypeOK, Messages
  <2>2. PICK s \in Slots : wire' = [wire EXCEPT ![s] = r]
    BY <1>3, Zenon DEF Logout, Send
  <2> HIDE DEF r
  <2>3. wire' \in [Slots -> {Free} \cup Messages]
    BY <2>1, <2>2, StoreTyped, Zenon
  <2> QED BY <1>3, <2>3 DEF Logout, TypeOK, backend, browser
<1>4. ASSUME NEW n \in Names, NEW title \in Titles, Submit(t, n, title)
      PROVE  TypeOK'
  <2>1. tab[t].user \in Known /\ tab[t].token \in Nat
    BY <1>4 DEF Submit, TypeOK, People
  <2>2. PICK op \in {"create", "edit"}, s \in Slots :
           wire' = [wire EXCEPT ![s] = Write(t, n, title, op)]
    BY <1>4, SubmitSends
  <2>3. Write(t, n, title, op) \in Messages
    BY <2>1 DEF Write, TypeOK, Messages, Service
  <2>4. wire' \in [Slots -> {Free} \cup Messages]
    BY <2>2, <2>3, StoreTyped, Zenon
  <2> QED BY <1>4, <2>4 DEF Submit, TypeOK, backend, browser
<1>5. ASSUME NEW n \in Names, Edit(t, n) PROVE TypeOK'
  <2>1. editing' \in [Tabs -> {NoEdit} \cup Names]
    BY <1>5 DEF Edit, TypeOK
  <2> QED BY <1>5, <2>1 DEF Edit, TypeOK, backend
<1>6. CASE Cancel(t)
  <2>1. editing' \in [Tabs -> {NoEdit} \cup Names]
    BY <1>6 DEF Cancel, TypeOK
  <2> QED BY <1>6, <2>1 DEF Cancel, TypeOK, backend
<1> QED BY <1>1, <1>2, <1>3, <1>4, <1>5, <1>6 DEF Use

LEMMA ReplyTyped ==
  ASSUME TypeOK, NEW s \in Slots, wire[s].tab \in Tabs,
         NEW stage \in {"headers", "body"}, NEW p \in [user : People, token : Nat],
         Reply(s, stage, p)
  PROVE  wire' \in [Slots -> {Free} \cup Messages]
<1> DEFINE r == [stage |-> stage, tab |-> wire[s].tab, payload |-> p]
<1>1. r \in Messages
  BY DEF Messages
<1>2. wire' = [wire EXCEPT ![s] = r]
  BY Zenon DEF Reply
<1> HIDE DEF r
<1> QED BY <1>1, <1>2, StoreTyped, Zenon

LEMMA SessionTyped ==
  ASSUME TypeOK, NEW i \in live
  PROVE  /\ i \in 1 .. Len(owner) /\ owner[i] \in Known
         /\ Payload(i) \in [user : People, token : Nat]
  BY DEF TypeOK, Payload, People

LEMMA HandleTyped ==
  ASSUME TypeOK, NEW s \in Slots, Handle(s)
  PROVE  TypeOK'
<1>1. CASE GetSession(s)
  <2>1. wire[s].tab \in Tabs /\ wire[s].stage = "sent"
    BY <1>1, MessageFields DEF GetSession, Received
  <2>2. wire' \in [Slots -> {Free} \cup Messages]
    <3>1. CASE wire[s].cookie \in live
      BY <1>1, <2>1, <3>1, SessionTyped, ReplyTyped, Zenon DEF GetSession
    <3>2. CASE wire[s].cookie \notin live
      BY <1>1, <2>1, <3>2, FailTyped, Zenon DEF GetSession
    <3> QED BY <3>1, <3>2
  <2> QED BY <1>1, <2>2 DEF GetSession, TypeOK, backend, browser
<1>2. CASE DevLogin(s)
  <2>1. wire[s].tab \in Tabs /\ wire[s].stage = "sent"
    BY <1>2, MessageFields DEF DevLogin, Received
  <2>2. CASE wire[s].user \in Known
    <3> DEFINE new == Len(owner) + 1
               p == [user |-> wire[s].user, token |-> new]
    <3>1. /\ Len(owner) < MaxSessions /\ owner' = Append(owner, wire[s].user)
          /\ live' = live \cup {new} /\ Reply(s, "headers", p)
          /\ UNCHANGED <<grants, cookie, tab, editing, registry, actionLog, restarts>>
      BY <1>2, <2>2, Zenon DEF DevLogin, backend, browser
    <3>2. p \in [user : People, token : Nat]
      BY <2>2 DEF TypeOK, People
    <3> HIDE DEF p
    <3>3. wire' \in [Slots -> {Free} \cup Messages]
      BY <2>1, <3>1, <3>2, ReplyTyped, Zenon
    <3>4. /\ owner' \in Seq(Known) /\ Len(owner') = Len(owner) + 1 /\ Len(owner) \in Nat
      BY <2>2, <3>1 DEF TypeOK
    <3>5. /\ Len(owner') <= MaxSessions
          /\ live' \subseteq 1 .. Len(owner')
      <4>1. Len(owner) < MaxSessions /\ live' = live \cup {Len(owner) + 1}
        BY <3>1
      <4>2. live \subseteq 1 .. Len(owner)
        BY DEF TypeOK
      <4>3. Len(owner') <= MaxSessions
        BY <3>4, <4>1, <4>2, PortalBounds
      <4>4. ASSUME NEW i \in live' PROVE i \in 1 .. Len(owner')
        BY <3>4, <4>1, <4>2
      <4> QED BY <4>3, <4>4
    <3> QED BY <3>1, <3>3, <3>4, <3>5, Zenon DEF TypeOK
  <2>3. CASE wire[s].user \notin Known
    <3>1. Fail(s) /\ UNCHANGED <<owner, live, grants, cookie, tab, editing, registry, actionLog,
                             restarts>>
      BY <1>2, <2>3, Zenon DEF DevLogin, backend, browser
    <3> QED BY <2>1, <3>1, FailTyped DEF TypeOK
  <2> QED BY <2>2, <2>3
<1>3. CASE EndSession(s)
  <2>1. wire[s].tab \in Tabs
    BY <1>3, MessageFields DEF EndSession
  <2>2. SignedOut \in [user : People, token : Nat]
    BY DEF SignedOut, People
  <2>3. wire' \in [Slots -> {Free} \cup Messages]
    BY <1>3, <2>1, <2>2, ReplyTyped, Zenon DEF EndSession
  <2> QED BY <1>3, <2>3 DEF EndSession, TypeOK, backend, browser
<1>4. CASE Admit(s)
  <2> DEFINE r == wire[s]
             c == [stage |-> "calling", body |-> r.body, as |-> r.as, actor |-> owner[r.cookie]]
  <2>1. r.body \in Service /\ r.as \in Known /\ r.stage = "sent"
    BY <1>4, MessageFields DEF Admit, Received
  <2>2. wire' \in [Slots -> {Free} \cup Messages]
    <3>1. CASE PassesGate(r) /\ Authorize(grants[owner[r.cookie]], r.body.op, r.body.name)
      <4>1. owner[r.cookie] \in Known
        BY <3>1, SessionTyped, Zenon DEF PassesGate
      <4>2. c \in Messages
        BY <2>1, <4>1 DEF Messages
      <4>3. wire' = [wire EXCEPT ![s] = c]
        BY <1>4, <3>1, Zenon DEF Admit
      <4> HIDE DEF c
      <4> QED BY <4>2, <4>3, StoreTyped, Zenon
    <3>2. CASE ~(PassesGate(r) /\ Authorize(grants[owner[r.cookie]], r.body.op, r.body.name))
      BY <1>4, <2>1, <3>2, FailTyped, Zenon DEF Admit
    <3> QED BY <3>1, <3>2, Zenon
  <2> HIDE DEF r, c
  <2> QED BY <1>4, <2>2 DEF Admit, TypeOK, backend, browser
<1>5. CASE RegisterService(s)
  <2> DEFINE b == wire[s].body
             e == [actor |-> wire[s].actor, as |-> wire[s].as, entry |-> b]
  <2>1. b \in Service /\ e \in [actor : Known, as : Known, entry : Service]
    BY <1>5, MessageFields DEF RegisterService
  <2>2. wire' \in [Slots -> {Free} \cup Messages]
    BY <1>5, StoreTyped, Zenon DEF RegisterService
  <2>3. registry' \in [Names -> Titles \cup {NoTitle}]
    <3>1. b.title \in Titles /\ b.name \in Names
      BY <2>1 DEF Service
    <3>2. registry' = [registry EXCEPT ![b.name] = Inserted(registry[b.name], b.title)]
      BY <1>5, Zenon DEF RegisterService
    <3> HIDE DEF b
    <3> QED BY <3>1, <3>2 DEF TypeOK, Inserted
  <2>4. actionLog' \subseteq [actor : Known, as : Known, entry : Service]
    <3>1. actionLog' = actionLog \/ actionLog' = actionLog \cup {e}
      BY <1>5, Zenon DEF RegisterService
    <3> HIDE DEF e
    <3> QED BY <2>1, <3>1 DEF TypeOK
  <2> HIDE DEF b, e
  <2> QED BY <1>5, <2>2, <2>3, <2>4 DEF RegisterService, TypeOK, browser
<1> QED BY <1>1, <1>2, <1>3, <1>4, <1>5 DEF Handle

LEMMA PortalTypeStep == TypeOK /\ [Next]_vars => TypeOK'
<1> SUFFICES ASSUME TypeOK, [Next]_vars PROVE TypeOK'
  OBVIOUS
<1>1. CASE UNCHANGED vars
  BY <1>1 DEF TypeOK, vars
<1>2. ASSUME NEW s \in Slots, Lose(s) PROVE TypeOK'
  <2>1. wire' \in [Slots -> {Free} \cup Messages]
    BY <1>2, FailTyped, StoreTyped, Zenon DEF Lose
  <2> QED BY <1>2, <2>1 DEF Lose, TypeOK, backend, browser
<1>3. ASSUME NEW s \in Slots, Arrive(s) PROVE TypeOK'
  <2> DEFINE r == [stage |-> "body", tab |-> wire[s].tab, payload |-> wire[s].payload]
  <2>1. wire[s] \in [stage : {"headers", "body"}, tab : Tabs, payload : [user : People, token : Nat]]
    BY <1>3, MessageFields DEF Arrive
  <2>2. r \in Messages /\ wire[s].payload.token \in Nat
    BY <2>1 DEF Messages
  <2>3. wire' = [wire EXCEPT ![s] = r]
    <3>1. [wire[s] EXCEPT !.stage = "body"] = r
      BY <2>1
    <3>2. wire' = [wire EXCEPT ![s] = [wire[s] EXCEPT !.stage = "body"]]
      BY <1>3 DEF Arrive
    <3> QED BY <3>1, <3>2, Zenon
  <2> HIDE DEF r
  <2>4. wire' \in [Slots -> {Free} \cup Messages]
    BY <2>2, <2>3, StoreTyped, Zenon
  <2> QED BY <1>3, <2>2, <2>4 DEF Arrive, TypeOK, backend
<1>4. ASSUME NEW s \in Slots, Apply(s) PROVE TypeOK'
  <2>1. wire' \in [Slots -> {Free} \cup Messages]
    BY <1>4, StoreTyped, Zenon DEF Apply
  <2>2. wire[s].tab \in Tabs /\ wire[s].payload \in [user : People, token : Nat]
    BY <1>4, MessageFields DEF Apply
  <2>3. editing' \in [Tabs -> {NoEdit} \cup Names]
    BY <1>4, <2>2 DEF Apply, TypeOK
  <2> QED BY <1>4, <2>1, <2>2, <2>3 DEF Apply, TypeOK, backend
<1>5. CASE Restart
  <2>1. ASSUME NEW s \in Slots PROVE wire'[s] \in {Free} \cup Messages
    <3>1. /\ wire[s].stage = "sent" => wire'[s] = Failed(wire[s])
          /\ wire[s].stage = "calling" => wire'[s] = Free
          /\ wire[s].stage \notin {"sent", "calling"} => wire'[s] = wire[s]
      BY <1>5 DEF Restart
    <3>2. wire[s].stage = "sent" => Failed(wire[s]) \in {Free} \cup Messages
      BY MessageFields, FailedTyped
    <3> QED BY <3>1, <3>2, MessageFields
  <2>2. DOMAIN wire' = Slots /\ wire' = [s \in Slots |-> wire'[s]]
    BY <1>5, Zenon DEF Restart
  <2>3. wire' \in [Slots -> {Free} \cup Messages]
    BY <2>1, <2>2, Zenon
  <2> QED BY <1>5, <2>3, PortalBounds DEF Restart, TypeOK, browser
<1> QED BY <1>1, <1>2, <1>3, <1>4, <1>5, UseTyped, HandleTyped DEF Next

(* Sessions, tabs, requests, the registry and the log stay well formed. *)
THEOREM PortalTypeCorrect == Spec => []TypeOK
<1> QED BY PortalTypeInit, PortalTypeStep, PTL DEF Spec

(* Only RegisterService changes the registry, and it only fills a gap. *)
LEMMA RegistryStep ==
  ASSUME TypeOK, [Next]_vars, NEW n \in Names, registry[n] # NoTitle
  PROVE  registry'[n] = registry[n]
<1>1. ASSUME NEW s \in Slots, RegisterService(s) PROVE registry'[n] = registry[n]
  BY <1>1 DEF RegisterService, Inserted, TypeOK
<1>2. CASE UNCHANGED registry
  BY <1>2
<1>3. CASE \E s \in Slots : RegisterService(s)
  BY <1>1, <1>3
<1> QED BY <1>2, <1>3, Zenon
     DEF Next, vars, Use, Open, Login, Logout, Edit, Cancel, Submit, Handle, GetSession, DevLogin,
         EndSession, Admit, Lose, Arrive, Apply, Restart, backend

(* How far the failing of EditTakesEffect goes: once a service is          *)
(* registered no step changes it, for ServiceRepository.register inserts   *)
(* and never updates, and an edit is refused like a second registration.   *)
THEOREM RegistrationsAreFinal == Spec => RegistrationIsFinal
<1>1. TypeOK /\ [Next]_vars
      => [\A n \in Names : registry[n] # NoTitle => registry'[n] = registry[n]]_vars
  BY RegistryStep
<1> QED BY <1>1, PortalTypeCorrect, PTL DEF Spec, RegistrationIsFinal
---------------------------------------------------------------------------
(* A further session does not change whose the earlier ones are. *)
LEMMA TiedStays ==
  ASSUME NEW o \in Seq(Known), NEW u \in Known, NEW q, q = o \/ q = Append(o, u)
  PROVE  /\ \A p : Tied(p, o) => Tied(p, q)
         /\ \A r : MessageIsTied(r, o) => MessageIsTied(r, q)
<1>1. Len(o) \in Nat /\ Len(q) >= Len(o) /\ Len(q) \in Nat
  OBVIOUS
<1>2. ASSUME NEW i \in 1 .. Len(o) PROVE i \in 1 .. Len(q) /\ q[i] = o[i]
  BY <1>1
<1>3. ASSUME NEW p, Tied(p, o) PROVE Tied(p, q)
  BY <1>2, <1>3, Zenon DEF Tied
<1> QED BY <1>2, <1>3, Zenon DEF MessageIsTied

LEMMA NothingShown ==
  ASSUME NEW r, NEW o
  PROVE  MessageIsTied(Failed(r), o) /\ MessageIsTied(Free, o)
  BY DEF MessageIsTied, Failed, Free, Tied, SignedOut

(* A step that changes one message at most. *)
LEMMA OneMessage ==
  ASSUME TypeOK, ShownIsTied, NEW s \in Slots, NEW r, NEW u \in Known,
         wire' = [wire EXCEPT ![s] = r], UNCHANGED tab,
         owner' = owner \/ owner' = Append(owner, u),
         MessageIsTied(r, owner')
  PROVE  ShownIsTied'
<1>1. owner \in Seq(Known)
  BY DEF TypeOK
<1>2. ASSUME NEW t \in Tabs PROVE Tied(tab'[t], owner')
  BY <1>1, TiedStays, Zenon DEF ShownIsTied
<1>3. ASSUME NEW x \in Slots PROVE MessageIsTied(wire'[x], owner')
  <2>1. MessageIsTied(wire[x], owner')
    BY <1>1, TiedStays, Zenon DEF ShownIsTied
  <2>2. wire'[x] = IF x = s THEN r ELSE wire[x]
    BY Zenon DEF TypeOK
  <2> QED BY <2>1, <2>2, Zenon
<1> QED BY <1>2, <1>3, Zenon DEF ShownIsTied

(* As above, without a new session. *)
LEMMA OneMessageOnly ==
  ASSUME TypeOK, ShownIsTied, NEW s \in Slots, NEW r,
         wire' = [wire EXCEPT ![s] = r], UNCHANGED <<tab, owner>>,
         MessageIsTied(r, owner)
  PROVE  ShownIsTied'
<1>1. ASSUME NEW x \in Slots PROVE MessageIsTied(wire'[x], owner)
  BY Zenon DEF TypeOK, ShownIsTied
<1> QED BY <1>1, Zenon DEF ShownIsTied

LEMMA TiedInit == Init => ShownIsTied
  BY DEF Init, ShownIsTied, Tied, MessageIsTied, Free

LEMMA TiedUse ==
  ASSUME TypeOK, ShownIsTied, NEW t \in Tabs, Use(t)
  PROVE  ShownIsTied'
<1>1. CASE Open(t)
  <2> DEFINE r == [stage |-> "sent", kind |-> "session", tab |-> t, cookie |-> cookie]
  <2>1. PICK s \in Slots : wire' = [wire EXCEPT ![s] = r]
    BY <1>1, Zenon DEF Open, Send
  <2>2. MessageIsTied(r, owner)
    BY DEF MessageIsTied
  <2> HIDE DEF r
  <2>3. ASSUME NEW x \in Slots PROVE MessageIsTied(wire'[x], owner)
    BY <2>1, <2>2, Zenon DEF TypeOK, ShownIsTied
  <2>4. ASSUME NEW x \in Tabs PROVE Tied(tab'[x], owner)
    <3>1. Tied(tab[x], owner) /\ tab'[x].user = tab[x].user /\ tab'[x].token = tab[x].token
      BY <1>1 DEF Open, TypeOK, ShownIsTied
    <3> QED BY <3>1, Zenon DEF Tied
  <2> QED BY <1>1, <2>3, <2>4, Zenon DEF Open, ShownIsTied
<1>2. ASSUME NEW u \in Users, Login(t, u) PROVE ShownIsTied'
  <2> DEFINE r == [stage |-> "sent", kind |-> "login", tab |-> t, user |-> u]
  <2>1. PICK s \in Slots : wire' = [wire EXCEPT ![s] = r]
    BY <1>2, Zenon DEF Login, Send
  <2>2. MessageIsTied(r, owner)
    BY DEF MessageIsTied
  <2>3. UNCHANGED <<tab, owner>>
    BY <1>2 DEF Login, browser
  <2> HIDE DEF r
  <2> QED BY <2>1, <2>2, <2>3, OneMessageOnly, Zenon
<1>3. CASE Logout(t)
  <2> DEFINE r == [stage |-> "sent", kind |-> "logout", tab |-> t, cookie |-> cookie]
  <2>1. PICK s \in Slots : wire' = [wire EXCEPT ![s] = r]
    BY <1>3, Zenon DEF Logout, Send
  <2>2. MessageIsTied(r, owner)
    BY DEF MessageIsTied
  <2>3. UNCHANGED <<tab, owner>>
    BY <1>3 DEF Logout, browser
  <2> HIDE DEF r
  <2> QED BY <2>1, <2>2, <2>3, OneMessageOnly, Zenon
<1>4. ASSUME NEW n \in Names, NEW title \in Titles, Submit(t, n, title)
      PROVE  ShownIsTied'
  <2>1. PICK op \in {"create", "edit"}, s \in Slots :
           wire' = [wire EXCEPT ![s] = Write(t, n, title, op)]
    BY <1>4, SubmitSends
  <2>2. tab[t].token \in 1 .. Len(owner) /\ owner[tab[t].token] = tab[t].user
    BY <1>4, Zenon DEF Submit, ShownIsTied, Tied
  <2>3. MessageIsTied(Write(t, n, title, op), owner)
    BY <2>2 DEF MessageIsTied, Write
  <2>4. UNCHANGED <<tab, owner>>
    BY <1>4 DEF Submit, browser
  <2> QED BY <2>1, <2>3, <2>4, OneMessageOnly, Zenon
<1>5. CASE Cancel(t) \/ \E n \in Names : Edit(t, n)
  <2>1. UNCHANGED <<tab, wire, owner>>
    BY <1>5, Zenon DEF Cancel, Edit
  <2> QED BY <2>1, Zenon DEF ShownIsTied
<1> QED BY <1>1, <1>2, <1>3, <1>4, <1>5 DEF Use

LEMMA TiedFail ==
  ASSUME TypeOK, ShownIsTied, NEW s \in Slots, Fail(s), UNCHANGED <<tab, owner>>
  PROVE  ShownIsTied'
<1>1. wire' = [wire EXCEPT ![s] = Failed(wire[s])]
  BY Zenon DEF Fail
<1> QED BY <1>1, NothingShown, OneMessageOnly, Zenon

LEMMA TiedHandle ==
  ASSUME TypeOK, ShownIsTied, NEW s \in Slots, Handle(s)
  PROVE  ShownIsTied'
<1>1. CASE GetSession(s)
  <2>1. UNCHANGED <<tab, owner>>
    BY <1>1 DEF GetSession, browser
  <2>2. CASE wire[s].cookie \in live
    <3> DEFINE r == [stage |-> "body", tab |-> wire[s].tab, payload |-> Payload(wire[s].cookie)]
    <3>1. wire' = [wire EXCEPT ![s] = r]
      BY <1>1, <2>2, Zenon DEF GetSession, Reply
    <3>2. Tied(Payload(wire[s].cookie), owner)
      BY <2>2, SessionTyped DEF Payload, Tied
    <3>3. MessageIsTied(r, owner)
      BY <3>2 DEF MessageIsTied
    <3> HIDE DEF r
    <3> QED BY <2>1, <3>1, <3>3, OneMessageOnly, Zenon
  <2>3. CASE wire[s].cookie \notin live
    BY <1>1, <2>1, <2>3, TiedFail, Zenon DEF GetSession
  <2> QED BY <2>2, <2>3
<1>2. CASE DevLogin(s)
  <2>1. UNCHANGED tab
    BY <1>2 DEF DevLogin, browser
  <2>2. CASE wire[s].user \in Known
    <3> DEFINE p == [user |-> wire[s].user, token |-> Len(owner) + 1]
               r == [stage |-> "headers", tab |-> wire[s].tab, payload |-> p]
    <3>1. wire' = [wire EXCEPT ![s] = r] /\ owner' = Append(owner, wire[s].user)
      BY <1>2, <2>2, Zenon DEF DevLogin, Reply
    <3>2. Tied(p, owner')
      BY <2>2, <3>1 DEF Tied, TypeOK
    <3> HIDE DEF p
    <3>3. MessageIsTied(r, owner')
      BY <3>2 DEF MessageIsTied
    <3> HIDE DEF r
    <3> QED BY <2>1, <2>2, <3>1, <3>3, OneMessage, Zenon
  <2>3. CASE wire[s].user \notin Known
    BY <1>2, <2>1, <2>3, TiedFail, Zenon DEF DevLogin
  <2> QED BY <2>2, <2>3
<1>3. CASE EndSession(s)
  <2> DEFINE r == [stage |-> "headers", tab |-> wire[s].tab, payload |-> SignedOut]
  <2>1. wire' = [wire EXCEPT ![s] = r] /\ UNCHANGED <<tab, owner>>
    BY <1>3, Zenon DEF EndSession, Reply, browser
  <2>2. MessageIsTied(r, owner)
    BY DEF MessageIsTied, SignedOut, Tied
  <2> HIDE DEF r
  <2> QED BY <2>1, <2>2, OneMessageOnly, Zenon
<1>4. CASE Admit(s)
  <2> DEFINE r == [stage |-> "calling", body |-> wire[s].body, as |-> wire[s].as,
                   actor |-> owner[wire[s].cookie]]
  <2>1. UNCHANGED <<tab, owner>>
    BY <1>4 DEF Admit, browser
  <2>2. MessageIsTied(r, owner)
    BY DEF MessageIsTied
  <2>3. wire' = [wire EXCEPT ![s] = r] \/ Fail(s)
    BY <1>4, Zenon DEF Admit
  <2> HIDE DEF r
  <2> QED BY <2>1, <2>2, <2>3, TiedFail, OneMessageOnly, Zenon
<1>5. CASE RegisterService(s)
  BY <1>5, NothingShown, OneMessageOnly, Zenon DEF RegisterService, browser
<1> QED BY <1>1, <1>2, <1>3, <1>4, <1>5 DEF Handle

LEMMA TiedStep == TypeOK /\ ShownIsTied /\ [Next]_vars => ShownIsTied'
<1> SUFFICES ASSUME TypeOK, ShownIsTied, [Next]_vars PROVE ShownIsTied'
  OBVIOUS
<1>1. CASE UNCHANGED vars
  BY <1>1, Zenon DEF ShownIsTied, vars
<1>2. ASSUME NEW s \in Slots, Lose(s) PROVE ShownIsTied'
  <2>1. UNCHANGED <<tab, owner>>
    BY <1>2 DEF Lose, browser
  <2>2. Fail(s) \/ wire' = [wire EXCEPT ![s] = Free]
    BY <1>2, Zenon DEF Lose
  <2> QED BY <2>1, <2>2, TiedFail, NothingShown, OneMessageOnly, Zenon
<1>3. ASSUME NEW s \in Slots, Arrive(s) PROVE ShownIsTied'
  <2> DEFINE r == [wire[s] EXCEPT !.stage = "body"]
  <2>1. wire' = [wire EXCEPT ![s] = r] /\ UNCHANGED <<tab, owner>>
    BY <1>3 DEF Arrive
  <2>2. wire[s] \in [stage : {"headers", "body"}, tab : Tabs, payload : [user : People, token : Nat]]
    BY <1>3, MessageFields DEF Arrive
  <2>3. r.stage = "body" /\ r.payload = wire[s].payload
    BY <2>2
  <2>4. Tied(wire[s].payload, owner)
    BY <1>3 DEF Arrive, ShownIsTied, MessageIsTied
  <2> HIDE DEF r
  <2>5. MessageIsTied(r, owner)
    BY <2>3, <2>4 DEF MessageIsTied
  <2> QED BY <2>1, <2>5, OneMessageOnly, Zenon
<1>4. ASSUME NEW s \in Slots, Apply(s) PROVE ShownIsTied'
  <2>1. Tied(wire[s].payload, owner)
    BY <1>4 DEF Apply, ShownIsTied, MessageIsTied
  <2>2. ASSUME NEW t \in Tabs PROVE Tied(tab'[t], owner)
    <3>1. \/ tab'[t] = tab[t]
          \/ /\ tab'[t].user = wire[s].payload.user
             /\ tab'[t].token = wire[s].payload.token
      BY <1>4 DEF Apply, TypeOK
    <3> QED BY <2>1, <3>1, Zenon DEF ShownIsTied, Tied
  <2>3. wire' = [wire EXCEPT ![s] = Free] /\ owner' = owner
    BY <1>4, Zenon DEF Apply
  <2>4. ASSUME NEW x \in Slots PROVE MessageIsTied(wire'[x], owner)
    BY <2>3, NothingShown, Zenon DEF TypeOK, ShownIsTied
  <2> QED BY <2>2, <2>3, <2>4, Zenon DEF ShownIsTied
<1>5. CASE Restart
  <2>1. UNCHANGED <<tab, owner>>
    BY <1>5 DEF Restart, browser
  <2>2. ASSUME NEW x \in Slots PROVE MessageIsTied(wire'[x], owner)
    <3>1. wire'[x] \in {Failed(wire[x]), Free, wire[x]}
      BY <1>5 DEF Restart
    <3> QED BY <3>1, NothingShown, Zenon DEF ShownIsTied
  <2> QED BY <2>1, <2>2, Zenon DEF ShownIsTied
<1> QED BY <1>1, <1>2, <1>3, <1>4, <1>5, TiedUse, TiedHandle DEF Next

(* A write that the gate lets through is of the person its tab showed. *)
LEMMA GateIsTied ==
  ASSUME ShownIsTied, NEW s \in Slots, Received(s, "service"), PassesGate(wire[s])
  PROVE  owner[wire[s].cookie] = wire[s].as
  BY Zenon DEF ShownIsTied, MessageIsTied, Received, PassesGate

(* Only Admit makes a call, and only RegisterService logs one. *)
LEMMA OnlyAdmitCalls ==
  ASSUME TypeOK, [Next]_vars, NEW s \in Slots
  PROVE  wire'[s] = wire[s] \/ Admit(s) \/ wire'[s].stage # "calling"
<1>1. ASSUME NEW x \in Slots, NEW r, wire' = [wire EXCEPT ![x] = r], r.stage # "calling"
      PROVE  wire'[s] = wire[s] \/ wire'[s].stage # "calling"
  BY <1>1, Zenon DEF TypeOK
<1>2. ASSUME NEW x \in Slots, Fail(x)
      PROVE  wire'[s] = wire[s] \/ wire'[s].stage # "calling"
  <2>1. Failed(wire[x]).stage # "calling"
    BY DEF Failed, Free
  <2> QED BY <1>1, <1>2, <2>1, Zenon DEF Fail
<1>3. Free.stage # "calling"
  BY DEF Free
<1>4. ASSUME NEW t \in Tabs, Use(t)
      PROVE  wire'[s] = wire[s] \/ wire'[s].stage # "calling"
  <2>1. ASSUME NEW r, Send(r), r.stage = "sent"
        PROVE  wire'[s] = wire[s] \/ wire'[s].stage # "calling"
    BY <1>1, <2>1 DEF Send
  <2>2. ASSUME NEW n \in Names, NEW title \in Titles, Submit(t, n, title)
        PROVE  wire'[s] = wire[s] \/ wire'[s].stage # "calling"
    <3>1. PICK op \in {"create", "edit"}, x \in Slots :
             wire' = [wire EXCEPT ![x] = Write(t, n, title, op)]
      BY <2>2, SubmitSends
    <3> DEFINE r == Write(t, n, title, op)
    <3>2. r.stage # "calling" /\ wire' = [wire EXCEPT ![x] = r]
      BY <3>1 DEF Write
    <3> HIDE DEF r
    <3> QED BY <1>1, <3>2, Zenon
  <2>3. CASE Open(t) \/ Logout(t) \/ \E u \in Users : Login(t, u)
    BY <2>1, <2>3 DEF Open, Login, Logout
  <2>4. CASE Cancel(t) \/ \E n \in Names : Edit(t, n)
    BY <2>4, Zenon DEF Edit, Cancel
  <2> QED BY <1>4, <2>2, <2>3, <2>4, Zenon DEF Use
<1>5. ASSUME NEW x \in Slots, Handle(x), ~Admit(x)
      PROVE  wire'[s] = wire[s] \/ wire'[s].stage # "calling"
  <2>1. ASSUME NEW stage \in {"headers", "body"}, NEW p, Reply(x, stage, p)
        PROVE  wire'[s] = wire[s] \/ wire'[s].stage # "calling"
    <3> DEFINE r == [stage |-> stage, tab |-> wire[x].tab, payload |-> p]
    <3>1. r.stage # "calling"
      BY <2>1
    <3>2. wire' = [wire EXCEPT ![x] = r]
      BY <2>1, Zenon DEF Reply
    <3> HIDE DEF r
    <3> QED BY <1>1, <3>1, <3>2, Zenon
  <2>2. CASE GetSession(x)
    BY <1>2, <2>1, <2>2, Zenon DEF GetSession
  <2>3. CASE DevLogin(x)
    BY <1>2, <2>1, <2>3, Zenon DEF DevLogin
  <2>4. CASE EndSession(x)
    BY <2>1, <2>4, Zenon DEF EndSession
  <2>5. CASE RegisterService(x)
    BY <1>1, <1>3, <2>5, Zenon DEF RegisterService
  <2> QED BY <1>5, <2>2, <2>3, <2>4, <2>5 DEF Handle
<1>6. ASSUME NEW x \in Slots, Admit(x), x # s PROVE wire'[s] = wire[s]
  BY <1>6, Zenon DEF Admit, Fail, TypeOK
<1>7. ASSUME NEW x \in Slots, Lose(x) \/ Arrive(x) \/ Apply(x)
      PROVE  wire'[s] = wire[s] \/ wire'[s].stage # "calling"
  <2>1. CASE Lose(x)
    BY <1>1, <1>2, <1>3, <2>1, Zenon DEF Lose
  <2>2. CASE Apply(x)
    BY <1>1, <1>3, <2>2, Zenon DEF Apply
  <2>3. CASE Arrive(x)
    <3>1. wire[x] \in [stage : {"headers", "body"}, tab : Tabs,
                        payload : [user : People, token : Nat]]
      BY <2>3, MessageFields DEF Arrive
    <3>2. wire' = [wire EXCEPT ![x] = [wire[x] EXCEPT !.stage = "body"]]
      BY <2>3 DEF Arrive
    <3>3. [wire[x] EXCEPT !.stage = "body"].stage # "calling"
      BY <3>1
    <3> QED BY <1>1, <3>2, <3>3, Zenon
  <2> QED BY <1>7, <2>1, <2>2, <2>3
<1>8. CASE Restart
  BY <1>8 DEF Restart, Failed, Free
<1>9. CASE UNCHANGED vars
  BY <1>9 DEF vars
<1> QED BY <1>4, <1>5, <1>6, <1>7, <1>8, <1>9, Zenon DEF Next

LEMMA OnlyCallsAreLogged ==
  ASSUME TypeOK, [Next]_vars, NEW e \in actionLog'
  PROVE  \/ e \in actionLog
         \/ \E s \in Slots : /\ wire[s].stage = "calling"
                            /\ e.actor = wire[s].actor /\ e.as = wire[s].as
<1>1. CASE \E s \in Slots : RegisterService(s)
  BY <1>1 DEF RegisterService
<1>2. CASE UNCHANGED actionLog
  BY <1>2
<1>3. CASE Restart
  BY <1>3 DEF Restart
<1> QED BY <1>1, <1>2, <1>3, Zenon
     DEF Next, vars, Use, Open, Login, Logout, Edit, Cancel, Submit, Handle, GetSession, DevLogin,
         EndSession, Admit, Lose, Arrive, Apply, backend

LEMMA ActsStep ==
  ASSUME TypeOK, ShownIsTied, ShownIsTied', ActsAsShown, [Next]_vars
  PROVE  ActsAsShown'
<1>1. ASSUME NEW s \in Slots, (Received(s, "service") /\ PassesGate(wire[s]))'
      PROVE  owner'[wire'[s].cookie] = wire'[s].as
  BY <1>1, Zenon DEF ShownIsTied, MessageIsTied, Received, PassesGate
<1>2. ASSUME NEW s \in Slots, wire'[s].stage = "calling"
      PROVE  wire'[s].actor = wire'[s].as
  <2>1. CASE wire'[s] = wire[s]
    BY <1>2, <2>1, Zenon DEF ActsAsShown
  <2>2. CASE Admit(s)
    <3> DEFINE r == [stage |-> "calling", body |-> wire[s].body, as |-> wire[s].as,
                     actor |-> owner[wire[s].cookie]]
    <3>1. CASE Fail(s)
      BY <1>2, <3>1 DEF Fail, TypeOK, Failed, Free
    <3>2. CASE PassesGate(wire[s]) /\ wire' = [wire EXCEPT ![s] = r]
      <4>1. r.actor = r.as
        BY <2>2, <3>2, GateIsTied DEF Admit
      <4> HIDE DEF r
      <4>2. wire'[s] = r
        BY <3>2, Zenon DEF TypeOK
      <4> QED BY <4>1, <4>2, Zenon
    <3> QED BY <2>2, <3>1, <3>2, Zenon DEF Admit
  <2> QED BY <1>2, <2>1, <2>2, OnlyAdmitCalls
<1>3. ASSUME NEW e \in actionLog' PROVE e.actor = e.as
  BY <1>3, OnlyCallsAreLogged DEF ActsAsShown
<1> QED BY <1>1, <1>2, <1>3 DEF ActsAsShown

(* Whatever tabs sign in and out, and however requests and answers cross,  *)
(* the console acts only for the person whom the sending tab showed.       *)
THEOREM ActionsAreShown == Spec => []ActsAsShown
<1>1. Init => ActsAsShown
  BY DEF Init, ActsAsShown, Received, Free
<1> QED BY <1>1, ActsStep, TiedInit, TiedStep, PortalTypeInit, PortalTypeStep, PTL DEF Spec
---------------------------------------------------------------------------
LEMMA GrantsStay == TypeOK /\ [Next]_vars => grants' = grants
  BY Zenon
     DEF Next, vars, Use, Open, Login, Logout, Edit, Cancel, Submit, Handle, GetSession, DevLogin,
         EndSession, Admit, RegisterService, Lose, Arrive, Apply, Restart

LEMMA AllowedStep ==
  ASSUME TypeOK, CallsAreAllowed, [Next]_vars
  PROVE  CallsAreAllowed'
<1>1. grants' = grants
  BY GrantsStay
<1>2. ASSUME NEW s \in Slots, wire'[s].stage = "calling"
      PROVE  Authorize(grants[wire'[s].actor], wire'[s].body.op, wire'[s].body.name)
  <2>1. CASE wire'[s] = wire[s]
    BY <1>2, <2>1, Zenon DEF CallsAreAllowed
  <2>2. CASE Admit(s)
    <3> DEFINE r == [stage |-> "calling", body |-> wire[s].body, as |-> wire[s].as,
                     actor |-> owner[wire[s].cookie]]
    <3>1. CASE Fail(s)
      BY <1>2, <3>1 DEF Fail, TypeOK, Failed, Free
    <3>2. CASE /\ Authorize(grants[owner[wire[s].cookie]], wire[s].body.op, wire[s].body.name)
               /\ wire' = [wire EXCEPT ![s] = r]
      <4>1. r.actor = owner[wire[s].cookie] /\ r.body = wire[s].body
        OBVIOUS
      <4> HIDE DEF r
      <4>2. wire'[s] = r
        BY <3>2, Zenon DEF TypeOK
      <4> QED BY <3>2, <4>1, <4>2, Zenon
    <3> QED BY <2>2, <3>1, <3>2, Zenon DEF Admit
  <2> QED BY <1>2, <2>1, <2>2, OnlyAdmitCalls
<1> QED BY <1>1, <1>2, Zenon DEF CallsAreAllowed, Authorize, CanEditService, IsOperator

(* What a step adds to the log: nothing, or the entry of a call that has   *)
(* just put its service into the registry.                                 *)
LEMMA LogGrows ==
  ASSUME TypeOK, [Next]_vars
  PROVE  \/ actionLog' \subseteq actionLog
         \/ \E s \in Slots, e \in [actor : Known, as : Known, entry : Service] :
               /\ wire[s].stage = "calling"
               /\ e.actor = wire[s].actor /\ e.entry = wire[s].body
               /\ registry[e.entry.name] = NoTitle
               /\ registry'[e.entry.name] = e.entry.title
               /\ actionLog' = actionLog \cup {e}
<1>1. ASSUME NEW s \in Slots, RegisterService(s), ~(actionLog' \subseteq actionLog)
      PROVE  \E e \in [actor : Known, as : Known, entry : Service] :
                /\ wire[s].stage = "calling"
                /\ e.actor = wire[s].actor /\ e.entry = wire[s].body
                /\ registry[e.entry.name] = NoTitle
                /\ registry'[e.entry.name] = e.entry.title
                /\ actionLog' = actionLog \cup {e}
  <2> DEFINE b == wire[s].body
             e == [actor |-> wire[s].actor, as |-> wire[s].as, entry |-> b]
  <2>1. /\ e \in [actor : Known, as : Known, entry : Service]
        /\ e.actor = wire[s].actor /\ e.entry = b /\ b.name \in Names
    BY <1>1, MessageFields DEF RegisterService, Service
  <2>2. registry[b.name] = NoTitle /\ actionLog' = actionLog \cup {e}
    BY <1>1, Zenon DEF RegisterService
  <2>3. registry'[b.name] = Inserted(registry[b.name], b.title)
    <3>1. registry' = [registry EXCEPT ![b.name] = Inserted(registry[b.name], b.title)]
      BY <1>1, Zenon DEF RegisterService
    <3> HIDE DEF b
    <3> QED BY <2>1, <3>1, Zenon DEF TypeOK
  <2>4. registry'[b.name] = b.title
    BY <2>2, <2>3, Zenon DEF Inserted
  <2>5. wire[s].stage = "calling"
    BY <1>1, Zenon DEF RegisterService
  <2> HIDE DEF e
  <2> QED BY <2>1, <2>2, <2>4, <2>5, Zenon
<1>2. CASE actionLog' \subseteq actionLog
  BY <1>2
<1>3. CASE \E s \in Slots : RegisterService(s)
  BY <1>1, <1>2, <1>3, Zenon
<1>4. CASE Restart
  BY <1>2, <1>4, Zenon DEF Restart
<1>5. CASE UNCHANGED actionLog
  BY <1>2, <1>5, Zenon
<1> QED BY <1>3, <1>4, <1>5, Zenon
     DEF Next, vars, Use, Open, Login, Logout, Edit, Cancel, Submit, Handle, GetSession, DevLogin,
         EndSession, Admit, Lose, Arrive, Apply, backend

(* An entry that agreed with the registry goes on to do so. *)
LEMMA LoggedStays ==
  ASSUME TypeOK, RegistryLogIsTrue, [Next]_vars, NEW e \in actionLog
  PROVE  /\ registry[e.entry.name] # NoTitle
         /\ registry'[e.entry.name] = e.entry.title
         /\ Authorize(grants'[e.actor], e.entry.op, e.entry.name)
<1>1. e.entry.name \in Names /\ e.entry.title \in Titles
  BY DEF TypeOK, Service
<1>2. /\ registry[e.entry.name] = e.entry.title
      /\ Authorize(grants[e.actor], e.entry.op, e.entry.name)
  BY Zenon DEF RegistryLogIsTrue
<1>3. registry[e.entry.name] # NoTitle
  BY <1>1, <1>2, TitleAssumption, Zenon
<1>4. registry'[e.entry.name] = registry[e.entry.name]
  BY <1>1, <1>3, RegistryStep, Zenon
<1>5. grants' = grants
  BY GrantsStay
<1> QED BY <1>2, <1>3, <1>4, <1>5, Zenon

LEMMA RegistryLogStep ==
  ASSUME TypeOK, CallsAreAllowed, RegistryLogIsTrue, [Next]_vars
  PROVE  RegistryLogIsTrue'
<1>1. grants' = grants
  BY GrantsStay
<1>2. CASE actionLog' \subseteq actionLog
  <2>1. ASSUME NEW e \in actionLog', NEW f \in actionLog', f.entry.name = e.entry.name
        PROVE  f = e
    BY <1>2, <2>1, Zenon DEF RegistryLogIsTrue
  <2>2. ASSUME NEW e \in actionLog'
        PROVE  /\ registry'[e.entry.name] = e.entry.title
               /\ Authorize(grants'[e.actor], e.entry.op, e.entry.name)
    BY <1>2, <2>2, LoggedStays, Zenon
  <2> QED BY <1>1, <2>1, <2>2, Zenon DEF RegistryLogIsTrue, Authorize, CanEditService, IsOperator
<1>3. ASSUME NEW s \in Slots, NEW n \in [actor : Known, as : Known, entry : Service],
             wire[s].stage = "calling",
             n.actor = wire[s].actor, n.entry = wire[s].body,
             registry[n.entry.name] = NoTitle,
             registry'[n.entry.name] = n.entry.title,
             actionLog' = actionLog \cup {n}
      PROVE  RegistryLogIsTrue'
  <2>1. Authorize(grants'[n.actor], n.entry.op, n.entry.name)
    BY <1>1, <1>3, Zenon DEF CallsAreAllowed
  <2>2. ASSUME NEW e \in actionLog PROVE e.entry.name # n.entry.name
    BY <1>3, LoggedStays, Zenon
  <2>3. ASSUME NEW e \in actionLog'
        PROVE  /\ registry'[e.entry.name] = e.entry.title
               /\ Authorize(grants'[e.actor], e.entry.op, e.entry.name)
    BY <1>3, <2>1, LoggedStays, Zenon
  <2>4. ASSUME NEW e \in actionLog', NEW f \in actionLog', f.entry.name = e.entry.name
        PROVE  f = e
    <3>1. CASE e \in actionLog /\ f \in actionLog
      BY <2>4, <3>1, Zenon DEF RegistryLogIsTrue
    <3>2. CASE e = n \/ f = n
      BY <1>3, <2>2, <2>4, <3>2, Zenon
    <3> QED BY <1>3, <2>4, <3>1, <3>2, Zenon
  <2> QED BY <2>3, <2>4, Zenon DEF RegistryLogIsTrue, Authorize, CanEditService, IsOperator
<1> QED BY <1>2, <1>3, LogGrows, Zenon

(* The log names, for a service, at most one registration, and that one    *)
(* was made by a person who might and is what the registry holds, for any  *)
(* number of rivals, lost answers and restarts.                            *)
THEOREM RegistryLogTellsTheTruth == Spec => []RegistryLogIsTrue
<1>1. Init => CallsAreAllowed /\ RegistryLogIsTrue
  BY DEF Init, CallsAreAllowed, RegistryLogIsTrue, Free
<1>2. TypeOK /\ CallsAreAllowed /\ RegistryLogIsTrue /\ [Next]_vars
      => CallsAreAllowed' /\ RegistryLogIsTrue'
  BY AllowedStep, RegistryLogStep
<1> QED BY <1>1, <1>2, PortalTypeInit, PortalTypeStep, PTL DEF Spec
=============================================================================
