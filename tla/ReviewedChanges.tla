---------------------------- MODULE ReviewedChanges ----------------------------
(***************************************************************************)
(* What the admin console promises about the changes people make: every    *)
(* change is made under a permit, a permit is used once, and a permit for  *)
(* a risky change is given by an operator, once, for what somebody else    *)
(* asked for.  Handlers, awaits, answers, the log and the backends' state  *)
(* do not appear here; Console shows that they implement this.             *)
(***************************************************************************)
CONSTANTS
    Operators,  \* the people who may decide a review
    MayAsk,     \* MayAsk[u]: the changes that person u may ask for
    Risky,      \* the changes that two people have to agree on
    Direct      \* stands for the review of a change that needs none

VARIABLES
    waiting,    \* the reviews that wait for a decision
    permits,    \* what may be done, and has not been done yet
    done        \* what has been done

reviewVars == <<waiting, permits, done>>

ReviewInit == waiting = {} /\ permits = {} /\ done = {}

(* A risky change waits, under a number that no review had before. *)
Ask(w) ==
    /\ w.change \in MayAsk[w.by] /\ w.change \in Risky
    /\ \A v \in waiting : v.id # w.id
    /\ \A p \in permits \cup done : p.review # w.id
    /\ waiting' = waiting \cup {w}
    /\ UNCHANGED <<permits, done>>

Issue(p) ==
    /\ \A q \in permits \cup done : q.n # p.n
    /\ permits' = permits \cup {p}
    /\ UNCHANGED done

(* Any other change is permitted at once. *)
Allow(p) ==
    /\ p.change \in MayAsk[p.by] /\ p.change \notin Risky
    /\ p.review = Direct /\ p.asker = p.by
    /\ Issue(p)
    /\ UNCHANGED waiting

(* A second person decides, and the review is over. *)
Agree(w, p) ==
    /\ p.by \in Operators /\ p.by # w.by
    /\ p.review = w.id /\ p.change = w.change /\ p.asker = w.by
    /\ Issue(p)
    /\ waiting' = waiting \ {w}

Refuse(w) ==
    /\ \E u \in Operators : u # w.by
    /\ waiting' = waiting \ {w}
    /\ UNCHANGED <<permits, done>>

(* A permit is used up by the change, or comes to nothing. *)
Make(p) ==
    /\ permits' = permits \ {p}
    /\ done' = done \cup {p}
    /\ UNCHANGED waiting

Drop(p) ==
    /\ permits' = permits \ {p}
    /\ UNCHANGED <<waiting, done>>

(* All reviews are forgotten, and any of the permits. *)
Forget ==
    /\ waiting' = {}
    /\ permits' \subseteq permits
    /\ UNCHANGED done

ReviewNext ==
    \/ \E w \in waiting' \ waiting : Ask(w)
    \/ \E p \in permits' \ permits :
          Allow(p) \/ \E w \in waiting \ waiting' : Agree(w, p)
    \/ \E w \in waiting \ waiting' : Refuse(w)
    \/ \E p \in permits \ permits' : Make(p) \/ Drop(p)
    \/ Forget

ReviewSpec == ReviewInit /\ [][ReviewNext]_reviewVars
================================================================================
