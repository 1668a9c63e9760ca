------------------------------ MODULE LinkRegistry -----------------------------
(***************************************************************************)
(* What LinksService promises of creation, whatever requests race, retry   *)
(* and fail: a request is granted one link at most; a link appears as a    *)
(* whole, together with its announcement, under a slug nobody has, in the  *)
(* name of who asked and dated while the request was under way; and it     *)
(* goes only by being removed.                                             *)
(***************************************************************************)
EXTENDS Naturals

CONSTANTS None, Users, Slugs, Requests, Months

VARIABLES
    now,                       \* the month
    registry,                  \* slug -> [owner, month] or None
    announced,                 \* link_created rows of each slug
    asked                      \* requests under way: [user, since] or None

vars == <<now, registry, announced, asked>>

Request == [user : Users, since : Months]

Init ==
    /\ now = 0
    /\ registry = [s \in Slugs |-> None]
    /\ announced = [s \in Slugs |-> 0]
    /\ asked = [c \in Requests |-> None]

Ask(c, u) ==
    /\ asked[c] = None
    /\ asked' = [asked EXCEPT ![c] = [user |-> u, since |-> now]]
    /\ UNCHANGED <<now, registry, announced>>

Grant(c, s, month) ==
    /\ asked[c] # None /\ registry[s] = None
    /\ asked[c].since <= month /\ month <= now
    /\ registry' = [registry EXCEPT ![s] = [owner |-> asked[c].user, month |-> month]]
    /\ announced' = [announced EXCEPT ![s] = @ + 1]
    /\ asked' = [asked EXCEPT ![c] = None]
    /\ UNCHANGED now

\* Refused, or failed: nothing of the request stays.
Refuse(c) ==
    /\ asked[c] # None
    /\ asked' = [asked EXCEPT ![c] = None]
    /\ UNCHANGED <<now, registry, announced>>

Remove(s) ==
    /\ registry[s] # None
    /\ registry' = [registry EXCEPT ![s] = None]
    /\ UNCHANGED <<now, announced, asked>>

Turn ==
    /\ now' = now + 1
    /\ UNCHANGED <<registry, announced, asked>>

Next ==
    \/ \E c \in Requests :
          \/ \E u \in Users : Ask(c, u)
          \/ \E s \in Slugs, month \in Months : Grant(c, s, month)
          \/ Refuse(c)
    \/ \E s \in Slugs : Remove(s)
    \/ Turn

Spec == Init /\ [][Next]_vars
===============================================================================
