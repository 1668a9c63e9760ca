---------------------------- MODULE AccountRegistry ---------------------------
(***************************************************************************)
(* What UsersService promises of the accounts, whatever requests race and  *)
(* fail: a registry in which an account appears as a whole, with an email  *)
(* nobody has and with a password or an identity of its own; in which one  *)
(* that has no identity may be given one that opens no other, and that     *)
(* GitHub reported with the account's email; and in which nothing is ever  *)
(* changed otherwise or removed.                                           *)
(***************************************************************************)
CONSTANTS None, Users, Emails, Passwords, Ids, EmailsOf

VARIABLE registry              \* of each user [email, password, ids], or None

Entry == [email : Emails, password : Passwords \cup {None}, ids : SUBSET Ids]

Init == registry = [u \in Users |-> None]

Free(u, email) ==
    /\ registry[u] = None
    /\ \A v \in Users : registry[v] # None => registry[v].email # email

Unclaimed(id) == \A u \in Users : registry[u] # None => id \notin registry[u].ids

Enter(u, email, password, ids) ==
    registry' = [registry EXCEPT ![u] = [email |-> email, password |-> password, ids |-> ids]]

\* A registration.
Enroll(u, email, password) == Free(u, email) /\ Enter(u, email, password, {})

\* The first sign-in of an identity whose email nobody has.
Adopt(u, email, id) ==
    /\ Free(u, email) /\ Unclaimed(id)
    /\ email \in EmailsOf[id]
    /\ Enter(u, email, None, {id})

\* The first sign-in of an identity whose email an account has.
Link(u, id) ==
    /\ registry[u] # None /\ registry[u].ids = {}
    /\ Unclaimed(id)
    /\ registry[u].email \in EmailsOf[id]
    /\ Enter(u, registry[u].email, registry[u].password, {id})

Next ==
    \E u \in Users :
        \/ \E email \in Emails, password \in Passwords : Enroll(u, email, password)
        \/ \E email \in Emails, id \in Ids : Adopt(u, email, id)
        \/ \E id \in Ids : Link(u, id)

Spec == Init /\ [][Next]_registry
===============================================================================
