------------------------ MODULE ProviderAccountsProofs ------------------------
(***************************************************************************)
(* Theorems about ProviderAccounts, for every number of users, emails,     *)
(* identities and requests: type correctness, one account per email,       *)
(* nobody locked out, answers that are earned, and the implementation of   *)
(* AccountRegistry.                                                        *)
(***************************************************************************)
EXTENDS ProviderAccounts, FiniteSetTheorems, TLAPS

\* A request whose account is drawn and not committed yet.
Fresh(q) == q.stage = "insertUser" \/ "user" \in q.pending

\* What a request holds at each stage, which its type leaves open.
Shape(q) ==
    /\ q.id = None => q.password \in Passwords /\ q.stage \in {"insertUser", "commit"}
    /\ q.id # None => q.password = None /\ q.email \in EmailsOf[q.id]
    /\ q.stage \in {"findLink", "findUser", "insertUser"} => q.pending = {}
    /\ q.stage \in {"insertUser", "insertLink", "commit"} => q.user # None
    /\ q.stage = "insertLink" => q.id # None /\ "link" \notin q.pending
    /\ q.stage = "commit" => /\ q.id # None => "link" \in q.pending
                             /\ q.id = None => q.pending = {"user"}

\* What the committed rows are to a request in flight: the account it found is
\* there, and the rows it has written conflict with none of them.
Placed(q, users, ids) ==
    /\ Fresh(q) => users[q.user] = None
    /\ q.stage \in {"insertLink", "commit"} /\ ~Fresh(q) =>
          users[q.user] # None /\ users[q.user].email = q.email
    /\ "user" \in q.pending => \A u \in Users : users[u] # None => users[u].email # q.email
    /\ "link" \in q.pending => \A l \in ids : l.id # q.id /\ l.user # q.user

\* What two requests in flight are to each other: the locks of the unique keys.
Apart(p, q) ==
    /\ Fresh(p) => q.user # p.user
    /\ "user" \in p.pending /\ "user" \in q.pending => p.email # q.email
    /\ "link" \in p.pending /\ "link" \in q.pending => p.id # q.id /\ p.user # q.user

InFlight == \A r \in Requests : req[r] # None =>
    Shape(req[r]) /\ Placed(req[r], accounts, links)
Locks == \A r, s \in Requests : r # s /\ req[r] # None /\ req[s] # None => Apart(req[r], req[s])

UniqueEmails ==
    \A u, v \in Users :
        accounts[u] # None /\ accounts[v] # None /\ accounts[u].email = accounts[v].email => u = v

Earned(a, users, ids) ==
    /\ a.user \in Users
    /\ users[a.user] # None
    /\ IF a.id # None THEN [id |-> a.id, user |-> a.user] \in ids
                      ELSE users[a.user].password = a.password
AllEarned ==
    \A r \in Requests : answer[r] # None /\ answer[r].status = "ok" =>
        Earned(answer[r], accounts, links)

\* The rows of both tables, and the whole.
RowsInv == UniqueEmails /\ IdentitiesAreOneToOne /\ NoAccountIsLockedOut
IInv == TypeOK /\ InFlight /\ Locks /\ RowsInv /\ AllEarned

-----------------------------------------------------------------------------
LEMMA AccountsInit == Init => IInv
BY AccountAssumption
   DEF Init, IInv, TypeOK, InFlight, Locks, RowsInv, UniqueEmails, IdentitiesAreOneToOne,
       NoAccountIsLockedOut, AllEarned

\* A request in flight goes on, with the rows as they are.
LEMMA MovedInFlight ==
    ASSUME IInv, NEW r \in Requests, NEW q \in Request, Shape(q), Placed(q, accounts, links),
           \A s \in Requests \ {r} : req[s] # None => Apart(q, req[s]) /\ Apart(req[s], q),
           req' = [req EXCEPT ![r] = q], UNCHANGED <<accounts, links>>
    PROVE  req' \in [Requests -> Request \cup {None}] /\ InFlight' /\ Locks'
<1>. USE DEF IInv
<1>1. req \in [Requests -> Request \cup {None}] BY DEF TypeOK
<1>2. req'[r] = q /\ \A s \in Requests \ {r} : req'[s] = req[s] BY <1>1
<1>3. InFlight'
  <2>1. SUFFICES ASSUME NEW s \in Requests, req'[s] # None
                 PROVE  Shape(req'[s]) /\ Placed(req'[s], accounts', links')
    BY DEF InFlight, Shape, Placed, Fresh
  <2>2. QED BY <1>2, <2>1 DEF InFlight
<1>4. Locks'
  <2>1. SUFFICES ASSUME NEW s \in Requests, NEW t \in Requests, s # t,
                        req'[s] # None, req'[t] # None
                 PROVE  Apart(req'[s], req'[t])
    BY DEF Locks, Apart, Fresh
  <2>2. CASE s = r BY <1>2, <2>1, <2>2
  <2>3. CASE t = r BY <1>2, <2>1, <2>3
  <2>4. CASE s # r /\ t # r BY <1>2, <2>1, <2>4 DEF Locks
  <2>5. QED BY <2>2, <2>3, <2>4
<1>5. QED BY <1>1, <1>3, <1>4

\* A request ends, with the rows as they are.
LEMMA EndedInFlight ==
    ASSUME IInv, NEW r \in Requests, req' = [req EXCEPT ![r] = None],
           UNCHANGED <<accounts, links>>
    PROVE  req' \in [Requests -> Request \cup {None}] /\ InFlight' /\ Locks'
<1>. USE DEF IInv
<1>1. req \in [Requests -> Request \cup {None}] BY DEF TypeOK
<1>2. \A s \in Requests : req'[s] # None => s # r /\ req'[s] = req[s] BY <1>1
<1>3. InFlight'
  <2>1. SUFFICES ASSUME NEW s \in Requests, req'[s] # None
                 PROVE  Shape(req'[s]) /\ Placed(req'[s], accounts', links')
    BY DEF InFlight, Shape, Placed, Fresh
  <2>2. QED BY <1>2, <2>1 DEF InFlight
<1>4. Locks'
  <2>1. SUFFICES ASSUME NEW s \in Requests, NEW t \in Requests, s # t,
                        req'[s] # None, req'[t] # None
                 PROVE  Apart(req'[s], req'[t])
    BY DEF Locks, Apart, Fresh
  <2>2. QED BY <1>2, <2>1 DEF Locks
<1>5. QED BY <1>1, <1>3, <1>4

\* A slot gets an answer, or loses it, while rows are only added.
LEMMA AnsweredEarned ==
    ASSUME IInv, NEW r \in Requests, NEW a \in Answer \cup {None},
           answer' = [answer EXCEPT ![r] = a],
           \A u \in Users : accounts[u] # None => accounts'[u] = accounts[u],
           links \subseteq links',
           a # None /\ a.status = "ok" => Earned(a, accounts', links')
    PROVE  answer' \in [Requests -> Answer \cup {None}] /\ AllEarned'
<1>. USE DEF IInv
<1>1. answer \in [Requests -> Answer \cup {None}] BY DEF TypeOK
<1>2. ASSUME NEW s \in Requests, answer'[s] # None, answer'[s].status = "ok"
      PROVE  Earned(answer'[s], accounts', links')
  <2>1. CASE s = r
    <3>1. answer'[s] = a BY <1>1, <2>1
    <3>2. QED BY <1>2, <3>1
  <2>2. CASE s # r
    <3>1. answer'[s] = answer[s] BY <1>1, <2>2
    <3>2. Earned(answer[s], accounts, links) BY <1>2, <3>1 DEF AllEarned
    <3>3. QED BY <3>1, <3>2 DEF Earned
  <2>3. QED BY <2>1, <2>2
<1>3. answer' \in [Requests -> Answer \cup {None}] BY <1>1
<1>4. QED BY <1>2, <1>3 DEF AllEarned, Earned

-----------------------------------------------------------------------------
(* A transaction commits the rows it has written.                          *)

\* Rows are added under the keys that the request holds, and only there.
LEMMA PublishedRows ==
    ASSUME IInv, NEW r \in Requests, req[r] # None, req[r].stage = "commit",
           Publish(r, req[r].pending)
    PROVE  /\ req[r] \in Request /\ req[r].user \in Users
           /\ accounts' \in [Users -> Account \cup {None}] /\ links' \in SUBSET Link
           /\ \A u \in Users : accounts[u] # None => accounts'[u] = accounts[u]
           /\ \A u \in Users \ {req[r].user} : accounts'[u] = accounts[u]
           /\ accounts'[req[r].user] # None /\ accounts'[req[r].user].email = req[r].email
           /\ "user" \in req[r].pending =>
                 accounts'[req[r].user] = [email |-> req[r].email, password |-> req[r].password]
           /\ "user" \notin req[r].pending => accounts' = accounts
           /\ links' = IF "link" \in req[r].pending
                       THEN links \cup {[id |-> req[r].id, user |-> req[r].user]} ELSE links
<1>. USE DEF IInv
<1>1. /\ accounts \in [Users -> Account \cup {None}] /\ links \in SUBSET Link
      /\ req[r] \in Request
  BY DEF TypeOK
<1>2. Shape(req[r]) /\ Placed(req[r], accounts, links) BY DEF InFlight
<1>3. req[r].user \in Users BY <1>1, <1>2 DEF Shape, Request
<1>4. req[r].email \in Emails /\ req[r].password \in Passwords \cup {None}
  BY <1>1 DEF Request
<1>. DEFINE row == [email |-> req[r].email, password |-> req[r].password]
<1>5. row \in Account /\ row # None /\ row.email = req[r].email
  BY <1>4, AccountAssumption DEF Account
<1>6. accounts' = IF "user" \in req[r].pending
                  THEN [accounts EXCEPT ![req[r].user] = row] ELSE accounts
  BY DEF Publish
<1>7. links' = IF "link" \in req[r].pending
               THEN links \cup {[id |-> req[r].id, user |-> req[r].user]} ELSE links
  BY DEF Publish
<1>8. links' \in SUBSET Link
  <2>1. "link" \in req[r].pending => req[r].id \in Ids
    BY <1>1, <1>2 DEF Shape, Request
  <2>2. QED BY <1>1, <1>3, <1>7, <2>1 DEF Link
<1>. HIDE DEF row
<1>9. CASE "user" \in req[r].pending
  <2>1. accounts[req[r].user] = None BY <1>2, <1>9 DEF Placed, Fresh
  <2>2. accounts' = [accounts EXCEPT ![req[r].user] = row] BY <1>6, <1>9
  <2>3. accounts' \in [Users -> Account \cup {None}] BY <1>1, <1>5, <2>2
  <2>4. QED BY <1>1, <1>3, <1>5, <1>7, <1>8, <1>9, <2>1, <2>2, <2>3 DEF row
<1>10. CASE "user" \notin req[r].pending
  <2>1. accounts' = accounts BY <1>6, <1>10
  <2>2. accounts[req[r].user] # None /\ accounts[req[r].user].email = req[r].email
    BY <1>2, <1>10 DEF Placed, Fresh
  <2>3. QED BY <1>1, <1>3, <1>7, <1>8, <1>10, <2>1, <2>2
<1>11. QED BY <1>9, <1>10

LEMMA PublishedRowsInv ==
    ASSUME IInv, NEW r \in Requests, req[r] # None, req[r].stage = "commit",
           Publish(r, req[r].pending)
    PROVE  RowsInv'
<1>. DEFINE q == req[r]
<1>1. Shape(q) /\ Placed(q, accounts, links) BY DEF IInv, InFlight
<1>2. RowsInv BY DEF IInv
<1>3. q \in Request /\ q.user \in Users BY PublishedRows
<1>4. /\ \A u \in Users \ {q.user} : accounts'[u] = accounts[u]
      /\ \A u \in Users : accounts[u] # None => accounts'[u] = accounts[u]
      /\ accounts'[q.user] # None /\ accounts'[q.user].email = q.email
  BY PublishedRows
<1>5. "user" \in q.pending =>
          accounts'[q.user] = [email |-> q.email, password |-> q.password]
  BY PublishedRows
<1>6. "user" \notin q.pending => accounts' = accounts BY PublishedRows
<1>7. links' = IF "link" \in q.pending THEN links \cup {[id |-> q.id, user |-> q.user]}
                                       ELSE links
  BY PublishedRows
<1>8. links \in SUBSET Link BY DEF IInv, TypeOK
<1>. HIDE DEF q
<1>9. UniqueEmails'
  <2>1. CASE "user" \in q.pending
    <3>1. \A u \in Users : accounts[u] # None => accounts[u].email # q.email
      BY <1>1, <2>1 DEF Placed
    <3>2. QED BY <1>2, <1>3, <1>4, <3>1 DEF RowsInv, UniqueEmails
  <2>2. CASE "user" \notin q.pending
    BY <1>2, <1>6, <2>2 DEF RowsInv, UniqueEmails
  <2>3. QED BY <2>1, <2>2
<1>10. IdentitiesAreOneToOne'
  <2>1. CASE "link" \in q.pending
    <3>1. \A l \in links : l.id # q.id /\ l.user # q.user BY <1>1, <2>1 DEF Placed
    <3>2. links' = links \cup {[id |-> q.id, user |-> q.user]} BY <1>7, <2>1
    <3>3. QED BY <1>2, <3>1, <3>2 DEF RowsInv, IdentitiesAreOneToOne
  <2>2. CASE "link" \notin q.pending
    BY <1>2, <1>7, <2>2 DEF RowsInv, IdentitiesAreOneToOne
  <2>3. QED BY <2>1, <2>2
<1>11. ASSUME NEW u \in Users, accounts'[u] # None, accounts'[u].password = None
       PROVE  \E l \in links' : l.user = u
  <2>1. CASE u = q.user /\ "link" \in q.pending
    <3>. DEFINE l == [id |-> q.id, user |-> q.user]
    <3>1. l \in links' /\ l.user = u BY <1>7, <2>1
    <3>2. QED BY <3>1
  <2>2. CASE u = q.user /\ "link" \notin q.pending
    <3>1. q.id = None \/ q.stage # "commit" BY <1>1, <2>2 DEF Shape
    <3>2. q.id = None BY <3>1 DEF q
    <3>3. q.password \in Passwords /\ q.pending = {"user"} BY <1>1, <3>2 DEF Shape, q
    <3>4. accounts'[u].password = q.password BY <1>5, <2>2, <3>3
    <3>5. QED BY <1>11, <3>3, <3>4, AccountAssumption
  <2>3. CASE u # q.user
    <3>1. \E l \in links : l.user = u
      BY <1>2, <1>4, <1>11, <2>3 DEF RowsInv, NoAccountIsLockedOut
    <3>2. QED BY <1>7, <3>1
  <2>4. QED BY <2>1, <2>2, <2>3
<1>12. ASSUME NEW l \in links' PROVE accounts'[l.user] # None
  <2>1. CASE l \in links
    <3>1. l.user \in Users /\ accounts[l.user] # None
      BY <1>2, <1>8, <2>1 DEF RowsInv, NoAccountIsLockedOut, Link
    <3>2. QED BY <1>4, <3>1
  <2>2. CASE l = [id |-> q.id, user |-> q.user] BY <1>4, <2>2
  <2>3. QED BY <1>7, <2>1, <2>2
<1>13. QED BY <1>9, <1>10, <1>11, <1>12 DEF RowsInv, NoAccountIsLockedOut

\* The others in flight stand to the new rows as to the old: they hold other keys.
LEMMA PublishedInFlight ==
    ASSUME IInv, NEW r \in Requests, req[r] # None, req[r].stage = "commit",
           Publish(r, req[r].pending), req' = [req EXCEPT ![r] = None]
    PROVE  req' \in [Requests -> Request \cup {None}] /\ InFlight' /\ Locks'
<1>. DEFINE q == req[r]
<1>1. req \in [Requests -> Request \cup {None}] BY DEF IInv, TypeOK
<1>2. \A s \in Requests : req'[s] # None => s # r /\ req'[s] = req[s] BY <1>1
<1>3. q \in Request /\ q.user \in Users BY PublishedRows
<1>4. /\ \A u \in Users \ {q.user} : accounts'[u] = accounts[u]
      /\ \A u \in Users : accounts[u] # None => accounts'[u] = accounts[u]
      /\ accounts'[q.user] # None /\ accounts'[q.user].email = q.email
      /\ "user" \notin q.pending => accounts' = accounts
  BY PublishedRows
<1>5. links' = IF "link" \in q.pending THEN links \cup {[id |-> q.id, user |-> q.user]}
                                       ELSE links
  BY PublishedRows
<1>6. Shape(q) /\ Placed(q, accounts, links) BY DEF IInv, InFlight
<1>7. InFlight'
  <2>. SUFFICES ASSUME NEW s \in Requests, req'[s] # None
                PROVE  Shape(req'[s]) /\ Placed(req'[s], accounts', links')
    BY DEF InFlight, Shape, Placed, Fresh
  <2>. DEFINE p == req[s]
  <2>1. s # r /\ req'[s] = p /\ p # None BY <1>2
  <2>2. Shape(p) /\ Placed(p, accounts, links) /\ Apart(p, q) /\ Apart(q, p)
    BY <2>1 DEF IInv, InFlight, Locks
  <2>3. p \in Request BY <1>1, <2>1
  <2>. HIDE DEF p, q
  <2>4. Fresh(p) => accounts'[p.user] = None
    <3>1. SUFFICES ASSUME Fresh(p) PROVE accounts'[p.user] = None OBVIOUS
    <3>2. p.user # q.user BY <2>2, <3>1 DEF Apart
    <3>3. p.user \in Users BY <2>2, <2>3, <3>1 DEF Fresh, Shape, Request
    <3>4. accounts[p.user] = None BY <2>2, <3>1 DEF Placed
    <3>5. QED BY <1>4, <3>2, <3>3, <3>4
  <2>5. p.stage \in {"insertLink", "commit"} /\ ~Fresh(p) =>
            accounts'[p.user] # None /\ accounts'[p.user].email = p.email
    <3>1. SUFFICES ASSUME p.stage \in {"insertLink", "commit"}, ~Fresh(p)
                   PROVE  accounts'[p.user] # None /\ accounts'[p.user].email = p.email
      OBVIOUS
    <3>2. accounts[p.user] # None /\ accounts[p.user].email = p.email
      BY <2>2, <3>1 DEF Placed
    <3>3. p.user \in Users BY <2>2, <2>3, <3>1 DEF Shape, Request
    <3>4. QED BY <1>4, <3>2, <3>3
  <2>6. "user" \in p.pending =>
            \A u \in Users : accounts'[u] # None => accounts'[u].email # p.email
    <3>1. SUFFICES ASSUME "user" \in p.pending, NEW u \in Users, accounts'[u] # None
                   PROVE  accounts'[u].email # p.email
      OBVIOUS
    <3>2. \A v \in Users : accounts[v] # None => accounts[v].email # p.email
      BY <2>2, <3>1 DEF Placed
    <3>3. CASE u = q.user /\ "user" \in q.pending
      BY <1>4, <2>2, <3>1, <3>3 DEF Apart
    <3>4. CASE u # q.user BY <1>4, <3>1, <3>2, <3>4
    <3>5. CASE "user" \notin q.pending BY <1>4, <3>1, <3>2, <3>5
    <3>6. QED BY <3>3, <3>4, <3>5
  <2>7. "link" \in p.pending => \A l \in links' : l.id # p.id /\ l.user # p.user
    BY <1>5, <2>2 DEF Placed, Apart
  <2>8. Placed(p, accounts', links') BY <2>4, <2>5, <2>6, <2>7 DEF Placed
  <2>9. QED BY <2>1, <2>2, <2>8
<1>8. Locks'
  <2>1. SUFFICES ASSUME NEW s \in Requests, NEW t \in Requests, s # t,
                        req'[s] # None, req'[t] # None
                 PROVE  Apart(req'[s], req'[t])
    BY DEF Locks, Apart, Fresh
  <2>2. QED BY <1>2, <2>1 DEF IInv, Locks
<1>9. req' \in [Requests -> Request \cup {None}] BY <1>1
<1>10. QED BY <1>7, <1>8, <1>9

-----------------------------------------------------------------------------
(* The shapes that a step takes: a request moves, ends or commits.         *)

LEMMA FreshHasUser ==
    ASSUME IInv, NEW s \in Requests, req[s] # None, Fresh(req[s])
    PROVE  req[s].user \in Users /\ accounts[req[s].user] = None
<1>1. req[s] \in Request BY DEF IInv, TypeOK
<1>2. Shape(req[s]) /\ Placed(req[s], accounts, links) BY DEF IInv, InFlight
<1>3. QED BY <1>1, <1>2 DEF Shape, Placed, Fresh, Request

LEMMA MovedInv ==
    ASSUME IInv, NEW r \in Requests, NEW q \in Request, Shape(q), Placed(q, accounts, links),
           \A s \in Requests \ {r} : req[s] # None => Apart(q, req[s]) /\ Apart(req[s], q),
           req' = [req EXCEPT ![r] = q], UNCHANGED <<accounts, links>>,
           answer' = answer \/ answer' = [answer EXCEPT ![r] = None],
           begun' \in 0 .. MaxBegun
    PROVE  IInv'
<1>1. req' \in [Requests -> Request \cup {None}] /\ InFlight' /\ Locks' BY MovedInFlight
<1>2. answer' \in [Requests -> Answer \cup {None}] /\ AllEarned'
  <2>1. CASE answer' = answer BY <2>1 DEF IInv, TypeOK, AllEarned, Earned
  <2>2. CASE answer' = [answer EXCEPT ![r] = None] BY <2>2, AnsweredEarned
  <2>3. QED BY <2>1, <2>2
<1>3. RowsInv'
  BY DEF IInv, RowsInv, UniqueEmails, IdentitiesAreOneToOne, NoAccountIsLockedOut
<1>4. QED BY <1>1, <1>2, <1>3 DEF IInv, TypeOK

Statuses == {"ok", "decoy", "conflict", "error"}
AnswerOf(r, user, status) ==
    [id |-> req[r].id, password |-> req[r].password, user |-> user, status |-> status]

LEMMA AnswerOfType ==
    ASSUME IInv, NEW r \in Requests, req[r] # None,
           NEW user \in Users \cup {None}, NEW status \in Statuses
    PROVE  AnswerOf(r, user, status) \in Answer
<1>1. req[r] \in Request BY DEF IInv, TypeOK
<1>2. req[r].id \in Ids \cup {None} /\ req[r].password \in Passwords \cup {None}
  BY <1>1 DEF Request
<1>3. QED BY <1>2 DEF AnswerOf, Answer, Statuses

LEMMA EndedInv ==
    ASSUME IInv, NEW r \in Requests, req[r] # None,
           NEW user \in Users \cup {None}, NEW status \in Statuses,
           End(r, user, status), UNCHANGED <<accounts, links, begun>>,
           status = "ok" => Earned(AnswerOf(r, user, status), accounts, links)
    PROVE  IInv'
<1>1. req' \in [Requests -> Request \cup {None}] /\ InFlight' /\ Locks'
  BY EndedInFlight DEF End
<1>2. answer' \in [Requests -> Answer \cup {None}] /\ AllEarned'
  <2>. DEFINE a == AnswerOf(r, user, status)
  <2>1. a \in Answer BY AnswerOfType
  <2>2. answer' = [answer EXCEPT ![r] = a] BY DEF End, AnswerOf
  <2>3. a.status = status BY DEF AnswerOf
  <2>4. a # None /\ a.status = "ok" => Earned(a, accounts', links') BY <2>3
  <2>. HIDE DEF a
  <2>5. QED BY <2>1, <2>2, <2>4, AnsweredEarned
<1>3. RowsInv'
  BY DEF IInv, RowsInv, UniqueEmails, IdentitiesAreOneToOne, NoAccountIsLockedOut
<1>4. QED BY <1>1, <1>2, <1>3 DEF IInv, TypeOK

LEMMA CommittedInv ==
    ASSUME IInv, NEW r \in Requests, Commit(r) \/ CommitReplyLost(r)
    PROVE  IInv'
<1>1. /\ req[r] # None /\ req[r].stage = "commit" /\ Publish(r, req[r].pending)
      /\ req' = [req EXCEPT ![r] = None] /\ begun' = begun
  BY DEF Commit, CommitReplyLost, At, End
<1>2. req' \in [Requests -> Request \cup {None}] /\ InFlight' /\ Locks'
  BY <1>1, PublishedInFlight
<1>3. RowsInv' BY <1>1, PublishedRowsInv
<1>4. /\ req[r] \in Request /\ req[r].user \in Users
      /\ accounts' \in [Users -> Account \cup {None}] /\ links' \in SUBSET Link
      /\ \A u \in Users : accounts[u] # None => accounts'[u] = accounts[u]
      /\ accounts'[req[r].user] # None
      /\ "user" \in req[r].pending =>
            accounts'[req[r].user] = [email |-> req[r].email, password |-> req[r].password]
      /\ links' = IF "link" \in req[r].pending
                  THEN links \cup {[id |-> req[r].id, user |-> req[r].user]} ELSE links
  BY <1>1, PublishedRows
<1>5. Shape(req[r]) BY <1>1 DEF IInv, InFlight
<1>6. answer' \in [Requests -> Answer \cup {None}] /\ AllEarned'
  <2>1. CASE Commit(r)
    <3>. DEFINE a == AnswerOf(r, req[r].user, "ok")
    <3>1. a \in Answer BY <1>1, <1>4, AnswerOfType DEF Statuses
    <3>2. answer' = [answer EXCEPT ![r] = a] BY <2>1 DEF Commit, End, AnswerOf
    <3>3. a.id = req[r].id /\ a.user = req[r].user /\ a.password = req[r].password
      BY DEF AnswerOf
    <3>. HIDE DEF a
    <3>4. CASE req[r].id # None
      <4>1. [id |-> a.id, user |-> a.user] \in links' BY <1>1, <1>4, <1>5, <3>3, <3>4 DEF Shape
      <4>2. Earned(a, accounts', links') BY <1>4, <3>3, <3>4, <4>1 DEF Earned
      <4>3. QED BY <1>4, <3>1, <3>2, <4>2, AnsweredEarned
    <3>5. CASE req[r].id = None
      <4>1. "user" \in req[r].pending BY <1>1, <1>5, <3>5 DEF Shape
      <4>2. Earned(a, accounts', links') BY <1>4, <3>3, <3>5, <4>1 DEF Earned
      <4>3. QED BY <1>4, <3>1, <3>2, <4>2, AnsweredEarned
    <3>6. QED BY <3>4, <3>5
  <2>2. CASE CommitReplyLost(r)
    <3>. DEFINE a == AnswerOf(r, None, "error")
    <3>1. a \in Answer BY <1>1, AnswerOfType DEF Statuses
    <3>2. answer' = [answer EXCEPT ![r] = a] BY <2>2 DEF CommitReplyLost, End, AnswerOf
    <3>3. a.status = "error" BY DEF AnswerOf
    <3>. HIDE DEF a
    <3>4. QED BY <1>4, <3>1, <3>2, <3>3, AnsweredEarned
  <2>3. QED BY <2>1, <2>2
<1>7. QED BY <1>1, <1>2, <1>3, <1>4, <1>6 DEF IInv, TypeOK

-----------------------------------------------------------------------------
(* Each action keeps the invariant.                                        *)

LEMMA SignInInv ==
    ASSUME IInv, NEW r \in Requests, NEW id \in Ids, NEW email \in EmailsOf[id],
           SignIn(r, id, email)
    PROVE  IInv'
<1>. DEFINE q == [id |-> id, email |-> email, password |-> None, pass |-> 1,
                  stage |-> "findLink", user |-> None, pending |-> {}]
<1>1. email \in Emails /\ id # None BY AccountAssumption
<1>2. q \in Request BY <1>1 DEF Request
<1>3. Shape(q) /\ Placed(q, accounts, links) BY <1>1 DEF Shape, Placed, Fresh
<1>4. \A s \in Requests \ {r} : req[s] # None => Apart(q, req[s]) /\ Apart(req[s], q)
  BY FreshHasUser, AccountAssumption DEF Apart, Fresh
<1>5. /\ req' = [req EXCEPT ![r] = q] /\ answer' = [answer EXCEPT ![r] = None]
      /\ UNCHANGED <<accounts, links>> /\ begun < MaxBegun /\ begun' = begun + 1
  BY DEF SignIn, Begin
<1>6. begun' \in 0 .. MaxBegun BY <1>5, AccountAssumption DEF IInv, TypeOK
<1>. HIDE DEF q
<1>7. QED BY <1>2, <1>3, <1>4, <1>5, <1>6, MovedInv

LEMMA RegisterInv ==
    ASSUME IInv, NEW r \in Requests, NEW email \in Emails, NEW password \in Passwords,
           Register(r, email, password)
    PROVE  IInv'
<1>1. PICK u \in Users :
          /\ accounts[u] = None /\ \A q \in Requests : req[q] # None => req[q].user # u
          /\ Begin(r, [id |-> None, email |-> email, password |-> password, pass |-> 1,
                       stage |-> "insertUser", user |-> u, pending |-> {}])
  BY DEF Register
<1>. DEFINE q == [id |-> None, email |-> email, password |-> password, pass |-> 1,
                  stage |-> "insertUser", user |-> u, pending |-> {}]
<1>2. q \in Request BY DEF Request
<1>3. Shape(q) /\ Placed(q, accounts, links)
  BY <1>1, AccountAssumption DEF Shape, Placed, Fresh
<1>4. \A s \in Requests \ {r} : req[s] # None => Apart(q, req[s]) /\ Apart(req[s], q)
  BY <1>1 DEF Apart
<1>5. /\ req' = [req EXCEPT ![r] = q] /\ answer' = [answer EXCEPT ![r] = None]
      /\ UNCHANGED <<accounts, links>> /\ begun < MaxBegun /\ begun' = begun + 1
  BY <1>1 DEF Begin
<1>6. begun' \in 0 .. MaxBegun BY <1>5, AccountAssumption DEF IInv, TypeOK
<1>. HIDE DEF q
<1>7. QED BY <1>2, <1>3, <1>4, <1>5, <1>6, MovedInv

LEMMA LoginInv ==
    ASSUME IInv, NEW r \in Requests, NEW email \in Emails, NEW password \in Passwords,
           Login(r, email, password)
    PROVE  IInv'
<1>1. PICK u \in Holders(email) :
          /\ accounts[u].password = password
          /\ answer' = [answer EXCEPT ![r] = [id |-> None, password |-> password,
                                              user |-> u, status |-> "ok"]]
  BY DEF Login
<1>. DEFINE a == [id |-> None, password |-> password, user |-> u, status |-> "ok"]
<1>2. UNCHANGED <<accounts, links, req, begun>> BY DEF Login
<1>3. u \in Users /\ accounts[u] # None BY DEF Holders
<1>4. a \in Answer /\ Earned(a, accounts', links') BY <1>1, <1>2, <1>3 DEF Answer, Earned
<1>5. answer' = [answer EXCEPT ![r] = a] BY <1>1
<1>. HIDE DEF a
<1>6. answer' \in [Requests -> Answer \cup {None}] /\ AllEarned'
  BY <1>2, <1>4, <1>5, AnsweredEarned
<1>7. InFlight' /\ Locks'
  BY <1>2 DEF IInv, InFlight, Locks, Shape, Placed, Apart, Fresh
<1>8. RowsInv'
  BY <1>2 DEF IInv, RowsInv, UniqueEmails, IdentitiesAreOneToOne, NoAccountIsLockedOut
<1>9. QED BY <1>2, <1>6, <1>7, <1>8 DEF IInv, TypeOK

\* What every request in flight stands in, for the actions that follow.
LEMMA Standing ==
    ASSUME IInv, NEW r \in Requests, req[r] # None
    PROVE  /\ req[r] \in Request /\ Shape(req[r]) /\ Placed(req[r], accounts, links)
           /\ \A s \in Requests \ {r} : req[s] # None =>
                 /\ req[s] \in Request /\ Shape(req[s]) /\ Placed(req[s], accounts, links)
                 /\ Apart(req[r], req[s]) /\ Apart(req[s], req[r])
           /\ begun \in 0 .. MaxBegun
BY DEF IInv, TypeOK, InFlight, Locks

LEMMA FindLinkInv ==
    ASSUME IInv, NEW r \in Requests, FindLink(r)
    PROVE  IInv'
<1>1. req[r] # None /\ req[r].stage = "findLink" /\ UNCHANGED <<accounts, links, begun>>
  BY DEF FindLink, At
<1>2. req[r] \in Request /\ Shape(req[r]) BY <1>1, Standing
<1>3. req[r].id # None /\ req[r].pending = {} BY <1>1, <1>2 DEF Shape
<1>4. CASE \E l \in links : l.id = req[r].id
  <2>1. PICK l \in links : l.id = req[r].id /\ End(r, l.user, "ok") BY <1>4 DEF FindLink
  <2>2. l \in Link /\ l.user \in Users BY DEF IInv, TypeOK, Link
  <2>3. l = [id |-> l.id, user |-> l.user] BY <2>2 DEF Link
  <2>4. accounts[l.user] # None BY DEF IInv, RowsInv, NoAccountIsLockedOut
  <2>5. Earned(AnswerOf(r, l.user, "ok"), accounts, links)
    BY <1>3, <2>1, <2>2, <2>3, <2>4 DEF Earned, AnswerOf
  <2>6. "ok" \in Statuses BY DEF Statuses
  <2>7. QED BY <1>1, <2>1, <2>2, <2>5, <2>6, EndedInv
<1>5. CASE ~\E l \in links : l.id = req[r].id
  <2>. DEFINE q == [req[r] EXCEPT !.stage = "findUser"]
  <2>1. req' = [req EXCEPT ![r] = q] /\ answer' = answer BY <1>5 DEF FindLink
  <2>2. q \in Request BY <1>2 DEF Request
  <2>3. /\ q.id = req[r].id /\ q.email = req[r].email /\ q.password = req[r].password
        /\ q.stage = "findUser" /\ q.user = req[r].user /\ q.pending = req[r].pending
    BY <1>2 DEF Request
  <2>. HIDE DEF q
  <2>4. Shape(q) /\ Placed(q, accounts, links)
    BY <1>2, <1>3, <2>3 DEF Shape, Placed, Fresh
  <2>5. \A s \in Requests \ {r} : req[s] # None => Apart(q, req[s]) /\ Apart(req[s], q)
    BY <1>1, <1>3, <2>3, Standing DEF Apart, Fresh
  <2>6. begun' \in 0 .. MaxBegun BY <1>1, Standing
  <2>7. QED BY <1>1, <2>1, <2>2, <2>4, <2>5, <2>6, MovedInv
<1>6. QED BY <1>4, <1>5

LEMMA FindUserInv ==
    ASSUME IInv, NEW r \in Requests, FindUser(r)
    PROVE  IInv'
<1>1. req[r] # None /\ req[r].stage = "findUser" /\ UNCHANGED <<accounts, links, begun>>
  BY DEF FindUser, At
<1>2. req[r] \in Request /\ Shape(req[r]) BY <1>1, Standing
<1>3. req[r].id # None /\ req[r].pending = {} BY <1>1, <1>2 DEF Shape
<1>4. begun' \in 0 .. MaxBegun BY <1>1, Standing
<1>5. ASSUME NEW u \in Holders(req[r].email), LinkTo(r, u)
      PROVE  IInv'
  <2>. DEFINE q == [[req[r] EXCEPT !.stage = "insertLink"] EXCEPT !.user = u]
  <2>1. req' = [req EXCEPT ![r] = q] /\ answer' = answer BY <1>5 DEF LinkTo
  <2>2. u \in Users /\ accounts[u] # None /\ accounts[u].email = req[r].email
    BY DEF Holders
  <2>3. q \in Request BY <1>2, <2>2 DEF Request
  <2>4. /\ q.id = req[r].id /\ q.email = req[r].email /\ q.password = req[r].password
        /\ q.stage = "insertLink" /\ q.user = u /\ q.pending = req[r].pending
    BY <1>2 DEF Request
  <2>. HIDE DEF q
  <2>5. Shape(q) /\ Placed(q, accounts, links)
    BY <1>2, <1>3, <2>2, <2>4, AccountAssumption DEF Shape, Placed, Fresh
  <2>6. \A s \in Requests \ {r} : req[s] # None => Apart(q, req[s]) /\ Apart(req[s], q)
    BY <1>3, <2>2, <2>4, FreshHasUser DEF Apart, Fresh
  <2>7. QED BY <1>1, <1>4, <2>1, <2>3, <2>5, <2>6, MovedInv
<1>6. ASSUME NEW u \in Users, accounts[u] = None,
             \A q \in Requests : req[q] # None => req[q].user # u,
             req' = [req EXCEPT ![r].stage = "insertUser", ![r].user = u], answer' = answer
      PROVE  IInv'
  <2>. DEFINE q == [[req[r] EXCEPT !.stage = "insertUser"] EXCEPT !.user = u]
  <2>1. req' = [req EXCEPT ![r] = q] BY <1>6
  <2>2. q \in Request BY <1>2 DEF Request
  <2>3. /\ q.id = req[r].id /\ q.email = req[r].email /\ q.password = req[r].password
        /\ q.stage = "insertUser" /\ q.user = u /\ q.pending = req[r].pending
    BY <1>2 DEF Request
  <2>. HIDE DEF q
  <2>4. Shape(q) /\ Placed(q, accounts, links)
    BY <1>2, <1>3, <1>6, <2>3, AccountAssumption DEF Shape, Placed, Fresh
  <2>5. \A s \in Requests \ {r} : req[s] # None => Apart(q, req[s]) /\ Apart(req[s], q)
    BY <1>3, <1>6, <2>3, FreshHasUser DEF Apart, Fresh
  <2>6. QED BY <1>1, <1>4, <1>6, <2>1, <2>2, <2>4, <2>5, MovedInv
<1>7. QED BY <1>5, <1>6 DEF FindUser

LEMMA InsertUserInv ==
    ASSUME IInv, NEW r \in Requests, InsertUser(r)
    PROVE  IInv'
<1>. DEFINE stage == IF req[r].id = None THEN "commit" ELSE "insertLink"
            q == [[req[r] EXCEPT !.stage = stage] EXCEPT !.pending = {"user"}]
<1>1. /\ req[r] # None /\ req[r].stage = "insertUser"
      /\ ~EmailLocked(r) /\ ~EmailTaken(req[r].email)
      /\ req' = [req EXCEPT ![r] = q] /\ UNCHANGED <<accounts, links, answer, begun>>
  BY DEF InsertUser, At
<1>2. req[r] \in Request /\ Shape(req[r]) /\ Placed(req[r], accounts, links)
  BY <1>1, Standing
<1>3. q \in Request BY <1>2 DEF Request
<1>4. /\ q.id = req[r].id /\ q.email = req[r].email /\ q.password = req[r].password
      /\ q.stage = stage /\ q.user = req[r].user /\ q.pending = {"user"}
  BY <1>2 DEF Request
<1>. HIDE DEF q
<1>5. \A u \in Users : accounts[u] # None => accounts[u].email # q.email
  BY <1>1, <1>4 DEF EmailTaken, Holders
<1>6. Shape(q) BY <1>1, <1>2, <1>4 DEF Shape
<1>7. Placed(q, accounts, links) BY <1>1, <1>2, <1>4, <1>5 DEF Placed, Fresh
<1>8. ASSUME NEW s \in Requests \ {r}, req[s] # None
      PROVE  Apart(q, req[s]) /\ Apart(req[s], q)
  <2>1. Apart(req[r], req[s]) /\ Apart(req[s], req[r]) BY <1>1, <1>8, Standing
  <2>2. "user" \in req[s].pending => req[s].email # q.email
    BY <1>1, <1>4, <1>8 DEF EmailLocked, Writing
  <2>3. Fresh(req[r]) BY <1>1 DEF Fresh
  <2>4. QED BY <1>4, <2>1, <2>2, <2>3 DEF Apart
<1>9. begun' \in 0 .. MaxBegun BY <1>1, Standing
<1>10. QED BY <1>1, <1>3, <1>6, <1>7, <1>8, <1>9, MovedInv

LEMMA InsertLinkInv ==
    ASSUME IInv, NEW r \in Requests, InsertLink(r)
    PROVE  IInv'
<1>. DEFINE q == [[req[r] EXCEPT !.stage = "commit"] EXCEPT !.pending = @ \cup {"link"}]
<1>1. /\ req[r] # None /\ req[r].stage = "insertLink"
      /\ ~LinkLocked(r) /\ ~LinkTaken(req[r].id, req[r].user)
      /\ UNCHANGED <<accounts, links, answer, begun>>
  BY DEF InsertLink, At
<1>2. req[r] \in Request /\ Shape(req[r]) /\ Placed(req[r], accounts, links)
  BY <1>1, Standing
<1>3. req' = [req EXCEPT ![r] = q] BY <1>2 DEF InsertLink, Request
<1>4. q \in Request BY <1>2 DEF Request
<1>5. /\ q.id = req[r].id /\ q.email = req[r].email /\ q.password = req[r].password
      /\ q.stage = "commit" /\ q.user = req[r].user
      /\ q.pending = req[r].pending \cup {"link"}
  BY <1>2 DEF Request
<1>. HIDE DEF q
<1>6. Shape(q) BY <1>1, <1>2, <1>5 DEF Shape
<1>7. \A l \in links : l.id # q.id /\ l.user # q.user BY <1>1, <1>5 DEF LinkTaken
<1>8. Fresh(q) <=> Fresh(req[r]) BY <1>1, <1>5 DEF Fresh
<1>9. Placed(q, accounts, links) BY <1>1, <1>2, <1>5, <1>7, <1>8 DEF Placed
<1>10. ASSUME NEW s \in Requests \ {r}, req[s] # None
       PROVE  Apart(q, req[s]) /\ Apart(req[s], q)
  <2>1. Apart(req[r], req[s]) /\ Apart(req[s], req[r]) BY <1>1, <1>10, Standing
  <2>2. "link" \in req[s].pending => req[s].id # q.id /\ req[s].user # q.user
    BY <1>1, <1>5, <1>10 DEF LinkLocked, Writing
  <2>3. QED BY <1>5, <1>8, <2>1, <2>2 DEF Apart
<1>11. begun' \in 0 .. MaxBegun BY <1>1, Standing
<1>12. QED BY <1>1, <1>3, <1>4, <1>6, <1>9, <1>10, <1>11, MovedInv

LEMMA ViolationInv ==
    ASSUME IInv, NEW r \in Requests, Violation(r)
    PROVE  IInv'
<1>1. /\ req[r] # None /\ UNCHANGED <<accounts, links, begun>>
      /\ IF req[r].id = None THEN End(r, None, "decoy") ELSE Retried(r)
  BY DEF Violation, At
<1>2. req[r] \in Request /\ Shape(req[r]) BY <1>1, Standing
<1>3. CASE End(r, None, "decoy") \/ End(r, None, "conflict")
  BY <1>1, <1>3, EndedInv DEF Statuses
<1>4. CASE req[r].id # None /\ Again(r, 2)
  <2>. DEFINE p == [[req[r] EXCEPT !.pass = 2] EXCEPT !.stage = "findLink"]
              q == [[p EXCEPT !.user = None] EXCEPT !.pending = {}]
  <2>1. req' = [req EXCEPT ![r] = q] /\ answer' = answer BY <1>4 DEF Again
  <2>2. p \in Request BY <1>2 DEF Request
  <2>3. q \in Request BY <2>2 DEF Request
  <2>4. p.id = req[r].id /\ p.email = req[r].email /\ p.password = req[r].password
        /\ p.stage = "findLink"
    BY <1>2 DEF Request
  <2>5. /\ q.id = p.id /\ q.email = p.email /\ q.password = p.password
        /\ q.stage = p.stage /\ q.user = None /\ q.pending = {}
    BY <2>2 DEF Request
  <2>. HIDE DEF p, q
  <2>6. Shape(q) /\ Placed(q, accounts, links)
    BY <1>2, <1>4, <2>4, <2>5 DEF Shape, Placed, Fresh
  <2>7. \A s \in Requests \ {r} : req[s] # None => Apart(q, req[s]) /\ Apart(req[s], q)
    BY <2>4, <2>5, FreshHasUser, AccountAssumption DEF Apart, Fresh
  <2>8. begun' \in 0 .. MaxBegun BY <1>1, Standing
  <2>9. QED BY <1>1, <2>1, <2>3, <2>6, <2>7, <2>8, MovedInv
<1>5. QED BY <1>1, <1>3, <1>4 DEF Retried

LEMMA FailInv ==
    ASSUME IInv, NEW r \in Requests, Fail(r)
    PROVE  IInv'
<1>1. req[r] # None /\ End(r, None, "error") /\ UNCHANGED <<accounts, links, begun>>
  BY DEF Fail, Publish, Kept
<1>2. QED BY <1>1, EndedInv DEF Statuses

LEMMA AccountsNext == IInv /\ [Next]_vars => IInv'
<1>. SUFFICES ASSUME IInv, [Next]_vars PROVE IInv' OBVIOUS
<1>1. ASSUME NEW r \in Requests, NEW id \in Ids, NEW email \in EmailsOf[id],
             SignIn(r, id, email)
      PROVE  IInv'
  BY <1>1, SignInInv
<1>2. ASSUME NEW r \in Requests, NEW email \in Emails, NEW password \in Passwords,
             Register(r, email, password) \/ Login(r, email, password)
      PROVE  IInv'
  BY <1>2, RegisterInv, LoginInv
<1>3. ASSUME NEW r \in Requests, RequestStep(r) PROVE IInv'
  BY <1>3, FindLinkInv, FindUserInv, InsertUserInv, InsertLinkInv, ViolationInv, CommittedInv,
     FailInv
     DEF RequestStep, Proceed
<1>4. CASE UNCHANGED vars
  BY <1>4 DEF vars, IInv, TypeOK, InFlight, Locks, Shape, Placed, Apart, Fresh, RowsInv,
              UniqueEmails, IdentitiesAreOneToOne, NoAccountIsLockedOut, AllEarned, Earned
<1>5. QED BY <1>1, <1>2, <1>3, <1>4 DEF Next

LEMMA AccountsAlways == Spec => []IInv
BY AccountsInit, AccountsNext, PTL DEF Spec

-----------------------------------------------------------------------------
(* The second pass meets the row that ended the first.                     *)

\* What is known of a request in its second pass, and of one that was answered the
\* second violation.
Decided(q, users, ids) ==
    /\ q.stage # "insertUser" /\ "user" \notin q.pending
    /\ q.stage = "findLink" =>
          \/ \E l \in ids : l.id = q.id
          \/ \E u \in Users : users[u] # None /\ users[u].email = q.email
    /\ q.stage = "findUser" => \E u \in Users : users[u] # None /\ users[u].email = q.email
Linked(a, users, ids) ==
    \E l \in ids : l.id = a.id \/ users[l.user].email \in EmailsOf[a.id]

SecondInv ==
    /\ \A r \in Requests : req[r] # None /\ req[r].pass = 2 => Decided(req[r], accounts, links)
    /\ \A r \in Requests : answer[r] # None /\ answer[r].status = "conflict" =>
          Linked(answer[r], accounts, links)

\* Rows of both tables are only added.
LEMMA RowsGrow ==
    ASSUME IInv, [Next]_vars
    PROVE  links \subseteq links' /\ \A u \in Users : accounts[u] # None => accounts'[u] = accounts[u]
<1>1. ASSUME NEW r \in Requests, Commit(r) \/ CommitReplyLost(r)
      PROVE  /\ links \subseteq links'
             /\ \A u \in Users : accounts[u] # None => accounts'[u] = accounts[u]
  <2>1. req[r] # None /\ req[r].stage = "commit" /\ Publish(r, req[r].pending)
    BY <1>1 DEF Commit, CommitReplyLost, At
  <2>2. links' = IF "link" \in req[r].pending
                 THEN links \cup {[id |-> req[r].id, user |-> req[r].user]} ELSE links
    BY <2>1, PublishedRows
  <2>3. \A u \in Users : accounts[u] # None => accounts'[u] = accounts[u]
    BY <2>1, PublishedRows
  <2>4. QED BY <2>2, <2>3
<1>2. CASE UNCHANGED <<accounts, links>> BY <1>2
<1>3. UNCHANGED <<accounts, links>> \/ \E r \in Requests : Commit(r) \/ CommitReplyLost(r)
  BY DEF Next, RequestStep, Proceed, SignIn, Register, Begin, Login, FindLink, FindUser,
         InsertUser, InsertLink, Violation, Fail, Publish, Kept, vars
<1>4. QED BY <1>1, <1>2, <1>3

\* What was decided stays so, for the rows that decide it stay.
LEMMA DecidedStays ==
    ASSUME IInv, [Next]_vars,
           NEW q, Decided(q, accounts, links)
    PROVE  Decided(q, accounts', links')
BY RowsGrow DEF Decided

LEMMA LinkedStays ==
    ASSUME IInv, [Next]_vars, NEW a, Linked(a, accounts, links)
    PROVE  Linked(a, accounts', links')
<1>1. PICK l \in links : l.id = a.id \/ accounts[l.user].email \in EmailsOf[a.id]
  BY DEF Linked
<1>2. l \in Link /\ accounts[l.user] # None
  BY DEF IInv, TypeOK, RowsInv, NoAccountIsLockedOut
<1>3. l.user \in Users BY <1>2 DEF Link
<1>4. l \in links' /\ accounts'[l.user] = accounts[l.user] BY <1>2, <1>3, RowsGrow
<1>5. QED BY <1>1, <1>4 DEF Linked

\* A request takes a step, and what it is afterwards is decided if it is in its second pass.
LEMMA SecondMoves ==
    ASSUME IInv, SecondInv, [Next]_vars, NEW r \in Requests,
           \A s \in Requests \ {r} : req'[s] = req[s] /\ answer'[s] = answer[s],
           req'[r] # None /\ req'[r].pass = 2 => Decided(req'[r], accounts', links'),
           answer'[r] # None /\ answer'[r].status = "conflict" =>
               Linked(answer'[r], accounts', links')
    PROVE  SecondInv'
<1>1. ASSUME NEW s \in Requests, req'[s] # None, req'[s].pass = 2
      PROVE  Decided(req'[s], accounts', links')
  <2>1. CASE s = r BY <1>1, <2>1
  <2>2. CASE s # r
    <3>1. req'[s] = req[s] BY <2>2
    <3>2. Decided(req[s], accounts, links) BY <1>1, <3>1 DEF SecondInv
    <3>3. QED BY <3>1, <3>2, DecidedStays
  <2>3. QED BY <2>1, <2>2
<1>2. ASSUME NEW s \in Requests, answer'[s] # None, answer'[s].status = "conflict"
      PROVE  Linked(answer'[s], accounts', links')
  <2>1. CASE s = r BY <1>2, <2>1
  <2>2. CASE s # r
    <3>1. answer'[s] = answer[s] BY <2>2
    <3>2. Linked(answer[s], accounts, links) BY <1>2, <3>1 DEF SecondInv
    <3>3. QED BY <3>1, <3>2, LinkedStays
  <2>3. QED BY <2>1, <2>2
<1>3. QED BY <1>1, <1>2 DEF SecondInv

LEMMA SecondInit == Init => SecondInv
BY DEF Init, SecondInv

\* A violation ends the first pass over a row that decides the second, and the second
\* over a link.
LEMMA SecondViolation ==
    ASSUME IInv, SecondInv, NEW r \in Requests, Violation(r)
    PROVE  SecondInv'
<1>0. [Next]_vars BY DEF Next, RequestStep, Proceed
<1>1. /\ req[r] # None /\ UNCHANGED <<accounts, links>>
      /\ IF req[r].id = None THEN End(r, None, "decoy") ELSE Retried(r)
  BY DEF Violation, At
<1>2. req[r] \in Request /\ Shape(req[r]) /\ Placed(req[r], accounts, links)
  BY <1>1, Standing
<1>3. req \in [Requests -> Request \cup {None}] /\ answer \in [Requests -> Answer \cup {None}]
  BY DEF IInv, TypeOK
<1>4. \A s \in Requests \ {r} : req'[s] = req[s] /\ answer'[s] = answer[s]
  BY <1>1, <1>3 DEF Retried, Again, End
<1>5. \/ \E u \in Users : accounts[u] # None /\ accounts[u].email = req[r].email
      \/ /\ req[r].stage = "insertLink"
         /\ \E l \in links : l.id = req[r].id \/ l.user = req[r].user
  BY DEF Violation, At, EmailTaken, Holders, LinkTaken
<1>6. ASSUME req[r].stage = "insertLink", NEW l \in links,
             l.id = req[r].id \/ l.user = req[r].user
      PROVE  \/ l.id = req[r].id
             \/ /\ l.user = req[r].user /\ req[r].user \in Users
                /\ accounts[req[r].user] # None
                /\ accounts[req[r].user].email = req[r].email
  <2>1. l \in Link /\ accounts[l.user] # None
    BY DEF IInv, TypeOK, RowsInv, NoAccountIsLockedOut
  <2>2. l.user \in Users BY <2>1 DEF Link
  <2>3. l.user = req[r].user => ~Fresh(req[r]) BY <1>2, <2>1 DEF Placed
  <2>4. QED BY <1>2, <1>6, <2>2, <2>3 DEF Placed
<1>7. CASE End(r, None, "decoy")
  <2>1. req'[r] = None /\ answer'[r].status = "decoy" BY <1>3, <1>7 DEF End
  <2>2. QED BY <1>0, <1>4, <2>1, SecondMoves
<1>8. CASE req[r].id # None /\ req[r].pass = 2 /\ End(r, None, "conflict")
  <2>1. /\ req'[r] = None /\ answer'[r].id = req[r].id
    BY <1>3, <1>8 DEF End
  <2>2. Decided(req[r], accounts, links) BY <1>1, <1>8 DEF SecondInv
  <2>3. req[r].stage = "insertLink" BY <2>2 DEF Violation, At, Decided
  <2>4. PICK l \in links : l.id = req[r].id \/ l.user = req[r].user
    BY <2>3 DEF Violation, At, LinkTaken
  <2>5. req[r].email \in EmailsOf[req[r].id] BY <1>2, <1>8 DEF Shape
  <2>6. l.id = req[r].id \/ accounts[l.user].email \in EmailsOf[req[r].id]
    BY <1>6, <2>3, <2>4, <2>5
  <2>7. Linked(answer'[r], accounts', links') BY <1>1, <2>1, <2>6 DEF Linked
  <2>8. QED BY <1>0, <1>4, <2>1, <2>7, SecondMoves
<1>9. CASE req[r].id # None /\ Again(r, 2)
  <2>1. /\ req'[r].id = req[r].id /\ req'[r].email = req[r].email
        /\ req'[r].stage = "findLink" /\ req'[r].pending = {} /\ answer' = answer
    BY <1>2, <1>3, <1>9 DEF Again, Request
  <2>2. \/ \E l \in links : l.id = req[r].id
        \/ \E u \in Users : accounts[u] # None /\ accounts[u].email = req[r].email
    BY <1>5, <1>6
  <2>3. Decided(req'[r], accounts', links') BY <1>1, <2>1, <2>2 DEF Decided
  <2>4. answer'[r] # None /\ answer'[r].status = "conflict" =>
            Linked(answer'[r], accounts', links')
    BY <1>1, <2>1 DEF SecondInv
  <2>5. QED BY <1>0, <1>4, <2>3, <2>4, SecondMoves
<1>10. QED BY <1>1, <1>7, <1>8, <1>9 DEF Retried

LEMMA SecondNext == IInv /\ SecondInv /\ [Next]_vars => SecondInv'
<1>. SUFFICES ASSUME IInv, SecondInv, [Next]_vars PROVE SecondInv' OBVIOUS
<1>0. req \in [Requests -> Request \cup {None}] /\ answer \in [Requests -> Answer \cup {None}]
  BY DEF IInv, TypeOK
<1>1. ASSUME NEW r \in Requests, NEW q, q.pass = 1, Begin(r, q) PROVE SecondInv'
  <2>1. /\ \A s \in Requests \ {r} : req'[s] = req[s] /\ answer'[s] = answer[s]
        /\ req'[r] = q /\ answer'[r] = None
    BY <1>0, <1>1 DEF Begin
  <2>2. QED BY <1>1, <2>1, SecondMoves
<1>2. ASSUME NEW r \in Requests, NEW user, NEW status, status # "conflict",
             End(r, user, status)
      PROVE  SecondInv'
  <2>1. /\ \A s \in Requests \ {r} : req'[s] = req[s] /\ answer'[s] = answer[s]
        /\ req'[r] = None /\ answer'[r].status = status
    BY <1>0, <1>2 DEF End
  <2>2. QED BY <1>2, <2>1, SecondMoves
<1>3. ASSUME NEW r \in Requests, NEW q, req' = [req EXCEPT ![r] = q], answer' = answer,
             q.pass = 2 => Decided(q, accounts', links')
      PROVE  SecondInv'
  <2>1. /\ \A s \in Requests \ {r} : req'[s] = req[s] /\ answer'[s] = answer[s]
        /\ req'[r] = q /\ answer'[r] = answer[r]
    BY <1>0, <1>3
  <2>2. answer'[r] # None /\ answer'[r].status = "conflict" =>
            Linked(answer'[r], accounts', links')
    BY <2>1, LinkedStays DEF SecondInv
  <2>3. QED BY <1>3, <2>1, <2>2, SecondMoves
<1>4. ASSUME NEW r \in Requests, NEW id \in Ids, NEW email \in EmailsOf[id],
             SignIn(r, id, email)
      PROVE  SecondInv'
  BY <1>1, <1>4 DEF SignIn
<1>5. ASSUME NEW r \in Requests, NEW email \in Emails, NEW password \in Passwords,
             Register(r, email, password)
      PROVE  SecondInv'
  BY <1>1, <1>5 DEF Register
<1>6. ASSUME NEW r \in Requests, NEW email \in Emails, NEW password \in Passwords,
             Login(r, email, password)
      PROVE  SecondInv'
  <2>1. /\ \A s \in Requests \ {r} : req'[s] = req[s] /\ answer'[s] = answer[s]
        /\ req' = req /\ req[r] = None /\ answer'[r].status = "ok"
    BY <1>0, <1>6 DEF Login
  <2>2. QED BY <2>1, SecondMoves
<1>7. ASSUME NEW r \in Requests, FindLink(r) PROVE SecondInv'
  <2>0. req[r] # None /\ req[r].stage = "findLink" /\ UNCHANGED <<accounts, links>>
    BY <1>7 DEF FindLink, At
  <2>1. CASE \E l \in links : l.id = req[r].id
    BY <1>2, <1>7, <2>1 DEF FindLink
  <2>2. CASE ~\E l \in links : l.id = req[r].id
    <3>. DEFINE q == [req[r] EXCEPT !.stage = "findUser"]
    <3>1. req' = [req EXCEPT ![r] = q] /\ answer' = answer BY <1>7, <2>2 DEF FindLink
    <3>2. req[r] \in Request BY <2>0, Standing
    <3>3. /\ q.pass = req[r].pass /\ q.stage = "findUser" /\ q.pending = req[r].pending
          /\ q.email = req[r].email
      BY <3>2 DEF Request
    <3>. HIDE DEF q
    <3>4. q.pass = 2 => Decided(q, accounts', links')
      BY <2>0, <2>2, <3>3 DEF SecondInv, Decided
    <3>5. QED BY <1>3, <3>1, <3>4
  <2>3. QED BY <2>1, <2>2
<1>8. ASSUME NEW r \in Requests, FindUser(r) PROVE SecondInv'
  <2>0. req[r] # None /\ req[r].stage = "findUser" /\ UNCHANGED <<accounts, links>>
    BY <1>8 DEF FindUser, At
  <2>1. req[r] \in Request BY <2>0, Standing
  <2>2. req[r].pass = 2 => "user" \notin req[r].pending /\ Holders(req[r].email) # {}
    BY <2>0 DEF SecondInv, Decided, Holders
  <2>3. ASSUME NEW u, NEW stage \in {"insertLink", "insertUser"},
               stage = "insertUser" => Holders(req[r].email) = {}, answer' = answer,
               req' = [req EXCEPT ![r].stage = stage, ![r].user = u]
        PROVE  SecondInv'
    <3>. DEFINE q == [[req[r] EXCEPT !.stage = stage] EXCEPT !.user = u]
    <3>1. req' = [req EXCEPT ![r] = q] BY <2>3
    <3>2. q.pass = req[r].pass /\ q.stage = stage /\ q.pending = req[r].pending
      BY <2>1 DEF Request
    <3>. HIDE DEF q
    <3>3. q.pass = 2 => Decided(q, accounts', links') BY <2>2, <2>3, <3>2 DEF Decided
    <3>4. QED BY <1>3, <2>3, <3>1, <3>3
  <2>4. CASE \E u \in Holders(req[r].email) : LinkTo(r, u)
    BY <2>3, <2>4 DEF LinkTo
  <2>5. CASE Holders(req[r].email) = {} /\ answer' = answer
             /\ \E u \in Users : req' = [req EXCEPT ![r].stage = "insertUser", ![r].user = u]
    BY <2>3, <2>5
  <2>6. QED BY <1>8, <2>4, <2>5 DEF FindUser
<1>9. ASSUME NEW r \in Requests, InsertUser(r) PROVE SecondInv'
  <2>. DEFINE stage == IF req[r].id = None THEN "commit" ELSE "insertLink"
              q == [[req[r] EXCEPT !.stage = stage] EXCEPT !.pending = {"user"}]
  <2>1. /\ req[r] # None /\ req[r].stage = "insertUser"
        /\ req' = [req EXCEPT ![r] = q] /\ answer' = answer
    BY <1>9 DEF InsertUser, At
  <2>2. req[r].pass # 2 BY <2>1 DEF SecondInv, Decided
  <2>3. q.pass = req[r].pass BY <2>1, Standing DEF Request
  <2>. HIDE DEF q
  <2>4. QED BY <1>3, <2>1, <2>2, <2>3
<1>10. ASSUME NEW r \in Requests, InsertLink(r) PROVE SecondInv'
  <2>. DEFINE q == [[req[r] EXCEPT !.stage = "commit"] EXCEPT !.pending = @ \cup {"link"}]
  <2>1. req[r] # None /\ answer' = answer BY <1>10 DEF InsertLink, At
  <2>2. req[r] \in Request BY <2>1, Standing
  <2>3. req' = [req EXCEPT ![r] = q] BY <1>10, <2>2 DEF InsertLink, Request
  <2>4. /\ q.pass = req[r].pass /\ q.stage = "commit"
        /\ q.pending = req[r].pending \cup {"link"}
    BY <2>2 DEF Request
  <2>. HIDE DEF q
  <2>5. q.pass = 2 => Decided(q, accounts', links') BY <2>1, <2>4 DEF SecondInv, Decided
  <2>6. QED BY <1>3, <2>1, <2>3, <2>5
<1>11. ASSUME NEW r \in Requests, Commit(r) \/ CommitReplyLost(r) \/ Fail(r)
       PROVE  SecondInv'
  BY <1>2, <1>11 DEF Commit, CommitReplyLost, Fail
<1>12. CASE UNCHANGED vars BY <1>12 DEF vars, SecondInv, Decided, Linked
<1>13. QED BY <1>4, <1>5, <1>6, <1>7, <1>8, <1>9, <1>10, <1>11, <1>12, SecondViolation
       DEF Next, RequestStep, Proceed

-----------------------------------------------------------------------------
(* The theorems.                                                           *)

\* TypeOK: every variable of UsersService's requests and tables stays within its
\* type; in particular the resolution is passed through twice at most.
THEOREM AccountTypes == Spec => []TypeOK
<1>1. IInv => TypeOK BY DEF IInv
<1>2. QED BY <1>1, AccountsAlways, PTL

\* SecondPassLands: the row that ends the first pass of findOrCreateFromProvider decides
\* the second: it never creates an account, and if it meets a row again, the identity or
\* an account with an email of it is linked.
THEOREM SecondPassDecided == Spec => []SecondPassLands
<1>1. IInv /\ SecondInv => SecondPassLands
  BY DEF SecondInv, SecondPassLands, Decided, Linked
<1>2. IInv /\ IInv' /\ SecondInv /\ [Next]_vars => SecondInv' BY SecondNext
<1>3. QED BY <1>1, <1>2, SecondInit, AccountsAlways, PTL DEF Spec

\* OneAccountPerEmail: however registrations and sign-ins race on an email, the
\* users table has one account of it.
THEOREM OneAccount == Spec => []OneAccountPerEmail
<1>1. ASSUME IInv, NEW email \in Emails PROVE Cardinality(Holders(email)) <= 1
  <2>1. CASE Holders(email) = {} BY <2>1, FS_EmptySet
  <2>2. CASE Holders(email) # {}
    <3>1. PICK u \in Holders(email) : TRUE BY <2>2
    <3>2. Holders(email) = {u} BY <1>1, <3>1 DEF Holders, IInv, RowsInv, UniqueEmails
    <3>3. QED BY <3>2, FS_Singleton
  <2>3. QED BY <2>1, <2>2
<1>2. IInv => OneAccountPerEmail BY <1>1 DEF OneAccountPerEmail
<1>3. QED BY <1>2, AccountsAlways, PTL

\* IdentitiesAreOneToOne: a GitHub identity opens one account, and an account is
\* opened by one identity.
THEOREM OneIdentity == Spec => []IdentitiesAreOneToOne
<1>1. IInv => IdentitiesAreOneToOne BY DEF IInv, RowsInv
<1>2. QED BY <1>1, AccountsAlways, PTL

\* NoAccountIsLockedOut: no failure half-way leaves an account that nothing opens
\* or a link to no account.
THEOREM NobodyLockedOut == Spec => []NoAccountIsLockedOut
<1>1. IInv => NoAccountIsLockedOut BY DEF IInv, RowsInv
<1>2. QED BY <1>1, AccountsAlways, PTL

\* AnswersAreEarned: a request is only answered an account that what it presented
\* opens.
THEOREM AnswersEarned == Spec => []AnswersAreEarned
<1>1. IInv => AnswersAreEarned BY DEF IInv, AllEarned, Earned, AnswersAreEarned
<1>2. QED BY <1>1, AccountsAlways, PTL

-----------------------------------------------------------------------------
(* The tables implement the registry.                                      *)

\* A commit changes the registry at its own account only.
LEMMA PublishedEntry ==
    ASSUME IInv, NEW r \in Requests, req[r] # None, req[r].stage = "commit",
           Publish(r, req[r].pending)
    PROVE  Registered' = [Registered EXCEPT ![req[r].user] =
               [email |-> req[r].email, password |-> accounts'[req[r].user].password,
                ids |-> {i \in Ids : [id |-> i, user |-> req[r].user] \in links'}]]
<1>. DEFINE w == req[r].user
            e == [email |-> req[r].email, password |-> accounts'[w].password,
                  ids |-> {i \in Ids : [id |-> i, user |-> w] \in links'}]
<1>1. w \in Users /\ accounts'[w] # None /\ accounts'[w].email = req[r].email
  BY PublishedRows
<1>2. Registered'[w] = e BY <1>1 DEF Registered
<1>3. ASSUME NEW u \in Users \ {w} PROVE Registered'[u] = Registered[u]
  <2>1. accounts'[u] = accounts[u] BY PublishedRows
  <2>2. \A i \in Ids : [id |-> i, user |-> u] \in links' <=> [id |-> i, user |-> u] \in links
    <3>1. links' = IF "link" \in req[r].pending
                   THEN links \cup {[id |-> req[r].id, user |-> w]} ELSE links
      BY PublishedRows
    <3>. HIDE DEF w
    <3>2. \A i \in Ids : [id |-> i, user |-> u] # [id |-> req[r].id, user |-> w] BY <1>3
    <3>3. QED BY <3>1, <3>2
  <2>3. {i \in Ids : [id |-> i, user |-> u] \in links'} =
        {i \in Ids : [id |-> i, user |-> u] \in links}
    BY <2>2
  <2>4. QED BY <2>1, <2>3 DEF Registered
<1>4. \A u \in Users : Registered'[u] = [Registered EXCEPT ![w] = e][u]
  BY <1>1, <1>2, <1>3 DEF Registered
<1>5. QED BY <1>4 DEF Registered

\* What the registry shows of the tables.
LEMMA RegistryReads ==
    ASSUME IInv, NEW u \in Users
    PROVE  /\ accounts[u] = None => Registered[u] = None
           /\ accounts[u] # None =>
                 /\ Registered[u] # None
                 /\ Registered[u].email = accounts[u].email
                 /\ Registered[u].password = accounts[u].password
                 /\ Registered[u].ids = {i \in Ids : [id |-> i, user |-> u] \in links}
<1>. DEFINE e == [email |-> accounts[u].email, password |-> accounts[u].password,
                  ids |-> {i \in Ids : [id |-> i, user |-> u] \in links}]
<1>1. Registered[u] = IF accounts[u] = None THEN None ELSE e BY DEF Registered
<1>2. accounts[u] # None => e # None
  <2>1. accounts[u] # None =>
            accounts[u].email \in Emails /\ accounts[u].password \in Passwords \cup {None}
    BY DEF IInv, TypeOK, Account
  <2>2. e.ids \in SUBSET Ids OBVIOUS
  <2>3. accounts[u] # None => e \in Registry!Entry BY <2>1, <2>2 DEF Registry!Entry
  <2>4. QED BY <2>3, EntryAssumption
<1>3. QED BY <1>1, <1>2

LEMMA PublishedRegistry ==
    ASSUME IInv, NEW r \in Requests, req[r] # None, req[r].stage = "commit",
           Publish(r, req[r].pending)
    PROVE  [Registry!Next]_Registered
<1>. DEFINE q == req[r]
            w == q.user
<1>1. /\ q \in Request /\ w \in Users /\ Shape(q) /\ Placed(q, accounts, links)
      /\ q.email \in Emails
  BY PublishedRows, Standing DEF Request
<1>2. Registered' = [Registered EXCEPT ![w] =
          [email |-> q.email, password |-> accounts'[w].password,
           ids |-> {i \in Ids : [id |-> i, user |-> w] \in links'}]]
  BY PublishedEntry
<1>3. links \in SUBSET Link BY DEF IInv, TypeOK
<1>4. links' = IF "link" \in q.pending THEN links \cup {[id |-> q.id, user |-> w]} ELSE links
  BY PublishedRows
<1>5. "user" \in q.pending => accounts'[w].password = q.password
  <2>1. "user" \in req[r].pending =>
            accounts'[req[r].user] = [email |-> req[r].email, password |-> req[r].password]
    BY PublishedRows
  <2>2. QED BY <2>1
<1>6. "user" \notin q.pending => accounts' = accounts BY PublishedRows
<1>7. q.stage = "commit" OBVIOUS
<1>. HIDE DEF q
<1>8. "user" \in q.pending => /\ Registry!Free(w, q.email)
                              /\ {i \in Ids : [id |-> i, user |-> w] \in links} = {}
  <2>1. SUFFICES ASSUME "user" \in q.pending
                 PROVE  /\ Registry!Free(w, q.email)
                        /\ {i \in Ids : [id |-> i, user |-> w] \in links} = {}
    OBVIOUS
  <2>2. accounts[w] = None /\ \A u \in Users : accounts[u] # None => accounts[u].email # q.email
    BY <1>1, <2>1 DEF Placed, Fresh
  <2>3. Registered[w] = None /\ \A u \in Users : Registered[u] # None => Registered[u].email # q.email
    BY <1>1, <2>2, RegistryReads
  <2>4. \A l \in links : l.user # w BY <2>2 DEF IInv, RowsInv, NoAccountIsLockedOut
  <2>5. QED BY <2>3, <2>4 DEF Registry!Free
<1>9. "link" \in q.pending =>
          /\ q.id \in Ids /\ Registry!Unclaimed(q.id) /\ q.email \in EmailsOf[q.id]
          /\ {i \in Ids : [id |-> i, user |-> w] \in links} = {}
          /\ {i \in Ids : [id |-> i, user |-> w] \in links'} = {q.id}
  <2>1. SUFFICES ASSUME "link" \in q.pending
                 PROVE  /\ q.id \in Ids /\ Registry!Unclaimed(q.id) /\ q.email \in EmailsOf[q.id]
                        /\ {i \in Ids : [id |-> i, user |-> w] \in links} = {}
                        /\ {i \in Ids : [id |-> i, user |-> w] \in links'} = {q.id}
    OBVIOUS
  <2>2. \A l \in links : l.id # q.id /\ l.user # w BY <1>1, <2>1 DEF Placed
  <2>3. q.id \in Ids /\ q.email \in EmailsOf[q.id] BY <1>1, <1>7, <2>1 DEF Shape, Request
  <2>4. ASSUME NEW u \in Users, Registered[u] # None PROVE q.id \notin Registered[u].ids
    <3>1. accounts[u] # None BY <2>4, RegistryReads
    <3>2. Registered[u].ids = {i \in Ids : [id |-> i, user |-> u] \in links}
      BY <3>1, RegistryReads
    <3>3. [id |-> q.id, user |-> u] \notin links BY <2>2
    <3>4. QED BY <3>2, <3>3
  <2>5. Registry!Unclaimed(q.id) BY <2>4 DEF Registry!Unclaimed
  <2>6. links' = links \cup {[id |-> q.id, user |-> w]} BY <1>4, <2>1
  <2>7. {i \in Ids : [id |-> i, user |-> w] \in links} = {} BY <2>2
  <2>8. {i \in Ids : [id |-> i, user |-> w] \in links'} = {q.id} BY <2>2, <2>3, <2>6
  <2>9. QED BY <2>3, <2>5, <2>7, <2>8
<1>10. CASE q.id = None
  <2>1. q.password \in Passwords /\ q.pending = {"user"} BY <1>1, <1>7, <1>10 DEF Shape
  <2>2. links' = links BY <1>4, <2>1
  <2>3. Registry!Enroll(w, q.email, q.password)
    BY <1>2, <1>5, <1>8, <2>1, <2>2 DEF Registry!Enroll, Registry!Enter
  <2>4. QED BY <1>1, <2>1, <2>3 DEF Registry!Next
<1>11. CASE q.id # None /\ "user" \in q.pending
  <2>1. "link" \in q.pending /\ q.password = None BY <1>1, <1>7, <1>11 DEF Shape
  <2>2. Registry!Adopt(w, q.email, q.id)
    BY <1>2, <1>5, <1>8, <1>9, <1>11, <2>1 DEF Registry!Adopt, Registry!Enter
  <2>3. QED BY <1>1, <1>9, <2>1, <2>2 DEF Registry!Next
<1>12. CASE q.id # None /\ "user" \notin q.pending
  <2>1. "link" \in q.pending BY <1>1, <1>7, <1>12 DEF Shape
  <2>2. ~Fresh(q) BY <1>7, <1>12 DEF Fresh
  <2>3. accounts[w] # None /\ accounts[w].email = q.email
    BY <1>1, <1>7, <2>2 DEF Placed
  <2>4. /\ Registered[w] # None /\ Registered[w].email = q.email /\ Registered[w].ids = {}
        /\ Registered[w].password = accounts'[w].password
    BY <1>1, <1>6, <1>9, <1>12, <2>1, <2>3, RegistryReads
  <2>5. Registry!Link(w, q.id)
    BY <1>2, <1>9, <2>1, <2>4 DEF Registry!Link, Registry!Enter
  <2>6. QED BY <1>1, <1>9, <2>1, <2>5 DEF Registry!Next
<1>13. QED BY <1>10, <1>11, <1>12

\* Every step is a step of the registry or leaves it as it is.
LEMMA RegistryStep == IInv /\ [Next]_vars => [Registry!Next]_Registered
<1>. SUFFICES ASSUME IInv, [Next]_vars PROVE [Registry!Next]_Registered OBVIOUS
<1>1. CASE UNCHANGED <<accounts, links>> BY <1>1 DEF Registered
<1>2. ASSUME NEW r \in Requests, Commit(r) \/ CommitReplyLost(r)
      PROVE  [Registry!Next]_Registered
  <2>1. req[r] # None /\ req[r].stage = "commit" /\ Publish(r, req[r].pending)
    BY <1>2 DEF Commit, CommitReplyLost, At
  <2>2. QED BY <2>1, PublishedRegistry
<1>3. ASSUME NEW r \in Requests,
             \/ FindLink(r) \/ FindUser(r) \/ InsertUser(r) \/ InsertLink(r)
             \/ Violation(r) \/ Fail(r)
      PROVE  UNCHANGED <<accounts, links>>
  BY <1>3 DEF FindLink, FindUser, InsertUser, InsertLink, Violation, Fail, Publish, Kept
<1>4. ASSUME NEW r \in Requests, NEW id \in Ids, NEW email \in EmailsOf[id],
             SignIn(r, id, email)
      PROVE  UNCHANGED <<accounts, links>>
  BY <1>4 DEF SignIn, Begin
<1>5. ASSUME NEW r \in Requests, NEW email \in Emails, NEW password \in Passwords,
             Register(r, email, password) \/ Login(r, email, password)
      PROVE  UNCHANGED <<accounts, links>>
  BY <1>5 DEF Register, Begin, Login
<1>6. CASE UNCHANGED vars BY <1>6 DEF vars, Registered
<1>7. QED BY <1>1, <1>2, <1>3, <1>4, <1>5, <1>6 DEF Next, RequestStep, Proceed

\* ImplementsRegistry: registrations and sign-ins that race, retry and fail over
\* the two tables do to the accounts what AccountRegistry says and nothing else.
THEOREM Implements == Spec => ImplementsRegistry
<1>1. Init => Registry!Init BY DEF Init, Registry!Init, Registered
<1>2. IInv /\ [Next]_vars => [Registry!Next]_Registered BY RegistryStep
<1>3. QED BY <1>1, <1>2, AccountsAlways, PTL DEF Spec, ImplementsRegistry, Registry!Spec
=============================================================================
