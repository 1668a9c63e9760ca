--------------------------- MODULE ProviderAccounts ---------------------------
(***************************************************************************)
(* UsersService: registration, password sign-in and the transaction that   *)
(* finds, links or creates the account of a GitHub identity.               *)
(*                                                                         *)
(* Transactions run at READ COMMITTED. users has UNIQUE(email);            *)
(* provider_accounts has UNIQUE(provider, provider_user_id) and            *)
(* UNIQUE(provider, user_id). An INSERT waits for an uncommitted row with  *)
(* its key and then fails with 23505 or goes through.                      *)
(***************************************************************************)
EXTENDS Integers, FiniteSets

CONSTANTS
    None,
    Users,       \* the ids of the users table, drawn at random
    Emails, Passwords,
    Ids,         \* GitHub identities
    EmailsOf,    \* the verified emails GitHub may report of each identity
    Requests,    \* concurrent requests, over all pods
    Faults,      \* "db": a statement throws; "reply": a COMMIT's reply is lost
    MaxBegun     \* bound of the model: requests begun

Account == [email : Emails, password : Passwords \cup {None}]
Link == [id : Ids, user : Users]
Request == [id : Ids \cup {None},             \* None in a registration
            email : Emails, password : Passwords \cup {None},
            pass : {1, 2}, stage : {"findLink", "findUser", "insertUser",
                                    "insertLink", "commit"},
            user : Users \cup {None},          \* found, or about to be inserted
            pending : SUBSET {"user", "link"}]  \* rows written and not committed
\* What a request was answered, with the identity or the password it came with.
Answer == [id : Ids \cup {None}, password : Passwords \cup {None},
           user : Users \cup {None}, status : {"ok", "decoy", "conflict", "error"}]

ASSUME AccountAssumption ==
    /\ EmailsOf \in [Ids -> SUBSET Emails]
    /\ None \notin Users \cup Ids \cup Passwords \cup Account \cup Request \cup Answer
    /\ Faults \subseteq {"db", "reply"} /\ MaxBegun \in Nat

VARIABLES
    accounts,  \* committed rows of users
    links,     \* committed rows of provider_accounts
    req,       \* requests in flight
    answer,    \* history: the last answer of each request slot
    begun      \* history: requests begun, which the model bounds

vars == <<accounts, links, req, answer, begun>>

-----------------------------------------------------------------------------
Init ==
    /\ accounts = [u \in Users |-> None]
    /\ links = {}
    /\ req = [r \in Requests |-> None]
    /\ answer = [r \in Requests |-> None]
    /\ begun = 0

At(r, stage) == req[r] # None /\ req[r].stage = stage

Begin(r, request) ==
    /\ req[r] = None
    /\ begun < MaxBegun
    /\ begun' = begun + 1
    /\ req' = [req EXCEPT ![r] = request]
    /\ answer' = [answer EXCEPT ![r] = None]
    /\ UNCHANGED <<accounts, links>>

\* findOrCreateFromProvider, with the email GitHubStrategy selected.
SignIn(r, id, email) ==
    Begin(r, [id |-> id, email |-> email, password |-> None, pass |-> 1,
              stage |-> "findLink", user |-> None, pending |-> {}])

\* register, once bcrypt has hashed the password.
Register(r, email, password) ==
    \E u \in Users :
        /\ accounts[u] = None /\ \A q \in Requests : req[q] # None => req[q].user # u
        /\ Begin(r, [id |-> None, email |-> email, password |-> password, pass |-> 1,
                     stage |-> "insertUser", user |-> u, pending |-> {}])

\* The request ends.
End(r, user, status) ==
    /\ req' = [req EXCEPT ![r] = None]
    /\ answer' = [answer EXCEPT ![r] = [id |-> req[r].id, password |-> req[r].password,
                                        user |-> user, status |-> status]]

\* The account with this email, which UNIQUE(email) makes the only one.
Holders(email) == {u \in Users : accounts[u] # None /\ accounts[u].email = email}

\* validateCredentials: no account, one without a password and a wrong password
\* all answer 401.
Login(r, email, password) ==
    /\ req[r] = None
    /\ \E u \in Holders(email) :
          /\ accounts[u].password = password
          /\ answer' = [answer EXCEPT ![r] = [id |-> None, password |-> password,
                                              user |-> u, status |-> "ok"]]
    /\ UNCHANGED <<accounts, links, req, begun>>

-----------------------------------------------------------------------------
\* Branch 1: the identity is linked already.
FindLink(r) ==
    /\ At(r, "findLink")
    /\ IF \E l \in links : l.id = req[r].id
       THEN \E l \in links : l.id = req[r].id /\ End(r, l.user, "ok")
       ELSE req' = [req EXCEPT ![r].stage = "findUser"] /\ UNCHANGED answer
    /\ UNCHANGED <<accounts, links, begun>>

\* Branch 2: an account has the email; after a mutant that answers it unlinked.
Unlinked(r, u) == End(r, u, "ok")
LinkTo(r, u) == /\ req' = [req EXCEPT ![r].stage = "insertLink", ![r].user = u]
                /\ UNCHANGED answer

FindUser(r) ==
    /\ At(r, "findUser")
    /\ \/ \E u \in Holders(req[r].email) : LinkTo(r, u)
       \/ /\ Holders(req[r].email) = {}     \* branch 3
          /\ \E u \in Users :
                /\ accounts[u] = None /\ \A q \in Requests : req[q] # None => req[q].user # u
                /\ req' = [req EXCEPT ![r].stage = "insertUser", ![r].user = u]
          /\ UNCHANGED answer
    /\ UNCHANGED <<accounts, links, begun>>

-----------------------------------------------------------------------------
\* What an INSERT waits for, and what makes it fail. After a mutant that locks the
\* account in share mode before it is linked, two sign-ins wait for each other.
Writing(r, row, Same(_)) ==
    \E q \in Requests \ {r} : req[q] # None /\ row \in req[q].pending /\ Same(req[q])
SharedFirst(r) ==
    \/ Writing(r, "link", LAMBDA q : q.id = req[r].id \/ q.user = req[r].user)
    \/ \E q \in Requests \ {r} : At(q, "insertLink") /\ req[q].user = req[r].user
EmailLocked(r) == Writing(r, "user", LAMBDA q : q.email = req[r].email)
LinkLocked(r) == Writing(r, "link", LAMBDA q : q.id = req[r].id \/ q.user = req[r].user)

\* UNIQUE(email); UNIQUE(provider, provider_user_id) and (provider, user_id), and
\* after a mutant without the last of them.
EmailTaken(email) == Holders(email) # {}
IdTaken(id, u) == \E l \in links : l.id = id
LinkTaken(id, u) == \E l \in links : l.id = id \/ l.user = u

InsertUser(r) ==
    /\ At(r, "insertUser")
    /\ ~EmailLocked(r) /\ ~EmailTaken(req[r].email)
    /\ req' = [req EXCEPT ![r].stage = IF req[r].id = None THEN "commit" ELSE "insertLink",
                          ![r].pending = {"user"}]
    /\ UNCHANGED <<accounts, links, answer, begun>>

InsertLink(r) ==
    /\ At(r, "insertLink")
    /\ ~LinkLocked(r) /\ ~LinkTaken(req[r].id, req[r].user)
    /\ req' = [req EXCEPT ![r].stage = "commit", ![r].pending = @ \cup {"link"}]
    /\ UNCHANGED <<accounts, links, answer, begun>>

\* findOrCreateFromProvider rolls back and runs once more; after a mutant that runs
\* twice more.
Again(r, pass) == /\ req' = [req EXCEPT ![r].pass = pass, ![r].stage = "findLink",
                                        ![r].user = None, ![r].pending = {}]
                  /\ UNCHANGED answer
RetriedTwice(r) == IF req[r].pass = 3 THEN End(r, None, "conflict") ELSE Again(r, req[r].pass + 1)
Retried(r) == IF req[r].pass = 2 THEN End(r, None, "conflict") ELSE Again(r, 2)

\* A unique violation; saveOrDecoy answers a registration with a made-up user.
Violation(r) ==
    /\ \/ At(r, "insertUser") /\ ~EmailLocked(r) /\ EmailTaken(req[r].email)
       \/ At(r, "insertLink") /\ ~LinkLocked(r) /\ LinkTaken(req[r].id, req[r].user)
    /\ IF req[r].id = None THEN End(r, None, "decoy") ELSE Retried(r)
    /\ UNCHANGED <<accounts, links, begun>>

-----------------------------------------------------------------------------
Publish(r, rows) ==
    /\ accounts' = IF "user" \in rows
                   THEN [accounts EXCEPT ![req[r].user] =
                            [email |-> req[r].email, password |-> req[r].password]]
                   ELSE accounts
    /\ links' = IF "link" \in rows
                THEN links \cup {[id |-> req[r].id, user |-> req[r].user]} ELSE links

Commit(r) ==
    /\ At(r, "commit")
    /\ Publish(r, req[r].pending)
    /\ End(r, req[r].user, "ok")
    /\ UNCHANGED begun

CommitReplyLost(r) ==
    /\ "reply" \in Faults
    /\ At(r, "commit")
    /\ Publish(r, req[r].pending)
    /\ End(r, None, "error")
    /\ UNCHANGED begun

\* What a failed request leaves: nothing, for its rows are in one transaction;
\* after a mutant that runs each statement on its own.
Autocommitted(r) == req[r].pending
Kept(r) == {}

\* A statement throws, or the pod dies; after a mutant that runs the resolution once
\* more whatever was thrown.
RetryAnyError(r) ==
    /\ "db" \in Faults
    /\ req[r] # None /\ req[r].id # None
    /\ Retried(r)
    /\ UNCHANGED <<accounts, links, begun>>
Fail(r) ==
    /\ "db" \in Faults
    /\ req[r] # None
    /\ Publish(r, Kept(r))
    /\ End(r, None, "error")
    /\ UNCHANGED begun

\* What the handler does next when nothing fails.
Proceed(r) ==
    \/ FindLink(r) \/ FindUser(r) \/ InsertUser(r) \/ InsertLink(r)
    \/ Violation(r) \/ Commit(r)

RequestStep(r) == Proceed(r) \/ CommitReplyLost(r) \/ Fail(r)

Next ==
    \E r \in Requests :
        \/ \E id \in Ids : \E email \in EmailsOf[id] : SignIn(r, id, email)
        \/ \E email \in Emails, password \in Passwords :
              Register(r, email, password) \/ Login(r, email, password)
        \/ RequestStep(r)

Spec == Init /\ [][Next]_vars

\* A handler that can go on does; no fault ever comes to the help of one that waits.
Fairness == \A r \in Requests : WF_vars(Proceed(r))
LiveSpec == Spec /\ Fairness

-----------------------------------------------------------------------------
\* Every variable stays within its type.
TypeOK ==
    /\ accounts \in [Users -> Account \cup {None}]
    /\ links \in SUBSET Link
    /\ req \in [Requests -> Request \cup {None}]
    /\ answer \in [Requests -> Answer \cup {None}]
    /\ begun \in 0 .. MaxBegun

\* However registrations and sign-ins race on an email, one account has it.
OneAccountPerEmail == \A email \in Emails : Cardinality(Holders(email)) <= 1

\* One GitHub identity opens one account, and one account is opened by one.
IdentitiesAreOneToOne ==
    \A l, k \in links : l.id = k.id \/ l.user = k.user => l = k

\* Whatever fails half-way, an account can be signed in to: one without a
\* password has a GitHub identity, and no link leads nowhere.
NoAccountIsLockedOut ==
    /\ \A u \in Users : accounts[u] # None /\ accounts[u].password = None =>
          \E l \in links : l.user = u
    /\ \A l \in links : accounts[l.user] # None

\* A request is only answered an account that what it presented opens: the
\* identity is linked to it by then, or the password is the account's own. A
\* registration of an email in use answers a decoy instead.
AnswersAreEarned ==
    \A r \in Requests : answer[r] # None /\ answer[r].status = "ok" =>
        /\ accounts[answer[r].user] # None
        /\ IF answer[r].id # None
           THEN [id |-> answer[r].id, user |-> answer[r].user] \in links
           ELSE accounts[answer[r].user].password = answer[r].password

\* The resolution is run once more because somebody else's row was in its way, and that
\* row decides the second run: it never comes to create an account (branch 3). If it
\* meets a row once more, the identity, or an account with an email of it, is linked.
SecondPassLands ==
    \A r \in Requests :
        /\ req[r] # None /\ req[r].pass = 2 =>
              req[r].stage # "insertUser" /\ "user" \notin req[r].pending
        /\ answer[r] # None /\ answer[r].status = "conflict" =>
              \E l \in links : l.id = answer[r].id
                               \/ accounts[l.user].email \in EmailsOf[answer[r].id]

\* Every request ends, and without a fault that ends it: nobody waits for another's
\* row for ever, and the resolution is not repeated without end.
RequestsEnd == \A r \in Requests : req[r] # None ~> req[r] = None

\* The registry that the committed rows of both tables make up.
Registered ==
    [u \in Users |->
        IF accounts[u] = None THEN None
        ELSE [email |-> accounts[u].email, password |-> accounts[u].password,
              ids |-> {i \in Ids : [id |-> i, user |-> u] \in links}]]

Registry == INSTANCE AccountRegistry WITH registry <- Registered

ASSUME EntryAssumption == None \notin Registry!Entry

\* The tables implement AccountRegistry: an account appears as a whole with what
\* it is opened by, it is linked once, to an identity that reported its email and
\* opens no other, and no race, violation, retry or failure does anything else.
ImplementsRegistry == Registry!Spec
=============================================================================
