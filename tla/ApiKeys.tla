------------------------------- MODULE ApiKeys --------------------------------
(***************************************************************************)
(* ApiKeysService and UsageService: keys are created within a monthly      *)
(* allowance, validated by prefix and bcrypt hash on each request, revoked *)
(* by their owner, and summed up by GET /api/usage. Every statement is its *)
(* own transaction; requests interleave at each of them and at bcrypt.     *)
(***************************************************************************)
EXTENDS Integers, FiniteSets

CONSTANTS
    None, Users,
    Keys,      \* plaintext keys, drawn at random; a row's id is its key here
    PrefixOf,  \* the 8 characters by which validate finds a row
    Limit,     \* resolveKeyLimit of each account
    Requests,  \* concurrent requests, over all pods
    MaxBegun, MaxMonth  \* bounds of the model: requests begun, months

Months == 0 .. MaxMonth
Row == [owner : Users, month : Months, revoked : BOOLEAN, used : BOOLEAN]
Request == [kind : {"create", "validate", "mark", "usage"}, stage : {"db", "bcrypt", "save"},
            user : Users \cup {None}, key : Keys \cup {None}, month : Months,
            row : Keys \cup {None}, read : Row \cup {None},  \* what validate found
            late : BOOLEAN,   \* history: the key was revoked before it came
            count : Nat]
Answer == [kind : {"created", "limit", "admitted", "refused", "usage"},
           user : Users \cup {None}, key : Keys \cup {None}, late : BOOLEAN,
           month : Months, remaining : Nat, reset : Nat]

ASSUME KeyAssumption ==
    /\ PrefixOf \in [Keys -> STRING] /\ Limit \in [Users -> Nat]
    /\ None \notin Users \cup Keys \cup Row \cup Request \cup Answer
    /\ IsFiniteSet(Keys) /\ IsFiniteSet(Requests)
    /\ MaxBegun \in Nat /\ MaxMonth \in Nat

VARIABLES
    month,   \* the calendar month (UTC)
    rows,    \* api_keys
    req,     \* requests and fire-and-forget updates in flight
    answer,  \* history: the last answer of each request slot
    begun    \* history: requests begun, which the model bounds

vars == <<month, rows, req, answer, begun>>

-----------------------------------------------------------------------------
Init ==
    /\ month = 0
    /\ rows = [k \in Keys |-> None]
    /\ req = [r \in Requests |-> None]
    /\ answer = [r \in Requests |-> None]
    /\ begun = 0

At(r, kind, stage) == req[r] # None /\ req[r].kind = kind /\ req[r].stage = stage

\* countKeysThisMonth: revoked keys count too.
Counted(u, m) == Cardinality({k \in Keys : rows[k] # None /\ rows[k].owner = u
                                                          /\ rows[k].month = m})

Begin(r, kind, user, key) ==
    /\ req[r] = None
    /\ begun < MaxBegun
    /\ begun' = begun + 1
    /\ req' = [req EXCEPT ![r] =
                 [kind |-> kind, stage |-> "db", user |-> user, key |-> key,
                  month |-> month, row |-> None, read |-> None, count |-> 0,
                  late |-> key # None /\ rows[key] # None /\ rows[key].revoked]]
    /\ answer' = [answer EXCEPT ![r] = None]
    /\ UNCHANGED <<month, rows>>

To(r, stage) == req' = [req EXCEPT ![r].stage = stage] /\ UNCHANGED answer
Reply(r, kind, user, remaining, reset) ==
    answer' = [answer EXCEPT ![r] =
        [kind |-> kind, user |-> user, key |-> req[r].key, late |-> req[r].late,
         month |-> req[r].month, remaining |-> remaining, reset |-> reset]]
End(r, kind, user) ==
    req' = [req EXCEPT ![r] = None] /\ Reply(r, kind, user, 0, 0)

-----------------------------------------------------------------------------
\* createForUser: the count, a bcrypt hash of a fresh key, then the insert; after
\* a mutant with > for >=.
OneMore(count, u) == count > Limit[u]
Reached(count, u) == count >= Limit[u]

CountKeys(r) ==
    /\ At(r, "create", "db")
    /\ IF Reached(Counted(req[r].user, req[r].month), req[r].user)
       THEN End(r, "limit", req[r].user)
       ELSE To(r, "save")
    /\ UNCHANGED <<month, rows, begun>>

Save(r, k) ==
    /\ At(r, "create", "save")
    /\ rows[k] = None
    /\ rows' = [rows EXCEPT ![k] = [owner |-> req[r].user, month |-> month,
                                    revoked |-> FALSE, used |-> FALSE]]
    /\ End(r, "created", req[r].user)
    /\ UNCHANGED <<month, begun>>

\* revoke: one UPDATE; no row it can change answers 404.
Revoke(u, k) ==
    /\ rows[k] # None /\ rows[k].owner = u /\ ~rows[k].revoked
    /\ rows' = [rows EXCEPT ![k].revoked = TRUE]
    /\ UNCHANGED <<month, req, answer, begun>>

-----------------------------------------------------------------------------
\* validate: findOne returns any one of the rows with the prefix that are not
\* revoked; after a mutant that does not look at revokedAt.
WithPrefix(k) == {j \in Keys : rows[j] # None /\ PrefixOf[j] = PrefixOf[k]}
Candidates(k) == {j \in WithPrefix(k) : ~rows[j].revoked}

Find(r) ==
    /\ At(r, "validate", "db")
    /\ \/ Candidates(req[r].key) = {} /\ End(r, "refused", None)
       \/ \E j \in Candidates(req[r].key) :
             /\ req' = [req EXCEPT ![r].stage = "bcrypt", ![r].row = j, ![r].read = rows[j]]
             /\ UNCHANGED answer
    /\ UNCHANGED <<month, rows, begun>>

\* bcrypt.compare; after a mutant that trusts the prefix.
PrefixMatches(plaintext, k) == PrefixOf[plaintext] = PrefixOf[k]
Matches(plaintext, k) == plaintext = k

\* The answer does not wait for markUsed, whose update goes on by itself.
Compare(r) ==
    /\ At(r, "validate", "bcrypt")
    /\ IF Matches(req[r].key, req[r].row)
       THEN /\ Reply(r, "admitted", req[r].read.owner, 0, 0)
            /\ req' = [req EXCEPT ![r].kind = "mark", ![r].stage = "save"]
       ELSE End(r, "refused", None)
    /\ UNCHANGED <<month, rows, begun>>

\* markUsed writes one column; after a mutant that saves the entity it read.
SavedWhole(r) == [req[r].read EXCEPT !.used = TRUE]
Marked(r) == [rows[req[r].row] EXCEPT !.used = TRUE]

\* A failure of the update is only logged.
MarkUsed(r) ==
    /\ At(r, "mark", "save")
    /\ rows' \in {rows, [rows EXCEPT ![req[r].row] = Marked(r)]}
    /\ req' = [req EXCEPT ![r] = None]
    /\ UNCHANGED <<month, answer, begun>>

-----------------------------------------------------------------------------
\* getSummary: the counts of the month that runs when they are asked for, then
\* the remainder and the reset date from the time they are answered; after a
\* mutant without Math.max.
Difference(limit, count) == limit - count
Remaining(limit, count) == IF count > limit THEN 0 ELSE limit - count

CountUsage(r) ==
    /\ At(r, "usage", "db")
    /\ req' = [req EXCEPT ![r].stage = "save", ![r].month = month,
                          ![r].count = Counted(req[r].user, month)]
    /\ UNCHANGED <<month, rows, answer, begun>>

Summarise(r) ==
    /\ At(r, "usage", "save")
    /\ req' = [req EXCEPT ![r] = None]
    /\ Reply(r, "usage", req[r].user, Remaining(Limit[req[r].user], req[r].count), month + 1)
    /\ UNCHANGED <<month, rows, begun>>

NextMonth ==
    /\ month < MaxMonth
    /\ month' = month + 1
    /\ UNCHANGED <<rows, req, answer, begun>>

Next ==
    \/ \E r \in Requests :
          \/ \E u \in Users : Begin(r, "create", u, None) \/ Begin(r, "usage", u, None)
          \/ \E k \in Keys : Begin(r, "validate", None, k) \/ Save(r, k)
          \/ CountKeys(r) \/ Find(r) \/ Compare(r) \/ MarkUsed(r)
          \/ CountUsage(r) \/ Summarise(r)
    \/ \E u \in Users, k \in Keys : Revoke(u, k)
    \/ NextMonth

Spec == Init /\ [][Next]_vars

-----------------------------------------------------------------------------
\* Every variable stays within its type; a remainder is never negative.
TypeOK ==
    /\ month \in Months
    /\ rows \in [Keys -> Row \cup {None}]
    /\ req \in [Requests -> Request \cup {None}]
    /\ answer \in [Requests -> Answer \cup {None}]
    /\ begun \in 0 .. MaxBegun

\* Creations that count before others insert pass the allowance, whose window is
\* as long as a bcrypt hash, but by fewer keys than creations can be in flight.
KeyOvershootBounded ==
    \A u \in Users, m \in Months :
        Counted(u, m) <= (IF Limit[u] = 0 THEN 1 ELSE Limit[u]) + Cardinality(Requests) - 1

\* Revocation is final, also when a request that read the key before writes its
\* last_used_at after, and a key never changes hands.
RevocationIsFinal ==
    [][\A k \in Keys : rows[k] # None =>
          /\ rows'[k] # None
          /\ rows'[k].owner = rows[k].owner
          /\ rows[k].revoked => rows'[k].revoked]_vars

\* A request is admitted as the owner of the key it presents, though prefixes
\* collide, and only if the key was not revoked when the request came.
AdmissionsAreOwned ==
    \A r \in Requests : answer[r] # None /\ answer[r].kind = "admitted" =>
        /\ ~answer[r].late
        /\ rows[answer[r].key] # None
        /\ answer[r].user = rows[answer[r].key].owner
=============================================================================
