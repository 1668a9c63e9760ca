----------------------------- MODULE LinkCreation -----------------------------
(***************************************************************************)
(* LinksService.create: the monthly allowance, the slug retry and the      *)
(* transaction that inserts a link together with its outbox row.           *)
(*                                                                         *)
(* Transactions run at READ COMMITTED on a table whose primary key is the  *)
(* slug: an INSERT waits for an uncommitted one of the same slug, then     *)
(* fails or goes through. A COMMIT may take effect and its reply be lost.  *)
(***************************************************************************)
EXTENDS Integers, FiniteSets

CONSTANTS
    None,
    Users,            \* accounts, subject to the allowance
    Guest,            \* the shared guest account, exempt from it
    Slugs,
    Creations,        \* concurrent creations, over REST and MCP and all pods
    Limit,            \* resolveLinkLimit of each account
    MaxSlugRetries,   \* MAX_SLUG_RETRIES
    Faults,           \* "db": a statement throws; "reply": a COMMIT's reply is lost
    MaxBegun, MaxMonth  \* bounds of the model: creations begun, months

Actors == Users \cup {Guest}
Months == 0 .. MaxMonth
Link == [owner : Actors, month : Months]
Tx == [user : Actors, month : Months,      \* the month whose rows it counts
       stage : {"count", "attempt", "insert", "outbox", "commit"},
       attempts : 0 .. MaxSlugRetries - 1, slug : Slugs \cup {None},
       at : Months,                        \* created_at, fixed as the transaction starts
       pending : SUBSET {"link", "outbox"}]  \* rows written and not committed

ASSUME CreationAssumption ==
    /\ None \notin Slugs \cup Link \cup Tx /\ Guest \notin Users
    /\ IsFiniteSet(Slugs) /\ IsFiniteSet(Creations)
    /\ Limit \in [Users -> Nat] /\ MaxSlugRetries \in Nat \ {0}
    /\ Faults \subseteq {"db", "reply"}
    /\ MaxBegun \in Nat /\ MaxMonth \in Nat

VARIABLES
    month,    \* the calendar month (UTC)
    links,    \* committed rows: slug -> link or None
    outbox,   \* committed link_created rows of each slug
    tx,       \* creations in flight
    begun,    \* history: creations begun, which the model bounds
    created,  \* history: links ever committed under each slug
    made      \* history: links committed by each request, up to its successor

vars == <<month, links, outbox, tx, begun, created, made>>

-----------------------------------------------------------------------------
Init ==
    /\ month = 0
    /\ links = [s \in Slugs |-> None]
    /\ outbox = [s \in Slugs |-> 0]
    /\ tx = [c \in Creations |-> None]
    /\ begun = 0
    /\ created = [s \in Slugs |-> 0]
    /\ made = [c \in Creations |-> 0]

At(c, stage) == tx[c] # None /\ tx[c].stage = stage

\* countLinksThisMonth: the rows that still exist.
Counted(u, m) == Cardinality({s \in Slugs : links[s] # None /\ links[s].owner = u
                                                           /\ links[s].month = m})

\* create computes the month's bounds at once; createGuest skips the allowance.
Begin(c, u) ==
    /\ tx[c] = None
    /\ begun < MaxBegun
    /\ begun' = begun + 1
    /\ tx' = [tx EXCEPT ![c] = [user |-> u, month |-> month,
                                stage |-> IF u = Guest THEN "attempt" ELSE "count",
                                attempts |-> 0, slug |-> None, at |-> month,
                                pending |-> {}]]
    /\ made' = [made EXCEPT ![c] = 0]
    /\ UNCHANGED <<month, links, outbox, created>>

\* The creation ends, with its link, with 429, 409 or an error.
Ended(c) == [tx EXCEPT ![c] = None]

\* Number of links at which the 429 is answered, after a mutant with > for >=.
OneMore(count, u) == count > Limit[u]
Reached(count, u) == count >= Limit[u]

Count(c) ==
    /\ At(c, "count")
    /\ tx' = IF Reached(Counted(tx[c].user, tx[c].month), tx[c].user) THEN Ended(c)
             ELSE [tx EXCEPT ![c].stage = "attempt"]
    /\ UNCHANGED <<month, links, outbox, begun, created, made>>

-----------------------------------------------------------------------------
\* tryCreate: a random slug and a transaction.
Attempt(c, s) ==
    /\ At(c, "attempt")
    /\ tx' = [tx EXCEPT ![c].stage = "insert", ![c].slug = s, ![c].at = month]
    /\ UNCHANGED <<month, links, outbox, begun, created, made>>

\* The INSERT waits while another transaction has the slug uncommitted. After a mutant
\* that locks the slug in share mode first, two wait for each other; after one that
\* upserts, no row is in the way.
SharedFirst(c, s) == \E d \in Creations \ {c} : tx[d] # None /\ tx[d].slug = s
Locked(c, s) == \E d \in Creations \ {c} :
                   tx[d] # None /\ tx[d].slug = s /\ "link" \in tx[d].pending
NeverTaken(s) == FALSE
Taken(s) == links[s] # None

Insert(c) ==
    /\ At(c, "insert")
    /\ ~Locked(c, tx[c].slug) /\ ~Taken(tx[c].slug)
    /\ tx' = [tx EXCEPT ![c].stage = "outbox", ![c].pending = {"link"}]
    /\ UNCHANGED <<month, links, outbox, begun, created, made>>

\* retryOnSlugConflict, after the rollback; after a mutant with <= for < in the loop.
RetriedOnceMore(c) ==
    IF tx[c].attempts = MaxSlugRetries THEN Ended(c)
    ELSE [tx EXCEPT ![c].stage = "attempt", ![c].attempts = @ + 1]
Retried(c) ==
    IF tx[c].attempts + 1 = MaxSlugRetries THEN Ended(c)
    ELSE [tx EXCEPT ![c].stage = "attempt", ![c].attempts = @ + 1]

Conflict(c) ==
    /\ At(c, "insert")
    /\ ~Locked(c, tx[c].slug) /\ Taken(tx[c].slug)
    /\ tx' = Retried(c)
    /\ UNCHANGED <<month, links, outbox, begun, created, made>>

SaveOutbox(c) ==
    /\ At(c, "outbox")
    /\ tx' = [tx EXCEPT ![c].stage = "commit", ![c].pending = @ \cup {"outbox"}]
    /\ UNCHANGED <<month, links, outbox, begun, created, made>>

-----------------------------------------------------------------------------
\* The rows of an attempt become visible, all in one step.
Publish(c, rows) ==
    LET s == tx[c].slug
    IN  /\ links' = IF "link" \in rows
                    THEN [links EXCEPT ![s] = [owner |-> tx[c].user, month |-> tx[c].at]]
                    ELSE links
        /\ created' = IF "link" \in rows THEN [created EXCEPT ![s] = @ + 1] ELSE created
        /\ made' = IF "link" \in rows THEN [made EXCEPT ![c] = @ + 1] ELSE made
        /\ outbox' = IF "outbox" \in rows THEN [outbox EXCEPT ![s] = @ + 1] ELSE outbox

Commit(c) ==
    /\ At(c, "commit")
    /\ Publish(c, tx[c].pending)
    /\ tx' = Ended(c)
    /\ UNCHANGED <<month, begun>>

\* tryOnce rethrows every error but a unique violation; after a mutant that
\* retries on any error.
RetryAnyError(c) == [tx EXCEPT ![c].stage = "attempt", ![c].pending = {}]
Rethrown(c) == Ended(c)

CommitReplyLost(c) ==
    /\ "reply" \in Faults
    /\ At(c, "commit")
    /\ Publish(c, tx[c].pending)
    /\ tx' = Rethrown(c)
    /\ UNCHANGED <<month, begun>>

\* What a failed attempt leaves: nothing, for the rows are in one transaction;
\* after a mutant that runs each statement on its own.
Autocommitted(c) == tx[c].pending
Kept(c) == {}

\* A statement throws, or the pod dies.
Fail(c) ==
    /\ "db" \in Faults
    /\ tx[c] # None
    /\ Publish(c, Kept(c))
    /\ tx' = Ended(c)
    /\ UNCHANGED <<month, begun>>

-----------------------------------------------------------------------------
\* DELETE /api/urls/:slug and the cleanup, which LinkLifecycle models.
Delete(s) ==
    /\ links[s] # None
    /\ links' = [links EXCEPT ![s] = None]
    /\ UNCHANGED <<month, outbox, tx, begun, created, made>>

NextMonth ==
    /\ month < MaxMonth
    /\ month' = month + 1
    /\ UNCHANGED <<links, outbox, tx, begun, created, made>>

\* What the handler does next when nothing fails.
Proceed(c) ==
    \/ Count(c)
    \/ \E s \in Slugs : Attempt(c, s)
    \/ Insert(c) \/ Conflict(c) \/ SaveOutbox(c) \/ Commit(c)

CreationStep(c) == Proceed(c) \/ CommitReplyLost(c) \/ Fail(c)

Next ==
    \/ \E c \in Creations, u \in Actors : Begin(c, u)
    \/ \E c \in Creations : CreationStep(c)
    \/ \E s \in Slugs : Delete(s)
    \/ NextMonth

Spec == Init /\ [][Next]_vars

\* A handler that can go on does; no fault ever comes to the help of one that waits.
Fairness == \A c \in Creations : WF_vars(Proceed(c))
LiveSpec == Spec /\ Fairness

-----------------------------------------------------------------------------
\* Every variable stays within its type; the retry loop makes MaxSlugRetries
\* attempts at most.
TypeOK ==
    /\ month \in Months
    /\ links \in [Slugs -> Link \cup {None}]
    /\ outbox \in [Slugs -> Nat]
    /\ tx \in [Creations -> Tx \cup {None}]
    /\ begun \in 0 .. MaxBegun
    /\ created \in [Slugs -> Nat]
    /\ made \in [Creations -> Nat]

\* Whatever fails half-way, every link that was ever created has its
\* link_created row, and no row announces a link that was not.
OutboxComplete == \A s \in Slugs : outbox[s] = created[s]

\* The slug retry creates one link at most for one request, also when a COMMIT
\* took effect and its reply was lost.
OneLinkPerRequest == \A c \in Creations : made[c] <= 1

\* The count comes before the insert, so concurrent creations, and ones that
\* straddle a month's end, may pass the allowance; but by fewer than the
\* creations that can be in flight at once, however links are deleted meanwhile.
OvershootBounded ==
    \A u \in Users, m \in Months :
        Counted(u, m) <= (IF Limit[u] = 0 THEN 1 ELSE Limit[u]) + Cardinality(Creations) - 1

(***************************************************************************)
(* Seen from outside, the count, the attempts and the statements of a      *)
(* creation are one step of a registry: a link and its event appear whole, *)
(* under a slug no link has, for the account that asked, dated within the  *)
(* request, and once; whatever failed or was lost leaves nothing.          *)
(***************************************************************************)
Asked == [c \in Creations |-> IF tx[c] = None THEN None
                              ELSE [user |-> tx[c].user, since |-> tx[c].month]]
Registry == INSTANCE LinkRegistry
    WITH Users <- Actors, Requests <- Creations,
         now <- month, registry <- links, announced <- outbox, asked <- Asked
ImplementsLinkRegistry == Registry!Spec

ASSUME RequestAssumption == None \notin Registry!Request

\* Every creation ends, and without a fault that ends it: the retries on a slug space
\* that is full give up, and no creation waits for another's slug for ever.
CreationsEnd == \A c \in Creations : tx[c] # None ~> tx[c] = None
=============================================================================
