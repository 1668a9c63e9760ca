---------------------------- MODULE LinkLifecycle ----------------------------
(***************************************************************************)
(* The life of a short link between Postgres and the Redis link cache: the *)
(* redirect hot path, creation, PATCH, DELETE and the hourly cleanup.      *)
(*                                                                         *)
(* Every handler is a sequence of awaited commands. A request is split     *)
(* exactly there: between two of its commands any other request, on any    *)
(* pod, may run. A request that waits for its Redis command holds the      *)
(* command in cmd, with the TTL it computed before it sent it.             *)
(*                                                                         *)
(* inserts, granted and unsettled, and the since and undisturbed fields,   *)
(* are history: no action's guard reads them (inserts only to bound the    *)
(* model).                                                                 *)
(***************************************************************************)
EXTENDS CacheTtl, FiniteSets

CONSTANTS
    Slugs, Users,
    Urls,           \* every destination a row may hold
    HttpUrls,       \* those that pass hasHttpScheme and the DTO validators
    InitialRows,    \* rows a slug may hold at the start, those of older versions included
    Requests,       \* concurrent HTTP requests, over all pods
    Cleaners,       \* concurrent runs of handleCleanup, over all pods
    BatchSize,      \* CLEANUP_BATCH_SIZE
    Retention,      \* RETENTION_MS, in ticks
    ExplicitExpiries, \* values a client may send as expiresAt
    Faults,         \* what may go wrong: "redis" commands fail, statements "abort"
    MaxClock, MaxInserts  \* bounds of the model: the clock, and rows inserted

Ops == {"redirect", "create", "patch", "delete"}
Stages == {"read", "mutate", "cache"}

Row == [owner : Users, url : Urls, expiresAt : Expiry, born : Nat]
Entry == [url : Urls, until : Expiry]
Del == [url |-> None, ttl |-> None]
Command == [url : Urls, ttl : Ttl] \cup {Del}   \* SET link:<slug>, DEL link:<slug>
Request == [op : Ops, stage : Stages, slug : Slugs, user : Users \cup {None},
            url : Urls \cup {None}, expiresAt : Expiry, cmd : Command,
            since : Nat, undisturbed : BOOLEAN]
Sweep == [batch : SUBSET Slugs, current : Slugs \cup {None},
          since : Nat, undisturbed : BOOLEAN]
Answer == [slug : Slugs, status : {302, 404, 410}, url : Urls \cup {None}]

ASSUME LifecycleAssumption ==
    /\ None \notin Slugs \cup Urls \cup Users \cup Row \cup Entry
    /\ None \notin Request \cup Sweep \cup Answer
    /\ HttpUrls \subseteq Urls
    /\ InitialRows \subseteq {row \in Row : row.born = 0}
    /\ BatchSize \in Nat \ {0} /\ Retention \in Nat
    /\ ExplicitExpiries \subseteq Nat
    /\ Faults \subseteq {"redis", "abort"}
    /\ MaxClock \in Nat /\ MaxInserts \in Nat

VARIABLES
    now,        \* wall clock of the pods and of Redis
    db,         \* links table: slug -> row or None
    cache,      \* Redis keys link:<slug>: slug -> entry or None
    req,        \* requests in flight
    sweep,      \* cleanup runs in progress
    answer,     \* the redirect answered in the last step, else None
    inserts,    \* history: rows inserted so far
    granted,    \* history: destinations asked for by an owner of the slug
    unsettled   \* history: slugs whose cache entry nothing vouches for

vars == <<now, db, cache, req, sweep, answer, inserts, granted, unsettled>>

-----------------------------------------------------------------------------
Set(url, expiresAt) == [url |-> url, ttl |-> TtlSecondsUntil(expiresAt, now)]

\* Redis runs a command: the entry it leaves under the slug's key; after a mutant
\* that stores an empty value where it should delete.
StoredEmpty(cmd) == [url |-> cmd.url, until |-> DeadlineOf(cmd.ttl, now)]
Stored(cmd) ==
    IF cmd = Del THEN None
    ELSE [url |-> cmd.url, until |-> DeadlineOf(cmd.ttl, now)]

\* hasHttpScheme, after a mutant without the check.
AnyScheme(url) == url \in Urls
HasHttpScheme(url) == url \in HttpUrls

\* getOwnedLink finds a row of the caller, after a mutant that forgets to compare
\* the owner.
Exists(s, u) == db[s] # None
Owned(s, u) == db[s] # None /\ db[s].owner = u

On(r, s) == req[r] # None /\ req[r].slug = s
Evicting(c, s) == sweep[c] # None /\ sweep[c].current = s

\* History. A request disturbs the others in flight on its slug, and is
\* disturbed by them, unless both only read.
Clash(s, op) ==
    \/ \E r \in Requests : On(r, s) /\ (op # "redirect" \/ req[r].op # "redirect")
    \/ \E c \in Cleaners : Evicting(c, s)
Disturbed(s, op) ==
    [r \in Requests |->
        IF On(r, s) /\ (op # "redirect" \/ req[r].op # "redirect")
        THEN [req[r] EXCEPT !.undisturbed = FALSE] ELSE req[r]]
SweepsDisturbed(s) ==
    [c \in Cleaners |->
        IF Evicting(c, s) THEN [sweep[c] EXCEPT !.undisturbed = FALSE] ELSE sweep[c]]
Unsettle(s, op) == unsettled' = IF Clash(s, op) THEN unsettled \cup {s} ELSE unsettled

\* A request starts to work on a slug (record: the request as its first
\* command leaves it).
Begin(r, record) ==
    /\ req[r] = None
    /\ req' = [Disturbed(record.slug, record.op) EXCEPT
                  ![r] = [record EXCEPT !.undisturbed = ~Clash(record.slug, record.op)]]
    /\ sweep' = SweepsDisturbed(record.slug)
    /\ Unsettle(record.slug, record.op)

Opened(op, stage, s, u, url, expiresAt, cmd) ==
    [op |-> op, stage |-> stage, slug |-> s, user |-> u, url |-> url,
     expiresAt |-> expiresAt, cmd |-> cmd, since |-> inserts, undisturbed |-> TRUE]

-----------------------------------------------------------------------------
Init ==
    /\ now = 0
    /\ db \in [Slugs -> InitialRows \cup {None}]
    /\ cache = [s \in Slugs |-> None]
    /\ req = [r \in Requests |-> None]
    /\ sweep = [c \in Cleaners |-> None]
    /\ answer = None
    /\ inserts = 0
    /\ granted = [s \in Slugs |-> IF db[s] = None THEN {} ELSE {db[s].url}]
    /\ unsettled = {}

-----------------------------------------------------------------------------
\* GET /:slug. The Redis GET answers at once on a hit, whatever the row says;
\* a miss, and a GET that fails, goes on to Postgres.
RedirectHit(s) ==
    /\ cache[s] # None
    /\ answer' = IF HasHttpScheme(cache[s].url)
                 THEN [slug |-> s, status |-> 302, url |-> cache[s].url]
                 ELSE [slug |-> s, status |-> 404, url |-> None]
    /\ UNCHANGED <<now, db, cache, req, sweep, inserts, granted, unsettled>>

RedirectMiss(r, s) ==
    /\ cache[s] = None \/ "redis" \in Faults
    /\ Begin(r, Opened("redirect", "read", s, None, None, None, Del))
    /\ answer' = None
    /\ UNCHANGED <<now, db, cache, inserts, granted>>

\* resolveFromDatabase: the SELECT, the checks, and the SET it sends.
RedirectRead(r) ==
    /\ req[r] # None /\ req[r].op = "redirect" /\ req[r].stage = "read"
    /\ LET s == req[r].slug
           row == db[s]
           refused(code) ==
               /\ req' = [req EXCEPT ![r] = None]
               /\ answer' = [slug |-> s, status |-> code, url |-> None]
       IN  \/ row = None /\ refused(404)
           \/ row # None /\ IsExpired(row.expiresAt, now) /\ refused(410)
           \/ /\ row # None /\ ~IsExpired(row.expiresAt, now)
              /\ ~HasHttpScheme(row.url)
              /\ refused(404)
           \/ /\ row # None /\ ~IsExpired(row.expiresAt, now)
              /\ HasHttpScheme(row.url)
              /\ req' = [req EXCEPT ![r].stage = "cache",
                                    ![r].cmd = Set(row.url, row.expiresAt)]
              /\ answer' = None
    /\ UNCHANGED <<now, db, cache, sweep, inserts, granted, unsettled>>

-----------------------------------------------------------------------------
\* The row a creation commits; LinkCreation models the quota check and the
\* transaction that end in this step.
Insert(s, u, url, expiresAt) ==
    /\ db[s] = None
    /\ inserts < MaxInserts
    /\ inserts' = inserts + 1
    /\ db' = [db EXCEPT ![s] = [owner |-> u, url |-> url, expiresAt |-> expiresAt,
                                born |-> inserts + 1]]
    /\ granted' = [granted EXCEPT ![s] = @ \cup {url}]

\* POST /api/urls: the commit, then linkCache.set.
Create(r, s, u, url, expiresAt) ==
    /\ Insert(s, u, url, expiresAt)
    /\ Begin(r, Opened("create", "cache", s, u, url, expiresAt, Set(url, expiresAt)))
    /\ answer' = None
    /\ UNCHANGED <<now, cache>>

\* POST /api/mcp: the commit alone, the cache is left to the redirect path.
McpCreate(s, u, url, expiresAt) ==
    /\ Insert(s, u, url, expiresAt)
    /\ req' = Disturbed(s, "create")
    /\ sweep' = SweepsDisturbed(s)
    /\ Unsettle(s, "create")
    /\ answer' = None
    /\ UNCHANGED <<now, cache>>

-----------------------------------------------------------------------------
\* getOwnedLink for PATCH and DELETE; 404 and 403 end the request unseen.
CheckOwner(r, op, s, u, url) ==
    /\ Owned(s, u)
    /\ Begin(r, Opened(op, "mutate", s, u, url, db[s].expiresAt, Del))
    /\ granted' = [granted EXCEPT ![s] = 
                      IF op = "patch" /\ db[s].owner = u THEN @ \cup {url} ELSE @]
    /\ answer' = None
    /\ UNCHANGED <<now, db, cache, inserts>>

PatchCheck(r, s, u, url) == CheckOwner(r, "patch", s, u, url)
DeleteCheck(r, s, u) == CheckOwner(r, "delete", s, u, None)

\* UPDATE ... WHERE short_url AND user_id, its affected count ignored; after a
\* mutant that leaves the user out.
UpdatedBySlug(s, u, url) ==
    IF db[s] # None THEN [db EXCEPT ![s].url = url] ELSE db
Updated(s, u, url) == IF Owned(s, u) THEN [db EXCEPT ![s].url = url] ELSE db

\* LinksController.update writes through the link object that getOwnedLink read,
\* with the new destination; after a mutant that keeps the one it had.
WriteThroughOld(r) ==
    IF db[req[r].slug] = None THEN Del
    ELSE Set(db[req[r].slug].url, req[r].expiresAt)
WriteThrough(r) ==
    IF IsExpired(req[r].expiresAt, now) THEN Del
    ELSE Set(req[r].url, req[r].expiresAt)

PatchUpdate(r) ==
    /\ req[r] # None /\ req[r].op = "patch" /\ req[r].stage = "mutate"
    /\ db' = Updated(req[r].slug, req[r].user, req[r].url)
    /\ req' = [req EXCEPT ![r].stage = "cache", ![r].cmd = WriteThrough(r)]
    /\ answer' = None
    /\ UNCHANGED <<now, cache, sweep, inserts, granted, unsettled>>

\* DELETE ... WHERE short_url: the owner is not part of the statement.
DeleteRow(r) ==
    /\ req[r] # None /\ req[r].op = "delete" /\ req[r].stage = "mutate"
    /\ db' = [db EXCEPT ![req[r].slug] = None]
    /\ req' = [req EXCEPT ![r].stage = "cache", ![r].cmd = Del]
    /\ answer' = None
    /\ UNCHANGED <<now, cache, sweep, inserts, granted, unsettled>>

-----------------------------------------------------------------------------
\* The request ends; a redirect answers with the link it read.
Finish(r) ==
    /\ req' = [req EXCEPT ![r] = None]
    /\ answer' = IF req[r].op = "redirect"
                 THEN [slug |-> req[r].slug, status |-> 302, url |-> req[r].cmd.url]
                 ELSE None

\* Redis runs the request's command. The slug is settled again when nothing
\* that clashed with its last writer is left in flight.
CacheApply(r) ==
    /\ req[r] # None /\ req[r].stage = "cache"
    /\ LET s == req[r].slug
       IN  /\ cache' = [cache EXCEPT ![s] = Stored(req[r].cmd)]
           /\ unsettled' = IF \A q \in Requests : On(q, s) => req[q].undisturbed
                           THEN unsettled \ {s} ELSE unsettled
    /\ Finish(r)
    /\ UNCHANGED <<now, db, sweep, inserts, granted>>

\* The command fails: safeSet and safeDel log it and the handler goes on.
CacheLose(r) ==
    /\ "redis" \in Faults
    /\ req[r] # None /\ req[r].stage = "cache"
    /\ unsettled' = IF req[r].op = "redirect" THEN unsettled
                    ELSE unsettled \cup {req[r].slug}
    /\ Finish(r)
    /\ UNCHANGED <<now, db, cache, sweep, inserts, granted>>

\* A statement throws, or the pod dies, before the request's next command.
Abort(r) ==
    /\ "abort" \in Faults
    /\ req[r] # None
    /\ req' = [req EXCEPT ![r] = None]
    /\ unsettled' = IF req[r].stage = "cache" /\ req[r].op # "redirect"
                    THEN unsettled \cup {req[r].slug} ELSE unsettled
    /\ answer' = None
    /\ UNCHANGED <<now, db, cache, sweep, inserts, granted>>

-----------------------------------------------------------------------------
\* handleCleanup. LessThan is strict where isExpired is not.
Overdue(s) == db[s] # None /\ db[s].expiresAt # None /\ db[s].expiresAt < now

AnyOf(overdue, size) ==
    {batch \in SUBSET overdue :
        Cardinality(batch) = IF Cardinality(overdue) < size
                             THEN Cardinality(overdue) ELSE size}

\* The rows find may return: no ORDER BY, so any BatchSize of them; after a
\* mutant with an off-by-one in take.
BatchesOneShort == AnyOf({s \in Slugs : Overdue(s)}, BatchSize - 1)
Batches == AnyOf({s \in Slugs : Overdue(s)}, BatchSize)

SweepFind(c) ==
    /\ sweep[c] = None
    /\ \E s \in Slugs : Overdue(s)
    /\ \E batch \in Batches :
          sweep' = [sweep EXCEPT ![c] = [batch |-> batch, current |-> None,
                                         since |-> inserts, undisturbed |-> TRUE]]
    /\ answer' = None
    /\ UNCHANGED <<now, db, cache, req, inserts, granted, unsettled>>

\* removeFromDbAndCache: the DELETE by slug alone, then linkCache.del.
SweepDelete(c, s) ==
    /\ sweep[c] # None /\ sweep[c].current = None /\ s \in sweep[c].batch
    /\ db' = [db EXCEPT ![s] = None]
    /\ req' = Disturbed(s, "delete")
    /\ sweep' = [SweepsDisturbed(s) EXCEPT
                    ![c].batch = @ \ {s}, ![c].current = s,
                    ![c].undisturbed = ~Clash(s, "delete")]
    /\ Unsettle(s, "delete")
    /\ answer' = None
    /\ UNCHANGED <<now, cache, inserts, granted>>

\* deleteOneSafely: the statement throws, is logged, and the run goes on.
SweepSkip(c, s) ==
    /\ "abort" \in Faults
    /\ sweep[c] # None /\ sweep[c].current = None /\ s \in sweep[c].batch
    /\ sweep' = [sweep EXCEPT ![c].batch = @ \ {s}]
    /\ answer' = None
    /\ UNCHANGED <<now, db, cache, req, inserts, granted, unsettled>>

SweepEvict(c) ==
    /\ sweep[c] # None /\ sweep[c].current # None
    /\ LET s == sweep[c].current
       IN  \/ /\ cache' = [cache EXCEPT ![s] = None]
              /\ unsettled' = IF sweep[c].undisturbed THEN unsettled \ {s} ELSE unsettled
           \/ /\ "redis" \in Faults
              /\ cache' = cache
              /\ unsettled' = unsettled \cup {s}
    /\ sweep' = [sweep EXCEPT ![c].current = None, ![c].undisturbed = TRUE]
    /\ answer' = None
    /\ UNCHANGED <<now, db, req, inserts, granted>>

SweepEnd(c) ==
    /\ sweep[c] # None /\ sweep[c].current = None /\ sweep[c].batch = {}
    /\ sweep' = [sweep EXCEPT ![c] = None]
    /\ answer' = None
    /\ UNCHANGED <<now, db, cache, req, inserts, granted, unsettled>>

\* The pod dies in the middle of the batch.
SweepCrash(c) ==
    /\ "abort" \in Faults
    /\ sweep[c] # None
    /\ sweep' = [sweep EXCEPT ![c] = None]
    /\ unsettled' = unsettled \cup ({sweep[c].current} \ {None})
    /\ answer' = None
    /\ UNCHANGED <<now, db, cache, req, inserts, granted>>

-----------------------------------------------------------------------------
\* Time passes, and Redis drops the entries whose TTL has run out.
Tick ==
    /\ now < MaxClock
    /\ now' = now + 1
    /\ cache' = [s \in Slugs |->
                    IF cache[s] # None /\ IsExpired(cache[s].until, now + 1)
                    THEN None ELSE cache[s]]
    /\ answer' = None
    /\ UNCHANGED <<db, req, sweep, inserts, granted, unsettled>>

\* Redis runs with allkeys-lru: any key may go at any time.
EvictLru(s) ==
    /\ cache[s] # None
    /\ cache' = [cache EXCEPT ![s] = None]
    /\ answer' = None
    /\ UNCHANGED <<now, db, req, sweep, inserts, granted, unsettled>>

-----------------------------------------------------------------------------
\* resolveExpiry
Expiries == ExplicitExpiries \cup {now + Retention}

ClientRequest ==
    \/ \E s \in Slugs : RedirectHit(s)
    \/ \E r \in Requests, s \in Slugs : RedirectMiss(r, s)
    \/ \E r \in Requests, s \in Slugs, u \in Users, url \in HttpUrls, e \in Expiries :
          Create(r, s, u, url, e)
    \/ \E s \in Slugs, u \in Users, url \in HttpUrls, e \in Expiries :
          McpCreate(s, u, url, e)
    \/ \E r \in Requests, s \in Slugs, u \in Users, url \in HttpUrls :
          PatchCheck(r, s, u, url)
    \/ \E r \in Requests, s \in Slugs, u \in Users : DeleteCheck(r, s, u)

RequestStep(r) ==
    RedirectRead(r) \/ PatchUpdate(r) \/ DeleteRow(r) \/ CacheApply(r) \/ CacheLose(r)

CleanupStep(c) ==
    \/ SweepFind(c)
    \/ \E s \in Slugs : SweepDelete(c, s)
    \/ \E s \in Slugs : SweepSkip(c, s)
    \/ SweepEvict(c)
    \/ SweepEnd(c)

Next ==
    \/ ClientRequest
    \/ \E r \in Requests : RequestStep(r) \/ Abort(r)
    \/ \E c \in Cleaners : CleanupStep(c) \/ SweepCrash(c)
    \/ Tick
    \/ \E s \in Slugs : EvictLru(s)

Spec == Init /\ [][Next]_vars

\* Handlers run to their end, the cron fires again, and a DELETE of the cleanup
\* that is tried again and again goes through at last. Clients owe nothing.
Fairness ==
    /\ WF_vars(Tick)
    /\ \A r \in Requests : WF_vars(RequestStep(r))
    /\ \A c \in Cleaners :
          /\ WF_vars(CleanupStep(c))
          /\ \A s \in Slugs : SF_vars(SweepDelete(c, s))

LiveSpec == Spec /\ Fairness

-----------------------------------------------------------------------------
\* Every variable stays within its type; an answered redirect carries a URL
\* exactly when it is a 302.
TypeOK ==
    /\ now \in Nat
    /\ db \in [Slugs -> Row \cup {None}]
    /\ cache \in [Slugs -> Entry \cup {None}]
    /\ req \in [Requests -> Request \cup {None}]
    /\ sweep \in [Cleaners -> Sweep \cup {None}]
    /\ answer \in Answer \cup {None}
    /\ inserts \in Nat
    /\ granted \in [Slugs -> SUBSET Urls]
    /\ unsettled \in SUBSET Slugs

\* A writer has changed the row and its cache command is still to come.
Writing(s) ==
    \/ \E r \in Requests : On(r, s) /\ req[r].stage = "cache" /\ req[r].op # "redirect"
    \/ \E c \in Cleaners : Evicting(c, s)

EntryMatchesRow(s) ==
    cache[s] # None =>
        /\ db[s] # None /\ cache[s].url = db[s].url
        /\ cache[s].until = None => LeavesNoTtl(db[s].expiresAt, now)

\* Write-through and invalidation are complete: once a slug's requests have not
\* overlapped a writer and no Redis command or writer of it was lost (or an
\* undisturbed writer has since repaired it), its cache entry is the row's
\* destination, a deleted row has no entry, and an entry without a TTL belongs
\* to a link with less than a second left, which the next cleanup evicts.
SettledAgreement ==
    \A s \in Slugs : s \notin unsettled /\ ~Writing(s) => EntryMatchesRow(s)

\* Whatever races, failures and slug reuse happen, a 302 only ever sends the
\* visitor to an http(s) destination that an owner of that slug asked for.
RedirectsAreGranted ==
    answer # None /\ answer.status = 302 =>
        answer.url \in granted[answer.slug] \cap HttpUrls

\* A row changes destination only under a PATCH of its present owner. It goes
\* only by a DELETE of its owner or a cleanup that found it overdue, except that
\* both delete by slug alone: a row inserted after their check goes as well.
ChangesAreAuthorised ==
    [][\A s \in Slugs : db[s] # None =>
        /\ (db'[s] # None /\ db'[s] # db[s]) =>
              /\ db'[s] = [db[s] EXCEPT !.url = db'[s].url]
              /\ \E r \in Requests : /\ On(r, s) /\ req[r].op = "patch"
                                     /\ req[r].user = db[s].owner
                                     /\ req[r].url = db'[s].url
        /\ db'[s] = None =>
              \/ \E r \in Requests : /\ On(r, s) /\ req[r].op = "delete"
                                     /\ \/ req[r].user = db[s].owner
                                        \/ req[r].since < db[s].born
              \/ \E c \in Cleaners : /\ sweep[c] # None /\ s \in sweep[c].batch
                                     /\ \/ Overdue(s)
                                        \/ sweep[c].since < db[s].born]_vars

\* A link past its expiry is removed at last, although one cleanup takes a
\* bounded batch in no particular order, statements fail and pods die.
OverdueRowsGo == \A s \in Slugs : Overdue(s) ~> db[s] = None

-----------------------------------------------------------------------------
\* Claims of the repository's documents and comments that the code breaks; each
\* is checked by a run of its own that expects the violation.

\* ADR 0010, decision 1: "Expired links are never served as valid redirects."
ExpiredNeverServed ==
    answer # None /\ answer.status = 302 /\ db[answer.slug] # None =>
        ~IsExpired(db[answer.slug].expiresAt, now)
=============================================================================
