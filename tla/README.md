# Formal models of mikrouli

mikrouli is a URL shortener: a NestJS API over Postgres, Redis and ClickHouse, and
a React client. This directory holds TLA+ models of its core logic, the TLC runs
that check them on small instances, and theorems proved with TLAPS. Paths below are
relative to the repository root.

    tlc -workers 2 -config LinkLifecycle_safety.cfg MCLinkLifecycle
    tlapm LinkLifecycleProofs.tla

`PROJECT.json` lists the components, the runs, the source lines behind every
definition (`map`), the hazards each property is aimed at, and for each property a
mutant of the model that breaks it.

## The system

| Part | State | Operations | Interacts with |
|---|---|---|---|
| Redirect hot path (`apps/api/src/redirect`) | none of its own | `GET /:slug`: cache lookup, else SELECT, checks, SET | link cache, `links`, click statistics |
| Link management (`apps/api/src/links`) | `links` table | create (REST, guest, MCP), PATCH, DELETE, list | link cache, allowance, outbox |
| Link cache (`cache/`, `redis/`) | Redis `link:<slug>` | get, set with TTL, del, all errors swallowed | shares an `allkeys-lru` Redis with the sessions |
| Expired-link cleanup (`cleanup/`) | none | hourly batch on every pod: SELECT, then DELETE and DEL one by one | `links`, link cache |
| Monthly allowance (`usage/`) | counts rows of the month | count links or keys, compare with the plan | `links`, `api_keys` |
| Outbox (`outbox/`) | `outbox` table | insert within the link's transaction | nobody consumes it yet |
| Refresh sessions (`auth/auth.service.ts`, `auth.controller.ts`) | Redis `auth:refresh:<family>`, cookie jars | sign-in, refresh, logout | accounts, Redis |
| Accounts (`users/`) | `users`, `provider_accounts` | register, check a password, find or link or create for a GitHub identity | sessions |
| GitHub sign-in (`auth/github.*`) | OAuth state in Redis | issue a state, consume it, choose an email, redirect | accounts |
| API keys (`api-keys/`) | `api_keys` | create, revoke, validate, mark used | allowance |
| Admission and throttling (`common/`, guards) | per-pod counters, cached guest id | shed or count, pick a guard, admit as whom | accounts, API keys |
| Click statistics (`stats/`, `clickhouse/`) | ClickHouse buffer and table | insert nobody waits for, four queries of a reading | redirect |
| Error answers (`common/` filters, `apps/web/src/api`) | none | exception, filter, problem document, client error, statement | every handler |
| Web client (`apps/web`) | query cache, forms, storage | probe, sign in and out, edit links and keys, preferences | the API |

What is hard here is not in any single function. Every handler is a chain of
awaited commands to Postgres, Redis or ClickHouse without a common transaction; several
requests and several pods run at once (`k8s/base/api/hpa.yaml` scales the API to two
replicas); cache errors are logged and swallowed; cleanup runs on every replica;
slugs can be used again after a deletion; and in the client an answer meets a page
that has moved on since its request was sent.

What makes each part correct:

* redirects and cache: a visitor is only ever sent to an http(s) destination an
  owner of the slug chose; the cache agrees with the table whenever nothing raced
  or failed; expired rows go away in the end;
* links: a row changes only under its owner's request or the cleanup; a link is
  never replaced by another creation; one request makes at most one link; every
  link has its outbox row; an allowance is passed by a bounded number only;
* sessions: a token that was handed out works until it expires, is logged out or
  its entry is evicted; a logout is final for its family;
* accounts: an email has one account and an identity opens one; no account is
  locked out by a failure half-way; an account is answered only to what opens it;
* keys and admission: a revocation is final; a key admits its owner only; the guests of
  an address keep within their budget, which is apart from that of credentials;
* statistics: a reading counts no redirect twice and misses none that was kept;
* client: the user shown is the one the cookie belongs to, a page shows that user's
  data, a settled list is the server's, and a refusal reaches the visitor as what it was.

## Modules

| Module | Models |
|---|---|
| `CacheTtl` | TTL computation (`link-cache.service.ts`), SET with or without EX (`redis.service.ts`), `isExpired`; pure operators |
| `LinkLifecycle` | redirect, create, MCP create, PATCH, DELETE and cleanup between Postgres and Redis; extends `CacheTtl` |
| `LinkRegistry` | abstract: what creation promises, with no counts, retries, statements or failures |
| `LinkCreation` | `LinksService.create`: allowance, slug retry, transaction with the outbox row; implements `LinkRegistry` |
| `RefreshSessions` | `issueTokens`, `rotateRefresh`, `revokeRefresh`, their controllers, and browsers' jars |
| `AccountRegistry` | abstract: what the accounts promise, with no tables, transactions or failures |
| `ProviderAccounts` | `UsersService`: registration, password sign-in, find-or-link-or-create; implements `AccountRegistry` |
| `GithubSignIn` | `GithubStateStore`, `GithubStrategy.validate`, the guard and the redirect filter |
| `ApiKeys` | `ApiKeysService` and the usage summary |
| `Admission` | throttler guard, route guards |
| `GuestIdentity` | `UsersService.getGuestUserId` with its await, the pods' caches of the id, seeding and restarts |
| `ClickStatistics` | recording, ClickHouse's buffer, a reading and what the page derives from it |
| `ApiAnswers` | what each stage throws, the problem document, the contract, the client's statement |
| `QueryCache` | one TanStack query as the pages use it; pure operators |
| `WebSession` | the cookie, `/me`, sign-in, registration, logout, route guards, the page's query |
| `WebLinks`, `WebKeys` | the dashboard and the API-keys page against the rows of the server |
| `WebLanding` | the guest's link and the three components that remember it |
| `WebPreferences` | color mode and language: head, provider, panel, storage, operating system |
| `MC*` | values of structured constants, symmetry sets, and two sums: `MCSurface`, and `MCAdmission` of `Admission` and `GuestIdentity` |
| `*Proofs` | the theorems of the module of that name; `SurfaceProofs` those of all modules that `MCSurface` puts side by side; `AllowanceProofs` holds the arithmetic of `LinkCreation` and `ApiKeys` in common |

A server handler is cut at its awaits: an action is one awaited command together
with the synchronous code up to the next one, and between two of them any other
request, on any pod, may run. A client handler is cut where it waits for an answer.
Variables marked "history" are read by no guard, except where they bound the model.

**LinkLifecycle.** `db` is the `links` table, `cache` the `link:<slug>` keys with the
time they die, `req` the requests in flight, `sweep` the cleanup runs, `answer` the
redirect that was just answered. `RedirectRead` is the SELECT, the expiry and scheme
checks, and the computation of the TTL; the SET it leads to is `CacheApply`, or
`CacheLose` when Redis throws and `safeSet` logs. `Create` is the commit whose inner steps
`LinkCreation` has; `McpCreate` commits and sends no cache command. `PatchUpdate`
ignores the affected count, `DeleteRow` and `SweepDelete` name the slug alone, as the
statements do. `Abort` is a throwing statement or a pod that dies, `SweepCrash` the same
in a cleanup, `EvictLru` an eviction by Redis. The clock counts ticks,
`TicksPerSecond` to a second, because the part of a second that the TTL's floor drops
decides whether a SET carries EX. `granted[s]` are the destinations an owner of the slug
ever asked for, `unsettled` the slugs whose last writer overlapped another request
or lost its command and was not repaired since; `inserts`, `born` and `since`
number the rows and say which row a check saw.

**LinkCreation.** `tx[c]` is one call of `create` or `createGuest`: count, draw a slug,
INSERT the link, INSERT the outbox row, COMMIT. The database is modelled from how the
code relies on it: READ COMMITTED, a primary key on the slug, an INSERT that waits for
an uncommitted row of the same key, atomic commit, and a COMMIT that may take effect
with its reply lost. The bounds of the count are fixed when `create` starts and
`created_at` when the transaction does, so a creation may straddle the month's end.
`Asked` forgets everything of a transaction but who asked and since when, and
`ImplementsLinkRegistry` is the `Spec` of `LinkRegistry` under that mapping: a link must
appear with its announcement in one step, once for a request, under a slug that is free,
in the name of who asked, and dated between the start of the request and now. A retry
after a lost reply, a row outside the transaction, an upsert or a date taken at another
moment would each be a step the registry does not have.

**RefreshSessions.** `store` is the allowlist, `jar` the refresh cookie of each browser,
`req` the handlers in flight, answers on their way included (`Receive` delivers them in
any order). A logout without a cookie touches no entry and clears the cookies all the same. Families and `jti`s are numbers drawn from `issued`. A Redis command
that throws may or may not have run.

**ProviderAccounts.** `accounts` and `links` are the committed rows of `users` and
`provider_accounts`; a request holds the rows it has written and not committed, and an
INSERT that meets another's waits. `Violation` (23505) ends a first pass and starts the
second, which is the only retry; in a second pass it ends the request with 500, which the
registry sees as a stutter and `SecondPassLands` as a race that was lost to a linked row. `Registered` maps both tables to the registry of
`AccountRegistry`, and `ImplementsRegistry` is that module's `Spec` under the mapping:
an account must appear with an email nobody has and with what opens it, in one step.

**GithubSignIn.** `states` are the keys in Redis; `Verify` is GETDEL. The list GitHub
returns, the exchange and `UsersService` may each fail; the redirect filter maps what
was thrown to the slug in the query string.

**ApiKeys.** `rows` is `api_keys`; `Find` returns any row with the prefix, `Compare` is the
end of bcrypt, and `MarkUsed` runs after the answer.

**Admission** has no steps inside a request: `hits` are the counters, counted name by name
until one refuses, in the order of their ttl as the library sorts them. The window of the
redirect name is the shorter one and ends by itself (`ExpireShort`).

**GuestIdentity.** A guest that Admission lets in looks at its pod's field; if it is empty
the handler awaits the SELECT (`Ask`, `Select`, `Resume`), and what comes in between are
other guests of that pod, the seeding, a second seeding and a restart. `held` are the ids
the row has had since a pod started; the two modules share no variable.

**ClickStatistics.** A redirect starts an insert; an insert lands in the buffer; a flush
moves the buffer to the table; a stop of ClickHouse loses the buffer. The queries of a
reading take their snapshots one at a time.

**ApiAnswers.** A request passes stages; what is thrown at one of them becomes a problem
document, then what the client's error keeps of it, then what the page says.

**Client modules.** `QueryCache` has the operations the pages cause: mount, invalidation
(which joins a first load and restarts any later one), one retry, answer. Requests take
their snapshot on the server at some moment before they are answered, so answers of
loads and of changes cross. History variables (`carried`, `missed`, `untold`, `unheard`)
record the cases for which a property makes an exception; each is listed below. In
`WebSession` the button of the sign-out stays alive as in `AppShell`, so several may be
underway; `awaited` holds, for each that was answered, the refetches its
`invalidateQueries` has still to wait for. In `WebLanding` the same call marks the flag
(`invalidated`): the next visit asks for it anew, shows the old answer meanwhile, and an
answer of off takes the section, with its card, from a page that stands (`Hidden`). In
`WebKeys` a request may be given up by a proxy and served afterwards (`adrift`). In
`WebPreferences` the stack answers with the policy of `nginx.conf` and the ConfigMap, under
which the head's script does not run, or with none as `nginx-dev.conf`, under which it does.

## Runs

| Run | Question | Bounds |
|---|---|---|
| `link_safety` | type, settled agreement, granted redirects, authorised changes | one slug, two owners, two destinations, two requests and a cleanup at once, two insertions, so a slug is reused once; the clock passes the explicit expiry (1) and one whole second (2 ticks) |
| `link_cleanup` | overdue rows go (liveness) | two slugs with older rows, batch of one, two cleanups, failing statements |
| `link_expired` | violated: expired links are never served | one request, no fault |
| `creation` | outbox, one link per request, bounded overshoot, every creation ends without being ended by a fault, the registry is implemented | two creations at once on an allowance of one, three slugs, two months, all faults |
| `session_safety` | handed-out tokens work, logouts are final | two tabs of one browser, three families, an expiry within the clock, all faults |
| `session_retires` | violated: a rotation retires the old token | one tab, no fault |
| `accounts` | nobody locked out, earned answers, the second pass is decided by the row that ended the first, every request ends without being ended by a fault, the registry is implemented | three requests, two emails, two identities one of which may report either email, all faults |
| `keys` | bounded overshoot, admissions are the owner's, revocation is final | two requests, two users, three keys with one prefix, two months |
| `admission` | the guest budget holds and is apart, routes keep to their schemes; a guest works as the seeded row | two pods, two users, seven shapes of request, three creations of a kind; two ids for the guest's row, two lookups at once |
| `surface` | the components at the edge, one property or two each | three callbacks on two states; two users; one slug, two destinations, two requests; two keys; two guest links; three redirects on two days |
| `web_correction` | violated: a refused correction is stated in place | two rows, one request |
| `web_first_paint` | violated: the first paint has the stored mode | every stored value, both preferences |

Why the bounds are enough to be of use: the interesting schedules need two actors
on one slug, family, account, state or list, and one reuse or one reload of it, and
every instance has these. Slugs interact in `LinkLifecycle` only through one cleanup
batch, which is why the run about batches is the one with two slugs. Three requests are
used for accounts because the second pass can only lose a race against a third
request. Three callbacks on two states present a state at once, and again after it is
spent. The theorems below remove the bounds for all of the safety properties.

`surface` checks eight modules that share no state side by side: `part` selects the
module that moves, the variables of the others hold `None`. The behaviours are the
disjoint sum of those of the modules, about 2.4 million states, and the instance is one
of each module; no symmetry is used, since the modules use the constants differently.

Where an instance is thin, a theorem stands behind it: `accounts` has one password, so the
half of `AnswersAreEarned` about passwords rests on `AnswersEarned`; `admission` has few
shapes of request, so the routes of data and MCP rest on `SchemesAreKept`.

Bounds on counters are constants and guards: `MaxClock`, `MaxInserts`, `MaxBegun`,
`MaxMonth`, `MaxIssued`, `MaxCame`, `MaxCalls`, `MaxClicks`. Symmetry is used in safety
runs only, over sets no action tells apart. Deadlock is checked wherever the
configuration does not say why it may rest: the runs of creations, accounts and keys
end when `MaxBegun` requests were served, and `surface` when its bounded parts are done.

### Fairness

* `LinkLifecycle`: weak fairness of the clock, of every request's next step (a
  handler that was started runs on) and of every cleanup run's next step (the cron
  fires each hour and the loop goes on). Strong fairness of `SweepDelete(c, s)`: a
  database that fails now and then does not fail every time a DELETE of that row is
  tried. Without it the per-item error handling may skip the same row for ever, and
  nothing in the code prevents that. Clients owe nothing.
* `LinkCreation` and `ProviderAccounts`: weak fairness of `Proceed`, the next step of a
  request's own handler: the event loop runs on what can run on, and Postgres grants a lock
  that came free. It is on no fault: a request that waits for another's row is not owed an
  error, so were two to wait for each other, `CreationsEnd` and `RequestsEnd` would be
  violated (their mutants lock before they insert and make two wait). Nothing is assumed of
  the slugs and ids drawn. As the requests begun are bounded, a lock that is granted again
  and again to others is granted to each in the end.

The other modules state safety only.

## Where the documents and the code disagree

Four runs expect TLC to violate a sentence of the documents or comments;
`PROJECT.json` quotes each under `findings`:

1. `link_expired`: an expired link is served, when its entry was SET in its last
   second, without EX (ADR 0010, decision 1);
2. `session_retires`: a rotation does not overwrite the family's `jti` but opens another
   family, so the mismatch branch of `rotateRefresh` is unreachable and the old token
   stays listed (ADR 0011 and the comment in `auth.service.ts`);
3. `web_correction`: the refusal of a correction whose row was left for another shows in
   that other row, or nowhere (`DashboardPage.tsx`: "never silently lost");
4. `web_first_paint`: under the content security policy nginx sends, the script in the
   head of `index.html` does not run, and the first paint is light.

Other divergences met while modelling, with no run of their own:

* links: a redirect that read the old row may fill the cache after a PATCH's
  write-through, or an entry may be SET after the cleanup evicted it, and stays until its
  TTL ends (`SettledAgreement` allows for both); the monthly allowance can be passed
  by concurrent creations (`OvershootBounded` says by how much);
* accounts: the second pass of a resolution need not land in branch 1 or 2, as the comment in
  `users.service.ts` has it: an account it finds may be linked to another identity before
  its own INSERT, and the sign-in ends in 500 (`SecondPassLands` says when);
* guest: a pod that was answered before a second seeding keeps the old id until it is
  restarted, as the comment at the field says;
* sessions: a Redis outage in `POST /auth/refresh` is answered 500, elsewhere 503; the web
  client never calls `/auth/refresh`, so its session ends with the access cookie;
* contract: statuses that occur and are not declared (`Auth_login` 422, `Auth_logout` 503,
  `Auth_githubAuthorize` 401, `Links_create` 409 and 404, 429 of the throttler); object
  responses of Nest lose their detail in the filter; the 429 of the allowance reaches an
  MCP client as an unknown problem although `mcp-error-mapper.ts` says the shape is the same;
  the 409 that `RegisterPage` maps is never answered;
* GitHub: the redirect filter finds no cause on most failures and falls back to its
  generic slug;
* client session: the refetch of a logout may overwrite a sign-in that was answered
  meanwhile with nobody; until its own request is answered, a page may show cached rows
  of the user before (`PageIsTheUsersOwn` speaks of a page that has loaded); a page may
  join the request that was sent as the user before it, and two sign-ins may be answered
  while one page stands (`carried`); a logout that fails is silent;
* client lists: a change answered during the first load is not shown (`missed`, `untold`);
  a revocation that a proxy gave up and the server carried out later is not in the list
  until it is read again, though `ApiKeysPage` says the refreshed list carries the truth;
  a deletion confirmed twice leaves the second one's 404 standing; a key whose issue was
  answered to nobody stays live unseen, and the next issuing act hides the secret shown;
* preferences: a change of the system between first render and subscription is missed
  (`unheard`); another tab's choice is not seen; served by `nginx-dev.conf`, without a
  policy, the head's script runs and its inline style keeps the body's color through every
  selection, so what `e2e/theme.spec.ts` expects of a selection does not hold there;
* landing page: after a sign-out the flag is asked for again, and an answer of off under a
  moment that stands leaves the page without its section, its first sight and its claims
  (`hidden`); if the flag comes on again while the page stands, the offer to register stands
  beside an empty form;
* statistics: since the four queries read at different times a share can exceed 100
  percent of the total shown beside it; clicks are kept by slug, so a reused slug shows the
  earlier link's; what ClickHouse had not flushed is lost with it, as ADR 0002 accepts;
  the dictionaries are seeded and never read, so a double seeding has no effect.

## What is proved

Each proof goes: initial states, one step per action, then the temporal conclusion.
The invariant named is the inductive one; the property alone is not inductive.
Constants are arbitrary, up to the named assumption of the module: the types of
constants, that `None` is none of the values, where things are counted that their sets
are finite, and two facts of the source, named below, on which a property rests. The
bounds of the model are arbitrary too. Every invariant and every action property of the
passing runs, and both refinements, are stated by a theorem.

`LinkLifecycleProofs` (`CacheTtlAssumption`, `LifecycleAssumption`):

* `TypeCorrect`. One more conjunct: a PATCH in flight carries a URL
  (`PatchCarriesUrl`), which the type of a request record cannot say because other
  requests carry none.
* `RedirectsGranted`. A 302 repeats an entry or a command, so `GrantInv` follows a
  destination all the way: every row's, every entry's and every command's URL is
  granted, and the latter two are http(s).
* `SettledAgrees`. `SettledInv` adds: undisturbed writers are alone on their slug
  (`Exclusive`), a settled slug's disturbed requests have no writer among them
  (`SettledAlone`), the command of an undisturbed request matches the row
  (`CommandsMatch`), and an undisturbed PATCH still has its owner's row (`PatchesOwn`).
* `ChangesAuthorised`. A DELETE and a batch of the cleanup are vouched for as long as the
  row is not younger than their check (`DeletesVouched`, `BatchesVouched`); `RowsAge`,
  `RequestsAge` and `SweepsAge` say what any step may do to each, so the invariant
  follows once for all actions.

`RefreshSessionsProofs` (`SessionsAssumption`):

* `SessionTypes`, with what a request holds at each stage (`Shapes`);
* `TokensWork` and `LogoutIsFinal`, from one invariant, `SessionInv`: every token in a jar,
  presented, or on a response belongs to a family already issued (`FamiliesIssued`); a
  token whose SET is still to come has a family nobody else shows or stores (`Fresh`), so
  its SET disturbs no other token and revives no logged-out family; and an entry lives at
  least as long as its token (`EntriesLastLongEnough`), since `now + TTL` at the SET is
  not before `now + TTL` at the signing.

`LinkCreationProofs` (`CreationAssumption`):

* `CreationTypes`, with what a transaction has written at each stage;
* `OutboxFollowsLinks`, `OneLink` and `NoReplacement`, from `CreationInv`: a creation in
  flight has made nothing yet (`NothingMadeYet`), and an uncommitted link row keeps its
  slug to itself (`SlugsHeld`), which is the primary key's lock seen from the committing
  transaction;
* `Overshoot`, from `AllowanceInv`: nobody counts or inserts for a month to come (`Past`),
  and the month's links together with the creations that may still add to them stay
  within the bound (`Room`). A count leaves room by `Fits`, an insertion pays for itself by
  `Pays`, deletions and failures only leave more by `Leaves`: the lemmas of
  `AllowanceProofs`, which the keys use as well;
* `Implements == Spec => ImplementsLinkRegistry` (with `RequestAssumption`): a commit is
  one `Grant`, since `SlugsHeld` has the slug free and `Past` has the date within the
  request; an end without rows is a `Refuse`; the count, the attempts and the statements
  leave the registry as it is.

`ApiKeysProofs` (`KeyAssumption`): `KeyTypes`, `AdmittedAsOwner` and `RevokedForGood`, from
what a request in flight has read of a row that is still its owner's; `KeyOvershoot` as
above.

`ProviderAccountsProofs` (`AccountAssumption`, `EntryAssumption`):

* `AccountTypes`, `OneAccount`, `OneIdentity`, `NobodyLockedOut`, `AnswersEarned`, from one
  invariant: what a request holds at each stage (`Shape`), that its uncommitted rows
  conflict with no committed one (`Placed`) and with no other request's (`Apart`, the locks
  of the unique keys), and that the rows are one to one (`RowsInv`);
* `SecondPassDecided`: the row that ended a first pass stays, so the second finds the identity
  linked or an account with an email of it, and creates none;
* `Implements == Spec => ImplementsRegistry`: under that invariant a commit is one step of
  the registry, and everything else a stutter.

`AdmissionProofs` (`AdmissionAssumption`), of the sum that `MCAdmission` checks:

* `AdmissionTypes` and `SchemesAreKept`, from `AdmissionInv`;
* `GuestIsTheRow`, from `IdentityInv`: an id in a pod's field or in a lookup is one the row has
  had since the pod started (`RowsAreHeld`), and a lookup that found no row is of a guest
  that came when there was none (`MissesWereMisses`);
* `BudgetsStayApart`: the guard counts name by name until one refuses, so the counters behind
  `default` trail it, and that of `redirect`, which comes before, is bounded by the guests
  that came (`CountersInv`). The assumption has the guests' budget of creations no larger
  than the module's budgets of `auth` and `redirect`, as `throttler-policy.ts` has it (30
  against 120 and 300): else one of those would refuse a guest whose own budget is not
  used up;
* `GuestsAreFew`: the pods' budgets are a set of slots, and every admitted guest has taken
  one (`RoomInv`).

`SurfaceProofs` (`SurfaceAssumption`, `SignInAssumption`): each component has an invariant,
a lemma for its initial states and one for its steps, and `SurfaceInv` puts them side by
side as `MCSurface` does. `SurfaceTypes` states their types; beyond them:

* `StateIsSpent` and `SignInIsVerified`, from `SignInInv`: a token outside Redis that was
  minted is never minted again, so it passes one callback at most; and a callback that
  found an email found it in its own answer of GitHub (`FoundInv`). What
  `selectVerifiedEmail` returns is characterised for every list: the least index of a
  sequence exists by well-foundedness of the natural numbers;
* `ActsAsShown`, from `ProbesInv`: only while the client bootstraps may an answer of `/me`
  name anybody, and nobody signs in or out then;
* `ShowsOwnData`, from `PageInv`: the request of a page that stands was sent as its user or
  without a cookie, until a sign-out that was answered waits for its refetches;
* `DashboardIsTrue` and `KeyListIsTrue`, from `RowsInv` and `StandingsInv`: unless a change
  was made that is to be settled or was missed, the load underway has read what the server
  keeps, and so has the list once no load is underway; an issue that was made carries its
  key (`KeyGiven`). Both rest on the lemmas about `QueryCache`'s operators, which say what
  each returns for a query of any data;
* `ModeIsObeyed`, from `ModeInv`: the preference held is the system's unless a change is
  to be delivered or fell before the subscription; and the body's own style is the one the
  head was due to give where its script runs, and none elsewhere;
* `OfferIsReal`, from `MomentInv`: page and section have one moment, of a link that was made and
  of a page that stands; the card has it too unless the flag took the card away, and a
  request knows whether its card, its page or neither still stands;
* `ReadingIsTrue`, from `CountedInv` (nothing is recorded that was not inserted) and
  `ReadingInv` (a query saw no less than what stood as the reading began, less what was lost
  since, and no more than the redirects). Sums are cardinalities of disjoint unions, so what
  the proof needs of them (one term out, one set split, rows and columns swapped) follows
  from the theorems about finite sets. `SurfaceAssumption` has no more browsers than
  a breakdown has rows: `parseBrowserId` tells 6 apart and `TOP_LIMIT` is 10, else the
  shares would not add up;
* `ReasonIsKept`, from `ApiInv`, which ties what was thrown, the problem document and the
  statement to the stage; then case by case over the operations that have a reason to state.

Only model-checked are the three liveness properties, `OverdueRowsGo`, `CreationsEnd` and
`RequestsEnd`: fairness and ENABLED are beyond the prover. The four runs that expect a
violation have nothing to prove.

## Not modelled

Reasons are under `components` in `PROJECT.json`: presentation, the schema's DDL,
bootstrap, health and observability have no state a check could tell apart or are pure
I/O; the constraints of the schema and the replica counts and eviction policy of the
deployment enter as guards and assumptions. Within modelled parts: the slug-length check
ahead of the lookup, the rejection sampling of the slug generator (any slug may be drawn),
the protocol shell of MCP and its JSON-RPC errors, the access token's contents and
`Max-Age`, and the wording of every answer. Of a reading's four queries the one by country
is left out, which has the form of the one by browser. The client is one tab, refetches on
focus and reconnection are left out, and on the dashboard (`WebLinks`) the server is not
still at a request that was given up, as `WebKeys` has it: a change applied so late would
be in the list at its next load only. The guest's row is seeded and seeded again, never
taken away (the migration's `down`).
