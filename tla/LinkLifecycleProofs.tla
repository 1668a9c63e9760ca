------------------------- MODULE LinkLifecycleProofs -------------------------
(***************************************************************************)
(* Theorems of LinkLifecycle, for every set of slugs, users, requests and  *)
(* cleanup runs, every clock bound and every combination of faults.        *)
(***************************************************************************)
EXTENDS LinkLifecycle, TLAPS

\* A PATCH in flight carries the destination the validators let through.
PatchCarriesUrl ==
    \A r \in Requests : req[r] # None /\ req[r].op = "patch" => req[r].url \in HttpUrls

TypeInv == TypeOK /\ PatchCarriesUrl

-----------------------------------------------------------------------------
\* A TTL is a TTL and a deadline is an expiry.
LEMMA TtlTypes ==
    ASSUME NEW e \in Expiry, NEW t \in Nat
    PROVE  /\ TtlSecondsUntil(e, t) \in Ttl
           /\ \A k \in Ttl : DeadlineOf(k, t) \in Expiry
<1>1. TtlSecondsUntil(e, t) \in Ttl
  <2>1. CASE e = None
    BY <2>1, CacheTtlAssumption DEF TtlSecondsUntil, Ttl
  <2>2. CASE e # None
    <3>1. e \in Nat BY <2>2 DEF Expiry
    <3>2. e > t => (e - t) \div TicksPerSecond \in Nat
      BY <3>1, CacheTtlAssumption
    <3>3. QED BY <2>2, <3>1, <3>2, CacheTtlAssumption DEF TtlSecondsUntil, Ttl
  <2>3. QED BY <2>1, <2>2
<1>2. ASSUME NEW k \in Ttl PROVE DeadlineOf(k, t) \in Expiry
  BY CacheTtlAssumption DEF DeadlineOf, Ttl, Expiry
<1>3. QED BY <1>1, <1>2

\* The SET of a link and the entry a command leaves are well typed.
LEMMA CommandTypes ==
    ASSUME TypeOK
    PROVE  /\ Del \in Command
           /\ \A url \in Urls, e \in Expiry : Set(url, e) \in Command
           /\ \A cmd \in Command : Stored(cmd) \in Entry \cup {None}
<1>1. Del \in Command BY DEF Command
<1>2. ASSUME NEW url \in Urls, NEW e \in Expiry PROVE Set(url, e) \in Command
  BY TtlTypes DEF Set, Command, TypeOK
<1>3. ASSUME NEW cmd \in Command PROVE Stored(cmd) \in Entry \cup {None}
  <2>1. CASE cmd = Del BY <2>1 DEF Stored
  <2>2. CASE cmd # Del
    <3>1. cmd \in [url : Urls, ttl : Ttl] BY <2>2 DEF Command
    <3>2. DeadlineOf(cmd.ttl, now) \in Expiry BY <3>1, TtlTypes DEF TypeOK, Expiry
    <3>3. QED BY <2>2, <3>1, <3>2 DEF Stored, Entry
  <2>3. QED BY <2>1, <2>2
<1>4. QED BY <1>1, <1>2, <1>3

\* Equal but for the history flag.
SameRequest(x, y) ==
    /\ x.op = y.op /\ x.stage = y.stage /\ x.slug = y.slug /\ x.user = y.user
    /\ x.url = y.url /\ x.expiresAt = y.expiresAt /\ x.cmd = y.cmd /\ x.since = y.since
SameSweep(x, y) ==
    x.batch = y.batch /\ x.current = y.current /\ x.since = y.since

\* Disturbing the others in flight only lowers their flag.
LEMMA DisturbedTypes ==
    ASSUME TypeOK, NEW s \in Slugs, NEW op
    PROVE  /\ Disturbed(s, op) \in [Requests -> Request \cup {None}]
           /\ SweepsDisturbed(s) \in [Cleaners -> Sweep \cup {None}]
           /\ Unsettle(s, op) => unsettled' \in SUBSET Slugs
           /\ \A q \in Requests :
                 /\ Disturbed(s, op)[q] # None <=> req[q] # None
                 /\ req[q] # None =>
                       /\ SameRequest(Disturbed(s, op)[q], req[q])
                       /\ Disturbed(s, op)[q].undisturbed =
                             (req[q].undisturbed
                                /\ ~(On(q, s) /\ (op # "redirect" \/ req[q].op # "redirect")))
           /\ \A c \in Cleaners :
                 /\ SweepsDisturbed(s)[c] # None <=> sweep[c] # None
                 /\ sweep[c] # None =>
                       /\ SameSweep(SweepsDisturbed(s)[c], sweep[c])
                       /\ SweepsDisturbed(s)[c].undisturbed =
                             (sweep[c].undisturbed /\ ~Evicting(c, s))
<1>. USE LifecycleAssumption
<1>1. ASSUME NEW r \in Requests, req[r] # None, NEW x, x = [req[r] EXCEPT !.undisturbed = FALSE]
      PROVE  x \in Request /\ SameRequest(x, req[r]) /\ x.undisturbed = FALSE
  <2>1. req[r] \in Request BY <1>1 DEF TypeOK
  <2>2. QED BY <1>1, <2>1 DEF Request, SameRequest
<1>2. ASSUME NEW c \in Cleaners, sweep[c] # None, NEW x, x = [sweep[c] EXCEPT !.undisturbed = FALSE]
      PROVE  x \in Sweep /\ SameSweep(x, sweep[c]) /\ x.undisturbed = FALSE
  <2>1. sweep[c] \in Sweep BY <1>2 DEF TypeOK
  <2>2. QED BY <1>2, <2>1 DEF Sweep, SameSweep
<1>3. Disturbed(s, op) \in [Requests -> Request \cup {None}]
  BY <1>1 DEF TypeOK, Disturbed, On
<1>4. SweepsDisturbed(s) \in [Cleaners -> Sweep \cup {None}]
  BY <1>2 DEF TypeOK, SweepsDisturbed, Evicting
<1>5. Unsettle(s, op) => unsettled' \in SUBSET Slugs
  BY DEF TypeOK, Unsettle
<1>6. ASSUME NEW q \in Requests
      PROVE  /\ Disturbed(s, op)[q] # None <=> req[q] # None
             /\ req[q] # None =>
                   /\ SameRequest(Disturbed(s, op)[q], req[q])
                   /\ Disturbed(s, op)[q].undisturbed =
                         (req[q].undisturbed
                            /\ ~(On(q, s) /\ (op # "redirect" \/ req[q].op # "redirect")))
  <2>1. CASE On(q, s) /\ (op # "redirect" \/ req[q].op # "redirect")
    <3>1. req[q] # None /\ Disturbed(s, op)[q] = [req[q] EXCEPT !.undisturbed = FALSE]
      BY <2>1 DEF Disturbed, On
    <3>2. QED BY <2>1, <3>1, <1>1
  <2>2. CASE ~(On(q, s) /\ (op # "redirect" \/ req[q].op # "redirect"))
    <3>1. Disturbed(s, op)[q] = req[q] BY <2>2 DEF Disturbed
    <3>2. req[q] # None => req[q].undisturbed \in BOOLEAN BY DEF TypeOK, Request
    <3>3. QED BY <2>2, <3>1, <3>2 DEF SameRequest
  <2>3. QED BY <2>1, <2>2
<1>7. ASSUME NEW c \in Cleaners
      PROVE  /\ SweepsDisturbed(s)[c] # None <=> sweep[c] # None
             /\ sweep[c] # None =>
                   /\ SameSweep(SweepsDisturbed(s)[c], sweep[c])
                   /\ SweepsDisturbed(s)[c].undisturbed =
                         (sweep[c].undisturbed /\ ~Evicting(c, s))
  <2>1. CASE Evicting(c, s)
    <3>1. sweep[c] # None /\ SweepsDisturbed(s)[c] = [sweep[c] EXCEPT !.undisturbed = FALSE]
      BY <2>1 DEF SweepsDisturbed, Evicting
    <3>2. QED BY <2>1, <3>1, <1>2
  <2>2. CASE ~Evicting(c, s)
    <3>1. SweepsDisturbed(s)[c] = sweep[c] BY <2>2 DEF SweepsDisturbed
    <3>2. sweep[c] # None => sweep[c].undisturbed \in BOOLEAN BY DEF TypeOK, Sweep
    <3>3. QED BY <2>2, <3>1, <3>2 DEF SameSweep
  <2>3. QED BY <2>1, <2>2
<1>8. QED BY <1>3, <1>4, <1>5, <1>6, <1>7

\* Begin keeps the types, adds the new request and lowers flags only.
LEMMA BeginTypes ==
    ASSUME TypeOK, NEW r \in Requests, NEW record \in Request, Begin(r, record)
    PROVE  /\ req' \in [Requests -> Request \cup {None}]
           /\ sweep' \in [Cleaners -> Sweep \cup {None}]
           /\ unsettled' \in SUBSET Slugs
           /\ req'[r] \in Request /\ SameRequest(req'[r], record)
           /\ req'[r].undisturbed = ~Clash(record.slug, record.op)
           /\ \A q \in Requests \ {r} :
                 /\ req'[q] = Disturbed(record.slug, record.op)[q]
                 /\ req'[q] # None <=> req[q] # None
                 /\ req[q] # None => SameRequest(req'[q], req[q])
<1>. DEFINE s == record.slug
            D == Disturbed(s, record.op)
            flag == ~Clash(s, record.op)
            new == [record EXCEPT !.undisturbed = flag]
<1>1. s \in Slugs BY DEF Request
<1>2. D \in [Requests -> Request \cup {None}] /\ sweep' \in [Cleaners -> Sweep \cup {None}]
      /\ unsettled' \in SUBSET Slugs
  BY <1>1, DisturbedTypes DEF Begin
<1>3. flag \in BOOLEAN BY DEF Clash
<1>4. new \in Request /\ SameRequest(new, record) /\ new.undisturbed = flag
  BY <1>3 DEF Request, SameRequest
<1>5. req' = [D EXCEPT ![r] = new]
  BY DEF Begin
<1>6. req' \in [Requests -> Request \cup {None}] /\ req'[r] = new
  BY <1>2, <1>4, <1>5
<1>7. \A q \in Requests \ {r} : req'[q] = D[q] BY <1>2, <1>5
<1>8. QED BY <1>1, <1>2, <1>4, <1>6, <1>7, DisturbedTypes

-----------------------------------------------------------------------------
\* The type invariant holds in every reachable state, for every instance.
LEMMA TypeInit == Init => TypeInv
<1>. SUFFICES ASSUME Init PROVE TypeInv OBVIOUS
<1>1. \A s \in Slugs : db[s] # None => db[s] \in Row
  BY LifecycleAssumption DEF Init
<1>2. granted \in [Slugs -> SUBSET Urls] BY <1>1 DEF Init, Row
<1>3. QED BY <1>1, <1>2, LifecycleAssumption DEF Init, TypeInv, TypeOK, PatchCarriesUrl

\* An Opened request has the type of its arguments.
LEMMA OpenedType ==
    ASSUME TypeOK, NEW op \in Ops, NEW stage \in Stages, NEW s \in Slugs,
           NEW u \in Users \cup {None}, NEW url \in Urls \cup {None},
           NEW e \in Expiry, NEW cmd \in Command
    PROVE  Opened(op, stage, s, u, url, e, cmd) \in Request
BY DEF TypeOK, Opened, Request

\* A row that is present is a row, a request in flight is a request.
LEMMA Present ==
    ASSUME TypeOK
    PROVE  /\ \A s \in Slugs : db[s] # None => db[s] \in Row
           /\ \A s \in Slugs : cache[s] # None => cache[s] \in Entry
           /\ \A r \in Requests : req[r] # None => req[r] \in Request
           /\ \A c \in Cleaners : sweep[c] # None => sweep[c] \in Sweep
           /\ \A s \in Slugs : granted[s] \in SUBSET Urls
BY DEF TypeOK

LEMMA ClientTypes == TypeInv /\ ClientRequest => TypeInv'
<1>. SUFFICES ASSUME TypeInv, ClientRequest PROVE TypeInv'
  OBVIOUS
<1>. USE LifecycleAssumption
<1>0. TypeOK /\ PatchCarriesUrl BY DEF TypeInv
<1>1. ASSUME NEW s \in Slugs, RedirectHit(s) PROVE TypeInv'
  <2>1. cache[s] \in Entry BY <1>0, <1>1, Present DEF RedirectHit
  <2>2. answer' \in Answer BY <1>1, <2>1 DEF RedirectHit, Entry, Answer, HasHttpScheme
  <2>3. QED BY <1>0, <1>1, <2>2 DEF RedirectHit, TypeInv, TypeOK, PatchCarriesUrl
<1>2. ASSUME NEW r \in Requests, NEW s \in Slugs, RedirectMiss(r, s) PROVE TypeInv'
  <2>. DEFINE new == Opened("redirect", "read", s, None, None, None, Del)
  <2>1. new \in Request
    BY <1>0, OpenedType, CommandTypes DEF Ops, Stages, Expiry
  <2>2. Begin(r, new) BY <1>2 DEF RedirectMiss
  <2>3. TypeOK'
    BY <1>0, <1>2, <2>1, <2>2, BeginTypes DEF RedirectMiss, TypeOK
  <2>4. PatchCarriesUrl'
    <3>1. new.op = "redirect" BY DEF Opened
    <3>2. req'[r].op = "redirect" BY <1>0, <2>1, <2>2, <3>1, BeginTypes DEF SameRequest
    <3>3. QED BY <1>0, <2>1, <2>2, <3>2, BeginTypes DEF PatchCarriesUrl, SameRequest
  <2>5. QED BY <2>3, <2>4 DEF TypeInv
<1>3. ASSUME NEW s \in Slugs, NEW u \in Users, NEW url \in HttpUrls, NEW e \in Expiries,
             Insert(s, u, url, e)
      PROVE  /\ e \in Expiry
             /\ db' \in [Slugs -> Row \cup {None}] /\ inserts' \in Nat
             /\ granted' \in [Slugs -> SUBSET Urls]
  <2>1. now + Retention \in Nat BY <1>0 DEF TypeOK
  <2>2. e \in Expiry BY <2>1 DEF Expiries, Expiry
  <2>3. QED BY <1>0, <1>3, <2>2 DEF Insert, TypeOK, Row
<1>4. ASSUME NEW r \in Requests, NEW s \in Slugs, NEW u \in Users, NEW url \in HttpUrls,
             NEW e \in Expiries, Create(r, s, u, url, e)
      PROVE  TypeInv'
  <2>. DEFINE new == Opened("create", "cache", s, u, url, e, Set(url, e))
  <2>1. e \in Expiry BY <1>3, <1>4 DEF Create
  <2>2. new \in Request
    BY <1>0, <2>1, OpenedType, CommandTypes DEF Ops, Stages
  <2>3. Begin(r, new) BY <1>4 DEF Create
  <2>4. TypeOK'
    BY <1>0, <1>3, <1>4, <2>2, <2>3, BeginTypes DEF Create, TypeOK
  <2>5. PatchCarriesUrl'
    <3>1. new.op = "create" BY DEF Opened
    <3>2. req'[r].op = "create" BY <1>0, <2>2, <2>3, <3>1, BeginTypes DEF SameRequest
    <3>3. QED BY <1>0, <2>2, <2>3, <3>2, BeginTypes DEF PatchCarriesUrl, SameRequest
  <2>6. QED BY <2>4, <2>5 DEF TypeInv
<1>5. ASSUME NEW s \in Slugs, NEW u \in Users, NEW url \in HttpUrls, NEW e \in Expiries,
             McpCreate(s, u, url, e)
      PROVE  TypeInv'
  <2>1. TypeOK'
    BY <1>0, <1>3, <1>5, DisturbedTypes DEF McpCreate, TypeOK
  <2>2. PatchCarriesUrl'
    BY <1>0, <1>5, DisturbedTypes DEF McpCreate, PatchCarriesUrl, SameRequest
  <2>3. QED BY <2>1, <2>2 DEF TypeInv
<1>6. ASSUME NEW r \in Requests, NEW op \in {"patch", "delete"}, NEW s \in Slugs,
             NEW u \in Users, NEW url \in HttpUrls \cup {None}, op = "patch" => url \in HttpUrls,
             CheckOwner(r, op, s, u, url)
      PROVE  TypeInv'
  <2>. DEFINE new == Opened(op, "mutate", s, u, url, db[s].expiresAt, Del)
  <2>1. db[s] \in Row BY <1>0, <1>6, Present DEF CheckOwner, Owned
  <2>2. new \in Request
    BY <1>0, <2>1, OpenedType, CommandTypes DEF Ops, Stages, Row
  <2>3. Begin(r, new) BY <1>6 DEF CheckOwner
  <2>4. granted' \in [Slugs -> SUBSET Urls] BY <1>0, <1>6 DEF CheckOwner, TypeOK
  <2>5. TypeOK'
    BY <1>0, <1>6, <2>2, <2>3, <2>4, BeginTypes DEF CheckOwner, TypeOK
  <2>6. PatchCarriesUrl'
    <3>1. new.op = op /\ new.url = url BY DEF Opened
    <3>2. req'[r].op = op /\ req'[r].url = url
      BY <1>0, <2>2, <2>3, <3>1, BeginTypes DEF SameRequest
    <3>3. QED BY <1>0, <1>6, <2>2, <2>3, <3>2, BeginTypes DEF PatchCarriesUrl, SameRequest
  <2>7. QED BY <2>5, <2>6 DEF TypeInv
<1>7. QED
  BY <1>1, <1>2, <1>4, <1>5, <1>6 DEF ClientRequest, PatchCheck, DeleteCheck

LEMMA RequestTypes ==
    ASSUME TypeInv, NEW r \in Requests, RequestStep(r) \/ Abort(r)
    PROVE  TypeInv'
<1>. USE LifecycleAssumption
<1>1. TypeOK /\ PatchCarriesUrl BY DEF TypeInv
<1>2. req[r] # None
  BY DEF RequestStep, RedirectRead, PatchUpdate, DeleteRow, CacheApply, CacheLose, Abort
<1>3. req[r] \in Request /\ req[r].slug \in Slugs BY <1>1, <1>2, Present DEF Request
<1>4. ASSUME req' = [req EXCEPT ![r] = None]
      PROVE  req' \in [Requests -> Request \cup {None}] /\ PatchCarriesUrl'
  BY <1>1, <1>4 DEF TypeOK, PatchCarriesUrl
<1>5. ASSUME NEW cmd \in Command,
             req' = [req EXCEPT ![r].stage = "cache", ![r].cmd = cmd]
      PROVE  req' \in [Requests -> Request \cup {None}] /\ PatchCarriesUrl'
  <2>. DEFINE x == [req[r] EXCEPT !.stage = "cache", !.cmd = cmd]
  <2>1. x \in Request /\ x.op = req[r].op /\ x.url = req[r].url
    BY <1>3 DEF Request, Stages
  <2>2. req' = [req EXCEPT ![r] = x] BY <1>1, <1>5 DEF TypeOK
  <2>3. QED BY <1>1, <1>2, <2>1, <2>2 DEF TypeOK, PatchCarriesUrl
<1>6. CASE RedirectRead(r)
  <2>. DEFINE s == req[r].slug
              row == db[s]
  <2>1. CASE \E code \in {404, 410} :
               /\ req' = [req EXCEPT ![r] = None]
               /\ answer' = [slug |-> s, status |-> code, url |-> None]
    <3>1. answer' \in Answer BY <1>3, <2>1 DEF Answer
    <3>2. QED BY <1>1, <1>4, <1>6, <2>1, <3>1 DEF RedirectRead, TypeInv, TypeOK
  <2>2. CASE /\ row # None
             /\ req' = [req EXCEPT ![r].stage = "cache",
                                   ![r].cmd = Set(row.url, row.expiresAt)]
             /\ answer' = None
    <3>1. row \in Row BY <1>1, <1>3, <2>2, Present
    <3>2. Set(row.url, row.expiresAt) \in Command BY <1>1, <3>1, CommandTypes DEF Row
    <3>3. QED BY <1>1, <1>5, <1>6, <2>2, <3>2 DEF RedirectRead, TypeInv, TypeOK
  <2>3. QED BY <1>6, <2>1, <2>2 DEF RedirectRead
<1>7. CASE PatchUpdate(r)
  <2>1. req[r].url \in Urls BY <1>1, <1>2, <1>7 DEF PatchUpdate, PatchCarriesUrl
  <2>2. WriteThrough(r) \in Command
    BY <1>1, <1>3, <2>1, CommandTypes DEF WriteThrough, Request
  <2>3. Updated(req[r].slug, req[r].user, req[r].url) \in [Slugs -> Row \cup {None}]
    BY <1>1, <1>3, <2>1, Present DEF Updated, Owned, TypeOK, Row
  <2>4. QED BY <1>1, <1>5, <1>7, <2>2, <2>3 DEF PatchUpdate, TypeInv, TypeOK
<1>8. CASE DeleteRow(r)
  <2>1. db' \in [Slugs -> Row \cup {None}] BY <1>1, <1>3, <1>8 DEF DeleteRow, TypeOK
  <2>2. Del \in Command BY DEF Command
  <2>3. QED BY <1>1, <1>5, <1>8, <2>1, <2>2 DEF DeleteRow, TypeInv, TypeOK
<1>9. ASSUME Finish(r)
      PROVE  /\ req' \in [Requests -> Request \cup {None}] /\ PatchCarriesUrl'
             /\ answer' \in Answer \cup {None}
  <2>1. req[r].cmd.url \in Urls \cup {None} BY <1>3 DEF Request, Command, Del
  <2>2. answer' \in Answer \cup {None} BY <1>3, <1>9, <2>1 DEF Finish, Answer
  <2>3. QED BY <1>4, <1>9, <2>2 DEF Finish
<1>10. CASE CacheApply(r)
  <2>1. Stored(req[r].cmd) \in Entry \cup {None} BY <1>1, <1>3, CommandTypes DEF Request
  <2>2. cache' \in [Slugs -> Entry \cup {None}] /\ unsettled' \in SUBSET Slugs
    BY <1>1, <1>3, <1>10, <2>1 DEF CacheApply, TypeOK
  <2>3. QED BY <1>1, <1>9, <1>10, <2>2 DEF CacheApply, TypeInv, TypeOK
<1>11. CASE CacheLose(r)
  <2>1. unsettled' \in SUBSET Slugs BY <1>1, <1>3, <1>11 DEF CacheLose, TypeOK
  <2>2. QED BY <1>1, <1>9, <1>11, <2>1 DEF CacheLose, TypeInv, TypeOK
<1>12. CASE Abort(r)
  <2>1. unsettled' \in SUBSET Slugs BY <1>1, <1>3, <1>12 DEF Abort, TypeOK
  <2>2. QED BY <1>1, <1>4, <1>12, <2>1 DEF Abort, TypeInv, TypeOK
<1>13. QED BY <1>6, <1>7, <1>8, <1>10, <1>11, <1>12 DEF RequestStep

LEMMA CleanupTypes ==
    ASSUME TypeInv, NEW c \in Cleaners, CleanupStep(c) \/ SweepCrash(c)
    PROVE  TypeInv'
<1>. USE LifecycleAssumption
<1>1. TypeOK /\ PatchCarriesUrl BY DEF TypeInv
<1>2. sweep[c] # None => sweep[c] \in Sweep BY <1>1, Present
<1>3. CASE SweepFind(c)
  <2>1. PICK batch \in Batches :
           sweep' = [sweep EXCEPT ![c] = [batch |-> batch, current |-> None,
                                          since |-> inserts, undisturbed |-> TRUE]]
    BY <1>3 DEF SweepFind
  <2>2. batch \in SUBSET Slugs BY DEF Batches, AnyOf
  <2>3. sweep' \in [Cleaners -> Sweep \cup {None}]
    BY <1>1, <2>1, <2>2 DEF TypeOK, Sweep
  <2>4. QED BY <1>1, <1>3, <2>3 DEF SweepFind, TypeInv, TypeOK, PatchCarriesUrl
<1>4. ASSUME NEW s \in Slugs, SweepDelete(c, s) PROVE TypeInv'
  <2>. DEFINE D == SweepsDisturbed(s)
              flag == ~Clash(s, "delete")
              x == [D[c] EXCEPT !.batch = @ \ {s}, !.current = s, !.undisturbed = flag]
  <2>1. D \in [Cleaners -> Sweep \cup {None}] /\ D[c] # None
        /\ Disturbed(s, "delete") \in [Requests -> Request \cup {None}]
        /\ unsettled' \in SUBSET Slugs
    BY <1>1, <1>4, DisturbedTypes DEF SweepDelete
  <2>2. x \in Sweep
    <3>1. D[c] \in Sweep /\ flag \in BOOLEAN BY <2>1 DEF Clash
    <3>2. QED BY <3>1 DEF Sweep
  <2>3. sweep' = [D EXCEPT ![c] = x] BY <1>4, <2>1 DEF SweepDelete
  <2>4. db' \in [Slugs -> Row \cup {None}] BY <1>1, <1>4 DEF SweepDelete, TypeOK
  <2>5. TypeOK' BY <1>1, <1>4, <2>1, <2>2, <2>3, <2>4 DEF SweepDelete, TypeOK
  <2>6. PatchCarriesUrl'
    BY <1>1, <1>4, DisturbedTypes DEF SweepDelete, PatchCarriesUrl, SameRequest
  <2>7. QED BY <2>5, <2>6 DEF TypeInv
<1>5. ASSUME NEW s \in Slugs, SweepSkip(c, s) PROVE TypeInv'
  <2>1. sweep' \in [Cleaners -> Sweep \cup {None}]
    BY <1>1, <1>2, <1>5 DEF SweepSkip, TypeOK, Sweep
  <2>2. QED BY <1>1, <1>5, <2>1 DEF SweepSkip, TypeInv, TypeOK, PatchCarriesUrl
<1>6. CASE SweepEvict(c)
  <2>1. sweep[c].current \in Slugs BY <1>2, <1>6 DEF SweepEvict, Sweep
  <2>2. sweep' \in [Cleaners -> Sweep \cup {None}]
    BY <1>1, <1>2, <1>6 DEF SweepEvict, TypeOK, Sweep
  <2>3. cache' \in [Slugs -> Entry \cup {None}] /\ unsettled' \in SUBSET Slugs
    BY <1>1, <1>6, <2>1 DEF SweepEvict, TypeOK
  <2>4. QED BY <1>1, <1>6, <2>2, <2>3 DEF SweepEvict, TypeInv, TypeOK, PatchCarriesUrl
<1>7. CASE SweepEnd(c)
  BY <1>1, <1>7 DEF SweepEnd, TypeInv, TypeOK, PatchCarriesUrl
<1>8. CASE SweepCrash(c)
  <2>1. unsettled' \in SUBSET Slugs BY <1>1, <1>2, <1>8 DEF SweepCrash, TypeOK, Sweep
  <2>2. QED BY <1>1, <1>8, <2>1 DEF SweepCrash, TypeInv, TypeOK, PatchCarriesUrl
<1>9. QED BY <1>3, <1>4, <1>5, <1>6, <1>7, <1>8 DEF CleanupStep

LEMMA TypeStep == TypeInv /\ [Next]_vars => TypeInv'
<1>. SUFFICES ASSUME TypeInv, [Next]_vars PROVE TypeInv'
  OBVIOUS
<1>1. TypeOK /\ PatchCarriesUrl BY DEF TypeInv
<1>2. CASE Tick
  BY <1>1, <1>2 DEF Tick, TypeInv, TypeOK, PatchCarriesUrl
<1>3. ASSUME NEW s \in Slugs, EvictLru(s) PROVE TypeInv'
  BY <1>1, <1>3 DEF EvictLru, TypeInv, TypeOK, PatchCarriesUrl
<1>4. CASE UNCHANGED vars
  BY <1>1, <1>4 DEF vars, TypeInv, TypeOK, PatchCarriesUrl
<1>5. QED
  BY <1>2, <1>3, <1>4, ClientTypes, RequestTypes, CleanupTypes DEF Next

\* Every variable keeps its type in every run of the service.
THEOREM TypeCorrect == Spec => []TypeOK
<1>1. TypeInv => TypeOK BY DEF TypeInv
<1>2. QED BY TypeInit, TypeStep, <1>1, PTL DEF Spec

-----------------------------------------------------------------------------
\* Where destinations come from. A destination in a row, in the cache or in a
\* command on its way to Redis was asked for by an owner of the slug, and those
\* past the row are http(s).
RowsGranted == \A s \in Slugs : db[s] # None => db[s].url \in granted[s]
EntriesGranted ==
    \A s \in Slugs : cache[s] # None => cache[s].url \in granted[s] \cap HttpUrls
CommandsGranted ==
    \A r \in Requests : req[r] # None =>
        /\ req[r].cmd # Del => req[r].cmd.url \in granted[req[r].slug] \cap HttpUrls
        /\ req[r].op = "patch" => req[r].url \in granted[req[r].slug]
        /\ req[r].op = "redirect" /\ req[r].stage = "cache" => req[r].cmd # Del

GrantInv == RowsGranted /\ EntriesGranted /\ CommandsGranted /\ RedirectsAreGranted

LEMMA GrantInit == Init => GrantInv
BY LifecycleAssumption
   DEF Init, GrantInv, RowsGranted, EntriesGranted, CommandsGranted, RedirectsAreGranted

\* What a client request does to the requests in flight: none is changed but for
\* its flag, and one may be added.
LEMMA GrantBegin ==
    ASSUME TypeOK, CommandsGranted, NEW r \in Requests, NEW record \in Request,
           Begin(r, record),
           \A s \in Slugs : granted[s] \subseteq granted'[s],
           record.cmd # Del => record.cmd.url \in granted'[record.slug] \cap HttpUrls,
           record.op = "patch" => record.url \in granted'[record.slug],
           record.op = "redirect" => record.stage = "read"
    PROVE  CommandsGranted'
<1>1. ASSUME NEW q \in Requests, req'[q] # None
      PROVE  /\ req'[q].cmd # Del => req'[q].cmd.url \in granted'[req'[q].slug] \cap HttpUrls
             /\ req'[q].op = "patch" => req'[q].url \in granted'[req'[q].slug]
             /\ req'[q].op = "redirect" /\ req'[q].stage = "cache" => req'[q].cmd # Del
  <2>1. CASE q = r
    BY <2>1, BeginTypes DEF SameRequest
  <2>2. CASE q # r
    <3>1. req[q] # None /\ SameRequest(req'[q], req[q]) BY <1>1, <2>2, BeginTypes
    <3>2. req[q].slug \in Slugs BY <3>1, Present DEF Request
    <3>3. QED BY <3>1, <3>2 DEF CommandsGranted, SameRequest
  <2>3. QED BY <2>1, <2>2
<1>2. QED BY <1>1 DEF CommandsGranted

LEMMA GrantClient == TypeInv /\ GrantInv /\ ClientRequest => GrantInv'
<1>. SUFFICES ASSUME TypeInv, GrantInv, ClientRequest PROVE GrantInv'
  OBVIOUS
<1>. USE LifecycleAssumption
<1>1. TypeOK /\ RowsGranted /\ EntriesGranted /\ CommandsGranted
  BY DEF TypeInv, GrantInv
<1>2. ASSUME NEW s \in Slugs, RedirectHit(s) PROVE GrantInv'
  <2>1. RedirectsAreGranted'
    BY <1>1, <1>2 DEF RedirectHit, EntriesGranted, RedirectsAreGranted, HasHttpScheme
  <2>2. QED
    BY <1>1, <1>2, <2>1 DEF RedirectHit, GrantInv, RowsGranted, EntriesGranted, CommandsGranted
<1>3. ASSUME NEW r \in Requests, NEW s \in Slugs, RedirectMiss(r, s) PROVE GrantInv'
  <2>. DEFINE new == Opened("redirect", "read", s, None, None, None, Del)
  <2>1. new \in Request
    BY <1>1, OpenedType, CommandTypes DEF Ops, Stages, Expiry
  <2>2. CommandsGranted'
    <3>1. Begin(r, new) /\ granted' = granted BY <1>3 DEF RedirectMiss
    <3>2. new.op = "redirect" /\ new.stage = "read" /\ new.cmd = Del BY DEF Opened
    <3>3. QED BY <1>1, <2>1, <3>1, <3>2, GrantBegin
  <2>3. QED
    BY <1>1, <1>3, <2>2 DEF RedirectMiss, GrantInv, RowsGranted, EntriesGranted, RedirectsAreGranted
<1>4. ASSUME NEW s \in Slugs, NEW u \in Users, NEW url \in HttpUrls, NEW e \in Expiries,
             Insert(s, u, url, e)
      PROVE  /\ \A t \in Slugs : granted[t] \subseteq granted'[t]
             /\ url \in granted'[s]
             /\ RowsGranted'
  BY <1>1, <1>4 DEF Insert, TypeOK, RowsGranted
<1>5. ASSUME NEW e \in Expiries PROVE e \in Expiry
  <2>1. now + Retention \in Nat BY <1>1 DEF TypeOK
  <2>2. QED BY <2>1 DEF Expiries, Expiry
<1>6. ASSUME NEW r \in Requests, NEW s \in Slugs, NEW u \in Users, NEW url \in HttpUrls,
             NEW e \in Expiries, Create(r, s, u, url, e)
      PROVE  GrantInv'
  <2>. DEFINE new == Opened("create", "cache", s, u, url, e, Set(url, e))
  <2>1. new \in Request BY <1>1, <1>5, OpenedType, CommandTypes DEF Ops, Stages
  <2>2. Insert(s, u, url, e) /\ Begin(r, new) /\ cache' = cache /\ answer' = None
    BY <1>6 DEF Create
  <2>3. CommandsGranted'
    <3>1. new.op = "create" /\ new.cmd.url = url /\ new.slug = s BY DEF Opened, Set
    <3>2. QED BY <1>1, <1>4, <2>1, <2>2, <3>1, GrantBegin
  <2>4. EntriesGranted' BY <1>1, <1>4, <2>2 DEF EntriesGranted
  <2>5. QED BY <1>4, <2>2, <2>3, <2>4 DEF GrantInv, RedirectsAreGranted
<1>7. ASSUME NEW s \in Slugs, NEW u \in Users, NEW url \in HttpUrls, NEW e \in Expiries,
             McpCreate(s, u, url, e)
      PROVE  GrantInv'
  <2>1. Insert(s, u, url, e) /\ cache' = cache /\ answer' = None /\ req' = Disturbed(s, "create")
    BY <1>7 DEF McpCreate
  <2>2. CommandsGranted'
    BY <1>1, <1>4, <2>1, DisturbedTypes, Present DEF CommandsGranted, SameRequest, Request
  <2>3. EntriesGranted' BY <1>1, <1>4, <2>1 DEF EntriesGranted
  <2>4. QED BY <1>4, <2>1, <2>2, <2>3 DEF GrantInv, RedirectsAreGranted
<1>8. ASSUME NEW r \in Requests, NEW op \in {"patch", "delete"}, NEW s \in Slugs,
             NEW u \in Users, NEW url \in HttpUrls \cup {None}, op = "patch" => url \in HttpUrls,
             CheckOwner(r, op, s, u, url)
      PROVE  GrantInv'
  <2>. DEFINE new == Opened(op, "mutate", s, u, url, db[s].expiresAt, Del)
  <2>1. db[s] \in Row /\ db[s].owner = u
    BY <1>1, <1>8, Present DEF CheckOwner, Owned
  <2>2. new \in Request BY <1>1, <2>1, OpenedType, CommandTypes DEF Ops, Stages, Row
  <2>3. /\ Begin(r, new) /\ db' = db /\ cache' = cache /\ answer' = None
        /\ \A t \in Slugs : granted[t] \subseteq granted'[t]
        /\ op = "patch" => url \in granted'[s]
    BY <1>1, <1>8, <2>1 DEF CheckOwner, TypeOK
  <2>4. CommandsGranted'
    <3>1. new.op = op /\ new.url = url /\ new.slug = s /\ new.cmd = Del BY DEF Opened
    <3>2. QED BY <1>1, <2>2, <2>3, <3>1, GrantBegin
  <2>5. QED
    BY <1>1, <2>3, <2>4 DEF GrantInv, RowsGranted, EntriesGranted, RedirectsAreGranted
<1>9. QED
  BY <1>2, <1>3, <1>6, <1>7, <1>8 DEF ClientRequest, PatchCheck, DeleteCheck

LEMMA GrantRequest ==
    ASSUME TypeInv, GrantInv, NEW r \in Requests, RequestStep(r) \/ Abort(r)
    PROVE  GrantInv'
<1>. USE LifecycleAssumption
<1>1. TypeOK /\ PatchCarriesUrl /\ RowsGranted /\ EntriesGranted /\ CommandsGranted
  BY DEF TypeInv, GrantInv
<1>2. req[r] # None
  BY DEF RequestStep, RedirectRead, PatchUpdate, DeleteRow, CacheApply, CacheLose, Abort
<1>3. req[r] \in Request /\ req[r].slug \in Slugs BY <1>1, <1>2, Present DEF Request
<1>4. granted' = granted
  BY DEF RequestStep, RedirectRead, PatchUpdate, DeleteRow, CacheApply, CacheLose, Abort
<1>5. ASSUME req' = [req EXCEPT ![r] = None] PROVE CommandsGranted'
  BY <1>1, <1>4, <1>5 DEF TypeOK, CommandsGranted
<1>6. ASSUME NEW cmd \in Command,
             req' = [req EXCEPT ![r].stage = "cache", ![r].cmd = cmd],
             cmd # Del => cmd.url \in granted[req[r].slug] \cap HttpUrls,
             req[r].op = "redirect" => cmd # Del
      PROVE  CommandsGranted'
  <2>. DEFINE x == [req[r] EXCEPT !.stage = "cache", !.cmd = cmd]
  <2>1. /\ x.op = req[r].op /\ x.url = req[r].url /\ x.slug = req[r].slug
        /\ x.cmd = cmd /\ x.stage = "cache"
    BY <1>3 DEF Request
  <2>2. req' = [req EXCEPT ![r] = x] BY <1>1, <1>6 DEF TypeOK
  <2>3. QED BY <1>1, <1>2, <1>4, <1>6, <2>1, <2>2 DEF TypeOK, CommandsGranted
<1>7. ASSUME Finish(r), req[r].stage = "cache" PROVE CommandsGranted' /\ RedirectsAreGranted'
  <2>1. CASE req[r].op = "redirect"
    BY <1>1, <1>2, <1>4, <1>5, <1>7, <2>1 DEF Finish, CommandsGranted, RedirectsAreGranted
  <2>2. CASE req[r].op # "redirect"
    BY <1>5, <1>7, <2>2 DEF Finish, RedirectsAreGranted
  <2>3. QED BY <2>1, <2>2
<1>8. CASE RedirectRead(r)
  <2>. DEFINE s == req[r].slug
              row == db[s]
  <2>1. RowsGranted' /\ EntriesGranted'
    BY <1>1, <1>8 DEF RedirectRead, RowsGranted, EntriesGranted
  <2>2. CASE \E code \in {404, 410} :
               /\ req' = [req EXCEPT ![r] = None]
               /\ answer' = [slug |-> s, status |-> code, url |-> None]
    BY <1>5, <2>1, <2>2 DEF GrantInv, RedirectsAreGranted
  <2>3. CASE /\ row # None /\ row.url \in HttpUrls
             /\ req' = [req EXCEPT ![r].stage = "cache",
                                   ![r].cmd = Set(row.url, row.expiresAt)]
             /\ answer' = None
    <3>. DEFINE cmd == Set(row.url, row.expiresAt)
    <3>1. row \in Row BY <1>1, <1>3, <2>3, Present
    <3>2. cmd \in Command /\ cmd.url = row.url /\ cmd # Del
      BY <1>1, <3>1, CommandTypes DEF Row, Set, Del
    <3>3. row.url \in granted[s] BY <1>1, <1>3, <2>3 DEF RowsGranted
    <3>4. QED BY <1>6, <2>1, <2>3, <3>2, <3>3 DEF GrantInv, RedirectsAreGranted
  <2>4. QED BY <1>8, <2>2, <2>3 DEF RedirectRead, HasHttpScheme
<1>9. CASE PatchUpdate(r)
  <2>1. req[r].op = "patch" /\ req[r].url \in HttpUrls /\ req[r].url \in granted[req[r].slug]
    BY <1>1, <1>2, <1>9 DEF PatchUpdate, PatchCarriesUrl, CommandsGranted
  <2>2. WriteThrough(r) \in Command
        /\ (WriteThrough(r) # Del => WriteThrough(r).url = req[r].url)
    BY <1>1, <1>3, <2>1, CommandTypes DEF WriteThrough, Request, Set
  <2>3. CommandsGranted' BY <1>6, <1>9, <2>1, <2>2 DEF PatchUpdate
  <2>4. RowsGranted'
    BY <1>1, <1>3, <1>4, <1>9, <2>1, Present DEF PatchUpdate, Updated, Owned, RowsGranted, TypeOK, Row
  <2>5. QED
    BY <1>1, <1>4, <1>9, <2>3, <2>4 DEF PatchUpdate, GrantInv, EntriesGranted, RedirectsAreGranted
<1>10. CASE DeleteRow(r)
  <2>1. Del \in Command BY DEF Command
  <2>2. CommandsGranted' BY <1>6, <1>10, <2>1 DEF DeleteRow
  <2>3. RowsGranted' BY <1>1, <1>3, <1>4, <1>10 DEF DeleteRow, RowsGranted, TypeOK
  <2>4. QED
    BY <1>1, <1>4, <1>10, <2>2, <2>3 DEF DeleteRow, GrantInv, EntriesGranted, RedirectsAreGranted
<1>11. CASE CacheApply(r)
  <2>1. Stored(req[r].cmd) # None => Stored(req[r].cmd).url \in granted[req[r].slug] \cap HttpUrls
    BY <1>1, <1>2 DEF Stored, CommandsGranted
  <2>2. EntriesGranted'
    BY <1>1, <1>3, <1>4, <1>11, <2>1 DEF CacheApply, EntriesGranted, TypeOK
  <2>3. QED BY <1>1, <1>4, <1>7, <1>11, <2>2 DEF CacheApply, GrantInv, RowsGranted
<1>12. CASE CacheLose(r)
  BY <1>1, <1>4, <1>7, <1>12 DEF CacheLose, GrantInv, RowsGranted, EntriesGranted
<1>13. CASE Abort(r)
  BY <1>1, <1>4, <1>5, <1>13
     DEF Abort, GrantInv, RowsGranted, EntriesGranted, RedirectsAreGranted
<1>14. QED BY <1>8, <1>9, <1>10, <1>11, <1>12, <1>13 DEF RequestStep

LEMMA GrantCleanup ==
    ASSUME TypeInv, GrantInv, NEW c \in Cleaners, CleanupStep(c) \/ SweepCrash(c)
    PROVE  GrantInv'
<1>. USE LifecycleAssumption
<1>1. TypeOK /\ RowsGranted /\ EntriesGranted /\ CommandsGranted
  BY DEF TypeInv, GrantInv
<1>2. granted' = granted /\ answer' = None
  BY DEF CleanupStep, SweepFind, SweepDelete, SweepSkip, SweepEvict, SweepEnd, SweepCrash
<1>3. RedirectsAreGranted' BY <1>2 DEF RedirectsAreGranted
<1>4. ASSUME NEW s \in Slugs, SweepDelete(c, s) PROVE GrantInv'
  <2>1. CommandsGranted'
    BY <1>1, <1>2, <1>4, DisturbedTypes DEF SweepDelete, CommandsGranted, SameRequest
  <2>2. RowsGranted' /\ EntriesGranted'
    BY <1>1, <1>2, <1>4 DEF SweepDelete, RowsGranted, EntriesGranted, TypeOK
  <2>3. QED BY <1>3, <2>1, <2>2 DEF GrantInv
<1>5. CASE SweepEvict(c)
  <2>1. EntriesGranted'
    BY <1>1, <1>2, <1>5 DEF SweepEvict, EntriesGranted, TypeOK
  <2>2. QED
    BY <1>1, <1>2, <1>3, <1>5, <2>1 DEF SweepEvict, GrantInv, RowsGranted, CommandsGranted
<1>6. CASE UNCHANGED <<db, cache, req>>
  BY <1>1, <1>2, <1>3, <1>6 DEF GrantInv, RowsGranted, EntriesGranted, CommandsGranted
<1>7. QED
  BY <1>4, <1>5, <1>6 DEF CleanupStep, SweepFind, SweepSkip, SweepEnd, SweepCrash

LEMMA GrantStep == TypeInv /\ GrantInv /\ [Next]_vars => GrantInv'
<1>. SUFFICES ASSUME TypeInv, GrantInv, [Next]_vars PROVE GrantInv'
  OBVIOUS
<1>1. RowsGranted /\ EntriesGranted /\ CommandsGranted /\ RedirectsAreGranted
  BY DEF GrantInv
<1>. USE DEF GrantInv, RowsGranted, EntriesGranted, CommandsGranted, RedirectsAreGranted
<1>2. CASE Tick
  BY <1>1, <1>2, LifecycleAssumption DEF Tick
<1>3. ASSUME NEW s \in Slugs, EvictLru(s) PROVE GrantInv'
  BY <1>1, <1>3 DEF EvictLru, TypeInv, TypeOK
<1>4. CASE UNCHANGED vars
  BY <1>1, <1>4 DEF vars
<1>5. QED
  BY <1>2, <1>3, <1>4, GrantClient, GrantRequest, GrantCleanup DEF Next

\* Whatever races, failures and slug reuse happen, a redirect only sends visitors
\* to http(s) destinations that an owner of the slug asked for.
THEOREM RedirectsGranted == Spec => []RedirectsAreGranted
<1>1. Init => TypeInv /\ GrantInv BY TypeInit, GrantInit
<1>2. TypeInv /\ GrantInv /\ [Next]_vars => (TypeInv /\ GrantInv)' BY TypeStep, GrantStep
<1>3. TypeInv /\ GrantInv => RedirectsAreGranted BY DEF GrantInv
<1>4. QED BY <1>1, <1>2, <1>3, PTL DEF Spec

-----------------------------------------------------------------------------
\* Why settled slugs agree. An undisturbed writer is alone on its slug and an
\* undisturbed redirect shares it with redirects only; on a settled slug nobody
\* is disturbed. So the command of an undisturbed request still describes the
\* row when Redis runs it, and an undisturbed PATCH still owns its row.
Exclusive ==
    /\ \A s \in Slugs, r, q \in Requests :
          r # q /\ On(r, s) /\ On(q, s) /\ req[r].undisturbed =>
              req[r].op = "redirect" /\ req[q].op = "redirect"
    /\ \A s \in Slugs, r \in Requests, c \in Cleaners :
          On(r, s) /\ Evicting(c, s) => ~req[r].undisturbed /\ ~sweep[c].undisturbed
    /\ \A s \in Slugs, c, d \in Cleaners :
          c # d /\ Evicting(c, s) /\ Evicting(d, s) => ~sweep[c].undisturbed

SettledAlone ==
    \A s \in Slugs \ unsettled :
        /\ \A r \in Requests : On(r, s) => req[r].undisturbed
        /\ \A c \in Cleaners : Evicting(c, s) => sweep[c].undisturbed

CommandMatches(s, cmd) ==
    cmd # Del =>
        /\ db[s] # None /\ cmd.url = db[s].url
        /\ cmd.ttl \in {None, 0} => LeavesNoTtl(db[s].expiresAt, now)

CommandsMatch ==
    \A r \in Requests : req[r] # None /\ req[r].undisturbed /\ req[r].stage = "cache" =>
        CommandMatches(req[r].slug, req[r].cmd)

PatchesOwn ==
    \A r \in Requests :
        req[r] # None /\ req[r].undisturbed /\ req[r].op = "patch" /\ req[r].stage = "mutate" =>
            /\ Owned(req[r].slug, req[r].user)
            /\ db[req[r].slug].expiresAt = req[r].expiresAt

SettledInv == Exclusive /\ SettledAlone /\ CommandsMatch /\ PatchesOwn /\ SettledAgreement

\* A SET goes out without an expiry only for a link in its last second.
LEMMA NoTtlNearExpiry ==
    ASSUME NEW e \in Expiry, NEW t \in Nat, TtlSecondsUntil(e, t) \in {None, 0}
    PROVE  LeavesNoTtl(e, t)
<1>1. CASE e = None
  BY <1>1, CacheTtlAssumption DEF TtlSecondsUntil
<1>2. CASE e # None
  <2>1. e \in Nat BY <1>2 DEF Expiry
  <2>2. CASE e <= t BY <1>2, <2>1, <2>2, CacheTtlAssumption DEF LeavesNoTtl
  <2>3. CASE e > t
    <3>. DEFINE k == (e - t) \div TicksPerSecond
    <3>1. k \in Nat /\ (k = 0 => e - t < TicksPerSecond)
      BY <2>1, <2>3, CacheTtlAssumption
    <3>2. k = 0 BY <1>2, <2>1, <2>3, <3>1, CacheTtlAssumption DEF TtlSecondsUntil
    <3>3. QED BY <1>2, <2>1, <3>1, <3>2, CacheTtlAssumption DEF LeavesNoTtl
  <2>4. QED BY <2>1, <2>2, <2>3
<1>3. QED BY <1>1, <1>2

\* The command of a link describes its row, and keeps doing so as time passes.
LEMMA SetMatches ==
    ASSUME TypeOK, NEW s \in Slugs, db[s] # None
    PROVE  CommandMatches(s, Set(db[s].url, db[s].expiresAt))
<1>1. db[s].expiresAt \in Expiry /\ now \in Nat BY Present DEF Row, TypeOK
<1>2. QED BY <1>1, NoTtlNearExpiry DEF CommandMatches, Set

LEMMA LastSecondLasts ==
    ASSUME NEW e \in Expiry, NEW t \in Nat, LeavesNoTtl(e, t)
    PROVE  LeavesNoTtl(e, t + 1)
BY CacheTtlAssumption DEF LeavesNoTtl, Expiry

\* A matching command leaves an entry that matches the row.
LEMMA AppliedMatches ==
    ASSUME TypeOK, NEW s \in Slugs, NEW cmd \in Command, CommandMatches(s, cmd),
           Stored(cmd) # None
    PROVE  /\ db[s] # None /\ Stored(cmd).url = db[s].url
           /\ Stored(cmd).until = None => LeavesNoTtl(db[s].expiresAt, now)
<1>1. cmd # Del /\ cmd.ttl \in Ttl BY DEF Stored, Command
<1>2. ASSUME DeadlineOf(cmd.ttl, now) = None PROVE cmd.ttl \in {None, 0}
  <2>1. CASE cmd.ttl # None /\ cmd.ttl > 0
    <3>1. now + cmd.ttl * TicksPerSecond \in Int
      BY <1>1, <2>1, CacheTtlAssumption DEF TypeOK, Ttl
    <3>2. QED BY <1>2, <2>1, <3>1, CacheTtlAssumption DEF DeadlineOf
  <2>2. CASE ~(cmd.ttl # None /\ cmd.ttl > 0) BY <1>1, <2>2 DEF Ttl
  <2>3. QED BY <2>1, <2>2
<1>3. QED BY <1>1, <1>2 DEF CommandMatches, Stored

LEMMA SettledInit == Init => SettledInv
BY DEF Init, SettledInv, Exclusive, SettledAlone, CommandsMatch, PatchesOwn, SettledAgreement,
       EntryMatchesRow, On, Evicting

\* A new request on a slug: those it clashes with are disturbed from now on, and
\* if the slug is still settled there were none.
LEMMA BeginSettled ==
    ASSUME TypeOK, Exclusive, SettledAlone,
           NEW r \in Requests, NEW record \in Request, Begin(r, record)
    PROVE  /\ Exclusive' /\ SettledAlone'
           /\ \A q \in Requests \ {r}, s \in Slugs :
                 /\ On(q, s)' <=> On(q, s)
                 /\ On(q, s)' => /\ SameRequest(req'[q], req[q])
                                 /\ req'[q].undisturbed => req[q].undisturbed
                 /\ On(q, record.slug)' /\ record.op # "redirect" => ~req'[q].undisturbed
           /\ \A c \in Cleaners, s \in Slugs : Evicting(c, s)' <=> Evicting(c, s)
           /\ \A s \in Slugs : s \notin unsettled' => s \notin unsettled
           /\ record.slug \notin unsettled' => ~Clash(record.slug, record.op)
<1>. DEFINE s0 == record.slug
            op0 == record.op
<1>1. s0 \in Slugs BY DEF Request
<1>2. req[r] = None /\ sweep' = SweepsDisturbed(s0)
      /\ unsettled' = IF Clash(s0, op0) THEN unsettled \cup {s0} ELSE unsettled
  BY DEF Begin, Unsettle
<1>3. /\ req'[r] # None /\ SameRequest(req'[r], record)
      /\ req'[r].undisturbed = ~Clash(s0, op0)
  BY BeginTypes, LifecycleAssumption
<1>4. \A s \in Slugs : On(r, s)' <=> s = s0
  BY <1>3 DEF On, SameRequest
<1>5. \A q \in Requests \ {r}, s \in Slugs :
         /\ On(q, s)' <=> On(q, s)
         /\ On(q, s)' => /\ SameRequest(req'[q], req[q])
                         /\ req'[q].undisturbed =
                              (req[q].undisturbed
                                 /\ ~(s = s0 /\ (op0 # "redirect" \/ req[q].op # "redirect")))
  BY <1>1, BeginTypes, DisturbedTypes DEF On, SameRequest
<1>6. \A c \in Cleaners, s \in Slugs :
         /\ Evicting(c, s)' <=> Evicting(c, s)
         /\ Evicting(c, s)' => sweep'[c].undisturbed = (sweep[c].undisturbed /\ s # s0)
  BY <1>1, <1>2, DisturbedTypes DEF Evicting, SameSweep
<1>7. Exclusive'
  <2>1. ASSUME NEW s \in Slugs, NEW p \in Requests, NEW q \in Requests, p # q,
               On(p, s)', On(q, s)', req'[p].undisturbed
        PROVE  req'[p].op = "redirect" /\ req'[q].op = "redirect"
    <3>1. CASE p = r
      <4>1. s = s0 /\ ~Clash(s0, op0) /\ On(q, s0) BY <1>3, <1>4, <1>5, <2>1, <3>1
      <4>2. op0 = "redirect" /\ req[q].op = "redirect" BY <4>1 DEF Clash
      <4>3. QED BY <1>3, <1>5, <2>1, <3>1, <4>2 DEF SameRequest
    <3>2. CASE q = r
      <4>1. s = s0 /\ On(p, s0) BY <1>4, <1>5, <2>1, <3>2
      <4>2. op0 = "redirect" /\ req[p].op = "redirect" BY <1>5, <2>1, <3>2, <4>1
      <4>3. QED BY <1>3, <1>5, <2>1, <3>2, <4>2 DEF SameRequest
    <3>3. CASE p # r /\ q # r
      <4>1. On(p, s) /\ On(q, s) /\ req[p].undisturbed BY <1>5, <2>1, <3>3
      <4>2. req[p].op = "redirect" /\ req[q].op = "redirect" BY <2>1, <4>1 DEF Exclusive
      <4>3. SameRequest(req'[p], req[p]) /\ SameRequest(req'[q], req[q]) BY <1>5, <2>1, <3>3
      <4>4. QED BY <4>2, <4>3 DEF SameRequest
    <3>4. QED BY <3>1, <3>2, <3>3
  <2>2. ASSUME NEW s \in Slugs, NEW p \in Requests, NEW c \in Cleaners,
               On(p, s)', Evicting(c, s)'
        PROVE  ~req'[p].undisturbed /\ ~sweep'[c].undisturbed
    <3>1. CASE p = r
      <4>1. s = s0 /\ Evicting(c, s0) BY <1>4, <1>6, <2>2, <3>1
      <4>2. Clash(s0, op0) BY <4>1 DEF Clash
      <4>3. QED BY <1>3, <1>6, <2>2, <3>1, <4>1, <4>2
    <3>2. CASE p # r BY <1>5, <1>6, <2>2, <3>2 DEF Exclusive
    <3>3. QED BY <3>1, <3>2
  <2>3. ASSUME NEW s \in Slugs, NEW c \in Cleaners, NEW d \in Cleaners, c # d,
               Evicting(c, s)', Evicting(d, s)'
        PROVE  ~sweep'[c].undisturbed
    BY <1>6, <2>3 DEF Exclusive
  <2>4. QED BY <2>1, <2>2, <2>3 DEF Exclusive
<1>8. SettledAlone'
  <2>1. ASSUME NEW s \in Slugs \ unsettled', NEW p \in Requests, On(p, s)'
        PROVE  req'[p].undisturbed
    <3>1. CASE p = r BY <1>2, <1>3, <1>4, <2>1, <3>1
    <3>2. CASE p # r
      <4>1. On(p, s) /\ req[p].undisturbed BY <1>2, <1>5, <2>1, <3>2 DEF SettledAlone
      <4>2. s = s0 => op0 = "redirect" /\ req[p].op = "redirect"
        BY <1>2, <2>1, <4>1 DEF Clash
      <4>3. QED BY <1>5, <2>1, <3>2, <4>1, <4>2
    <3>3. QED BY <3>1, <3>2
  <2>2. ASSUME NEW s \in Slugs \ unsettled', NEW c \in Cleaners, Evicting(c, s)'
        PROVE  sweep'[c].undisturbed
    <3>1. Evicting(c, s) /\ sweep[c].undisturbed BY <1>2, <1>6, <2>2 DEF SettledAlone
    <3>2. s # s0 BY <1>2, <2>2, <3>1 DEF Clash
    <3>3. QED BY <1>6, <2>2, <3>1, <3>2
  <2>3. QED BY <2>1, <2>2 DEF SettledAlone
<1>9. QED BY <1>1, <1>2, <1>5, <1>6, <1>7, <1>8

\* A writer that has not reached Redis is still there after a request begins.
LEMMA BeginWriting ==
    ASSUME TypeOK, Exclusive, SettledAlone,
           NEW r \in Requests, NEW record \in Request, Begin(r, record)
    PROVE  \A s \in Slugs : Writing(s) => Writing(s)'
<1>1. req[r] = None BY DEF Begin
<1>2. ASSUME NEW s \in Slugs, NEW q \in Requests, On(q, s), req[q].stage = "cache",
             req[q].op # "redirect"
      PROVE  On(q, s)' /\ req'[q].stage = "cache" /\ req'[q].op # "redirect"
  <2>1. q # r BY <1>1, <1>2 DEF On
  <2>2. QED BY <1>2, <2>1, BeginSettled DEF SameRequest
<1>3. \A s \in Slugs, c \in Cleaners : Evicting(c, s) => Evicting(c, s)'
  BY BeginSettled
<1>4. QED BY <1>2, <1>3 DEF Writing

\* A request that begins and leaves the tables and the cache alone.
LEMMA SettledReader ==
    ASSUME TypeOK, SettledInv, NEW r \in Requests, NEW record \in Request, Begin(r, record),
           UNCHANGED <<db, cache, now>>, record.stage # "cache",
           record.op = "patch" => /\ Owned(record.slug, record.user)
                                  /\ db[record.slug].expiresAt = record.expiresAt
    PROVE  SettledInv'
<1>1. Exclusive' /\ SettledAlone' BY BeginSettled DEF SettledInv
<1>2. /\ SameRequest(req'[r], record) /\ req'[r] # None
      /\ \A q \in Requests \ {r} : req'[q] # None => req[q] # None /\ SameRequest(req'[q], req[q])
  BY BeginTypes, LifecycleAssumption
<1>3. \A q \in Requests \ {r} : req'[q] # None /\ req'[q].undisturbed => req[q].undisturbed
  <2>1. ASSUME NEW q \in Requests \ {r}, req'[q] # None, req'[q].undisturbed
        PROVE  req[q].undisturbed
    <3>1. PICK s \in Slugs : s = req[q].slug BY <1>2, <2>1, Present DEF Request
    <3>2. On(q, s)' BY <1>2, <2>1, <3>1 DEF On, SameRequest
    <3>3. QED BY <2>1, <3>2, BeginSettled DEF SettledInv
  <2>2. QED BY <2>1
<1>4. CommandsMatch'
  <2>1. ASSUME NEW q \in Requests, req'[q] # None, req'[q].undisturbed, req'[q].stage = "cache"
        PROVE  CommandMatches(req[q].slug, req[q].cmd)'
    <3>1. q # r BY <1>2, <2>1 DEF SameRequest
    <3>2. CommandMatches(req[q].slug, req[q].cmd)
      BY <1>2, <1>3, <2>1, <3>1 DEF SettledInv, CommandsMatch, SameRequest
    <3>3. req'[q].slug = req[q].slug /\ req'[q].cmd = req[q].cmd
      BY <1>2, <2>1, <3>1 DEF SameRequest
    <3>4. QED BY <3>2, <3>3 DEF CommandMatches
  <2>2. QED BY <2>1 DEF CommandsMatch
<1>5. PatchesOwn'
  BY <1>2, <1>3 DEF SettledInv, PatchesOwn, SameRequest, Owned
<1>6. SettledAgreement'
  <2>1. \A s \in Slugs : s \notin unsettled' => s \notin unsettled
    BY BeginSettled DEF SettledInv
  <2>2. \A s \in Slugs : Writing(s) => Writing(s)' BY BeginWriting DEF SettledInv
  <2>3. QED BY <2>1, <2>2 DEF SettledInv, SettledAgreement, EntryMatchesRow
<1>7. QED BY <1>1, <1>4, <1>5, <1>6 DEF SettledInv

\* A creation: whoever was on the slug is disturbed, and its own SET matches.
LEMMA SettledCreate ==
    ASSUME TypeInv, SettledInv, NEW r \in Requests, NEW s \in Slugs, NEW u \in Users,
           NEW url \in HttpUrls, NEW e \in Expiries, Create(r, s, u, url, e)
    PROVE  SettledInv'
<1>. DEFINE new == Opened("create", "cache", s, u, url, e, Set(url, e))
<1>. USE LifecycleAssumption
<1>1. TypeOK /\ e \in Expiry
  <2>1. now + Retention \in Nat BY DEF TypeInv, TypeOK
  <2>2. QED BY <2>1 DEF Expiries, Expiry, TypeInv
<1>2. new \in Request BY <1>1, OpenedType, CommandTypes DEF Ops, Stages
<1>3. Begin(r, new) /\ cache' = cache /\ now' = now BY DEF Create
<1>4. new.slug = s /\ new.op = "create" /\ new.stage = "cache" /\ new.cmd = Set(url, e)
  BY DEF Opened
<1>5. /\ db'[s] # None /\ db'[s].url = url /\ db'[s].expiresAt = e
      /\ \A t \in Slugs \ {s} : db'[t] = db[t]
  BY <1>1 DEF Create, Insert, TypeOK, Row
<1>6. Exclusive' /\ SettledAlone' BY <1>1, <1>2, <1>3, BeginSettled DEF SettledInv
<1>7. /\ SameRequest(req'[r], new) /\ req'[r] # None
      /\ \A q \in Requests \ {r} : req'[q] # None => req[q] # None /\ SameRequest(req'[q], req[q])
  BY <1>1, <1>2, <1>3, BeginTypes
<1>8. ASSUME NEW q \in Requests \ {r}, req'[q] # None, req'[q].undisturbed
      PROVE  req[q].undisturbed /\ req[q].slug \in Slugs \ {s}
  <2>1. PICK t \in Slugs : t = req[q].slug BY <1>1, <1>7, <1>8, Present DEF Request
  <2>2. On(q, t)' BY <1>7, <1>8, <2>1 DEF On, SameRequest
  <2>3. QED BY <1>1, <1>2, <1>3, <1>4, <1>8, <2>1, <2>2, BeginSettled DEF SettledInv
<1>9. CommandsMatch'
  <2>1. ASSUME NEW q \in Requests, req'[q] # None, req'[q].undisturbed, req'[q].stage = "cache"
        PROVE  CommandMatches(req[q].slug, req[q].cmd)'
    <3>1. CASE q = r
      <4>1. req'[q].slug = s /\ req'[q].cmd = Set(url, e) BY <1>4, <1>7, <3>1 DEF SameRequest
      <4>2. now \in Nat BY <1>1 DEF TypeOK
      <4>3. Set(url, e).url = url /\ Set(url, e).ttl = TtlSecondsUntil(e, now) BY DEF Set
      <4>4. QED BY <1>1, <1>3, <1>5, <4>1, <4>2, <4>3, NoTtlNearExpiry DEF CommandMatches
    <3>2. CASE q # r
      <4>1. /\ req[q] # None /\ SameRequest(req'[q], req[q]) /\ req[q].undisturbed
            /\ req[q].slug \in Slugs \ {s}
        BY <1>7, <1>8, <2>1, <3>2
      <4>2. CommandMatches(req[q].slug, req[q].cmd)
        BY <2>1, <4>1 DEF SettledInv, CommandsMatch, SameRequest
      <4>3. req'[q].slug = req[q].slug /\ req'[q].cmd = req[q].cmd BY <4>1 DEF SameRequest
      <4>4. QED BY <1>3, <1>5, <4>1, <4>2, <4>3 DEF CommandMatches
    <3>3. QED BY <3>1, <3>2
  <2>2. QED BY <2>1 DEF CommandsMatch
<1>10. PatchesOwn'
  <2>1. ASSUME NEW q \in Requests, req'[q] # None, req'[q].undisturbed, req'[q].op = "patch",
               req'[q].stage = "mutate"
        PROVE  Owned(req[q].slug, req[q].user)' /\ db'[req'[q].slug].expiresAt = req'[q].expiresAt
    <3>1. q # r BY <1>4, <1>7, <2>1 DEF SameRequest
    <3>2. /\ req[q] # None /\ SameRequest(req'[q], req[q]) /\ req[q].undisturbed
          /\ req[q].slug \in Slugs \ {s}
      BY <1>7, <1>8, <2>1, <3>1
    <3>3. QED BY <1>5, <2>1, <3>2 DEF SettledInv, PatchesOwn, SameRequest, Owned
  <2>2. QED BY <2>1 DEF PatchesOwn
<1>11. SettledAgreement'
  <2>1. \A t \in Slugs : t \notin unsettled' => t \notin unsettled
    BY <1>1, <1>2, <1>3, BeginSettled DEF SettledInv
  <2>2. \A t \in Slugs : Writing(t) => Writing(t)'
    BY <1>1, <1>2, <1>3, BeginWriting DEF SettledInv
  <2>3. Writing(s)' BY <1>4, <1>7 DEF Writing, On, SameRequest
  <2>4. QED BY <1>3, <1>5, <2>1, <2>2, <2>3 DEF SettledInv, SettledAgreement, EntryMatchesRow
<1>12. QED BY <1>6, <1>9, <1>10, <1>11 DEF SettledInv

\* A creation through MCP sets no entry: on a settled slug without a row there is
\* none to contradict it.
LEMMA SettledMcp ==
    ASSUME TypeInv, SettledInv, NEW s \in Slugs, NEW u \in Users,
           NEW url \in HttpUrls, NEW e \in Expiries, McpCreate(s, u, url, e)
    PROVE  SettledInv'
<1>1. /\ db[s] = None /\ cache' = cache /\ now' = now /\ req' = Disturbed(s, "create")
      /\ sweep' = SweepsDisturbed(s)
      /\ unsettled' = IF Clash(s, "create") THEN unsettled \cup {s} ELSE unsettled
      /\ \A t \in Slugs \ {s} : db'[t] = db[t]
  BY DEF McpCreate, Insert, Unsettle, TypeInv, TypeOK
<1>2. \A q \in Requests :
         /\ req'[q] # None <=> req[q] # None
         /\ req[q] # None => SameRequest(req'[q], req[q])
         /\ req[q] # None => req'[q].undisturbed = (req[q].undisturbed /\ ~On(q, s))
  BY <1>1, DisturbedTypes DEF TypeInv
<1>3. \A q \in Requests, t \in Slugs : On(q, t)' <=> On(q, t)
  BY <1>2 DEF On, SameRequest
<1>4. \A c \in Cleaners, t \in Slugs :
         /\ Evicting(c, t)' <=> Evicting(c, t)
         /\ Evicting(c, t) => sweep'[c].undisturbed = (sweep[c].undisturbed /\ t # s)
  BY <1>1, DisturbedTypes DEF Evicting, SameSweep, TypeInv
<1>5. Exclusive'
  <2>1. ASSUME NEW t \in Slugs, NEW p \in Requests, NEW q \in Requests, p # q,
               On(p, t)', On(q, t)', req'[p].undisturbed
        PROVE  req'[p].op = "redirect" /\ req'[q].op = "redirect"
    <3>1. On(p, t) /\ On(q, t) /\ req[p].undisturbed BY <1>2, <1>3, <2>1 DEF On
    <3>2. req[p].op = "redirect" /\ req[q].op = "redirect"
      BY <2>1, <3>1 DEF SettledInv, Exclusive
    <3>3. QED BY <1>2, <3>1, <3>2 DEF On, SameRequest
  <2>2. ASSUME NEW t \in Slugs, NEW p \in Requests, NEW c \in Cleaners,
               On(p, t)', Evicting(c, t)'
        PROVE  ~req'[p].undisturbed /\ ~sweep'[c].undisturbed
    <3>1. On(p, t) /\ Evicting(c, t) /\ ~req[p].undisturbed /\ ~sweep[c].undisturbed
      BY <1>3, <1>4, <2>2 DEF SettledInv, Exclusive
    <3>2. QED BY <1>2, <1>4, <3>1 DEF On
  <2>3. \A t \in Slugs, c, d \in Cleaners :
           c # d /\ Evicting(c, t)' /\ Evicting(d, t)' => ~sweep'[c].undisturbed
    BY <1>4 DEF SettledInv, Exclusive
  <2>4. QED BY <2>1, <2>2, <2>3 DEF Exclusive
<1>6. \A t \in Slugs \ unsettled' : t \notin unsettled /\ (t = s => ~Clash(s, "create"))
  BY <1>1
<1>7. SettledAlone'
  <2>1. ASSUME NEW t \in Slugs \ unsettled', NEW q \in Requests, On(q, t)'
        PROVE  req'[q].undisturbed
    <3>1. On(q, t) /\ req[q].undisturbed BY <1>3, <1>6, <2>1 DEF SettledInv, SettledAlone
    <3>2. t # s BY <1>6, <3>1 DEF Clash
    <3>3. QED BY <1>2, <3>1, <3>2 DEF On
  <2>2. ASSUME NEW t \in Slugs \ unsettled', NEW c \in Cleaners, Evicting(c, t)'
        PROVE  sweep'[c].undisturbed
    <3>1. Evicting(c, t) /\ sweep[c].undisturbed
      BY <1>4, <1>6, <2>2 DEF SettledInv, SettledAlone
    <3>2. t # s BY <1>6, <3>1 DEF Clash
    <3>3. QED BY <1>4, <3>1, <3>2
  <2>3. QED BY <2>1, <2>2 DEF SettledAlone
<1>8. ASSUME NEW q \in Requests, req'[q] # None, req'[q].undisturbed
      PROVE  /\ req[q] # None /\ SameRequest(req'[q], req[q]) /\ req[q].undisturbed
             /\ req[q].slug \in Slugs \ {s}
  <2>1. req[q] # None /\ req[q].slug \in Slugs BY <1>2, <1>8, Present DEF Request, TypeInv
  <2>2. QED BY <1>2, <1>8, <2>1 DEF On
<1>9. CommandsMatch'
  <2>1. ASSUME NEW q \in Requests, req'[q] # None, req'[q].undisturbed, req'[q].stage = "cache"
        PROVE  CommandMatches(req[q].slug, req[q].cmd)'
    <3>1. CommandMatches(req[q].slug, req[q].cmd)
      BY <1>8, <2>1 DEF SettledInv, CommandsMatch, SameRequest
    <3>2. QED BY <1>1, <1>8, <2>1, <3>1 DEF CommandMatches, SameRequest
  <2>2. QED BY <2>1 DEF CommandsMatch
<1>10. PatchesOwn'
  BY <1>1, <1>8 DEF SettledInv, PatchesOwn, SameRequest, Owned
<1>11. SettledAgreement'
  <2>1. ASSUME NEW t \in Slugs, t \notin unsettled', ~Writing(t)' PROVE EntryMatchesRow(t)'
    <3>1. ~Writing(t) BY <1>2, <1>3, <1>4, <2>1 DEF Writing, On, SameRequest
    <3>2. EntryMatchesRow(t) BY <1>6, <2>1, <3>1 DEF SettledInv, SettledAgreement
    <3>3. CASE t = s BY <1>1, <3>2, <3>3 DEF EntryMatchesRow
    <3>4. CASE t # s BY <1>1, <3>2, <3>4 DEF EntryMatchesRow
    <3>5. QED BY <3>3, <3>4
  <2>2. QED BY <2>1 DEF SettledAgreement
<1>12. QED BY <1>5, <1>7, <1>9, <1>10, <1>11 DEF SettledInv

LEMMA SettledClient == TypeInv /\ SettledInv /\ ClientRequest => SettledInv'
<1>. SUFFICES ASSUME TypeInv, SettledInv, ClientRequest PROVE SettledInv'
  OBVIOUS
<1>. USE LifecycleAssumption
<1>1. TypeOK BY DEF TypeInv
<1>2. ASSUME NEW s \in Slugs, RedirectHit(s) PROVE SettledInv'
  BY <1>2 DEF RedirectHit, SettledInv, Exclusive, SettledAlone, CommandsMatch, CommandMatches,
              PatchesOwn, Owned, SettledAgreement, Writing, EntryMatchesRow, On, Evicting
<1>3. ASSUME NEW r \in Requests, NEW s \in Slugs, RedirectMiss(r, s) PROVE SettledInv'
  <2>. DEFINE new == Opened("redirect", "read", s, None, None, None, Del)
  <2>1. new \in Request BY <1>1, OpenedType, CommandTypes DEF Ops, Stages, Expiry
  <2>2. Begin(r, new) /\ UNCHANGED <<db, cache, now>> BY <1>3 DEF RedirectMiss
  <2>3. new.stage = "read" /\ new.op = "redirect" BY DEF Opened
  <2>4. QED BY <1>1, <2>1, <2>2, <2>3, SettledReader
<1>4. ASSUME NEW r \in Requests, NEW op \in {"patch", "delete"}, NEW s \in Slugs,
             NEW u \in Users, NEW url \in HttpUrls \cup {None},
             CheckOwner(r, op, s, u, url)
      PROVE  SettledInv'
  <2>. DEFINE new == Opened(op, "mutate", s, u, url, db[s].expiresAt, Del)
  <2>1. db[s] \in Row BY <1>1, <1>4, Present DEF CheckOwner, Owned
  <2>2. new \in Request BY <1>1, <2>1, OpenedType, CommandTypes DEF Ops, Stages, Row
  <2>3. Begin(r, new) /\ UNCHANGED <<db, cache, now>> /\ Owned(s, u) BY <1>4 DEF CheckOwner
  <2>4. new.stage = "mutate" /\ new.slug = s /\ new.user = u /\ new.expiresAt = db[s].expiresAt
    BY DEF Opened
  <2>5. QED BY <1>1, <2>2, <2>3, <2>4, SettledReader
<1>5. QED
  BY <1>2, <1>3, <1>4, SettledCreate, SettledMcp DEF ClientRequest, PatchCheck, DeleteCheck

\* A step of one request that keeps its slug, kind and flag, or ends it, disturbs
\* nobody.
Narrowed(r) ==
    /\ sweep' = sweep
    /\ \A q \in Requests \ {r} : req'[q] = req[q]
    /\ req'[r] # None =>
          /\ req'[r].op = req[r].op /\ req'[r].slug = req[r].slug
          /\ req'[r].undisturbed = req[r].undisturbed

LEMMA NarrowedSettled ==
    ASSUME TypeOK, SettledInv, NEW r \in Requests, req[r] # None, Narrowed(r)
    PROVE  /\ Exclusive'
           /\ \A q \in Requests, s \in Slugs : On(q, s)' =>
                 /\ On(q, s) /\ req'[q].op = req[q].op
                 /\ req'[q].undisturbed = req[q].undisturbed
           /\ \A c \in Cleaners, s \in Slugs : Evicting(c, s)' <=> Evicting(c, s)
           /\ (\A s \in Slugs : s \notin unsettled' => s \notin unsettled) => SettledAlone'
<1>1. ASSUME NEW q \in Requests, NEW s \in Slugs, On(q, s)'
      PROVE  /\ On(q, s) /\ req'[q].op = req[q].op
             /\ req'[q].undisturbed = req[q].undisturbed
  <2>1. CASE q = r BY <1>1, <2>1 DEF On, Narrowed
  <2>2. CASE q # r BY <1>1, <2>2 DEF On, Narrowed
  <2>3. QED BY <2>1, <2>2
<1>2. \A c \in Cleaners, s \in Slugs :
         (Evicting(c, s)' <=> Evicting(c, s)) /\ sweep'[c] = sweep[c]
  BY DEF Evicting, Narrowed
<1>3. Exclusive'
  <2>1. ASSUME NEW s \in Slugs, NEW p \in Requests, NEW q \in Requests, p # q,
               On(p, s)', On(q, s)', req'[p].undisturbed
        PROVE  req'[p].op = "redirect" /\ req'[q].op = "redirect"
    BY <1>1, <2>1 DEF SettledInv, Exclusive
  <2>2. ASSUME NEW s \in Slugs, NEW p \in Requests, NEW c \in Cleaners,
               On(p, s)', Evicting(c, s)'
        PROVE  ~req'[p].undisturbed /\ ~sweep'[c].undisturbed
    BY <1>1, <1>2, <2>2 DEF SettledInv, Exclusive
  <2>3. ASSUME NEW s \in Slugs, NEW c \in Cleaners, NEW d \in Cleaners, c # d,
               Evicting(c, s)', Evicting(d, s)'
        PROVE  ~sweep'[c].undisturbed
    BY <1>2, <2>3 DEF SettledInv, Exclusive
  <2>4. QED BY <2>1, <2>2, <2>3 DEF Exclusive
<1>4. ASSUME \A s \in Slugs : s \notin unsettled' => s \notin unsettled
      PROVE  SettledAlone'
  BY <1>1, <1>2, <1>4 DEF SettledInv, SettledAlone
<1>5. QED BY <1>1, <1>2, <1>3, <1>4

\* Which slug a request works on.
LEMMA OnSlug ==
    ASSUME TypeOK, NEW r \in Requests, req[r] # None
    PROVE  \E s \in Slugs : s = req[r].slug /\ On(r, s)
BY Present DEF On, Request

\* resolveFromDatabase reads the row, and the SET it sends describes that row.
LEMMA SettledRead ==
    ASSUME TypeInv, SettledInv, NEW r \in Requests, RedirectRead(r)
    PROVE  SettledInv'
<1>. USE LifecycleAssumption
<1>1. TypeOK /\ req[r] # None /\ req[r].op = "redirect" BY DEF TypeInv, RedirectRead
<1>2. PICK s \in Slugs : s = req[r].slug /\ On(r, s) BY <1>1, OnSlug
<1>3. req[r] \in Request BY <1>1, Present
<1>4. UNCHANGED <<now, db, cache, sweep, unsettled>> BY DEF RedirectRead
<1>5. \/ req' = [req EXCEPT ![r] = None]
      \/ /\ db[s] # None
         /\ req' = [req EXCEPT ![r].stage = "cache",
                               ![r].cmd = Set(db[s].url, db[s].expiresAt)]
  BY <1>2 DEF RedirectRead
<1>6. Narrowed(r) /\ (req'[r] # None => db[s] # None /\ req'[r].cmd = Set(db[s].url, db[s].expiresAt))
  BY <1>1, <1>3, <1>4, <1>5 DEF Narrowed, TypeOK, Request
<1>7. Exclusive' /\ SettledAlone' BY <1>1, <1>4, <1>6, NarrowedSettled
<1>8. CommandsMatch'
  <2>1. ASSUME NEW q \in Requests, req'[q] # None, req'[q].undisturbed, req'[q].stage = "cache"
        PROVE  CommandMatches(req[q].slug, req[q].cmd)'
    <3>1. CASE q = r
      <4>1. db[s] # None /\ req'[q].slug = s /\ req'[q].cmd = Set(db[s].url, db[s].expiresAt)
        BY <1>2, <1>6, <2>1, <3>1 DEF Narrowed
      <4>2. CommandMatches(s, Set(db[s].url, db[s].expiresAt)) BY <1>1, <4>1, SetMatches
      <4>3. QED BY <1>4, <4>1, <4>2 DEF CommandMatches
    <3>2. CASE q # r
      <4>1. req'[q] = req[q] BY <1>6, <3>2 DEF Narrowed
      <4>2. CommandMatches(req[q].slug, req[q].cmd) BY <2>1, <4>1 DEF SettledInv, CommandsMatch
      <4>3. QED BY <1>4, <4>1, <4>2 DEF CommandMatches
    <3>3. QED BY <3>1, <3>2
  <2>2. QED BY <2>1 DEF CommandsMatch
<1>9. PatchesOwn'
  <2>1. ASSUME NEW q \in Requests, req'[q] # None, req'[q].undisturbed, req'[q].op = "patch",
               req'[q].stage = "mutate"
        PROVE  Owned(req[q].slug, req[q].user)' /\ db'[req'[q].slug].expiresAt = req'[q].expiresAt
    <3>1. q # r BY <1>1, <1>6, <2>1 DEF Narrowed
    <3>2. req'[q] = req[q] BY <1>6, <3>1 DEF Narrowed
    <3>3. QED BY <1>4, <2>1, <3>2 DEF SettledInv, PatchesOwn, Owned
  <2>2. QED BY <2>1 DEF PatchesOwn
<1>10. SettledAgreement'
  <2>1. ASSUME NEW t \in Slugs, Writing(t) PROVE Writing(t)'
    <3>1. ASSUME NEW q \in Requests, On(q, t), req[q].stage = "cache", req[q].op # "redirect"
          PROVE  On(q, t)' /\ req'[q].stage = "cache" /\ req'[q].op # "redirect"
      <4>1. q # r BY <1>1, <3>1
      <4>2. req'[q] = req[q] BY <1>6, <4>1 DEF Narrowed
      <4>3. QED BY <3>1, <4>2 DEF On
    <3>2. QED BY <1>4, <2>1, <3>1 DEF Writing, Evicting
  <2>2. QED BY <1>4, <2>1 DEF SettledInv, SettledAgreement, EntryMatchesRow
<1>11. QED BY <1>7, <1>8, <1>9, <1>10 DEF SettledInv

\* The UPDATE or DELETE of a request. Nobody undisturbed shares the slug with it,
\* and its own cache command describes the row it leaves.
LEMMA SettledMutate ==
    ASSUME TypeInv, SettledInv, NEW r \in Requests, NEW s \in Slugs, NEW cmd \in Command,
           On(r, s), req[r].op # "redirect", req[r].stage = "mutate",
           req' = [req EXCEPT ![r].stage = "cache", ![r].cmd = cmd],
           \A t \in Slugs \ {s} : db'[t] = db[t],
           req[r].undisturbed => CommandMatches(s, cmd)',
           UNCHANGED <<now, cache, sweep, unsettled>>
    PROVE  SettledInv'
<1>. USE LifecycleAssumption
<1>1. TypeOK /\ req[r] # None /\ req[r].slug = s BY DEF TypeInv, On
<1>2. req[r] \in Request BY <1>1, Present
<1>3. /\ Narrowed(r) /\ req'[r] # None
      /\ req'[r].stage = "cache" /\ req'[r].cmd = cmd
  <2>. DEFINE x == [req[r] EXCEPT !.stage = "cache", !.cmd = cmd]
  <2>1. /\ x \in Request /\ x.stage = "cache" /\ x.cmd = cmd /\ x.slug = req[r].slug
        /\ x.op = req[r].op /\ x.undisturbed = req[r].undisturbed
    BY <1>2 DEF Request, Stages
  <2>2. req' = [req EXCEPT ![r] = x] BY <1>1 DEF TypeOK
  <2>3. req'[r] = x /\ \A q \in Requests \ {r} : req'[q] = req[q] BY <1>1, <2>2 DEF TypeOK
  <2>. HIDE DEF x
  <2>4. sweep' = sweep OBVIOUS
  <2>5. QED BY <2>1, <2>3, <2>4 DEF Narrowed
<1>4. Exclusive' /\ SettledAlone' BY <1>1, <1>3, NarrowedSettled
<1>5. ASSUME NEW q \in Requests \ {r}, req'[q] # None, req'[q].undisturbed
      PROVE  req'[q] = req[q] /\ req[q].slug \in Slugs \ {s}
  <2>1. req'[q] = req[q] BY <1>3 DEF Narrowed
  <2>2. PICK t \in Slugs : t = req[q].slug /\ On(q, t) BY <1>1, <1>5, <2>1, OnSlug
  <2>3. t # s BY <1>5, <2>1, <2>2 DEF SettledInv, Exclusive
  <2>4. QED BY <2>1, <2>2, <2>3
<1>6. CommandsMatch'
  <2>1. ASSUME NEW q \in Requests, req'[q] # None, req'[q].undisturbed, req'[q].stage = "cache"
        PROVE  CommandMatches(req[q].slug, req[q].cmd)'
    <3>1. CASE q = r
      <4>1. req'[q].slug = s /\ req'[q].cmd = cmd /\ req[r].undisturbed
        BY <1>1, <1>3, <2>1, <3>1 DEF Narrowed
      <4>2. QED BY <4>1 DEF CommandMatches
    <3>2. CASE q # r
      <4>1. req'[q] = req[q] /\ req[q].slug \in Slugs \ {s} BY <1>5, <2>1, <3>2
      <4>2. CommandMatches(req[q].slug, req[q].cmd) BY <2>1, <4>1 DEF SettledInv, CommandsMatch
      <4>3. QED BY <4>1, <4>2 DEF CommandMatches
    <3>3. QED BY <3>1, <3>2
  <2>2. QED BY <2>1 DEF CommandsMatch
<1>7. PatchesOwn'
  <2>1. ASSUME NEW q \in Requests, req'[q] # None, req'[q].undisturbed, req'[q].op = "patch",
               req'[q].stage = "mutate"
        PROVE  Owned(req[q].slug, req[q].user)' /\ db'[req'[q].slug].expiresAt = req'[q].expiresAt
    <3>1. q # r BY <1>3, <2>1
    <3>2. req'[q] = req[q] /\ req[q].slug \in Slugs \ {s} BY <1>5, <2>1, <3>1
    <3>3. QED BY <2>1, <3>2 DEF SettledInv, PatchesOwn, Owned
  <2>2. QED BY <2>1 DEF PatchesOwn
<1>8. SettledAgreement'
  <2>1. Writing(s)' BY <1>1, <1>3 DEF Writing, On, Narrowed
  <2>2. ASSUME NEW t \in Slugs \ {s}, Writing(t) PROVE Writing(t)'
    <3>1. ASSUME NEW q \in Requests, On(q, t), req[q].stage = "cache", req[q].op # "redirect"
          PROVE  On(q, t)' /\ req'[q].stage = "cache" /\ req'[q].op # "redirect"
      <4>1. q # r BY <2>2, <3>1 DEF On
      <4>2. req'[q] = req[q] BY <1>3, <4>1 DEF Narrowed
      <4>3. QED BY <3>1, <4>2 DEF On
    <3>2. QED BY <2>2, <3>1 DEF Writing, Evicting
  <2>3. QED BY <2>1, <2>2 DEF SettledInv, SettledAgreement, EntryMatchesRow
<1>9. QED BY <1>4, <1>6, <1>7, <1>8 DEF SettledInv

LEMMA SettledPatch ==
    ASSUME TypeInv, SettledInv, NEW r \in Requests, PatchUpdate(r)
    PROVE  SettledInv'
<1>1. TypeOK /\ req[r] # None /\ req[r].op = "patch" /\ req[r].stage = "mutate"
  BY DEF TypeInv, PatchUpdate
<1>2. PICK s \in Slugs : s = req[r].slug /\ On(r, s) BY <1>1, OnSlug
<1>3. req[r] \in Request /\ req[r].url \in Urls /\ now \in Nat
  BY <1>1, Present, LifecycleAssumption DEF TypeInv, TypeOK, PatchCarriesUrl
<1>4. PICK cmd \in Command : cmd = WriteThrough(r)
  BY <1>1, <1>3, CommandTypes DEF WriteThrough, Request
<1>5. db' = Updated(s, req[r].user, req[r].url) /\ now' = now
  BY <1>2 DEF PatchUpdate
<1>6. \A t \in Slugs \ {s} : db'[t] = db[t] BY <1>1, <1>5 DEF Updated, TypeOK
<1>7. ASSUME req[r].undisturbed PROVE CommandMatches(s, cmd)'
  <2>1. Owned(s, req[r].user) /\ db[s].expiresAt = req[r].expiresAt
    BY <1>1, <1>2, <1>7 DEF SettledInv, PatchesOwn
  <2>2. db[s] \in Row BY <1>1, <2>1, Present DEF Owned
  <2>3. db' = [db EXCEPT ![s].url = req[r].url] BY <1>5, <2>1 DEF Updated
  <2>4. db'[s] \in Row /\ db'[s].url = req[r].url /\ db'[s].expiresAt = req[r].expiresAt
    BY <1>1, <1>3, <2>1, <2>2, <2>3 DEF TypeOK, Row
  <2>5. db'[s] # None BY <2>4, LifecycleAssumption
  <2>6. cmd # Del => cmd.url = req[r].url /\ cmd.ttl = TtlSecondsUntil(req[r].expiresAt, now)
    BY <1>4 DEF WriteThrough, Set
  <2>7. req[r].expiresAt \in Expiry BY <1>3 DEF Request
  <2>8. cmd # Del /\ cmd.ttl \in {None, 0} => LeavesNoTtl(req[r].expiresAt, now)
    BY <1>3, <2>6, <2>7, NoTtlNearExpiry
  <2>9. QED BY <1>5, <2>4, <2>5, <2>6, <2>8 DEF CommandMatches
<1>8. QED BY <1>1, <1>2, <1>4, <1>6, <1>7, SettledMutate DEF PatchUpdate

\* The DELETE leaves no row and sends a DEL, which asks nothing of the row.
LEMMA SettledDelete ==
    ASSUME TypeInv, SettledInv, NEW r \in Requests, DeleteRow(r)
    PROVE  SettledInv'
<1>1. TypeOK /\ req[r] # None /\ req[r].op = "delete" /\ req[r].stage = "mutate"
  BY DEF TypeInv, DeleteRow
<1>2. PICK s \in Slugs : s = req[r].slug /\ On(r, s) BY <1>1, OnSlug
<1>3. \A t \in Slugs \ {s} : db'[t] = db[t] BY <1>1, <1>2 DEF DeleteRow, TypeOK
<1>4. Del \in Command /\ CommandMatches(s, Del)'
  BY <1>1, CommandTypes DEF CommandMatches
<1>5. QED BY <1>1, <1>2, <1>3, <1>4, SettledMutate DEF DeleteRow

\* A request that ends without touching the row disturbs nobody; what others
\* hold is as good as before.
LEMMA SettledEnding ==
    ASSUME TypeInv, SettledInv, NEW r \in Requests, req[r] # None,
           req' = [req EXCEPT ![r] = None], UNCHANGED <<now, db, sweep>>
    PROVE  /\ Narrowed(r) /\ Exclusive' /\ CommandsMatch' /\ PatchesOwn'
           /\ \A t \in Slugs : Writing(t) /\ ~Writing(t)' => On(r, t) /\ req[r].op # "redirect"
                                                            /\ req[r].stage = "cache"
<1>1. TypeOK /\ req'[r] = None /\ \A q \in Requests \ {r} : req'[q] = req[q]
  BY DEF TypeInv, TypeOK
<1>2. Narrowed(r) BY <1>1 DEF Narrowed
<1>3. Exclusive' BY <1>1, <1>2, NarrowedSettled
<1>4. CommandsMatch'
  <2>1. ASSUME NEW q \in Requests, req'[q] # None, req'[q].undisturbed, req'[q].stage = "cache"
        PROVE  CommandMatches(req[q].slug, req[q].cmd)'
    <3>1. req'[q] = req[q] BY <1>1, <2>1
    <3>2. CommandMatches(req[q].slug, req[q].cmd)
      BY <2>1, <3>1 DEF SettledInv, CommandsMatch
    <3>3. QED BY <3>1, <3>2 DEF CommandMatches
  <2>2. QED BY <2>1 DEF CommandsMatch
<1>5. PatchesOwn'
  <2>1. ASSUME NEW q \in Requests, req'[q] # None, req'[q].undisturbed, req'[q].op = "patch",
               req'[q].stage = "mutate"
        PROVE  Owned(req[q].slug, req[q].user)' /\ db'[req'[q].slug].expiresAt = req'[q].expiresAt
    <3>1. req'[q] = req[q] BY <1>1, <2>1
    <3>2. QED BY <2>1, <3>1 DEF SettledInv, PatchesOwn, Owned
  <2>2. QED BY <2>1 DEF PatchesOwn
<1>6. ASSUME NEW t \in Slugs, Writing(t), ~Writing(t)'
      PROVE  On(r, t) /\ req[r].op # "redirect" /\ req[r].stage = "cache"
  <2>1. \A c \in Cleaners : ~Evicting(c, t) BY <1>6 DEF Writing, Evicting
  <2>2. PICK q \in Requests : On(q, t) /\ req[q].stage = "cache" /\ req[q].op # "redirect"
    BY <1>6, <2>1 DEF Writing
  <2>3. CASE q = r BY <2>2, <2>3
  <2>4. CASE q # r
    <3>1. req'[q] = req[q] BY <1>1, <2>4
    <3>2. Writing(t)' BY <2>2, <3>1 DEF Writing, On
    <3>3. QED BY <1>6, <3>2
  <2>5. QED BY <2>3, <2>4
<1>7. QED BY <1>2, <1>3, <1>4, <1>5, <1>6

\* Redis runs the command of a request. If nobody on the slug is disturbed the
\* entry it leaves agrees with the row; if somebody is, the slug was unsettled
\* and stays so.
LEMMA SettledApply ==
    ASSUME TypeInv, SettledInv, NEW r \in Requests, CacheApply(r)
    PROVE  SettledInv'
<1>. USE LifecycleAssumption
<1>1. TypeOK /\ req[r] # None /\ req[r].stage = "cache" BY DEF TypeInv, CacheApply
<1>2. PICK s \in Slugs : s = req[r].slug /\ On(r, s) BY <1>1, OnSlug
<1>3. PICK cmd \in Command : cmd = req[r].cmd BY <1>1, Present DEF Request
<1>. DEFINE healed == \A q \in Requests : On(q, s) => req[q].undisturbed
<1>4. /\ req' = [req EXCEPT ![r] = None] /\ UNCHANGED <<now, db, sweep>>
      /\ cache' = [cache EXCEPT ![s] = Stored(cmd)]
      /\ unsettled' = IF healed THEN unsettled \ {s} ELSE unsettled
  BY <1>2, <1>3 DEF CacheApply, Finish
<1>5. /\ Narrowed(r) /\ Exclusive' /\ CommandsMatch' /\ PatchesOwn'
      /\ \A t \in Slugs : Writing(t) /\ ~Writing(t)' => On(r, t) /\ req[r].op # "redirect"
                                                       /\ req[r].stage = "cache"
  BY <1>1, <1>4, SettledEnding
<1>6. s \notin unsettled' => healed BY <1>4 DEF SettledInv, SettledAlone
<1>7. healed => \A c \in Cleaners : ~Evicting(c, s)
  BY <1>2 DEF SettledInv, Exclusive
<1>8. \A t \in Slugs \ {s} : t \notin unsettled' => t \notin unsettled BY <1>4
<1>9. SettledAlone'
  <2>1. /\ \A q \in Requests, t \in Slugs : On(q, t)' =>
              On(q, t) /\ req'[q].undisturbed = req[q].undisturbed
        /\ \A c \in Cleaners, t \in Slugs : Evicting(c, t)' <=> Evicting(c, t)
    BY <1>1, <1>5, NarrowedSettled
  <2>2. ASSUME NEW t \in Slugs \ unsettled', NEW q \in Requests, On(q, t)'
        PROVE  req'[q].undisturbed
    BY <1>6, <1>8, <2>1, <2>2 DEF SettledInv, SettledAlone
  <2>3. ASSUME NEW t \in Slugs \ unsettled', NEW c \in Cleaners, Evicting(c, t)'
        PROVE  sweep'[c].undisturbed
    BY <1>4, <1>6, <1>7, <1>8, <2>1, <2>3 DEF SettledInv, SettledAlone
  <2>4. QED BY <2>2, <2>3 DEF SettledAlone
<1>10. SettledAgreement'
  <2>1. ASSUME s \notin unsettled' PROVE EntryMatchesRow(s)'
    <3>1. CommandMatches(s, cmd)
      BY <1>1, <1>2, <1>3, <1>6, <2>1 DEF SettledInv, CommandsMatch
    <3>2. cache'[s] = Stored(cmd) BY <1>1, <1>4 DEF TypeOK
    <3>3. QED BY <1>1, <1>4, <3>1, <3>2, AppliedMatches DEF EntryMatchesRow
  <2>2. ASSUME NEW t \in Slugs \ {s}, t \notin unsettled', ~Writing(t)'
        PROVE  EntryMatchesRow(t)'
    <3>1. ~Writing(t) BY <1>2, <1>5, <2>2 DEF On
    <3>2. EntryMatchesRow(t) BY <1>8, <2>2, <3>1 DEF SettledInv, SettledAgreement
    <3>3. cache'[t] = cache[t] BY <1>1, <1>4 DEF TypeOK
    <3>4. QED BY <1>4, <3>2, <3>3 DEF EntryMatchesRow
  <2>3. QED BY <2>1, <2>2 DEF SettledAgreement
<1>11. QED BY <1>5, <1>9, <1>10 DEF SettledInv

\* A request that ends without its command: if it was a writer its slug is
\* unsettled from now on.
LEMMA SettledLoss ==
    ASSUME TypeInv, SettledInv, NEW r \in Requests, CacheLose(r) \/ Abort(r)
    PROVE  SettledInv'
<1>1. TypeOK /\ req[r] # None BY DEF TypeInv, CacheLose, Abort
<1>2. PICK s \in Slugs : s = req[r].slug /\ On(r, s) BY <1>1, OnSlug
<1>3. /\ req' = [req EXCEPT ![r] = None] /\ UNCHANGED <<now, db, cache, sweep>>
      /\ unsettled' \in {unsettled, unsettled \cup {s}}
      /\ req[r].stage = "cache" /\ req[r].op # "redirect" => s \in unsettled'
  BY <1>2 DEF CacheLose, Abort, Finish
<1>4. /\ Narrowed(r) /\ Exclusive' /\ CommandsMatch' /\ PatchesOwn'
      /\ \A t \in Slugs : Writing(t) /\ ~Writing(t)' => On(r, t) /\ req[r].op # "redirect"
                                                       /\ req[r].stage = "cache"
  BY <1>1, <1>3, SettledEnding
<1>5. \A t \in Slugs : t \notin unsettled' => t \notin unsettled BY <1>3
<1>6. SettledAlone' BY <1>1, <1>4, <1>5, NarrowedSettled
<1>7. SettledAgreement'
  <2>1. ASSUME NEW t \in Slugs, t \notin unsettled', ~Writing(t)' PROVE EntryMatchesRow(t)'
    <3>1. ~Writing(t) BY <1>2, <1>3, <1>4, <2>1 DEF On
    <3>2. QED BY <1>3, <1>5, <2>1, <3>1 DEF SettledInv, SettledAgreement, EntryMatchesRow
  <2>2. QED BY <2>1 DEF SettledAgreement
<1>8. QED BY <1>4, <1>6, <1>7 DEF SettledInv

LEMMA SettledRequest ==
    ASSUME TypeInv, SettledInv, NEW r \in Requests, RequestStep(r) \/ Abort(r)
    PROVE  SettledInv'
BY SettledRead, SettledPatch, SettledDelete, SettledApply, SettledLoss DEF RequestStep

-----------------------------------------------------------------------------
\* The DELETE of a cleanup run disturbs everyone on the slug and is then its
\* writer.
LEMMA SettledSweepDelete ==
    ASSUME TypeInv, SettledInv, NEW c \in Cleaners, NEW s \in Slugs, SweepDelete(c, s)
    PROVE  SettledInv'
<1>. USE LifecycleAssumption
<1>1. /\ TypeOK /\ cache' = cache /\ now' = now /\ req' = Disturbed(s, "delete")
      /\ sweep[c] # None /\ sweep[c].current = None
      /\ unsettled' = IF Clash(s, "delete") THEN unsettled \cup {s} ELSE unsettled
      /\ \A t \in Slugs \ {s} : db'[t] = db[t]
  BY DEF SweepDelete, Unsettle, TypeInv, TypeOK
<1>2. \A q \in Requests :
         /\ req'[q] # None <=> req[q] # None
         /\ req[q] # None => SameRequest(req'[q], req[q])
         /\ req[q] # None => req'[q].undisturbed = (req[q].undisturbed /\ ~On(q, s))
  BY <1>1, DisturbedTypes
<1>3. \A q \in Requests, t \in Slugs : On(q, t)' <=> On(q, t)
  BY <1>2 DEF On, SameRequest
<1>4. /\ sweep'[c] # None /\ sweep'[c].current = s
      /\ sweep'[c].undisturbed = ~Clash(s, "delete")
      /\ \A d \in Cleaners \ {c} : sweep'[d] = SweepsDisturbed(s)[d]
  <2>. DEFINE D == SweepsDisturbed(s)
              flag == ~Clash(s, "delete")
              x == [D[c] EXCEPT !.batch = @ \ {s}, !.current = s, !.undisturbed = flag]
  <2>1. D \in [Cleaners -> Sweep \cup {None}] /\ D[c] # None BY <1>1, DisturbedTypes
  <2>2. D[c] \in Sweep /\ flag \in BOOLEAN BY <2>1 DEF Clash
  <2>3. x \in Sweep /\ x.current = s /\ x.undisturbed = flag BY <2>2 DEF Sweep
  <2>4. sweep' = [D EXCEPT ![c] = x] BY <2>1 DEF SweepDelete
  <2>5. QED BY <2>1, <2>3, <2>4
<1>5. /\ \A t \in Slugs : Evicting(c, t)' <=> t = s
      /\ \A t \in Slugs : ~Evicting(c, t)
      /\ \A d \in Cleaners \ {c}, t \in Slugs :
            /\ Evicting(d, t)' <=> Evicting(d, t)
            /\ Evicting(d, t) => sweep'[d].undisturbed = (sweep[d].undisturbed /\ t # s)
  BY <1>1, <1>4, DisturbedTypes DEF Evicting, SameSweep
<1>6. Exclusive'
  <2>1. ASSUME NEW t \in Slugs, NEW p \in Requests, NEW q \in Requests, p # q,
               On(p, t)', On(q, t)', req'[p].undisturbed
        PROVE  req'[p].op = "redirect" /\ req'[q].op = "redirect"
    <3>1. On(p, t) /\ On(q, t) /\ req[p].undisturbed BY <1>2, <1>3, <2>1 DEF On
    <3>2. req[p].op = "redirect" /\ req[q].op = "redirect"
      BY <2>1, <3>1 DEF SettledInv, Exclusive
    <3>3. QED BY <1>2, <3>1, <3>2 DEF On, SameRequest
  <2>2. ASSUME NEW t \in Slugs, NEW p \in Requests, NEW d \in Cleaners,
               On(p, t)', Evicting(d, t)'
        PROVE  ~req'[p].undisturbed /\ ~sweep'[d].undisturbed
    <3>1. CASE d = c
      <4>1. t = s /\ On(p, s) BY <1>3, <1>5, <2>2, <3>1
      <4>2. Clash(s, "delete") BY <4>1 DEF Clash
      <4>3. QED BY <1>2, <1>4, <3>1, <4>1, <4>2 DEF On
    <3>2. CASE d # c
      <4>1. On(p, t) /\ Evicting(d, t) BY <1>3, <1>5, <2>2, <3>2
      <4>2. ~req[p].undisturbed /\ ~sweep[d].undisturbed BY <4>1 DEF SettledInv, Exclusive
      <4>3. QED BY <1>2, <1>5, <3>2, <4>1, <4>2 DEF On
    <3>3. QED BY <3>1, <3>2
  <2>3. ASSUME NEW t \in Slugs, NEW d \in Cleaners, NEW e \in Cleaners, d # e,
               Evicting(d, t)', Evicting(e, t)'
        PROVE  ~sweep'[d].undisturbed
    <3>1. CASE d = c
      <4>1. t = s /\ Evicting(e, s) BY <1>5, <2>3, <3>1
      <4>2. Clash(s, "delete") BY <4>1 DEF Clash
      <4>3. QED BY <1>4, <3>1, <4>2
    <3>2. CASE d # c BY <1>5, <2>3, <3>2 DEF SettledInv, Exclusive
    <3>3. QED BY <3>1, <3>2
  <2>4. QED BY <2>1, <2>2, <2>3 DEF Exclusive
<1>7. \A t \in Slugs \ unsettled' : t \notin unsettled /\ (t = s => ~Clash(s, "delete"))
  BY <1>1
<1>8. SettledAlone'
  <2>1. ASSUME NEW t \in Slugs \ unsettled', NEW q \in Requests, On(q, t)'
        PROVE  req'[q].undisturbed
    <3>1. On(q, t) /\ req[q].undisturbed BY <1>3, <1>7, <2>1 DEF SettledInv, SettledAlone
    <3>2. t # s BY <1>7, <3>1 DEF Clash
    <3>3. QED BY <1>2, <3>1, <3>2 DEF On
  <2>2. ASSUME NEW t \in Slugs \ unsettled', NEW d \in Cleaners, Evicting(d, t)'
        PROVE  sweep'[d].undisturbed
    <3>1. CASE d = c BY <1>4, <1>5, <1>7, <2>2, <3>1
    <3>2. CASE d # c
      <4>1. Evicting(d, t) /\ sweep[d].undisturbed
        BY <1>5, <1>7, <2>2, <3>2 DEF SettledInv, SettledAlone
      <4>2. t # s BY <1>7, <4>1 DEF Clash
      <4>3. QED BY <1>5, <3>2, <4>1, <4>2
    <3>3. QED BY <3>1, <3>2
  <2>3. QED BY <2>1, <2>2 DEF SettledAlone
<1>9. ASSUME NEW q \in Requests, req'[q] # None, req'[q].undisturbed
      PROVE  /\ req[q] # None /\ SameRequest(req'[q], req[q]) /\ req[q].undisturbed
             /\ req[q].slug \in Slugs \ {s}
  <2>1. req[q] # None /\ req[q].slug \in Slugs BY <1>1, <1>2, <1>9, Present DEF Request
  <2>2. QED BY <1>2, <1>9, <2>1 DEF On
<1>10. CommandsMatch'
  <2>1. ASSUME NEW q \in Requests, req'[q] # None, req'[q].undisturbed, req'[q].stage = "cache"
        PROVE  CommandMatches(req[q].slug, req[q].cmd)'
    <3>1. CommandMatches(req[q].slug, req[q].cmd)
      BY <1>9, <2>1 DEF SettledInv, CommandsMatch, SameRequest
    <3>2. QED BY <1>1, <1>9, <2>1, <3>1 DEF CommandMatches, SameRequest
  <2>2. QED BY <2>1 DEF CommandsMatch
<1>11. PatchesOwn'
  BY <1>1, <1>9 DEF SettledInv, PatchesOwn, SameRequest, Owned
<1>12. SettledAgreement'
  <2>1. Writing(s)' BY <1>5 DEF Writing
  <2>2. \A t \in Slugs : Writing(t) => Writing(t)'
    BY <1>2, <1>3, <1>5 DEF Writing, On, SameRequest
  <2>3. QED BY <1>1, <1>7, <2>1, <2>2 DEF SettledInv, SettledAgreement, EntryMatchesRow
<1>13. QED BY <1>6, <1>8, <1>10, <1>11, <1>12 DEF SettledInv

\* The other steps of a cleanup run leave it on no slug, and touch no row.
LEMMA SettledSweepRest ==
    ASSUME TypeInv, SettledInv, NEW c \in Cleaners,
           UNCHANGED <<now, db, req>>,
           \A d \in Cleaners \ {c} : sweep'[d] = sweep[d],
           \A s \in Slugs : ~Evicting(c, s)',
           \A s \in Slugs : s \notin unsettled' /\ s \in unsettled =>
               /\ \A q \in Requests : ~On(q, s)
               /\ \A d \in Cleaners \ {c} : ~Evicting(d, s),
           \A s \in Slugs : s \notin unsettled' =>
               /\ Evicting(c, s) \/ s \in unsettled => cache'[s] = None
               /\ cache'[s] \in {cache[s], None}
    PROVE  SettledInv'
<1>1. \A q \in Requests, s \in Slugs : On(q, s)' <=> On(q, s)
  BY DEF On
<1>2. \A d \in Cleaners, s \in Slugs : Evicting(d, s)' => d # c /\ Evicting(d, s)
  BY DEF Evicting
<1>3. Exclusive' BY <1>1, <1>2 DEF SettledInv, Exclusive
<1>4. SettledAlone'
  BY <1>1, <1>2 DEF SettledInv, SettledAlone
<1>5. CommandsMatch' BY DEF SettledInv, CommandsMatch, CommandMatches
<1>6. PatchesOwn' BY DEF SettledInv, PatchesOwn, Owned
<1>7. SettledAgreement'
  <2>1. ASSUME NEW s \in Slugs, s \notin unsettled', ~Writing(s)', cache'[s] # None
        PROVE  EntryMatchesRow(s)'
    <3>1. s \notin unsettled /\ ~Evicting(c, s) /\ cache'[s] = cache[s] BY <2>1
    <3>2. \A d \in Cleaners \ {c} : Evicting(d, s) => Evicting(d, s)' BY DEF Evicting
    <3>3. ~Writing(s) BY <1>1, <2>1, <3>1, <3>2 DEF Writing
    <3>4. QED BY <3>1, <3>3 DEF SettledInv, SettledAgreement, EntryMatchesRow
  <2>2. QED BY <2>1 DEF SettledAgreement, EntryMatchesRow
<1>8. QED BY <1>3, <1>4, <1>5, <1>6, <1>7 DEF SettledInv

LEMMA SettledCleanup ==
    ASSUME TypeInv, SettledInv, NEW c \in Cleaners, CleanupStep(c) \/ SweepCrash(c)
    PROVE  SettledInv'
<1>. USE LifecycleAssumption
<1>1. TypeOK BY DEF TypeInv
<1>2. ASSUME SweepFind(c) PROVE SettledInv'
  <2>1. PICK batch \in Batches :
           sweep' = [sweep EXCEPT ![c] = [batch |-> batch, current |-> None,
                                          since |-> inserts, undisturbed |-> TRUE]]
    BY <1>2 DEF SweepFind
  <2>2. sweep'[c].current = None /\ \A d \in Cleaners \ {c} : sweep'[d] = sweep[d]
    BY <1>1, <2>1 DEF TypeOK
  <2>3. \A s \in Slugs : ~Evicting(c, s) /\ ~Evicting(c, s)'
    BY <1>2, <2>2 DEF SweepFind, Evicting
  <2>4. QED BY <1>2, <2>2, <2>3, SettledSweepRest DEF SweepFind
<1>3. ASSUME NEW s \in Slugs, SweepSkip(c, s) PROVE SettledInv'
  <2>1. sweep[c] \in Sweep /\ sweep[c].current = None BY <1>1, <1>3, Present DEF SweepSkip
  <2>2. sweep'[c].current = None /\ \A d \in Cleaners \ {c} : sweep'[d] = sweep[d]
    BY <1>1, <1>3, <2>1 DEF SweepSkip, TypeOK, Sweep
  <2>3. \A t \in Slugs : ~Evicting(c, t) /\ ~Evicting(c, t)' BY <2>1, <2>2 DEF Evicting
  <2>4. QED BY <1>3, <2>2, <2>3, SettledSweepRest DEF SweepSkip
<1>4. ASSUME SweepEvict(c) PROVE SettledInv'
  <2>1. sweep[c] \in Sweep /\ sweep[c].current # None BY <1>1, <1>4, Present DEF SweepEvict
  <2>2. PICK s \in Slugs : s = sweep[c].current BY <2>1 DEF Sweep
  <2>3. Evicting(c, s) /\ \A t \in Slugs \ {s} : ~Evicting(c, t) BY <2>1, <2>2 DEF Evicting
  <2>4. sweep'[c].current = None /\ \A d \in Cleaners \ {c} : sweep'[d] = sweep[d]
    BY <1>1, <1>4, <2>1 DEF SweepEvict, TypeOK, Sweep
  <2>5. \A t \in Slugs : ~Evicting(c, t)' BY <2>4 DEF Evicting
  <2>6. sweep[c].undisturbed => /\ \A q \in Requests : ~On(q, s)
                                /\ \A d \in Cleaners \ {c} : ~Evicting(d, s)
    BY <2>3 DEF SettledInv, Exclusive
  <2>7. CASE /\ cache' = [cache EXCEPT ![s] = None]
             /\ unsettled' = IF sweep[c].undisturbed THEN unsettled \ {s} ELSE unsettled
    <3>1. cache'[s] = None /\ \A t \in Slugs \ {s} : cache'[t] = cache[t]
      BY <1>1, <2>7 DEF TypeOK
    <3>2. \A t \in Slugs : t \notin unsettled' =>
             /\ t \in unsettled => t = s /\ sweep[c].undisturbed
             /\ Evicting(c, t) => t = s
      BY <2>3, <2>7
    <3>3. UNCHANGED <<now, db, req>> BY <1>4 DEF SweepEvict
    <3>4. QED BY <2>4, <2>5, <2>6, <3>1, <3>2, <3>3, SettledSweepRest
  <2>8. CASE cache' = cache /\ unsettled' = unsettled \cup {s}
    BY <1>4, <2>3, <2>4, <2>5, <2>8, SettledSweepRest DEF SweepEvict
  <2>9. QED BY <1>4, <2>2, <2>7, <2>8 DEF SweepEvict
<1>5. ASSUME SweepEnd(c) \/ SweepCrash(c) PROVE SettledInv'
  <2>1. sweep'[c] = None /\ \A d \in Cleaners \ {c} : sweep'[d] = sweep[d]
    BY <1>1, <1>5 DEF SweepEnd, SweepCrash, TypeOK
  <2>2. UNCHANGED <<now, db, req, cache>> /\ \A t \in Slugs : ~Evicting(c, t)'
    BY <1>5, <2>1 DEF SweepEnd, SweepCrash, Evicting
  <2>3. \A t \in Slugs : t \notin unsettled' => t \notin unsettled /\ ~Evicting(c, t)
    BY <1>5 DEF SweepEnd, SweepCrash, Evicting
  <2>4. QED BY <2>1, <2>2, <2>3, SettledSweepRest
<1>6. QED BY <1>2, <1>3, <1>4, <1>5, SettledSweepDelete DEF CleanupStep

\* Entries only vanish with time, and a link in its last second stays in it.
LEMMA SettledTick == TypeInv /\ SettledInv /\ Tick => SettledInv'
<1>. SUFFICES ASSUME TypeInv, SettledInv, Tick PROVE SettledInv'
  OBVIOUS
<1>. USE LifecycleAssumption
<1>1. TypeOK /\ UNCHANGED <<db, req, sweep, unsettled>> /\ now' = now + 1 /\ now \in Nat
  BY DEF TypeInv, TypeOK, Tick
<1>2. \A s \in Slugs : cache'[s] \in {cache[s], None} BY DEF Tick
<1>3. \A s \in Slugs : db[s] # None /\ LeavesNoTtl(db[s].expiresAt, now) =>
                           LeavesNoTtl(db[s].expiresAt, now')
  BY <1>1, Present, LastSecondLasts DEF Row
<1>4. Exclusive' /\ SettledAlone' /\ PatchesOwn'
  BY <1>1 DEF SettledInv, Exclusive, SettledAlone, PatchesOwn, On, Evicting, Owned
<1>5. CommandsMatch'
  <2>1. ASSUME NEW q \in Requests, req[q] # None, req[q].undisturbed, req[q].stage = "cache"
        PROVE  CommandMatches(req[q].slug, req[q].cmd)'
    <3>1. PICK s \in Slugs : s = req[q].slug BY <1>1, <2>1, Present DEF Request
    <3>2. CommandMatches(s, req[q].cmd) BY <2>1, <3>1 DEF SettledInv, CommandsMatch
    <3>3. QED BY <1>1, <1>3, <3>1, <3>2 DEF CommandMatches
  <2>2. QED BY <1>1, <2>1 DEF CommandsMatch
<1>6. SettledAgreement'
  <2>1. ASSUME NEW s \in Slugs, s \notin unsettled, ~Writing(s)', cache'[s] # None
        PROVE  EntryMatchesRow(s)'
    <3>1. ~Writing(s) /\ cache'[s] = cache[s] BY <1>1, <1>2, <2>1 DEF Writing, On, Evicting
    <3>2. EntryMatchesRow(s) BY <2>1, <3>1 DEF SettledInv, SettledAgreement
    <3>3. QED BY <1>1, <1>3, <2>1, <3>1, <3>2 DEF EntryMatchesRow
  <2>2. QED BY <1>1, <2>1 DEF SettledAgreement, EntryMatchesRow
<1>7. QED BY <1>4, <1>5, <1>6 DEF SettledInv

LEMMA SettledUnchanged ==
    ASSUME SettledInv, UNCHANGED <<now, db, req, sweep, unsettled>>,
           \A s \in Slugs : cache'[s] \in {cache[s], None}
    PROVE  SettledInv'
<1>1. Exclusive' /\ SettledAlone' /\ CommandsMatch' /\ PatchesOwn'
  BY DEF SettledInv, Exclusive, SettledAlone, PatchesOwn, On, Evicting, Owned,
         CommandsMatch, CommandMatches
<1>2. SettledAgreement'
  BY DEF SettledInv, SettledAgreement, EntryMatchesRow, Writing, On, Evicting
<1>3. QED BY <1>1, <1>2 DEF SettledInv

LEMMA SettledStep == TypeInv /\ SettledInv /\ [Next]_vars => SettledInv'
<1>. SUFFICES ASSUME TypeInv, SettledInv, [Next]_vars PROVE SettledInv'
  OBVIOUS
<1>1. ASSUME NEW s \in Slugs, EvictLru(s) PROVE SettledInv'
  <2>1. \A t \in Slugs : cache'[t] \in {cache[t], None}
    BY <1>1 DEF EvictLru, TypeInv, TypeOK
  <2>2. QED BY <1>1, <2>1, SettledUnchanged DEF EvictLru
<1>2. CASE UNCHANGED vars BY <1>2, SettledUnchanged DEF vars
<1>3. QED
  BY <1>1, <1>2, SettledClient, SettledRequest, SettledCleanup, SettledTick DEF Next

\* Write-through and invalidation are complete: a slug whose requests overlapped
\* no writer and lost no command agrees with its row, whatever happens elsewhere.
THEOREM SettledAgrees == Spec => []SettledAgreement
<1>1. Init => TypeInv /\ SettledInv BY TypeInit, SettledInit
<1>2. TypeInv /\ SettledInv /\ [Next]_vars => (TypeInv /\ SettledInv)'
  BY TypeStep, SettledStep
<1>3. TypeInv /\ SettledInv => SettledAgreement BY DEF SettledInv
<1>4. QED BY <1>1, <1>2, <1>3, PTL DEF Spec

-----------------------------------------------------------------------------
\* Why a change is authorised. Both deletions name a slug and not a row, so they
\* are vouched for only as long as the row they checked is the row that stands;
\* a row of later birth is told apart by its number.
RequestsEarlier == \A r \in Requests : req[r] # None => req[r].since <= inserts
SweepsEarlier == \A c \in Cleaners : sweep[c] # None => sweep[c].since <= inserts
RowsEarlier == \A s \in Slugs : db[s] # None => db[s].born <= inserts
DeletesVouched ==
    \A r \in Requests, s \in Slugs :
        On(r, s) /\ req[r].op = "delete" /\ req[r].stage = "mutate" /\ db[s] # None =>
            req[r].user = db[s].owner \/ req[r].since < db[s].born
BatchesVouched ==
    \A c \in Cleaners, s \in Slugs :
        sweep[c] # None /\ s \in sweep[c].batch /\ db[s] # None =>
            Overdue(s) \/ sweep[c].since < db[s].born

AuthInv ==
    RequestsEarlier /\ SweepsEarlier /\ RowsEarlier /\ DeletesVouched /\ BatchesVouched

\* What one step does to a row: it may go, it may be a new one, and one that
\* stays keeps its owner, its expiry and its birth.
RowStays(s) ==
    /\ db[s] # None /\ db'[s].owner = db[s].owner
    /\ db'[s].expiresAt = db[s].expiresAt /\ db'[s].born = db[s].born
RowIsNew(s) == db'[s].born = inserts + 1 /\ inserts' = inserts + 1
RowsAge ==
    /\ inserts' >= inserts /\ now' >= now
    /\ \A s \in Slugs : db'[s] # None => RowStays(s) \/ RowIsNew(s)

\* To a request: it is the one before, at the stage before or past the mutation,
\* or it has just begun, a DELETE with the row its owner was compared with.
RequestGoesOn(r) ==
    /\ req[r] # None
    /\ req'[r].op = req[r].op /\ req'[r].slug = req[r].slug
    /\ req'[r].user = req[r].user /\ req'[r].since = req[r].since
    /\ req'[r].stage = "mutate" => req[r].stage = "mutate"
RequestBegins(r) ==
    /\ req'[r].since = inserts
    /\ req'[r].op = "delete" => /\ db[req'[r].slug] # None /\ db' = db
                                /\ db[req'[r].slug].owner = req'[r].user
RequestsAge == \A r \in Requests : req'[r] # None => RequestGoesOn(r) \/ RequestBegins(r)

\* To a cleanup run: its batch shrinks, or it was just found.
SweepGoesOn(c) ==
    sweep[c] # None /\ sweep'[c].batch \subseteq sweep[c].batch /\ sweep'[c].since = sweep[c].since
SweepBegins(c) ==
    /\ sweep'[c].since = inserts /\ db' = db /\ now' = now
    /\ \A s \in sweep'[c].batch : Overdue(s)
SweepsAge == \A c \in Cleaners : sweep'[c] # None => SweepGoesOn(c) \/ SweepBegins(c)

LEMMA AuthInit == Init => AuthInv
<1>. SUFFICES ASSUME Init PROVE AuthInv OBVIOUS
<1>1. ASSUME NEW s \in Slugs, db[s] # None PROVE db[s].born = 0
  BY <1>1, LifecycleAssumption DEF Init
<1>2. QED
  BY <1>1 DEF Init, AuthInv, RequestsEarlier, SweepsEarlier, RowsEarlier, DeletesVouched,
              BatchesVouched, On

LEMMA AuthAge ==
    ASSUME TypeOK, TypeOK', AuthInv, RowsAge, RequestsAge, SweepsAge
    PROVE  AuthInv'
<1>1. inserts \in Nat /\ inserts' \in Nat /\ now \in Nat /\ now' \in Nat BY DEF TypeOK
<1>2. ASSUME NEW r \in Requests, req'[r] # None
      PROVE  req'[r].since \in Nat /\ req'[r].since <= inserts
  <2>1. req'[r] \in Request BY <1>2 DEF TypeOK
  <2>2. QED BY <1>1, <1>2, <2>1
    DEF RequestsAge, RequestGoesOn, RequestBegins, AuthInv, RequestsEarlier, Request
<1>3. ASSUME NEW c \in Cleaners, sweep'[c] # None
      PROVE  sweep'[c].since \in Nat /\ sweep'[c].since <= inserts
  <2>1. sweep'[c] \in Sweep BY <1>3 DEF TypeOK
  <2>2. QED BY <1>1, <1>3, <2>1
    DEF SweepsAge, SweepGoesOn, SweepBegins, AuthInv, SweepsEarlier, Sweep
<1>4. RequestsEarlier' /\ SweepsEarlier'
  BY <1>1, <1>2, <1>3 DEF RequestsEarlier, SweepsEarlier, RowsAge
<1>5. RowsEarlier'
  <2>1. ASSUME NEW s \in Slugs, db'[s] # None PROVE db'[s].born <= inserts'
    <3>1. db'[s] \in Row /\ db'[s].born \in Nat BY <2>1 DEF TypeOK, Row
    <3>2. CASE RowStays(s)
      <4>1. db'[s].born <= inserts BY <3>2 DEF RowStays, AuthInv, RowsEarlier
      <4>2. QED BY <1>1, <3>1, <4>1 DEF RowsAge
    <3>3. CASE RowIsNew(s) BY <1>1, <3>3 DEF RowIsNew
    <3>4. QED BY <2>1, <3>2, <3>3 DEF RowsAge
  <2>2. QED BY <2>1 DEF RowsEarlier
<1>6. DeletesVouched'
  <2>1. ASSUME NEW r \in Requests, NEW s \in Slugs, req'[r] # None, req'[r].slug = s,
               req'[r].op = "delete", req'[r].stage = "mutate", db'[s] # None
        PROVE  req'[r].user = db'[s].owner \/ req'[r].since < db'[s].born
    <3>1. CASE RowIsNew(s) BY <1>1, <1>2, <2>1, <3>1 DEF RowIsNew
    <3>2. CASE RowStays(s) /\ RequestGoesOn(r)
      BY <2>1, <3>2 DEF RowStays, RequestGoesOn, AuthInv, DeletesVouched, On
    <3>3. CASE RequestBegins(r) BY <2>1, <3>3 DEF RequestBegins
    <3>4. QED BY <2>1, <3>1, <3>2, <3>3 DEF RowsAge, RequestsAge
  <2>2. QED BY <2>1 DEF DeletesVouched, On
<1>7. BatchesVouched'
  <2>1. ASSUME NEW c \in Cleaners, NEW s \in Slugs, sweep'[c] # None,
               s \in sweep'[c].batch, db'[s] # None
        PROVE  Overdue(s)' \/ sweep'[c].since < db'[s].born
    <3>1. CASE RowIsNew(s) BY <1>1, <1>3, <2>1, <3>1 DEF RowIsNew
    <3>2. CASE RowStays(s) /\ SweepGoesOn(c)
      <4>1. Overdue(s) \/ sweep[c].since < db[s].born
        BY <2>1, <3>2 DEF RowStays, SweepGoesOn, AuthInv, BatchesVouched
      <4>2. CASE Overdue(s)
        <5>1. db[s].expiresAt \in Nat BY <3>2, <4>2 DEF TypeOK, Row, Expiry, Overdue
        <5>2. QED BY <1>1, <2>1, <3>2, <4>2, <5>1 DEF Overdue, RowStays, RowsAge
      <4>3. CASE sweep[c].since < db[s].born BY <3>2, <4>3 DEF RowStays, SweepGoesOn
      <4>4. QED BY <4>1, <4>2, <4>3
    <3>3. CASE SweepBegins(c) BY <2>1, <3>3 DEF SweepBegins, Overdue
    <3>4. QED BY <2>1, <3>1, <3>2, <3>3 DEF RowsAge, SweepsAge
  <2>2. QED BY <2>1 DEF BatchesVouched
<1>8. QED BY <1>4, <1>5, <1>6, <1>7 DEF AuthInv

\* A request that begins, the others being told only that they were disturbed.
LEMMA BeginAges ==
    ASSUME TypeOK, NEW r \in Requests, NEW record \in Request, Begin(r, record),
           record.since = inserts,
           record.op = "delete" => /\ db[record.slug] # None /\ db' = db
                                   /\ db[record.slug].owner = record.user
    PROVE  RequestsAge /\ SweepsAge
<1>1. ASSUME NEW q \in Requests, req'[q] # None PROVE RequestGoesOn(q) \/ RequestBegins(q)
  <2>1. CASE q = r BY <2>1, BeginTypes DEF SameRequest, RequestBegins
  <2>2. CASE q # r BY <1>1, <2>2, BeginTypes DEF SameRequest, RequestGoesOn
  <2>3. QED BY <2>1, <2>2
<1>2. ASSUME NEW c \in Cleaners, sweep'[c] # None PROVE SweepGoesOn(c)
  <2>1. record.slug \in Slugs /\ sweep' = SweepsDisturbed(record.slug) BY DEF Request, Begin
  <2>2. QED BY <1>2, <2>1, DisturbedTypes DEF SameSweep, SweepGoesOn
<1>3. QED BY <1>1, <1>2 DEF RequestsAge, SweepsAge

LEMMA ClientAges ==
    ASSUME TypeInv, ClientRequest
    PROVE  RowsAge /\ RequestsAge /\ SweepsAge
<1>. USE LifecycleAssumption
<1>1. TypeOK BY DEF TypeInv
<1>2. ASSUME UNCHANGED <<db, inserts, now>> PROVE RowsAge
  BY <1>1, <1>2 DEF RowsAge, RowStays, TypeOK
<1>3. ASSUME NEW s \in Slugs, RedirectHit(s) PROVE RowsAge /\ RequestsAge /\ SweepsAge
  BY <1>2, <1>3 DEF RedirectHit, RequestsAge, RequestGoesOn, SweepsAge, SweepGoesOn
<1>4. ASSUME NEW r \in Requests, NEW s \in Slugs, RedirectMiss(r, s)
      PROVE  RowsAge /\ RequestsAge /\ SweepsAge
  <2>. DEFINE new == Opened("redirect", "read", s, None, None, None, Del)
  <2>1. new \in Request BY <1>1, OpenedType, CommandTypes DEF Ops, Stages, Expiry
  <2>2. new.op = "redirect" /\ new.since = inserts BY DEF Opened
  <2>3. Begin(r, new) BY <1>4 DEF RedirectMiss
  <2>4. RequestsAge /\ SweepsAge BY <1>1, <2>1, <2>2, <2>3, BeginAges
  <2>5. QED BY <1>2, <1>4, <2>4 DEF RedirectMiss
<1>5. ASSUME NEW s \in Slugs, NEW u \in Users, NEW url \in HttpUrls, NEW e \in Expiries,
             Insert(s, u, url, e), now' = now
      PROVE  RowsAge
  BY <1>1, <1>5 DEF Insert, RowsAge, RowStays, RowIsNew, TypeOK
<1>6. ASSUME NEW e \in Expiries PROVE e \in Expiry
  <2>1. now + Retention \in Nat BY <1>1 DEF TypeOK
  <2>2. QED BY <2>1 DEF Expiries, Expiry
<1>7. ASSUME NEW r \in Requests, NEW s \in Slugs, NEW u \in Users, NEW url \in HttpUrls,
             NEW e \in Expiries, Create(r, s, u, url, e)
      PROVE  RowsAge /\ RequestsAge /\ SweepsAge
  <2>. DEFINE new == Opened("create", "cache", s, u, url, e, Set(url, e))
  <2>1. new \in Request BY <1>1, <1>6, OpenedType, CommandTypes DEF Ops, Stages
  <2>2. new.op = "create" /\ new.since = inserts BY DEF Opened
  <2>3. Begin(r, new) BY <1>7 DEF Create
  <2>4. RequestsAge /\ SweepsAge BY <1>1, <2>1, <2>2, <2>3, BeginAges
  <2>5. QED BY <1>5, <1>7, <2>4 DEF Create
<1>8. ASSUME NEW s \in Slugs, NEW u \in Users, NEW url \in HttpUrls, NEW e \in Expiries,
             McpCreate(s, u, url, e)
      PROVE  RowsAge /\ RequestsAge /\ SweepsAge
  <2>1. RowsAge BY <1>5, <1>8 DEF McpCreate
  <2>2. req' = Disturbed(s, "create") /\ sweep' = SweepsDisturbed(s) BY <1>8 DEF McpCreate
  <2>3. QED
    BY <1>1, <2>1, <2>2, DisturbedTypes
       DEF RequestsAge, RequestGoesOn, SweepsAge, SweepGoesOn, SameRequest, SameSweep
<1>9. ASSUME NEW r \in Requests, NEW op \in {"patch", "delete"}, NEW s \in Slugs,
             NEW u \in Users, NEW url \in HttpUrls \cup {None}, CheckOwner(r, op, s, u, url)
      PROVE  RowsAge /\ RequestsAge /\ SweepsAge
  <2>. DEFINE new == Opened(op, "mutate", s, u, url, db[s].expiresAt, Del)
  <2>1. db[s] \in Row /\ db[s].owner = u /\ db[s] # None
    BY <1>1, <1>9, Present DEF CheckOwner, Owned
  <2>2. new \in Request BY <1>1, <2>1, OpenedType, CommandTypes DEF Ops, Stages, Row
  <2>3. new.since = inserts /\ new.slug = s /\ new.user = u BY DEF Opened
  <2>4. Begin(r, new) /\ db' = db BY <1>9 DEF CheckOwner
  <2>5. RequestsAge /\ SweepsAge BY <1>1, <2>1, <2>2, <2>3, <2>4, BeginAges
  <2>6. QED BY <1>2, <1>9, <2>5 DEF CheckOwner
<1>10. QED
  BY <1>3, <1>4, <1>7, <1>8, <1>9 DEF ClientRequest, PatchCheck, DeleteCheck

LEMMA RequestAges ==
    ASSUME TypeInv, NEW r \in Requests, RequestStep(r) \/ Abort(r)
    PROVE  RowsAge /\ RequestsAge /\ SweepsAge
<1>1. TypeOK BY DEF TypeInv
<1>2. req[r] # None /\ sweep' = sweep /\ inserts' = inserts /\ now' = now
  BY DEF RequestStep, RedirectRead, PatchUpdate, DeleteRow, CacheApply, CacheLose, Abort
<1>3. req[r] \in Request BY <1>1, <1>2, Present
<1>4. SweepsAge BY <1>2 DEF SweepsAge, SweepGoesOn
<1>5. \/ req' = [req EXCEPT ![r] = None]
      \/ \E cmd : req' = [req EXCEPT ![r].stage = "cache", ![r].cmd = cmd]
  BY DEF RequestStep, RedirectRead, PatchUpdate, DeleteRow, CacheApply, CacheLose, Abort, Finish
<1>6. RequestsAge
  <2>1. CASE req' = [req EXCEPT ![r] = None]
    BY <1>1, <2>1 DEF TypeOK, RequestsAge, RequestGoesOn
  <2>2. ASSUME NEW cmd, req' = [req EXCEPT ![r].stage = "cache", ![r].cmd = cmd]
        PROVE  RequestsAge
    <3>. DEFINE x == [req[r] EXCEPT !.stage = "cache", !.cmd = cmd]
    <3>1. x.op = req[r].op /\ x.slug = req[r].slug /\ x.user = req[r].user
          /\ x.since = req[r].since /\ x.stage = "cache"
      BY <1>3 DEF Request
    <3>2. req' = [req EXCEPT ![r] = x] BY <1>1, <2>2 DEF TypeOK
    <3>3. QED BY <1>1, <1>2, <3>1, <3>2 DEF TypeOK, RequestsAge, RequestGoesOn
  <2>3. QED BY <1>5, <2>1, <2>2
<1>7. RowsAge
  <2>1. ASSUME NEW s \in Slugs, db'[s] # None PROVE RowStays(s)
    <3>1. CASE db' = db BY <2>1, <3>1 DEF RowStays
    <3>2. CASE DeleteRow(r) BY <1>1, <2>1, <3>2 DEF DeleteRow, TypeOK, RowStays
    <3>3. CASE PatchUpdate(r)
      <4>1. db[s] # None BY <1>1, <2>1, <3>3 DEF PatchUpdate, Updated, Owned, TypeOK
      <4>2. db[s] \in Row BY <1>1, <4>1, Present
      <4>3. QED BY <1>1, <3>3, <4>1, <4>2 DEF PatchUpdate, Updated, TypeOK, Row, RowStays
    <3>4. QED
      BY <3>1, <3>2, <3>3 DEF RequestStep, RedirectRead, CacheApply, CacheLose, Abort
  <2>2. QED BY <1>1, <1>2, <2>1 DEF RowsAge, TypeOK
<1>8. QED BY <1>4, <1>6, <1>7

LEMMA CleanupAges ==
    ASSUME TypeInv, NEW c \in Cleaners, CleanupStep(c) \/ SweepCrash(c)
    PROVE  RowsAge /\ RequestsAge /\ SweepsAge
<1>. USE LifecycleAssumption
<1>1. TypeOK BY DEF TypeInv
<1>2. inserts' = inserts /\ now' = now
  BY DEF CleanupStep, SweepFind, SweepDelete, SweepSkip, SweepEvict, SweepEnd, SweepCrash
<1>3. sweep[c] # None => sweep[c] \in Sweep BY <1>1, Present
<1>4. ASSUME db' = db, req' = req PROVE RowsAge /\ RequestsAge
  BY <1>1, <1>2, <1>4 DEF RowsAge, RowStays, RequestsAge, RequestGoesOn, TypeOK
<1>5. ASSUME NEW x, sweep' = [sweep EXCEPT ![c] = x],
             x = None \/ (sweep[c] # None /\ x.batch \subseteq sweep[c].batch
                                          /\ x.since = sweep[c].since)
      PROVE  SweepsAge
  BY <1>1, <1>5 DEF TypeOK, SweepsAge, SweepGoesOn
<1>6. CASE SweepFind(c)
  <2>1. PICK batch \in Batches :
           sweep' = [sweep EXCEPT ![c] = [batch |-> batch, current |-> None,
                                          since |-> inserts, undisturbed |-> TRUE]]
    BY <1>6 DEF SweepFind
  <2>2. \A s \in batch : Overdue(s) BY <2>1 DEF Batches, AnyOf
  <2>3. db' = db /\ req' = req BY <1>6 DEF SweepFind
  <2>4. sweep'[c].since = inserts /\ sweep'[c].batch = batch BY <1>1, <2>1 DEF TypeOK
  <2>5. SweepBegins(c) BY <1>2, <2>2, <2>3, <2>4 DEF SweepBegins
  <2>6. \A d \in Cleaners \ {c} : sweep'[d] = sweep[d] BY <1>1, <2>1 DEF TypeOK
  <2>7. SweepsAge BY <2>5, <2>6 DEF SweepsAge, SweepGoesOn
  <2>8. QED BY <1>4, <2>3, <2>7
<1>7. ASSUME NEW s \in Slugs, SweepDelete(c, s) PROVE RowsAge /\ RequestsAge /\ SweepsAge
  <2>. DEFINE D == SweepsDisturbed(s)
              flag == ~Clash(s, "delete")
              x == [D[c] EXCEPT !.batch = @ \ {s}, !.current = s, !.undisturbed = flag]
  <2>1. D \in [Cleaners -> Sweep \cup {None}] /\ D[c] # None
    BY <1>1, <1>7, DisturbedTypes DEF SweepDelete
  <2>2. x.batch = D[c].batch \ {s} /\ x.since = D[c].since
    <3>1. D[c] \in Sweep BY <2>1
    <3>2. QED BY <3>1 DEF Sweep
  <2>3. sweep' = [D EXCEPT ![c] = x] BY <1>7, <2>1 DEF SweepDelete
  <2>4. \A d \in Cleaners : D[d] # None => /\ sweep[d] # None /\ D[d].batch = sweep[d].batch
                                           /\ D[d].since = sweep[d].since
    BY <1>1, DisturbedTypes DEF SameSweep
  <2>5. SweepsAge
    <3>. HIDE DEF D, x
    <3>1. QED BY <2>1, <2>2, <2>3, <2>4 DEF SweepsAge, SweepGoesOn
  <2>6. RequestsAge
    BY <1>1, <1>7, DisturbedTypes DEF SweepDelete, RequestsAge, RequestGoesOn, SameRequest
  <2>7. RowsAge BY <1>1, <1>2, <1>7 DEF SweepDelete, RowsAge, RowStays, TypeOK
  <2>8. QED BY <2>5, <2>6, <2>7
<1>8. ASSUME NEW s \in Slugs, SweepSkip(c, s) PROVE RowsAge /\ RequestsAge /\ SweepsAge
  <2>. DEFINE x == [sweep[c] EXCEPT !.batch = @ \ {s}]
  <2>1. x.batch \subseteq sweep[c].batch /\ x.since = sweep[c].since
    BY <1>3, <1>8 DEF SweepSkip, Sweep
  <2>2. sweep' = [sweep EXCEPT ![c] = x] /\ sweep[c] # None BY <1>1, <1>8 DEF SweepSkip, TypeOK
  <2>. HIDE DEF x
  <2>3. SweepsAge BY <1>5, <2>1, <2>2
  <2>4. QED BY <1>4, <1>8, <2>3 DEF SweepSkip
<1>9. CASE SweepEvict(c)
  <2>. DEFINE x == [sweep[c] EXCEPT !.current = None, !.undisturbed = TRUE]
  <2>1. x.batch = sweep[c].batch /\ x.since = sweep[c].since BY <1>3, <1>9 DEF SweepEvict, Sweep
  <2>2. sweep' = [sweep EXCEPT ![c] = x] /\ sweep[c] # None BY <1>1, <1>9 DEF SweepEvict, TypeOK
  <2>. HIDE DEF x
  <2>3. SweepsAge BY <1>5, <2>1, <2>2
  <2>4. QED BY <1>4, <1>9, <2>3 DEF SweepEvict
<1>10. CASE SweepEnd(c) \/ SweepCrash(c)
  BY <1>4, <1>5, <1>10 DEF SweepEnd, SweepCrash
<1>11. QED BY <1>6, <1>7, <1>8, <1>9, <1>10 DEF CleanupStep

LEMMA AuthStep == TypeInv /\ AuthInv /\ [Next]_vars => AuthInv'
<1>. SUFFICES ASSUME TypeInv, AuthInv, [Next]_vars PROVE AuthInv'
  OBVIOUS
<1>1. TypeOK /\ TypeOK' BY TypeStep DEF TypeInv
<1>2. CASE Tick \/ (\E s \in Slugs : EvictLru(s)) \/ UNCHANGED vars
  <2>1. db' = db /\ req' = req /\ sweep' = sweep /\ inserts' = inserts /\ now' \in {now, now + 1}
    BY <1>2 DEF Tick, EvictLru, vars
  <2>2. RowsAge /\ RequestsAge /\ SweepsAge
    BY <1>1, <2>1
       DEF TypeOK, RowsAge, RowStays, RequestsAge, RequestGoesOn, SweepsAge, SweepGoesOn
  <2>3. QED BY <1>1, <2>2, AuthAge
<1>3. CASE ClientRequest BY <1>1, <1>3, ClientAges, AuthAge
<1>4. ASSUME NEW r \in Requests, RequestStep(r) \/ Abort(r) PROVE AuthInv'
  BY <1>1, <1>4, RequestAges, AuthAge
<1>5. ASSUME NEW c \in Cleaners, CleanupStep(c) \/ SweepCrash(c) PROVE AuthInv'
  BY <1>1, <1>5, CleanupAges, AuthAge
<1>6. QED BY <1>2, <1>3, <1>4, <1>5 DEF Next

\* The row as a step of the specification may leave it.
Authorised(s) ==
    db[s] # None =>
        /\ (db'[s] # None /\ db'[s] # db[s]) =>
              /\ db'[s] = [db[s] EXCEPT !.url = db'[s].url]
              /\ \E r \in Requests : /\ On(r, s) /\ req[r].op = "patch"
                                     /\ req[r].user = db[s].owner
                                     /\ req[r].url = db'[s].url
        /\ db'[s] = None =>
              \/ \E r \in Requests : /\ On(r, s) /\ req[r].op = "delete"
                                     /\ \/ req[r].user = db[s].owner
                                        \/ req[r].since < db[s].born
              \/ \E c \in Cleaners : /\ sweep[c] # None /\ s \in sweep[c].batch
                                     /\ \/ Overdue(s)
                                        \/ sweep[c].since < db[s].born

LEMMA AuthorisedStep ==
    ASSUME TypeInv, AuthInv, Next, NEW s \in Slugs
    PROVE  Authorised(s)
<1>1. TypeOK BY DEF TypeInv
<1>2. CASE db' = db BY <1>2 DEF Authorised
<1>3. ASSUME NEW t \in Slugs, NEW u \in Users, NEW url \in HttpUrls, NEW e \in Expiries,
             Insert(t, u, url, e)
      PROVE  Authorised(s)
  BY <1>1, <1>3 DEF Insert, Authorised, TypeOK
<1>4. ASSUME NEW r \in Requests, PatchUpdate(r) PROVE Authorised(s)
  <2>1. CASE s = req[r].slug /\ Owned(s, req[r].user)
    <3>1. db[s] \in Row /\ On(r, s) /\ req[r].op = "patch" /\ req[r].user = db[s].owner
      BY <1>1, <1>4, <2>1, Present DEF PatchUpdate, Owned, On
    <3>2. db'[s] = [db[s] EXCEPT !.url = req[r].url]
      BY <1>1, <1>4, <2>1 DEF PatchUpdate, Updated, TypeOK
    <3>3. db'[s].url = req[r].url BY <3>1, <3>2 DEF Row
    <3>4. db'[s] # None
      <4>1. req[r].url \in Urls BY <1>4, LifecycleAssumption DEF TypeInv, PatchCarriesUrl, PatchUpdate
      <4>2. db'[s] \in Row BY <3>1, <3>2, <4>1 DEF Row
      <4>3. QED BY <4>2, LifecycleAssumption
    <3>5. QED BY <3>1, <3>2, <3>3, <3>4 DEF Authorised
  <2>2. CASE ~(s = req[r].slug /\ Owned(s, req[r].user))
    <3>1. db'[s] = db[s] BY <1>1, <1>4, <2>2 DEF PatchUpdate, Updated, Owned, TypeOK
    <3>2. QED BY <3>1 DEF Authorised
  <2>3. QED BY <2>1, <2>2
<1>5. ASSUME NEW r \in Requests, DeleteRow(r) PROVE Authorised(s)
  <2>1. CASE s = req[r].slug /\ db[s] # None
    <3>1. On(r, s) /\ req[r].op = "delete" /\ db'[s] = None
      BY <1>1, <1>5, <2>1 DEF DeleteRow, On, TypeOK
    <3>2. req[r].user = db[s].owner \/ req[r].since < db[s].born
      BY <1>5, <2>1, <3>1 DEF DeleteRow, AuthInv, DeletesVouched
    <3>3. QED BY <3>1, <3>2 DEF Authorised
  <2>2. CASE ~(s = req[r].slug /\ db[s] # None)
    BY <1>1, <1>5, <2>2 DEF DeleteRow, Authorised, TypeOK
  <2>3. QED BY <2>1, <2>2
<1>6. ASSUME NEW c \in Cleaners, NEW t \in Slugs, SweepDelete(c, t) PROVE Authorised(s)
  <2>1. CASE s = t /\ db[s] # None
    <3>1. sweep[c] # None /\ s \in sweep[c].batch /\ db'[s] = None
      BY <1>1, <1>6, <2>1 DEF SweepDelete, TypeOK
    <3>2. Overdue(s) \/ sweep[c].since < db[s].born
      BY <2>1, <3>1 DEF AuthInv, BatchesVouched
    <3>3. QED BY <3>1, <3>2 DEF Authorised
  <2>2. CASE ~(s = t /\ db[s] # None)
    BY <1>1, <1>6, <2>2 DEF SweepDelete, Authorised, TypeOK
  <2>3. QED BY <2>1, <2>2
<1>7. ASSUME db' # db
      PROVE  \/ \E t \in Slugs, u \in Users, url \in HttpUrls, e \in Expiries :
                   Insert(t, u, url, e)
             \/ \E r \in Requests : PatchUpdate(r) \/ DeleteRow(r)
             \/ \E c \in Cleaners, t \in Slugs : SweepDelete(c, t)
  <2>1. CASE ClientRequest
    BY <1>7, <2>1 DEF ClientRequest, RedirectHit, RedirectMiss, Create, McpCreate,
                      PatchCheck, DeleteCheck, CheckOwner
  <2>2. ASSUME NEW r \in Requests, RequestStep(r) \/ Abort(r)
        PROVE  PatchUpdate(r) \/ DeleteRow(r)
    BY <1>7, <2>2 DEF RequestStep, RedirectRead, CacheApply, CacheLose, Abort
  <2>3. ASSUME NEW c \in Cleaners, CleanupStep(c) \/ SweepCrash(c)
        PROVE  \E t \in Slugs : SweepDelete(c, t)
    BY <1>7, <2>3 DEF CleanupStep, SweepFind, SweepSkip, SweepEvict, SweepEnd, SweepCrash
  <2>4. QED BY <1>7, <2>1, <2>2, <2>3 DEF Next, Tick, EvictLru
<1>8. QED BY <1>2, <1>3, <1>4, <1>5, <1>6, <1>7

\* A row changes only under a PATCH of its owner and goes only by a DELETE of its
\* owner or a cleanup that found it overdue, a row inserted after their check
\* excepted, however the requests, the cleanups and their failures interleave.
THEOREM ChangesAuthorised == Spec => ChangesAreAuthorised
<1>1. TypeInv /\ AuthInv /\ [Next]_vars =>
         [\A s \in Slugs : db[s] # None =>
            /\ (db'[s] # None /\ db'[s] # db[s]) =>
                  /\ db'[s] = [db[s] EXCEPT !.url = db'[s].url]
                  /\ \E r \in Requests : /\ On(r, s) /\ req[r].op = "patch"
                                         /\ req[r].user = db[s].owner
                                         /\ req[r].url = db'[s].url
            /\ db'[s] = None =>
                  \/ \E r \in Requests : /\ On(r, s) /\ req[r].op = "delete"
                                         /\ \/ req[r].user = db[s].owner
                                            \/ req[r].since < db[s].born
                  \/ \E c \in Cleaners : /\ sweep[c] # None /\ s \in sweep[c].batch
                                         /\ \/ Overdue(s)
                                            \/ sweep[c].since < db[s].born]_vars
  BY AuthorisedStep DEF Authorised
<1>2. Init => TypeInv /\ AuthInv BY TypeInit, AuthInit
<1>3. TypeInv /\ AuthInv /\ [Next]_vars => (TypeInv /\ AuthInv)' BY TypeStep, AuthStep
<1>4. QED BY <1>1, <1>2, <1>3, PTL DEF Spec, ChangesAreAuthorised
=============================================================================
