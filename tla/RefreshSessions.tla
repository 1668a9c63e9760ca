--------------------------- MODULE RefreshSessions ---------------------------
(***************************************************************************)
(* Refresh-token sessions: sign-in, rotation and logout against the Redis  *)
(* allowlist auth:refresh:<family> and the cookie jars of the browsers.    *)
(*                                                                         *)
(* A handler is split at its awaits. A Redis command that throws may have  *)
(* run all the same, its reply being what was lost; a request that dies    *)
(* and a response that never arrives are one action, Abort. The tabs of a  *)
(* browser share its jar and may refresh, and log out, at the same time.   *)
(***************************************************************************)
EXTENDS Integers

CONSTANTS
    None,
    Users, Browsers,
    Requests,    \* concurrent requests, over all pods
    RefreshTtl,  \* REFRESH_TOKEN_TTL and REFRESH_TOKEN_TTL_SECONDS
    Faults,      \* what may fail: "redis" commands, "db" statements, requests "abort"
    MaxIssued, MaxClock  \* bounds of the model: families issued, the clock

Families == 1 .. MaxIssued
Token == [user : Users, family : Families, jti : Families, exp : Nat]
Allowed == [jti : Families, until : Nat]
Stages == {"check", "issue", "store", "revoke", "answer"}
Statuses == {200, 204, 401, 500, 503}
Clear == [clear |-> TRUE]
Request == [op : {"signin", "refresh", "logout"}, stage : Stages, browser : Browsers,
            user : Users \cup {None},             \* whom it signs in
            token : Token \cup {None},           \* the refresh token it presents
            cookie : Token \cup {None, Clear},   \* what its answer does to the jar
            status : Statuses \cup {None}]

ASSUME SessionsAssumption ==
    /\ None \notin Nat \cup Token \cup Allowed \cup Request \cup {Clear}
    /\ RefreshTtl \in Nat \ {0} /\ MaxIssued \in Nat /\ MaxClock \in Nat
    /\ Faults \subseteq {"redis", "db", "abort"}

VARIABLES
    now,
    store,    \* the allowlist in Redis: family -> current jti, until it expires
    jar,      \* the mikrouli_refresh cookie of each browser
    req,
    issued,   \* families issued so far: randomUUID never repeats
    rotated, loggedOut,  \* history: families a rotation or a logout succeeded for
    lost      \* history: families that logouts or LRU eviction removed

vars == <<now, store, jar, req, issued, rotated, loggedOut, lost>>

-----------------------------------------------------------------------------
Init ==
    /\ now = 0
    /\ store = [f \in Families |-> None]
    /\ jar = [b \in Browsers |-> None]
    /\ req = [r \in Requests |-> None]
    /\ issued = 0
    /\ rotated = {} /\ loggedOut = {} /\ lost = {}

At(r, stage) == req[r] # None /\ req[r].stage = stage

Begin(r, op, stage, b, u, token) ==
    req' = [req EXCEPT ![r] = [op |-> op, stage |-> stage, browser |-> b, user |-> u,
                               token |-> token, cookie |-> None, status |-> None]]
Answered(r, status, cookie) ==
    [req EXCEPT ![r].stage = "answer", ![r].status = status, ![r].cookie = cookie]

\* POST /auth/login and the GitHub callback, once the user is known.
SignIn(r, b, u) ==
    /\ req[r] = None
    /\ Begin(r, "signin", "issue", b, u, None)
    /\ UNCHANGED <<now, store, jar, issued, rotated, loggedOut, lost>>

\* POST /auth/refresh: the JWT is verified before the first await.
Refresh(r, b) ==
    /\ req[r] = None
    /\ jar[b] # None /\ now < jar[b].exp
    /\ Begin(r, "refresh", "check", b, jar[b].user, jar[b])
    /\ UNCHANGED <<now, store, jar, issued, rotated, loggedOut, lost>>

\* POST /auth/logout: no token, or an expired one, has nothing to revoke and goes
\* straight to the cleared cookies.
Logout(r, b) ==
    /\ req[r] = None
    /\ IF jar[b] # None /\ now < jar[b].exp
       THEN Begin(r, "logout", "revoke", b, None, jar[b])
       ELSE req' = [req EXCEPT ![r] = [op |-> "logout", stage |-> "answer", browser |-> b,
                                       user |-> None, token |-> jar[b],
                                       cookie |-> Clear, status |-> 204]]
    /\ UNCHANGED <<now, store, jar, issued, rotated, loggedOut, lost>>

-----------------------------------------------------------------------------
\* rotateRefresh reads the family's jti: absent is 401, another jti revokes the
\* family, the token's own jti lets the rotation go on; an error is not caught.
Check(r) ==
    /\ At(r, "check")
    /\ LET entry == store[req[r].token.family]
       IN  \/ req' = IF entry = None THEN Answered(r, 401, None)
                     ELSE [req EXCEPT ![r].stage = IF entry.jti = req[r].token.jti
                                                   THEN "issue" ELSE "revoke"]
           \/ "redis" \in Faults /\ req' = Answered(r, 500, None)
    /\ UNCHANGED <<now, store, jar, issued, rotated, loggedOut, lost>>

\* issueTokens: a new jti in a new family, after a mutant that keeps the family.
MintInFamily(r) ==
    [user |-> req[r].user,
     family |-> IF req[r].token = None THEN issued + 1 ELSE req[r].token.family,
     jti |-> issued + 1, exp |-> now + RefreshTtl]
Mint(r) ==
    [user |-> req[r].user, family |-> issued + 1, jti |-> issued + 1,
     exp |-> now + RefreshTtl]

\* The user is loaded and the pair is signed.
Issue(r) ==
    /\ At(r, "issue")
    /\ issued < MaxIssued
    /\ issued' = issued + 1
    /\ req' = [req EXCEPT ![r].stage = "store", ![r].cookie = Mint(r)]
    /\ UNCHANGED <<now, store, jar, rotated, loggedOut, lost>>

\* The statement that loads the user throws: findById in a rotation, the sign-in's own
\* lookup before it. Users are never deleted, so findById does find one.
IssueFails(r) ==
    /\ "db" \in Faults
    /\ At(r, "issue")
    /\ req' = Answered(r, 500, None)
    /\ UNCHANGED <<now, store, jar, issued, rotated, loggedOut, lost>>

\* SET auth:refresh:<family> jti EX ttl, after a mutant that leaves the TTL out.
ListedForever(r) ==
    [store EXCEPT ![req[r].cookie.family] = [jti |-> req[r].cookie.jti, until |-> None]]
Listed(r) ==
    [store EXCEPT ![req[r].cookie.family] =
        [jti |-> req[r].cookie.jti, until |-> now + RefreshTtl]]

\* setOrThrow has run; the profile the refresh handler loads next may fail, with
\* the cookies already on the response.
StoreDone(r) ==
    /\ At(r, "store")
    /\ store' = Listed(r)
    /\ rotated' = IF req[r].op = "refresh" THEN rotated \cup {req[r].token.family} ELSE rotated
    /\ \/ req' = Answered(r, 200, req[r].cookie)
       \/ "db" \in Faults /\ req[r].op = "refresh" /\ req' = Answered(r, 500, req[r].cookie)
    /\ UNCHANGED <<now, jar, issued, loggedOut, lost>>

\* setOrThrow throws and no cookie goes out; after a mutant that uses the cache
\* accessor, which swallows the error.
StoreSwallowed(r) == Answered(r, 200, req[r].cookie)
StoreRefused(r) == Answered(r, 500, None)

StoreFails(r) ==
    /\ "redis" \in Faults
    /\ At(r, "store")
    /\ store' \in {store, Listed(r)}
    /\ req' = StoreRefused(r)
    /\ UNCHANGED <<now, jar, issued, rotated, loggedOut, lost>>

-----------------------------------------------------------------------------
Unlisted(r) == [store EXCEPT ![req[r].token.family] = None]

\* delOrThrow, for a logout and for a rotation that met another jti.
RevokeDone(r) ==
    /\ At(r, "revoke")
    /\ store' = Unlisted(r)
    /\ lost' = lost \cup {req[r].token.family}
    /\ loggedOut' = IF req[r].op = "logout" THEN loggedOut \cup {req[r].token.family}
                    ELSE loggedOut
    /\ req' = IF req[r].op = "logout" THEN Answered(r, 204, Clear) ELSE Answered(r, 401, None)
    /\ UNCHANGED <<now, jar, issued, rotated>>

\* The controller of a logout answers 503 and leaves the cookies.
RevokeFails(r) ==
    /\ "redis" \in Faults
    /\ At(r, "revoke")
    /\ \/ store' = store /\ lost' = lost
       \/ store' = Unlisted(r) /\ lost' = lost \cup {req[r].token.family}
    /\ req' = Answered(r, IF req[r].op = "logout" THEN 503 ELSE 500, None)
    /\ UNCHANGED <<now, jar, issued, rotated, loggedOut>>

-----------------------------------------------------------------------------
\* The response reaches the browser, in no particular order among its requests.
Receive(r) ==
    /\ At(r, "answer")
    /\ jar' = [jar EXCEPT ![req[r].browser] =
                  IF req[r].cookie = None THEN @
                  ELSE IF req[r].cookie = Clear THEN None ELSE req[r].cookie]
    /\ req' = [req EXCEPT ![r] = None]
    /\ UNCHANGED <<now, store, issued, rotated, loggedOut, lost>>

Abort(r) ==
    /\ "abort" \in Faults
    /\ req[r] # None
    /\ req' = [req EXCEPT ![r] = None]
    /\ UNCHANGED <<now, store, jar, issued, rotated, loggedOut, lost>>

Tick ==
    /\ now < MaxClock
    /\ now' = now + 1
    /\ store' = [f \in Families |->
                    IF store[f] # None /\ store[f].until <= now + 1 THEN None ELSE store[f]]
    /\ UNCHANGED <<jar, req, issued, rotated, loggedOut, lost>>

\* The allowlist lives in the same allkeys-lru Redis as the link cache.
EvictLru(f) ==
    /\ store[f] # None
    /\ store' = [store EXCEPT ![f] = None]
    /\ lost' = lost \cup {f}
    /\ UNCHANGED <<now, jar, req, issued, rotated, loggedOut>>

HandlerStep(r) ==
    \/ Check(r) \/ Issue(r) \/ IssueFails(r) \/ StoreDone(r) \/ StoreFails(r)
    \/ RevokeDone(r) \/ RevokeFails(r) \/ Receive(r)

Next ==
    \/ \E r \in Requests, b \in Browsers :
          (\E u \in Users : SignIn(r, b, u)) \/ Refresh(r, b) \/ Logout(r, b)
    \/ \E r \in Requests : HandlerStep(r) \/ Abort(r)
    \/ Tick
    \/ \E f \in Families : EvictLru(f)

Spec == Init /\ [][Next]_vars

-----------------------------------------------------------------------------
\* Every variable stays within its type.
TypeOK ==
    /\ now \in Nat
    /\ store \in [Families -> Allowed \cup {None}]
    /\ jar \in [Browsers -> Token \cup {None}]
    /\ req \in [Requests -> Request \cup {None}]
    /\ issued \in 0 .. MaxIssued
    /\ rotated \subseteq Families /\ loggedOut \subseteq Families /\ lost \subseteq Families

\* The tokens that left the server, or are on a response.
HandedOut ==
    {jar[b] : b \in Browsers} \cup
    {req[r].token : r \in {q \in Requests : req[q] # None}} \cup
    {req[r].cookie : r \in {q \in Requests : At(q, "answer")}}

\* Fail-closed issuing never strands a browser: however rotations of several
\* tabs, lost responses and Redis errors interleave, a token that was handed out
\* and has not expired is the one its family's entry names, unless a logout or
\* an eviction removed the entry. In particular the entry never dies before the
\* JWT, and no rotation takes another one's entry away.
UnrevokedTokensWork ==
    \A token \in HandedOut \cap Token :
        now < token.exp /\ token.family \notin lost =>
            /\ store[token.family] # None
            /\ store[token.family].jti = token.jti

\* A logout that said 204 is final: its family has no entry, and none of the SETs
\* still in flight brings one back.
LoggedOutStaysOut ==
    \A f \in loggedOut :
        /\ store[f] = None
        /\ \A r \in Requests : At(r, "store") => req[r].cookie.family # f

-----------------------------------------------------------------------------
\* Claims of the documents and comments that the code breaks.

\* rotateRefresh: "setOrThrow in issueTokens overwrites the stored jti"; ADR 0011:
\* "a new jti overwrites the Redis key". The first jti of family f is f.
RotationRetiresTheToken ==
    \A f \in rotated : store[f] = None \/ store[f].jti # f
=============================================================================
