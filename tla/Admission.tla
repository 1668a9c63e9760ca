------------------------------ MODULE Admission -------------------------------
(***************************************************************************)
(* What a request passes before its handler runs: the global throttler     *)
(* guard with the names its route keeps, then the route's own guard, which *)
(* reads the access cookie, the Bearer token or the API key, or lets the   *)
(* request be the shared guest's, whose row GuestIdentity looks up. The    *)
(* requests come from one IP address; @nestjs/throttler keeps a counter    *)
(* per pod, handler, name and address.                                     *)
(***************************************************************************)
EXTENDS Integers, FiniteSets

CONSTANTS
    None, Bad,    \* no credential; one that is not valid
    Users,
    Guest,        \* the shared guest
    Pods,
    Requests,     \* the shapes of request that arrive
    Budget,       \* Budget[route][name]: the limit per window of a kept name
    GuestFlag,    \* GUEST_SHORTEN_ENABLED
    MaxCame       \* bound of the model: creations of one window, by credential

Names == {"default", "auth", "redirect", "data"}
\* Handlers that differ in what they pass: POST /api/urls; the other links
\* handlers and statistics; MCP; those of a session alone; and the open ones.
Open == {"login", "refresh", "logout", "redirect"}
Routes == {"create", "data", "mcp", "session"} \cup Open
Shape == [route : Routes,
          bearer : Users \cup {None, Bad}, cookie : Users \cup {None, Bad},
          apiKey : Users \cup {None, Bad, ""},       \* "": the header without a value
          origin : {None, "own", "other"}, referer : {None, "own", "other"}]
\* A guest's request goes on to the lookup of its row.
Served == [request : Shape, pod : Pods, as : Users \cup {Guest, None},
           status : {"passed", "401", "429"}]

ASSUME AdmissionAssumption ==
    /\ Requests \subseteq Shape /\ Budget \in [Routes -> [Names -> Nat]]
    /\ GuestFlag \in BOOLEAN /\ MaxCame \in Nat /\ IsFiniteSet(Pods)
    /\ None \notin Users \cup Served \cup {Bad, Guest} /\ Guest \notin Users \cup {Bad}
    \* GUEST_CREATE_BUDGET is stricter than the module budgets the route keeps.
    /\ \A n \in {"auth", "redirect"} : Budget["create"]["default"] <= Budget["create"][n]

VARIABLES
    hits,     \* the counters of the window, by pod, route and name
    came,     \* history: creations of the window at each pod, by credential
    guests,   \* history: creations of the window let in as the guest's
    last      \* history: the last request, and what it was answered

vars == <<hits, came, guests, last>>

-----------------------------------------------------------------------------
\* The decorators of the controllers: @SkipThrottle, and the names that
\* @SkipThrottleWhenCredentialed sheds.
Public == {"default", "auth", "redirect"}
Skipped(route) == CASE route \in {"data", "mcp", "session", "logout"} -> Public
                    [] route = "redirect" -> Names \ {"redirect"}
                    [] OTHER -> {}
GuestOnly(route) == IF route = "create" THEN Public ELSE {}

\* carriesApiCredential: presence only, and an empty header is none.
Carries(req) == req.bearer # None \/ req.apiKey \notin {None, ""} \/ req.cookie # None

\* shedsForCredentialedRequest; after a mutant that is never told the actor.
ShedsNothing(req) == {}
Shed(req) == IF Carries(req) THEN GuestOnly(req.route) ELSE {}

Kept(req) == Names \ (Skipped(req.route) \cup Shed(req))

\* The guard goes through the names in the order of their ttl, counts the request and
\* stops at the first budget that is used up; after a mutant that goes on counting.
Order == <<"redirect", "default", "auth", "data">>
UsedUp(p, req, n) == n \in Kept(req) /\ hits[p][req.route][n] >= Budget[req.route][n]
Throttled(p, req) == \E n \in Names : UsedUp(p, req, n)
Everything(p, req) == Kept(req)
Counted(p, req) == {Order[i] : i \in {j \in 1 .. 4 : Order[j] \in Kept(req)
                                        /\ \A k \in 1 .. j : ~UsedUp(p, req, Order[k])}}

-----------------------------------------------------------------------------
\* JwtStrategy takes the cookie first, ApiKeyAuthGuard the header.
JwtUser(req) == IF req.cookie # None THEN req.cookie ELSE req.bearer
Verified(credential) == IF credential \in Users THEN credential ELSE None

\* chooseAuthMethod: Bearer, then the API key, then the cookie.
Authenticated(req) ==
    IF req.bearer = None /\ req.apiKey \notin {None, ""} THEN Verified(req.apiKey)
    ELSE Verified(JwtUser(req))

\* JwtAuthGuard; after a mutant with BearerOrApiKeyGuard in its place.
AnyUser(req) == Authenticated(req)
SessionUser(req) == Verified(JwtUser(req))

\* isBrowserRequest: Referer counts only without an Origin.
FromBrowser(req) == req.origin = "own" \/ (req.origin = None /\ req.referer = "own")

\* GuestOrAuthenticatedGuard goes to the guest only without a credential; after
\* a mutant that tries the guest when authentication fails.
GuestOnFailure(req) == Authenticated(req) = None /\ GuestFlag /\ FromBrowser(req)
MayBeGuest(req) == ~Carries(req) /\ GuestFlag /\ FromBrowser(req)

Actor(req) ==
    CASE req.route \in Open -> None
      [] req.route = "mcp" -> Verified(req.apiKey)
      [] req.route = "session" -> SessionUser(req)
      [] req.route = "create" /\ MayBeGuest(req) -> Guest
      [] OTHER -> Authenticated(req)
Status(req) == IF req.route \notin Open /\ Actor(req) = None THEN "401" ELSE "passed"

-----------------------------------------------------------------------------
Zero == [r \in Routes |-> [n \in Names |-> 0]]
Init ==
    /\ hits = [p \in Pods |-> Zero]
    /\ came = [p \in Pods |-> [guest |-> 0, credentialed |-> 0]]
    /\ guests = 0
    /\ last = None

Serve(p, req) ==
    LET refused == Throttled(p, req)
        guest == req.route = "create" /\ MayBeGuest(req) /\ ~refused
        actor == IF Carries(req) THEN "credentialed" ELSE "guest"
    IN  /\ came[p][actor] < MaxCame
        /\ hits' = [hits EXCEPT ![p][req.route] =
                       [n \in Names |-> IF n \in Counted(p, req) THEN @[n] + 1 ELSE @[n]]]
        /\ came' = IF req.route = "create" THEN [came EXCEPT ![p][actor] = @ + 1] ELSE came
        /\ guests' = IF guest THEN guests + 1 ELSE guests
        /\ last' = [request |-> req, pod |-> p,
                    as |-> IF refused THEN None ELSE Actor(req),
                    status |-> IF refused THEN "429" ELSE Status(req)]

\* The ttl of every counter is over. A pod that starts again loses its counters; a
\* window with a restart is not followed further.
Expire ==
    /\ hits' = [p \in Pods |-> Zero]
    /\ came' = [p \in Pods |-> [guest |-> 0, credentialed |-> 0]]
    /\ guests' = 0 /\ last' = None

\* The shorter ttl of the redirect name is over, within the window of the others.
ExpireShort ==
    /\ hits' = [p \in Pods |-> [r \in Routes |-> [hits[p][r] EXCEPT !["redirect"] = 0]]]
    /\ last' = None
    /\ UNCHANGED <<came, guests>>

Next ==
    \/ \E p \in Pods, req \in Requests : Serve(p, req)
    \/ Expire \/ ExpireShort

Spec == Init /\ [][Next]_vars

-----------------------------------------------------------------------------
\* Every variable stays within its type; no counter passes its budget.
TypeOK ==
    /\ \A p \in Pods, r \in Routes, n \in Names : hits[p][r][n] \in 0 .. Budget[r][n]
    /\ came \in [Pods -> [guest : 0 .. MaxCame, credentialed : 0 .. MaxCame]]
    /\ guests \in Nat
    /\ last \in Served \cup {None}

\* Whatever mix of credentials, forged ones included, an address sends, a pod
\* admits no more guest creations in a window than the guest's budget.
GuestCreationsBounded ==
    guests <= Budget["create"]["default"] * Cardinality(Pods)

\* The two budgets of POST /api/urls are apart: a guest is refused for the guests'
\* own creations, or once the address has used up the data budget; and guests that
\* are turned away take nothing from the budget of its credentialed creations.
BudgetsAreApart ==
    last # None /\ last.request.route = "create" /\ last.status = "429" =>
        LET sent == came[last.pod]
            budget == Budget["create"]
        IN  IF Carries(last.request) THEN sent.credentialed + budget["default"] > budget["data"]
            ELSE sent.guest > budget["default"] \/ sent.credentialed + sent.guest > budget["data"]

\* Every route takes the schemes of its contract and no other: an API key does
\* not manage API keys, a cookie does not call MCP, and a request works as the
\* guest only if it carries nothing.
SchemesHold ==
    last # None =>
        LET req == last.request
        IN  /\ last.as \in Users =>
                  last.as \in CASE req.route = "session" -> {req.bearer, req.cookie}
                               [] req.route = "mcp" -> {req.apiKey}
                               [] OTHER -> {req.bearer, req.cookie, req.apiKey}
            /\ last.as = Guest =>
                  req.bearer = None /\ req.cookie = None /\ req.apiKey \in {None, ""}
=============================================================================
