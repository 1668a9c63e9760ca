------------------------------- MODULE ApiAnswers ------------------------------
(***************************************************************************)
(* How a request to the API is answered, and what the web client makes of  *)
(* the answer: a request passes the body parser, the throttler, the guard  *)
(* of its route and the validation pipe before its handler; whichever of   *)
(* them throws, one filter turns what was thrown into a problem document;  *)
(* the client reads the document, and a page states it to the visitor.     *)
(*                                                                         *)
(* What is thrown has a status and a payload: a string, an object that     *)
(* Nest composes, a validation, a problem of its own, or no HttpException  *)
(* at all ("error").  The statuses an operation may answer are declared in *)
(* the contract from which both sides generate their types.                *)
(***************************************************************************)
EXTENDS Naturals

VARIABLES
    request,                   \* the operation asked for, and the stage it is at
    thrown,                    \* what was thrown: [status, payload, cause]
    problem,                   \* the body of the answer: [status, slug, detail, errors]
    statement                  \* what the page states

vars == <<request, thrown, problem, statement>>

-------------------------------------------------------------------------------
(* The contract, as openapi-generated.ts declares it.                      *)

DeclaredApiKeys ==
    [ApiKeys_list |-> {200, 401}, ApiKeys_create |-> {201, 400, 401, 422, 429},
     ApiKeys_revoke |-> {204, 401, 404}]

DeclaredGithub == [Auth_githubAuthorize |-> {302, 500}, Auth_githubCallback |-> {302, 500}]

DeclaredAuth ==
    [Auth_login |-> {200, 400, 401}, Auth_logout |-> {204, 401}, Auth_me |-> {200, 401},
     Auth_refresh |-> {200, 401}]

DeclaredOpen ==
    [Auth_register |-> {201, 400, 422}, Health_check |-> {200},
     Stats_get |-> {200, 401, 403, 404}]

DeclaredLinks ==
    [Links_list |-> {200, 401}, Links_create |-> {201, 400, 401, 422, 429},
     Links_remove |-> {204, 401, 403, 404}]

DeclaredRest ==
    [Links_update |-> {200, 400, 401, 403, 404, 422}, Usage_get |-> {200, 401},
     Redirect_redirect |-> {302, 404, 410}]

\* paths: what may be asked for, by path and method.
AccountPaths ==
    [apiKeys |-> [get |-> "ApiKeys_list", post |-> "ApiKeys_create"],
     apiKeysId |-> [delete |-> "ApiKeys_revoke"],
     authGithub |-> [get |-> "Auth_githubAuthorize"],
     authGithubCallback |-> [get |-> "Auth_githubCallback"],
     authLogin |-> [post |-> "Auth_login"], authLogout |-> [post |-> "Auth_logout"],
     authMe |-> [get |-> "Auth_me"], authRefresh |-> [post |-> "Auth_refresh"],
     authRegister |-> [post |-> "Auth_register"]]

LinkPaths ==
    [health |-> [get |-> "Health_check"], statsSlug |-> [get |-> "Stats_get"],
     urls |-> [get |-> "Links_list", post |-> "Links_create"],
     urlsSlug |-> [delete |-> "Links_remove", patch |-> "Links_update"],
     usage |-> [get |-> "Usage_get"], slug |-> [get |-> "Redirect_redirect"]]

\* The bodies of a refusal: only that of a validation names fields.
ValidationError == {422}

Tables ==
    {DeclaredApiKeys, DeclaredGithub, DeclaredAuth, DeclaredOpen, DeclaredLinks, DeclaredRest}
Operations(t) == UNION {{t[p][m] : m \in DOMAIN t[p]} : p \in DOMAIN t}
paths == Operations(AccountPaths) \cup Operations(LinkPaths)
Declared(op) == UNION {t[op] : t \in {s \in Tables : op \in DOMAIN s}}

-------------------------------------------------------------------------------
(* What may be thrown, and where.                                          *)

Exception(status, payload, cause) == [status |-> status, payload |-> payload, cause |-> cause]
Nothing == Exception(0, "none", "none")

\* The session's own routes shed every budget; ThrottlerException says a string.
Throttler(op) ==
    IF op \in {"Auth_logout", "Auth_me"} THEN {} ELSE {Exception(429, "string", "throttled")}

Unauthorized == Exception(401, "object", "credential")

\* The guest of POST /api/urls is resolved by the guard, and may be missing.
Guard(op) ==
    CASE op \in {"ApiKeys_list", "ApiKeys_create", "ApiKeys_revoke", "Auth_me", "Usage_get",
                 "Stats_get", "Links_list", "Links_remove", "Links_update",
                 "Auth_githubAuthorize"}                         -> {Unauthorized}
      [] op = "Links_create" -> {Unauthorized, Exception(404, "object", "guest")}
      [] OTHER               -> {}

Bodies == {"Auth_login", "Auth_register", "ApiKeys_create", "Links_create", "Links_update"}

\* A body that is no JSON; and the pipe, which throws a 400 for the filter.
BodyParser(op) == IF op \in Bodies THEN {Exception(400, "object", "body")} ELSE {}
ValidationPipe(op) == IF op \in Bodies THEN {Exception(400, "validation", "fields")} ELSE {}

\* getOwnedLink: a link of another owner is refused, not hidden.
Owned == {Exception(404, "object", "missing"), Exception(403, "object", "foreign")}

MonthlyLinkLimitExceededError == Exception(429, "problem", "limit")
MonthlyKeyLimitExceededError == Exception(429, "problem", "limit")

LinksHandler(op) ==
    CASE op = "Links_create" ->
            {Exception(409, "object", "slugs"), MonthlyLinkLimitExceededError}
      [] op \in {"Links_remove", "Links_update"} -> Owned
      [] OTHER -> {}

AuthHandler(op) ==
    CASE op = "Auth_login"                    -> {Exception(401, "object", "password")}
      [] op \in {"Auth_me", "Auth_refresh"}   -> {Unauthorized}
      [] op = "Auth_logout"                   -> {Exception(503, "object", "redis")}
      [] OTHER                                -> {}

ApiKeysHandler(op) ==
    CASE op = "ApiKeys_create" -> {MonthlyKeyLimitExceededError}
      [] op = "ApiKeys_revoke" -> {Exception(404, "object", "missing")}
      [] OTHER                 -> {}

StatsHandler(op) == IF op = "Stats_get" THEN Owned ELSE {}

RedirectHandler(op) ==
    IF op = "Redirect_redirect"
    THEN {Exception(404, "object", "missing"), Exception(410, "object", "expired")} ELSE {}

\* A store that fails throws no HttpException; only the health check uses none.
Failure(op) == IF op = "Health_check" THEN {} ELSE {Exception(500, "error", "failure")}

Handler(op) ==
    LinksHandler(op) \cup AuthHandler(op) \cup ApiKeysHandler(op) \cup StatsHandler(op)
        \cup RedirectHandler(op) \cup Failure(op)

Stages ==
    [parser |-> [next |-> "throttler"], throttler |-> [next |-> "guard"],
     guard |-> [next |-> "pipe"], pipe |-> [next |-> "handler"], handler |-> [next |-> "done"]]

Throws(stage, op) ==
    CASE stage = "parser"    -> BodyParser(op)
      [] stage = "throttler" -> Throttler(op)
      [] stage = "guard"     -> Guard(op)
      [] stage = "pipe"      -> ValidationPipe(op)
      [] stage = "handler"   -> Handler(op)

-------------------------------------------------------------------------------
(* ProblemDetailsFilter.                                                   *)

STATUS_SLUGS ==
    {<<400, "bad-request">>, <<401, "unauthorized">>, <<403, "forbidden">>, <<404, "not-found">>,
     <<409, "conflict">>, <<410, "gone">>, <<422, "validation">>,
     <<500, "internal-server-error">>}

buildProblem(status, slug, detail, errors) ==
    [status |-> status, slug |-> slug, detail |-> detail, errors |-> errors]

buildProblemFromStatus(status, detail) ==
    LET slugs == {e \in STATUS_SLUGS : e[1] = status}
    IN  buildProblem(status, IF slugs = {} THEN "unknown" ELSE (CHOOSE e \in slugs : TRUE)[2],
                     detail, FALSE)

\* after a mutant that knows validations and statuses only
resolveByStatus(exc) ==
    IF exc.payload = "validation" THEN buildProblem(422, "validation", FALSE, TRUE)
    ELSE buildProblemFromStatus(exc.status, exc.payload = "string")

\* A string is the detail; of an object that Nest composed nothing is kept.
resolveHttpProblem(exc) ==
    CASE exc.payload = "validation" -> buildProblem(422, "validation", FALSE, TRUE)
      [] exc.payload = "problem"    -> buildProblem(exc.status, "monthly-limit-exceeded", TRUE, FALSE)
      [] OTHER -> buildProblemFromStatus(exc.status, exc.payload = "string")

\* In production no failure says more than its status.
dispatchProblem(exc) ==
    IF exc.payload = "error" THEN buildProblemFromStatus(500, FALSE) ELSE resolveHttpProblem(exc)

-------------------------------------------------------------------------------
(* The client.                                                             *)

\* The message of an ApiError: the fields, else the detail, else the title.
buildApiError(p) ==
    CASE p.errors              -> "fields"
      [] ~p.errors /\ p.detail -> p.slug
      [] OTHER                 -> "title"

mapLoginError(p) == IF p.status = 401 THEN "unauthorized" ELSE "generic"
mapRegisterError(p) == IF p.status = 409 THEN "emailAlreadyRegistered" ELSE "generic"
mapStatsError(p) ==
    CASE p.status = 404 -> "noSuchLink"
      [] p.status = 403 -> "notLinkOwner"
      [] OTHER          -> "generic"

\* What the client asks for; a browser asks for the others by itself, or nobody.
Fetched ==
    paths \ {"Auth_refresh", "Auth_githubAuthorize", "Auth_githubCallback", "Health_check",
             "Redirect_redirect"}

\* fetchMe reads any failure as nobody, a revocation and a sign-out state nothing;
\* the other pages state the message.
Stated(op, p) ==
    CASE op = "Auth_login"                        -> mapLoginError(p)
      [] op = "Auth_register"                     -> mapRegisterError(p)
      [] op = "Stats_get"                         -> mapStatsError(p)
      [] op \in {"Auth_me", "Auth_logout", "ApiKeys_revoke"} -> "nothing"
      [] OTHER                                    -> buildApiError(p)

-------------------------------------------------------------------------------
NoProblem == buildProblem(0, "none", FALSE, FALSE)

Init ==
    /\ request \in [op : paths, stage : {"parser"}]
    /\ thrown = Nothing /\ problem = NoProblem /\ statement = "none"

Pass ==
    /\ request.stage \in DOMAIN Stages /\ thrown = Nothing
    /\ request' = [request EXCEPT !.stage = Stages[@].next]
    /\ UNCHANGED <<thrown, problem, statement>>

Throw ==
    /\ request.stage \in DOMAIN Stages /\ thrown = Nothing
    /\ thrown' \in Throws(request.stage, request.op)
    /\ UNCHANGED <<request, problem, statement>>

ProblemDetailsFilter ==
    /\ thrown # Nothing /\ problem = NoProblem
    /\ problem' = dispatchProblem(thrown)
    /\ UNCHANGED <<request, thrown, statement>>

apiFetch ==
    /\ problem # NoProblem /\ statement = "none"
    /\ request.op \in Fetched
    /\ statement' = Stated(request.op, problem)
    /\ UNCHANGED <<request, thrown, problem>>

Next == Pass \/ Throw \/ ProblemDetailsFilter \/ apiFetch

Spec == Init /\ [][Next]_vars

-------------------------------------------------------------------------------
(* Every variable has its type. *)
TypeOK ==
    /\ request \in [op : paths, stage : DOMAIN Stages \cup {"done"}]
    /\ thrown = Nothing \/ thrown \in Throws(request.stage, request.op)
    /\ problem = NoProblem \/ problem = dispatchProblem(thrown)
    /\ statement = "none" \/ statement = Stated(request.op, problem)

\* What the contract does not say: that the body of a login may fail the pipe, a
\* sign-out its store, the way to GitHub its state, a creation its slug or guest.
Undeclared ==
    {<<"Auth_login", "fields">>, <<"Auth_logout", "redis">>, <<"Auth_githubAuthorize", "credential">>,
     <<"Links_create", "slugs">>, <<"Links_create", "guest">>}

(***************************************************************************)
(* What reaches the visitor is the reason the request was refused for: a   *)
(* page says "no such link", "not your link", "wrong credentials", names   *)
(* the fields or the monthly limit exactly when that is why, though the    *)
(* reason passes an exception, a filter, a document, the client's error    *)
(* and the page's own mapping, of which each keeps only a part.            *)
(***************************************************************************)
ReasonReachesTheVisitor ==
    statement # "none" =>
        LET op == request.op
            is(stated, cause) == statement = stated <=> thrown.cause = cause
        IN  /\ op = "Auth_login" => is("unauthorized", "password")
            /\ op = "Stats_get" => is("noSuchLink", "missing") /\ is("notLinkOwner", "foreign")
            /\ op \in {"Links_create", "ApiKeys_create"} =>
                  is("fields", "fields") /\ is("monthly-limit-exceeded", "limit")

(***************************************************************************)
(* A refusal keeps the contract: but for throttling, failures and the gaps *)
(* listed, its status is one the operation declares, and its document      *)
(* names fields exactly under the status whose body has them.              *)
(***************************************************************************)
AnswersAreDeclared ==
    problem # NoProblem =>
        /\ \/ problem.status \in Declared(request.op)
           \/ thrown.cause \in {"throttled", "failure"}
           \/ <<request.op, thrown.cause>> \in Undeclared
        /\ problem.errors <=> problem.status \in ValidationError
===============================================================================
