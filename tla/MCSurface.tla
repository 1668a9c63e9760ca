------------------------------- MODULE MCSurface -------------------------------
(***************************************************************************)
(* Small instances of the components at the edge of the system: the        *)
(* sign-in with GitHub, the web client's pages, the statistics of a link   *)
(* and the answers of the API.  They share no state, so one run checks     *)
(* them side by side: "part" is the one whose steps a behaviour takes, and *)
(* the variables of the others hold None throughout.                       *)
(***************************************************************************)
EXTENDS GithubSignIn

CONSTANTS
    work, home,                \* addresses of a GitHub account
    Users, Unknown,            \* WebSession
    Slugs, Urls, Calls,        \* WebLinks
    Keys, Asks,                \* WebKeys, and Asks of WebLanding
    Links,                     \* WebLanding
    Browsers, Days, MaxClicks  \* ClickStatistics

VARIABLES
    part,
    jar, user, probe, place, page, entering, loading, leaving, awaited, carried,
    rows, links, at, correction, retireCandidate, pageError, shortening, call, missed,
    standing, review, issueOutcome, ask, adrift, untold,
    policy, stored, locale, storable, osDark, doc,
    visitor, route, signing, setting, config, invalidated, made,
    moment, section, card, hidden, take, asked,
    created, clicks, inserting, buffer, stats, today, link, reading,
    request, thrown, problem, statement

Session == INSTANCE WebSession
Dashboard == INSTANCE WebLinks
ApiKeysPage == INSTANCE WebKeys
Preferences == INSTANCE WebPreferences
Landing == INSTANCE WebLanding
    WITH user <- visitor, place <- route, leaving <- signing, page <- moment, ask <- asked
Statistics == INSTANCE ClickStatistics
Api == INSTANCE ApiAnswers

\* Absence is no value, bootstrapping is nobody, and a breakdown cuts no browser off.
ASSUME SurfaceAssumption ==
    /\ Unknown \notin Users /\ None \notin Users \cup {Unknown}
    /\ None \notin Dashboard!Correction \cup Dashboard!Request
    /\ None \notin Keys \cup ApiKeysPage!Request
    /\ None \notin Links \cup Landing!Request \cup {"on", "off", "light", "dark"}
    /\ None \notin [Statistics!Cells -> 0 .. MaxClicks]
    /\ IsFiniteSet(Browsers) /\ IsFiniteSet(Days)
    /\ Cardinality(Browsers) <= Statistics!TOP_LIMIT
    /\ 1 \in Days /\ MaxClicks \in Nat

githubVars == vars
sessionVars ==
    <<jar, user, probe, place, page, entering, loading, leaving, awaited, carried>>
dashboardVars ==
    <<rows, links, at, correction, retireCandidate, pageError, shortening, call, missed>>
keysVars == <<standing, review, issueOutcome, ask, adrift, untold>>
preferencesVars == <<policy, stored, locale, storable, osDark, doc>>
landingVars ==
    <<visitor, route, signing, setting, config, invalidated, made,
      moment, section, card, hidden, take, asked>>
statisticsVars == <<created, clicks, inserting, buffer, stats, today, link, reading>>
apiVars == <<request, thrown, problem, statement>>

-------------------------------------------------------------------------------
Entry(address, verified, primary) ==
    [address |-> address, verified |-> verified, primary |-> primary]

\* No address; an unverified primary one alone, and before a verified one; a
\* verified primary one after another verified one.
MCMails == {<<>>, <<Entry(work, FALSE, TRUE)>>,
            <<Entry(work, FALSE, TRUE), Entry(home, TRUE, FALSE)>>,
            <<Entry(work, TRUE, FALSE), Entry(home, TRUE, TRUE)>>}

-------------------------------------------------------------------------------
(* The parts that stand still.                                             *)

GithubOff ==
    states = None /\ minted = None /\ flow = None /\ ended = None /\ passed = None /\ calls = None
SessionOff ==
    /\ jar = None /\ user = None /\ probe = None /\ place = None /\ page = None
    /\ entering = None /\ loading = None /\ leaving = None /\ awaited = None /\ carried = None
DashboardOff ==
    /\ rows = None /\ links = None /\ at = None /\ correction = None /\ retireCandidate = None
    /\ pageError = None /\ shortening = None /\ call = None /\ missed = None
KeysOff ==
    /\ standing = None /\ review = None /\ issueOutcome = None /\ ask = None /\ adrift = None
    /\ untold = None
PreferencesOff ==
    /\ policy = None /\ stored = None /\ locale = None /\ storable = None /\ osDark = None
    /\ doc = None
LandingOff ==
    /\ visitor = None /\ route = None /\ signing = None /\ setting = None /\ config = None
    /\ invalidated = None /\ made = None /\ moment = None /\ section = None /\ card = None
    /\ hidden = None /\ take = None /\ asked = None
StatisticsOff ==
    /\ created = None /\ clicks = None /\ inserting = None /\ buffer = None /\ stats = None
    /\ today = None /\ link = None /\ reading = None
ApiOff == request = None /\ thrown = None /\ problem = None /\ statement = None

SurfaceInit ==
    /\ part \in {"github", "session", "dashboard", "keys", "preferences", "landing",
                 "statistics", "api"}
    /\ IF part = "github" THEN Init ELSE GithubOff
    /\ IF part = "session" THEN Session!Init ELSE SessionOff
    /\ IF part = "dashboard" THEN Dashboard!Init ELSE DashboardOff
    /\ IF part = "keys" THEN ApiKeysPage!Init ELSE KeysOff
    /\ IF part = "preferences" THEN Preferences!Init ELSE PreferencesOff
    /\ IF part = "landing" THEN Landing!Init ELSE LandingOff
    /\ IF part = "statistics" THEN Statistics!Init ELSE StatisticsOff
    /\ IF part = "api" THEN Api!Init ELSE ApiOff

\* A step of part p leaves the others as they are.
Only(p) ==
    /\ part = p
    /\ UNCHANGED part
    /\ IF p # "github" THEN UNCHANGED githubVars ELSE TRUE
    /\ IF p # "session" THEN UNCHANGED sessionVars ELSE TRUE
    /\ IF p # "dashboard" THEN UNCHANGED dashboardVars ELSE TRUE
    /\ IF p # "keys" THEN UNCHANGED keysVars ELSE TRUE
    /\ IF p # "preferences" THEN UNCHANGED preferencesVars ELSE TRUE
    /\ IF p # "landing" THEN UNCHANGED landingVars ELSE TRUE
    /\ IF p # "statistics" THEN UNCHANGED statisticsVars ELSE TRUE
    /\ IF p # "api" THEN UNCHANGED apiVars ELSE TRUE

SurfaceNext ==
    \/ Only("github") /\ Next
    \/ Only("session") /\ Session!Next
    \/ Only("dashboard") /\ Dashboard!Next
    \/ Only("keys") /\ ApiKeysPage!Next
    \/ Only("preferences") /\ Preferences!Next
    \/ Only("landing") /\ Landing!Next
    \/ Only("statistics") /\ Statistics!Next
    \/ Only("api") /\ Api!Next

SurfaceVars ==
    <<part, githubVars, sessionVars, dashboardVars, keysVars, preferencesVars, landingVars,
      statisticsVars, apiVars>>

SurfaceSpec == SurfaceInit /\ [][SurfaceNext]_SurfaceVars

-------------------------------------------------------------------------------
\* Every variable of the part that moves has its type.
SurfaceTypeOK ==
    /\ part \in {"github", "session", "dashboard", "keys", "preferences", "landing",
                 "statistics", "api"}
    /\ part = "github" => TypeOK
    /\ part = "session" => Session!TypeOK
    /\ part = "dashboard" => Dashboard!TypeOK
    /\ part = "keys" => ApiKeysPage!TypeOK
    /\ part = "preferences" => Preferences!TypeOK
    /\ part = "landing" => Landing!TypeOK
    /\ part = "statistics" => Statistics!TypeOK
    /\ part = "api" => Api!TypeOK

\* GithubSignIn: however many callbacks present a state token, one passes.
GithubStateAdmitsOnce == part = "github" => StateAdmitsOnce

\* GithubSignIn: a session is issued for an address GitHub lists as verified.
GithubSessionsAreVerified == part = "github" => SessionsAreVerified

\* WebSession: nobody acts as an account that is not the one shown.
ShownUserIsTheCookies == part = "session" => Session!ShownUserIsTheCookies

\* WebSession: a page that has loaded shows the data of the user shown.
PageIsTheUsersOwn == part = "session" => Session!PageIsTheUsersOwn

\* WebLinks: a settled dashboard shows the links that the server keeps.
SetShowsTheRows == part = "dashboard" => Dashboard!SetShowsTheRows

\* WebKeys: a settled list of keys carries the truth, after lost answers too.
ListCarriesTheTruth == part = "keys" => ApiKeysPage!ListCarriesTheTruth

\* WebPreferences: the surface obeys the mode held, or the head's where that ran.
SurfaceObeysTheMode == part = "preferences" => Preferences!SurfaceObeysTheMode

\* WebLanding: the offer to register stands beside the link it is made for.
OfferStandsBesideTheLink == part = "landing" => Landing!OfferStandsBesideTheLink

\* ClickStatistics: no reading counts a redirect twice or misses a kept one.
ReadingIsBracketed == part = "statistics" => Statistics!ReadingIsBracketed

\* ApiAnswers: a page states the reason of a refusal, and the contract has it.
RefusalsKeepTheirReason ==
    part = "api" => Api!ReasonReachesTheVisitor /\ Api!AnswersAreDeclared
===============================================================================
