------------------------------ MODULE WebSession ------------------------------
(***************************************************************************)
(* The session as one tab of the web client sees it: the access cookie the *)
(* browser holds, the user the client shows, the routes that user opens,   *)
(* and the query of the page that stands there, whose data belong to the   *)
(* account its request was sent as.  The four pages behind ProtectedRoute  *)
(* are one page here, and no other tab touches the cookie.                 *)
(*                                                                         *)
(* The cookie is set or cleared by the answer of a request, and sent with  *)
(* a request as it is at that moment.  The client never refreshes it: once *)
(* it has expired the pages are refused.                                   *)
(***************************************************************************)
EXTENDS QueryCache

CONSTANTS Users, Unknown       \* Unknown: bootstrapping, /me was not answered yet

VARIABLES
    jar,                       \* whose access cookie the browser holds, or None
    user,                      \* the query ['user']: an account, None or Unknown
    probe,                     \* the GET /me underway: [on, as]
    place,                     \* "guest", "page" or "public"
    page,                      \* the query of the page, data and request by account
    entering,                  \* sign-ins and registrations underway
    loading,                   \* whether the form's submit is dead
    leaving,                   \* a sign-out, one or several, is not answered yet
    awaited,                   \* what each of the answered ones has still to wait for
    carried                    \* the page stands on another account's request

vars == <<jar, user, probe, place, page, entering, loading, leaving, awaited, carried>>

Places == {"guest", "page", "public"}
Forms == [op : {"login", "register"}, user : Users]

NoProbe == [on |-> FALSE, as |-> None]
ProbeAs(u) == [on |-> TRUE, as |-> u]

\* A document that was just loaded: everything but the cookie starts anew.
Loaded(j, pl) ==
    /\ jar = j /\ user = Unknown /\ probe = ProbeAs(j) /\ place = pl
    /\ page = Cold /\ entering = {} /\ loading = FALSE /\ leaving = FALSE /\ awaited = {}
    /\ carried = FALSE

Init == \E j \in Users \cup {None}, pl \in Places : Loaded(j, pl)

-------------------------------------------------------------------------------
(* Routes.                                                                 *)

\* after a mutant that lets the guest pages stand while bootstrapping
GuestRouteStands(pl, u) == pl = "guest" /\ u \in {None, Unknown}

\* GuestRoute: a spinner while bootstrapping, and a signed-in visitor is sent on.
GuestRoute(pl, u) == pl = "guest" /\ u = None

\* ProtectedRoute: a visitor who is not signed in is sent to /login.
ProtectedRoute(pl, u) == pl = "page" /\ u \in Users

Routed(pl, u) ==
    CASE pl = "guest" /\ u \in Users -> "page"
      [] pl = "page" /\ u = None     -> "guest"
      [] OTHER                       -> pl

\* after a mutant that keeps a page's data for as long as it is cached
SentKeeping(q, j) == IF q.data = None /\ ~Underway(q) THEN Read(Ask(q), j) ELSE q

\* A page that is mounted asks, joining the request that is underway.
SentAtMount(q, j) == IF Underway(q) THEN q ELSE Read(Ask(q), j)

\* The client shows user u, having been sent to pl, with the cookie of j.
\* A page that stands through a change of user asks nothing.
Show(pl, u, j) ==
    LET mounts == ProtectedRoute(place', u) /\ ~ProtectedRoute(place, user)
        joins  == Underway(page) /\ page.got \notin {u, None}
    IN  /\ user' = u
        /\ place' = Routed(pl, u)
        /\ page' = IF mounts THEN SentAtMount(page, j) ELSE page
        /\ carried' = CASE mounts -> joins \/ (carried /\ Underway(page))
                        [] ~mounts /\ {u, user} \subseteq Users /\ u # user -> TRUE
                        [] OTHER -> carried

\* AppShell's single branch: what the bar offers a visitor.
NavActions ==
    IF user \in Users THEN {"dashboard", "apiKeys", "usage", "logout"} ELSE {"login", "register"}

Navigate(pl) ==
    /\ Show(pl, user, jar)
    /\ loading' = FALSE
    /\ UNCHANGED <<jar, probe, entering, leaving, awaited>>

-------------------------------------------------------------------------------
(* /me and the document.                                                   *)

\* A refetch ends, for all that wait for it.
Over(what) == {w \ {what} : w \in awaited}

\* fetchMe: the account the request was sent as, and null on any failure.
fetchMe ==
    /\ probe.on
    /\ probe' = NoProbe
    /\ awaited' = Over("user")
    /\ Show(place, probe.as, jar) \/ Show(place, None, jar)
    /\ loading' = (loading /\ GuestRoute(place, user'))
    /\ UNCHANGED <<jar, entering, leaving>>

\* A reload, or the way to GitHub and back, possibly with a new session.
Document(j, pl) ==
    /\ jar' = j /\ user' = Unknown /\ probe' = ProbeAs(j) /\ place' = pl
    /\ page' = Cold /\ entering' = {} /\ loading' = FALSE /\ leaving' = FALSE /\ awaited' = {}
    /\ carried' = FALSE

Reload == \E pl \in Places : Document(jar, pl)

loginWithGithub ==
    /\ GuestRoute(place, user)
    /\ \/ \E u \in Users : Document(u, "page")
       \/ Document(jar, "guest")

Expire ==
    /\ jar # None
    /\ jar' = None
    /\ UNCHANGED <<user, probe, place, page, entering, loading, leaving, awaited, carried>>

-------------------------------------------------------------------------------
(* Signing in and registering.                                             *)

handleSubmit(f) ==
    /\ GuestRoute(place, user) /\ ~loading
    /\ f \notin entering
    /\ loading' = TRUE
    /\ entering' = entering \cup {f}
    /\ UNCHANGED <<jar, user, probe, place, page, leaving, awaited, carried>>

\* The answer sets the cookie, the user is shown, and the form navigates.
LoggedIn(f) ==
    /\ f \in entering /\ f.op = "login"
    /\ entering' = entering \ {f}
    /\ jar' = f.user
    /\ Show("page", f.user, f.user)
    /\ loading' = FALSE
    /\ UNCHANGED <<probe, leaving, awaited>>

\* A registration signs nobody in: the form navigates, and is sent back.
Registered(f) ==
    /\ f \in entering /\ f.op = "register"
    /\ entering' = entering \ {f}
    /\ Show("page", user, jar)
    /\ loading' = FALSE
    /\ UNCHANGED <<jar, probe, leaving, awaited>>

SubmitRefused(f) ==
    /\ f \in entering
    /\ entering' = entering \ {f}
    /\ loading' = FALSE
    /\ UNCHANGED <<jar, user, probe, place, page, leaving, awaited, carried>>

-------------------------------------------------------------------------------
(* Signing out.                                                            *)

\* AppShell leaves the button alive: a sign-out may follow another that is underway.
logout ==
    /\ "logout" \in NavActions
    /\ leaving' = TRUE
    /\ UNCHANGED <<jar, user, probe, place, page, entering, loading, awaited, carried>>

\* The POST fails: the rejection is nobody's, and the user stays.
LogoutFails ==
    /\ leaving /\ leaving' \in BOOLEAN
    /\ UNCHANGED <<jar, user, probe, place, page, entering, loading, awaited, carried>>

\* The cookie is cleared; /me is asked again, and the page if it stands. A request
\* that is thereby restarted is awaited by those that waited for it before.
LoggedOut ==
    /\ leaving /\ leaving' \in BOOLEAN
    /\ jar' = None
    /\ probe' = ProbeAs(None)
    /\ IF ProtectedRoute(place, user)
       THEN /\ page' = IF IsLoading(page) THEN page ELSE Read(Ask(page), None)
            /\ awaited' = awaited \cup {{"user", "page"}}
       ELSE awaited' = awaited \cup {{"user"}} /\ UNCHANGED page
    /\ UNCHANGED <<user, place, entering, loading, carried>>

\* The refetches have ended: nobody is shown, and the client is at /login.
LogoutEnds ==
    /\ {} \in awaited
    /\ awaited' = awaited \ {{}}
    /\ Show("guest", None, jar)
    /\ loading' = (loading /\ GuestRoute(place, user))
    /\ UNCHANGED <<jar, probe, entering, leaving>>

-------------------------------------------------------------------------------
(* The query of the page.                                                  *)

PageEnds(q) ==
    /\ page' = q
    /\ awaited' = IF Underway(q) THEN awaited ELSE Over("page")
    /\ UNCHANGED <<jar, user, probe, place, entering, loading, leaving, carried>>

PageAnswered == page.phase = "read" /\ page.got # None /\ PageEnds(Answer(page))
PageFails == page.phase = "read" /\ PageEnds(Fail(page))
PageRetried == page.phase = "asked" /\ PageEnds(Read(page, jar))

\* The data of a page that does not stand are collected after a while.
PageForgotten ==
    /\ ~ProtectedRoute(place, user) /\ ~Underway(page) /\ page # Cold
    /\ PageEnds(Cold)

Next ==
    \/ \E pl \in Places : Navigate(pl)
    \/ fetchMe \/ Reload \/ loginWithGithub \/ Expire
    \/ \E f \in Forms : handleSubmit(f) \/ LoggedIn(f) \/ Registered(f) \/ SubmitRefused(f)
    \/ logout \/ LogoutFails \/ LoggedOut \/ LogoutEnds
    \/ PageAnswered \/ PageFails \/ PageRetried \/ PageForgotten

Spec == Init /\ [][Next]_vars

-------------------------------------------------------------------------------
(* Every variable has its type. *)
TypeOK ==
    /\ jar \in Users \cup {None}
    /\ user \in Users \cup {None, Unknown}
    /\ probe \in [on : BOOLEAN, as : Users \cup {None}]
    /\ place \in Places
    /\ page \in Queries(Users)
    /\ entering \subseteq Forms
    /\ loading \in BOOLEAN
    /\ leaving \in BOOLEAN
    /\ awaited \subseteq SUBSET {"user", "page"}
    /\ carried \in BOOLEAN

(***************************************************************************)
(* The user the client shows is the one its requests are made as, unless   *)
(* the cookie has gone: whatever answers of /me, of a sign-in and of a     *)
(* sign-out cross each other, nobody acts as an account that is not shown. *)
(***************************************************************************)
ShownUserIsTheCookies == user \in Users /\ jar # None => user = jar

(***************************************************************************)
(* A page that has loaded shows the data of the user who is shown, though  *)
(* the cache keeps what the user before saw.  The exceptions are an        *)
(* answered sign-out whose refetches are still awaited, and the ones       *)
(* "carried" records: a page that joined a request sent as the user before *)
(* it, and two sign-ins answered while one page stands.                    *)
(***************************************************************************)
PageIsTheUsersOwn ==
    /\ ProtectedRoute(place, user) /\ awaited = {}
    /\ ~Underway(page) /\ ~page.failed
    => page.data = user \/ carried
===============================================================================
