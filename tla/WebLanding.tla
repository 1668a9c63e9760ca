------------------------------- MODULE WebLanding ------------------------------
(***************************************************************************)
(* The landing page of the web client: the runtime flag that offers a      *)
(* guest the shorten form, the form, and the moment that takes the page    *)
(* over once the guest's link exists, with its offer to register.          *)
(*                                                                         *)
(* Three components remember the moment, each in a state of its own: the   *)
(* page, the section below it, and the card below that. A sign-out marks   *)
(* the flag as every other query, so the next visit asks for it anew, and  *)
(* an answer may take the section away from a moment that stands.          *)
(***************************************************************************)
EXTENDS QueryCache

CONSTANTS
    Links,                     \* the links the server may make
    Asks                       \* requests the tab may have outstanding

VARIABLES
    user,                      \* "unknown" while bootstrapping, "nobody" or "somebody"
    place,                     \* "landing" or "elsewhere"
    setting,                   \* GUEST_SHORTEN_ENABLED of the pods: "on" or "off"
    config,                    \* the query ['guest-config']
    invalidated,               \* that query was invalidated since it was answered
    leaving,                   \* sign-outs underway: {"sent", "ending"} at most
    made,                      \* links the server has made
    page,                      \* LandingPage: whether the moment stands
    section,                   \* GuestShortenSection: [link, declined]
    card,                      \* ShortenCard: [link, loading, error]
    hidden,                    \* history: the flag took the section from the page
    take,                      \* LandingTakeControl: [outcome, writing]
    ask                        \* the outstanding requests

session == <<user, place, leaving>>
flag == <<setting, config, invalidated>>
view == <<page, section, card, hidden, take, ask>>
vars == <<session, flag, made, view>>

\* Who sent it: the card that stands, one the flag has taken away from the page that
\* stands, or a page that is gone.
Request == [link : Links \cup {None}, served : BOOLEAN, from : {"card", "page", "gone"}]
NoMoment == [link |-> None, declined |-> FALSE]
Blank == [link |-> None, loading |-> FALSE, error |-> FALSE]
NoTake == [outcome |-> "idle", writing |-> FALSE]

Init ==
    /\ user = "unknown"
    /\ place \in {"landing", "elsewhere"}
    /\ setting \in {"on", "off"}
    /\ config = Cold /\ invalidated = FALSE
    /\ leaving = {}
    /\ made = {}
    /\ page = FALSE /\ section = NoMoment /\ card = Blank /\ hidden = FALSE /\ take = NoTake
    /\ ask = [a \in Asks |-> None]

-------------------------------------------------------------------------------
(* What stands.                                                            *)

\* GuestRoute sends a user on, and shows nothing while bootstrapping.
LandingPage == place = "landing" /\ user = "nobody"

\* "loading" and "disabled" both hide the form.
useGuestShortenEnabled(q) ==
    CASE IsLoading(q)                        -> "loading"
      [] ~IsLoading(q) /\ q.data = "on"      -> "enabled"
      [] OTHER                               -> "disabled"

GuestShortenSection == LandingPage /\ useGuestShortenEnabled(config) = "enabled"

FirstSightStatement == LandingPage /\ ~page
ClaimsBand == LandingPage /\ ~page
LandingFooter == LandingPage /\ ~page

RegisterOfferBand == GuestShortenSection /\ section.link # None /\ ~section.declined

\* The bare card shows the link in the place of its entering row.
LandingResultMoment == GuestShortenSection /\ card.link # None
ShortenForm == GuestShortenSection /\ card.link = None

-------------------------------------------------------------------------------
(* The session and the routes.                                             *)

\* The page goes, and what its components remember; its requests go on.
Unmounted ==
    /\ page' = FALSE /\ section' = NoMoment /\ card' = Blank /\ hidden' = FALSE
    /\ take' = NoTake
    /\ ask' = [a \in Asks |-> IF ask[a] = None THEN None ELSE [ask[a] EXCEPT !.from = "gone"]]

\* The page stands: the flag is asked for unless its answer is there and was not
\* invalidated; the answer of before is shown meanwhile.
Mounted ==
    /\ config' = IF config.data = None \/ invalidated THEN Mount(config) ELSE config
    /\ UNCHANGED view

Go(who, where) ==
    LET to == IF where = "landing" /\ who = "somebody" THEN "elsewhere" ELSE where
    IN  /\ user' = who
        /\ place' = to
        /\ CASE LandingPage /\ to # "landing"                             ->
                  Unmounted /\ UNCHANGED config
             [] ~LandingPage /\ to = "landing" /\ who = "nobody"          -> Mounted
             [] OTHER -> UNCHANGED <<config, view>>
        /\ UNCHANGED <<setting, invalidated, made>>

Bootstrapped ==
    user = "unknown" /\ (\E who \in {"nobody", "somebody"} : Go(who, place)) /\ UNCHANGED leaving
SignIn == user = "nobody" /\ Go("somebody", place) /\ UNCHANGED leaving
Navigate ==
    (\E where \in {"landing", "elsewhere"} : where # place /\ Go(user, where)) /\ UNCHANGED leaving

\* The button stays alive, so another sign-out may start before the first has ended.
logout ==
    /\ user = "somebody"
    /\ leaving' = leaving \cup {"sent"}
    /\ UNCHANGED <<user, place, flag, made, view>>

LogoutFails ==
    /\ "sent" \in leaving
    /\ leaving' = leaving \ {"sent"}
    /\ UNCHANGED <<user, place, flag, made, view>>

\* The answer of a sign-out invalidates every query, and refetches those in use.
LoggedOut ==
    /\ "sent" \in leaving
    /\ leaving' \in {l \cup {"ending"} : l \in {leaving, leaving \ {"sent"}}}
    /\ invalidated' = TRUE
    /\ config' = IF LandingPage THEN Invalidate(config) ELSE config
    /\ UNCHANGED <<user, place, setting, made, view>>

\* The refetches have ended: the user is nobody, and sent to /login.
SignOut ==
    /\ "ending" \in leaving
    /\ Go("nobody", "elsewhere")
    /\ leaving' \in {leaving, leaving \ {"ending"}}

-------------------------------------------------------------------------------
(* The flag.                                                               *)

\* The section renders nothing, though its own state stays; its card is gone.
Hidden ==
    /\ hidden' = TRUE /\ card' = Blank /\ take' = NoTake
    /\ ask' = [a \in Asks |-> IF ask[a] # None /\ ask[a].from = "card"
                             THEN [ask[a] EXCEPT !.from = "page"] ELSE ask[a]]
    /\ UNCHANGED <<page, section>>

\* /config.js is served as the pod's setting is.
fetchGuestFlag ==
    /\ config.phase = "asked"
    /\ config' = Read(config, setting)
    /\ UNCHANGED <<session, setting, invalidated, made, view>>

\* A response that is not ok, or is not understood, hides the form.
parseConfigBody ==
    /\ config.phase = "read"
    /\ config' \in {Answer(config), Answer([config EXCEPT !.got = "off"])}
    /\ invalidated' = FALSE
    /\ IF GuestShortenSection /\ useGuestShortenEnabled(config') # "enabled" THEN Hidden
       ELSE UNCHANGED view
    /\ UNCHANGED <<session, setting, made>>

FlagFails ==
    /\ Underway(config)
    /\ config' = Fail(config)
    /\ UNCHANGED <<session, setting, invalidated, made, view>>

\* The pods are rolled with another setting; no tab is told.
Configure ==
    /\ setting' \in {"on", "off"} \ {setting}
    /\ UNCHANGED <<session, config, invalidated, made, view>>

-------------------------------------------------------------------------------
(* The shorten act.                                                        *)

handleSubmit(a) ==
    /\ ShortenForm /\ ~card.loading
    /\ ask[a] = None
    /\ card' = [card EXCEPT !.loading = TRUE]
    /\ ask' = [ask EXCEPT ![a] = [link |-> None, served |-> FALSE, from |-> "card"]]
    /\ UNCHANGED <<session, flag, made, page, section, hidden, take>>

\* The server makes the link or refuses; the answer may be lost on its way.
attemptShorten(a) ==
    /\ ask[a] # None /\ ~ask[a].served
    /\ \/ \E l \in Links \ made :
             /\ made' = made \cup {l}
             /\ \E got \in {l, None} : ask' = [ask EXCEPT ![a].link = got, ![a].served = TRUE]
       \/ UNCHANGED made /\ ask' = [ask EXCEPT ![a].served = TRUE]
    /\ UNCHANGED <<session, flag, page, section, card, hidden, take>>

\* after a mutant that mounts another card in the moment's composition
Remounted(c) == Blank

\* Both compositions of the section hold the card at one place, so it stays.
Reconciled(c) == c

\* The card states the link, the section takes it, the page stands down. A card that the
\* flag has taken away states nothing, but the section below the page still takes it.
handleShortened(a) ==
    /\ section' = [section EXCEPT !.link = ask[a].link]
    /\ page' = TRUE
    /\ card' = IF ask[a].from = "card"
               THEN Reconciled([link |-> ask[a].link, loading |-> FALSE, error |-> FALSE])
               ELSE card

Settle(a) ==
    /\ ask[a] # None /\ ask[a].served
    /\ ask' = [ask EXCEPT ![a] = None]
    /\ IF ask[a].from # "gone" /\ ask[a].link # None
       THEN handleShortened(a)
       ELSE /\ card' = IF ask[a].from = "card" THEN [card EXCEPT !.loading = FALSE, !.error = TRUE]
                                               ELSE card
            /\ UNCHANGED <<page, section>>
    /\ UNCHANGED <<session, flag, made, hidden, take>>

handleDecline ==
    /\ RegisterOfferBand
    /\ section' = [section EXCEPT !.declined = TRUE]
    /\ UNCHANGED <<session, flag, made, page, card, hidden, take, ask>>

\* One activation writes to the clipboard, or fails for want of one.
copy ==
    /\ LandingResultMoment
    /\ take' \in {[take EXCEPT !.writing = TRUE], [take EXCEPT !.outcome = "failed"]}
    /\ UNCHANGED <<session, flag, made, page, section, card, hidden, ask>>

useCopyToClipboard ==
    /\ take.writing
    /\ take' \in [outcome : {"landed", "failed"}, writing : {FALSE}]
    /\ UNCHANGED <<session, flag, made, page, section, card, hidden, ask>>

Next ==
    \/ Bootstrapped \/ SignIn \/ Navigate
    \/ logout \/ LogoutFails \/ LoggedOut \/ SignOut
    \/ fetchGuestFlag \/ parseConfigBody \/ FlagFails \/ Configure
    \/ \E a \in Asks : handleSubmit(a) \/ attemptShorten(a) \/ Settle(a)
    \/ handleDecline \/ copy \/ useCopyToClipboard

Spec == Init /\ [][Next]_vars

-------------------------------------------------------------------------------
(* Every variable has its type. *)
TypeOK ==
    /\ user \in {"unknown", "nobody", "somebody"}
    /\ place \in {"landing", "elsewhere"}
    /\ setting \in {"on", "off"}
    /\ config \in Queries({"on", "off"}) /\ invalidated \in BOOLEAN
    /\ leaving \subseteq {"sent", "ending"}
    /\ made \subseteq Links
    /\ page \in BOOLEAN
    /\ section \in [link : Links \cup {None}, declined : BOOLEAN]
    /\ card \in [link : Links \cup {None}, loading : BOOLEAN, error : BOOLEAN]
    /\ hidden \in BOOLEAN
    /\ take \in [outcome : {"idle", "landed", "failed"}, writing : BOOLEAN]
    /\ ask \in [Asks -> Request \cup {None}]

(***************************************************************************)
(* "The ask always stands after the value" (LandingPage.tsx): wherever the *)
(* register offer stands, or the page has cleared its first sight, there   *)
(* is a link that the guest has made, and that link stands with its take.  *)
(* The exception is the one "hidden" records: the flag was answered with   *)
(* off while the page stood, so the page keeps the moment without its      *)
(* card. The states of page, section and card must agree for that.         *)
(***************************************************************************)
OfferStandsBesideTheLink ==
    RegisterOfferBand \/ (LandingPage /\ ~FirstSightStatement)
    => /\ section.link \in made
       /\ hidden \/ (LandingResultMoment /\ card.link = section.link)
===============================================================================
