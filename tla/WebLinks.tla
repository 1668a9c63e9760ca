------------------------------- MODULE WebLinks -------------------------------
(***************************************************************************)
(* The dashboard of the web client: one owner's links as the server keeps  *)
(* them, the set the page shows, and the requests by which a link is       *)
(* shortened, corrected in its row, or retired through a dialog.           *)
(*                                                                         *)
(* A handler of the page starts a request, and runs on when it is          *)
(* answered: the page may have changed in between, or be left.  The page   *)
(* is taken to be the only client of these links, none expires, and the    *)
(* server is not still at a request that was given up.                     *)
(***************************************************************************)
EXTENDS QueryCache

CONSTANTS
    Slugs,                     \* the slugs the server may give this owner
    Urls,                      \* destinations
    Calls                      \* requests a page may have outstanding

VARIABLES
    rows,                      \* the server: the destination of each slug, or None
    links,                     \* the query ['links']
    at,                        \* "page" or "away"
    correction,                \* the in-row correction: None or [slug, phase, error]
    retireCandidate,           \* the slug of the confirmation dialog, or None
    pageError,                 \* whether a refused retiring is stated over the set
    shortening,                \* whether ShortenCard waits for an answer
    call,                      \* the outstanding requests
    missed                     \* the set was told nothing of some change

vars == <<rows, links, at, correction, retireCandidate, pageError, shortening, call, missed>>

Rows == [Slugs -> Urls \cup {None}]
Correction == [slug : Slugs, phase : {"editing", "saving"}, error : BOOLEAN]
Request ==
    [op : {"shorten", "correct", "retire"}, slug : Slugs \cup {None}, url : Urls \cup {None},
     reply : {"none", "ok", "refused", "lost"}, mine : BOOLEAN]

Init ==
    /\ rows \in Rows
    /\ links = Ask(Cold)
    /\ at = "page"
    /\ correction = None
    /\ retireCandidate = None
    /\ pageError = FALSE
    /\ shortening = FALSE
    /\ call = [c \in Calls |-> None]
    /\ missed = FALSE

-------------------------------------------------------------------------------
(* What the page stands to be acted on.                                    *)

fetchError == links.failed \/ pageError

LinksSet ==
    CASE IsLoading(links)                                 -> "loading"
      [] ~IsLoading(links) /\ fetchError                  -> "refused"
      [] ~IsLoading(links) /\ ~fetchError
           /\ (\E s \in Slugs : links.data[s] # None)     -> "rows"
      [] OTHER                                            -> "empty"

\* A row can be acted on when the set stands and no dialog stands over it.
LinkSetRow(s) ==
    /\ at = "page" /\ retireCandidate = None
    /\ LinksSet = "rows" /\ links.data[s] # None

\* The editor of a row: its field and its two acts are dead while it saves.
DestinationCorrection(s) ==
    /\ LinkSetRow(s)
    /\ correction # None
    /\ correction.slug = s /\ correction.phase = "editing"

ConfirmDialog == at = "page" /\ retireCandidate # None

ShortenForm == at = "page" /\ retireCandidate = None /\ ~shortening

-------------------------------------------------------------------------------
(* The query.                                                              *)

loadUserLinks ==
    /\ links.phase = "asked"
    /\ links' = Read(links, rows)
    /\ missed' = FALSE
    /\ UNCHANGED <<rows, at, correction, retireCandidate, pageError, shortening, call>>

LinksLoaded ==
    /\ Underway(links)
    /\ links' \in {Fail(links)} \cup (IF links.phase = "read" THEN {Answer(links)} ELSE {})
    /\ UNCHANGED <<rows, at, correction, retireCandidate, pageError, shortening, call, missed>>

\* Leaving unmounts the page: its state goes, its requests and the query go on.
Leave ==
    /\ at = "page" /\ retireCandidate = None
    /\ at' = "away"
    /\ correction' = None /\ pageError' = FALSE /\ shortening' = FALSE
    /\ call' = [c \in Calls |-> IF call[c] = None THEN None ELSE [call[c] EXCEPT !.mine = FALSE]]
    /\ UNCHANGED <<rows, links, retireCandidate, missed>>

Return ==
    /\ at = "away"
    /\ at' = "page"
    /\ links' = Mount(links)
    /\ UNCHANGED <<rows, correction, retireCandidate, pageError, shortening, call, missed>>

-------------------------------------------------------------------------------
(* What the owner does.                                                    *)

Send(c, op, s, u) ==
    /\ call[c] = None
    /\ call' = [call EXCEPT ![c] =
                   [op |-> op, slug |-> s, url |-> u, reply |-> "none", mine |-> TRUE]]

Shorten(c, u) ==
    /\ ShortenForm
    /\ shortening' = TRUE
    /\ Send(c, "shorten", None, u)
    /\ UNCHANGED <<rows, links, at, correction, retireCandidate, pageError, missed>>

handleOpenCorrection(s) ==
    /\ LinkSetRow(s)
    /\ correction' = [slug |-> s, phase |-> "editing", error |-> FALSE]
    /\ UNCHANGED <<rows, links, at, retireCandidate, pageError, shortening, call, missed>>

handleCancelCorrection ==
    /\ \E s \in Slugs : DestinationCorrection(s)
    /\ correction' = None
    /\ UNCHANGED <<rows, links, at, retireCandidate, pageError, shortening, call, missed>>

handleConfirmCorrection(c, s, u) ==
    /\ DestinationCorrection(s)
    /\ correction' = [correction EXCEPT !.phase = "saving"]
    /\ Send(c, "correct", s, u)
    /\ UNCHANGED <<rows, links, at, retireCandidate, pageError, shortening, missed>>

handleRetire(s) ==
    /\ LinkSetRow(s)
    /\ retireCandidate' = s
    /\ UNCHANGED <<rows, links, at, correction, pageError, shortening, call, missed>>

handleCancelRetire ==
    /\ ConfirmDialog
    /\ retireCandidate' = None
    /\ UNCHANGED <<rows, links, at, correction, pageError, shortening, call, missed>>

\* The dialog stays, and stays enabled, until the answer.
handleRetireConfirm(c) ==
    /\ ConfirmDialog
    /\ Send(c, "retire", retireCandidate, None)
    /\ UNCHANGED <<rows, links, at, correction, retireCandidate, pageError, shortening, missed>>

-------------------------------------------------------------------------------
(* The server: each request is served, refused, or lost on its way.        *)

Replied(c, how) == call' = [call EXCEPT ![c].reply = how, ![c].url = None]

ServeShorten(c) ==
    /\ call[c].op = "shorten"
    /\ \E s \in Slugs :
          /\ rows[s] = None
          /\ rows' = [rows EXCEPT ![s] = call[c].url]
    /\ Replied(c, "ok")

ServeCorrect(c) ==
    /\ call[c].op = "correct" /\ rows[call[c].slug] # None
    /\ rows' = [rows EXCEPT ![call[c].slug] = call[c].url]
    /\ Replied(c, "ok")

ServeRetire(c) ==
    /\ call[c].op = "retire" /\ rows[call[c].slug] # None
    /\ rows' = [rows EXCEPT ![call[c].slug] = None]
    /\ Replied(c, "ok")

Refuse(c) == Replied(c, "refused") /\ UNCHANGED rows

Serve(c) ==
    /\ call[c] # None
    /\ call[c].reply = "none"
    /\ ServeShorten(c) \/ ServeCorrect(c) \/ ServeRetire(c) \/ Refuse(c)
    /\ UNCHANGED <<links, at, correction, retireCandidate, pageError, shortening, missed>>

\* The answer of a change that was made is lost: the page sees a refusal.
LoseReply(c) ==
    /\ call[c] # None
    /\ call[c].reply = "ok"
    /\ Replied(c, "lost")
    /\ UNCHANGED <<rows, links, at, correction, retireCandidate, pageError, shortening, missed>>

-------------------------------------------------------------------------------
(* The handlers run on when the answer is there.                           *)

correctionReducer(action) ==
    CASE action = "close" -> None
      [] action = "refused" ->
           IF correction = None THEN None
           ELSE [correction EXCEPT !.phase = "editing", !.error = TRUE]

\* after a mutant that lets the request underway go on
InvalidateJoins ==
    /\ links' = IF at = "page" THEN Mount(links) ELSE links
    /\ missed' = (missed \/ (IsLoading(links) /\ links'.phase = "read"))

\* invalidateQueries(['links']): an unmounted page's query is only marked.
InvalidateLinks ==
    /\ links' = IF at = "page" THEN Invalidate(links) ELSE links
    /\ missed' = (missed \/ (links'.phase = "read"))

\* A change made whose answer was lost starts no load.
NoLoad(c) == links' = links /\ missed' = (missed \/ call[c].reply = "lost")

Shortened(c) ==
    /\ shortening' = (shortening /\ ~call[c].mine)
    /\ IF call[c].reply = "ok" THEN InvalidateLinks ELSE NoLoad(c)
    /\ UNCHANGED <<correction, retireCandidate, pageError>>

Corrected(c) ==
    /\ correction' =
          CASE ~call[c].mine            -> correction
            [] call[c].mine /\ call[c].reply = "ok" -> correctionReducer("close")
            [] OTHER                    -> correctionReducer("refused")
    /\ IF call[c].reply = "ok" THEN InvalidateLinks ELSE NoLoad(c)
    /\ UNCHANGED <<shortening, retireCandidate, pageError>>

Retired(c) ==
    /\ retireCandidate' = IF call[c].mine THEN None ELSE retireCandidate
    /\ pageError' = (pageError \/ (call[c].mine /\ call[c].reply # "ok"))
    /\ IF call[c].reply = "ok" THEN InvalidateLinks ELSE NoLoad(c)
    /\ UNCHANGED <<shortening, correction>>

Settle(c) ==
    /\ call[c] # None
    /\ call[c].reply # "none"
    /\ \/ call[c].op = "shorten" /\ Shortened(c)
       \/ call[c].op = "correct" /\ Corrected(c)
       \/ call[c].op = "retire" /\ Retired(c)
    /\ call' = [call EXCEPT ![c] = None]
    /\ UNCHANGED <<rows, at>>

Next ==
    \/ loadUserLinks \/ LinksLoaded \/ Leave \/ Return
    \/ handleCancelCorrection \/ handleCancelRetire
    \/ \E s \in Slugs : handleOpenCorrection(s) \/ handleRetire(s)
    \/ \E c \in Calls :
          \/ handleRetireConfirm(c) \/ Serve(c) \/ LoseReply(c) \/ Settle(c)
          \/ \E u \in Urls : Shorten(c, u) \/ \E s \in Slugs : handleConfirmCorrection(c, s, u)

Spec == Init /\ [][Next]_vars

-------------------------------------------------------------------------------
(* Every variable has its type. *)
TypeOK ==
    /\ rows \in Rows
    /\ links \in Queries(Rows)
    /\ at \in {"page", "away"}
    /\ correction \in Correction \cup {None}
    /\ retireCandidate \in Slugs \cup {None}
    /\ pageError \in BOOLEAN
    /\ shortening \in BOOLEAN
    /\ call \in [Calls -> Request \cup {None}]
    /\ missed \in BOOLEAN
    /\ at = "page" => LinksSet \in {"loading", "refused", "rows", "empty"}

(***************************************************************************)
(* When nothing is outstanding, the set the dashboard shows is the set the *)
(* server keeps, whatever loads and changes crossed each other: each       *)
(* answered change restarts the load.  The exceptions are the ones         *)
(* "missed" records: an answer that was lost, and a change answered while  *)
(* the first load, or a load of the page that was left, had been read.     *)
(***************************************************************************)
SetShowsTheRows ==
    /\ \A c \in Calls : call[c] = None
    /\ at = "page" /\ ~Underway(links) /\ ~links.failed /\ ~missed
    => links.data = rows

(***************************************************************************)
(* DashboardPage.tsx says of a correction: a refused destination is stated *)
(* in place, never silently lost.  The answer of a refused correction      *)
(* leaves its row's editor open with the refusal, while the page stands.   *)
(***************************************************************************)
RefusalsAreStated ==
    [][\A c \in Calls :
          /\ call[c] # None
          /\ call'[c] = None
          /\ call[c].op = "correct" /\ call[c].reply = "refused" /\ call[c].mine
          => correction' = [slug |-> call[c].slug, phase |-> "editing", error |-> TRUE]]_vars
===============================================================================
