-------------------------------- MODULE WebKeys -------------------------------
(***************************************************************************)
(* The API-keys page of the web client: the owner's keys as the server     *)
(* keeps them, the list under review, and the requests that issue a key    *)
(* and revoke one.  The page is taken to be the only client of the keys.   *)
(***************************************************************************)
EXTENDS QueryCache

CONSTANTS
    Keys,                      \* keys the server may issue
    Asks                       \* requests the page may have outstanding

VARIABLES
    standing,                  \* the server: "none", "live" or "revoked"
    review,                    \* the query ['api-keys']
    issueOutcome,              \* the issuing act's aftermath: [kind, key]
    ask,                       \* the outstanding requests
    adrift,                    \* those given up, one or several of a kind, and not served yet
    untold                     \* the list was told nothing of some change

vars == <<standing, review, issueOutcome, ask, adrift, untold>>

Standings == [Keys -> {"none", "live", "revoked"}]
Adrift == [op : {"issue", "revoke"}, key : Keys \cup {None}]
Outcome(kind, k) == [kind |-> kind, key |-> k]
Request ==
    [op : {"issue", "revoke"}, key : Keys \cup {None}, reply : {"none", "ok", "refused", "lost"}]

Init ==
    /\ standing \in Standings
    /\ review = Ask(Cold)
    /\ issueOutcome = Outcome("idle", None)
    /\ ask = [c \in Asks |-> None]
    /\ adrift = {}
    /\ untold = FALSE

-------------------------------------------------------------------------------
(* What the page offers.                                                   *)

ReviewZone ==
    CASE IsLoading(review)                                       -> "loading"
      [] ~IsLoading(review) /\ review.failed                     -> "failure"
      [] ~IsLoading(review) /\ ~review.failed
           /\ (\E k \in Keys : review.data[k] # "none")          -> "rows"
      [] OTHER                                                   -> "empty"

\* A row's retire reach is dead once the list shows the key revoked.
KeyReviewRow(k) == ReviewZone = "rows" /\ review.data[k] = "live"

\* The issuing act is offered unless it is under way.
IssueZone == issueOutcome.kind # "underway"

\* The one showing of a secret lasts until the next issuing act begins.
SecretShowing == issueOutcome.kind = "issued"

-------------------------------------------------------------------------------
loadApiKeys ==
    /\ review.phase = "asked"
    /\ review' = Read(review, standing)
    /\ untold' = FALSE
    /\ UNCHANGED <<standing, issueOutcome, ask, adrift>>

KeysLoaded ==
    /\ Underway(review)
    /\ review' \in {Fail(review)} \cup (IF review.phase = "read" THEN {Answer(review)} ELSE {})
    /\ UNCHANGED <<standing, issueOutcome, ask, adrift, untold>>

Send(c, op, k) ==
    /\ ask[c] = None
    /\ ask' = [ask EXCEPT ![c] = [op |-> op, key |-> k, reply |-> "none"]]

handleIssue(c) ==
    /\ IssueZone
    /\ issueOutcome' = Outcome("underway", None)
    /\ Send(c, "issue", None)
    /\ UNCHANGED <<standing, review, adrift, untold>>

handleRevoke(c, k) ==
    /\ KeyReviewRow(k)
    /\ Send(c, "revoke", k)
    /\ UNCHANGED <<standing, review, issueOutcome, adrift, untold>>

-------------------------------------------------------------------------------
(* The server: a key is issued or revoked, or the request refused.         *)

Applied(op, k) ==
    \/ op = "issue" /\ standing[k] = "none" /\ standing' = [standing EXCEPT ![k] = "live"]
    \/ op = "revoke" /\ standing[k] # "none" /\ standing' = [standing EXCEPT ![k] = "revoked"]

Serve(c) ==
    /\ ask[c] # None /\ ask[c].reply = "none"
    /\ \/ \E k \in Keys :
             /\ ask[c].key \in {None, k} /\ Applied(ask[c].op, k)
             /\ ask' = [ask EXCEPT ![c].key = k, ![c].reply = "ok"]
       \/ ask' = [ask EXCEPT ![c].reply = "refused"] /\ UNCHANGED standing
    /\ UNCHANGED <<review, issueOutcome, adrift, untold>>

LoseReply(c) ==
    /\ ask[c] # None /\ ask[c].reply = "ok"
    /\ ask' = [ask EXCEPT ![c].reply = "lost"]
    /\ UNCHANGED <<standing, review, issueOutcome, adrift, untold>>

\* A proxy, or the network, gives the request up while the server is still at it.
GiveUp(c) ==
    /\ ask[c] # None /\ ask[c].reply = "none"
    /\ adrift' = adrift \cup {[op |-> ask[c].op, key |-> ask[c].key]}
    /\ ask' = [ask EXCEPT ![c].reply = "refused"]
    /\ UNCHANGED <<standing, review, issueOutcome, untold>>

ServeLate(a) ==
    /\ adrift' \in {adrift, adrift \ {a}}
    /\ \/ \E k \in Keys : a.key \in {None, k} /\ Applied(a.op, k)
       \/ UNCHANGED standing
    /\ untold' = (untold \/ standing' # standing)
    /\ UNCHANGED <<review, issueOutcome, ask>>

-------------------------------------------------------------------------------
(* The handlers run on when the answer is there.                           *)

\* A first load that was read already is joined, not restarted.
InvalidateKeys ==
    /\ review' = Invalidate(review)
    /\ untold' = (untold \/ review'.phase = "read")

Issued(c) ==
    IF ask[c].reply = "ok"
    THEN issueOutcome' = Outcome("issued", ask[c].key) /\ InvalidateKeys
    ELSE /\ issueOutcome' = Outcome("refused", None)
         /\ untold' = (untold \/ ask[c].reply = "lost")
         /\ UNCHANGED review

\* after a mutant that lets a failed revocation load nothing
RevokedIfOk(c) ==
    /\ IF ask[c].reply = "ok" THEN InvalidateKeys ELSE UNCHANGED <<review, untold>>
    /\ UNCHANGED issueOutcome

\* Whatever the answer, the refreshed list carries the truth.
Revoked(c) == InvalidateKeys /\ UNCHANGED issueOutcome

Settle(c) ==
    /\ ask[c] # None /\ ask[c].reply # "none"
    /\ \/ ask[c].op = "issue" /\ Issued(c)
       \/ ask[c].op = "revoke" /\ Revoked(c)
    /\ ask' = [ask EXCEPT ![c] = None]
    /\ UNCHANGED <<standing, adrift>>

Next ==
    \/ loadApiKeys \/ KeysLoaded
    \/ \E c \in Asks :
          \/ handleIssue(c) \/ Serve(c) \/ LoseReply(c) \/ GiveUp(c) \/ Settle(c)
          \/ \E k \in Keys : handleRevoke(c, k)
    \/ \E a \in adrift : ServeLate(a)

Spec == Init /\ [][Next]_vars

-------------------------------------------------------------------------------
(* Every variable has its type. *)
TypeOK ==
    /\ standing \in Standings
    /\ review \in Queries(Standings)
    /\ issueOutcome \in [kind : {"idle", "underway", "refused", "issued"}, key : Keys \cup {None}]
    /\ SecretShowing <=> issueOutcome.key # None
    /\ ask \in [Asks -> Request \cup {None}]
    /\ adrift \subseteq Adrift
    /\ untold \in BOOLEAN

(***************************************************************************)
(* ApiKeysPage.tsx swallows the failure of a revocation because "the       *)
(* refreshed list carries the truth": when nothing is outstanding, the     *)
(* list under review is the server's, also after a revocation whose answer *)
(* was lost.  The exceptions, until the list is read again, are an issue   *)
(* whose answer was lost, a change answered while the first load had been  *)
(* read, and one the server makes after the request was given up.          *)
(***************************************************************************)
ListCarriesTheTruth ==
    /\ \A c \in Asks : ask[c] = None
    /\ ~Underway(review) /\ ~review.failed /\ ~untold
    => review.data = standing
===============================================================================
