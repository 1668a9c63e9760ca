---------------------------- MODULE MCAdmission -----------------------------
(***************************************************************************)
(* Small instances of Admission and of GuestIdentity, which looks up whom  *)
(* Admission lets in as the guest. They share no state, so one run checks  *)
(* them side by side: "part" is the one whose steps a behaviour takes, and *)
(* the other rests where it began.                                         *)
(***************************************************************************)
EXTENDS Admission, TLC

CONSTANTS
    u1, u2,            \* users
    GuestIds, Lookups  \* GuestIdentity

VARIABLES part, guestRow, cache, lookup, held, told

Identity == INSTANCE GuestIdentity

\* Absence is no value.
ASSUME IdentityAssumption ==
    None \notin GuestIds \cup Identity!Lookup \cup Identity!Answer

admissionVars == vars
identityVars == <<guestRow, cache, lookup, held, told>>

AdmissionInit ==
    /\ part \in {"admission", "identity"}
    /\ Init /\ Identity!Init

AdmissionNext ==
    \/ part = "admission" /\ Next /\ UNCHANGED <<part, identityVars>>
    \/ part = "identity" /\ Identity!Next /\ UNCHANGED <<part, admissionVars>>

AdmissionSpec == AdmissionInit /\ [][AdmissionNext]_<<part, admissionVars, identityVars>>

-----------------------------------------------------------------------------
\* Budgets in the order of throttler-policy.ts: credential entry and guest
\* creation below rotation, the floors and the data budget.
MCBudget == [r \in Routes |-> [n \in Names |->
                IF r \in {"session", "mcp"}
                   \/ (r \in {"create", "login"} /\ n \in {"default", "auth"})
                THEN 1 ELSE 2]]

Plain(route) == [route |-> route, bearer |-> None, cookie |-> None, apiKey |-> None,
                 origin |-> None, referer |-> None]
\* Creations: of the page, of a script, with an empty or forged key, with a stale
\* cookie next to a token or a key, and with two users' credentials at once.
MCCreations == {[Plain("create") EXCEPT !.origin = "own"],
                [Plain("create") EXCEPT !.origin = "other", !.referer = "own"],
                [Plain("create") EXCEPT !.referer = "own", !.apiKey = ""],
                [Plain("create") EXCEPT !.origin = "own", !.apiKey = Bad],
                [Plain("create") EXCEPT !.cookie = Bad, !.bearer = u1],
                [Plain("create") EXCEPT !.cookie = u2, !.apiKey = u1]}
\* An API key where only a session is taken.
MCRequests == MCCreations \cup {[Plain("session") EXCEPT !.apiKey = u1]}

MCSymmetry == Permutations(Pods)

-----------------------------------------------------------------------------
\* The variables of both stay within their types; no counter passes its budget.
AdmissionTypeOK == TypeOK /\ Identity!TypeOK

\* GuestIdentity: the guest is told the truth about its row, however lookups, seedings
\* and restarts interleave.
GuestIsSeeded == Identity!GuestIsSeeded
=============================================================================
