----------------------------- MODULE GuestIdentity -----------------------------
(***************************************************************************)
(* UsersService.getGuestUserId: each pod looks up the row of the shared    *)
(* guest, whom Admission lets in, and keeps its id for the life of the     *)
(* process. Between the look at the field and its assignment the handler   *)
(* awaits the SELECT, and other guests, the migration that seeds the row   *)
(* and restarts may come in between.                                       *)
(***************************************************************************)
CONSTANTS
    None, Bad,  \* no id; what is not one
    GuestIds,   \* uuids the guest's row may be seeded with
    Pods,
    Lookups     \* bound of the model: lookups in flight at once, over all pods

\* A guest that waits for its row, or has its answer.
Lookup == [pod : Pods, stage : {"asked", "read"}, row : GuestIds \cup {None},
           missing : BOOLEAN]                  \* the row was missing as it came
Answer == [pod : Pods, as : GuestIds \cup {None}, status : {"ok", "404", "500"},
           missing : BOOLEAN]

VARIABLES
    guestRow,  \* id of the guest's row in users, or None before it is seeded
    cache,     \* UsersService.guestUserId of each pod
    lookup,
    held,      \* history: ids the row has had since each pod started
    told       \* history: the last guest, and what it was answered

vars == <<guestRow, cache, lookup, held, told>>

-----------------------------------------------------------------------------
Init ==
    /\ guestRow \in GuestIds \cup {None}
    /\ cache = [p \in Pods |-> None]
    /\ lookup = [l \in Lookups |-> None]
    /\ held = [p \in Pods |-> {guestRow} \ {None}]
    /\ told = None

\* The id is there.
Cached(p) ==
    /\ cache[p] # None
    /\ told' = [pod |-> p, as |-> cache[p], status |-> "ok", missing |-> guestRow = None]
    /\ UNCHANGED <<guestRow, cache, lookup, held>>

\* A SELECT for each guest that comes before the first has its answer.
Ask(p, l) ==
    /\ cache[p] = None /\ lookup[l] = None
    /\ lookup' = [lookup EXCEPT ![l] = [pod |-> p, stage |-> "asked", row |-> None,
                                        missing |-> guestRow = None]]
    /\ UNCHANGED <<guestRow, cache, held, told>>

\* The SELECT takes its snapshot.
Select(l) ==
    /\ lookup[l] # None /\ lookup[l].stage = "asked"
    /\ lookup' = [lookup EXCEPT ![l].stage = "read", ![l].row = guestRow]
    /\ UNCHANGED <<guestRow, cache, held, told>>

Answered(l, status) ==
    /\ lookup' = [lookup EXCEPT ![l] = None]
    /\ told' = [pod |-> lookup[l].pod, as |-> lookup[l].row, status |-> status,
                missing |-> lookup[l].missing]
    /\ UNCHANGED <<guestRow, held>>

\* A row is remembered; a miss is thrown and not, unlike after a mutant.
EvenAMiss(l) == IF lookup[l].row = None THEN Bad ELSE lookup[l].row
Remembered(l) == IF lookup[l].row = None THEN cache[lookup[l].pod] ELSE lookup[l].row

\* What is behind the await.
Resume(l) ==
    /\ lookup[l] # None /\ lookup[l].stage = "read"
    /\ cache' = [cache EXCEPT ![lookup[l].pod] = Remembered(l)]
    /\ Answered(l, IF lookup[l].row = None THEN "404" ELSE "ok")

\* The SELECT throws.
Fail(l) ==
    /\ lookup[l] # None /\ lookup[l].stage = "asked"
    /\ Answered(l, "500")
    /\ UNCHANGED cache

\* The migration, or an operator, seeds the guest's row.
Seed(id) ==
    /\ id # guestRow
    /\ guestRow' = id
    /\ held' = [p \in Pods |-> held[p] \cup {id}]
    /\ UNCHANGED <<cache, lookup, told>>

\* A pod starts again, and whoever waited in it is answered nothing.
Restart(p) ==
    /\ cache' = [cache EXCEPT ![p] = None]
    /\ lookup' = [l \in Lookups |-> IF lookup[l] # None /\ lookup[l].pod = p THEN None
                                    ELSE lookup[l]]
    /\ held' = [held EXCEPT ![p] = {guestRow} \ {None}]
    /\ told' = None
    /\ UNCHANGED guestRow

Next ==
    \/ \E p \in Pods : Cached(p) \/ Restart(p) \/ \E l \in Lookups : Ask(p, l)
    \/ \E l \in Lookups : Select(l) \/ Resume(l) \/ Fail(l)
    \/ \E id \in GuestIds : Seed(id)

Spec == Init /\ [][Next]_vars

-----------------------------------------------------------------------------
\* Every variable stays within its type.
TypeOK ==
    /\ guestRow \in GuestIds \cup {None}
    /\ cache \in [Pods -> GuestIds \cup {None}]
    /\ lookup \in [Lookups -> Lookup \cup {None}]
    /\ held \in [Pods -> SUBSET GuestIds]
    /\ told \in Answer \cup {None}

\* A guest is told the row is missing only if it was when the guest came, also if others
\* were told so before it was seeded; else it works as the row, of now or of some moment
\* since the pod was started, and never as nobody. So a restart of the pods is enough
\* for a row that was seeded again, also for the guests that wait meanwhile.
GuestIsSeeded ==
    told # None =>
        /\ told.status = "404" => told.missing
        /\ told.status = "ok" => told.as \in held[told.pod]
=============================================================================
