------------------------------ MODULE QueryCache ------------------------------
(***************************************************************************)
(* One query of the web client's TanStack Query cache, as the pages use    *)
(* it: the data last answered, whether the last attempt failed, and the    *)
(* request underway with the snapshot the server has taken for it.         *)
(*                                                                         *)
(* An invalidation restarts the request underway, but only once the query  *)
(* holds data: the very first load is joined instead, even if the server   *)
(* has taken its snapshot already.                                         *)
(***************************************************************************)
EXTENDS Naturals

CONSTANT None                  \* absence of a value

\* App.tsx: every query of a page is tried once more.
Retries == 1

Cold == [data |-> None, failed |-> FALSE, phase |-> "idle", got |-> None, tries |-> 0]

\* The queries whose data belong to Data.
Queries(Data) ==
    [data : Data \cup {None}, failed : BOOLEAN, phase : {"idle", "asked", "read"},
     got : Data \cup {None}, tries : 0 .. Retries]

Underway(q) == q.phase # "idle"
IsLoading(q) == q.data = None /\ Underway(q)

\* A request starts; an error stands until it ends only beside older data.
Ask(q) ==
    [q EXCEPT !.phase = "asked", !.got = None, !.tries = 0,
              !.failed = q.failed /\ q.data # None]

\* A component mounts the query: staleTime 0 asks again, unless asked already.
Mount(q) == IF Underway(q) THEN q ELSE Ask(q)

\* invalidateQueries on a query that a mounted component observes.
Invalidate(q) == IF IsLoading(q) THEN q ELSE Ask(q)

\* The server takes the snapshot it will answer with.
Read(q, snapshot) == [q EXCEPT !.phase = "read", !.got = snapshot]

Answer(q) ==
    [q EXCEPT !.data = q.got, !.failed = FALSE, !.phase = "idle", !.got = None, !.tries = 0]

\* An attempt fails: one more is made, then the error stands beside the data.
Fail(q) ==
    IF q.tries < Retries
    THEN [q EXCEPT !.phase = "asked", !.got = None, !.tries = q.tries + 1]
    ELSE [q EXCEPT !.phase = "idle", !.got = None, !.tries = 0, !.failed = TRUE]
===============================================================================
