---------------------------- MODULE ClickStatistics ----------------------------
(***************************************************************************)
(* The clicks of one link: recorded by the redirect, which does not wait   *)
(* for it, in a table of ClickHouse's Buffer engine before the table that  *)
(* keeps them; and read by the owner's stats page in four queries at once. *)
(*                                                                         *)
(* The inserts, the flushes of the buffer and the four queries take effect *)
(* in any order.  ClickHouse may stop, and lose what was not flushed.      *)
(***************************************************************************)
EXTENDS Naturals, FiniteSets

CONSTANTS
    None,
    Browsers,                  \* what parseBrowserId tells apart
    Days,                      \* 1 .. n
    MaxClicks                  \* bound of the model: redirects answered

VARIABLES
    created,                   \* whether the tables exist
    clicks,                    \* redirects of an active link, by browser
    inserting,                 \* inserts underway, by browser
    buffer,                    \* rows of the buffer, by day and browser
    stats,                     \* rows of the table behind it
    today,
    link,                      \* the link the slug names: "mine", "other" or "none"
    reading                    \* GET /api/stats/:slug of the owner, and what the page shows

vars == <<created, clicks, inserting, buffer, stats, today, link, reading>>

Cells == Days \X Browsers
NoRows == [c \in Cells |-> 0]
\* A breakdown has at most so many rows, and parseBrowserId tells six browsers apart.
TOP_LIMIT == 10
Queries == {"total", "byDay", "topBrowsers"}

\* got: the rows each query saw; least: rows it cannot have missed; quiet:
\* nothing changed since the first query was sent.
Reading(phase, got, least, quiet) == [phase |-> phase, got |-> got, least |-> least, quiet |-> quiet]
NoReading(phase) == Reading(phase, [q \in Queries |-> None], NoRows, TRUE)

Init ==
    /\ created \in BOOLEAN
    /\ clicks = [b \in Browsers |-> 0]
    /\ inserting = [b \in Browsers |-> 0]
    /\ buffer = NoRows /\ stats = NoRows
    /\ today = 1
    /\ link = "mine"
    /\ reading = NoReading("asked")

Plus(f, g) == [c \in Cells |-> f[c] + g[c]]

\* The sum of the f[x], as the number of the things that they count.
SumOf(S, f) == Cardinality(UNION {{x} \X (1 .. f[x]) : x \in S})
OfDay(rows, d) == SumOf(Browsers, [b \in Browsers |-> rows[<<d, b>>]])
OfBrowser(rows, b) == SumOf(Days, [d \in Days |-> rows[<<d, b>>]])

Recorded == Plus(stats, buffer)

\* after a mutant that reads the table behind the buffer
FromStats == stats

\* Reads target the buffer, and so include the rows that were not flushed.
FromStatsBuffer == Recorded

Disturbed == [reading EXCEPT !.quiet = FALSE]

-------------------------------------------------------------------------------
(* ClickHouse.                                                             *)

\* initSchemaAndSeed of a pod that starts; a failure leaves it degraded.
onModuleInit ==
    /\ ~created
    /\ created' = TRUE
    /\ UNCHANGED <<clicks, inserting, buffer, stats, today, link, reading>>

Flush ==
    /\ stats' = Recorded
    /\ buffer' = NoRows
    /\ UNCHANGED <<created, clicks, inserting, today, link, reading>>

\* A stop of the server loses the rows that were not flushed.
Crash ==
    /\ buffer' = NoRows
    /\ reading' = [Disturbed EXCEPT !.least =
                      [c \in Cells |-> IF @[c] < stats[c] THEN @[c] ELSE stats[c]]]
    /\ UNCHANGED <<created, clicks, inserting, stats, today, link>>

Midnight ==
    /\ today + 1 \in Days
    /\ today' = today + 1
    /\ UNCHANGED <<created, clicks, inserting, buffer, stats, link, reading>>

-------------------------------------------------------------------------------
(* The redirect records, and answers without waiting.                      *)

recordStatsIfActive(b) ==
    /\ SumOf(Browsers, clicks) < MaxClicks
    /\ link # "none"
    /\ clicks' = [clicks EXCEPT ![b] = @ + 1]
    /\ inserting' = [inserting EXCEPT ![b] = @ + 1]
    /\ UNCHANGED <<created, buffer, stats, today, link, reading>>

\* The row takes the timestamp of the insert; its answer may still be lost.
insert(b) ==
    /\ created
    /\ buffer' = [buffer EXCEPT ![<<today, b>>] = @ + 1]
    /\ reading' = Disturbed

\* recordSafe: a failure is logged, and the row is not sent again.
recordSafe(b) ==
    /\ inserting[b] > 0
    /\ inserting' = [inserting EXCEPT ![b] = @ - 1]
    /\ insert(b) \/ UNCHANGED <<buffer, reading>>
    /\ UNCHANGED <<created, clicks, stats, today, link>>

-------------------------------------------------------------------------------
(* The owner's reading.                                                    *)

\* The link goes, and its slug may be given to another owner's link.
LinkChanges ==
    /\ \/ link # "none" /\ link' = "none"
       \/ link = "none" /\ link' = "other"
    /\ UNCHANGED <<created, clicks, inserting, buffer, stats, today, reading>>

Ask ==
    /\ reading.phase \notin {"asked", "reading"}
    /\ reading' = NoReading("asked")
    /\ UNCHANGED <<created, clicks, inserting, buffer, stats, today, link>>

\* The queries are sent once the caller is known to own the link.
verifyLinkOwnership ==
    /\ reading.phase = "asked"
    /\ reading' = CASE link = "none"  -> NoReading("noSuchLink")
                    [] link = "other" -> NoReading("notLinkOwner")
                    [] OTHER -> Reading("reading", [q \in Queries |-> None], Recorded, TRUE)
    /\ UNCHANGED <<created, clicks, inserting, buffer, stats, today, link>>

query(q) ==
    /\ reading.phase = "reading" /\ created
    /\ reading.got[q] = None
    /\ reading' = [reading EXCEPT !.got[q] = FromStatsBuffer]
    /\ UNCHANGED <<created, clicks, inserting, buffer, stats, today, link>>

\* One query that fails fails the request.
QueryFails ==
    /\ reading.phase = "reading"
    /\ reading' = NoReading("generic")
    /\ UNCHANGED <<created, clicks, inserting, buffer, stats, today, link>>

assembleStats ==
    /\ reading.phase = "reading"
    /\ \A q \in Queries : reading.got[q] # None
    /\ reading' = [reading EXCEPT !.phase = "record"]
    /\ UNCHANGED <<created, clicks, inserting, buffer, stats, today, link>>

-------------------------------------------------------------------------------
(* The page.  The country of every row is 0, which one row counts.         *)

TotalReading == SumOf(Cells, reading.got["total"])
CourseOverTime == [d \in Days |-> OfDay(reading.got["byDay"], d)]
RankedBreakdown == [b \in Browsers |-> OfBrowser(reading.got["topBrowsers"], b)]

\* A row's share of the total, as the whole percent next to it.
shareOfTotal(n, total) == IF total = 0 THEN 0 ELSE (200 * n + total) \div (2 * total)

Next ==
    \/ onModuleInit \/ Flush \/ Crash \/ Midnight \/ LinkChanges
    \/ \E b \in Browsers : recordStatsIfActive(b) \/ recordSafe(b)
    \/ Ask \/ verifyLinkOwnership \/ QueryFails \/ assembleStats
    \/ \E q \in Queries : query(q)

Spec == Init /\ [][Next]_vars

-------------------------------------------------------------------------------
(* Every variable has its type. *)
TypeOK ==
    /\ created \in BOOLEAN
    /\ clicks \in [Browsers -> 0 .. MaxClicks]
    /\ inserting \in [Browsers -> 0 .. MaxClicks]
    /\ buffer \in [Cells -> 0 .. MaxClicks] /\ stats \in [Cells -> 0 .. MaxClicks]
    /\ today \in Days
    /\ link \in {"mine", "other", "none"}
    /\ reading \in [phase : {"asked", "reading", "record", "noSuchLink", "notLinkOwner", "generic"},
                    got : [Queries -> [Cells -> 0 .. MaxClicks] \cup {None}],
                    least : [Cells -> 0 .. MaxClicks], quiet : BOOLEAN]

(***************************************************************************)
(* A record counts no redirect twice and misses none that stood in the     *)
(* table or its buffer when it was asked for, in each of its readings,     *)
(* though redirects, flushes and a midnight fall between its queries.  If  *)
(* nothing was recorded meanwhile its readings agree, and no share of a    *)
(* row exceeds the whole.                                                  *)
(***************************************************************************)
ReadingIsBracketed ==
    reading.phase = "record" =>
        /\ \A q \in Queries, b \in Browsers :
              LET seen == OfBrowser(reading.got[q], b)
              IN  seen <= clicks[b] /\ seen >= OfBrowser(reading.least, b)
        /\ reading.quiet =>
              /\ TotalReading = SumOf(Days, CourseOverTime)
              /\ TotalReading = SumOf(Browsers, RankedBreakdown)
              /\ \A b \in Browsers : shareOfTotal(RankedBreakdown[b], TotalReading) <= 100
===============================================================================
