------------------------------- MODULE CacheTtl -------------------------------
(***************************************************************************)
(* How the API turns a link's expiry into the lifetime of its Redis entry. *)
(* LinkCacheService computes a TTL in whole seconds from a millisecond     *)
(* clock, and RedisService decides from that TTL whether the SET command   *)
(* carries an expiry at all.                                               *)
(*                                                                         *)
(* The clock counts ticks, TicksPerSecond of them to a second: a tick      *)
(* stands for the sub-second part that Math.floor drops.                   *)
(***************************************************************************)
EXTENDS Integers

CONSTANTS
    None,            \* null, undefined, an absent row or an absent key
    TicksPerSecond,  \* ticks of the millisecond clock in one second
    CacheTtlCap      \* CACHE_TTL_CAP_SECONDS

ASSUME CacheTtlAssumption ==
    /\ None \notin Int
    /\ TicksPerSecond \in Nat \ {0}
    /\ CacheTtlCap \in Nat \ {0}

\* A link's expires_at (a null column is None) and the ttlSeconds argument of
\* RedisService.set (undefined is None).
Expiry == Nat \cup {None}
Ttl == Nat \cup {None}

\* link-cache.service.ts: no expiry gives the cap, an expiry already reached
\* gives undefined, anything else the whole seconds left, capped.
TtlSecondsUntil(expiresAt, time) ==
    IF expiresAt = None THEN CacheTtlCap
    ELSE IF expiresAt <= time THEN None
    ELSE LET left == (expiresAt - time) \div TicksPerSecond
         IN  IF left < CacheTtlCap THEN left ELSE CacheTtlCap

\* redis.service.ts: only a defined, positive TTL is sent as EX; every other SET
\* stores the key without an expiry. Redis counts EX from the moment it runs
\* the command. The result is the time the entry dies, None for never.
DeadlineOf(ttl, time) ==
    IF ttl # None /\ ttl > 0 THEN time + ttl * TicksPerSecond ELSE None

\* isExpired in redirect.service.ts, and the same test in LinksController.update.
IsExpired(expiresAt, time) == expiresAt # None /\ expiresAt <= time

\* The SET of a link with this expiry carries no EX although the link has one:
\* less than a second of it is left.
LeavesNoTtl(expiresAt, time) == expiresAt # None /\ expiresAt < time + TicksPerSecond
=============================================================================
