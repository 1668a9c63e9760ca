--------------------------- MODULE MCLinkLifecycle ---------------------------
(* TLC instances of LinkLifecycle. *)
EXTENDS LinkLifecycle, TLC

CONSTANTS a, b, u1, u2, ok1, ok2, js

\* Rows an older version left behind: one without an expiry, one whose
\* destination is not http(s).
MCLegacyRows ==
    {[owner |-> u1, url |-> ok1, expiresAt |-> None, born |-> 0],
     [owner |-> u1, url |-> js, expiresAt |-> 1, born |-> 0]}
MCNoRows == {}

MCSymmetry == Permutations(Requests) \cup Permutations(Cleaners)
=============================================================================
