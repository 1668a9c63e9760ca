-------------------------- MODULE MCRefreshSessions --------------------------
(***************************************************************************)
(* Small instances of RefreshSessions.                                     *)
(***************************************************************************)
EXTENDS RefreshSessions, TLC

\* Requests are interchangeable: no action names one.
MCSymmetry == Permutations(Requests)
=============================================================================
