-------------------------- MODULE MCProviderAccounts --------------------------
(***************************************************************************)
(* A small instance of ProviderAccounts.                                   *)
(***************************************************************************)
EXTENDS ProviderAccounts, TLC

CONSTANTS a, b, g, h

\* GitHub lets an email move from one identity to another.
MCShared == (g :> {a, b}) @@ (h :> {b})
=============================================================================
