------------------------------ MODULE MCApiKeys -------------------------------
(***************************************************************************)
(* Small instances of ApiKeys.                                             *)
(***************************************************************************)
EXTENDS ApiKeys, TLC

\* Every prefix collides.
MCPrefixOf == [k \in Keys |-> "prefix"]
\* An allowance of one key.
MCLimit == [u \in Users |-> 1]

MCSymmetry == Permutations(Requests) \cup Permutations(Keys) \cup Permutations(Users)
=============================================================================
