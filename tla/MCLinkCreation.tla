---------------------------- MODULE MCLinkCreation ----------------------------
(***************************************************************************)
(* Small instances of LinkCreation.                                        *)
(***************************************************************************)
EXTENDS LinkCreation, TLC

CONSTANTS u1, guest

\* An allowance of one link.
MCLimit == [u \in Users |-> 1]
=============================================================================
