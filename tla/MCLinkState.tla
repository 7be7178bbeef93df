---------------------------- MODULE MCLinkState ----------------------------
(***************************************************************************)
(* An instance for TLC: three routers on one cable on which the hello      *)
(* answers of one direction are always lost, so that they form a ring.     *)
(***************************************************************************)
EXTENDS LinkState

CONSTANTS A, B, C, Lists

MCRouters == {A, B, C}
MCRing ==
    [r \in MCRouters |-> IF r = A THEN {B} ELSE IF r = B THEN {C} ELSE {A}]
MCMaxSequence == [r \in MCRouters |-> IF r = A THEN Lists ELSE 0]

=============================================================================
