------------------------------ MODULE MCRouting ------------------------------
(***************************************************************************)
(* Three providers in key order p1, p2, p3.                                *)
(***************************************************************************)
EXTENDS Routing

CONSTANTS p1, p2, p3

MCProviders == {p1, p2, p3}
MCRank == [p \in MCProviders |-> CASE p = p1 -> 1 [] p = p2 -> 2 [] p = p3 -> 3]
==============================================================================
