--------------------------- MODULE MCCachedReads ----------------------------
(***************************************************************************)
(* Two calls of a builder over two networks and two providers that clamp   *)
(* the requested limit differently; one change of the data, one tick.      *)
(***************************************************************************)
EXTENDS CachedReads, TLC

CONSTANTS r1, r2, n1, n2, p1, p2

MCReads == {r1, r2}
MCNetworks == {n1, n2}
MCProviders == {p1, p2}
MCLimit == [p \in MCProviders |-> IF p = p1 THEN 25 ELSE 100]
MCTtls == {0, 1}

\* No property names a call or a network.
Symmetry == Permutations(MCReads) \cup Permutations(MCNetworks)
==============================================================================
