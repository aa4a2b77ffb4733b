------------------------------ MODULE MCPaging -------------------------------
(***************************************************************************)
(* Two calls that share a query object, and two providers, one of which    *)
(* allows larger pages; sizes below and above their limits.                *)
(***************************************************************************)
EXTENDS Paging, TLC

CONSTANTS c1, c2, q1, p1, p2

MCCalls == {c1, c2}
MCQueries == {q1}
MCProviders == {p1, p2}
MCDefaultLimit == [p \in MCProviders |-> IF p = p1 THEN 10 ELSE 25]
MCMaxLimit == [p \in MCProviders |-> IF p = p1 THEN 25 ELSE 100]
MCSizes == {0, 500}

\* No property names a call.
Symmetry == Permutations(MCCalls)
==============================================================================
