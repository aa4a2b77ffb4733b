---------------------------- MODULE MCRedisCache ----------------------------
(***************************************************************************)
(* Three mutations of one key, the fewest for which a lost tail lets two   *)
(* run together, or two of two keys beside a clear(), whose pages then     *)
(* hold one key or both; ttls of one and three ticks with two ticks to a   *)
(* second, so that expire() rounds both.                                   *)
(***************************************************************************)
EXTENDS RedisCache, TLC

CONSTANTS m1, m2, m3, k1, k2

MCMutations == {m1, m2, m3}
MCKeys == {k1, k2}
MCPrefixed == {k1, k2}
MCTtls == {1, 3}

\* Queues of different keys do not meet, and clear() needs one mutation beside it and one
\* before: three mutations of one key with friendly commands, two of any with raw ones.
Bound ==
  IF Raw THEN Cardinality({m \in Mutations : pc[m] # "new"}) <= 2
  ELSE \A m \in Mutations : call[m] # NoCall => call[m].key = k1

\* No property names a mutation.
Symmetry == Permutations(MCMutations)
==============================================================================
