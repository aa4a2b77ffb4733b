-------------------------- MODULE MCIndexedDbCache ---------------------------
(***************************************************************************)
(* Two calls, so that one can write between the read and the cleanup of    *)
(* the other; two connections, one blocked while the next is requested;    *)
(* two keys of the adapter with another's between them; batches of one,    *)
(* the smallest that leave records for the next sweep; a ttl of one tick   *)
(* of the two, so that the records of the first become stale and those of  *)
(* the second never do.                                                    *)
(***************************************************************************)
EXTENDS IndexedDbCache

CONSTANTS c1, c2, d1, d2

MCCalls == {c1, c2}
MCConns == {d1, d2}
MCKeys  == 1 .. 3
MCOwned == {1, 3}
MCTtls  == {1}
==============================================================================
