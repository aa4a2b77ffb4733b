------------------------------ MODULE MCLimiter ------------------------------
(***************************************************************************)
(* A few calls on one bucket: reservoirs of one and two tokens, a bucket   *)
(* limited by concurrency, and one with minTime.                           *)
(***************************************************************************)
EXTENDS Limiter, TLC

CONSTANTS r1, r2, r3, r4

MCFour == {r1, r2, r3, r4}
MCThree == {r1, r2, r3}

\* No property of the safety run names a request.
Symmetry == Permutations(MCFour)

MCSetting(n, spaced, concurrent) ==
  [reservoir |-> n, refresh |-> n, spaced |-> spaced, concurrent |-> concurrent]

MCSettings ==
  {MCSetting(1, FALSE, 4), MCSetting(2, FALSE, 4), MCSetting(4, FALSE, 2),
   MCSetting(3, TRUE, 4)}
==============================================================================
