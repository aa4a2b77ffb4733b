---------------------------- MODULE Routing_proofs ----------------------------
(***************************************************************************)
(* Proofs about Routing: its types, that a provider executes at most once, *)
(* that a request fails only after every provider has executed, that only  *)
(* one provider is ever retried, that an abort stops all work, and that    *)
(* Routing implements RoutingContract.                                     *)
(***************************************************************************)
EXTENDS Routing, FiniteSetTheorems, WellFoundedInduction, TLAPS

(***************************************************************************)
(* The rotation visits a member of any nonempty set of providers: their    *)
(* rotated positions are naturals, so one of them is the smallest.         *)
(***************************************************************************)
LEMMA RotatedIsNat ==
  ASSUME NEW start \in Providers, NEW p \in Providers
  PROVE  Rotated(start, p) \in Nat
<1>1. Cardinality(Providers) \in Nat
  BY RankAssumption, FS_CardinalityType
<1>2. Rank[p] \in Nat /\ Rank[start] \in Nat
  BY <1>1, RankAssumption
<1> QED BY <1>1, <1>2 DEF Rotated

LEMMA FirstIsMember ==
  ASSUME NEW start \in Providers, NEW S \in SUBSET Providers, S # {}
  PROVE  First(start, S) \in S
<1> DEFINE T == {Rotated(start, p) : p \in S}
<1>1. T \subseteq Nat /\ T # {}
  BY RotatedIsNat
<1>2. PICK m \in T : \A n \in T : ~(<<n, m>> \in OpToRel(<, Nat))
  BY <1>1, NatLessThanWellFounded, WFMin
<1>3. \A n \in T : m <= n
  <2> SUFFICES ASSUME NEW n \in T PROVE m <= n
    OBVIOUS
  <2> HIDE DEF T
  <2>1. m \in Nat /\ n \in Nat
    BY <1>1
  <2>2. ASSUME n < m PROVE <<n, m>> \in OpToRel(<, Nat)
    <3>1. <<n, m>> \in Nat \X Nat /\ <<n, m>>[1] < <<n, m>>[2]
      BY <2>1, <2>2
    <3> QED BY <3>1, Zenon DEF OpToRel
  <2>3. ~(n < m)
    BY <1>2, <2>2, Zenon
  <2> QED BY <2>1, <2>3
<1>4. PICK p \in S : m = Rotated(start, p)
  BY <1>2
<1>5. \A q \in S : Rotated(start, p) <= Rotated(start, q)
  BY <1>3, <1>4
<1> QED BY <1>5 DEF First

------------------------------------------------------------------------------
(***************************************************************************)
(* The inductive invariant.  What the properties leave out, and a step     *)
(* needs, is which providers have executed in each loop: nobody but the    *)
(* current one before the failover; in the failover, everybody but those   *)
(* still to visit and those that refused the probe; in the last loop,      *)
(* everybody but those still to visit.                                     *)
(***************************************************************************)
StageInv ==
  /\ phase = "settled" <=> stage = "idle"
  /\ phase # "settled" => result = Pending
  /\ stage \in {"call", "probing", "idle"} => attempt = 0
  /\ stage = "running" => attempt > 0
  /\ stage = "probing" => phase \in {"probe", "failover"}

RunsInv ==
  /\ runs \in [Providers -> {0, 1}]
  /\ phase # "settled" => (runs[current] = 1 <=> attempt > 0)

FirstPassInv ==
  phase \in {"single", "probe", "original"} =>
    /\ blocked = {}
    /\ \A p \in Providers \ {current} : runs[p] = 0

FailoverPassInv ==
  phase = "failover" =>
    /\ opts.failover
    /\ lastError \in Error
    /\ current \notin todo /\ current \notin blocked
    /\ todo \cap blocked = {}
    /\ \A p \in todo \cup blocked : runs[p] = 0
    /\ \A p \in Providers : p \notin todo \cup blocked \cup {current} => runs[p] = 1

BlockedPassInv ==
  phase = "blocked" =>
    /\ opts.failover
    /\ current \notin todo /\ current \in blocked
    /\ todo \subseteq blocked
    /\ \A p \in todo : runs[p] = 0
    /\ \A p \in Providers : p \notin todo \cup {current} => runs[p] = 1

IndInv ==
  /\ TypeOK /\ StageInv /\ RunsInv
  /\ FirstPassInv /\ FailoverPassInv /\ BlockedPassInv
  /\ ExhaustsBeforeFailing

USE RankAssumption, BudgetAssumption

(***************************************************************************)
(* The pieces of a step, as they occur: the state after a capture of the   *)
(* next provider, and the state after the request settles.                 *)
(***************************************************************************)
\* Settling keeps the invariant: the request is over and nothing runs.
LEMMA SettlePreserves ==
  ASSUME IndInv, phase # "settled",
         NEW r \in Error \cup [kind : {"ok"}, by : Providers], Settle(r),
         UNCHANGED <<opts, aborted, runs, tries>>, orphans' \subseteq Providers,
         (opts.failover /\ IsFailoverFailure(r.kind))
           => \A p \in Providers : runs[p] = 1
  PROVE  IndInv'
<1>1. TypeOK'
  BY DEF IndInv, TypeOK, Settle, Phases, Stages
<1>2. StageInv' /\ RunsInv'
  BY DEF IndInv, TypeOK, StageInv, RunsInv, Settle
<1>3. FirstPassInv' /\ FailoverPassInv' /\ BlockedPassInv'
  BY DEF Settle, FirstPassInv, FailoverPassInv, BlockedPassInv
<1>4. ExhaustsBeforeFailing'
  BY DEF Settle, ExhaustsBeforeFailing, IsFailoverFailure
<1> QED BY <1>1, <1>2, <1>3, <1>4 DEF IndInv

\* What a visit of a nonempty set of providers leaves in the routing's variables.
LEMMA VisitTypes ==
  ASSUME TypeOK, NEW ph \in Phases, NEW start \in Providers,
         NEW S \in SUBSET Providers, S # {}, Visit(ph, start, S)
  PROVE  /\ phase' = ph /\ origin' \in Providers /\ stage' = "call"
         /\ current' \in S /\ todo' = S \ {current'}
         /\ attempt' = 0 /\ hops' = 0 /\ result' = result
BY FirstIsMember DEF Visit

\* Going on with the failover, after an executed or a refused alternate, keeps
\* the invariant.
LEMMA NextAlternatePreserves ==
  ASSUME IndInv, phase \in {"failover", "blocked"},
         NEW err \in Error, NEW saturated \in SUBSET Providers,
         NextAlternate(err, saturated),
         UNCHANGED <<opts, aborted, runs, tries>>, orphans' \subseteq Providers,
         \/ attempt > 0 /\ saturated = blocked
         \/ attempt = 0 /\ phase = "failover" /\ saturated = blocked \cup {current}
  PROVE  IndInv'
<1> USE DEF Phases, Stages
<1>1. CASE todo # {} /\ Visit(phase, origin, todo)
           /\ lastError' = err /\ blocked' = saturated
  <2>1. TypeOK /\ todo \in SUBSET Providers /\ origin \in Providers
    BY DEF IndInv, TypeOK
  <2>2. /\ phase' = phase /\ origin' \in Providers /\ stage' = "call"
        /\ current' \in todo /\ todo' = todo \ {current'}
        /\ attempt' = 0 /\ hops' = 0 /\ result' = result
    BY <1>1, <2>1, VisitTypes
  <2>3. TypeOK'
    BY <1>1, <2>1, <2>2 DEF TypeOK
  <2>4. runs[current'] = 0
    BY <2>2 DEF IndInv, FailoverPassInv, BlockedPassInv
  <2>5. StageInv' /\ RunsInv'
    BY <2>2, <2>4 DEF IndInv, StageInv, RunsInv
  <2>6. FirstPassInv'
    BY <2>2 DEF FirstPassInv
  <2>7. FailoverPassInv'
    BY <1>1, <2>1, <2>2 DEF IndInv, TypeOK, RunsInv, FailoverPassInv
  <2>8. BlockedPassInv'
    BY <1>1, <2>1, <2>2 DEF IndInv, TypeOK, RunsInv, BlockedPassInv
  <2>9. ExhaustsBeforeFailing'
    BY <2>2 DEF ExhaustsBeforeFailing
  <2> QED BY <2>3, <2>5, <2>6, <2>7, <2>8, <2>9 DEF IndInv
<1>2. CASE todo = {} /\ phase = "failover" /\ saturated # {}
           /\ Visit("blocked", origin, saturated)
           /\ lastError' = err /\ blocked' = saturated
  <2>1. TypeOK /\ origin \in Providers
    BY DEF IndInv, TypeOK
  <2>2. /\ phase' = "blocked" /\ origin' \in Providers /\ stage' = "call"
        /\ current' \in saturated /\ todo' = saturated \ {current'}
        /\ attempt' = 0 /\ hops' = 0 /\ result' = result
    BY <1>2, <2>1, VisitTypes
  <2>3. TypeOK'
    BY <1>2, <2>1, <2>2 DEF TypeOK
  <2>4. \A p \in saturated : runs[p] = 0
    BY <1>2, <2>1 DEF IndInv, TypeOK, RunsInv, FailoverPassInv
  <2>5. StageInv' /\ RunsInv'
    BY <1>2, <2>2, <2>4 DEF IndInv, StageInv, RunsInv
  <2>6. FirstPassInv' /\ FailoverPassInv' /\ ExhaustsBeforeFailing'
    BY <2>2 DEF FirstPassInv, FailoverPassInv, ExhaustsBeforeFailing
  <2>7. \A p \in Providers : p \notin saturated => runs[p] = 1
    BY <1>2, <2>1 DEF IndInv, TypeOK, RunsInv, FailoverPassInv
  <2>8. BlockedPassInv'
    BY <1>2, <2>1, <2>2, <2>4, <2>7 DEF IndInv, FailoverPassInv, BlockedPassInv
  <2> QED BY <2>3, <2>5, <2>6, <2>8 DEF IndInv
<1>3. CASE todo = {} /\ (phase = "blocked" \/ saturated = {}) /\ Settle(err)
  <2>1. attempt > 0
    BY <1>3 DEF IndInv, BlockedPassInv
  <2>2. \A p \in Providers : runs[p] = 1
    BY <1>3, <2>1 DEF IndInv, TypeOK, RunsInv, FailoverPassInv, BlockedPassInv
  <2> QED BY <1>3, <2>2, SettlePreserves
<1> QED BY <1>1, <1>2, <1>3 DEF NextAlternate

\* A failure of the current attempt keeps the invariant, in every phase.
LEMMA FailPreserves ==
  ASSUME IndInv, phase # "settled", NEW k \in Failures, Fail(k),
         k \in {"retryable", "network"} => attempt > 0,
         UNCHANGED <<opts, aborted, runs, tries>>, orphans' \subseteq Providers
  PROVE  IndInv'
<1> DEFINE err == [kind |-> k, by |-> current]
<1>1. err \in Error /\ err.kind = k
  BY DEF IndInv, TypeOK, Error
<1> HIDE DEF err
<1> USE DEF Phases, Stages
<1>2. CASE phase \in {"single", "probe", "original"} /\ opts.failover
           /\ IsFailoverFailure(k) /\ Unattempted # {}
  <2>1. /\ Visit("failover", current, Unattempted)
        /\ lastError' = err /\ UNCHANGED blocked
    BY <1>2 DEF Fail, err
  <2>2. TypeOK /\ current \in Providers /\ Unattempted \in SUBSET Providers
    BY DEF IndInv, TypeOK, Unattempted
  <2>3. /\ phase' = "failover" /\ origin' \in Providers /\ stage' = "call"
        /\ current' \in Unattempted /\ todo' = Unattempted \ {current'}
        /\ attempt' = 0 /\ hops' = 0 /\ result' = result
    BY <1>2, <2>1, <2>2, VisitTypes
  <2>4. attempt > 0
    BY <1>2 DEF IsFailoverFailure
  <2>5. TypeOK'
    BY <1>1, <2>1, <2>2, <2>3 DEF TypeOK
  <2>6. /\ runs[current] = 1
        /\ \A p \in Unattempted : runs[p] = 0
    BY <1>2, <2>4 DEF IndInv, RunsInv, FirstPassInv, Unattempted
  <2>7. StageInv' /\ RunsInv'
    BY <2>3, <2>6 DEF IndInv, StageInv, RunsInv
  <2>8. FirstPassInv' /\ BlockedPassInv' /\ ExhaustsBeforeFailing'
    BY <2>3 DEF FirstPassInv, BlockedPassInv, ExhaustsBeforeFailing
  <2>9. blocked' = {}
    BY <1>2, <2>1 DEF IndInv, FirstPassInv
  <2>10. FailoverPassInv'
    BY <1>1, <1>2, <2>1, <2>2, <2>3, <2>6, <2>9 DEF FailoverPassInv, Unattempted
  <2> QED BY <2>5, <2>7, <2>8, <2>10 DEF IndInv
<1>3. CASE phase \in {"single", "probe", "original"}
           /\ ~(opts.failover /\ IsFailoverFailure(k) /\ Unattempted # {})
  <2>1. Settle(err)
    BY <1>3 DEF Fail, err
  <2>2. (opts.failover /\ IsFailoverFailure(k)) => \A p \in Providers : runs[p] = 1
    BY <1>3 DEF IsFailoverFailure, IndInv, RunsInv, Unattempted
  <2> QED BY <1>1, <2>1, <2>2, SettlePreserves
<1>4. CASE phase \notin {"single", "probe", "original"} /\ IsFailoverFailure(k)
  <2>1. NextAlternate(err, blocked) /\ attempt > 0
    BY <1>4 DEF Fail, err, IsFailoverFailure
  <2>2. phase \in {"failover", "blocked"} /\ blocked \in SUBSET Providers
    BY <1>4 DEF IndInv, TypeOK
  <2> QED BY <1>1, <2>1, <2>2, NextAlternatePreserves
<1>5. CASE phase \notin {"single", "probe", "original"} /\ ~IsFailoverFailure(k)
  <2>1. Settle(err)
    BY <1>5 DEF Fail, err
  <2> QED BY <1>1, <1>5, <2>1, SettlePreserves
<1> QED BY <1>2, <1>3, <1>4, <1>5

------------------------------------------------------------------------------
(***************************************************************************)
(* Init establishes the invariant and every action preserves it.           *)
(***************************************************************************)
LEMMA InitEstablishes == Init => IndInv
<1> SUFFICES ASSUME Init PROVE IndInv
  OBVIOUS
<1>1. TypeOK
  <2>1. opts \in Options /\ opts.start \in Providers
    BY DEF Init, Options
  <2>2. todo \subseteq Providers /\ phase \in Phases
    BY DEF Init, Phases
  <2>3. runs \in [Providers -> Nat] /\ tries \in [Providers -> Nat]
    BY DEF Init
  <2>4. attempt \in 0 .. MaxAttempts /\ hops \in 0 .. MaxHops
    BY DEF Init
  <2> QED BY <2>1, <2>2, <2>3, <2>4 DEF Init, TypeOK, Stages
<1>2. StageInv /\ RunsInv
  BY DEF Init, StageInv, RunsInv, Options
<1>3. FirstPassInv /\ FailoverPassInv /\ BlockedPassInv /\ ExhaustsBeforeFailing
  BY DEF Init, FirstPassInv, FailoverPassInv, BlockedPassInv, ExhaustsBeforeFailing
<1> QED BY <1>1, <1>2, <1>3 DEF IndInv

\* The current provider reaches fetch: it had not executed, and now it has.
LEMMA BeginPreserves ==
  ASSUME IndInv, phase # "settled", attempt = 0, Begin,
         UNCHANGED <<routing, hops, aborted, orphans>>
  PROVE  IndInv'
<1>1. TypeOK /\ current \in Providers /\ runs[current] = 0
  BY DEF IndInv, TypeOK, RunsInv
<1>2. /\ runs' \in [Providers -> {0, 1}] /\ runs'[current] = 1
      /\ \A p \in Providers : p # current => runs'[p] = runs[p]
  BY <1>1 DEF IndInv, RunsInv, Begin
<1>3. TypeOK'
  BY <1>1, <1>2 DEF TypeOK, Begin, routing, Stages
<1>4. StageInv' /\ RunsInv'
  BY <1>1, <1>2 DEF IndInv, StageInv, RunsInv, Begin, routing
<1>5. FirstPassInv'
  BY <1>2 DEF IndInv, FirstPassInv, Begin, routing
<1>6. FailoverPassInv'
  BY <1>1, <1>2 DEF IndInv, TypeOK, FailoverPassInv, Begin, routing
<1>7. BlockedPassInv'
  BY <1>1, <1>2 DEF IndInv, TypeOK, BlockedPassInv, Begin, routing
<1>8. ExhaustsBeforeFailing'
  BY DEF ExhaustsBeforeFailing, routing
<1> QED BY <1>3, <1>4, <1>5, <1>6, <1>7, <1>8 DEF IndInv

\* A refused probe executes nothing, so whoever is visited next is unexecuted.
LEMMA RefusePreserves ==
  ASSUME IndInv, Refuse
  PROVE  IndInv'
<1> USE DEF Phases, Stages
<1>1. /\ TypeOK /\ stage = "probing" /\ attempt = 0
      /\ phase \in {"probe", "failover"}
      /\ current \in Providers /\ todo \in SUBSET Providers /\ origin \in Providers
      /\ UNCHANGED <<opts, aborted, orphans, runs, tries>>
  BY DEF IndInv, TypeOK, StageInv, Refuse, effects
<1>2. CASE phase = "probe" /\ todo # {}
  <2>1. Visit("probe", origin, todo) /\ UNCHANGED <<blocked, lastError>>
    BY <1>2 DEF Refuse
  <2>2. /\ phase' = "probe" /\ origin' \in Providers /\ stage' = "call"
        /\ current' \in todo /\ todo' = todo \ {current'}
        /\ attempt' = 0 /\ hops' = 0 /\ result' = result
    BY <1>1, <1>2, <2>1, VisitTypes
  <2>3. TypeOK'
    BY <1>1, <2>1, <2>2 DEF TypeOK
  <2>4. \A p \in Providers : runs[p] = 0
    BY <1>1, <1>2 DEF IndInv, RunsInv, FirstPassInv
  <2>5. StageInv' /\ RunsInv'
    BY <1>1, <1>2, <2>2, <2>4 DEF IndInv, StageInv, RunsInv
  <2>6. FirstPassInv' /\ FailoverPassInv' /\ BlockedPassInv' /\ ExhaustsBeforeFailing'
    BY <1>1, <1>2, <2>1, <2>2, <2>4
    DEF IndInv, FirstPassInv, FailoverPassInv, BlockedPassInv, ExhaustsBeforeFailing
  <2> QED BY <2>3, <2>5, <2>6 DEF IndInv
<1>3. CASE phase = "probe" /\ todo = {}
  <2>1. /\ phase' = "original" /\ stage' = "call" /\ current' = opts.start
        /\ UNCHANGED <<origin, todo, attempt, hops, result, blocked, lastError>>
    BY <1>3 DEF Refuse
  <2>2. TypeOK'
    BY <1>1, <2>1 DEF TypeOK, Options
  <2>3. \A p \in Providers : runs[p] = 0
    BY <1>1, <1>3 DEF IndInv, RunsInv, FirstPassInv
  <2>4. StageInv' /\ RunsInv'
    BY <1>1, <1>3, <2>1, <2>2, <2>3 DEF IndInv, TypeOK, StageInv, RunsInv
  <2>5. FirstPassInv' /\ FailoverPassInv' /\ BlockedPassInv' /\ ExhaustsBeforeFailing'
    BY <1>1, <1>3, <2>1, <2>3
    DEF IndInv, FirstPassInv, FailoverPassInv, BlockedPassInv, ExhaustsBeforeFailing
  <2> QED BY <2>2, <2>4, <2>5 DEF IndInv
<1>4. CASE phase = "failover"
  <2>1. NextAlternate(lastError, blocked \cup {current})
    BY <1>4 DEF Refuse
  <2>2. /\ lastError \in Error /\ blocked \cup {current} \in SUBSET Providers
        /\ orphans' \subseteq Providers
    BY <1>1, <1>4 DEF IndInv, TypeOK, FailoverPassInv
  <2> QED BY <1>1, <1>4, <2>1, <2>2, NextAlternatePreserves
<1> QED BY <1>1, <1>2, <1>3, <1>4

\* Every action keeps the invariant, and so does a stutter.
LEMMA StepPreserves == IndInv /\ [Next]_vars => IndInv'
<1> SUFFICES ASSUME IndInv, [Next]_vars PROVE IndInv'
  OBVIOUS
<1> USE DEF Phases, Stages
<1>0. TypeOK /\ StageInv
  BY DEF IndInv
<1>1. CASE Schedule
  <2>1. phase # "settled" /\ attempt = 0
    BY <1>0, <1>1 DEF Schedule, StageInv
  <2>2. CASE aborted /\ Fail("abort") /\ UNCHANGED effects
    BY <1>0, <2>1, <2>2, FailPreserves DEF effects, Failures, TypeOK
  <2>3. CASE /\ ~aborted /\ current \in opts.limited
             /\ stage' = (IF Behavior = "overflow" THEN "probing" ELSE "queued")
             /\ UNCHANGED <<routing, attempt, hops, aborted, orphans, runs, tries>>
    <3>1. stage' = "probing" => phase \in {"probe", "failover"}
      BY <2>3 DEF Behavior
    <3>2. TypeOK' /\ StageInv' /\ RunsInv'
      BY <2>1, <2>3, <3>1 DEF IndInv, TypeOK, StageInv, RunsInv, routing
    <3>3. FirstPassInv' /\ FailoverPassInv' /\ BlockedPassInv' /\ ExhaustsBeforeFailing'
      BY <2>3 DEF IndInv, FirstPassInv, FailoverPassInv, BlockedPassInv,
                  ExhaustsBeforeFailing, IsFailoverFailure, routing
    <3> QED BY <3>2, <3>3 DEF IndInv
  <2>4. CASE /\ ~aborted /\ current \notin opts.limited
             /\ Begin /\ UNCHANGED <<routing, hops, aborted, orphans>>
    BY <2>1, <2>4, BeginPreserves
  <2> QED BY <1>1, <2>2, <2>3, <2>4 DEF Schedule
<1>2. CASE Refuse
  BY <1>2, RefusePreserves
<1>3. CASE Start
  <2>1. phase # "settled"
    BY <1>0, <1>3 DEF Start, StageInv
  <2>2. CASE attempt = 0
    BY <1>3, <2>1, <2>2, BeginPreserves DEF Start
  <2>3. CASE attempt # 0
    <3>1. stage' = "running" /\ attempt > 0
          /\ UNCHANGED <<routing, attempt, hops, aborted, orphans, runs, tries>>
      BY <1>0, <1>3, <2>3 DEF Start, TypeOK
    <3>2. TypeOK' /\ StageInv' /\ RunsInv'
      BY <2>1, <3>1 DEF IndInv, TypeOK, StageInv, RunsInv, routing
    <3>3. FirstPassInv' /\ FailoverPassInv' /\ BlockedPassInv' /\ ExhaustsBeforeFailing'
      BY <3>1 DEF IndInv, FirstPassInv, FailoverPassInv, BlockedPassInv,
                  ExhaustsBeforeFailing, IsFailoverFailure, routing
    <3> QED BY <3>2, <3>3 DEF IndInv
  <2> QED BY <2>2, <2>3
<1>4. CASE AbortWait
  <2>1. phase # "settled" /\ Fail("abort") /\ orphans' \subseteq Providers
        /\ UNCHANGED <<opts, aborted, runs, tries>>
    BY <1>0, <1>4 DEF AbortWait, StageInv, TypeOK
  <2> QED BY <2>1, FailPreserves DEF Failures
<1>5. CASE Succeed
  <2>1. phase # "settled" /\ Settle([kind |-> "ok", by |-> current])
        /\ UNCHANGED <<opts, aborted, runs, tries>> /\ orphans' \subseteq Providers
    BY <1>0, <1>5 DEF Succeed, StageInv, TypeOK, effects
  <2>2. /\ [kind |-> "ok", by |-> current] \in [kind : {"ok"}, by : Providers]
        /\ ~IsFailoverFailure([kind |-> "ok", by |-> current].kind)
    BY <1>0 DEF TypeOK, IsFailoverFailure
  <2> QED BY <2>1, <2>2, SettlePreserves
<1>6. ASSUME NEW k \in Failures, Reject(k) PROVE IndInv'
  <2>1. phase # "settled" /\ attempt > 0 /\ Fail(k) /\ orphans' \subseteq Providers
        /\ UNCHANGED <<opts, aborted, runs, tries>>
    BY <1>0, <1>6 DEF Reject, StageInv, TypeOK, effects
  <2> QED BY <2>1, FailPreserves
<1>7. CASE Admit \/ Retry \/ Redirect
  <2>1. /\ UNCHANGED <<routing, aborted, orphans, runs>>
        /\ tries' \in [Providers -> Nat]
        /\ attempt' \in 0 .. MaxAttempts /\ hops' \in 0 .. MaxHops
        /\ attempt' > 0 <=> attempt > 0
        /\ stage # "idle"
        /\ stage' = "queued" \/ (stage' = "running" /\ attempt' > 0)
    <3>1. CASE Admit
      BY <1>0, <3>1 DEF Admit, TypeOK
    <3>2. CASE Retry
      BY <1>0, <3>2 DEF Retry, Redispatched, Budget, StageInv, TypeOK
    <3>3. CASE Redirect
      BY <1>0, <3>3 DEF Redirect, Redispatched, StageInv, TypeOK
    <3> QED BY <1>7, <3>1, <3>2, <3>3
  <2>2. TypeOK' /\ StageInv' /\ RunsInv'
    BY <2>1 DEF IndInv, TypeOK, StageInv, RunsInv, routing
  <2>3. FirstPassInv' /\ FailoverPassInv' /\ BlockedPassInv' /\ ExhaustsBeforeFailing'
    BY <2>1 DEF IndInv, FirstPassInv, FailoverPassInv, BlockedPassInv,
                ExhaustsBeforeFailing, IsFailoverFailure, routing
  <2> QED BY <2>2, <2>3 DEF IndInv
<1>8. CASE CallerAborts \/ UNCHANGED vars \/ \E p \in Providers : OrphanDrains(p)
  <2>1. /\ UNCHANGED <<routing, stage, attempt, hops, runs, tries>>
        /\ aborted' \in BOOLEAN /\ orphans' \subseteq Providers
        /\ aborted => aborted'
    BY <1>0, <1>8 DEF CallerAborts, OrphanDrains, TypeOK, vars, routing
  <2>2. TypeOK' /\ StageInv' /\ RunsInv'
    BY <2>1 DEF IndInv, TypeOK, StageInv, RunsInv, routing
  <2>3. FirstPassInv' /\ FailoverPassInv' /\ BlockedPassInv' /\ ExhaustsBeforeFailing'
    BY <2>1 DEF IndInv, FirstPassInv, FailoverPassInv, BlockedPassInv,
                ExhaustsBeforeFailing, IsFailoverFailure, routing
  <2> QED BY <2>2, <2>3 DEF IndInv
<1> QED BY <1>1, <1>2, <1>3, <1>4, <1>5, <1>6, <1>7, <1>8 DEF Next

\* The invariant holds in every reachable state.
LEMMA Invariance == Spec => []IndInv
BY InitEstablishes, StepPreserves, PTL DEF Spec

------------------------------------------------------------------------------
\* Every variable keeps its type, and attempts and redirects their limits,
\* whatever the number of providers, the retry limit and the redirect limit.
THEOREM TypeCorrect == Spec => []TypeOK
<1>1. IndInv => TypeOK
  BY DEF IndInv
<1> QED BY <1>1, Invariance, PTL

\* A failure that allows failover is reported only after every provider of the
\* network has executed, and the saturated alternates wait only after all the others have.
THEOREM Exhausts == Spec => []NobodyLeftOut
<1>1. IndInv => ExhaustsBeforeFailing
  BY DEF IndInv
<1>2. IndInv => SaturatedLast
  BY DEF IndInv, TypeOK, BlockedPassInv, SaturatedLast
<1>3. IndInv => NobodyLeftOut
  BY <1>1, <1>2 DEF NobodyLeftOut
<1> QED BY <1>3, Invariance, PTL

\* No attempt starts after the caller's abort or after the request settled.
THEOREM AbortStops == Spec => AbortStopsWork
<1>1. ASSUME IndInv, [Next]_vars
      PROVE  [aborted \/ phase = "settled" => UNCHANGED <<runs, tries>>]_vars
  <2> SUFFICES ASSUME Next, aborted \/ phase = "settled"
               PROVE  UNCHANGED <<runs, tries>>
    BY <1>1
  <2>1. phase = "settled" => stage = "idle"
    BY <1>1 DEF IndInv, StageInv
  <2>2. ~Start /\ ~Retry
    BY <2>1 DEF Start, Retry
  <2>3. Schedule => UNCHANGED <<runs, tries>>
    BY <2>1 DEF Schedule, effects
  <2>4. (Refuse \/ Admit \/ AbortWait \/ Succeed \/ Redirect \/ CallerAborts)
          => UNCHANGED <<runs, tries>>
    BY DEF Refuse, Admit, AbortWait, Succeed, Redirect, CallerAborts, effects
  <2>5. (\E k \in Failures : Reject(k)) \/ (\E p \in Providers : OrphanDrains(p))
          => UNCHANGED <<runs, tries>>
    BY DEF Reject, OrphanDrains, effects
  <2> QED BY <2>2, <2>3, <2>4, <2>5 DEF Next
<1> QED BY <1>1, Invariance, PTL DEF Spec, AbortStopsWork

------------------------------------------------------------------------------
(***************************************************************************)
(* How often an attempt of a provider begins.  The property alone is not   *)
(* inductive: a provider not yet executed must not have been tried, the    *)
(* current one as often as its call has attempts, and a failover's call    *)
(* must have one at most.                                                  *)
(***************************************************************************)
TriesInv ==
  /\ AlternatesTryOnce
  /\ \A p \in Providers : runs[p] = 0 => tries[p] = 0
  /\ phase # "settled" => tries[current] = attempt
  /\ phase \in {"failover", "blocked"} => attempt <= 1

\* What a step does to the routing when it starts no attempt: it ends the captured
\* attempt or leaves it, and enters the failover only from the provider that failed.
Unstarted ==
  /\ UNCHANGED <<runs, tries>>
  /\ attempt' = 0 \/ UNCHANGED <<attempt, current, phase, origin>>
  /\ phase' \in {"failover", "blocked"} =>
       \/ phase \in {"failover", "blocked"} /\ origin' = origin
       \/ phase \in {"single", "probe", "original"} /\ origin' = current
  /\ phase = "settled" => phase' = "settled"

\* A step that starts no attempt keeps the counts.
LEMMA UnstartedKeepsTries ==
  ASSUME IndInv, IndInv', TriesInv, Unstarted
  PROVE  TriesInv'
<1>1. /\ tries \in [Providers -> Nat] /\ tries' = tries /\ runs' = runs
      /\ current \in Providers /\ current' \in Providers
  BY DEF IndInv, TypeOK, Unstarted
<1>2. phase' # "settled" => tries'[current'] = attempt'
  <2>1. CASE attempt' = 0
    BY <1>1, <2>1 DEF IndInv, RunsInv, TriesInv
  <2>2. CASE UNCHANGED <<attempt, current, phase, origin>>
    BY <1>1, <2>2 DEF TriesInv
  <2> QED BY <2>1, <2>2 DEF Unstarted
<1>3. phase' \in {"failover", "blocked"} => attempt' <= 1
  BY DEF TriesInv, Unstarted
<1>4. ASSUME phase' \in {"failover", "blocked"}, NEW p \in Providers \ {origin'}
      PROVE  tries'[p] <= 1
  <2>1. CASE phase \in {"failover", "blocked"} /\ origin' = origin
    BY <1>1, <1>4, <2>1 DEF TriesInv, AlternatesTryOnce
  <2>2. CASE phase \in {"single", "probe", "original"} /\ origin' = current
    BY <1>1, <1>4, <2>2 DEF IndInv, FirstPassInv, TriesInv
  <2> QED BY <1>4, <2>1, <2>2 DEF Unstarted
<1> QED BY <1>1, <1>2, <1>3, <1>4 DEF TriesInv, AlternatesTryOnce

\* Going on with the failover, or ending it, starts nothing.
LEMMA NextAlternateUnstarted ==
  ASSUME phase \in {"failover", "blocked"}, NEW err, NEW saturated,
         NextAlternate(err, saturated), UNCHANGED <<runs, tries>>
  PROVE  Unstarted
BY DEF NextAlternate, Visit, Settle, Unstarted

\* Neither does the failure of a captured attempt.
LEMMA FailUnstarted ==
  ASSUME IndInv, phase # "settled", NEW k, Fail(k), UNCHANGED <<runs, tries>>
  PROVE  Unstarted
<1>1. phase \in {"single", "probe", "original", "failover", "blocked"}
  BY DEF IndInv, TypeOK, Phases
<1>2. CASE phase \in {"single", "probe", "original"}
  BY <1>2 DEF Fail, Visit, Settle, Unstarted
<1>3. CASE phase \in {"failover", "blocked"} /\ IsFailoverFailure(k)
  <2>1. NextAlternate([kind |-> k, by |-> current], blocked)
    BY <1>3 DEF Fail
  <2> QED BY <1>3, <2>1, NextAlternateUnstarted
<1>4. CASE phase \in {"failover", "blocked"} /\ ~IsFailoverFailure(k)
  <2>1. Settle([kind |-> k, by |-> current])
    BY <1>4 DEF Fail
  <2> QED BY <2>1 DEF Settle, Unstarted
<1> QED BY <1>1, <1>2, <1>3, <1>4

\* One more attempt of the current provider, its first or a retry in the first pass.
LEMMA OneMoreTry ==
  ASSUME IndInv, IndInv', TriesInv, phase # "settled",
         attempt' = attempt + 1, attempt < MaxAttempts,
         tries' = [tries EXCEPT ![current] = @ + 1],
         UNCHANGED <<phase, origin, current>>,
         \A p \in Providers \ {current} : runs'[p] = runs[p],
         attempt = 0 \/ phase \in {"single", "probe", "original"}
  PROVE  TriesInv'
<1>1. /\ tries \in [Providers -> Nat] /\ current \in Providers /\ attempt \in Nat
      /\ MaxAttempts \in Nat
  BY DEF IndInv, TypeOK
<1>2. /\ tries[current] = attempt /\ tries'[current] = attempt + 1
      /\ \A p \in Providers \ {current} : tries'[p] = tries[p]
  BY <1>1 DEF TriesInv
<1>3. runs'[current] = 1
  BY <1>1 DEF IndInv, RunsInv
<1>4. \A p \in Providers : runs'[p] = 0 => tries'[p] = 0
  BY <1>2, <1>3 DEF TriesInv
<1>5. CASE attempt = 0
  BY <1>1, <1>2, <1>4, <1>5 DEF TriesInv, AlternatesTryOnce
<1>6. CASE phase \in {"single", "probe", "original"}
  <2>1. \A p \in Providers \ {current} : tries[p] = 0
    BY <1>1, <1>6 DEF IndInv, FirstPassInv, TriesInv
  <2> QED BY <1>1, <1>2, <1>4, <1>6, <2>1 DEF TriesInv, AlternatesTryOnce
<1> QED BY <1>5, <1>6

\* Init establishes the counts.
LEMMA InitTries == Init => TriesInv
BY DEF Init, Options, TriesInv, AlternatesTryOnce

\* Every action keeps the counts: only Begin and Retry start an attempt.
LEMMA StepKeepsTries == IndInv /\ IndInv' /\ TriesInv /\ [Next]_vars => TriesInv'
<1> SUFFICES ASSUME IndInv, IndInv', TriesInv, [Next]_vars PROVE TriesInv'
  OBVIOUS
<1>0. TypeOK /\ StageInv
  BY DEF IndInv
<1>1. ASSUME phase # "settled", attempt = 0, Begin, UNCHANGED routing PROVE TriesInv'
  <2>1. \A p \in Providers \ {current} : runs'[p] = runs[p]
    BY <1>0, <1>1 DEF Begin, TypeOK
  <2> QED BY <1>1, <2>1, OneMoreTry DEF Begin, routing
<1>2. CASE Schedule
  <2>1. phase # "settled" /\ attempt = 0
    BY <1>0, <1>2 DEF Schedule, StageInv
  <2>2. CASE aborted /\ Fail("abort") /\ UNCHANGED effects
    BY <2>1, <2>2, FailUnstarted, UnstartedKeepsTries DEF effects
  <2>3. CASE UNCHANGED <<routing, attempt, hops, aborted, orphans, runs, tries>>
    BY <2>1, <2>3, UnstartedKeepsTries DEF Unstarted, routing
  <2>4. CASE Begin /\ UNCHANGED <<routing, hops, aborted, orphans>>
    BY <1>1, <2>1, <2>4
  <2> QED BY <1>2, <2>2, <2>3, <2>4 DEF Schedule
<1>3. CASE Refuse
  <2>1. phase \in {"probe", "failover"} /\ UNCHANGED <<runs, tries>> /\ attempt = 0
    BY <1>0, <1>3 DEF Refuse, StageInv, effects
  <2>2. CASE phase = "probe"
    BY <1>3, <2>1, <2>2, UnstartedKeepsTries DEF Refuse, Visit, Unstarted
  <2>3. CASE phase = "failover"
    <3>1. NextAlternate(lastError, blocked \cup {current})
      BY <1>3, <2>3 DEF Refuse
    <3> QED BY <2>1, <2>3, <3>1, NextAlternateUnstarted, UnstartedKeepsTries
  <2> QED BY <2>1, <2>2, <2>3
<1>4. CASE Start
  <2>1. phase # "settled"
    BY <1>0, <1>4 DEF Start, StageInv
  <2>2. CASE attempt = 0
    BY <1>1, <1>4, <2>1, <2>2 DEF Start
  <2>3. CASE attempt # 0
    BY <1>4, <2>1, <2>3, UnstartedKeepsTries DEF Start, Unstarted, routing
  <2> QED BY <2>2, <2>3
<1>5. CASE AbortWait
  <2>1. phase # "settled" /\ Fail("abort") /\ UNCHANGED <<runs, tries>>
    BY <1>0, <1>5 DEF AbortWait, StageInv
  <2> QED BY <2>1, FailUnstarted, UnstartedKeepsTries
<1>6. CASE Succeed
  <2>1. Unstarted
    BY <1>6 DEF Succeed, Settle, Unstarted, effects
  <2> QED BY <2>1, UnstartedKeepsTries
<1>7. ASSUME NEW k \in Failures, Reject(k) PROVE TriesInv'
  <2>1. phase # "settled" /\ Fail(k) /\ UNCHANGED <<runs, tries>>
    BY <1>0, <1>7 DEF Reject, StageInv, effects
  <2> QED BY <2>1, FailUnstarted, UnstartedKeepsTries
<1>8. CASE Retry
  <2>1. /\ phase # "settled" /\ attempt > 0 /\ attempt < Budget /\ attempt \in Nat
        /\ UNCHANGED <<phase, origin, current, runs>>
    BY <1>0, <1>8 DEF Retry, StageInv, TypeOK, routing
  <2>2. phase \in {"single", "probe", "original"} /\ Budget = MaxAttempts
    BY <1>0, <2>1 DEF Budget, TypeOK, Phases
  <2> QED BY <1>8, <2>1, <2>2, OneMoreTry DEF Retry
<1>9. CASE \/ Admit \/ Redirect \/ CallerAborts \/ UNCHANGED vars
           \/ \E p \in Providers : OrphanDrains(p)
  <2>1. Unstarted
    BY <1>9 DEF Admit, Redirect, CallerAborts, vars, OrphanDrains, Unstarted, routing
  <2> QED BY <2>1, UnstartedKeepsTries
<1> QED BY <1>2, <1>3, <1>4, <1>5, <1>6, <1>7, <1>8, <1>9 DEF Next

\* Whatever the buckets refuse and the servers answer, no provider reaches fetch twice in
\* one routed request but by a retry; only the provider whose failure ended the first pass is
\* tried more than once, and an alternate's call never retries (provider.ts, failoverGet and
\* failoverPost, which pass { enabled: false }).
THEOREM AtMostOnce == Spec => []NobodyTwice
<1>1. IndInv => ExecutesAtMostOnce
  BY DEF IndInv, RunsInv, ExecutesAtMostOnce
<1>2. TriesInv => AlternatesTryOnce
  BY DEF TriesInv
<1>3. Spec => []TriesInv
  BY InitTries, StepKeepsTries, Invariance, PTL DEF Spec
<1>4. IndInv /\ TriesInv => NobodyTwice
  BY <1>1, <1>2 DEF NobodyTwice
<1> QED BY <1>3, <1>4, Invariance, PTL

------------------------------------------------------------------------------
(***************************************************************************)
(* The refinement.  A step of the routing code is a stutter of the         *)
(* contract unless it starts, ends or replaces the executing provider.     *)
(***************************************************************************)
Used   == {p \in Providers : runs[p] > 0}
Active == IF attempt > 0 THEN {current} ELSE {}

\* What the contract sees is unchanged.
LEMMA Unseen ==
  ASSUME UNCHANGED <<opts, runs, result, aborted>>, Active' = Active
  PROVE  UNCHANGED Contract!vars
BY DEF Contract!vars, Active

\* The next capture after a failure is the contract's FailOver, and after a
\* refused probe it is a stutter.
LEMMA VisitRefines ==
  ASSUME IndInv, phase # "settled", attempt' = 0,
         UNCHANGED <<opts, runs, aborted, result>>,
         attempt > 0 => /\ opts.failover /\ ~aborted
                        /\ \E p \in Providers : runs[p] = 0
  PROVE  [Contract!Next]_(Contract!vars)
<1>1. CASE attempt > 0
  <2>1. Active # {} /\ Active' = {} /\ Used # Providers
    BY <1>1 DEF Active, Used
  <2>2. Contract!FailOver
    BY <1>1, <2>1 DEF Contract!FailOver, Active, Used
  <2> QED BY <2>2 DEF Contract!Next
<1>2. CASE ~(attempt > 0)
  <2>1. Active = {} /\ Active' = {}
    BY <1>2 DEF Active
  <2> QED BY <2>1, Unseen
<1> QED BY <1>1, <1>2

\* A request that settles with a failure is the contract's Fail or Abandon.
LEMMA SettleRefines ==
  ASSUME IndInv, phase # "settled", NEW k \in Failures,
         Settle([kind |-> k, by |-> current]),
         UNCHANGED <<opts, runs, aborted>>,
         attempt = 0 => aborted /\ k = "abort",
         k \in {"retryable", "network"} =>
           ~opts.failover \/ aborted \/ \A p \in Providers : runs[p] = 1
  PROVE  Contract!Next
<1>1. /\ current \in Providers /\ result = Pending
      /\ attempt' = 0 /\ result' = [kind |-> k, by |-> current]
  BY DEF IndInv, TypeOK, StageInv, Settle
<1>2. Active' = {}
  BY <1>1 DEF Active
<1>3. CASE attempt = 0
  <2>1. Contract!Abandon(current)
    BY <1>1, <1>2, <1>3 DEF Contract!Abandon, Contract!Pending, Pending, Active
  <2> QED BY <1>1, <2>1 DEF Contract!Next
<1>4. CASE attempt # 0
  <2>1. Active = {current}
    BY <1>4 DEF IndInv, TypeOK, Active
  <2>2. (\A p \in Providers : runs[p] = 1) => Used = Providers
    BY DEF Used
  <2>3. Contract!GiveUp(current, k)
    BY <1>1, <1>2, <2>1, <2>2 DEF Contract!GiveUp, Active, Used
  <2> QED BY <1>1, <2>3 DEF Contract!Next, Failures
<1> QED BY <1>3, <1>4

\* A failure of the current attempt is a step of the contract or a stutter.
LEMMA FailRefines ==
  ASSUME IndInv, phase # "settled", NEW k \in Failures, Fail(k),
         attempt = 0 => aborted /\ k = "abort",
         UNCHANGED <<opts, aborted, runs, tries>>
  PROVE  [Contract!Next]_(Contract!vars)
<1> DEFINE err == [kind |-> k, by |-> current]
<1>1. IsFailoverFailure(k) => attempt > 0 /\ ~aborted
  BY DEF IsFailoverFailure, IndInv, TypeOK
<1>2. CASE phase \in {"single", "probe", "original"}
  <2>1. CASE opts.failover /\ IsFailoverFailure(k) /\ Unattempted # {}
    <3>1. /\ Visit("failover", current, Unattempted)
          /\ \E p \in Providers : runs[p] = 0
      BY <1>2, <2>1 DEF Fail, IndInv, FirstPassInv, Unattempted
    <3> QED BY <1>1, <2>1, <3>1, VisitRefines DEF Visit
  <2>2. CASE ~(opts.failover /\ IsFailoverFailure(k) /\ Unattempted # {})
    <3>1. Settle(err)
      BY <1>2, <2>2 DEF Fail
    <3>2. k \in {"retryable", "network"} =>
            ~opts.failover \/ aborted \/ \A p \in Providers : runs[p] = 1
      BY <1>1, <2>2 DEF IsFailoverFailure, IndInv, RunsInv, Unattempted
    <3> QED BY <3>1, <3>2, SettleRefines
  <2> QED BY <2>1, <2>2
<1>3. CASE phase \notin {"single", "probe", "original"} /\ ~IsFailoverFailure(k)
  <2>1. Settle(err)
    BY <1>3 DEF Fail
  <2>2. k \in {"retryable", "network"} => aborted
    BY <1>3 DEF IsFailoverFailure
  <2> QED BY <2>1, <2>2, SettleRefines
<1>4. CASE phase \notin {"single", "probe", "original"} /\ IsFailoverFailure(k)
  <2>1. NextAlternate(err, blocked) /\ opts.failover
        /\ phase \in {"failover", "blocked"}
    BY <1>4 DEF Fail, IndInv, TypeOK, Phases, FailoverPassInv, BlockedPassInv
  <2>2. CASE todo # {} /\ Visit(phase, origin, todo)
    <3>1. \E p \in Providers : runs[p] = 0
      BY <2>1, <2>2 DEF IndInv, TypeOK, FailoverPassInv, BlockedPassInv
    <3> QED BY <1>1, <1>4, <2>1, <2>2, <3>1, VisitRefines DEF Visit
  <2>3. CASE phase = "failover" /\ blocked # {} /\ Visit("blocked", origin, blocked)
    <3>1. \E p \in Providers : runs[p] = 0
      BY <2>3 DEF IndInv, TypeOK, FailoverPassInv
    <3> QED BY <1>1, <1>4, <2>1, <2>3, <3>1, VisitRefines DEF Visit
  <2>4. CASE todo = {} /\ (phase = "blocked" \/ blocked = {}) /\ Settle(err)
    <3>1. \A p \in Providers : runs[p] = 1
      BY <1>1, <1>4, <2>1, <2>4
      DEF IndInv, TypeOK, RunsInv, FailoverPassInv, BlockedPassInv
    <3> QED BY <2>4, <3>1, SettleRefines
  <2> QED BY <2>1, <2>2, <2>3, <2>4 DEF NextAlternate
<1> QED BY <1>2, <1>3, <1>4

\* Reaching fetch is the contract's Execute.
LEMMA BeginRefines ==
  ASSUME IndInv, phase # "settled", attempt = 0, ~aborted, Begin,
         UNCHANGED <<routing, hops, aborted, orphans>>
  PROVE  Contract!Next
<1>1. /\ current \in Providers /\ runs[current] = 0 /\ result = Pending
      /\ runs \in [Providers -> {0, 1}]
  BY DEF IndInv, TypeOK, StageInv, RunsInv
<1>2. /\ runs'[current] = 1
      /\ \A p \in Providers : p # current => runs'[p] = runs[p]
  BY <1>1 DEF Begin
<1>3. Active = {} /\ Active' = {current} /\ Used' = Used \cup {current}
      /\ current \notin Used
  BY <1>1, <1>2 DEF Active, Used, Begin, routing
<1>4. Used = {} \/ opts.failover
  <2>1. phase \in {"single", "probe", "original"} => Used = {}
    BY <1>1 DEF IndInv, FirstPassInv, Used
  <2>2. phase \in {"failover", "blocked"} => opts.failover
    BY DEF IndInv, FailoverPassInv, BlockedPassInv
  <2> QED BY <2>1, <2>2 DEF IndInv, TypeOK, Phases
<1>5. \E p \in Providers : Contract!Execute(p)
  BY <1>1, <1>3, <1>4 DEF Contract!Execute, Contract!Pending, Pending, Active, Used, routing
<1> QED BY <1>5 DEF Contract!Next

\* Every behaviour of the routing code is one the contract allows.
THEOREM Refinement == Spec => ImplementsContract
<1>1. Init => Contract!Init
  BY DEF Init, Contract!Init, Contract!Pending, Pending, Options
<1>2. IndInv /\ [Next]_vars => [Contract!Next]_(Contract!vars)
  <2> SUFFICES ASSUME IndInv, [Next]_vars PROVE [Contract!Next]_(Contract!vars)
    OBVIOUS
  <2>0. TypeOK /\ StageInv
    BY DEF IndInv
  <2>1. CASE Schedule
    <3>1. phase # "settled" /\ attempt = 0
      BY <2>0, <2>1 DEF Schedule, StageInv
    <3>2. CASE aborted /\ Fail("abort") /\ UNCHANGED effects
      BY <3>1, <3>2, FailRefines DEF effects, Failures
    <3>3. CASE /\ ~aborted /\ current \in opts.limited
               /\ UNCHANGED <<routing, attempt, hops, aborted, orphans, runs, tries>>
      BY <3>3, Unseen DEF routing, Active
    <3>4. CASE ~aborted /\ Begin /\ UNCHANGED <<routing, hops, aborted, orphans>>
      BY <3>1, <3>4, BeginRefines
    <3> QED BY <2>1, <3>2, <3>3, <3>4 DEF Schedule
  <2>2. CASE Refuse
    <3>1. phase # "settled" /\ attempt = 0
          /\ UNCHANGED <<opts, aborted, orphans, runs, tries>>
      BY <2>0, <2>2 DEF Refuse, StageInv, effects
    <3>2. attempt' = 0 /\ result' = result
      <4>1. CASE phase = "probe"
        BY <2>2, <3>1, <4>1 DEF Refuse, Visit
      <4>2. CASE phase # "probe"
        <5>1. phase = "failover" /\ NextAlternate(lastError, blocked \cup {current})
          BY <2>0, <2>2, <4>2 DEF Refuse, StageInv
        <5> QED BY <5>1 DEF NextAlternate, Visit
      <4> QED BY <4>1, <4>2
    <3> QED BY <3>1, <3>2, VisitRefines
  <2>3. CASE Start
    <3>1. phase # "settled"
      BY <2>0, <2>3 DEF Start, StageInv
    <3>2. CASE attempt = 0
      BY <2>3, <3>1, <3>2, BeginRefines DEF Start
    <3>3. CASE attempt # 0
      BY <2>3, <3>3, Unseen DEF Start, routing, Active
    <3> QED BY <3>2, <3>3
  <2>4. CASE AbortWait
    <3>1. phase # "settled" /\ Fail("abort") /\ aborted
          /\ UNCHANGED <<opts, aborted, runs, tries>>
      BY <2>0, <2>4 DEF AbortWait, StageInv
    <3> QED BY <3>1, FailRefines DEF Failures
  <2>5. CASE Succeed
    <3>1. /\ current \in Providers /\ Active = {current} /\ Active' = {}
          /\ result' = [kind |-> "ok", by |-> current]
          /\ UNCHANGED <<opts, runs, aborted>>
      BY <2>0, <2>5 DEF Succeed, Settle, StageInv, TypeOK, effects, Active
    <3>2. Contract!Succeed(current)
      BY <3>1 DEF Contract!Succeed, Active
    <3> QED BY <3>1, <3>2 DEF Contract!Next
  <2>6. ASSUME NEW k \in Failures, Reject(k) PROVE [Contract!Next]_(Contract!vars)
    <3>1. phase # "settled" /\ attempt # 0 /\ Fail(k)
          /\ UNCHANGED <<opts, aborted, runs, tries>>
      BY <2>0, <2>6 DEF Reject, StageInv, TypeOK, effects
    <3> QED BY <3>1, FailRefines
  <2>7. CASE Admit \/ Retry \/ Redirect
    <3>1. UNCHANGED <<opts, runs, result, aborted, current>>
          /\ (attempt' > 0 <=> attempt > 0)
      BY <2>0, <2>7 DEF Admit, Retry, Redirect, routing, StageInv, TypeOK
    <3> QED BY <3>1, Unseen DEF Active
  <2>8. CASE CallerAborts
    <3>1. /\ result = Pending /\ ~aborted /\ aborted' = TRUE
          /\ UNCHANGED <<opts, runs, result, current, attempt>>
      BY <2>0, <2>8 DEF CallerAborts, StageInv, routing
    <3>2. Contract!Cancel
      BY <3>1 DEF Contract!Cancel, Contract!Pending, Pending
    <3> QED BY <3>2 DEF Contract!Next
  <2>9. CASE UNCHANGED vars \/ \E p \in Providers : OrphanDrains(p)
    <3>1. UNCHANGED <<opts, runs, result, aborted, current, attempt>>
      BY <2>9 DEF vars, OrphanDrains
    <3> QED BY <3>1, Unseen DEF Active
  <2> QED BY <2>1, <2>2, <2>3, <2>4, <2>5, <2>6, <2>7, <2>8, <2>9 DEF Next
<1> QED BY <1>1, <1>2, Invariance, PTL DEF Spec, ImplementsContract, Contract!Spec
===============================================================================
