------------------------------- MODULE Routing -------------------------------
(***************************************************************************)
(* One routed request of ProviderRegistry (getWithTarget and post): which  *)
(* providers of the network it visits, in which order, when it waits in a  *)
(* limiter bucket, when an attempt starts, and what the caller gets.       *)
(*                                                                         *)
(* GET and POST run the same loops (preemptiveGet and preemptivePost,      *)
(* failoverGet and failoverPost), so one module stands for both.  The HTTP *)
(* exchange itself is module Transport; here it is a running job that ends *)
(* with an outcome class, asks for a retry, or follows a redirect.  The    *)
(* bucket is module Limiter; here it may refuse or hold any probe.         *)
(***************************************************************************)
EXTENDS Naturals, FiniteSets

CONSTANTS
  Providers,    \* the providers that define the request's network
  Rank,         \* Rank[p]: the position of p among the keys of the provider map
  MaxAttempts,  \* retry.maxAttempts of every provider (1: retries disabled)
  MaxHops       \* how many redirects one attempt may follow

ASSUME RankAssumption ==
  /\ Providers # {} /\ IsFiniteSet(Providers)
  /\ Rank \in [Providers -> 1 .. Cardinality(Providers)]
  /\ \A p, q \in Providers : Rank[p] = Rank[q] => p = q

ASSUME BudgetAssumption ==
  /\ MaxAttempts \in Nat \ {0}
  /\ MaxHops \in Nat

VARIABLES
  opts,       \* the requested provider, the client's two switches, and which
              \* providers have a limiter bucket
  phase,      \* where the routing code is
  origin,     \* the provider the loop's rotation starts at
  todo,       \* the providers the current loop has still to visit
  blocked,    \* capacityBlocked: the alternates that refused a failover probe
  current,    \* the provider of the captured attempt
  stage,      \* where that captured attempt is
  attempt,    \* attempts begun by its HttpTransport.request call
  hops,       \* redirects followed by its current attempt
  lastError,  \* the error the failover would throw if it stopped now
  result,     \* what the caller gets
  aborted,    \* the caller's AbortSignal
  orphans,    \* buckets holding a job whose caller was rejected on abort
  runs,       \* runs[p]: captured attempts of p that reached fetch
  tries       \* tries[p]: attempts begun on p

vars == <<opts, phase, origin, todo, blocked, current, stage, attempt, hops,
          lastError, result, aborted, orphans, runs, tries>>

Options  == [start : Providers, overflow : BOOLEAN, failover : BOOLEAN,
             limited : SUBSET Providers]
Failures == {"retryable", "network", "final", "abort"}
Error    == [kind : Failures, by : Providers]
NoError  == [kind |-> "none"]
Pending  == [kind |-> "pending"]
Phases   == {"single", "probe", "original", "failover", "blocked", "settled"}
Stages   == {"call", "probing", "queued", "running", "idle"}

Several == Cardinality(Providers) > 1

(***************************************************************************)
(* providersForNetwork: the key order rotated so that `start` comes first. *)
(* A loop over it visits, next, the first of the providers still to do.    *)
(***************************************************************************)
Rotated(start, p) ==
  IF Rank[p] >= Rank[start] THEN Rank[p] ELSE Rank[p] + Cardinality(Providers)

First(start, S) ==
  CHOOSE p \in S : \A q \in S : Rotated(start, p) <= Rotated(start, q)

(***************************************************************************)
(* isFailoverFailure: HttpNetworkError, or an HttpError of a retryable     *)
(* status, and never once the caller has aborted.                          *)
(***************************************************************************)
IsFailoverFailure_NoAbortCheck(kind) == kind \in {"retryable", "network"}

IsFailoverFailure(kind) == ~aborted /\ kind \in {"retryable", "network"}

\* Mutant: the attempted set starts with the requested provider.
Unattempted_OfRequested == Providers \ {opts.start}

\* The failover's attempted set starts with the provider that failed, which is
\* not always the requested one.
Unattempted == Providers \ {current}

\* The limiter behaviour of the first dispatch of a captured attempt.
Behavior ==
  IF phase = "probe" \/ (phase = "failover" /\ opts.overflow)
  THEN "overflow" ELSE "queue"

\* Failover passes { enabled: false }; the first provider has its own policy.
Budget == IF phase \in {"failover", "blocked"} THEN 1 ELSE MaxAttempts

------------------------------------------------------------------------------
(***************************************************************************)
(* The pieces of a step that end one captured attempt.                     *)
(***************************************************************************)
Settle(r) ==
  /\ phase' = "settled" /\ stage' = "idle" /\ result' = r
  /\ attempt' = 0 /\ hops' = 0
  /\ UNCHANGED <<origin, todo, blocked, current, lastError>>

\* Capture the first provider of S, in rotation order from start, within loop ph.
Visit(ph, start, S) ==
  /\ phase' = ph /\ origin' = start /\ stage' = "call"
  /\ current' = First(start, S) /\ todo' = S \ {First(start, S)}
  /\ attempt' = 0 /\ hops' = 0
  /\ UNCHANGED result

\* Mutant: the saturated alternates are never queued on.
NextAlternate_DropsSaturated(err, saturated) ==
  \/ /\ todo # {}
     /\ Visit(phase, origin, todo)
     /\ lastError' = err /\ blocked' = saturated
  \/ todo = {} /\ Settle(err)

\* The tail of failoverGet: the next alternate, then the saturated ones in
\* order, then throw lastError.
NextAlternate(err, saturated) ==
  \/ /\ todo # {}
     /\ Visit(phase, origin, todo)
     /\ lastError' = err /\ blocked' = saturated
  \/ /\ todo = {} /\ phase = "failover" /\ saturated # {}
     /\ Visit("blocked", origin, saturated)
     /\ lastError' = err /\ blocked' = saturated
  \/ /\ todo = {} /\ (phase = "blocked" \/ saturated = {})
     /\ Settle(err)

\* A captured attempt rejected with a failure of class k.
Fail(k) ==
  LET err == [kind |-> k, by |-> current] IN
  IF phase \in {"single", "probe", "original"}
  THEN IF opts.failover /\ IsFailoverFailure(k) /\ Unattempted # {}
       THEN /\ Visit("failover", current, Unattempted)
            /\ lastError' = err /\ UNCHANGED blocked
       ELSE Settle(err)
  ELSE IF IsFailoverFailure(k)
       THEN NextAlternate(err, blocked)
       ELSE Settle(err)

\* The captured attempt's job reaches fetch for the first time.
Begin ==
  /\ attempt' = 1 /\ stage' = "running"
  /\ runs' = [runs EXCEPT ![current] = @ + 1]
  /\ tries' = [tries EXCEPT ![current] = @ + 1]

\* Where a further physical attempt goes: every one pays the bucket again.
Redispatched == IF current \in opts.limited THEN "queued" ELSE "running"

routing == <<opts, phase, origin, todo, blocked, current, lastError, result>>
effects == <<opts, aborted, orphans, runs, tries>>

------------------------------------------------------------------------------
Init ==
  /\ opts \in Options
  /\ phase = (IF opts.overflow /\ Several THEN "probe" ELSE "single")
  /\ origin = opts.start /\ current = opts.start
  /\ todo = (IF opts.overflow /\ Several THEN Providers \ {opts.start} ELSE {})
  /\ blocked = {} /\ stage = "call" /\ attempt = 0 /\ hops = 0
  /\ lastError = NoError /\ result = Pending
  /\ aborted = FALSE /\ orphans = {}
  /\ runs = [p \in Providers |-> 0] /\ tries = [p \in Providers |-> 0]

\* captureGet / capturePost: hand the attempt to the bucket, or straight to fetch.
Schedule ==
  /\ stage = "call"
  /\ \/ /\ aborted /\ Fail("abort") /\ UNCHANGED effects
     \/ /\ ~aborted /\ current \in opts.limited
        /\ stage' = (IF Behavior = "overflow" THEN "probing" ELSE "queued")
        /\ UNCHANGED <<routing, attempt, hops, aborted, orphans, runs, tries>>
     \/ /\ ~aborted /\ current \notin opts.limited
        /\ Begin /\ UNCHANGED <<routing, hops, aborted, orphans>>

\* Mutant: when every bucket refuses, the probing starts over.
Refuse_ProbesAgain ==
  /\ stage = "probing" /\ ~aborted
  /\ IF phase = "probe"
     THEN /\ Visit("probe", origin, IF todo # {} THEN todo ELSE Providers)
          /\ UNCHANGED <<blocked, lastError>>
     ELSE NextAlternate(lastError, blocked \cup {current})
  /\ UNCHANGED effects

\* LimiterCapacityError: the bucket cannot start the probe now.
Refuse ==
  /\ stage = "probing" /\ ~aborted
  /\ IF phase = "probe"
     THEN /\ IF todo # {}
             THEN Visit("probe", origin, todo)
             ELSE /\ phase' = "original" /\ stage' = "call"
                  /\ current' = opts.start
                  /\ UNCHANGED <<origin, todo, attempt, hops, result>>
          /\ UNCHANGED <<blocked, lastError>>
     ELSE NextAlternate(lastError, blocked \cup {current})
  /\ UNCHANGED effects

\* The probe is admitted: it is submitted to the bucket like any other job.
Admit ==
  /\ stage = "probing" /\ ~aborted
  /\ stage' = "queued"
  /\ UNCHANGED <<routing, attempt, hops, aborted, orphans, runs, tries>>

\* The bucket runs the job; the abort recheck at the execution boundary passes.
Start ==
  /\ stage = "queued" /\ ~aborted
  /\ IF attempt = 0
     THEN Begin
     ELSE stage' = "running" /\ UNCHANGED <<attempt, runs, tries>>
  /\ UNCHANGED <<routing, hops, aborted, orphans>>

\* Mutant: only a job already in the queue is watched for the abort.
AbortWait_QueuedOnly ==
  /\ aborted /\ stage = "queued"
  /\ Fail("abort")
  /\ orphans' = orphans \cup {current}
  /\ UNCHANGED <<opts, aborted, runs, tries>>

\* observeAbort rejects at once; the job stays behind in the bucket.
AbortWait ==
  /\ aborted /\ stage \in {"probing", "queued"}
  /\ Fail("abort")
  /\ orphans' = orphans \cup {current}
  /\ UNCHANGED <<opts, aborted, runs, tries>>

\* Mutant: no recheck of the signal at the execution boundary.
OrphanDrains_NoRecheck(p) ==
  /\ p \in orphans
  /\ orphans' = orphans \ {p}
  /\ tries' = [tries EXCEPT ![p] = @ + 1]
  /\ UNCHANGED <<opts, phase, origin, todo, blocked, current, stage, attempt,
                 hops, lastError, result, aborted, runs>>

\* The job left behind drains: its recheck of the signal keeps it off fetch.
OrphanDrains(p) ==
  /\ p \in orphans
  /\ orphans' = orphans \ {p}
  /\ UNCHANGED <<opts, phase, origin, todo, blocked, current, stage, attempt,
                 hops, lastError, result, aborted, runs, tries>>

Succeed ==
  /\ stage = "running"
  /\ Settle([kind |-> "ok", by |-> current])
  /\ UNCHANGED effects

\* HttpTransport.request rejects.  An AbortError may also come from fetch itself.
Reject(k) ==
  /\ stage = "running"
  /\ Fail(k)
  /\ UNCHANGED effects

\* Mutant: the attempt limit is off by one.
Retry_OneTooMany ==
  /\ stage = "running" /\ ~aborted
  /\ attempt <= Budget
  /\ attempt' = attempt + 1 /\ hops' = 0 /\ stage' = Redispatched
  /\ tries' = [tries EXCEPT ![current] = @ + 1]
  /\ UNCHANGED <<routing, aborted, orphans, runs>>

\* The transport's retry loop: the wait before it is abandoned on abort.
Retry ==
  /\ stage = "running" /\ ~aborted
  /\ attempt < Budget
  /\ attempt' = attempt + 1 /\ hops' = 0 /\ stage' = Redispatched
  /\ tries' = [tries EXCEPT ![current] = @ + 1]
  /\ UNCHANGED <<routing, aborted, orphans, runs>>

\* A followed redirect is a new physical fetch of the same attempt.
Redirect ==
  /\ stage = "running" /\ ~aborted
  /\ hops < MaxHops
  /\ hops' = hops + 1 /\ stage' = Redispatched
  /\ UNCHANGED <<routing, attempt, aborted, orphans, runs, tries>>

CallerAborts ==
  /\ ~aborted /\ phase # "settled"
  /\ aborted' = TRUE
  /\ UNCHANGED <<routing, stage, attempt, hops, orphans, runs, tries>>

Next ==
  \/ Schedule \/ Refuse \/ Admit \/ Start \/ AbortWait \/ Succeed
  \/ Retry \/ Redirect \/ CallerAborts
  \/ \E k \in Failures : Reject(k)
  \/ \E p \in Providers : OrphanDrains(p)

Spec == Init /\ [][Next]_vars

(***************************************************************************)
(* Fairness.  The routing code runs whenever it can, a bucket decides every*)
(* probe and drains (its reservoir is refreshed), and an attempt ends: its *)
(* retries and redirects are bounded, and fetch answers or times out.      *)
(***************************************************************************)
Progress ==
  /\ WF_vars(Schedule) /\ WF_vars(Start) /\ WF_vars(AbortWait)
  /\ WF_vars(Refuse \/ Admit)
  /\ WF_vars(Succeed \/ \E k \in Failures : Reject(k))

FairSpec == Spec /\ Progress

\* Only the client's own steps: no bucket ever drains and no server answers,
\* but fetch rejects once its signal is aborted.
AbortFairSpec ==
  /\ Spec /\ WF_vars(Schedule) /\ WF_vars(AbortWait)
  /\ WF_vars(aborted /\ Reject("abort"))

------------------------------------------------------------------------------
(***************************************************************************)
(* Properties.                                                             *)
(***************************************************************************)
\* Every variable keeps its type; attempts and redirects keep their limits.
TypeOK ==
  /\ opts \in Options
  /\ phase \in Phases /\ stage \in Stages
  /\ origin \in Providers /\ current \in Providers
  /\ todo \subseteq Providers /\ blocked \subseteq Providers
  /\ attempt \in 0 .. MaxAttempts /\ hops \in 0 .. MaxHops
  /\ lastError \in Error \cup {NoError}
  /\ result \in Error \cup [kind : {"ok"}, by : Providers] \cup {Pending}
  /\ aborted \in BOOLEAN /\ orphans \subseteq Providers
  /\ runs \in [Providers -> Nat] /\ tries \in [Providers -> Nat]

\* README "Never executes the same provider twice, including when overflow
\* routing selected a provider other than the requested one": over probing,
\* the failover pass and the queued pass, a provider reaches fetch once.
ExecutesAtMostOnce == \A p \in Providers : runs[p] <= 1

\* failoverGet "Stopping after the first queued failure would leave an untried
\* healthy provider, contrary to the failover contract": a request that fails
\* with a failure that allows failover has executed on every provider.
ExhaustsBeforeFailing ==
  (phase = "settled" /\ opts.failover /\ IsFailoverFailure(result.kind))
    => \A p \in Providers : runs[p] = 1

\* README "alternates with immediate capacity are tried before saturated
\* alternates": when the failover starts to wait in a saturated bucket, each
\* provider that did not refuse the probe has already executed and failed.
SaturatedLast ==
  phase = "blocked" => \A p \in Providers \ blocked : runs[p] = 1

\* README "Each alternate provider gets one physical attempt, with its own retry policy
\* disabled": only the provider whose failure ended the first pass is tried again, within
\* its limit, however the probing chose it and whichever buckets the failover waits in.
AlternatesTryOnce ==
  /\ \A p \in Providers :
       /\ tries[p] <= MaxAttempts
       /\ tries[p] > 1 => \A q \in Providers \ {p} : tries[q] <= 1
  /\ phase \in {"failover", "blocked"} => \A p \in Providers \ {origin} : tries[p] <= 1

\* Nobody is asked twice: no provider executes twice, and only the one that failed first is
\* retried (provider.ts, the attempted set and { enabled: false } of failoverGet).
NobodyTwice == ExecutesAtMostOnce /\ AlternatesTryOnce

\* Nobody is left out: everyone has executed before the failover gives up, and everyone
\* with capacity before it waits (provider.ts, the two loops of failoverGet).
NobodyLeftOut == ExhaustsBeforeFailing /\ SaturatedLast

\* README "If an AbortSignal fires while a request is queued ... no HTTP request
\* is sent", and "A caller abort stops limiter waiting, retries, failover": no
\* step after the abort, nor after the request settled, starts an attempt, and
\* neither does a job left behind in a bucket.
AbortStopsWork ==
  [][aborted \/ phase = "settled" => UNCHANGED <<runs, tries>>]_vars

\* Under FairSpec every routed request settles, whatever the buckets refuse and
\* the providers answer.
Settles == <>(phase = "settled")

\* README "the caller is rejected promptly": under AbortFairSpec, where no bucket
\* drains and no server answers, an abort still settles the request.
AbortIsPrompt == aborted ~> phase = "settled"

\* The detailed routing implements the contract: the provider executing is the
\* current one once its attempt has begun.
Contract == INSTANCE RoutingContract WITH
  mayFailOver <- opts.failover,
  used        <- {p \in Providers : runs[p] > 0},
  active      <- IF attempt > 0 THEN {current} ELSE {},
  cancelled   <- aborted,
  outcome     <- result

ImplementsContract == Contract!Spec

\* README "Each alternate provider gets one physical attempt": as the transport
\* numbers physical attempts, a followed redirect is another one.
AlternateGetsOnePhysicalAttempt ==
  phase \in {"failover", "blocked"} => hops = 0
==============================================================================
