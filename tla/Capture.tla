------------------------------- MODULE Capture -------------------------------
(***************************************************************************)
(* What the routing code assumes of one captured attempt (captureGet,      *)
(* capturePost): it waits in the bucket if there is one, only a probe may  *)
(* be refused and only before anything was fetched, its retries stay       *)
(* within the budget and every physical attempt after the first pays the   *)
(* bucket again, and nothing starts once the caller has aborted.           *)
(***************************************************************************)
EXTENDS Naturals

CONSTANT MaxHops  \* how many redirects one attempt may follow

VARIABLES
  limited, probe, budget,  \* the target's bucket, the behaviour, the attempts
  stage, attempt, hops, aborted, outcome

vars == <<limited, probe, budget, stage, attempt, hops, aborted, outcome>>
given == <<limited, probe, budget>>

Outcomes == {"ok", "retryable", "final", "network", "abort", "capacity"}

Init ==
  /\ limited \in BOOLEAN /\ probe \in BOOLEAN /\ probe => limited
  /\ budget \in Nat \ {0}
  /\ stage = "call" /\ attempt = 0 /\ hops = 0
  /\ aborted = FALSE /\ outcome = "none"

End(o) ==
  /\ outcome' = o /\ stage' = "done" /\ attempt' = 0 /\ hops' = 0
  /\ UNCHANGED <<given, aborted>>

Schedule ==
  /\ stage = "call" /\ ~aborted
  /\ IF limited
     THEN stage' = (IF probe THEN "probing" ELSE "queued") /\ UNCHANGED attempt
     ELSE stage' = "running" /\ attempt' = 1
  /\ UNCHANGED <<given, hops, aborted, outcome>>

Refuse == stage = "probing" /\ ~aborted /\ End("capacity")

Admit ==
  /\ stage = "probing" /\ ~aborted
  /\ stage' = "queued"
  /\ UNCHANGED <<given, attempt, hops, aborted, outcome>>

Start ==
  /\ stage = "queued" /\ ~aborted
  /\ stage' = "running" /\ attempt' = (IF attempt = 0 THEN 1 ELSE attempt)
  /\ UNCHANGED <<given, hops, aborted, outcome>>

AbortWait ==
  /\ aborted /\ stage \in {"call", "probing", "queued"}
  /\ End("abort")

Finish == stage = "running" /\ \E o \in Outcomes \ {"capacity"} : End(o)

Redispatched == IF limited THEN "queued" ELSE "running"

Retry ==
  /\ stage = "running" /\ ~aborted
  /\ attempt < budget
  /\ attempt' = attempt + 1 /\ hops' = 0 /\ stage' = Redispatched
  /\ UNCHANGED <<given, aborted, outcome>>

Redirect ==
  /\ stage = "running" /\ ~aborted
  /\ hops < MaxHops
  /\ hops' = hops + 1 /\ stage' = Redispatched
  /\ UNCHANGED <<given, attempt, aborted, outcome>>

CallerAborts ==
  /\ ~aborted /\ stage # "done"
  /\ aborted' = TRUE
  /\ UNCHANGED <<given, stage, attempt, hops, outcome>>

Next ==
  \/ Schedule \/ Refuse \/ Admit \/ Start \/ AbortWait \/ Finish
  \/ Retry \/ Redirect \/ CallerAborts

Spec == Init /\ [][Next]_vars
==============================================================================
