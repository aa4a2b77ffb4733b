--------------------------- MODULE RoutingContract ---------------------------
(***************************************************************************)
(* What a routed request promises, with no limiter, no probing, no retry   *)
(* and no rotation: providers execute one at a time and each at most once, *)
(* another provider executes only because the one before it failed and     *)
(* failover is on, nothing executes after the caller cancels, and a        *)
(* failure that allows failover is reported only when nobody is left.      *)
(***************************************************************************)
CONSTANT Providers

VARIABLES
  mayFailOver,  \* switchProviderOnFailure
  used,         \* the providers that have executed
  active,       \* the one executing now: a set of at most one provider
  cancelled,    \* the caller has cancelled
  outcome       \* what the caller gets

vars == <<mayFailOver, used, active, cancelled, outcome>>

Pending == [kind |-> "pending"]

Init ==
  /\ mayFailOver \in BOOLEAN
  /\ used = {} /\ active = {} /\ cancelled = FALSE /\ outcome = Pending

Execute(p) ==
  /\ outcome = Pending /\ active = {} /\ ~cancelled
  /\ p \notin used
  /\ used = {} \/ mayFailOver
  /\ active' = {p} /\ used' = used \cup {p}
  /\ UNCHANGED <<mayFailOver, cancelled, outcome>>

FailOver ==
  /\ active # {} /\ ~cancelled /\ mayFailOver
  /\ used # Providers
  /\ active' = {}
  /\ UNCHANGED <<mayFailOver, used, cancelled, outcome>>

Succeed(p) ==
  /\ active = {p}
  /\ outcome' = [kind |-> "ok", by |-> p]
  /\ active' = {}
  /\ UNCHANGED <<mayFailOver, used, cancelled>>

\* A failure that allows failover is the last word only if nobody is left.
GiveUp(p, kind) ==
  /\ active = {p}
  /\ kind \in {"retryable", "network"} =>
       ~mayFailOver \/ cancelled \/ used = Providers
  /\ outcome' = [kind |-> kind, by |-> p]
  /\ active' = {}
  /\ UNCHANGED <<mayFailOver, used, cancelled>>

\* A cancelled request need not have reached any provider.
Abandon(p) ==
  /\ outcome = Pending /\ cancelled
  /\ active \subseteq {p}
  /\ outcome' = [kind |-> "abort", by |-> p]
  /\ active' = {}
  /\ UNCHANGED <<mayFailOver, used, cancelled>>

Cancel ==
  /\ outcome = Pending /\ ~cancelled
  /\ cancelled' = TRUE
  /\ UNCHANGED <<mayFailOver, used, active, outcome>>

Next ==
  \/ FailOver \/ Cancel
  \/ \E p \in Providers :
       \/ Execute(p) \/ Succeed(p) \/ Abandon(p)
       \/ \E kind \in {"retryable", "network", "final", "abort"} :
            GiveUp(p, kind)

Spec == Init /\ [][Next]_vars
==============================================================================
