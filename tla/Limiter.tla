------------------------------- MODULE Limiter -------------------------------
(***************************************************************************)
(* One bucket of LimiterRegistry: the submissions it makes to its          *)
(* Bottleneck instance and the batched decision of overflow probes.        *)
(*                                                                         *)
(* Bottleneck itself is external.  It is modelled as this code relies on   *)
(* it: a FIFO of received jobs whose head is registered (the "scheduled"   *)
(* event) as soon as the reservoir and the concurrency allow, minTime      *)
(* spacing applied after registration, check(w) answering from the         *)
(* capacity of that moment, and a reservoir that is refreshed now and then.*)
(***************************************************************************)
EXTENDS Naturals, Sequences, SequencesExt, FiniteSets

CONSTANTS
  Requests,  \* the calls of schedule() on this bucket
  Settings   \* the limiter configurations to start from

ASSUME SettingsAssumption ==
  /\ IsFiniteSet(Requests)
  /\ Settings \subseteq [reservoir : Nat, refresh : Nat \ {0}, spaced : BOOLEAN,
                         concurrent : Nat \ {0}]

VARIABLES
  cfg,        \* reservoir, refresh amount, minTime > 0, maxConcurrent
  status,     \* status[r]: what became of the call
  mode,       \* mode[r]: its LimiterBehavior
  pending,    \* pendingRegistration
  version,    \* version
  probes,     \* overflowQueue
  flush,      \* overflowFlushScheduled, and whether flushOverflow is checking
  batch,      \* the burst being decided
  snapshot,   \* pendingRegistration.size and version when it was taken
  verdicts,   \* the answers of check() so far
  line,       \* Bottleneck: received jobs, not registered
  slots,      \* Bottleneck: registered jobs waiting for their minTime slot
  cooling,    \* Bottleneck: the last start was less than minTime ago
  tokens      \* Bottleneck: the reservoir

entry == <<pending, version, probes, flush, batch, snapshot, verdicts>>
bottleneck == <<line, slots, cooling, tokens>>
vars == <<cfg, status, mode, entry, bottleneck>>

Registered == {r \in Requests : status[r] \in {"registered", "running"}}
Room == cfg.concurrent - Cardinality(Registered)
Capacity == IF tokens < Room THEN tokens ELSE Room

\* Bottleneck's check(w): whether a job of weight w would start now.
Check(w) == w <= Capacity /\ slots = <<>> /\ ~cooling

------------------------------------------------------------------------------
Init ==
  /\ cfg \in Settings
  /\ status = [r \in Requests |-> "new"] /\ mode = [r \in Requests |-> "queue"]
  /\ pending = {} /\ version = 0 /\ probes = <<>> /\ flush = "idle"
  /\ batch = <<>> /\ snapshot = [pending |-> 0, version |-> 0] /\ verdicts = <<>>
  /\ line = <<>> /\ slots = <<>> /\ cooling = FALSE /\ tokens = cfg.reservoir

\* submit, for a sequence of jobs in order.
Submit(jobs) ==
  /\ line' = line \o jobs
  /\ pending' = pending \cup ToSet(jobs)
  /\ version' = version + Len(jobs)
  /\ UNCHANGED <<slots, cooling, tokens>>

\* schedule(..., "queue", ...)
Queue(r) ==
  /\ status[r] = "new"
  /\ status' = [status EXCEPT ![r] = "submitted"]
  /\ Submit(<<r>>)
  /\ UNCHANGED <<cfg, mode, probes, flush, batch, snapshot, verdicts>>

\* schedule(..., "overflow", ...): join the burst, and queueOverflowFlush.
Probe(r) ==
  /\ status[r] = "new"
  /\ status' = [status EXCEPT ![r] = "probing"]
  /\ mode' = [mode EXCEPT ![r] = "overflow"]
  /\ probes' = Append(probes, r)
  /\ flush' = (IF flush = "idle" THEN "scheduled" ELSE flush)
  /\ UNCHANGED <<cfg, pending, version, batch, snapshot, verdicts, bottleneck>>

\* How many members of the burst are checked: with minTime one at most, and
\* none behind a job that Bottleneck has not registered yet.
Checked ==
  IF ~cfg.spaced THEN Len(batch) ELSE IF snapshot.pending = 0 THEN 1 ELSE 0

\* flushOverflow takes the burst and a snapshot.
TakeBatch ==
  /\ flush = "scheduled"
  /\ flush' = "checking" /\ batch' = probes /\ probes' = <<>>
  /\ snapshot' = [pending |-> Cardinality(pending), version |-> version]
  /\ verdicts' = <<>>
  /\ UNCHANGED <<cfg, status, mode, pending, version, bottleneck>>

\* check() answers in a later turn of the event loop, one member at a time.
Answer ==
  /\ flush = "checking" /\ Len(verdicts) < Checked
  /\ verdicts' = Append(verdicts, Check(snapshot.pending + Len(verdicts) + 1))
  /\ UNCHANGED <<cfg, status, mode, pending, version, probes, flush, batch,
                 snapshot, bottleneck>>

\* Mutant: the verdicts are used whatever happened since the snapshot.
Admitted_NoVersionCheck ==
  Cardinality({i \in DOMAIN verdicts : \A j \in 1 .. i : verdicts[j]})

\* How many members are admitted: the burst up to the first refusal, and nobody when a
\* submission or a registration has changed the capacity since the snapshot.
Admitted ==
  IF version # snapshot.version THEN 0
  ELSE Cardinality({i \in DOMAIN verdicts : \A j \in 1 .. i : verdicts[j]})

\* Mutants: one burst per flush, leaving the probes of meanwhile behind; and a
\* flag that is never cleared.
Decide_OneBurst ==
  /\ flush = "checking" /\ Len(verdicts) = Checked
  /\ status' = [r \in Requests |->
                  IF r \notin ToSet(batch) THEN status[r]
                  ELSE IF r \in ToSet(SubSeq(batch, 1, Admitted)) THEN "submitted"
                  ELSE "refused"]
  /\ Submit(SubSeq(batch, 1, Admitted))
  /\ batch' = <<>> /\ verdicts' = <<>> /\ flush' = "idle"
  /\ UNCHANGED <<cfg, mode, probes, snapshot>>

Decide_FlagStays ==
  /\ flush = "checking" /\ Len(verdicts) = Checked
  /\ status' = [r \in Requests |->
                  IF r \notin ToSet(batch) THEN status[r]
                  ELSE IF r \in ToSet(SubSeq(batch, 1, Admitted)) THEN "submitted"
                  ELSE "refused"]
  /\ Submit(SubSeq(batch, 1, Admitted))
  /\ batch' = <<>> /\ verdicts' = <<>> /\ flush' = "scheduled"
  /\ UNCHANGED <<cfg, mode, probes, snapshot>>

\* The burst is decided; probes that arrived meanwhile are the next burst.
Decide ==
  /\ flush = "checking" /\ Len(verdicts) = Checked
  /\ status' = [r \in Requests |->
                  IF r \notin ToSet(batch) THEN status[r]
                  ELSE IF r \in ToSet(SubSeq(batch, 1, Admitted)) THEN "submitted"
                  ELSE "refused"]
  /\ Submit(SubSeq(batch, 1, Admitted))
  /\ batch' = <<>> /\ verdicts' = <<>>
  /\ flush' = (IF probes = <<>> THEN "idle" ELSE "scheduled")
  /\ UNCHANGED <<cfg, mode, probes, snapshot>>

------------------------------------------------------------------------------
\* Mutant: the listener forgets the job and the capacity change.
Scheduled_Ignored(r) ==
  /\ pending' = pending /\ version' = version

\* Bottleneck registers its head: the "scheduled" listener of the entry runs.
Scheduled(r) ==
  /\ pending' = pending \ {r} /\ version' = version + 1

Register ==
  /\ line # <<>> /\ Capacity > 0
  /\ LET r == Head(line) IN
       /\ status' = [status EXCEPT ![r] = IF cfg.spaced THEN "registered" ELSE "running"]
       /\ slots' = (IF cfg.spaced THEN Append(slots, r) ELSE slots)
       /\ Scheduled(r)
  /\ line' = Tail(line) /\ tokens' = tokens - 1
  /\ UNCHANGED <<cfg, mode, probes, flush, batch, snapshot, verdicts, cooling>>

\* The next minTime slot comes.
Execute ==
  /\ slots # <<>> /\ ~cooling
  /\ status' = [status EXCEPT ![Head(slots)] = "running"]
  /\ slots' = Tail(slots) /\ cooling' = TRUE
  /\ UNCHANGED <<cfg, mode, entry, line, tokens>>

MinTimePasses ==
  /\ cooling /\ cooling' = FALSE
  /\ UNCHANGED <<cfg, status, mode, entry, line, slots, tokens>>

Finish(r) ==
  /\ status[r] = "running"
  /\ status' = [status EXCEPT ![r] = "done"]
  /\ UNCHANGED <<cfg, mode, entry, bottleneck>>

Refresh ==
  /\ tokens # cfg.refresh
  /\ tokens' = cfg.refresh
  /\ UNCHANGED <<cfg, status, mode, entry, line, slots, cooling>>

Next ==
  \/ \E r \in Requests : Queue(r) \/ Probe(r) \/ Finish(r)
  \/ TakeBatch \/ Answer \/ Decide
  \/ Register \/ Execute \/ MinTimePasses \/ Refresh

Spec == Init /\ [][Next]_vars

(***************************************************************************)
(* Fairness: the event loop runs the flush and the checks, Bottleneck      *)
(* registers what it can, its timers run, and every task ends.  Nobody has *)
(* to make a request.                                                      *)
(***************************************************************************)
FairSpec ==
  /\ Spec
  /\ WF_vars(TakeBatch) /\ WF_vars(Answer) /\ WF_vars(Decide)
  /\ WF_vars(Register) /\ WF_vars(Execute) /\ WF_vars(MinTimePasses)
  /\ WF_vars(Refresh)
  /\ \A r \in Requests : WF_vars(Finish(r))

------------------------------------------------------------------------------
(***************************************************************************)
(* Properties.                                                             *)
(***************************************************************************)
\* Every variable keeps its type, and the flag says where the flush is: the probes
\* are waiting exactly while one is scheduled, the burst exists while it checks.
TypeOK ==
  /\ cfg \in Settings
  /\ status \in [Requests -> {"new", "probing", "submitted", "registered",
                              "running", "done", "refused"}]
  /\ mode \in [Requests -> {"queue", "overflow"}]
  /\ pending \subseteq Requests /\ version \in Nat
  /\ flush \in {"idle", "scheduled", "checking"}
  /\ probes \in Seq(Requests) /\ batch \in Seq(Requests)
  /\ line \in Seq(Requests) /\ slots \in Seq(Requests)
  /\ verdicts \in Seq(BOOLEAN) /\ cooling \in BOOLEAN /\ tokens \in Nat
  /\ flush = "idle" => probes = <<>>
  /\ flush = "scheduled" => probes # <<>>
  /\ flush = "checking" <=> batch # <<>>

\* A call is undecided in exactly one place or out of the entry, and pendingRegistration,
\* which a burst is decided on, holds the jobs that Bottleneck has received and not
\* registered, whoever submitted them: no probe is lost, decided twice or miscounted when
\* bursts, submissions and registrations overlap.
CallsAreAccounted ==
  /\ \A r \in Requests :
       /\ status[r] = "probing" <=> r \in ToSet(probes) \cup ToSet(batch)
       /\ r \in ToSet(probes) => r \notin ToSet(batch)
  /\ pending = ToSet(line) /\ Cardinality(pending) = Len(line)

\* "refuses to join an existing local submission queue ... cannot wait for each
\* other and reuse later capacity": an admitted probe that is still in Bottleneck
\* has capacity now for itself and for every job ahead of it, and no minTime slot
\* to wait for.  (Where a refresh never lowers the reservoir.)
OverflowNeverWaits ==
  /\ \A i \in 1 .. Len(line) :
       mode[line[i]] = "overflow" => i <= Capacity /\ slots = <<>> /\ ~cooling
  /\ \A i \in 1 .. Len(slots) :
       mode[slots[i]] = "overflow" => i = 1 /\ ~cooling

\* Under FairSpec every probe is admitted or refused, however many follow it.
EveryProbeIsDecided ==
  \A r \in Requests : status[r] = "probing" ~> status[r] # "probing"
==============================================================================
