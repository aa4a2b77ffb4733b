--------------------------- MODULE Transport_proofs ---------------------------
(***************************************************************************)
(* Proofs about Transport, for any retry policies, redirect limit, timer   *)
(* range and Retry-After headers: its types and safety invariants, what an *)
(* abort stops, and that it implements Capture, the abstract attempt that  *)
(* Routing runs.                                                           *)
(***************************************************************************)
EXTENDS Transport, TLAPS

NoAnswer == {"none", "redirect", "200"}

Inv ==
  /\ TypeOK
  /\ RequestIsReplayed
  /\ stage = "wait" => attempt < policy.maxAttempts - 1
  /\ stage = "fetch" => answer = "none"
  /\ stage = "redirect" => answer = "redirect"
  /\ stage # "settled" => result = Pending
  /\ cause = "abort" => aborted
  /\ result.kind = "network" =>
       cause # "abort" /\ (result.error = "timeout" \/ answer \in NoAnswer)
  /\ opts.probe => opts.limited
  /\ physical = 0 => stage = "dispatch" /\ fetches = 0
  /\ fetches = 0 => attempt = 0 /\ hop = 0
  /\ fetches = 0 /\ stage = "dispatch" => physical = 0
  /\ stage \in InFlight \cup {"wait"} => fetches # 0

LEMMA PolicyType ==
  ASSUME policy \in Policies
  PROVE  /\ policy.maxAttempts \in Nat \ {0}
         /\ policy.initialDelayMs \in 0 .. MaxTimer /\ policy.maxDelayMs \in 0 .. MaxTimer
         /\ policy.enabled \in BOOLEAN
BY TransportAssumption

(***************************************************************************)
(* Delays fit a host timer.                                                *)
(***************************************************************************)
LEMMA BackoffFits ==
  ASSUME policy \in Policies
  PROVE  ComputeDelay \subseteq 0 .. MaxTimer
<1>1. policy.initialDelayMs \in 0 .. MaxTimer /\ policy.maxDelayMs \in 0 .. MaxTimer /\ MaxTimer \in Nat
  BY PolicyType, TransportAssumption
<1>2. Lesser(policy.initialDelayMs, policy.maxDelayMs) \in 0 .. MaxTimer
  BY <1>1 DEF Lesser
<1>3. ComputeBackoff \subseteq 0 .. policy.maxDelayMs
  BY DEF ComputeBackoff
<1>4. 0 .. policy.maxDelayMs \subseteq 0 .. MaxTimer
  BY <1>1
<1> QED BY <1>2, <1>3, <1>4 DEF ComputeDelay

LEMMA RetryAfterFits ==
  ASSUME NEW header \in RetryAfters
  PROVE  RetryAfterDelay(header) \subseteq 0 .. MaxTimer
<1>1. header.v \in Int /\ MaxTimer \in Nat /\ (header.kind = "seconds" => header.v \in Nat)
  BY TransportAssumption
<1>2. CASE header.kind = "seconds"
  <2>1. header.v * 1000 \in Nat
    BY <1>1, <1>2
  <2>2. Lesser(header.v * 1000, MaxTimer) \in 0 .. MaxTimer
    BY <1>1, <2>1 DEF Lesser
  <2> QED BY <1>2, <2>2 DEF RetryAfterDelay
<1>3. CASE header.kind = "date"
  <2>1. Lesser(Greater(0, header.v), MaxTimer) \in 0 .. MaxTimer
    BY <1>1 DEF Lesser, Greater
  <2> QED BY <1>3, <2>1 DEF RetryAfterDelay
<1>4. CASE header.kind \notin {"seconds", "date"}
  BY <1>4 DEF RetryAfterDelay
<1> QED BY <1>2, <1>3, <1>4

(***************************************************************************)
(* The ends of an attempt: every branch settles the request or waits, and  *)
(* it waits only when another attempt is left.                             *)
(***************************************************************************)
Settled ==
  /\ stage' = "settled" /\ delay' = 0
  /\ \/ result'.kind \in {"abort", "ok", "http"}
     \/ /\ result'.kind = "network" /\ cause # "abort" /\ result'.attempts = physical
        /\ result'.error = "timeout" \/ answer \in NoAnswer
  /\ UNCHANGED <<attempt, url, method, body, hop, visited, answer, cause>>

Waits ==
  /\ stage' = "wait" /\ attempt < policy.maxAttempts - 1 /\ delay' \in 0 .. MaxTimer
  /\ UNCHANGED <<attempt, url, method, body, hop, visited, answer, cause, result>>

Ends == Settled \/ Waits

LEMMA FailedEnds ==
  ASSUME Inv, NEW error, NEW timedOut \in BOOLEAN, Failed(error, timedOut),
         timedOut => cause = "timeout" /\ error = "timeout",
         timedOut \/ error = "abort" \/ answer \in NoAnswer
  PROVE  Ends
<1>1. policy.maxAttempts \in Nat /\ attempt \in Nat /\ policy.enabled \in BOOLEAN
  BY PolicyType DEF Inv, TypeOK
<1>2. CASE ~timedOut /\ (aborted \/ error = "abort")
  BY <1>2 DEF Failed, Settle, Ends, Settled, locals
<1>3. CASE timedOut \/ (~aborted /\ error # "abort")
  <2>1. cause # "abort"
    BY <1>3 DEF Inv
  <2>2. CASE ~policy.enabled \/ ~policy.onNetworkError \/ LastAttempt
    BY <1>3, <2>1, <2>2 DEF Failed, Settle, Ends, Settled, locals
  <2>3. CASE policy.enabled /\ policy.onNetworkError /\ ~LastAttempt
    <3>1. WaitForRetry(ComputeDelay)
      BY <1>3, <2>3 DEF Failed
    <3>2. ComputeDelay \subseteq 0 .. MaxTimer
      BY BackoffFits DEF Inv, TypeOK
    <3>3. attempt < policy.maxAttempts - 1
      BY <1>1, <2>3 DEF LastAttempt
    <3> QED BY <3>1, <3>2, <3>3 DEF WaitForRetry, Ends, Waits, locals
  <2> QED BY <2>2, <2>3
<1> QED BY <1>2, <1>3

LEMMA CaughtEnds ==
  ASSUME Inv, NEW error, Caught(error),
         cause = "timeout" \/ error = "abort" \/ answer \in NoAnswer
  PROVE  Ends
<1>1. CASE cause = "timeout"
  BY <1>1, FailedEnds DEF Caught
<1>2. CASE cause # "timeout"
  BY <1>2, FailedEnds DEF Caught
<1> QED BY <1>1, <1>2

LEMMA RespondedEnds ==
  ASSUME Inv, NEW status, Responded(status)
  PROVE  Ends
<1>1. policy.maxAttempts \in Nat /\ attempt \in Nat
  BY PolicyType DEF Inv, TypeOK
<1>2. CASE status = "200"
  BY <1>2 DEF Responded, Settle, Ends, Settled, locals
<1>3. CASE status # "200" /\ ~(policy.enabled /\ Retryable(status) /\ ~LastAttempt)
  BY <1>3 DEF Responded, Settle, Ends, Settled, locals
<1>4. CASE status # "200" /\ policy.enabled /\ Retryable(status) /\ ~LastAttempt
  <2>1. PICK delays : WaitForRetry(delays) /\ delays \subseteq 0 .. MaxTimer
    <3>1. ComputeDelay \subseteq 0 .. MaxTimer
      BY BackoffFits DEF Inv, TypeOK
    <3> HIDE DEF ComputeDelay
    <3>2. PICK header \in RetryAfters :
            LET asked == IF policy.honorRetryAfter THEN RetryAfterDelay(header) ELSE {}
            IN  WaitForRetry(IF asked = {} THEN ComputeDelay ELSE asked)
      BY <1>4 DEF Responded
    <3> DEFINE asked == IF policy.honorRetryAfter THEN RetryAfterDelay(header) ELSE {}
    <3>3. asked \subseteq 0 .. MaxTimer
      BY RetryAfterFits
    <3> HIDE DEF asked
    <3>4. WaitForRetry(IF asked = {} THEN ComputeDelay ELSE asked)
      BY <3>2 DEF asked
    <3> QED BY <3>1, <3>3, <3>4
  <2>2. attempt < policy.maxAttempts - 1
    BY <1>1, <1>4 DEF LastAttempt
  <2> QED BY <2>1, <2>2 DEF WaitForRetry, Ends, Waits, locals
<1> QED BY <1>2, <1>3, <1>4

LEMMA FetchRejectsEnds == ASSUME Inv, FetchRejects PROVE Ends
<1>1. answer \in NoAnswer
  BY DEF Inv, FetchRejects, NoAnswer
<1> QED BY <1>1, CaughtEnds DEF FetchRejects

LEMMA BodyEnds == ASSUME Inv, BodyFails \/ BodyRead PROVE Ends
<1>1. CASE aborted
  BY <1>1, CaughtEnds DEF BodyFails, BodyRead
<1>2. CASE ~aborted /\ cause = "timeout"
  BY <1>2, CaughtEnds DEF BodyFails, BodyRead
<1>3. CASE ~aborted /\ cause # "timeout" /\ BodyFails
  BY <1>3, CaughtEnds, RespondedEnds DEF BodyFails, NoAnswer
<1>4. CASE ~aborted /\ cause # "timeout" /\ BodyRead
  BY <1>4, CaughtEnds, RespondedEnds DEF BodyRead, NoAnswer
<1> QED BY <1>1, <1>2, <1>3, <1>4

Redirected ==
  /\ stage' = "dispatch" /\ ~aborted
  /\ hop < MaxRedirects /\ hop' = hop + 1
  /\ url' \in Urls /\ visited' \subseteq Urls
  /\ method' \in {"GET", "POST"} /\ body' \in BOOLEAN /\ (body' <=> method' = "POST")
  /\ UNCHANGED <<attempt, delay, answer, cause, result>>

LEMMA FollowRedirectEnds == ASSUME Inv, FollowRedirect PROVE Ends \/ Redirected
<1>1. answer \in NoAnswer
  BY DEF Inv, FollowRedirect, NoAnswer
<1>2. CASE aborted \/ cause = "timeout"
  BY <1>2, CaughtEnds DEF FollowRedirect
<1>3. CASE ~aborted /\ cause # "timeout"
  <2> DEFINE refused == redirect.move = "opaque" \/ redirect.to \notin Urls
                          \/ redirect.to \in visited \/ hop >= MaxRedirects
  <2>1. CASE refused
    <3>1. Failed("policy", FALSE)
      BY <1>3, <2>1 DEF FollowRedirect
    <3> QED BY <3>1, <1>1, FailedEnds
  <2>2. CASE ~refused
    <3>1. /\ stage' = "dispatch" /\ redirect.to \in Urls /\ ~(hop >= MaxRedirects)
          /\ url' = redirect.to /\ visited' = visited \cup {redirect.to} /\ hop' = hop + 1
          /\ method' = RedirectMethod(redirect.move, method)
          /\ body' = (body /\ RedirectMethod(redirect.move, method) # "GET")
          /\ UNCHANGED <<attempt, delay, answer, cause, result>>
      BY <1>3, <2>2 DEF FollowRedirect
    <3>2. hop < MaxRedirects
      BY <3>1, TransportAssumption DEF Inv, TypeOK
    <3>3. method' \in {"GET", "POST"} /\ (method' = "POST" => method = "POST")
      BY <3>1 DEF RedirectMethod, Inv, TypeOK
    <3>4. visited' \subseteq Urls
      BY <3>1 DEF Inv, TypeOK
    <3>5. body' \in BOOLEAN /\ (body' <=> method' = "POST")
      BY <3>1, <3>3 DEF Inv, TypeOK, RequestIsReplayed
    <3> QED BY <1>3, <3>1, <3>2, <3>3, <3>4, <3>5 DEF Redirected
  <2> QED BY <2>1, <2>2
<1> QED BY <1>2, <1>3

(***************************************************************************)
(* The invariant.                                                          *)
(***************************************************************************)
LEMMA InvInit == ASSUME Init PROVE Inv
<1>1. /\ policy.maxAttempts \in Nat \ {0} /\ MaxRedirects \in Nat /\ MaxTimer \in Nat
      /\ Url \in Urls /\ opts \in Options /\ (opts.probe => opts.limited)
      /\ opts.method \in {"GET", "POST"}
  BY PolicyType, TransportAssumption DEF Init, Options
<1>2. TypeOK
  <2>1. attempt \in 0 .. policy.maxAttempts - 1 /\ hop \in 0 .. MaxRedirects /\ delay \in 0 .. MaxTimer
    BY <1>1 DEF Init
  <2>2. url \in Urls /\ visited \subseteq Urls /\ method \in {"GET", "POST"} /\ body \in BOOLEAN
    BY <1>1 DEF Init
  <2> QED BY <1>1, <2>1, <2>2 DEF Init, TypeOK
<1>3. RequestIsReplayed
  BY <1>1 DEF Init, RequestIsReplayed
<1> QED BY <1>1, <1>2, <1>3 DEF Init, Inv, Pending, InFlight

LEMMA EndsKeepInv ==
  ASSUME Inv, Ends, stage \in InFlight \cup {"wait"}, UNCHANGED <<opts, policy, physical, fetches, aborted>>
  PROVE  Inv'
<1>1. TypeOK'
  BY TransportAssumption DEF Inv, TypeOK, Ends, Settled, Waits
<1>2. RequestIsReplayed'
  BY DEF Inv, Ends, Settled, Waits, RequestIsReplayed
<1>3. stage' \in {"settled", "wait"} /\ fetches # 0 /\ physical # 0
  BY DEF Inv, Ends, Settled, Waits, InFlight
<1>4. stage' # "settled" => result' = Pending
  BY DEF Inv, Ends, Settled, Waits, InFlight
<1>5. result'.kind = "network" =>
        cause' # "abort" /\ (result'.error = "timeout" \/ answer' \in NoAnswer)
  BY DEF Inv, Ends, Settled, Waits
<1>6. stage' = "wait" => attempt' < policy'.maxAttempts - 1
  BY DEF Ends, Settled, Waits
<1> QED BY <1>1, <1>2, <1>3, <1>4, <1>5, <1>6 DEF Inv, Ends, Settled, Waits

\* A settlement by the abort or the bucket.
LEMMA SettleKeepsInv ==
  ASSUME Inv, NEW r, r.kind \in {"abort", "capacity"}, Settle(r), physical' \in Nat \ {0},
         UNCHANGED <<opts, policy, fetches, aborted>>
  PROVE  Inv'
<1>1. TypeOK'
  BY TransportAssumption DEF Inv, TypeOK, Settle, locals
<1>2. RequestIsReplayed'
  BY DEF Inv, Settle, locals, RequestIsReplayed
<1>3. stage' = "settled" /\ result' = r /\ UNCHANGED <<attempt, hop, answer, cause>>
  BY DEF Settle, locals
<1>4. physical' # 0
  OBVIOUS
<1> QED BY <1>1, <1>2, <1>3, <1>4 DEF Inv, InFlight

\* A step of the environment or the bucket that leaves the request's data alone.
LEMMA MoveKeepsInv ==
  ASSUME Inv, stage' \in {"probing", "queued"} \cup InFlight, stage # "settled",
         physical' \in Nat \ {0}, fetches' \in Nat, fetches' = 0 => fetches = 0,
         stage' \in InFlight => fetches' # 0,
         answer' \in Statuses \cup {"none", "redirect"},
         stage' = "fetch" => answer' = "none", stage' = "redirect" => answer' = "redirect",
         cause' \in {"none", "abort", "timeout"}, aborted' \in BOOLEAN, cause' = "abort" => aborted',
         UNCHANGED <<opts, policy, attempt, url, method, body, hop, visited, delay, result>>
  PROVE  Inv'
<1>1. TypeOK'
  BY DEF Inv, TypeOK
<1>2. RequestIsReplayed'
  BY DEF Inv, RequestIsReplayed
<1> QED BY <1>1, <1>2 DEF Inv, InFlight, Pending

LEMMA InvStep == ASSUME Inv, [Next]_vars PROVE Inv'
<1>0. physical \in Nat /\ fetches \in Nat /\ aborted \in BOOLEAN
      /\ cause \in {"none", "abort", "timeout"} /\ answer \in Statuses \cup {"none", "redirect"}
  BY DEF Inv, TypeOK
<1>1. ASSUME Dispatch PROVE Inv'
  <2>1. CASE aborted
    <3>1. Settle([kind |-> "abort"]) /\ UNCHANGED fetches
      BY <1>1, <2>1 DEF Dispatch
    <3> QED BY <1>0, <1>1, <3>1, SettleKeepsInv DEF Dispatch
  <2>2. CASE ~aborted /\ opts.limited
    <3>1. stage' \in {"probing", "queued"} /\ stage' \notin InFlight
          /\ UNCHANGED <<attempt, fetches, url, method, body, hop, visited, delay, answer, cause, result>>
      BY <1>1, <2>2 DEF Dispatch, locals, InFlight
    <3> QED BY <1>0, <1>1, <3>1, MoveKeepsInv DEF Dispatch, Inv, InFlight
  <2>3. CASE ~aborted /\ ~opts.limited
    <3>1. Fetch /\ UNCHANGED <<attempt, url, method, body, hop, visited, delay, result>>
      BY <1>1, <2>3 DEF Dispatch, locals
    <3> QED BY <1>0, <1>1, <3>1, MoveKeepsInv DEF Dispatch, Fetch, InFlight
  <2> QED BY <2>1, <2>2, <2>3
<1>2. ASSUME Refuse PROVE Inv'
  BY <1>0, <1>2, SettleKeepsInv DEF Refuse, Inv
<1>3. ASSUME Admit PROVE Inv'
  BY <1>0, <1>3, MoveKeepsInv DEF Admit, locals, Inv, InFlight
<1>4. ASSUME Start PROVE Inv'
  BY <1>0, <1>4, MoveKeepsInv DEF Start, Fetch, locals, Inv, InFlight
<1>5. ASSUME ObserveAbort PROVE Inv'
  BY <1>0, <1>5, SettleKeepsInv DEF ObserveAbort, Inv, InFlight
<1>6. ASSUME FetchRejects PROVE Inv'
  BY <1>6, FetchRejectsEnds, EndsKeepInv DEF FetchRejects, InFlight
<1>7. ASSUME Arrival PROVE Inv'
  BY <1>0, <1>7, MoveKeepsInv DEF Arrival, RedirectArrives, ResponseArrives, locals, Inv, InFlight
<1>8. ASSUME FollowRedirect PROVE Inv'
  <2>1. CASE Ends
    BY <1>8, <2>1, EndsKeepInv DEF FollowRedirect, InFlight
  <2>2. CASE Redirected
    <3>1. hop' \in 0 .. MaxRedirects /\ hop' # 0
      BY <2>2, TransportAssumption DEF Redirected, Inv, TypeOK
    <3>2. fetches # 0 /\ physical # 0 /\ stage = "redirect"
      BY <1>8 DEF FollowRedirect, Inv, InFlight
    <3>3. UNCHANGED <<opts, policy, physical, fetches, aborted>>
      BY <1>8 DEF FollowRedirect
    <3>4. TypeOK'
      BY <2>2, <3>1, <3>3 DEF Redirected, Inv, TypeOK
    <3>5. RequestIsReplayed'
      BY <2>2, <3>1, <3>3 DEF Redirected, RequestIsReplayed
    <3> QED BY <2>2, <3>2, <3>3, <3>4, <3>5 DEF Redirected, Inv, Pending, InFlight
  <2> QED BY <1>8, <2>1, <2>2, FollowRedirectEnds
<1>9. ASSUME BodyFails \/ BodyRead PROVE Inv'
  BY <1>9, BodyEnds, EndsKeepInv DEF BodyFails, BodyRead, InFlight
<1>10. ASSUME WaitEnds PROVE Inv'
  <2>1. attempt' \in 0 .. policy'.maxAttempts - 1 /\ policy'.maxAttempts \in Nat
    BY <1>10, PolicyType DEF WaitEnds, Inv, TypeOK
  <2>2. opts.method \in {"GET", "POST"} /\ Url \in Urls
    BY TransportAssumption DEF Inv, TypeOK, Options
  <2>3. TypeOK'
    BY <1>10, <2>1, <2>2, TransportAssumption DEF WaitEnds, Inv, TypeOK
  <2>4. RequestIsReplayed'
    BY <1>10, <2>2 DEF WaitEnds, RequestIsReplayed
  <2> QED BY <1>10, <2>3, <2>4 DEF WaitEnds, Inv, Pending, InFlight
<1>11. ASSUME WaitAborted PROVE Inv'
  BY <1>0, <1>11, SettleKeepsInv DEF WaitAborted, Inv
<1>12. ASSUME TimerFires PROVE Inv'
  BY <1>0, <1>12, MoveKeepsInv DEF TimerFires, locals, Inv, InFlight
<1>13. ASSUME CallerAborts PROVE Inv'
  <2>1. TypeOK'
    BY <1>13 DEF CallerAborts, locals, Inv, TypeOK
  <2>2. RequestIsReplayed'
    BY <1>13 DEF CallerAborts, locals, Inv, RequestIsReplayed
  <2> QED BY <1>0, <1>13, <2>1, <2>2 DEF CallerAborts, locals, Inv, Pending, InFlight
<1>14. CASE UNCHANGED vars
  <2>1. TypeOK'
    BY <1>14 DEF vars, locals, Inv, TypeOK
  <2>2. RequestIsReplayed'
    BY <1>14 DEF vars, locals, Inv, RequestIsReplayed
  <2> QED BY <1>14, <2>1, <2>2 DEF vars, locals, Inv
<1> QED BY <1>1, <1>2, <1>3, <1>4, <1>5, <1>6, <1>7, <1>8, <1>9, <1>10, <1>11, <1>12, <1>13, <1>14
        DEF Next

LEMMA InvAlways == Spec => []Inv
BY InvInit, InvStep, PTL DEF Spec

(***************************************************************************)
(* What a call pays.  A job that waits in the bucket is dispatched and not *)
(* yet fetched; otherwise every dispatch has been fetched.  The dispatches *)
(* are the hops of the current attempt after those of the earlier ones,    *)
(* each of which had at most one first fetch and MaxRedirects redirects.   *)
(***************************************************************************)
Spent == attempt * (MaxRedirects + 1) + hop

PaidInv ==
  /\ FetchesArePaid
  /\ stage \in {"probing", "queued"} => physical = fetches + 1
  /\ stage \notin {"probing", "queued", "settled"} => physical = fetches
  /\ stage = "dispatch" => physical <= Spent
  /\ stage \notin {"dispatch", "settled"} => physical <= Spent + 1

\* The next attempt starts above what the current one can have spent.
LEMMA NextAttemptSpends ==
  ASSUME NEW a \in Nat, NEW w \in Nat
  PROVE  (a + 1) * w = a * w + w
OBVIOUS

\* What is spent before the last attempt stays below the limits taken together.
LEMMA AttemptsBound ==
  ASSUME NEW n \in Nat, NEW a \in 0 .. n - 1, NEW w \in Nat
  PROVE  a * w + w <= n * w
<1>1. PICK d \in Nat : n = (a + 1) + d
  <2>1. n - (a + 1) \in Nat /\ n = (a + 1) + (n - (a + 1))
    OBVIOUS
  <2> QED BY <2>1
<1>2. n * w = (a + 1) * w + d * w
  BY <1>1
<1>3. d * w \in Nat /\ (a + 1) * w = a * w + w
  BY NextAttemptSpends
<1> QED BY <1>2, <1>3

\* What a call has spent is a number, and with one more fetch within the limits.
LEMMA SpentFits ==
  ASSUME TypeOK
  PROVE  Spent \in Nat /\ Spent + 1 <= policy.maxAttempts * (MaxRedirects + 1)
<1> DEFINE w == MaxRedirects + 1
<1>1. /\ policy.maxAttempts \in Nat /\ attempt \in 0 .. policy.maxAttempts - 1
      /\ w \in Nat /\ hop \in Nat /\ hop + 1 <= w
  BY PolicyType, TransportAssumption DEF TypeOK
<1> HIDE DEF w
<1>2. attempt \in Nat /\ attempt * w + w <= policy.maxAttempts * w
  BY <1>1, AttemptsBound
<1>3. attempt * w \in Nat /\ policy.maxAttempts * w \in Nat
  BY <1>1, <1>2
<1>4. attempt * w + hop \in Nat /\ (attempt * w + hop) + 1 <= policy.maxAttempts * w
  BY <1>1, <1>2, <1>3
<1> QED BY <1>4 DEF Spent, w

\* A step that changes neither what is spent nor the result keeps what is paid, when the
\* stage and the two counters move together.
LEMMA PaidMove ==
  ASSUME Inv, Inv', PaidInv, stage # "settled", stage' \notin {"dispatch", "settled"},
         UNCHANGED <<policy, attempt, hop, result>>,
         physical' = physical \/ (stage = "dispatch" /\ physical' = physical + 1),
         stage' \in {"probing", "queued"} => physical' = fetches' + 1,
         stage' \notin {"probing", "queued"} => physical' = fetches'
  PROVE  PaidInv'
<1> DEFINE limit == policy.maxAttempts * (MaxRedirects + 1)
<1>1. /\ Spent \in Nat /\ Spent' = Spent /\ physical \in Nat
      /\ physical' \in Nat /\ fetches' \in Nat
  BY SpentFits DEF Inv, TypeOK, Spent
<1>2. limit \in Nat /\ Spent + 1 <= limit /\ limit' = limit
  <2>1. policy.maxAttempts \in Nat /\ MaxRedirects + 1 \in Nat
    BY PolicyType, TransportAssumption DEF Inv, TypeOK
  <2> QED BY <2>1, SpentFits DEF Inv
<1> HIDE DEF limit
<1>3. physical' <= Spent + 1
  <2>1. CASE stage = "dispatch"
    BY <1>1, <2>1 DEF PaidInv
  <2>2. CASE stage # "dispatch"
    BY <1>1, <2>2 DEF PaidInv
  <2> QED BY <2>1, <2>2
<1>4. fetches' <= physical' /\ physical' - fetches' \in {0, 1}
  <2>1. physical' = fetches' + 1 \/ physical' = fetches'
    OBVIOUS
  <2>2. physical' \in Nat /\ fetches' \in Nat
    BY <1>1
  <2>3. ASSUME NEW n \in Nat, NEW f \in Nat, n = f + 1 \/ n = f
        PROVE  f <= n /\ n - f \in {0, 1}
    BY <2>3
  <2> QED BY <2>1, <2>2, <2>3
<1>5. fetches' <= limit' /\ physical' <= Spent' + 1
  BY <1>1, <1>2, <1>3, <1>4
<1>6. result'.kind # "network"
  BY DEF Inv, Pending
<1>7. FetchesArePaid'
  BY <1>4, <1>5, <1>6 DEF FetchesArePaid, limit
<1> QED BY <1>5, <1>7 DEF PaidInv

\* An end of an attempt that is in flight or waiting.
LEMMA PaidEnds ==
  ASSUME Inv, PaidInv, Ends, stage \in InFlight \cup {"wait"},
         UNCHANGED <<policy, physical, fetches>>
  PROVE  PaidInv'
<1>1. physical = fetches /\ physical <= Spent + 1
  BY DEF PaidInv, InFlight
<1>2. Spent' = Spent /\ stage' \in {"settled", "wait"}
  BY DEF Ends, Settled, Waits, Spent
<1>3. physical' - fetches' \in {0, 1} /\ fetches' <= policy'.maxAttempts * (MaxRedirects + 1)
  BY DEF PaidInv, FetchesArePaid
<1>4. result'.kind = "network" => result'.attempts = fetches'
  BY <1>1 DEF Ends, Settled, Waits, Inv, Pending, InFlight
<1> QED BY <1>1, <1>2, <1>3, <1>4 DEF PaidInv, FetchesArePaid

\* A settlement by the abort or the bucket: nothing goes out, and at most the last
\* dispatch has not been fetched.
LEMMA PaidSettle ==
  ASSUME Inv, PaidInv, NEW r, r.kind \in {"abort", "capacity"}, Settle(r),
         UNCHANGED <<policy, fetches>>,
         physical' = physical \/ (stage = "dispatch" /\ physical' = physical + 1)
  PROVE  PaidInv'
<1>1. stage' = "settled" /\ result'.kind # "network"
  BY DEF Settle
<1>2. fetches' <= policy'.maxAttempts * (MaxRedirects + 1)
  BY DEF PaidInv, FetchesArePaid
<1>3. physical' - fetches' \in {0, 1}
  BY DEF PaidInv, FetchesArePaid, Inv, TypeOK
<1> QED BY <1>1, <1>2, <1>3 DEF PaidInv, FetchesArePaid

\* The next hop or the next attempt is handed to the dispatcher, paid for below the limits.
LEMMA PaidAgain ==
  ASSUME Inv, PaidInv, stage \in InFlight \cup {"wait"}, stage' = "dispatch",
         UNCHANGED <<policy, physical, fetches, result>>, Spent' \in Nat, Spent + 1 <= Spent'
  PROVE  PaidInv'
<1>1. physical = fetches /\ physical <= Spent + 1 /\ physical \in Nat /\ Spent \in Nat
  BY SpentFits DEF PaidInv, InFlight, Inv, TypeOK
<1>2. physical' <= Spent'
  BY <1>1
<1>3. FetchesArePaid'
  BY DEF PaidInv, FetchesArePaid
<1> QED BY <1>1, <1>2, <1>3 DEF PaidInv

LEMMA PaidInit == ASSUME Init PROVE PaidInv
<1>1. Inv /\ stage = "dispatch" /\ physical = 0 /\ fetches = 0 /\ result.kind # "network"
  BY InvInit DEF Init, Pending
<1>2. Spent \in Nat /\ Spent + 1 <= policy.maxAttempts * (MaxRedirects + 1)
  BY <1>1, SpentFits DEF Inv
<1>3. policy.maxAttempts * (MaxRedirects + 1) \in Nat
  <2>1. policy.maxAttempts \in Nat /\ MaxRedirects + 1 \in Nat
    BY <1>1, PolicyType, TransportAssumption DEF Inv, TypeOK
  <2> QED BY <2>1
<1> HIDE DEF Spent
<1>4. FetchesArePaid
  BY <1>1, <1>2, <1>3 DEF FetchesArePaid
<1> QED BY <1>1, <1>2, <1>4 DEF PaidInv

LEMMA PaidStep == ASSUME Inv, Inv', PaidInv, [Next]_vars PROVE PaidInv'
<1>0. /\ physical \in Nat /\ fetches \in Nat /\ attempt \in Nat /\ hop \in Nat
      /\ MaxRedirects \in Nat
      /\ stage \in {"probing", "queued"} => physical = fetches + 1
      /\ stage \notin {"probing", "queued", "settled"} => physical = fetches
  BY PolicyType, TransportAssumption DEF Inv, TypeOK, PaidInv
<1>1. CASE Dispatch
  <2>1. CASE aborted
    BY <1>1, <2>1, PaidSettle DEF Dispatch
  <2>2. CASE ~aborted /\ opts.limited
    <3>1. /\ stage = "dispatch" /\ stage' \in {"probing", "queued"} /\ physical' = physical + 1
          /\ UNCHANGED <<policy, attempt, hop, result, fetches>>
      BY <1>1, <2>2 DEF Dispatch, locals
    <3> QED BY <1>0, <3>1, PaidMove
  <2>3. CASE ~aborted /\ ~opts.limited
    <3>1. /\ stage = "dispatch" /\ stage' = "fetch" /\ physical' = physical + 1
          /\ fetches' = fetches + 1 /\ UNCHANGED <<policy, attempt, hop, result>>
      BY <1>1, <2>3 DEF Dispatch, Fetch, locals
    <3> QED BY <1>0, <3>1, PaidMove
  <2> QED BY <2>1, <2>2, <2>3
<1>2. CASE Refuse
  BY <1>2, PaidSettle DEF Refuse
<1>3. CASE Admit
  <2>1. /\ stage = "probing" /\ stage' = "queued"
        /\ UNCHANGED <<policy, attempt, hop, result, physical, fetches>>
    BY <1>3 DEF Admit, locals
  <2> QED BY <1>0, <2>1, PaidMove
<1>4. CASE Start
  <2>1. /\ stage = "queued" /\ stage' = "fetch" /\ fetches' = fetches + 1
        /\ UNCHANGED <<policy, attempt, hop, result, physical>>
    BY <1>4 DEF Start, Fetch, locals
  <2> QED BY <1>0, <2>1, PaidMove
<1>5. CASE ObserveAbort
  BY <1>5, PaidSettle DEF ObserveAbort
<1>6. CASE FetchRejects
  BY <1>6, FetchRejectsEnds, PaidEnds DEF FetchRejects, InFlight
<1>7. CASE Arrival \/ TimerFires
  <2>1. /\ stage \in InFlight /\ stage' \in InFlight
        /\ UNCHANGED <<policy, attempt, hop, result, physical, fetches>>
    BY <1>7 DEF Arrival, RedirectArrives, ResponseArrives, TimerFires, locals, InFlight
  <2> QED BY <1>0, <2>1, PaidMove DEF InFlight
<1>8. CASE FollowRedirect
  <2>1. CASE Ends
    BY <1>8, <2>1, PaidEnds DEF FollowRedirect, InFlight
  <2>2. CASE Redirected
    <3>1. /\ stage = "redirect" /\ stage' = "dispatch" /\ attempt' = attempt /\ hop' = hop + 1
          /\ UNCHANGED <<policy, physical, fetches, result>>
      BY <1>8, <2>2 DEF FollowRedirect, Redirected
    <3>2. Spent \in Nat
      BY SpentFits DEF Inv
    <3>3. Spent' = Spent + 1
      <4>1. attempt * (MaxRedirects + 1) \in Nat
        BY <1>0
      <4> QED BY <1>0, <3>1, <4>1 DEF Spent
    <3> QED BY <3>1, <3>2, <3>3, PaidAgain DEF InFlight
  <2> QED BY <1>8, <2>1, <2>2, FollowRedirectEnds
<1>9. CASE BodyFails \/ BodyRead
  BY <1>9, BodyEnds, PaidEnds DEF BodyFails, BodyRead, InFlight
<1>10. CASE WaitEnds
  <2>1. /\ stage = "wait" /\ stage' = "dispatch" /\ attempt' = attempt + 1 /\ hop' = 0
        /\ UNCHANGED <<policy, physical, fetches, result>>
    BY <1>10 DEF WaitEnds
  <2> DEFINE w == MaxRedirects + 1
  <2>2. w \in Nat /\ hop + 1 <= w
    BY <1>0 DEF Inv, TypeOK
  <2>3. Spent' = (attempt + 1) * w + 0 /\ Spent = attempt * w + hop
    BY <2>1 DEF Spent
  <2> HIDE DEF w
  <2>4. (attempt + 1) * w = attempt * w + w /\ attempt * w \in Nat
    BY <1>0, <2>2, NextAttemptSpends
  <2>5. Spent' \in Nat /\ Spent + 1 <= Spent'
    BY <1>0, <2>2, <2>3, <2>4
  <2> QED BY <2>1, <2>5, PaidAgain
<1>11. CASE WaitAborted
  BY <1>11, PaidSettle DEF WaitAborted
<1>12. CASE CallerAborts \/ UNCHANGED vars
  <2>1. UNCHANGED <<policy, stage, attempt, physical, fetches, hop, result>>
    BY <1>12 DEF CallerAborts, vars, locals
  <2> QED BY <2>1 DEF PaidInv, FetchesArePaid, Spent
<1> QED BY <1>1, <1>2, <1>3, <1>4, <1>5, <1>6, <1>7, <1>8, <1>9, <1>10, <1>11, <1>12 DEF Next

(***************************************************************************)
(* The refinement.  An end of an attempt that settles is Capture's Finish; *)
(* one that waits does not show.                                           *)
(***************************************************************************)
LEMMA StageMap ==
  ASSUME Inv
  PROVE  /\ stage \in InFlight \cup {"wait"} => CaptureStage = "running"
         /\ stage \in {"probing", "queued"} => CaptureStage = stage
         /\ stage = "settled" => CaptureStage = "done"
         /\ stage = "dispatch" =>
              CaptureStage = IF physical = 0 THEN "call" ELSE IF opts.limited THEN "queued" ELSE "running"
BY DEF CaptureStage, Inv, InFlight

\* Every end of the request that Capture allows maps to the end of its attempt.
LEMMA SettledMaps ==
  ASSUME stage # "settled", stage' = "settled", UNCHANGED <<opts, policy, aborted>>,
         CaptureStage' = "done"
  PROVE  CaptureSpec!End(Outcome')
BY DEF CaptureSpec!End, CaptureSpec!given

LEMMA EndsMap ==
  ASSUME Inv, Inv', Ends, stage \in InFlight, UNCHANGED <<opts, policy, physical, fetches, aborted>>
  PROVE  [CaptureSpec!Next]_CaptureSpec!vars
<1>1. CASE Settled
  <2>1. result'.kind \in {"abort", "ok", "http", "network"}
    BY <1>1 DEF Settled
  <2>2. Outcome' \in CaptureSpec!Outcomes \ {"capacity"}
    BY <2>1 DEF Outcome, CaptureSpec!Outcomes
  <2>3. stage' = "settled" /\ stage # "settled" /\ CaptureStage' = "done"
    BY <1>1 DEF Settled, InFlight, CaptureStage
  <2>4. CaptureSpec!End(Outcome')
    BY <2>3, SettledMaps
  <2>5. CaptureSpec!Finish
    BY <2>2, <2>4, StageMap DEF CaptureSpec!Finish
  <2> QED BY <2>5 DEF CaptureSpec!Next
<1>2. CASE Waits
  <2>1. CaptureStage' = "running" /\ CaptureStage = "running"
    BY <1>2, StageMap DEF Waits, CaptureStage, InFlight
  <2>2. Outcome' = Outcome
    BY <1>2 DEF Waits, Outcome
  <2>3. stage' # "settled" /\ stage # "settled" /\ UNCHANGED <<attempt, hop>>
    BY <1>2 DEF Waits, InFlight
  <2> QED BY <2>1, <2>2, <2>3 DEF CaptureSpec!vars
<1> QED BY <1>1, <1>2 DEF Ends

LEMMA OutcomeMap ==
  ASSUME result'.kind \in {"abort", "capacity"}
  PROVE  Outcome' = result'.kind
<1> DEFINE kind == result'.kind  final == IF result'.status \in {"3xx", "429", "5xx"} THEN "retryable" ELSE "final"
<1>1. Outcome' = CASE kind = "pending" -> "none" [] kind = "http" -> final [] OTHER -> kind
  BY Zenon DEF Outcome
<1>2. kind # "pending" /\ kind # "http"
  OBVIOUS
<1> HIDE DEF kind, final
<1>3. Outcome' = kind
  BY <1>1, <1>2
<1> QED BY <1>3 DEF kind

LEMMA AbortMaps ==
  ASSUME Inv, aborted, stage # "settled", Settle([kind |-> "abort"]), UNCHANGED <<opts, policy, aborted>>
  PROVE  CaptureSpec!Next
<1>1. stage' = "settled" /\ CaptureStage' = "done" /\ Outcome' = "abort"
  <2>1. stage' = "settled" /\ result'.kind = "abort"
    BY DEF Settle
  <2>2. CaptureStage' = "done"
    BY <2>1 DEF CaptureStage, InFlight
  <2>3. Outcome' = "abort"
    BY <2>1, OutcomeMap
  <2> QED BY <2>1, <2>2, <2>3
<1>2. CaptureSpec!End("abort")
  BY <1>1, SettledMaps
<1>3. CaptureStage \in {"call", "probing", "queued", "running"}
  BY StageMap DEF Inv, TypeOK, InFlight
<1> QED BY <1>2, <1>3 DEF CaptureSpec!Next, CaptureSpec!AbortWait, CaptureSpec!Finish, CaptureSpec!Outcomes

LEMMA StepMaps ==
  ASSUME Inv, Inv', [Next]_vars
  PROVE  [CaptureSpec!Next]_CaptureSpec!vars
<1>1. ASSUME Dispatch PROVE [CaptureSpec!Next]_CaptureSpec!vars
  <2>1. CASE aborted
    BY <1>1, <2>1, AbortMaps DEF Dispatch
  <2>2. ASSUME ~aborted PROVE [CaptureSpec!Next]_CaptureSpec!vars
    <3>1. /\ stage = "dispatch" /\ physical' = physical + 1 /\ physical' # 0 /\ physical \in Nat
          /\ UNCHANGED <<opts, policy, aborted, attempt, hop, result>>
      BY <1>1, <2>2 DEF Dispatch, Fetch, locals, Inv, TypeOK
    <3>2. Outcome' = Outcome
      BY <3>1 DEF Outcome
    <3>3. CASE opts.limited
      <4>1. stage' = (IF physical = 0 /\ opts.probe THEN "probing" ELSE "queued") /\ UNCHANGED fetches
        BY <1>1, <2>2, <3>3 DEF Dispatch
      <4>2. CaptureStage' = stage'
        BY <4>1 DEF CaptureStage, InFlight
      <4>3. CASE physical = 0
        <5>1. CaptureSpec!Schedule
          BY <2>2, <3>1, <3>2, <3>3, <4>1, <4>2, <4>3, StageMap
             DEF CaptureSpec!Schedule, CaptureSpec!given
        <5> QED BY <5>1 DEF CaptureSpec!Next
      <4>4. CASE physical # 0
        BY <3>1, <3>2, <3>3, <4>1, <4>2, <4>4, StageMap DEF CaptureSpec!vars
      <4> QED BY <4>3, <4>4
    <3>4. CASE ~opts.limited
      <4>1. stage' = "fetch" /\ fetches' = fetches + 1 /\ fetches' # 0
        BY <1>1, <2>2, <3>4 DEF Dispatch, Fetch, Inv, TypeOK
      <4>2. CaptureStage' = "running"
        BY <4>1 DEF CaptureStage, InFlight
      <4>3. CASE physical = 0
        <5>1. fetches = 0 /\ attempt = 0
          BY <4>3 DEF Inv
        <5>2. CaptureSpec!Schedule
          BY <2>2, <3>1, <3>2, <3>4, <4>1, <4>2, <4>3, <5>1, StageMap
             DEF CaptureSpec!Schedule, CaptureSpec!given
        <5> QED BY <5>2 DEF CaptureSpec!Next
      <4>4. CASE physical # 0
        <5>1. fetches # 0
          BY <3>1, <4>4 DEF Inv
        <5> QED BY <3>1, <3>2, <3>4, <4>1, <4>2, <4>4, <5>1, StageMap DEF CaptureSpec!vars
      <4> QED BY <4>3, <4>4
    <3> QED BY <3>3, <3>4
  <2> QED BY <2>1, <2>2
<1>2. ASSUME Refuse PROVE CaptureSpec!Next
  <2>1. /\ stage = "probing" /\ ~aborted /\ stage' = "settled" /\ CaptureStage' = "done"
        /\ Outcome' = "capacity" /\ UNCHANGED <<opts, policy, aborted>>
    <3>1. stage = "probing" /\ ~aborted /\ stage' = "settled" /\ result'.kind = "capacity"
          /\ UNCHANGED <<opts, policy, aborted>>
      BY <1>2 DEF Refuse, Settle
    <3>2. Outcome' = "capacity"
      BY <3>1, OutcomeMap
    <3> QED BY <3>1, <3>2 DEF CaptureStage, InFlight
  <2>2. CaptureSpec!End("capacity")
    BY <2>1, SettledMaps
  <2> QED BY <2>1, <2>2, StageMap DEF CaptureSpec!Next, CaptureSpec!Refuse
<1>3. ASSUME Admit PROVE CaptureSpec!Next
  <2>1. /\ stage = "probing" /\ ~aborted /\ stage' = "queued" /\ CaptureStage' = "queued"
        /\ UNCHANGED <<opts, policy, aborted, attempt, fetches, hop, result>>
    BY <1>3 DEF Admit, locals, CaptureStage, InFlight
  <2>2. Outcome' = Outcome
    BY <2>1 DEF Outcome
  <2> QED BY <2>1, <2>2, StageMap DEF CaptureSpec!Next, CaptureSpec!Admit, CaptureSpec!given
<1>4. ASSUME Start PROVE CaptureSpec!Next
  <2>1. /\ stage = "queued" /\ ~aborted /\ stage' = "fetch" /\ CaptureStage' = "running"
        /\ fetches' = fetches + 1 /\ fetches' # 0
        /\ UNCHANGED <<opts, policy, aborted, attempt, hop, result>>
    BY <1>4 DEF Start, Fetch, locals, CaptureStage, InFlight, Inv, TypeOK
  <2>2. Outcome' = Outcome
    BY <2>1 DEF Outcome
  <2>3. attempt \in Nat /\ (fetches = 0 => attempt = 0)
    BY PolicyType DEF Inv, TypeOK
  <2> QED BY <2>1, <2>2, <2>3, StageMap DEF CaptureSpec!Next, CaptureSpec!Start, CaptureSpec!given
<1>5. ASSUME ObserveAbort PROVE CaptureSpec!Next
  BY <1>5, AbortMaps DEF ObserveAbort, InFlight
<1>6. ASSUME FetchRejects PROVE [CaptureSpec!Next]_CaptureSpec!vars
  BY <1>6, FetchRejectsEnds, EndsMap DEF FetchRejects, InFlight
<1>7. ASSUME Arrival \/ TimerFires PROVE [CaptureSpec!Next]_CaptureSpec!vars
  <2>1. /\ stage \in InFlight /\ stage' \in InFlight
        /\ UNCHANGED <<opts, policy, aborted, attempt, fetches, hop, result>>
    BY <1>7 DEF Arrival, RedirectArrives, ResponseArrives, TimerFires, InFlight, locals
  <2>2. Outcome' = Outcome /\ CaptureStage' = "running" /\ CaptureStage = "running"
    BY <2>1 DEF Outcome, CaptureStage, InFlight
  <2> QED BY <2>1, <2>2 DEF CaptureSpec!vars, InFlight
<1>8. ASSUME FollowRedirect PROVE [CaptureSpec!Next]_CaptureSpec!vars
  <2>1. CASE Ends
    BY <1>8, <2>1, EndsMap DEF FollowRedirect, InFlight
  <2>2. CASE Redirected
    <3>1. /\ stage = "redirect" /\ stage' = "dispatch" /\ ~aborted /\ hop < MaxRedirects
          /\ hop' = hop + 1 /\ fetches # 0 /\ physical # 0
          /\ UNCHANGED <<opts, policy, aborted, attempt, physical, fetches, result>>
      BY <1>8, <2>2 DEF FollowRedirect, Redirected, Inv, InFlight
    <3>2. Outcome' = Outcome
      BY <3>1 DEF Outcome
    <3>3. /\ CaptureStage = "running"
          /\ CaptureStage' = IF opts.limited THEN "queued" ELSE "running"
      BY <3>1 DEF CaptureStage, InFlight
    <3>4. CaptureSpec!Redirect
      BY <3>1, <3>2, <3>3 DEF CaptureSpec!Redirect, CaptureSpec!Redispatched, CaptureSpec!given
    <3> QED BY <3>4 DEF CaptureSpec!Next
  <2> QED BY <1>8, <2>1, <2>2, FollowRedirectEnds
<1>9. ASSUME BodyFails \/ BodyRead PROVE [CaptureSpec!Next]_CaptureSpec!vars
  BY <1>9, BodyEnds, EndsMap DEF BodyFails, BodyRead, InFlight
<1>10. ASSUME WaitEnds PROVE CaptureSpec!Next
  <2>1. /\ stage = "wait" /\ stage' = "dispatch" /\ ~aborted /\ attempt' = attempt + 1 /\ hop' = 0
        /\ fetches # 0 /\ physical # 0 /\ UNCHANGED <<opts, policy, aborted, physical, fetches, result>>
    BY <1>10 DEF WaitEnds, Inv, InFlight
  <2>2. Outcome' = Outcome
    BY <2>1 DEF Outcome
  <2>3. /\ CaptureStage = "running"
        /\ CaptureStage' = IF opts.limited THEN "queued" ELSE "running"
    BY <2>1 DEF CaptureStage, InFlight
  <2>4. attempt + 1 < policy.maxAttempts
    BY <2>1, PolicyType DEF Inv, TypeOK
  <2>5. CaptureSpec!Retry
    BY <2>1, <2>2, <2>3, <2>4 DEF CaptureSpec!Retry, CaptureSpec!Redispatched, CaptureSpec!given
  <2> QED BY <2>5 DEF CaptureSpec!Next
<1>11. ASSUME WaitAborted PROVE CaptureSpec!Next
  BY <1>11, AbortMaps DEF WaitAborted
<1>13. ASSUME CallerAborts PROVE CaptureSpec!Next
  <2>1. /\ ~aborted /\ aborted' = TRUE /\ stage # "settled"
        /\ UNCHANGED <<opts, policy, stage, attempt, physical, fetches, hop, result>>
    BY <1>13 DEF CallerAborts, locals
  <2>2. Outcome' = Outcome /\ CaptureStage' = CaptureStage
    BY <2>1 DEF Outcome, CaptureStage
  <2>3. CaptureStage # "done"
    BY <2>1, StageMap DEF Inv, TypeOK, InFlight
  <2> QED BY <2>1, <2>2, <2>3 DEF CaptureSpec!Next, CaptureSpec!CallerAborts, CaptureSpec!given
<1>14. CASE UNCHANGED vars
  <2>1. UNCHANGED <<opts, policy, aborted, stage, attempt, physical, fetches, hop, result>>
    BY <1>14 DEF vars, locals
  <2>2. Outcome' = Outcome /\ CaptureStage' = CaptureStage
    BY <2>1 DEF Outcome, CaptureStage
  <2> QED BY <2>1, <2>2 DEF CaptureSpec!vars
<1> QED BY <1>1, <1>2, <1>3, <1>4, <1>5, <1>6, <1>7, <1>8, <1>9, <1>10, <1>11, <1>13, <1>14
        DEF Next

LEMMA InitMaps == ASSUME Init PROVE CaptureSpec!Init
<1>1. policy.maxAttempts \in Nat \ {0} /\ opts.limited \in BOOLEAN /\ opts.probe \in BOOLEAN
      /\ (opts.probe => opts.limited)
  BY PolicyType DEF Init, Options
<1>2. stage = "dispatch" /\ physical = 0 /\ fetches = 0 /\ hop = 0 /\ aborted = FALSE /\ result = Pending
  BY DEF Init
<1>3. CaptureStage = "call" /\ Outcome = "none"
  BY <1>2 DEF CaptureStage, Outcome, Pending, InFlight
<1> QED BY <1>1, <1>2, <1>3 DEF CaptureSpec!Init

(***************************************************************************)
(* Theorems.                                                               *)
(***************************************************************************)
\* Types hold, attempts and redirects keep their limits, and every delay before a retry is
\* one a host timer can hold, whatever a Retry-After header says (http.ts, request and
\* retryAfterDelayMs).
THEOREM TypeCorrect == Spec => []TypeOK
<1>1. Inv => TypeOK
  BY DEF Inv
<1> QED BY <1>1, InvAlways, PTL

\* Whatever redirects did to the attempt before, every attempt's first fetch has the
\* method, the body and the URL of the request (http.ts, performAttempt).
THEOREM Replay == Spec => []RequestIsReplayed
<1>1. Inv => RequestIsReplayed
  BY DEF Inv
<1> QED BY <1>1, InvAlways, PTL

\* A request ends as a network failure only on a timeout or without an HTTP error status
\* (http.ts, performAttempt's diagnostic body).
THEOREM StatusKept == Spec => []StatusIsPreserved
<1>1. Inv => StatusIsPreserved
  BY DEF Inv, StatusIsPreserved, NoAnswer
<1> QED BY <1>1, InvAlways, PTL

\* Each physical fetch has been dispatched, and so paid its bucket, exactly once; one call
\* sends at most maxAttempts times one first fetch and its redirects; and the attempts an
\* HttpNetworkError reports are the fetches that went out (http.ts, request and
\* performAttempt).
THEOREM FetchesPaid == Spec => []FetchesArePaid
<1>1. PaidInv => FetchesArePaid
  BY DEF PaidInv
<1>2. Inv /\ Inv' /\ PaidInv /\ [Next]_vars => PaidInv'
  BY PaidStep
<1>3. Init => PaidInv
  BY PaidInit
<1> QED BY <1>1, <1>2, <1>3, InvAlways, PTL DEF Spec

\* An attempt that the caller's abort reached before its timer never ends as a retryable
\* network failure (http.ts, createAttemptSignal).
THEOREM FirstCause == Spec => FirstCauseWins
<1>1. Inv => (cause = "abort" => result.kind # "network")
  BY DEF Inv
<1>2. Inv /\ [Next]_vars => (cause = "abort" => (cause = "abort")')
  <2>1. ASSUME Inv, cause = "abort", Next PROVE cause' = "abort"
    <3>1. aborted
      BY <2>1 DEF Inv
    <3>2. CASE Dispatch
      BY <2>1, <3>1, <3>2 DEF Dispatch, Settle
    <3>3. CASE Refuse \/ Admit \/ Start \/ WaitEnds \/ CallerAborts
      BY <3>1, <3>3 DEF Refuse, Admit, Start, WaitEnds, CallerAborts
    <3>4. CASE ObserveAbort \/ WaitAborted
      BY <2>1, <3>4 DEF ObserveAbort, WaitAborted, Settle
    <3>5. CASE FetchRejects
      BY <2>1, <3>5, FetchRejectsEnds DEF Ends, Settled, Waits
    <3>6. CASE BodyFails \/ BodyRead
      BY <2>1, <3>6, BodyEnds DEF Ends, Settled, Waits
    <3>7. CASE FollowRedirect
      BY <2>1, <3>7, FollowRedirectEnds DEF Ends, Settled, Waits, Redirected
    <3>8. CASE Arrival
      BY <2>1, <3>8 DEF Arrival, RedirectArrives, ResponseArrives
    <3>9. CASE TimerFires
      BY <2>1, <3>9 DEF TimerFires
    <3> QED BY <2>1, <3>2, <3>3, <3>4, <3>5, <3>6, <3>7, <3>8, <3>9 DEF Next
  <2>2. ASSUME cause = "abort", UNCHANGED vars PROVE cause' = "abort"
    BY <2>2 DEF vars
  <2> QED BY <2>1, <2>2
<1> QED BY <1>1, <1>2, InvAlways, PTL DEF Spec, FirstCauseWins

\* Once the caller has aborted, no further fetch goes out, from whatever stage of whatever
\* attempt (http.ts, request; provider.ts, attemptDispatcher).
THEOREM AbortStops == Spec => AbortStopsFetching
<1>1. ASSUME [Next]_vars PROVE [aborted => fetches' = fetches]_vars
  BY <1>1 DEF Next, Dispatch, Refuse, Admit, Start, ObserveAbort, FetchRejects, Arrival,
              RedirectArrives, ResponseArrives, FollowRedirect, BodyFails, BodyRead, WaitEnds,
              WaitAborted, TimerFires, CallerAborts
<1> QED BY <1>1, PTL DEF Spec, AbortStopsFetching

\* One call of HttpTransport.request under the registry's dispatcher is the captured attempt
\* that Routing runs: it pays the bucket for each physical attempt, is refused only as a
\* probe before its first fetch, keeps its budget of attempts and redirects, and starts
\* nothing after an abort (http.ts, request; provider.ts, captureGet and attemptDispatcher).
THEOREM Refinement == Spec => ImplementsCapture
<1>1. Init => CaptureSpec!Init
  BY InitMaps
<1>2. Inv /\ Inv' /\ [Next]_vars => [CaptureSpec!Next]_CaptureSpec!vars
  BY StepMaps
<1> QED BY <1>1, <1>2, InvAlways, PTL DEF Spec, ImplementsCapture, CaptureSpec!Spec

===============================================================================
