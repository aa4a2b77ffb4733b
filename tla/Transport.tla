------------------------------ MODULE Transport ------------------------------
(***************************************************************************)
(* One call of HttpTransport.request together with the dispatcher that     *)
(* ProviderRegistry.attemptDispatcher gives it: the retry loop, the manual *)
(* redirects inside each attempt, the attempt's timeout racing the caller's*)
(* abort, and the wait between attempts.                                   *)
(*                                                                         *)
(* fetch, the server and the limiter bucket are the environment.  A wait   *)
(* has its delay in milliseconds, and ends when the environment likes.     *)
(***************************************************************************)
EXTENDS Integers, FiniteSets

CONSTANTS
  Urls,          \* URLs of the target's origin
  Url,           \* the URL of the request, one of Urls
  Policies,      \* the normalized retry policies to start from
  MaxRedirects,  \* MAX_REDIRECT_HOPS
  MaxTimer,      \* MAX_TIMER_DELAY_MS
  RetryAfters    \* the Retry-After headers a server may send

ASSUME TransportAssumption ==
  /\ Url \in Urls /\ IsFiniteSet(Urls)
  /\ MaxRedirects \in Nat
  /\ Policies \subseteq [enabled : BOOLEAN, maxAttempts : Nat \ {0},
                         on404 : BOOLEAN, on429 : BOOLEAN, on5xx : BOOLEAN,
                         onNetworkError : BOOLEAN, honorRetryAfter : BOOLEAN,
                         backoff : {"fixed", "full-jitter"},
                         initialDelayMs : 0 .. MaxTimer, maxDelayMs : 0 .. MaxTimer]
  /\ MaxTimer \in Nat
  /\ RetryAfters \subseteq [kind : {"none", "seconds", "date", "junk"}, v : Int]
  /\ \A h \in RetryAfters : h.kind = "seconds" => h.v \in Nat

VARIABLES
  opts,      \* method, whether timeoutMs is set, the bucket, its first behaviour
  policy,    \* the normalized retry policy
  stage,     \* where the call is
  attempt,   \* attempts completed and retried
  physical,  \* physicalAttempt: dispatches so far
  fetches,   \* fetches that went out
  url, method, body, hop, visited,  \* the locals of performAttempt
  redirect,  \* the redirect response being discarded
  delay,     \* of the wait before the next attempt
  answer,    \* the status class of the last response of the attempt
  cause,     \* what aborted the attempt's signal first
  aborted,   \* the caller's AbortSignal
  result

locals == <<url, method, body, hop, visited>>
vars == <<opts, policy, stage, attempt, physical, fetches, locals, redirect, delay,
          answer, cause, aborted, result>>

Statuses == {"200", "3xx", "404", "429", "4xx", "5xx"}
Moves    == {"302", "303", "307"}       \* 301 like 302, 308 like 307
Targets  == Urls \cup {"foreign", "invalid"}
Errors   == {"network", "json", "policy", "timeout", "abort"}
Pending  == [kind |-> "pending"]
NoRedirect == [move |-> "none"]
InFlight == {"fetch", "redirect", "body"}

Options == [method : {"GET", "POST"}, timed : BOOLEAN, limited : BOOLEAN,
            probe : BOOLEAN]

\* redirectMethod: 303, and 301 or 302 after a POST, continue with GET.
RedirectMethod(move, m) ==
  IF move = "303" \/ (move = "302" /\ m = "POST") THEN "GET" ELSE m

\* Which statuses request() itself retries.
Retryable(status) ==
  \/ status = "404" /\ policy.on404
  \/ status = "429" /\ policy.on429
  \/ status = "5xx" /\ policy.on5xx

Lesser(a, b) == IF a < b THEN a ELSE b
Greater(a, b) == IF a < b THEN b ELSE a

\* computeBackoff: any delay below the doubled one; Math.random() is never one.
ComputeBackoff ==
  {d \in 0 .. policy.maxDelayMs :
     d = 0 \/ (d < policy.maxDelayMs /\ d < policy.initialDelayMs * 2 ^ attempt)}

ComputeDelay ==
  IF policy.backoff = "fixed" THEN {Lesser(policy.initialDelayMs, policy.maxDelayMs)}
  ELSE ComputeBackoff

\* Mutant: a date is used as it is, past or far.
RetryAfterDelay_DateAsIs(header) ==
  CASE header.kind = "seconds" -> {Lesser(header.v * 1000, MaxTimer)}
    [] header.kind = "date"    -> {header.v}
    [] OTHER                   -> {}

\* retryAfterDelayMs: seconds are not negative by their form, a date is v milliseconds from
\* now; whatever is neither does not count.
RetryAfterDelay(header) ==
  CASE header.kind = "seconds" -> {Lesser(header.v * 1000, MaxTimer)}
    [] header.kind = "date"    -> {Lesser(Greater(0, header.v), MaxTimer)}
    [] OTHER                   -> {}

LastAttempt == attempt >= policy.maxAttempts - 1

------------------------------------------------------------------------------
(***************************************************************************)
(* The ends of an attempt.                                                 *)
(***************************************************************************)
Settle(r) ==
  /\ stage' = "settled" /\ result' = r /\ redirect' = NoRedirect /\ delay' = 0
  /\ UNCHANGED <<attempt, locals, answer, cause>>

WaitForRetry(delays) ==
  /\ stage' = "wait" /\ redirect' = NoRedirect /\ delay' \in delays
  /\ UNCHANGED <<attempt, locals, answer, cause, result>>

\* request()'s branch for a failed attempt: an abort is thrown as it is, a
\* timeout or any other failure is retried or becomes an HttpNetworkError.
Failed(error, timedOut) ==
  IF ~timedOut /\ (aborted \/ error = "abort")
  THEN Settle([kind |-> "abort"])
  ELSE IF ~policy.enabled \/ ~policy.onNetworkError \/ LastAttempt
       THEN Settle([kind |-> "network", error |-> error, attempts |-> physical])
       ELSE WaitForRetry(ComputeDelay)

\* The catch clause around a fetch: once the timer has fired it is a timeout.
Caught(error) ==
  IF cause = "timeout" THEN Failed("timeout", TRUE) ELSE Failed(error, FALSE)

\* request()'s branch for an attempt that ended with a response.
Responded(status) ==
  IF status = "200" THEN Settle([kind |-> "ok"])
  ELSE IF policy.enabled /\ Retryable(status) /\ ~LastAttempt
       THEN \E header \in RetryAfters :
              LET asked == IF policy.honorRetryAfter THEN RetryAfterDelay(header) ELSE {}
              IN  WaitForRetry(IF asked = {} THEN ComputeDelay ELSE asked)
       ELSE Settle([kind |-> "http", status |-> status])

\* The dispatched task starts: createAttemptSignal, then fetch.
Fetch ==
  /\ stage' = "fetch" /\ fetches' = fetches + 1
  /\ cause' = "none" /\ answer' = "none"

------------------------------------------------------------------------------
Init ==
  /\ opts \in {o \in Options : o.probe => o.limited}
  /\ policy \in Policies
  /\ stage = "dispatch" /\ attempt = 0 /\ physical = 0 /\ fetches = 0
  /\ url = Url /\ method = opts.method /\ body = (opts.method = "POST")
  /\ hop = 0 /\ visited = {Url}
  /\ redirect = NoRedirect /\ delay = 0 /\ answer = "none" /\ cause = "none"
  /\ aborted = FALSE /\ result = Pending

\* Mutant: every physical attempt of a probe may be refused, not just the first.
Dispatch_AlwaysProbes ==
  /\ stage = "dispatch"
  /\ physical' = physical + 1
  /\ \/ /\ aborted
        /\ Settle([kind |-> "abort"]) /\ UNCHANGED fetches
     \/ /\ ~aborted /\ opts.limited
        /\ stage' = (IF opts.probe THEN "probing" ELSE "queued")
        /\ UNCHANGED <<attempt, fetches, locals, redirect, delay, answer, cause, result>>
     \/ /\ ~aborted /\ ~opts.limited
        /\ Fetch /\ UNCHANGED <<attempt, locals, redirect, delay, result>>
  /\ UNCHANGED <<opts, policy, aborted>>

\* The next physical attempt is handed to the dispatcher.
Dispatch ==
  /\ stage = "dispatch"
  /\ physical' = physical + 1
  /\ \/ /\ aborted
        /\ Settle([kind |-> "abort"]) /\ UNCHANGED fetches
     \/ /\ ~aborted /\ opts.limited
        /\ stage' = (IF physical = 0 /\ opts.probe THEN "probing" ELSE "queued")
        /\ UNCHANGED <<attempt, fetches, locals, redirect, delay, answer, cause, result>>
     \/ /\ ~aborted /\ ~opts.limited
        /\ Fetch /\ UNCHANGED <<attempt, locals, redirect, delay, result>>
  /\ UNCHANGED <<opts, policy, aborted>>

\* The bucket decides a probe; LimiterCapacityError escapes the retry loop.
Refuse ==
  /\ stage = "probing" /\ ~aborted
  /\ Settle([kind |-> "capacity"])
  /\ UNCHANGED <<opts, policy, physical, fetches, aborted>>

Admit ==
  /\ stage = "probing" /\ ~aborted
  /\ stage' = "queued"
  /\ UNCHANGED <<opts, policy, attempt, physical, fetches, locals, redirect, delay,
                 answer, cause, aborted, result>>

\* Mutant: no recheck of the signal when the bucket runs the job.
Start_NoRecheck ==
  /\ stage = "queued"
  /\ Fetch
  /\ UNCHANGED <<opts, policy, attempt, physical, locals, redirect, delay, aborted, result>>

\* The bucket runs the job; its recheck of the caller's signal passes.
Start ==
  /\ stage = "queued" /\ ~aborted
  /\ Fetch
  /\ UNCHANGED <<opts, policy, attempt, physical, locals, redirect, delay, aborted, result>>

\* Mutant: a probe being decided is not watched.
ObserveAbort_NotProbing ==
  /\ aborted /\ opts.limited /\ stage \in {"queued"} \cup InFlight
  /\ Settle([kind |-> "abort"])
  /\ UNCHANGED <<opts, policy, physical, fetches, aborted>>

\* observeAbort: the caller of a limited attempt stops waiting for it at once.
ObserveAbort ==
  /\ aborted /\ opts.limited /\ stage \in {"probing", "queued"} \cup InFlight
  /\ Settle([kind |-> "abort"])
  /\ UNCHANGED <<opts, policy, physical, fetches, aborted>>

------------------------------------------------------------------------------
\* fetch rejects: a failure of its own, the reason its signal was aborted with,
\* or an AbortError of the platform.
FetchRejects ==
  /\ stage = "fetch"
  /\ Caught("network") \/ Caught("abort")
  /\ UNCHANGED <<opts, policy, physical, fetches, aborted>>

\* A redirect response; an opaque one does not show its location.
RedirectArrives(move, to) ==
  /\ stage = "fetch"
  /\ stage' = "redirect" /\ answer' = "redirect"
  /\ redirect' = [move |-> move, to |-> to]
  /\ UNCHANGED <<opts, policy, attempt, physical, fetches, locals, delay, cause,
                 aborted, result>>

ResponseArrives(status) ==
  /\ stage = "fetch"
  /\ stage' = "body" /\ answer' = status
  /\ UNCHANGED <<opts, policy, attempt, physical, fetches, locals, redirect, delay,
                 cause, aborted, result>>

\* Mutant: the destination is fetched at once, past the dispatcher.
FollowRedirect_Undispatched ==
  LET to == redirect.to IN
  /\ stage = "redirect"
  /\ IF aborted THEN Caught("abort") /\ UNCHANGED fetches
     ELSE IF cause = "timeout" THEN Caught("timeout") /\ UNCHANGED fetches
     ELSE IF redirect.move = "opaque" \/ to \notin Urls \/ to \in visited
             \/ hop >= MaxRedirects
     THEN Failed("policy", FALSE) /\ UNCHANGED fetches
     ELSE /\ Fetch /\ redirect' = NoRedirect
          /\ url' = to /\ visited' = visited \cup {to} /\ hop' = hop + 1
          /\ method' = RedirectMethod(redirect.move, method)
          /\ body' = (body /\ RedirectMethod(redirect.move, method) # "GET")
          /\ UNCHANGED <<attempt, delay, result>>
  /\ UNCHANGED <<opts, policy, physical, aborted>>

\* The redirect's body is discarded; then the signal, then the destination.
FollowRedirect ==
  LET to == redirect.to IN
  /\ stage = "redirect"
  /\ IF aborted THEN Caught("abort")
     ELSE IF cause = "timeout" THEN Caught("timeout")
     ELSE IF redirect.move = "opaque" \/ to \notin Urls \/ to \in visited
             \/ hop >= MaxRedirects
     THEN Failed("policy", FALSE)
     ELSE /\ stage' = "dispatch" /\ redirect' = NoRedirect
          /\ url' = to /\ visited' = visited \cup {to} /\ hop' = hop + 1
          /\ method' = RedirectMethod(redirect.move, method)
          /\ body' = (body /\ RedirectMethod(redirect.move, method) # "GET")
          /\ UNCHANGED <<attempt, delay, answer, cause, result>>
  /\ UNCHANGED <<opts, policy, physical, fetches, aborted>>

\* Mutant: an error response whose body breaks loses its status.
BodyFails_LosesStatus ==
  /\ stage = "body"
  /\ IF aborted THEN Caught("abort")
     ELSE IF cause = "timeout" THEN Caught("timeout")
     ELSE Caught("network")
  /\ UNCHANGED <<opts, policy, physical, fetches, aborted>>

\* The body stream breaks: a failure only if the status was a success.
BodyFails ==
  /\ stage = "body"
  /\ IF aborted THEN Caught("abort")
     ELSE IF cause = "timeout" THEN Caught("timeout")
     ELSE IF answer # "200" THEN Responded(answer)
     ELSE Caught("network")
  /\ UNCHANGED <<opts, policy, physical, fetches, aborted>>

\* The body is read; a success must also be JSON.
BodyRead ==
  /\ stage = "body"
  /\ IF aborted THEN Caught("abort")
     ELSE IF cause = "timeout" THEN Caught("timeout")
     ELSE \/ Responded(answer)
          \/ answer = "200" /\ Caught("json")
  /\ UNCHANGED <<opts, policy, physical, fetches, aborted>>

------------------------------------------------------------------------------
\* Mutant: the method and body a redirect left behind are kept.
WaitEnds_KeepsMethod ==
  /\ stage = "wait" /\ ~aborted
  /\ stage' = "dispatch" /\ attempt' = attempt + 1
  /\ url' = Url /\ UNCHANGED <<method, body>>
  /\ hop' = 0 /\ visited' = {Url}
  /\ answer' = "none" /\ cause' = "none" /\ delay' = 0
  /\ UNCHANGED <<opts, policy, physical, fetches, redirect, aborted, result>>

\* waitForRetry ends: a fresh attempt with the request as it was given.
WaitEnds ==
  /\ stage = "wait" /\ ~aborted
  /\ stage' = "dispatch" /\ attempt' = attempt + 1
  /\ url' = Url /\ method' = opts.method /\ body' = (opts.method = "POST")
  /\ hop' = 0 /\ visited' = {Url}
  /\ answer' = "none" /\ cause' = "none" /\ delay' = 0
  /\ UNCHANGED <<opts, policy, physical, fetches, redirect, aborted, result>>

\* Mutant: the abort listener clears the timer and forgets to reject.
WaitAborted_NeverRejects == FALSE /\ UNCHANGED vars

\* waitForRetry rejects as soon as the caller aborts.
WaitAborted ==
  /\ stage = "wait" /\ aborted
  /\ Settle([kind |-> "abort"])
  /\ UNCHANGED <<opts, policy, physical, fetches, aborted>>

\* Mutant: the timer overrides an abort that came first.
TimerFires_Overrides ==
  /\ opts.timed /\ stage \in InFlight
  /\ cause' = "timeout"
  /\ UNCHANGED <<opts, policy, stage, attempt, physical, fetches, locals,
                 redirect, delay, answer, aborted, result>>

\* The attempt's timer: the first cancellation cause is kept.
TimerFires ==
  /\ opts.timed /\ stage \in InFlight
  /\ cause = "none"
  /\ cause' = "timeout"
  /\ UNCHANGED <<opts, policy, stage, attempt, physical, fetches, locals,
                 redirect, delay, answer, aborted, result>>

CallerAborts ==
  /\ ~aborted /\ stage # "settled"
  /\ aborted' = TRUE
  /\ cause' = (IF stage \in InFlight /\ cause = "none" THEN "abort" ELSE cause)
  /\ UNCHANGED <<opts, policy, stage, attempt, physical, fetches, locals,
                 redirect, delay, answer, result>>

Arrival ==
  \/ \E move \in Moves \cup {"opaque"}, to \in Targets : RedirectArrives(move, to)
  \/ \E status \in Statuses : ResponseArrives(status)

Next ==
  \/ Dispatch \/ Refuse \/ Admit \/ Start \/ ObserveAbort
  \/ FetchRejects \/ Arrival \/ FollowRedirect \/ BodyFails \/ BodyRead
  \/ WaitEnds \/ WaitAborted \/ TimerFires \/ CallerAborts

Spec == Init /\ [][Next]_vars

(***************************************************************************)
(* Fairness: the event loop runs what is ready, the bucket decides and     *)
(* drains, and fetch and the body stream end.                              *)
(***************************************************************************)
Progress ==
  /\ WF_vars(Dispatch) /\ WF_vars(Refuse \/ Admit) /\ WF_vars(Start)
  /\ WF_vars(ObserveAbort)
  /\ WF_vars(FetchRejects \/ Arrival) /\ WF_vars(FollowRedirect)
  /\ WF_vars(BodyFails \/ BodyRead) /\ WF_vars(WaitEnds) /\ WF_vars(WaitAborted)

\* Nothing outside moves: no bucket drains, no server answers, no retry timer
\* runs out; only the client and the signals it passed on do.
AbortProgress ==
  /\ WF_vars(Dispatch) /\ WF_vars(ObserveAbort) /\ WF_vars(WaitAborted)
  /\ WF_vars(aborted /\ (FetchRejects \/ FollowRedirect \/ BodyFails))

------------------------------------------------------------------------------
(***************************************************************************)
(* Properties.                                                             *)
(***************************************************************************)
\* Every variable keeps its type; attempts and redirects keep their limits, and a delay
\* fits a host timer, whatever Retry-After asks for: a longer or a negative one would fire
\* at once.
TypeOK ==
  /\ opts \in Options /\ policy \in Policies
  /\ stage \in {"dispatch", "probing", "queued", "wait", "settled"} \cup InFlight
  /\ attempt \in 0 .. policy.maxAttempts - 1
  /\ physical \in Nat /\ fetches \in Nat
  /\ url \in Urls /\ method \in {"GET", "POST"} /\ body \in BOOLEAN
  /\ hop \in 0 .. MaxRedirects /\ visited \subseteq Urls
  /\ delay \in 0 .. MaxTimer
  /\ answer \in Statuses \cup {"none", "redirect"}
  /\ cause \in {"none", "abort", "timeout"} /\ aborted \in BOOLEAN

\* "Serialize once so ... every retry replays the byte-identical request body":
\* whatever a redirect did to the previous attempt, an attempt's first fetch has
\* the method, the body and the URL of the request, and a body goes out exactly
\* with a POST.
RequestIsReplayed ==
  /\ hop = 0 => url = Url /\ method = opts.method
  /\ body <=> method = "POST"

\* "Once an HTTP status is known, preserve it even if its diagnostic error body
\* cannot be read": a request ends as a network failure only on a timeout or
\* when its last fetch got no answer, a redirect, or an unusable success.
StatusIsPreserved ==
  result.kind = "network" =>
    result.error = "timeout" \/ answer \in {"none", "redirect", "200"}

\* "A later timeout must not turn an explicit caller abort into a retryable
\* provider failure": once the caller's abort has reached an attempt before its
\* timer, the request never ends as a network failure.
FirstCauseWins == [](cause = "abort" => [](result.kind # "network"))

\* README "Every physical request consumes capacity, including retry" and "Every followed
\* same-origin redirect hop consumes capacity independently": each fetch has been dispatched
\* once, and there are no more of them than the two limits allow together.  The attempts an
\* HttpNetworkError reports are the "Number of physical fetch attempts" (errors.ts).
FetchesArePaid ==
  /\ physical - fetches \in {0, 1}
  /\ fetches <= policy.maxAttempts * (MaxRedirects + 1)
  /\ result.kind = "network" => result.attempts = fetches

\* README "A caller abort stops limiter waiting, retries, failover, transport":
\* after the abort no further fetch goes out.
AbortStopsFetching == [][aborted => fetches' = fetches]_vars

\* Under Progress every request settles: retries and redirects are bounded.
Settles == Progress => <>(stage = "settled")

\* Under AbortProgress, where the server never answers, no bucket drains and no
\* retry delay ends, an abort still settles the request.
AbortIsPrompt == AbortProgress => (aborted ~> stage = "settled")

\* The transport keeps what Routing assumes of a captured attempt.
Outcome ==
  CASE result.kind = "pending" -> "none"
    [] result.kind = "http" ->
         IF result.status \in {"3xx", "429", "5xx"} THEN "retryable" ELSE "final"
    [] OTHER -> result.kind

CaptureStage ==
  CASE stage = "settled" -> "done"
    [] stage = "dispatch" ->
         IF physical = 0 THEN "call" ELSE IF opts.limited THEN "queued" ELSE "running"
    [] stage \in InFlight \cup {"wait"} -> "running"
    [] OTHER -> stage

CaptureSpec == INSTANCE Capture WITH
  MaxHops <- MaxRedirects,
  limited <- opts.limited,
  probe   <- opts.probe,
  budget  <- policy.maxAttempts,
  stage   <- CaptureStage,
  attempt <- IF fetches = 0 \/ stage = "settled" THEN 0 ELSE attempt + 1,
  hops    <- IF stage = "settled" THEN 0 ELSE hop,
  outcome <- Outcome

ImplementsCapture == CaptureSpec!Spec

\* errors.ts on HttpNetworkError: "this represents a request that did not
\* receive an HTTP response".
NetworkErrorMeansNoResponse == result.kind = "network" => answer = "none"
==============================================================================
