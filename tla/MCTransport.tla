----------------------------- MODULE MCTransport -----------------------------
(***************************************************************************)
(* Three URLs and one redirect per attempt, so that a chain can meet a     *)
(* loop and the limit; retries disabled, retries of everything (two        *)
(* attempts), and retries of statuses only (three attempts), with a server *)
(* that asks for delays of any kind.  A timer holds three seconds.         *)
(***************************************************************************)
EXTENDS Transport

CONSTANTS u0, u1, u2

MCUrls == {u0, u1, u2}

MCPolicy(enabled, n, statuses, network, backoff) ==
  [enabled |-> enabled, maxAttempts |-> n, on404 |-> statuses,
   on429 |-> statuses, on5xx |-> statuses, onNetworkError |-> network,
   honorRetryAfter |-> enabled, backoff |-> backoff, initialDelayMs |-> 2, maxDelayMs |-> 3]

MCPolicies ==
  {MCPolicy(FALSE, 1, FALSE, FALSE, "fixed"), MCPolicy(TRUE, 2, TRUE, TRUE, "full-jitter"),
   MCPolicy(TRUE, 3, TRUE, FALSE, "fixed")}

MCRetryAfters ==
  [kind : {"none"}, v : {0}] \cup [kind : {"seconds"}, v : {1, 4}]
    \cup [kind : {"date"}, v : {-1000, 2000, 5000}]
==============================================================================
