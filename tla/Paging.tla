------------------------------- MODULE Paging --------------------------------
(***************************************************************************)
(* The page limit of the list requests of a builder, from what the caller  *)
(* asked for to the URL of each physical target: query objects that        *)
(* concurrent get() calls share and prepareQueryLimit rewrites, the limit  *)
(* resolved again for every provider a request visits, and next(), which   *)
(* goes on at the provider that served the page.                           *)
(*                                                                         *)
(* Which provider is visited is module Routing's: here it may be any, in   *)
(* any order.  Limits are those of one logical endpoint (inferPageEndpoint *)
(* finds the same one for the builder and for the links of its pages).     *)
(***************************************************************************)
EXTENDS Naturals

CONSTANTS
  Calls,         \* the calls of get(), each followed by next() on its pages
  Queries,       \* the query objects, shared by calls of one operation
  Providers,
  DefaultLimit, MaxLimit,  \* the page configuration of a provider
  Sizes          \* the numbers asked for, by callers and by links

ASSUME PageAssumption ==
  /\ DefaultLimit \in [Providers -> Nat \ {0}]
  /\ MaxLimit \in [Providers -> Nat \ {0}]
  /\ Sizes \subseteq Nat

VARIABLES
  builder,     \* the builder's current provider
  intent,      \* intent[q]: the limit the caller wrote into q
  param,       \* param[q]: query.limit
  remembered,  \* requestedQueryLimits
  pc, query,   \* where the call is, and its query object
  at,          \* the provider it visits
  sent,        \* the limit in the URL under way
  page         \* the page it holds: who served it, its link's limit, next.url()'s

vars == <<builder, intent, param, remembered, pc, query, at, sent, page>>
queries == <<intent, param, remembered>>

Symbol(s) == [kind |-> s]
Number(n) == [kind |-> "number", n |-> n]
NoLimit   == [kind |-> "none"]
NoPage    == [kind |-> "nothing"]
Numbers   == [kind : {"number"}, n : Nat]
Limits    == {NoLimit, Symbol("default"), Symbol("max")} \cup {Number(n) : n \in Sizes}

\* Mutant: a limit above the maximum is sent as it is.
Clamp_NoMaximum(p, n) == IF n < 1 THEN 1 ELSE n

\* resolveLimitValue: nothing stays nothing, anything else becomes a number in
\* the provider's range.
Clamp(p, n) == IF n < 1 THEN 1 ELSE IF n > MaxLimit[p] THEN MaxLimit[p] ELSE n

Resolve(p, limit) ==
  IF limit = NoLimit THEN NoLimit
  ELSE Number(Clamp(p, CASE limit.kind = "default" -> DefaultLimit[p]
                         [] limit.kind = "max"     -> MaxLimit[p]
                         [] limit.kind = "number"  -> limit.n))

\* A call without a page fetches its first one.
First(c) == page[c] = NoPage

\* What a query object asks for: the remembered limit before the present one.
Requested(q) == IF remembered[q] = NoLimit THEN param[q] ELSE remembered[q]

------------------------------------------------------------------------------
Init ==
  /\ builder \in Providers
  /\ intent \in [Queries -> Limits] /\ param = intent
  /\ remembered = [q \in Queries |-> NoLimit]
  /\ pc = [c \in Calls |-> "idle"] /\ query \in [Calls -> Queries]
  /\ at = [c \in Calls |-> builder]
  /\ sent = [c \in Calls |-> NoLimit] /\ page = [c \in Calls |-> NoPage]

Retarget ==
  /\ builder' \in Providers \ {builder}
  /\ UNCHANGED <<queries, pc, query, at, sent, page>>

\* Mutant: the limit resolved for this target is what is remembered.
PrepareQueryLimit_Forgets(p, q) ==
  /\ param' = [param EXCEPT ![q] = Resolve(p, Requested(q))]
  /\ remembered' = [remembered EXCEPT ![q] = Resolve(p, Requested(q))]

\* prepareQueryLimit: the query object gets a number for this target, and what
\* the caller wrote is remembered.  (An explicit limit is the intent once more.)
PrepareQueryLimit(p, q) ==
  /\ param' = [param EXCEPT ![q] = Resolve(p, Requested(q))]
  /\ remembered' = [remembered EXCEPT ![q] = Requested(q)]

\* url() for a target that is visited: the limit is resolved for it, and the
\* request goes out.
Visit(c, p, limit) ==
  /\ pc' = [pc EXCEPT ![c] = "sent"] /\ at' = [at EXCEPT ![c] = p]
  /\ sent' = [sent EXCEPT ![c] = Resolve(p, limit)]

\* get(): resolve the builder's target, prepare the query object, visit.
Get(c) ==
  /\ pc[c] = "idle"
  /\ UNCHANGED <<builder, intent, query, page>>
  /\ PrepareQueryLimit(builder, query[c])
  /\ Visit(c, builder, Requested(query[c])')

\* The target refuses or fails, and the routing goes on to another.
MoveOn(c, p) ==
  /\ pc[c] = "sent"
  /\ Visit(c, p, IF First(c) THEN Requested(query[c]) ELSE page[c].link)
  /\ UNCHANGED <<builder, queries, query, page>>

\* The routing gives up: the call, or next(), rejects.
Reject(c) ==
  /\ pc[c] = "sent"
  /\ pc' = [pc EXCEPT ![c] = IF First(c) THEN "idle" ELSE "page"]
  /\ sent' = [sent EXCEPT ![c] = NoLimit]
  /\ UNCHANGED <<builder, queries, query, at, page>>

\* resolveNextLink: the canonical URL has the limit of the page's provider.
NextUrl(p, link) == Resolve(p, link)

\* A page arrives and wrapPaged resolves its link, which carries the limit that
\* was sent, or what else the server put there.
Serve(c, link) ==
  /\ pc[c] = "sent"
  /\ pc' = [pc EXCEPT ![c] = "page"]
  /\ page' = [page EXCEPT ![c] =
               [kind |-> "page", provider |-> at[c], link |-> link,
                shown |-> NextUrl(at[c], link)]]
  /\ sent' = [sent EXCEPT ![c] = NoLimit]
  /\ UNCHANGED <<builder, queries, query, at>>

\* next() starts at the provider that served the page, with the link's limit.
NextPage(c) ==
  /\ pc[c] = "page"
  /\ Visit(c, page[c].provider, page[c].link)
  /\ UNCHANGED <<builder, queries, query, page>>

\* The caller drops the page and may call get() again.
Drop(c) ==
  /\ pc[c] = "page"
  /\ pc' = [pc EXCEPT ![c] = "idle"]
  /\ page' = [page EXCEPT ![c] = NoPage]
  /\ UNCHANGED <<builder, queries, query, at, sent>>

Next ==
  \/ Retarget
  \/ \E c \in Calls :
       \/ Get(c) \/ Reject(c) \/ NextPage(c) \/ Drop(c)
       \/ \E p \in Providers : MoveOn(c, p)
       \/ \E link \in Limits \cup {sent[c]} : Serve(c, link)

Spec == Init /\ [][Next]_vars

------------------------------------------------------------------------------
(***************************************************************************)
(* Properties.                                                             *)
(***************************************************************************)
\* Every variable keeps its type, and no URL exceeds a provider's limit.
TypeOK ==
  /\ builder \in Providers /\ at \in [Calls -> Providers]
  /\ intent \in [Queries -> Limits] /\ remembered \in [Queries -> Limits]
  /\ param \in [Queries -> Limits \cup Numbers] /\ query \in [Calls -> Queries]
  /\ pc \in [Calls -> {"idle", "sent", "page"}]
  /\ sent \in [Calls -> Numbers \cup {NoLimit}]
  /\ page \in [Calls -> {NoPage} \cup
        [kind : {"page"}, provider : Providers, link : Limits \cup Numbers,
         shown : Numbers \cup {NoLimit}]]
  /\ \A c \in Calls : pc[c] = "sent" /\ sent[c] # NoLimit => sent[c].n \in 1 .. MaxLimit[at[c]]

\* README "limit default and limit max are resolved only after the provider that
\* will execute that request is selected": a first page's limit is what the caller
\* wrote, resolved for the provider that is visited, however often the shared query
\* object was prepared for other providers meanwhile; and "next.url() describes
\* the same provider-neutral route used by next() on the page's current provider":
\* a later page's is, there, the one that was shown.
LimitsFollowTheProvider ==
  \A c \in Calls : pc[c] = "sent" =>
    /\ First(c) => sent[c] = Resolve(at[c], intent[query[c]])
    /\ ~First(c) /\ at[c] = page[c].provider => sent[c] = page[c].shown
==============================================================================
