---------------------------- MODULE Paging_proofs -----------------------------
(***************************************************************************)
(* Proofs about Paging: its types, with the range of every limit that is   *)
(* sent, and that limits follow the provider a request visits.             *)
(***************************************************************************)
EXTENDS Paging, TLAPS

(***************************************************************************)
(* A resolved limit is absent exactly if none was asked for, and else a    *)
(* number in the provider's range.                                         *)
(***************************************************************************)
LEMMA ResolvedInRange ==
  ASSUME NEW p \in Providers, NEW limit \in Limits \cup Numbers
  PROVE  /\ Resolve(p, limit) \in Numbers \cup {NoLimit}
         /\ limit = NoLimit <=> Resolve(p, limit) = NoLimit
         /\ Resolve(p, limit) # NoLimit => Resolve(p, limit).n \in 1 .. MaxLimit[p]
<1>1. DefaultLimit[p] \in Nat /\ MaxLimit[p] \in Nat /\ MaxLimit[p] >= 1
  BY PageAssumption
<1>2. ASSUME NEW n \in Nat
      PROVE  Clamp(p, n) \in Nat /\ Clamp(p, n) \in 1 .. MaxLimit[p]
  BY <1>1, <1>2 DEF Clamp
<1>3. ASSUME NEW n \in Nat
      PROVE  /\ Number(Clamp(p, n)) \in Numbers /\ Number(Clamp(p, n)) # NoLimit
             /\ Number(Clamp(p, n)).n \in 1 .. MaxLimit[p]
  BY <1>2 DEF Number, Numbers, NoLimit
<1>4. CASE limit = NoLimit
  BY <1>4 DEF Resolve
<1>5. CASE limit = Symbol("default")
  <2>1. limit # NoLimit /\ limit.kind = "default"
    BY <1>5 DEF Symbol, NoLimit
  <2>2. Resolve(p, limit) = Number(Clamp(p, DefaultLimit[p]))
    BY <2>1 DEF Resolve
  <2> QED BY <1>1, <1>3, <2>1, <2>2
<1>6. CASE limit = Symbol("max")
  <2>1. limit # NoLimit /\ limit.kind = "max"
    BY <1>6 DEF Symbol, NoLimit
  <2>2. Resolve(p, limit) = Number(Clamp(p, MaxLimit[p]))
    BY <2>1 DEF Resolve
  <2> QED BY <1>1, <1>3, <2>1, <2>2
<1>7. CASE limit \in Numbers
  <2>1. limit # NoLimit /\ limit.kind = "number" /\ limit.n \in Nat
    BY <1>7 DEF Numbers, NoLimit
  <2>2. Resolve(p, limit) = Number(Clamp(p, limit.n))
    BY <2>1 DEF Resolve
  <2> QED BY <1>3, <2>1, <2>2
<1>8. limit \in {NoLimit, Symbol("default"), Symbol("max")} \cup Numbers
  BY PageAssumption DEF Limits, Numbers, Number
<1> QED BY <1>4, <1>5, <1>6, <1>7, <1>8

(***************************************************************************)
(* What every query object asks for is what its caller wrote, and what was *)
(* sent, or shown, is the link's limit at the provider in question.  A     *)
(* call that is idle holds no page.                                        *)
(***************************************************************************)
IntentKept == \A q \in Queries : Requested(q) = intent[q]

SentInv ==
  \A c \in Calls : pc[c] = "sent" =>
    sent[c] = Resolve(at[c], IF First(c) THEN intent[query[c]] ELSE page[c].link)

ShownInv ==
  \A c \in Calls : ~First(c) => page[c].shown = Resolve(page[c].provider, page[c].link)

HeldInv == \A c \in Calls : (pc[c] = "idle" => First(c)) /\ (pc[c] = "page" => ~First(c))

IndInv == TypeOK /\ IntentKept /\ SentInv /\ ShownInv /\ HeldInv

(***************************************************************************)
(* The pieces that steps share.                                            *)
(***************************************************************************)
LEMMA VisitTypes ==
  ASSUME TypeOK, NEW c \in Calls, NEW p \in Providers,
         NEW limit \in Limits \cup Numbers, Visit(c, p, limit)
  PROVE  /\ pc' \in [Calls -> {"idle", "sent", "page"}] /\ at' \in [Calls -> Providers]
         /\ sent' \in [Calls -> Numbers \cup {NoLimit}]
         /\ \A d \in Calls : pc'[d] = "sent" /\ sent'[d] # NoLimit
                               => sent'[d].n \in 1 .. MaxLimit[at'[d]]
<1>1. Resolve(p, limit) \in Numbers \cup {NoLimit}
      /\ (Resolve(p, limit) # NoLimit => Resolve(p, limit).n \in 1 .. MaxLimit[p])
  BY ResolvedInRange
<1>2. pc' = [pc EXCEPT ![c] = "sent"] /\ at' = [at EXCEPT ![c] = p]
      /\ sent' = [sent EXCEPT ![c] = Resolve(p, limit)]
  BY DEF Visit
<1>3. /\ pc' \in [Calls -> {"idle", "sent", "page"}] /\ at' \in [Calls -> Providers]
      /\ sent' \in [Calls -> Numbers \cup {NoLimit}]
  BY <1>1, <1>2 DEF TypeOK
<1>4. ASSUME NEW d \in Calls, pc'[d] = "sent", sent'[d] # NoLimit
      PROVE  sent'[d].n \in 1 .. MaxLimit[at'[d]]
  <2>1. CASE d = c
    BY <1>1, <1>2, <1>4, <2>1 DEF TypeOK
  <2>2. CASE d # c
    BY <1>2, <1>4, <2>2 DEF TypeOK
  <2> QED BY <2>1, <2>2
<1> QED BY <1>3, <1>4

\* A visit sends the limit it is given, and nothing else changes what was sent.
LEMMA VisitSends ==
  ASSUME TypeOK, SentInv, NEW c \in Calls, NEW p \in Providers, NEW limit,
         Visit(c, p, limit), UNCHANGED <<intent, query, page>>,
         limit = IF First(c) THEN intent[query[c]] ELSE page[c].link
  PROVE  SentInv'
<1> SUFFICES ASSUME NEW d \in Calls, pc'[d] = "sent"
             PROVE  sent'[d] = Resolve(at'[d], IF First(d) THEN intent[query[d]] ELSE page[d].link)
  BY DEF SentInv, First
<1>1. CASE d = c
  BY <1>1 DEF Visit, TypeOK
<1>2. CASE d # c
  BY <1>2 DEF Visit, TypeOK, SentInv
<1> QED BY <1>1, <1>2

(***************************************************************************)
(* Paging starts and stays in IndInv.                                      *)
(***************************************************************************)
LEMMA InitIndInv == ASSUME Init PROVE IndInv
<1>1. TypeOK
  BY DEF Init, TypeOK, Limits
<1>2. IntentKept
  BY DEF Init, IntentKept, Requested
<1>3. SentInv /\ ShownInv /\ HeldInv
  BY DEF Init, SentInv, ShownInv, HeldInv, First
<1> QED BY <1>1, <1>2, <1>3 DEF IndInv

LEMMA StepPreserves == ASSUME IndInv, [Next]_vars PROVE IndInv'
<1> USE DEF IndInv
<1>1. CASE Retarget
  <2>1. TypeOK' BY <1>1 DEF Retarget, queries, TypeOK
  <2>2. IntentKept' BY <1>1 DEF Retarget, queries, IntentKept, Requested
  <2>3. SentInv' BY <1>1 DEF Retarget, queries, SentInv, First
  <2>4. ShownInv' /\ HeldInv' BY <1>1 DEF Retarget, queries, ShownInv, HeldInv, First
  <2> QED BY <2>1, <2>2, <2>3, <2>4
<1>2. ASSUME NEW c \in Calls, Get(c) PROVE IndInv'
  <2> DEFINE q == query[c]
  <2>1. q \in Queries /\ builder \in Providers /\ intent[q] \in Limits
    BY DEF TypeOK
  <2>2. Requested(q) = intent[q]
    BY <2>1 DEF IntentKept
  <2>3. /\ param' = [param EXCEPT ![q] = Resolve(builder, intent[q])]
        /\ remembered' = [remembered EXCEPT ![q] = intent[q]]
    BY <1>2, <2>2 DEF Get, PrepareQueryLimit
  <2>4. Resolve(builder, intent[q]) \in Numbers \cup {NoLimit}
        /\ (intent[q] = NoLimit <=> Resolve(builder, intent[q]) = NoLimit)
    BY <2>1, ResolvedInRange
  <2>5. IntentKept'
    <3> SUFFICES ASSUME NEW r \in Queries PROVE Requested(r)' = intent[r]
      BY <1>2 DEF Get, IntentKept
    <3>1. CASE r = q
      BY <2>1, <2>3, <2>4, <3>1 DEF TypeOK, Requested
    <3>2. CASE r # q
      <4>1. param'[r] = param[r] /\ remembered'[r] = remembered[r]
        BY <2>3, <3>2 DEF TypeOK
      <4> QED BY <4>1 DEF IntentKept, Requested
    <3> QED BY <3>1, <3>2
  <2>6. Requested(q)' = intent[q]
    BY <1>2, <2>1, <2>5 DEF Get, IntentKept
  <2>7. Visit(c, builder, intent[q]) /\ pc[c] = "idle"
        /\ UNCHANGED <<builder, intent, query, page>>
    BY <1>2, <2>6 DEF Get
  <2>8. First(c)
    BY <1>2 DEF Get, HeldInv
  <2>9. TypeOK'
    <3>1. param' \in [Queries -> Limits \cup Numbers] /\ remembered' \in [Queries -> Limits]
      BY <2>1, <2>3, <2>4 DEF TypeOK, Limits
    <3> QED BY <2>1, <2>7, <3>1, VisitTypes DEF TypeOK
  <2>10. SentInv'
    BY <2>1, <2>7, <2>8, VisitSends
  <2>11. ShownInv' /\ HeldInv'
    BY <2>7 DEF Visit, TypeOK, ShownInv, HeldInv, First
  <2> QED BY <2>5, <2>9, <2>10, <2>11
<1>3. ASSUME NEW c \in Calls, NEW p \in Providers, MoveOn(c, p) PROVE IndInv'
  <2> DEFINE limit == IF First(c) THEN intent[query[c]] ELSE page[c].link
  <2>1. query[c] \in Queries /\ limit \in Limits \cup Numbers
    BY DEF TypeOK, First
  <2>2. Requested(query[c]) = intent[query[c]]
    BY <2>1 DEF IntentKept
  <2>3. Visit(c, p, limit) /\ UNCHANGED <<builder, queries, query, page>>
    BY <1>3, <2>2 DEF MoveOn
  <2>4. TypeOK'
    <3> HIDE DEF limit
    <3> QED BY <2>1, <2>3, VisitTypes DEF TypeOK, queries
  <2>5. SentInv'
    BY <2>3, VisitSends DEF queries
  <2>6. IntentKept' /\ ShownInv'
    BY <2>3 DEF IntentKept, Requested, queries, ShownInv, First
  <2>7. HeldInv'
    BY <2>3 DEF Visit, TypeOK, HeldInv, First
  <2> QED BY <2>4, <2>5, <2>6, <2>7
<1>4. ASSUME NEW c \in Calls, Reject(c) PROVE IndInv'
  <2>1. TypeOK' BY <1>4 DEF Reject, queries, TypeOK
  <2>2. IntentKept' BY <1>4 DEF Reject, queries, IntentKept, Requested
  <2>3. SentInv' BY <1>4 DEF Reject, queries, SentInv, First, TypeOK
  <2>4. ShownInv' /\ HeldInv' BY <1>4 DEF Reject, queries, TypeOK, ShownInv, HeldInv, First
  <2> QED BY <2>1, <2>2, <2>3, <2>4
<1>5. ASSUME NEW c \in Calls, NextPage(c) PROVE IndInv'
  <2> DEFINE p == page[c].provider
  <2>1. ~First(c) /\ p \in Providers /\ page[c].link \in Limits \cup Numbers
    BY <1>5 DEF NextPage, TypeOK, First, HeldInv
  <2>2. Visit(c, p, page[c].link) /\ UNCHANGED <<builder, queries, query, page>>
    BY <1>5 DEF NextPage
  <2>3. TypeOK'
    BY <2>1, <2>2, VisitTypes DEF TypeOK, queries
  <2>4. SentInv'
    BY <2>1, <2>2, VisitSends DEF queries
  <2>5. IntentKept' /\ ShownInv'
    BY <2>2 DEF IntentKept, Requested, queries, ShownInv, First
  <2>6. HeldInv'
    BY <2>2 DEF Visit, TypeOK, HeldInv, First
  <2> QED BY <2>3, <2>4, <2>5, <2>6
<1>6. ASSUME NEW c \in Calls, Drop(c) PROVE IndInv'
  <2>1. TypeOK' BY <1>6 DEF Drop, queries, TypeOK
  <2>2. IntentKept' BY <1>6 DEF Drop, queries, IntentKept, Requested
  <2>3. SentInv' BY <1>6 DEF Drop, queries, SentInv, First, TypeOK
  <2>4. ShownInv' /\ HeldInv' BY <1>6 DEF Drop, queries, TypeOK, ShownInv, HeldInv, First
  <2> QED BY <2>1, <2>2, <2>3, <2>4
<1>7. ASSUME NEW c \in Calls, NEW link \in Limits \cup {sent[c]}, Serve(c, link)
      PROVE  IndInv'
  <2> DEFINE arrived == [kind |-> "page", provider |-> at[c], link |-> link,
                         shown |-> Resolve(at[c], link)]
  <2>1. link \in Limits \cup Numbers /\ at[c] \in Providers
    BY DEF TypeOK, Limits
  <2>2. Resolve(at[c], link) \in Numbers \cup {NoLimit}
    BY <2>1, ResolvedInRange
  <2>3. page' = [page EXCEPT ![c] = arrived]
    BY <1>7 DEF Serve, NextUrl
  <2>4. TypeOK'
    <3>1. arrived \in [kind : {"page"}, provider : Providers, link : Limits \cup Numbers,
                       shown : Numbers \cup {NoLimit}]
      BY <2>1, <2>2
    <3> HIDE DEF arrived
    <3>2. page' \in [Calls -> {NoPage} \cup
             [kind : {"page"}, provider : Providers, link : Limits \cup Numbers,
              shown : Numbers \cup {NoLimit}]]
      BY <2>3, <3>1 DEF TypeOK
    <3> QED BY <1>7, <3>2 DEF Serve, queries, TypeOK
  <2>5. ShownInv'
    <3> SUFFICES ASSUME NEW d \in Calls, page'[d] # NoPage
                 PROVE  page'[d].shown = Resolve(page'[d].provider, page'[d].link)
      BY DEF ShownInv, First
    <3>1. CASE d = c
      BY <2>3, <3>1 DEF TypeOK
    <3>2. CASE d # c
      BY <2>3, <3>2 DEF TypeOK, ShownInv, First
    <3> QED BY <3>1, <3>2
  <2>6. SentInv'
    <3> SUFFICES ASSUME NEW d \in Calls, pc'[d] = "sent"
                 PROVE  sent'[d] = Resolve(at'[d], IF First(d)' THEN intent'[query'[d]] ELSE page'[d].link)
      BY DEF SentInv
    <3>1. d # c /\ pc[d] = "sent"
      BY <1>7 DEF Serve, TypeOK
    <3>2. page'[d] = page[d] /\ sent'[d] = sent[d]
      BY <1>7, <2>3, <3>1 DEF Serve, TypeOK
    <3> QED BY <1>7, <3>1, <3>2 DEF Serve, queries, SentInv, First
  <2>7. IntentKept'
    BY <1>7 DEF Serve, queries, IntentKept, Requested
  <2>8. HeldInv'
    <3>1. arrived # NoPage
      BY DEF NoPage
    <3> HIDE DEF arrived
    <3> QED BY <1>7, <2>3, <3>1 DEF Serve, TypeOK, HeldInv, First
  <2> QED BY <2>4, <2>5, <2>6, <2>7, <2>8
<1>8. CASE UNCHANGED vars
  <2>1. TypeOK' BY <1>8 DEF vars, queries, TypeOK
  <2>2. IntentKept' /\ SentInv' /\ ShownInv' /\ HeldInv'
    BY <1>8 DEF vars, queries, IntentKept, Requested, SentInv, ShownInv, HeldInv, First
  <2> QED BY <2>1, <2>2
<1> QED BY <1>1, <1>2, <1>3, <1>4, <1>5, <1>6, <1>7, <1>8 DEF Next

LEMMA Inductive == Spec => []IndInv
<1>1. Init => IndInv
  BY InitIndInv
<1>2. IndInv /\ [Next]_vars => IndInv'
  BY StepPreserves
<1> QED BY <1>1, <1>2, PTL DEF Spec

(***************************************************************************)
(* The theorems.                                                           *)
(***************************************************************************)
\* Whatever the limits of the providers and the order of visits, the types hold
\* and no URL carries a limit outside the range of the provider it goes to.
THEOREM TypeCorrect == Spec => []TypeOK
<1>1. IndInv => TypeOK
  BY DEF IndInv
<1> QED BY <1>1, Inductive, PTL

\* A first page's limit is what the caller wrote, resolved for the provider that
\* is visited; the limit next() sends to the provider of its page is the one that
\* next.url() showed.
THEOREM LimitsFollow == Spec => []LimitsFollowTheProvider
<1>1. IndInv => LimitsFollowTheProvider
  BY DEF IndInv, SentInv, ShownInv, LimitsFollowTheProvider
<1> QED BY <1>1, Inductive, PTL
==============================================================================
