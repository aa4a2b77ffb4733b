----------------------------- MODULE CachedReads -----------------------------
(***************************************************************************)
(* Concurrent one(...).get() calls of one resource builder, over the       *)
(* NetworkScopedCache and the adapter behind it: the cached read, the      *)
(* routed request, the write-through under the key of what was served, and *)
(* what callers do to the objects they were given.                         *)
(*                                                                         *)
(* Routing is module Routing: here any provider of the network may serve.  *)
(* The adapter may be any CacheAdapter: it may fail, forget, keep expired  *)
(* records, and answer late.                                               *)
(***************************************************************************)
EXTENDS Naturals

CONSTANTS
  Reads,      \* the calls of get()
  Networks,
  Providers,  \* each of them defines every network
  Limit,      \* Limit[p]: the page limit a request has once p has clamped it
  Ttls,       \* the cache durations to start from, in ticks
  MaxVersion, MaxTime   \* bounds of the server's versions and of the clock

ASSUME CacheAssumption ==
  /\ Limit \in [Providers -> Nat]
  /\ Ttls \subseteq Nat /\ MaxVersion \in Nat /\ MaxTime \in Nat

VARIABLES
  policy,   \* the resource's cache policy: enabled, ttl
  builder,  \* currentProvider and currentNetwork
  pc,       \* pc[r]: where the call is
  req,      \* req[r]: its useCache and resolved target
  began,    \* began[r]: the server's version when it was called
  held,     \* held[r]: the record, or the value, the call has in hand
  result,   \* result[r]: what the caller got
  store,    \* the adapter's records
  version,  \* the server's current data, per network
  now

vars == <<policy, builder, pc, req, began, held, result, store, version, now>>
client == <<policy, builder, req, began>>
world == <<version, now>>

Targets == [provider : Providers, network : Networks]
Keys    == Networks \X {Limit[p] : p \in Providers}
Nothing == [kind |-> "nothing"]

\* physicalKey of the cache key the builder computes for a provider's limit.
Key(n, p) == <<n, Limit[p]>>

\* The stored object is not handed out, nor is the caller's object stored.
\* Mutant: it is, so its owners can change it.
Clone_Shares(owners) == owners

Clone(owners) == {}

------------------------------------------------------------------------------
Init ==
  /\ policy \in [enabled : BOOLEAN, ttl : Ttls]
  /\ builder \in Targets
  /\ pc = [r \in Reads |-> "idle"] /\ req = [r \in Reads |-> Nothing]
  /\ began = [r \in Reads |-> 0] /\ held = [r \in Reads |-> Nothing]
  /\ result = [r \in Reads |-> Nothing]
  /\ store = [k \in Keys |-> Nothing]
  /\ version = [n \in Networks |-> 0] /\ now = 0

\* provider(...) and network(...) change the builder while calls are under way.
Retarget ==
  /\ builder' \in Targets \ {builder}
  /\ UNCHANGED <<policy, pc, req, began, held, result, store, world>>

\* Mutant: a cached entry is used whether or not the call asked for it.
Get_IgnoresUseCache(r, useCache) ==
  /\ pc[r] = "idle"
  /\ pc' = [pc EXCEPT ![r] = IF policy.enabled THEN "lookup" ELSE "fetch"]
  /\ req' = [req EXCEPT ![r] = [useCache |-> useCache, target |-> builder]]
  /\ began' = [began EXCEPT ![r] = version[builder.network]]
  /\ UNCHANGED <<policy, builder, held, result, store, world>>

\* get(): resolve the target, then the cache or the network.
Get(r, useCache) ==
  /\ pc[r] = "idle"
  /\ pc' = [pc EXCEPT ![r] = IF useCache /\ policy.enabled THEN "lookup" ELSE "fetch"]
  /\ req' = [req EXCEPT ![r] = [useCache |-> useCache, target |-> builder]]
  /\ began' = [began EXCEPT ![r] = version[builder.network]]
  /\ UNCHANGED <<policy, builder, held, result, store, world>>

\* Mutant: the builder's target is resolved again for the lookup.
Lookup_BuilderNow(r) ==
  /\ pc[r] = "lookup"
  /\ \/ /\ pc' = [pc EXCEPT ![r] = "found"]
        /\ held' = [held EXCEPT ![r] = store[Key(builder.network, builder.provider)]]
     \/ /\ pc' = [pc EXCEPT ![r] = "fetch"]
        /\ UNCHANGED held
  /\ UNCHANGED <<client, result, store, world>>

\* adapter.get looks its record up; or it fails, and the read goes on without it.
Lookup(r) ==
  LET t == req[r].target IN
  /\ pc[r] = "lookup"
  /\ \/ /\ pc' = [pc EXCEPT ![r] = "found"]
        /\ held' = [held EXCEPT ![r] = store[Key(t.network, t.provider)]]
     \/ /\ pc' = [pc EXCEPT ![r] = "fetch"]
        /\ UNCHANGED held
  /\ UNCHANGED <<client, result, store, world>>

Valid(record) == record # Nothing /\ now < record.expiresAt

\* The adapter has answered: the deadline is checked now, a hit is cloned.
HitOrMiss(r) ==
  LET t == req[r].target  key == Key(t.network, t.provider) IN
  /\ pc[r] = "found"
  /\ IF Valid(held[r])
     THEN /\ pc' = [pc EXCEPT ![r] = "done"]
          /\ result' = [result EXCEPT ![r] =
                         [kind |-> "hit", value |-> held[r].value,
                          expiresAt |-> held[r].expiresAt, at |-> now]]
          /\ store' = (IF store[key] = held[r]
                       THEN [store EXCEPT ![key].owners = @ \cup Clone({r})]
                       ELSE store)
     ELSE /\ pc' = [pc EXCEPT ![r] = "fetch"]
          /\ UNCHANGED <<result, store>>
  /\ held' = [held EXCEPT ![r] = Nothing]
  /\ UNCHANGED <<client, world>>

\* Some provider of the target's network answers the routed request.
Serve(r, p) ==
  LET n == req[r].target.network IN
  /\ pc[r] = "fetch"
  /\ pc' = [pc EXCEPT ![r] = "served"]
  /\ held' = [held EXCEPT ![r] =
               [kind |-> "value", network |-> n, provider |-> p, limit |-> Limit[p],
                version |-> version[n], intact |-> TRUE]]
  /\ UNCHANGED <<client, result, store, world>>

\* A 404 becomes null, any other failure is thrown; neither touches the cache.
Refuse(r) ==
  /\ pc[r] = "fetch"
  /\ pc' = [pc EXCEPT ![r] = "done"]
  /\ \E kind \in {"null", "error"} : result' = [result EXCEPT ![r] = [kind |-> kind]]
  /\ UNCHANGED <<client, held, store, world>>

Return(r) ==
  /\ pc' = [pc EXCEPT ![r] = "done"]
  /\ result' = [result EXCEPT ![r] = [kind |-> "fresh", value |-> held[r]]]
  /\ held' = [held EXCEPT ![r] = Nothing]

\* Mutant: seconds are converted twice.
Record_ConvertedTwice(r) ==
  IF policy.ttl = 0 THEN Nothing
  ELSE [kind |-> "record", value |-> held[r], expiresAt |-> now + policy.ttl * 1000,
        owners |-> Clone({r})]

\* What adapter.set leaves under the key: a ttl of zero stores nothing.
Record(r) ==
  IF policy.ttl = 0 THEN Nothing
  ELSE [kind |-> "record", value |-> held[r], expiresAt |-> now + policy.ttl,
        owners |-> Clone({r})]

\* Mutant: written under the key that was looked up.
WriteThrough_LookupKey(r) ==
  LET t == req[r].target IN
  /\ pc[r] = "served"
  /\ Return(r)
  /\ \/ /\ policy.enabled
        /\ store' = [store EXCEPT ![Key(t.network, t.provider)] = Record(r)]
     \/ UNCHANGED store
  /\ UNCHANGED <<client, world>>

\* Write-through under the key of the target that served; the adapter may fail,
\* which the caller does not see.
WriteThrough(r) ==
  /\ pc[r] = "served"
  /\ Return(r)
  /\ \/ /\ policy.enabled
        /\ store' = [store EXCEPT ![Key(held[r].network, held[r].provider)] = Record(r)]
     \/ UNCHANGED store
  /\ UNCHANGED <<client, world>>

------------------------------------------------------------------------------
\* The caller changes the object it was given, and so every record that is the
\* same object.
Tamper(r) ==
  /\ result[r].kind \in {"hit", "fresh"} /\ result[r].value.intact
  /\ result' = [result EXCEPT ![r].value.intact = FALSE]
  /\ store' = [k \in Keys |->
                IF store[k] # Nothing /\ r \in store[k].owners
                THEN [store[k] EXCEPT !.value.intact = FALSE] ELSE store[k]]
  /\ UNCHANGED <<client, pc, held, world>>

\* The adapter sweeps, evicts, deletes or is cleared.
Forget(k) ==
  /\ store[k] # Nothing
  /\ store' = [store EXCEPT ![k] = Nothing]
  /\ UNCHANGED <<client, pc, held, result, world>>

ServerChanges(n) ==
  /\ version[n] < MaxVersion
  /\ version' = [version EXCEPT ![n] = @ + 1]
  /\ UNCHANGED <<client, pc, held, result, store, now>>

Tick ==
  /\ now < MaxTime
  /\ now' = now + 1
  /\ UNCHANGED <<client, pc, held, result, store, version>>

Next ==
  \/ \E r \in Reads :
       \/ \E useCache \in BOOLEAN : Get(r, useCache)
       \/ \E p \in Providers : Serve(r, p)
       \/ Lookup(r) \/ HitOrMiss(r) \/ Refuse(r) \/ WriteThrough(r) \/ Tamper(r)
  \/ \E k \in Keys : Forget(k)
  \/ \E n \in Networks : ServerChanges(n)
  \/ Retarget \/ Tick

Spec == Init /\ [][Next]_vars

------------------------------------------------------------------------------
(***************************************************************************)
(* Properties.                                                             *)
(***************************************************************************)
Values ==
  [kind : {"value"}, network : Networks, provider : Providers, limit : Nat,
   version : 0 .. MaxVersion, intact : BOOLEAN]

Records ==
  [kind : {"record"}, value : Values, expiresAt : Nat, owners : SUBSET Reads]

\* Every variable keeps its type, and nothing is stored where the cache is
\* switched off, or for longer than the ttl.
TypeOK ==
  /\ policy \in [enabled : BOOLEAN, ttl : Ttls] /\ builder \in Targets
  /\ pc \in [Reads -> {"idle", "lookup", "found", "fetch", "served", "done"}]
  /\ req \in [Reads -> {Nothing} \cup [useCache : BOOLEAN, target : Targets]]
  /\ began \in [Reads -> 0 .. MaxVersion]
  /\ held \in [Reads -> {Nothing} \cup Values \cup Records]
  /\ result \in [Reads -> {Nothing} \cup [kind : {"null", "error"}]
                          \cup [kind : {"fresh"}, value : Values]
                          \cup [kind : {"hit"}, value : Values, expiresAt : Nat, at : Nat]]
  /\ store \in [Keys -> {Nothing} \cup Records]
  /\ version \in [Networks -> 0 .. MaxVersion] /\ now \in 0 .. MaxTime
  /\ \A k \in Keys : store[k] # Nothing =>
       policy.enabled /\ store[k].expiresAt <= now + policy.ttl

\* "The cache identity must describe the actual HTTP request", and "responses
\* from different networks must never share a key": what is stored under a key
\* was served by that network with that limit, although the serving provider and
\* the builder's target may have changed since the key was first computed.
KeysDescribeTheirRecords ==
  \A k \in Keys : store[k] # Nothing =>
    store[k].value.network = k[1] /\ store[k].value.limit = k[2]

\* A call answers for the target it resolved when it was called: for its network,
\* and a hit for the limit of its provider.
AnswersFitTheCall ==
  \A r \in Reads :
    /\ result[r].kind \in {"hit", "fresh"} =>
         result[r].value.network = req[r].target.network
    /\ result[r].kind = "hit" => result[r].value.limit = Limit[req[r].target.provider]

\* README "mutating a fresh response or cache hit cannot corrupt later cached
\* responses".
SnapshotsAreIsolated == \A k \in Keys : store[k] # Nothing => store[k].value.intact

\* README "Omitting useCache forces a fresh request": such a call never returns
\* data older than the server's when it was called, whatever other calls store
\* meanwhile; and "expired adapter records are never served", also by an adapter
\* that keeps them or answers late.
ReadsAreFresh ==
  \A r \in Reads :
    /\ result[r].kind = "fresh" \/ (result[r].kind = "hit" /\ ~req[r].useCache) =>
         result[r].value.version >= began[r]
    /\ result[r].kind = "hit" => result[r].at < result[r].expiresAt
==============================================================================
