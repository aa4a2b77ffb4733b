-------------------------- MODULE CachedReads_proofs --------------------------
(***************************************************************************)
(* Proofs about CachedReads, for any number of calls, networks, providers, *)
(* limits and ttls.  The argument follows a record: it carries the network *)
(* and the limit of its key from the response that wrote it to the hit     *)
(* that returns it, nobody else owns the stored object, and a call knows   *)
(* from its start how old its answer may be.                               *)
(***************************************************************************)
EXTENDS CachedReads, TLAPS

\* A record that belongs under a key, and that no caller can reach.
Fits(record, k) ==
  /\ record.value.network = k[1] /\ record.value.limit = k[2]
  /\ record.value.intact /\ record.owners = {}

TargetKey(t) == Key(t.network, t.provider)

\* What a call knows where it is.
Asked(r) ==
  /\ req[r] # Nothing
  /\ began[r] <= version[req[r].target.network]

Looking(r) == pc[r] \in {"lookup", "found"} => req[r].useCache

Found(r) ==
  pc[r] = "found" =>
    held[r] = Nothing \/ (held[r] \in Records /\ Fits(held[r], TargetKey(req[r].target)))

Served(r) ==
  pc[r] = "served" =>
    /\ held[r] \in Values /\ held[r].intact
    /\ held[r].network = req[r].target.network /\ held[r].limit = Limit[held[r].provider]
    /\ held[r].version >= began[r]

Answered(r) ==
  /\ pc[r] # "done" => result[r] = Nothing
  /\ result[r].kind = "fresh" =>
       /\ result[r].value.network = req[r].target.network
       /\ result[r].value.version >= began[r]
  /\ result[r].kind = "hit" =>
       /\ result[r].value.network = req[r].target.network
       /\ result[r].value.limit = Limit[req[r].target.provider]
       /\ result[r].at < result[r].expiresAt /\ req[r].useCache

Consistent(r) ==
  (pc[r] # "idle" => Asked(r)) /\ Looking(r) /\ Found(r) /\ Served(r) /\ Answered(r)

Inv ==
  /\ TypeOK
  /\ \A k \in Keys : store[k] # Nothing => Fits(store[k], k)
  /\ \A r \in Reads : Consistent(r)

Requests == [useCache : BOOLEAN, target : Targets]
Results == {Nothing} \cup [kind : {"null", "error"}] \cup [kind : {"fresh"}, value : Values]
             \cup [kind : {"hit"}, value : Values, expiresAt : Nat, at : Nat]

LEMMA Kinds ==
  /\ Nothing.kind = "nothing"
  /\ \A x \in Records : x # Nothing
  /\ \A x \in Values : x # Nothing /\ x \notin Records
BY DEF Nothing, Records, Values

LEMMA TargetType ==
  ASSUME NEW t \in Targets
  PROVE  /\ t.network \in Networks /\ t.provider \in Providers
         /\ TargetKey(t) \in Keys
         /\ TargetKey(t)[1] = t.network /\ TargetKey(t)[2] = Limit[t.provider]
BY DEF Targets, TargetKey, Key, Keys

LEMMA InvInit == ASSUME Init PROVE Inv
<1>1. TypeOK
  BY CacheAssumption DEF Init, TypeOK
<1>2. \A r \in Reads : Consistent(r)
  BY DEF Init, Consistent, Looking, Found, Served, Answered, Nothing
<1> QED BY <1>1, <1>2 DEF Init, Inv

\* A call whose own state, request and start are left alone stays consistent while the
\* server's data only grow.
LEMMA Untouched ==
  ASSUME NEW r \in Reads, Consistent(r),
         pc'[r] = pc[r], held'[r] = held[r], result'[r] = result[r], req'[r] = req[r],
         began'[r] = began[r], TypeOK,
         \A n \in Networks : version'[n] \in Nat /\ version'[n] >= version[n]
  PROVE  Consistent(r)'
<1>1. /\ Looking(r)' /\ Found(r)' /\ Served(r)' /\ Answered(r)'
  BY DEF Consistent, Looking, Found, Served, Answered
<1>2. ASSUME pc[r] # "idle" PROVE Asked(r)'
  <2>1. req[r].target.network \in Networks /\ req[r] # Nothing
        /\ began[r] <= version[req[r].target.network]
    BY <1>2, TargetType DEF Consistent, Asked, TypeOK
  <2>2. began[r] \in Nat /\ version[req[r].target.network] \in Nat
    BY <2>1, CacheAssumption DEF TypeOK
  <2> QED BY <2>1, <2>2 DEF Asked
<1> QED BY <1>1, <1>2 DEF Consistent

LEMMA Numbers == ASSUME TypeOK PROVE policy.ttl \in Nat /\ now \in Nat
<1>1. policy \in [enabled : BOOLEAN, ttl : Ttls] /\ now \in 0 .. MaxTime
  BY DEF TypeOK
<1>2. Ttls \subseteq Nat /\ MaxTime \in Nat
  BY CacheAssumption
<1>3. policy.ttl \in Ttls
  BY <1>1
<1>4. policy.ttl \in Nat
  BY <1>2, <1>3
<1>5. now \in Nat
  BY <1>1, <1>2
<1> QED BY <1>4, <1>5

LEMMA VersionType == ASSUME TypeOK PROVE \A n \in Networks : version[n] \in Nat
BY CacheAssumption DEF TypeOK

LEMMA GetStep ==
  ASSUME Inv, NEW r \in Reads, NEW useCache \in BOOLEAN, Get(r, useCache)
  PROVE  Inv'
<1> DEFINE where == IF useCache /\ policy.enabled THEN "lookup" ELSE "fetch"
<1>1. /\ pc[r] = "idle" /\ pc' = [pc EXCEPT ![r] = where]
      /\ req' = [req EXCEPT ![r] = [useCache |-> useCache, target |-> builder]]
      /\ began' = [began EXCEPT ![r] = version[builder.network]]
      /\ UNCHANGED <<policy, builder, held, result, store, version, now>>
  BY DEF Get, world
<1>2. where \in {"lookup", "fetch"} /\ (where = "lookup" => useCache)
  OBVIOUS
<1> HIDE DEF where
<1>3. builder \in Targets /\ builder.network \in Networks
  BY TargetType DEF Inv, TypeOK
<1>4. TypeOK'
  BY <1>1, <1>2, <1>3 DEF Inv, TypeOK
<1>5. ASSUME NEW q \in Reads PROVE Consistent(q)'
  <2>1. CASE q = r
    <3>1. pc'[r] = where /\ result'[r] = Nothing /\ began'[r] = version[builder.network]
          /\ req'[r] = [useCache |-> useCache, target |-> builder]
      BY <1>1, CacheAssumption DEF Inv, TypeOK, Consistent, Answered
    <3>2. version[builder.network] \in Nat
      BY <1>3, VersionType DEF Inv
    <3> QED BY <1>1, <1>2, <2>1, <3>1, <3>2
            DEF Consistent, Asked, Looking, Found, Served, Answered, Nothing
  <2>2. CASE q # r
    BY <1>1, <2>2, Untouched, VersionType DEF Inv, TypeOK
  <2> QED BY <2>1, <2>2
<1> QED BY <1>1, <1>4, <1>5 DEF Inv

LEMMA LookupStep ==
  ASSUME Inv, NEW r \in Reads, Lookup(r)
  PROVE  Inv'
<1> DEFINE t == req[r].target
           key == TargetKey(t)
<1>1. pc[r] = "lookup" /\ req[r] # Nothing /\ req[r] \in Requests /\ req[r].useCache
  BY DEF Lookup, Inv, TypeOK, Consistent, Asked, Looking, Requests
<1>2. t \in Targets /\ key \in Keys
  BY <1>1, TargetType DEF Requests
<1>3. UNCHANGED <<policy, builder, req, began, result, store, version, now>>
  BY DEF Lookup, client, world
<1>4. \/ pc' = [pc EXCEPT ![r] = "found"] /\ held' = [held EXCEPT ![r] = store[key]]
      \/ pc' = [pc EXCEPT ![r] = "fetch"] /\ held' = held
  BY DEF Lookup, TargetKey
<1> HIDE DEF key
<1>5. store[key] = Nothing \/ (store[key] \in Records /\ Fits(store[key], key))
  BY <1>2 DEF Inv, TypeOK
<1>6. TypeOK'
  BY <1>3, <1>4, <1>5 DEF Inv, TypeOK
<1>7. ASSUME NEW q \in Reads PROVE Consistent(q)'
  <2>1. CASE q = r
    <3>1. pc'[r] \in {"found", "fetch"} /\ (pc'[r] = "found" => held'[r] = store[key])
      BY <1>4 DEF Inv, TypeOK
    <3>2. Found(r)'
      BY <1>3, <1>5, <3>1 DEF Found, key
    <3>3. Asked(r)' /\ Looking(r)' /\ Served(r)' /\ Answered(r)'
      BY <1>1, <1>3, <3>1 DEF Inv, Consistent, Asked, Looking, Served, Answered
    <3> QED BY <2>1, <3>2, <3>3 DEF Consistent
  <2>2. CASE q # r
    BY <1>3, <1>4, <2>2, Untouched, VersionType DEF Inv, TypeOK
  <2> QED BY <2>1, <2>2
<1> QED BY <1>3, <1>6, <1>7 DEF Inv

LEMMA HitOrMissStep ==
  ASSUME Inv, NEW r \in Reads, HitOrMiss(r)
  PROVE  Inv'
<1> DEFINE t == req[r].target
           key == TargetKey(t)
           hit == [kind |-> "hit", value |-> held[r].value, expiresAt |-> held[r].expiresAt, at |-> now]
<1>1. pc[r] = "found" /\ req[r] # Nothing /\ req[r] \in Requests /\ req[r].useCache
  BY DEF HitOrMiss, Inv, TypeOK, Consistent, Asked, Looking, Requests
<1>2. t \in Targets /\ key \in Keys /\ key[1] = t.network /\ key[2] = Limit[t.provider]
  BY <1>1, TargetType DEF Requests
<1>3. UNCHANGED <<policy, builder, req, began, version, now>> /\ held' = [held EXCEPT ![r] = Nothing]
  BY DEF HitOrMiss, client, world
<1>4. CASE Valid(held[r])
  <2>1. /\ pc' = [pc EXCEPT ![r] = "done"] /\ result' = [result EXCEPT ![r] = hit]
        /\ store' = IF store[key] = held[r]
                    THEN [store EXCEPT ![key].owners = @ \cup Clone({r})] ELSE store
    BY <1>4 DEF HitOrMiss, TargetKey
  <2>2. held[r] \in Records /\ Fits(held[r], key) /\ held[r] # Nothing /\ now < held[r].expiresAt
    BY <1>1, <1>4 DEF Inv, Consistent, Found, Valid
  <2>3. hit \in [kind : {"hit"}, value : Values, expiresAt : Nat, at : Nat]
    BY <2>2, CacheAssumption DEF Records, Inv, TypeOK
  <2> HIDE DEF key
  <2>4. store' = store
    <3>1. CASE store[key] = held[r]
      <4>1. store' = [store EXCEPT ![key] = [held[r] EXCEPT !.owners = @ \cup Clone({r})]]
        BY <2>1, <3>1
      <4>2. [held[r] EXCEPT !.owners = @ \cup Clone({r})] = held[r]
        BY <2>2 DEF Fits, Records, Clone
      <4> QED BY <1>2, <3>1, <4>1, <4>2 DEF Inv, TypeOK
    <3>2. CASE store[key] # held[r]
      BY <2>1, <3>2
    <3> QED BY <3>1, <3>2
  <2>5. hit.kind = "hit" /\ hit.value = held[r].value /\ hit.expiresAt = held[r].expiresAt /\ hit.at = now
    OBVIOUS
  <2> HIDE DEF hit
  <2>6. TypeOK'
    BY <1>3, <2>1, <2>3, <2>4 DEF Inv, TypeOK
  <2>7. ASSUME NEW q \in Reads PROVE Consistent(q)'
    <3>1. CASE q = r
      <4>1. pc'[r] = "done" /\ result'[r] = hit
        BY <2>1 DEF Inv, TypeOK
      <4>2. Answered(r)'
        BY <1>1, <1>2, <1>3, <2>2, <2>5, <4>1 DEF Answered, Fits
      <4>3. Asked(r)' /\ Looking(r)' /\ Found(r)' /\ Served(r)'
        BY <1>1, <1>3, <4>1 DEF Inv, Consistent, Asked, Looking, Found, Served
      <4> QED BY <3>1, <4>2, <4>3 DEF Consistent
    <3>2. CASE q # r
      BY <1>3, <2>1, <3>2, Untouched, VersionType DEF Inv, TypeOK
    <3> QED BY <3>1, <3>2
  <2> QED BY <2>4, <2>6, <2>7 DEF Inv
<1>5. CASE ~Valid(held[r])
  <2>1. pc' = [pc EXCEPT ![r] = "fetch"] /\ UNCHANGED <<result, store>>
    BY <1>5 DEF HitOrMiss
  <2>2. TypeOK'
    BY <1>3, <2>1 DEF Inv, TypeOK
  <2>3. ASSUME NEW q \in Reads PROVE Consistent(q)'
    <3>1. CASE q = r
      <4>1. pc'[r] = "fetch"
        BY <2>1 DEF Inv, TypeOK
      <4> QED BY <1>1, <1>3, <2>1, <3>1, <4>1
              DEF Inv, Consistent, Asked, Looking, Found, Served, Answered
    <3>2. CASE q # r
      BY <1>3, <2>1, <3>2, Untouched, VersionType DEF Inv, TypeOK
    <3> QED BY <3>1, <3>2
  <2> QED BY <2>1, <2>2, <2>3 DEF Inv
<1> QED BY <1>4, <1>5

LEMMA ServeStep ==
  ASSUME Inv, NEW r \in Reads, NEW p \in Providers, Serve(r, p)
  PROVE  Inv'
<1> DEFINE n == req[r].target.network
           value == [kind |-> "value", network |-> n, provider |-> p, limit |-> Limit[p],
                     version |-> version[n], intact |-> TRUE]
<1>1. pc[r] = "fetch" /\ req[r] \in Requests /\ req[r] # Nothing /\ began[r] <= version[n]
  BY DEF Serve, Inv, TypeOK, Consistent, Asked, Requests
<1>2. /\ pc' = [pc EXCEPT ![r] = "served"] /\ held' = [held EXCEPT ![r] = value]
      /\ UNCHANGED <<policy, builder, req, began, result, store, version, now>>
  BY DEF Serve, client, world
<1>3. n \in Networks /\ version[n] \in 0 .. MaxVersion /\ Limit[p] \in Nat
  BY <1>1, TargetType, CacheAssumption DEF Requests, Inv, TypeOK
<1>4. value \in Values
  BY <1>3 DEF Values
<1>5. value.intact /\ value.network = n /\ value.limit = Limit[value.provider] /\ value.version = version[n]
  OBVIOUS
<1> HIDE DEF value
<1>6. TypeOK'
  BY <1>2, <1>4 DEF Inv, TypeOK
<1>7. ASSUME NEW q \in Reads PROVE Consistent(q)'
  <2>1. CASE q = r
    <3>1. pc'[r] = "served" /\ held'[r] = value
      BY <1>2 DEF Inv, TypeOK
    <3>2. version[n] >= began[r]
      BY <1>1, <1>3, CacheAssumption DEF Inv, TypeOK
    <3>3. Served(r)'
      BY <1>2, <1>4, <1>5, <3>1, <3>2 DEF Served
    <3> QED BY <1>1, <1>2, <2>1, <3>1, <3>3
            DEF Inv, Consistent, Asked, Looking, Found, Answered
  <2>2. CASE q # r
    BY <1>2, <2>2, Untouched, VersionType DEF Inv, TypeOK
  <2> QED BY <2>1, <2>2
<1> QED BY <1>2, <1>6, <1>7 DEF Inv

LEMMA RefuseStep ==
  ASSUME Inv, NEW r \in Reads, Refuse(r)
  PROVE  Inv'
<1>1. pc[r] = "fetch" /\ req[r] # Nothing /\ began[r] <= version[req[r].target.network]
  BY DEF Refuse, Inv, TypeOK, Consistent, Asked
<1>2. PICK kind \in {"null", "error"} : result' = [result EXCEPT ![r] = [kind |-> kind]]
  BY DEF Refuse
<1>3. /\ pc' = [pc EXCEPT ![r] = "done"]
      /\ UNCHANGED <<policy, builder, req, began, held, store, version, now>>
  BY DEF Refuse, client, world
<1>4. TypeOK'
  BY <1>2, <1>3 DEF Inv, TypeOK
<1>5. ASSUME NEW q \in Reads PROVE Consistent(q)'
  <2>1. CASE q = r
    <3>1. pc'[r] = "done" /\ result'[r].kind \notin {"hit", "fresh"}
      BY <1>2, <1>3 DEF Inv, TypeOK
    <3> QED BY <1>1, <1>3, <2>1, <3>1
            DEF Inv, Consistent, Asked, Looking, Found, Served, Answered
  <2>2. CASE q # r
    BY <1>2, <1>3, <2>2, Untouched, VersionType DEF Inv, TypeOK
  <2> QED BY <2>1, <2>2
<1> QED BY <1>3, <1>4, <1>5 DEF Inv

LEMMA WriteThroughStep ==
  ASSUME Inv, NEW r \in Reads, WriteThrough(r)
  PROVE  Inv'
<1> DEFINE v == held[r]
           key == Key(v.network, v.provider)
           fresh == [kind |-> "fresh", value |-> v]
<1>1. /\ pc[r] = "served" /\ v \in Values /\ v.intact /\ req[r] # Nothing
      /\ v.network = req[r].target.network /\ v.limit = Limit[v.provider] /\ v.version >= began[r]
      /\ began[r] <= version[req[r].target.network]
  BY DEF WriteThrough, Inv, TypeOK, Consistent, Asked, Served
<1>2. /\ pc' = [pc EXCEPT ![r] = "done"] /\ result' = [result EXCEPT ![r] = fresh]
      /\ held' = [held EXCEPT ![r] = Nothing]
      /\ UNCHANGED <<policy, builder, req, began, version, now>>
  BY DEF WriteThrough, Return, client, world
<1>3. store' = store \/ (policy.enabled /\ store' = [store EXCEPT ![key] = Record(r)])
  BY DEF WriteThrough
<1>4. key \in Keys /\ key[1] = v.network /\ key[2] = v.limit
  BY <1>1 DEF Values, Key, Keys
<1>5. policy.ttl \in Nat /\ now \in Nat
  BY Numbers DEF Inv
<1>6. \/ Record(r) = Nothing
      \/ /\ Record(r) \in Records /\ Fits(Record(r), key)
         /\ Record(r).expiresAt = now + policy.ttl
  BY <1>1, <1>4, <1>5 DEF Record, Records, Fits, Clone
<1>7. fresh \in [kind : {"fresh"}, value : Values] /\ fresh.kind = "fresh" /\ fresh.value = v
  BY <1>1
<1> HIDE DEF key, fresh
<1>8. \A k \in Keys : store'[k] = store[k] \/ (k = key /\ store'[k] = Record(r) /\ policy.enabled)
  BY <1>3, <1>4 DEF Inv, TypeOK
<1>9. \A k \in Keys : store'[k] # Nothing => Fits(store'[k], k)
  BY <1>6, <1>8 DEF Inv
<1> HIDE DEF v
<1>10. TypeOK'
  <2>1. store' \in [Keys -> {Nothing} \cup Records]
    BY <1>3, <1>6 DEF Inv, TypeOK
  <2>2. \A k \in Keys : store'[k] # Nothing => policy.enabled /\ store'[k].expiresAt <= now + policy.ttl
    BY <1>5, <1>6, <1>8 DEF Inv, TypeOK
  <2>3. result' \in [Reads -> Results]
    BY <1>2, <1>7 DEF Inv, TypeOK, Results
  <2>4. pc' \in [Reads -> {"idle", "lookup", "found", "fetch", "served", "done"}]
        /\ held' \in [Reads -> {Nothing} \cup Values \cup Records]
    BY <1>2 DEF Inv, TypeOK
  <2> QED BY <1>2, <2>1, <2>2, <2>3, <2>4 DEF Inv, TypeOK, Results
<1>11. ASSUME NEW q \in Reads PROVE Consistent(q)'
  <2>1. CASE q = r
    <3>1. pc'[r] = "done" /\ result'[r] = fresh
      BY <1>2 DEF Inv, TypeOK
    <3>2. Answered(r)'
      BY <1>1, <1>2, <1>7, <3>1 DEF Answered
    <3> QED BY <1>1, <1>2, <2>1, <3>1, <3>2 DEF Consistent, Asked, Looking, Found, Served
  <2>2. CASE q # r
    BY <1>2, <2>2, Untouched, VersionType DEF Inv, TypeOK
  <2> QED BY <2>1, <2>2
<1> QED BY <1>9, <1>10, <1>11 DEF Inv

LEMMA TamperStep ==
  ASSUME Inv, NEW r \in Reads, Tamper(r)
  PROVE  Inv'
<1>1. /\ result' = [result EXCEPT ![r].value.intact = FALSE]
      /\ result[r].kind \in {"hit", "fresh"}
      /\ UNCHANGED <<policy, builder, req, began, pc, held, version, now>>
  BY DEF Tamper, client, world
<1>2. store' = store
  <2>1. \A k \in Keys : store[k] # Nothing => r \notin store[k].owners
    BY DEF Inv, Fits
  <2>2. store' = [k \in Keys |-> store[k]]
    BY <2>1 DEF Tamper
  <2> QED BY <2>2 DEF Inv, TypeOK
<1>3. /\ result[r] \in [kind : {"fresh"}, value : Values]
                         \cup [kind : {"hit"}, value : Values, expiresAt : Nat, at : Nat]
      /\ result[r].value \in Values
  BY <1>1 DEF Inv, TypeOK, Nothing
<1> DEFINE v == [result[r].value EXCEPT !.intact = FALSE]
           changed == [result[r] EXCEPT !.value = v]
<1>4. result' = [result EXCEPT ![r] = changed]
  BY <1>1
<1>5. v \in Values /\ v.network = result[r].value.network /\ v.limit = result[r].value.limit
      /\ v.version = result[r].value.version
  BY <1>3 DEF Values
<1> HIDE DEF v
<1>6. /\ changed \in [kind : {"fresh"}, value : Values]
                       \cup [kind : {"hit"}, value : Values, expiresAt : Nat, at : Nat]
      /\ changed.kind = result[r].kind /\ changed.value = v
      /\ changed.kind = "hit" => changed.at = result[r].at /\ changed.expiresAt = result[r].expiresAt
  BY <1>3, <1>5
<1> HIDE DEF changed
<1>7. TypeOK'
  <2>1. result \in [Reads -> Results] /\ changed \in Results
    BY <1>6 DEF Inv, TypeOK, Results
  <2>2. result' \in [Reads -> Results]
    BY <1>4, <2>1
  <2> QED BY <1>1, <1>2, <2>2 DEF Inv, TypeOK, Results
<1>8. ASSUME NEW q \in Reads PROVE Consistent(q)'
  <2>1. CASE q = r
    <3>1. result'[r] = changed /\ pc[r] = "done"
      BY <1>1, <1>4 DEF Inv, TypeOK, Consistent, Answered, Nothing
    <3>2. Answered(r)'
      BY <1>1, <1>5, <1>6, <3>1 DEF Inv, Consistent, Answered
    <3> QED BY <1>1, <2>1, <3>1, <3>2 DEF Inv, Consistent, Asked, Looking, Found, Served
  <2>2. CASE q # r
    BY <1>1, <1>4, <2>2, Untouched, VersionType DEF Inv, TypeOK
  <2> QED BY <2>1, <2>2
<1> QED BY <1>2, <1>7, <1>8 DEF Inv

\* The steps that belong to no call.
LEMMA OtherStep ==
  ASSUME Inv, \/ Retarget \/ Tick \/ (\E k \in Keys : Forget(k)) \/ (\E n \in Networks : ServerChanges(n))
              \/ UNCHANGED vars
  PROVE  Inv'
<1>1. /\ UNCHANGED <<policy, pc, req, began, held, result>> /\ builder' \in Targets
      /\ now' \in 0 .. MaxTime /\ now' >= now
  BY CacheAssumption DEF Inv, TypeOK, Retarget, Tick, Forget, ServerChanges, client, world, vars
<1>2. /\ version' \in [Networks -> 0 .. MaxVersion]
      /\ \A n \in Networks : version'[n] \in Nat /\ version'[n] >= version[n]
  <2>1. CASE \E n \in Networks : ServerChanges(n)
    BY <2>1, CacheAssumption DEF Inv, TypeOK, ServerChanges
  <2>2. CASE UNCHANGED version
    BY <2>2, CacheAssumption DEF Inv, TypeOK
  <2> QED BY <2>1, <2>2 DEF Retarget, Tick, Forget, world, vars
<1>3. /\ store' \in [Keys -> {Nothing} \cup Records]
      /\ \A k \in Keys : store'[k] = store[k] \/ store'[k] = Nothing
  BY DEF Inv, TypeOK, Retarget, Tick, Forget, ServerChanges, world, vars
<1>4. TypeOK'
  <2>1. \A k \in Keys : store'[k] # Nothing => policy'.enabled /\ store'[k].expiresAt <= now' + policy'.ttl
    <3>1. policy.ttl \in Nat /\ now \in Nat /\ now' \in Nat
      BY <1>1, Numbers DEF Inv
    <3>2. \A k \in Keys : store[k] # Nothing => store[k].expiresAt \in Nat
      BY DEF Inv, TypeOK, Records
    <3> QED BY <1>1, <1>3, <3>1, <3>2 DEF Inv, TypeOK
  <2> QED BY <1>1, <1>2, <1>3, <2>1 DEF Inv, TypeOK
<1>5. \A k \in Keys : store'[k] # Nothing => Fits(store'[k], k)
  BY <1>3 DEF Inv
<1>6. ASSUME NEW q \in Reads PROVE Consistent(q)'
  BY <1>1, <1>2, Untouched DEF Inv
<1> QED BY <1>4, <1>5, <1>6 DEF Inv

LEMMA InvStep == ASSUME Inv, [Next]_vars PROVE Inv'
BY GetStep, LookupStep, HitOrMissStep, ServeStep, RefuseStep, WriteThroughStep, TamperStep,
   OtherStep DEF Next

LEMMA InvAlways == Spec => []Inv
BY InvInit, InvStep, PTL DEF Spec

(***************************************************************************)
(* Theorems.                                                               *)
(***************************************************************************)
\* Types hold, a disabled cache stays empty, and no record outlives the ttl (cache.ts,
\* NetworkScopedCache.set).
THEOREM TypeCorrect == Spec => []TypeOK
<1>1. Inv => TypeOK
  BY DEF Inv
<1> QED BY <1>1, InvAlways, PTL

\* Whatever the builder is pointed at meanwhile, and whichever provider serves, a record lies
\* under the network and the limit of the request it answers (resources' get(), the
\* write-through under the serving provider's key).
THEOREM KeysDescribe == Spec => []KeysDescribeTheirRecords
<1>1. Inv => KeysDescribeTheirRecords
  BY DEF Inv, Fits, KeysDescribeTheirRecords
<1> QED BY <1>1, InvAlways, PTL

\* Every answer is for the network the call resolved, and a hit for its limit too (resources'
\* get(), the target resolved once per call).
THEOREM AnswersFit == Spec => []AnswersFitTheCall
<1>1. Inv => AnswersFitTheCall
  BY DEF Inv, Consistent, Answered, AnswersFitTheCall
<1> QED BY <1>1, InvAlways, PTL

\* No caller can change what the cache holds (cache.ts, the clones of get and set).
THEOREM Isolated == Spec => []SnapshotsAreIsolated
<1>1. Inv => SnapshotsAreIsolated
  BY DEF Inv, Fits, SnapshotsAreIsolated
<1> QED BY <1>1, InvAlways, PTL

\* A call without useCache never answers with data older than its start, and no hit is
\* expired when it is returned (resources' get(); cache.ts, NetworkScopedCache.get).
THEOREM Fresh == Spec => []ReadsAreFresh
<1>1. Inv => ReadsAreFresh
  BY DEF Inv, Consistent, Answered, ReadsAreFresh
<1> QED BY <1>1, InvAlways, PTL

===============================================================================
