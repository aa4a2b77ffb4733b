--------------------------- MODULE RedisCache_proofs ---------------------------
(***************************************************************************)
(* Proofs about RedisCache, for any keys, ttls and number of mutations:    *)
(* that the friendly mutations of a key run one at a time and in order,    *)
(* that no lease ends before its record does, and that clear() is thorough.*)
(***************************************************************************)
EXTENDS RedisCache, SequenceTheorems, TLAPS

Active == {"send", "resend", "expire"}

(***************************************************************************)
(* Leases.                                                                 *)
(***************************************************************************)
LEMMA RoundedUp ==
  ASSUME NEW ttl \in Nat \ {0}, NEW s \in Nat \ {0}
  PROVE  LET q == (ttl + s - 1) \div s
         IN  q \in Nat /\ q * s >= ttl /\ q * s <= ttl + s - 1
<1> DEFINE a == ttl + s - 1
           q == a \div s
           r == a % s
<1>1. a \in Nat
  OBVIOUS
<1> HIDE DEF a
<1>2. q \in Nat /\ r \in 0 .. s - 1 /\ a = s * q + r
  BY <1>1
<1>3. s * q = q * s /\ q * s \in Nat
  BY <1>2
<1> HIDE DEF q, r
<1>4. a = q * s + r
  BY <1>2, <1>3
<1> QED BY <1>2, <1>3, <1>4 DEF a, q

LEMMA LeaseFits ==
  ASSUME NEW ttl \in Ttls
  PROVE  /\ ttl \in Nat \ {0} /\ LeaseFor(ttl) \in Nat
         /\ LeaseFor(ttl) >= ttl /\ LeaseFor(ttl) <= ttl + Second - 1
<1>1. ttl \in Nat \ {0} /\ Second \in Nat \ {0}
  BY RedisAssumption
<1> DEFINE q == (ttl + Second - 1) \div Second
<1>2. q \in Nat /\ q * Second \in Int /\ q * Second >= ttl /\ q * Second <= ttl + Second - 1
  <2>1. q \in Nat /\ q * Second >= ttl /\ q * Second <= ttl + Second - 1
    BY <1>1, RoundedUp
  <2> HIDE DEF q
  <2> QED BY <1>1, <2>1
<1>3. LeaseFor(ttl) = IF api = "expire" THEN q * Second ELSE ttl
  BY DEF LeaseFor
<1> HIDE DEF q
<1> DEFINE lasts == q * Second
<1>4. lasts \in Int /\ lasts >= ttl /\ lasts <= ttl + Second - 1
  BY <1>2
<1>5. LeaseFor(ttl) = IF api = "expire" THEN lasts ELSE ttl
  BY <1>3
<1> HIDE DEF lasts
<1> QED BY <1>1, <1>4, <1>5

(***************************************************************************)
(* The queue of a key: its mutations, in the order of their calls; one     *)
(* that has begun has only settled ones before it.                         *)
(***************************************************************************)
Queued(k) ==
  LET s == order[k] IN
  /\ \A i \in 1 .. Len(s) : pc[s[i]] # "new" /\ call[s[i]].key = k
  /\ \A i, j \in 1 .. Len(s) : s[i] = s[j] => i = j
  /\ \A i, j \in 1 .. Len(s) : j < i /\ pc[s[i]] # "waiting" => pc[s[j]] \in Settled
  /\ \A i \in 2 .. Len(s) :
       pc[s[i]] = "waiting" => s[i - 1] \in prev[s[i]] \/ pc[s[i - 1]] \in Settled
  /\ Len(s) # 0 => s[Len(s)] \in tails[k] \/ pc[s[Len(s)]] \in Settled
  /\ Raw => Len(s) = 0

Called(m) ==
  /\ pc[m] = "new" <=> call[m] = NoCall
  /\ call[m].kind = "set" => call[m].deadline <= now + call[m].ttl
  /\ pc[m] = "expire" => ~Raw /\ call[m].kind = "set"
  /\ ~Raw /\ pc[m] # "new" => \E i \in 1 .. Len(order[call[m].key]) : order[call[m].key][i] = m

\* What Redis has of a mutation between its SET and its expiry command.
Expiring(m) ==
  pc[m] = "expire" =>
    /\ db[call[m].key] # NoRecord /\ db[call[m].key].by = m
    /\ db[call[m].key].deadline = call[m].deadline /\ lease[call[m].key] = Forever

Written(k, m) ==
  \/ call[m].kind = "delete" /\ db[k] = NoRecord
  \/ call[m].kind = "set" /\ db[k] # NoRecord /\ db[k].by = m /\ db[k].deadline = call[m].deadline
  \/ call[m].kind = "set" /\ db[k] = NoRecord /\ now >= call[m].deadline

LastWritten(k) ==
  LET s == order[k] IN
  Len(s) # 0 /\ pc[s[Len(s)]] = "ok" => Written(k, s[Len(s)])

\* What clear() has still to delete.
Cleared ==
  /\ clear.stage \in {"none", "failed"} => old = {}
  /\ clear.stage = "scan" => old \cap Prefixed \subseteq unseen
  /\ clear.stage = "delete" =>
       /\ old \cap Prefixed \subseteq unseen \cup clear.page
       /\ clear.last => unseen = {}
  /\ clear.stage = "done" => old \cap Prefixed = {}
  /\ clear.stage # "none" /\ clear.stage # "failed" => Raw

Inv ==
  /\ TypeOK
  /\ \A k \in Keys : Queued(k)
  /\ \A m \in Mutations : Called(m) /\ Expiring(m)
  /\ LiveRecordsAreKept
  /\ \A k \in Keys : LastWritten(k)
  /\ Cleared

LEMMA CallType ==
  ASSUME TypeOK, NEW m \in Mutations, call[m] # NoCall
  PROVE  /\ call[m].key \in Keys /\ call[m].kind \in {"set", "delete"}
         /\ call[m].kind = "set" =>
              /\ call[m].ttl \in Ttls /\ call[m].deadline \in Nat /\ call[m].useExpire \in BOOLEAN
BY DEF TypeOK, Calls

LEMMA InvInit == ASSUME Init PROVE Inv
<1>1. TypeOK
  <2>1. <<>> \in Seq(Mutations) /\ NoCall \in Calls /\ NoRecord \in Records /\ 0 \in 0 .. MaxTime
    BY RedisAssumption DEF Calls, Records
  <2>2. clear \in [stage : {"none", "scan", "delete", "done", "failed"}, page : SUBSET Prefixed,
                   last : BOOLEAN]
    BY DEF Init
  <2> QED BY <2>1, <2>2 DEF Init, TypeOK
<1>2. \A k \in Keys : Queued(k) /\ LastWritten(k)
  BY DEF Init, Queued, LastWritten
<1>3. \A m \in Mutations : Called(m) /\ Expiring(m)
  BY DEF Init, Called, Expiring, NoCall
<1> QED BY <1>1, <1>2, <1>3 DEF Init, Inv, LiveRecordsAreKept, Cleared

(***************************************************************************)
(* The queue under the steps of its mutations.                             *)
(***************************************************************************)
\* The mutations of one key that have begun and not ended are at most one, and nobody is
\* while the last call has ended.
LEMMA OneAtATime ==
  ASSUME Inv, NEW k \in Keys, ~Raw, NEW m \in Mutations, call[m].key = k, pc[m] \in Active
  PROVE  /\ \A q \in Mutations : call[q].key = k /\ pc[q] \in Active => q = m
         /\ LET s == order[k] IN Len(s) # 0 /\ (pc[s[Len(s)]] \in Settled => FALSE)
<1>1. PICK i \in 1 .. Len(order[k]) : order[k][i] = m
  BY DEF Inv, Called, Active
<1>2. ASSUME NEW q \in Mutations, call[q].key = k, pc[q] \in Active PROVE q = m
  <2>1. PICK j \in 1 .. Len(order[k]) : order[k][j] = q
    BY <1>2 DEF Inv, Called, Active
  <2> QED BY <1>1, <1>2, <2>1 DEF Inv, Queued, Active, Settled
<1>3. order[k] \in Seq(Mutations) /\ Len(order[k]) \in Nat
  BY LenProperties DEF Inv, TypeOK
<1>4. Len(order[k]) # 0 /\ Len(order[k]) \in 1 .. Len(order[k])
  BY <1>1, <1>3
<1>5. ASSUME pc[order[k][Len(order[k])]] \in Settled PROVE FALSE
  BY <1>1, <1>3, <1>4, <1>5 DEF Inv, Queued, Active, Settled
<1> QED BY <1>2, <1>4, <1>5

\* A mutation begins, goes on or ends.
LEMMA PcMoves ==
  ASSUME Inv, NEW m \in Mutations, NEW x \in Active \cup Settled,
         pc[m] \in {"waiting"} \cup Active, pc' = [pc EXCEPT ![m] = x],
         pc[m] = "waiting" => \A p \in prev[m] : pc[p] \in Settled,
         UNCHANGED <<api, call, prev, tails, order>>
  PROVE  /\ \A k \in Keys : Queued(k)'
         /\ \A q \in Mutations : pc'[q] = "new" <=> pc[q] = "new"
<1>0. pc'[m] = x /\ (\A q \in Mutations : q # m => pc'[q] = pc[q]) /\ x # "waiting" /\ x # "new"
  BY DEF Inv, TypeOK, Active, Settled
<1>1. \A q \in Mutations : pc[q] \in Settled => pc'[q] \in Settled
  BY <1>0 DEF Active, Settled
<1>2. ASSUME NEW k \in Keys PROVE Queued(k)'
  <2> DEFINE s == order[k]
  <2>0. s \in Seq(Mutations) /\ Len(s) \in Nat /\ \A i \in 1 .. Len(s) : s[i] \in Mutations
    BY ElementOfSeq, LenProperties DEF Inv, TypeOK
  <2>1. /\ \A i \in 1 .. Len(s) : pc[s[i]] # "new" /\ call[s[i]].key = k
        /\ \A i, j \in 1 .. Len(s) : s[i] = s[j] => i = j
        /\ \A i, j \in 1 .. Len(s) : j < i /\ pc[s[i]] # "waiting" => pc[s[j]] \in Settled
        /\ \A i \in 2 .. Len(s) :
             pc[s[i]] = "waiting" => s[i - 1] \in prev[s[i]] \/ pc[s[i - 1]] \in Settled
        /\ Len(s) # 0 => s[Len(s)] \in tails[k] \/ pc[s[Len(s)]] \in Settled
        /\ Raw => Len(s) = 0
    BY DEF Inv, Queued
  <2>2. order'[k] = s
    OBVIOUS
  <2> HIDE DEF s
  <2>3. ASSUME NEW i \in 1 .. Len(s), NEW j \in 1 .. Len(s), j < i, pc'[s[i]] # "waiting"
        PROVE  pc'[s[j]] \in Settled
    <3>1. CASE pc[s[i]] # "waiting"
      BY <1>1, <2>0, <2>1, <2>3, <3>1
    <3>2. CASE pc[s[i]] = "waiting"
      <4>1. s[i] = m
        BY <1>0, <2>0, <2>3, <3>2
      <4>2. i - 1 \in 1 .. Len(s) /\ i \in 2 .. Len(s) /\ j <= i - 1
        BY <2>0, <2>3
      <4>3. pc[s[i - 1]] \in Settled
        BY <2>1, <3>2, <4>1, <4>2
      <4>4. pc[s[j]] \in Settled
        BY <2>0, <2>1, <4>2, <4>3 DEF Settled
      <4> QED BY <1>1, <2>0, <4>4
    <3> QED BY <3>1, <3>2
  <2>4. ASSUME NEW i \in 2 .. Len(s), pc'[s[i]] = "waiting"
        PROVE  s[i - 1] \in prev[s[i]] \/ pc'[s[i - 1]] \in Settled
    <3>1. i \in 1 .. Len(s) /\ i - 1 \in 1 .. Len(s)
      BY <2>0
    <3>2. pc[s[i]] = "waiting"
      BY <1>0, <2>0, <2>4, <3>1
    <3> QED BY <1>1, <2>0, <2>1, <3>1, <3>2
  <2>5. Len(s) # 0 => s[Len(s)] \in tails[k] \/ pc'[s[Len(s)]] \in Settled
    BY <1>1, <2>0, <2>1
  <2>6. \A i \in 1 .. Len(s) : pc'[s[i]] # "new" /\ call[s[i]].key = k
    BY <1>0, <2>0, <2>1
  <2> QED BY <2>1, <2>2, <2>3, <2>4, <2>5, <2>6 DEF Queued, Raw
<1> QED BY <1>0, <1>2 DEF Active

(***************************************************************************)
(* The steps.                                                              *)
(***************************************************************************)
\* What lies under the keys that a step leaves alone stays as it was.
LEMMA OtherKey ==
  ASSUME Inv, NEW k \in Keys, db'[k] = db[k], UNCHANGED <<order, call, now>>,
         \A i \in 1 .. Len(order[k]) : pc'[order[k][i]] = pc[order[k][i]]
  PROVE  LastWritten(k)'
<1>1. order[k] \in Seq(Mutations) /\ Len(order[k]) \in Nat
  BY LenProperties DEF Inv, TypeOK
<1>2. Len(order[k]) # 0 => Len(order[k]) \in 1 .. Len(order[k])
  BY <1>1
<1>3. LastWritten(k)
  BY DEF Inv
<1> QED BY <1>2, <1>3 DEF LastWritten, Written

LEMMA CallStep ==
  ASSUME Inv, NEW m \in Mutations, NEW c \in Calls \ {NoCall}, Call(m, c),
         c.kind = "set" => c.deadline <= now + c.ttl
  PROVE  Inv'
<1> DEFINE k == c.key
           s == order[k]
           t == Append(s, m)
<1>1. /\ pc[m] = "new" /\ call[m] = NoCall /\ k \in Keys
      /\ call' = [call EXCEPT ![m] = c]
      /\ UNCHANGED <<api, cleaned, db, lease, now, clear, old, unseen>>
  BY DEF Call, redis, clearing, Inv, Called, Calls
<1>2. CASE Raw
  <2>1. pc' = [pc EXCEPT ![m] = "send"] /\ UNCHANGED <<prev, tails, order>>
    BY <1>2 DEF Call
  <2>2. TypeOK'
    BY <1>1, <2>1 DEF Inv, TypeOK
  <2>3. \A q \in Mutations : pc'[q] = IF q = m THEN "send" ELSE pc[q]
    BY <2>1 DEF Inv, TypeOK
  <2>4. \A q \in Mutations : call'[q] = IF q = m THEN c ELSE call[q]
    BY <1>1 DEF Inv, TypeOK
  <2>5. \A j \in Keys : Queued(j)' /\ LastWritten(j)'
    BY <1>1, <1>2, <2>1 DEF Inv, Queued, LastWritten, Raw
  <2>6. \A q \in Mutations : Called(q)' /\ Expiring(q)'
    BY <1>1, <1>2, <2>3, <2>4 DEF Inv, Called, Expiring, Raw
  <2>7. LiveRecordsAreKept' /\ Cleared'
    BY <1>1 DEF Inv, LiveRecordsAreKept, Cleared, Raw
  <2> QED BY <2>2, <2>5, <2>6, <2>7 DEF Inv
<1>3. CASE ~Raw
  <2>1. /\ pc' = [pc EXCEPT ![m] = "waiting"]
        /\ order' = [order EXCEPT ![k] = t]
        /\ prev' = [prev EXCEPT ![m] = tails[k]]
        /\ tails' = [tails EXCEPT ![k] = {m}]
    BY <1>3 DEF Call
  <2>2. /\ s \in Seq(Mutations) /\ Len(s) \in Nat /\ t \in Seq(Mutations) /\ Len(t) = Len(s) + 1
        /\ t[Len(s) + 1] = m /\ \A i \in 1 .. Len(s) : t[i] = s[i] /\ s[i] \in Mutations
    BY <1>1, AppendProperties, LenProperties, ElementOfSeq DEF Inv, TypeOK
  <2>3. Queued(k)
    BY <1>1 DEF Inv
  <2>4. \A q \in Mutations : pc'[q] = IF q = m THEN "waiting" ELSE pc[q]
    BY <2>1 DEF Inv, TypeOK
  <2>5. \A q \in Mutations : call'[q] = IF q = m THEN c ELSE call[q]
    BY <1>1 DEF Inv, TypeOK
  <2>6. \A q \in Mutations : prev'[q] = IF q = m THEN tails[k] ELSE prev[q]
    BY <2>1 DEF Inv, TypeOK
  <2>7. /\ order'[k] = t /\ tails'[k] = {m}
        /\ \A j \in Keys : j # k => order'[j] = order[j] /\ tails'[j] = tails[j]
    BY <1>1, <2>1 DEF Inv, TypeOK
  <2>8. \A j \in Keys : \A i \in 1 .. Len(order[j]) : order[j][i] \in Mutations /\ order[j][i] # m
    <3>1. \A j \in Keys : order[j] \in Seq(Mutations) /\ Queued(j)
      BY DEF Inv, TypeOK
    <3> QED BY <1>1, <3>1, ElementOfSeq, LenProperties DEF Queued
  <2>9. TypeOK'
    <3>1. order' \in [Keys -> Seq(Mutations)]
      BY <2>1, <2>2 DEF Inv, TypeOK
    <3> HIDE DEF t
    <3> QED BY <1>1, <2>1, <3>1 DEF Inv, TypeOK
  <2>10. Queued(k)'
    <3>1. \A i \in 1 .. Len(s) : s[i] # m
      BY <1>1, <2>8
    <3>2. /\ \A i \in 1 .. Len(s) : pc[s[i]] # "new" /\ call[s[i]].key = k
          /\ \A i, j \in 1 .. Len(s) : s[i] = s[j] => i = j
          /\ \A i, j \in 1 .. Len(s) : j < i /\ pc[s[i]] # "waiting" => pc[s[j]] \in Settled
          /\ \A i \in 2 .. Len(s) :
               pc[s[i]] = "waiting" => s[i - 1] \in prev[s[i]] \/ pc[s[i - 1]] \in Settled
          /\ Len(s) # 0 => s[Len(s)] \in tails[k] \/ pc[s[Len(s)]] \in Settled
      BY <2>3 DEF Queued
    <3>3. c.key = k
      OBVIOUS
    <3> HIDE DEF s, t, k
    <3>4. \A i \in 1 .. Len(t) : (i \in 1 .. Len(s) /\ t[i] = s[i]) \/ (i = Len(s) + 1 /\ t[i] = m)
      BY <2>2
    <3>5. \A i \in 1 .. Len(t) : pc'[t[i]] # "new" /\ call'[t[i]].key = k
      BY <2>2, <2>4, <2>5, <3>1, <3>2, <3>3, <3>4
    <3>6. \A i, j \in 1 .. Len(t) : t[i] = t[j] => i = j
      BY <3>1, <3>2, <3>4
    <3>7. \A i, j \in 1 .. Len(t) : j < i /\ pc'[t[i]] # "waiting" => pc'[t[j]] \in Settled
      BY <2>2, <2>4, <3>1, <3>2, <3>4
    <3>8. ASSUME NEW i \in 2 .. Len(t), pc'[t[i]] = "waiting"
          PROVE  t[i - 1] \in prev'[t[i]] \/ pc'[t[i - 1]] \in Settled
      <4>1. i - 1 \in 1 .. Len(s) /\ t[i - 1] = s[i - 1] /\ s[i - 1] # m /\ s[i - 1] \in Mutations
        BY <2>2, <3>1
      <4>2. CASE i = Len(s) + 1
        <5>1. i - 1 = Len(s) /\ Len(s) # 0 /\ t[i] = m
          BY <2>2, <4>1, <4>2
        <5> QED BY <2>4, <2>6, <3>2, <4>1, <5>1
      <4>3. CASE i # Len(s) + 1
        <5>1. i \in 2 .. Len(s) /\ i \in 1 .. Len(s) /\ t[i] = s[i] /\ s[i] # m /\ s[i] \in Mutations
          BY <2>2, <3>1, <4>3
        <5> QED BY <2>4, <2>6, <3>2, <3>8, <4>1, <5>1
      <4> QED BY <4>2, <4>3
    <3>9. t[Len(t)] \in tails'[k]
      BY <2>2, <2>7
    <3>10. ~Raw'
      BY <1>1, <1>3 DEF Raw
    <3> QED BY <2>7, <3>5, <3>6, <3>7, <3>8, <3>9, <3>10 DEF Queued
  <2>11. ASSUME NEW j \in Keys, j # k PROVE Queued(j)'
    <3>1. \A i \in 1 .. Len(order[j]) : order[j][i] \in Mutations /\ order[j][i] # m
      BY <2>8
    <3>2. Queued(j) /\ Len(order[j]) \in Nat
      BY LenProperties DEF Inv, TypeOK
    <3>3. order'[j] = order[j] /\ tails'[j] = tails[j]
      BY <2>7, <2>11
    <3> HIDE DEF k
    <3>4. \A i \in 2 .. Len(order[j]) : i - 1 \in 1 .. Len(order[j]) /\ i \in 1 .. Len(order[j])
      BY <3>2
    <3>5. Len(order[j]) # 0 => Len(order[j]) \in 1 .. Len(order[j])
      BY <3>2
    <3> DEFINE u == order[j]
    <3>6. \A i \in 1 .. Len(u) : pc'[u[i]] = pc[u[i]] /\ call'[u[i]] = call[u[i]] /\ prev'[u[i]] = prev[u[i]]
      BY <2>4, <2>5, <2>6, <3>1
    <3>7. /\ \A i \in 1 .. Len(u) : pc[u[i]] # "new" /\ call[u[i]].key = j
          /\ \A h, i \in 1 .. Len(u) : u[h] = u[i] => h = i
          /\ \A i, h \in 1 .. Len(u) : h < i /\ pc[u[i]] # "waiting" => pc[u[h]] \in Settled
          /\ \A i \in 2 .. Len(u) :
               pc[u[i]] = "waiting" => u[i - 1] \in prev[u[i]] \/ pc[u[i - 1]] \in Settled
          /\ Len(u) # 0 => u[Len(u)] \in tails[j] \/ pc[u[Len(u)]] \in Settled
          /\ Raw => Len(u) = 0
      BY <3>2 DEF Queued
    <3>8. order'[j] = u /\ (Raw' <=> Raw)
      BY <1>1, <3>3 DEF Raw
    <3> HIDE DEF u
    <3>9. /\ \A i \in 1 .. Len(u) : pc'[u[i]] # "new" /\ call'[u[i]].key = j
          /\ \A i, h \in 1 .. Len(u) : h < i /\ pc'[u[i]] # "waiting" => pc'[u[h]] \in Settled
      BY <3>6, <3>7
    <3>10. \A i \in 2 .. Len(u) :
             pc'[u[i]] = "waiting" => u[i - 1] \in prev'[u[i]] \/ pc'[u[i - 1]] \in Settled
      BY <3>4, <3>6, <3>7 DEF u
    <3>11. Len(u) # 0 => u[Len(u)] \in tails'[j] \/ pc'[u[Len(u)]] \in Settled
      BY <3>3, <3>5, <3>6, <3>7 DEF u
    <3> QED BY <3>7, <3>8, <3>9, <3>10, <3>11 DEF Queued
  <2>12. LastWritten(k)'
    BY <1>1, <2>2, <2>4, <2>7 DEF LastWritten
  <2>13. ASSUME NEW j \in Keys, j # k PROVE LastWritten(j)'
    <3>1. Len(order[j]) \in Nat /\ order'[j] = order[j] /\ LastWritten(j)
      BY <2>7, <2>13, LenProperties DEF Inv, TypeOK
    <3>2. Len(order[j]) # 0 =>
            order[j][Len(order[j])] \in Mutations /\ order[j][Len(order[j])] # m
      BY <2>8, <3>1
    <3> QED BY <1>1, <2>4, <2>5, <3>1, <3>2 DEF LastWritten, Written
  <2>14. ASSUME NEW q \in Mutations PROVE Called(q)' /\ Expiring(q)'
    <3>1. CASE q = m
      <4>1. \E i \in 1 .. Len(order'[k]) : order'[k][i] = m
        BY <2>2, <2>7
      <4> QED BY <1>1, <1>3, <2>4, <2>5, <3>1, <4>1 DEF Called, Expiring
    <3>2. CASE q # m
      <4>1. pc'[q] = pc[q] /\ call'[q] = call[q] /\ Called(q) /\ Expiring(q)
        BY <2>4, <2>5, <3>2 DEF Inv
      <4>2. ASSUME pc[q] # "new" PROVE \E i \in 1 .. Len(order'[call[q].key]) : order'[call[q].key][i] = q
        <5>1. call[q].key \in Keys
          BY <4>1, <4>2, CallType DEF Called, Inv
        <5>2. PICK i \in 1 .. Len(order[call[q].key]) : order[call[q].key][i] = q
          BY <1>3, <4>1, <4>2 DEF Called
        <5>3. CASE call[q].key = k
          <6>1. i \in 1 .. Len(t) /\ t[i] = q
            BY <2>2, <5>2, <5>3
          <6> QED BY <2>7, <5>3, <6>1
        <5>4. CASE call[q].key # k
          BY <2>7, <5>1, <5>2, <5>4
        <5> QED BY <5>3, <5>4
      <4> QED BY <1>1, <4>1, <4>2 DEF Called, Expiring, Raw
    <3> QED BY <3>1, <3>2
  <2>15. LiveRecordsAreKept' /\ Cleared'
    BY <1>1 DEF Inv, LiveRecordsAreKept, Cleared, Raw
  <2> QED BY <2>9, <2>10, <2>11, <2>12, <2>13, <2>14, <2>15 DEF Inv
<1> QED BY <1>2, <1>3

\* A step of one mutation that leaves Redis alone and cannot end well.
LEMMA QuietStep ==
  ASSUME Inv, NEW m \in Mutations, NEW x \in {"send", "resend", "failed"},
         pc[m] \in {"waiting"} \cup Active, pc' = [pc EXCEPT ![m] = x],
         pc[m] = "waiting" => \A p \in prev[m] : pc[p] \in Settled,
         UNCHANGED <<api, call, prev, tails, cleaned, order, db, lease, now, clear, old, unseen>>
  PROVE  Inv'
<1>1. /\ \A k \in Keys : Queued(k)'
      /\ \A q \in Mutations : pc'[q] = "new" <=> pc[q] = "new"
  BY PcMoves DEF Active, Settled
<1>2. \A q \in Mutations : pc'[q] = IF q = m THEN x ELSE pc[q]
  BY DEF Inv, TypeOK
<1>3. TypeOK'
  BY DEF Inv, TypeOK, Settled
<1>4. \A q \in Mutations : Called(q)' /\ Expiring(q)'
  BY <1>1, <1>2 DEF Inv, Called, Expiring, Raw
<1>5. ASSUME NEW k \in Keys PROVE LastWritten(k)'
  <2>1. order[k] \in Seq(Mutations) /\ Len(order[k]) \in Nat /\ LastWritten(k)
    BY LenProperties DEF Inv, TypeOK
  <2>2. Len(order[k]) # 0 => order[k][Len(order[k])] \in Mutations
    BY <2>1, ElementOfSeq
  <2> QED BY <1>2, <2>1, <2>2 DEF LastWritten, Written
<1>6. LiveRecordsAreKept' /\ Cleared'
  BY DEF Inv, LiveRecordsAreKept, Cleared, Raw
<1> QED BY <1>1, <1>3, <1>4, <1>5, <1>6 DEF Inv

LEMMA BeginStep == ASSUME Inv, NEW m \in Mutations, Begin(m) PROVE Inv'
BY QuietStep DEF Begin, queue, redis, clearing

LEMMA FailsStep == ASSUME Inv, NEW m \in Mutations, Fails(m) PROVE Inv'
<1>1. PICK x \in AfterFailure(m) : pc' = [pc EXCEPT ![m] = x]
  BY DEF Fails
<1>2. x \in {"send", "resend", "failed"}
  BY <1>1 DEF AfterFailure
<1> QED BY <1>1, <1>2, QuietStep DEF Fails, queue, redis, clearing, Active

LEMMA ExecuteStep == ASSUME Inv, NEW m \in Mutations, Execute(m) PROVE Inv'
<1> DEFINE c == call[m]
           k == c.key
           record == IF c.kind = "set" THEN [kind |-> "record", by |-> m, deadline |-> c.deadline]
                     ELSE NoRecord
           until == IF Raw /\ c.kind = "set" /\ c.useExpire THEN now + c.ttl ELSE Forever
<1>1. pc[m] \in {"send", "resend"} /\ c # NoCall
  BY DEF Execute, Inv, Called
<1>2. /\ k \in Keys /\ c.kind \in {"set", "delete"}
      /\ c.kind = "set" => c.ttl \in Nat \ {0} /\ c.ttl \in Ttls /\ c.deadline \in Nat
                           /\ c.deadline <= now + c.ttl
  BY <1>1, CallType, RedisAssumption DEF Inv, Called
<1>3. PICK x \in {IF ~Raw /\ c.kind = "set" /\ c.useExpire THEN "expire" ELSE "ok"} \cup AfterFailure(m) :
        pc' = [pc EXCEPT ![m] = x]
  BY DEF Execute, Reply
<1>4. /\ x \in Active \cup Settled /\ x \in {"expire", "ok", "resend", "failed"}
      /\ x = "expire" => ~Raw /\ c.kind = "set"
  BY <1>3 DEF AfterFailure, Active, Settled
<1>5. /\ db' = [db EXCEPT ![k] = record] /\ lease' = [lease EXCEPT ![k] = until]
      /\ old' = old \ {k} /\ unseen' = unseen \ {k}
      /\ UNCHANGED <<api, call, prev, tails, cleaned, order, now, clear>>
  BY DEF Execute, queue
<1>6. record \in Records /\ now \in Nat /\ now \in 0 .. MaxTime
  BY <1>2, RedisAssumption DEF Records, Inv, TypeOK
<1>7. /\ c.kind = "set" => record # NoRecord /\ record.by = m /\ record.deadline = c.deadline
      /\ c.kind = "delete" => record = NoRecord
      /\ until = Forever \/ (c.kind = "set" /\ until = now + c.ttl)
      /\ ~Raw => until = Forever
  BY DEF NoRecord
<1> HIDE DEF record, until, c
<1>8. /\ \A j \in Keys : Queued(j)'
      /\ \A q \in Mutations : pc'[q] = "new" <=> pc[q] = "new"
  BY <1>1, <1>3, <1>4, <1>5, PcMoves DEF Active
<1>9. /\ \A q \in Mutations : pc'[q] = IF q = m THEN x ELSE pc[q]
      /\ \A j \in Keys : db'[j] = IF j = k THEN record ELSE db[j]
      /\ \A j \in Keys : lease'[j] = IF j = k THEN until ELSE lease[j]
  BY <1>3, <1>5 DEF Inv, TypeOK
<1>10. TypeOK'
  <2>1. ASSUME NEW j \in Keys
        PROVE  lease'[j] = Forever \/ \E ttl \in Ttls : lease'[j] \in 0 .. now' + ttl + Second - 1
    <3>1. CASE j = k
      <4>1. Second \in Nat \ {0}
        BY RedisAssumption
      <4> QED BY <1>2, <1>5, <1>6, <1>7, <1>9, <3>1, <4>1
    <3>2. CASE j # k
      BY <1>5, <1>9, <3>2 DEF Inv, TypeOK
    <3> QED BY <3>1, <3>2
  <2>2. pc' \in [Mutations -> {"new", "waiting", "send", "resend", "expire"} \cup Settled]
    BY <1>3, <1>4 DEF Inv, TypeOK, Settled
  <2>3. db' \in [Keys -> Records]
    BY <1>5, <1>6 DEF Inv, TypeOK
  <2>4. old' \subseteq {j \in Keys : db'[j] # NoRecord} /\ unseen' \subseteq old'
    BY <1>5, <1>9 DEF Inv, TypeOK
  <2> QED BY <1>5, <2>1, <2>2, <2>3, <2>4 DEF Inv, TypeOK
<1>11. ASSUME NEW q \in Mutations PROVE Called(q)' /\ Expiring(q)'
  <2>1. CASE q = m
    <3>1. Called(m)
      BY DEF Inv
    <3>2. Called(m)'
      BY <1>4, <1>5, <1>8, <1>9, <3>1 DEF Called, Raw, c
    <3>3. Expiring(m)'
      BY <1>2, <1>4, <1>5, <1>7, <1>9 DEF Expiring, c
    <3> QED BY <2>1, <3>2, <3>3
  <2>2. CASE q # m
    <3>1. Called(q) /\ Expiring(q) /\ pc'[q] = pc[q]
      BY <1>9, <2>2 DEF Inv
    <3>2. Called(q)'
      BY <1>5, <3>1 DEF Called, Raw
    <3>3. ASSUME pc[q] = "expire" PROVE call[q].key # k /\ call[q].key \in Keys
      <4>1. ~Raw /\ call[q] # NoCall
        BY <3>1, <3>3 DEF Called
      <4>2. call[q].key \in Keys
        BY <4>1, CallType DEF Inv
      <4> QED BY <1>1, <1>2, <2>2, <3>3, <4>1, <4>2, OneAtATime DEF Active, c
    <3> QED BY <1>5, <1>9, <3>1, <3>2, <3>3 DEF Expiring
  <2> QED BY <2>1, <2>2
<1>12. LiveRecordsAreKept'
  BY <1>2, <1>6, <1>7, <1>9 DEF Inv, LiveRecordsAreKept
<1>13. ASSUME NEW j \in Keys PROVE LastWritten(j)'
  <2> DEFINE s == order[j]
  <2>0. s \in Seq(Mutations) /\ Len(s) \in Nat /\ Queued(j)
    BY LenProperties DEF Inv, TypeOK
  <2>1. \A i \in 1 .. Len(s) : s[i] \in Mutations /\ call[s[i]].key = j
    BY <2>0, ElementOfSeq DEF Queued
  <2>2. CASE j # k
    BY <1>5, <1>9, <2>1, <2>2, OtherKey DEF c
  <2>3. ASSUME j = k, Len(s) # 0, pc'[s[Len(s)]] = "ok" PROVE Written(j, s[Len(s)])'
    <3>1. ~Raw /\ s[Len(s)] \in Mutations
      BY <2>0, <2>1, <2>3 DEF Queued
    <3>2. pc[s[Len(s)]] \notin Settled
      BY <1>1, <2>3, <3>1, OneAtATime DEF Active, c
    <3>3. s[Len(s)] = m
      BY <1>9, <2>3, <3>1, <3>2 DEF Settled
    <3>4. Written(j, m)'
      BY <1>2, <1>5, <1>7, <1>9, <2>3 DEF Written, c
    <3>5. (s[Len(s)])' = m
      BY <1>5, <3>3
    <3> HIDE DEF s
    <3> QED BY <3>4, <3>5
  <2> QED BY <1>5, <2>2, <2>3 DEF LastWritten
<1>14. Cleared'
  BY <1>5 DEF Inv, Cleared, Raw
<1> QED BY <1>8, <1>10, <1>11, <1>12, <1>13, <1>14 DEF Inv

LEMMA ExpireStep == ASSUME Inv, NEW m \in Mutations, Expire(m) PROVE Inv'
<1> DEFINE c == call[m]
           k == c.key
           until == now + LeaseFor(c.ttl)
<1>1. pc[m] = "expire" /\ ~Raw /\ c.kind = "set" /\ c # NoCall
  BY DEF Expire, Inv, Called
<1>2. /\ k \in Keys /\ c.ttl \in Ttls /\ c.deadline \in Nat /\ c.ttl \in Nat
      /\ c.deadline <= now + c.ttl /\ now \in Nat /\ Second \in Nat \ {0}
  <2>1. now \in Nat /\ Second \in Nat \ {0} /\ Ttls \subseteq Nat
    BY RedisAssumption DEF Inv, TypeOK
  <2>2. k \in Keys /\ c.ttl \in Ttls /\ c.deadline \in Nat
    BY <1>1, CallType DEF Inv
  <2>3. c.deadline <= now + c.ttl
    BY <1>1 DEF Inv, Called
  <2> QED BY <2>1, <2>2, <2>3
<1>3. db[k] # NoRecord /\ db[k].by = m /\ db[k].deadline = c.deadline
  BY <1>1 DEF Inv, Expiring
<1>4. PICK x \in {"ok"} \cup AfterFailure(m) : pc' = [pc EXCEPT ![m] = x]
  BY DEF Expire, Reply
<1>5. x \in {"ok", "failed"}
  BY <1>1, <1>4 DEF AfterFailure
<1>6. /\ lease' = [lease EXCEPT ![k] = until]
      /\ UNCHANGED <<api, call, prev, tails, cleaned, order, db, now, clear, old, unseen>>
  BY <1>3 DEF Expire, queue, clearing
<1>7. until \in Nat /\ until >= c.deadline /\ until <= now + c.ttl + Second - 1
  BY <1>2, LeaseFits
<1> HIDE DEF until, c
<1>8. /\ \A j \in Keys : Queued(j)'
      /\ \A q \in Mutations : pc'[q] = "new" <=> pc[q] = "new"
  BY <1>1, <1>4, <1>5, <1>6, PcMoves DEF Active, Settled
<1>9. /\ \A q \in Mutations : pc'[q] = IF q = m THEN x ELSE pc[q]
      /\ \A j \in Keys : j # k => lease'[j] = lease[j]
      /\ \A j \in Keys : lease'[j] = lease[j] \/ (j = k /\ lease'[j] = until)
  BY <1>4, <1>6 DEF Inv, TypeOK
<1>10. TypeOK'
  <2>1. \A j \in Keys : lease'[j] = Forever \/ \E ttl \in Ttls : lease'[j] \in 0 .. now' + ttl + Second - 1
    <3>1. \E ttl \in Ttls : until \in 0 .. now + ttl + Second - 1
      BY <1>2, <1>7
    <3>2. \A j \in Keys : lease[j] = Forever \/ \E ttl \in Ttls : lease[j] \in 0 .. now + ttl + Second - 1
      BY DEF Inv, TypeOK
    <3> QED BY <1>6, <1>9, <3>1, <3>2
  <2>2. lease' \in [Keys -> Nat \cup {Forever}]
    BY <1>6, <1>7 DEF Inv, TypeOK
  <2> QED BY <1>4, <1>5, <1>6, <2>1, <2>2 DEF Inv, TypeOK, Settled
<1>11. ASSUME NEW q \in Mutations PROVE Called(q)' /\ Expiring(q)'
  <2>1. Called(q) /\ Expiring(q)
    BY DEF Inv
  <2>2. Called(q)'
    BY <1>5, <1>6, <1>8, <1>9, <2>1 DEF Called, Raw
  <2>3. ASSUME pc'[q] = "expire" PROVE lease'[call[q].key] = lease[call[q].key]
    <3>1. q # m /\ pc[q] = "expire"
      BY <1>5, <1>9, <2>3
    <3>2. call[q] # NoCall
      BY <2>1, <3>1 DEF Called
    <3>3. call[q].key \in Keys
      BY <3>2, CallType DEF Inv
    <3>4. call[q].key # k
      BY <1>1, <1>2, <3>1, OneAtATime DEF Active, c
    <3> QED BY <1>9, <3>3, <3>4
  <2>4. Expiring(q)'
    BY <1>5, <1>6, <1>9, <2>1, <2>3 DEF Expiring
  <2> QED BY <2>2, <2>4
<1>12. LiveRecordsAreKept'
  BY <1>3, <1>6, <1>7, <1>9 DEF Inv, LiveRecordsAreKept
<1>13. ASSUME NEW j \in Keys PROVE LastWritten(j)'
  <2> DEFINE s == order[j]
  <2>0. s \in Seq(Mutations) /\ Len(s) \in Nat /\ Queued(j)
    BY LenProperties DEF Inv, TypeOK
  <2>1. \A i \in 1 .. Len(s) : s[i] \in Mutations /\ call[s[i]].key = j
    BY <2>0, ElementOfSeq DEF Queued
  <2>2. CASE j # k
    BY <1>6, <1>9, <2>1, <2>2, OtherKey DEF c
  <2>3. ASSUME j = k, Len(s) # 0, pc'[s[Len(s)]] = "ok" PROVE Written(j, s[Len(s)])'
    <3>1. s[Len(s)] \in Mutations
      BY <2>0, <2>1, <2>3
    <3>2. pc[s[Len(s)]] \notin Settled
      BY <1>1, <1>2, <2>3, OneAtATime DEF Active, c
    <3>3. s[Len(s)] = m
      BY <1>9, <2>3, <3>1, <3>2 DEF Settled
    <3>4. Written(j, m)'
      BY <1>1, <1>3, <1>6, <2>3 DEF Written, c
    <3>5. (s[Len(s)])' = m
      BY <1>6, <3>3
    <3> HIDE DEF s
    <3> QED BY <3>4, <3>5
  <2> QED BY <1>6, <2>2, <2>3 DEF LastWritten
<1>14. Cleared'
  BY <1>6 DEF Inv, Cleared, Raw
<1> QED BY <1>8, <1>10, <1>11, <1>12, <1>13, <1>14 DEF Inv

LEMMA CleanupStep == ASSUME Inv, NEW m \in Mutations, Cleanup(m) PROVE Inv'
<1>1. /\ ~Raw /\ pc[m] \in Settled /\ cleaned' = cleaned \cup {m}
      /\ tails' = [tails EXCEPT ![call[m].key] = @ \ {m}]
      /\ UNCHANGED <<api, call, pc, prev, order, db, lease, now, clear, old, unseen>>
  BY DEF Cleanup, redis, clearing
<1>2. \A k \in Keys : tails'[k] = tails[k] \/ tails'[k] = tails[k] \ {m}
  BY <1>1 DEF Inv, TypeOK
<1>3. TypeOK'
  BY <1>1 DEF Inv, TypeOK
<1>4. \A k \in Keys : Queued(k)'
  BY <1>1, <1>2 DEF Inv, Queued, Raw
<1>5. \A k \in Keys : LastWritten(k)'
  BY <1>1 DEF Inv, LastWritten, Written
<1>6. \A q \in Mutations : Called(q)' /\ Expiring(q)'
  BY <1>1 DEF Inv, Called, Expiring, Raw
<1>7. LiveRecordsAreKept' /\ Cleared'
  BY <1>1 DEF Inv, LiveRecordsAreKept, Cleared, Raw
<1> QED BY <1>3, <1>4, <1>5, <1>6, <1>7 DEF Inv

LEMMA EvictStep == ASSUME Inv, NEW k \in Keys, Evict(k) PROVE Inv'
<1>1. /\ lease[k] # Forever /\ lease[k] <= now
      /\ db' = [db EXCEPT ![k] = NoRecord] /\ lease' = [lease EXCEPT ![k] = Forever]
      /\ old' = old \ {k} /\ unseen' = unseen \ {k}
      /\ UNCHANGED <<api, call, pc, prev, tails, cleaned, order, now, clear>>
  BY DEF Evict, queue
<1>2. /\ \A j \in Keys : db'[j] = IF j = k THEN NoRecord ELSE db[j]
      /\ \A j \in Keys : lease'[j] = IF j = k THEN Forever ELSE lease[j]
      /\ now \in Nat /\ lease[k] \in Nat
  BY <1>1, RedisAssumption DEF Inv, TypeOK
<1>3. TypeOK'
  <2>1. NoRecord \in Records
    BY DEF Records
  <2>2. \A j \in Keys : lease'[j] = Forever \/ \E ttl \in Ttls : lease'[j] \in 0 .. now' + ttl + Second - 1
    BY <1>1, <1>2 DEF Inv, TypeOK
  <2>3. old' \subseteq {j \in Keys : db'[j] # NoRecord} /\ unseen' \subseteq old'
    BY <1>1, <1>2 DEF Inv, TypeOK
  <2> QED BY <1>1, <2>1, <2>2, <2>3 DEF Inv, TypeOK
<1>4. \A j \in Keys : Queued(j)'
  BY <1>1 DEF Inv, Queued, Raw
<1>5. ASSUME NEW j \in Keys PROVE LastWritten(j)'
  <2>1. CASE j # k
    BY <1>1, <1>2, <2>1, OtherKey
  <2>2. CASE j = k
    <3> DEFINE m == order[k][Len(order[k])]
    <3>1. LastWritten(k) /\ order[k] \in Seq(Mutations) /\ Len(order[k]) \in Nat
      BY LenProperties DEF Inv, TypeOK
    <3>2. ASSUME Len(order[k]) # 0, pc[m] = "ok" PROVE Written(k, m)'
      <4>1. m \in Mutations /\ Queued(k)
        BY <3>1, <3>2, ElementOfSeq DEF Inv
      <4>2. Written(k, m)
        BY <3>1, <3>2 DEF LastWritten
      <4>3. db[k] # NoRecord => db[k].deadline \in Nat /\ db[k].deadline <= now
        BY <1>1, <1>2 DEF Inv, LiveRecordsAreKept, TypeOK, Records
      <4>4. m' = m
        BY <1>1
      <4> HIDE DEF m
      <4> QED BY <1>1, <1>2, <4>2, <4>3, <4>4 DEF Written
    <3> QED BY <1>1, <2>2, <3>2 DEF LastWritten
  <2> QED BY <2>1, <2>2
<1>6. \A q \in Mutations : Called(q)' /\ Expiring(q)'
  <2>1. \A q \in Mutations : pc[q] = "expire" => call[q].key # k /\ call[q].key \in Keys
    BY <1>1, CallType DEF Inv, Called, Expiring
  <2> QED BY <1>1, <1>2, <2>1 DEF Inv, Called, Expiring, Raw
<1>7. LiveRecordsAreKept'
  BY <1>1, <1>2 DEF Inv, LiveRecordsAreKept
<1>8. Cleared'
  BY <1>1 DEF Inv, Cleared, Raw
<1> QED BY <1>3, <1>4, <1>5, <1>6, <1>7, <1>8 DEF Inv

LEMMA TickStep == ASSUME Inv, Tick \/ UNCHANGED vars PROVE Inv'
<1>1. UNCHANGED <<api, call, pc, prev, tails, cleaned, order, db, lease, clear, old, unseen>>
  BY DEF Tick, queue, redis, clearing, vars
<1>2. /\ now \in Nat /\ now' \in 0 .. MaxTime /\ now' \in Nat /\ now' >= now
      /\ Second \in Nat \ {0} /\ Ttls \subseteq Nat
  BY RedisAssumption DEF Tick, vars, Inv, TypeOK
<1>3. TypeOK'
  <2>1. ASSUME NEW k \in Keys
        PROVE  lease[k] = Forever \/ \E ttl \in Ttls : lease[k] \in 0 .. now' + ttl + Second - 1
    <3>1. lease[k] = Forever \/ \E ttl \in Ttls : lease[k] \in 0 .. now + ttl + Second - 1
      BY DEF Inv, TypeOK
    <3>2. ASSUME NEW ttl \in Ttls, lease[k] \in 0 .. now + ttl + Second - 1
          PROVE  lease[k] \in 0 .. now' + ttl + Second - 1
      BY <1>2, <3>2
    <3> QED BY <3>1, <3>2
  <2> QED BY <1>1, <1>2, <2>1 DEF Inv, TypeOK
<1>4. \A k \in Keys : Queued(k)'
  BY <1>1 DEF Inv, Queued, Raw
<1>5. ASSUME NEW m \in Mutations PROVE Called(m)' /\ Expiring(m)'
  <2>1. call[m] # NoCall /\ call[m].kind = "set" => call[m].ttl \in Nat /\ call[m].deadline \in Nat
    BY <1>2, CallType DEF Inv
  <2>2. call[m].kind = "set" => call[m] # NoCall
    BY DEF NoCall
  <2> QED BY <1>1, <1>2, <2>1, <2>2 DEF Inv, Called, Expiring, Raw
<1>6. ASSUME NEW k \in Keys PROVE LastWritten(k)'
  <2> DEFINE m == order[k][Len(order[k])]
  <2>1. LastWritten(k) /\ order[k] \in Seq(Mutations) /\ Len(order[k]) \in Nat
    BY LenProperties DEF Inv, TypeOK
  <2>2. ASSUME Len(order[k]) # 0, pc[m] = "ok" PROVE Written(k, m)'
    <3>1. m \in Mutations
      BY <2>1, <2>2, ElementOfSeq
    <3>2. Written(k, m)
      BY <2>1, <2>2 DEF LastWritten
    <3>3. call[m].kind = "set" => call[m].deadline \in Nat
      BY <3>1, CallType DEF Inv, NoCall
    <3>4. m' = m
      BY <1>1
    <3> HIDE DEF m
    <3> QED BY <1>1, <1>2, <3>2, <3>3, <3>4 DEF Written
  <2> QED BY <1>1, <2>2 DEF LastWritten
<1>7. LiveRecordsAreKept' /\ Cleared'
  BY <1>1 DEF Inv, LiveRecordsAreKept, Cleared, Raw
<1> QED BY <1>3, <1>4, <1>5, <1>6, <1>7 DEF Inv

\* clear(): all of its steps leave the calls alone, and DeleteChunk the keys outside its chunk.
LEMMA ClearStep ==
  ASSUME Inv, \/ Clear \/ Scan \/ DeleteChunk \/ ClearFails
  PROVE  Inv'
<1>1. UNCHANGED <<api, call, pc, prev, tails, cleaned, order, now>>
  BY DEF Clear, Scan, DeleteChunk, ClearFails, queue
<1>2. clear \in [stage : {"none", "scan", "delete", "done", "failed"}, page : SUBSET Prefixed,
                 last : BOOLEAN]
  BY DEF Inv, TypeOK
<1>3. \A q \in Mutations : Called(q)'
  BY <1>1 DEF Inv, Called, Raw
<1>4. \A k \in Keys : Queued(k)'
  BY <1>1 DEF Inv, Queued, Raw
<1> DEFINE Kept == UNCHANGED <<db, lease>>
           Rest == /\ clear' \in [stage : {"none", "scan", "delete", "done", "failed"},
                                  page : SUBSET Prefixed, last : BOOLEAN]
                   /\ old' \subseteq {k \in Keys : db'[k] # NoRecord} /\ unseen' \subseteq old'
                   /\ Cleared'
<1>5. ASSUME Kept, Rest PROVE Inv'
  <2>1. TypeOK'
    BY <1>1, <1>5 DEF Inv, TypeOK
  <2>2. \A k \in Keys : LastWritten(k)'
    BY <1>1, <1>5 DEF Inv, LastWritten, Written
  <2>3. \A q \in Mutations : Expiring(q)'
    BY <1>1, <1>5 DEF Inv, Expiring
  <2>4. LiveRecordsAreKept'
    BY <1>5 DEF Inv, LiveRecordsAreKept
  <2> QED BY <1>3, <1>4, <1>5, <2>1, <2>2, <2>3, <2>4 DEF Inv
<1>6. CASE Clear
  <2>1. Kept /\ clear' = [clear EXCEPT !.stage = IF Raw THEN "scan" ELSE "failed"]
        /\ old' = {k \in Keys : Raw /\ db[k] # NoRecord} /\ unseen' = old'
    BY <1>6 DEF Clear, redis
  <2>2. clear'.stage = IF Raw THEN "scan" ELSE "failed"
    BY <1>2, <2>1
  <2>3. Cleared'
    BY <1>1, <2>1, <2>2 DEF Cleared, Raw
  <2>4. Rest
    BY <1>2, <2>1, <2>3
  <2> QED BY <1>5, <2>1, <2>4
<1>7. CASE Scan
  <2>1. PICK found \in SUBSET {k \in Keys : db[k] # NoRecord}, last \in BOOLEAN :
          /\ last => unseen \subseteq found
          /\ unseen' = unseen \ found
          /\ clear' = AfterPage(found \cap Prefixed, last)
    BY <1>7 DEF Scan
  <2>2. Kept /\ old' = old /\ clear.stage = "scan" /\ Raw /\ old \cap Prefixed \subseteq unseen
    BY <1>7 DEF Scan, redis, Inv, Cleared
  <2>3. /\ clear'.page = found \cap Prefixed /\ clear'.last = last
        /\ clear'.stage = IF found \cap Prefixed # {} THEN "delete" ELSE IF last THEN "done" ELSE "scan"
        /\ clear' \in [stage : {"none", "scan", "delete", "done", "failed"}, page : SUBSET Prefixed,
                       last : BOOLEAN]
    BY <2>1 DEF AfterPage
  <2>4. Cleared'
    BY <1>1, <2>1, <2>2, <2>3 DEF Cleared, Raw
  <2>5. Rest
    BY <2>1, <2>2, <2>3, <2>4 DEF Inv, TypeOK
  <2> QED BY <1>5, <2>2, <2>5
<1>8. CASE ClearFails
  <2>1. Kept /\ clear' = [stage |-> "failed", page |-> {}, last |-> FALSE] /\ old' = {} /\ unseen' = {}
    BY <1>8 DEF ClearFails, redis
  <2>2. Rest
    BY <2>1 DEF Cleared
  <2> QED BY <1>5, <2>1, <2>2
<1>9. CASE DeleteChunk
  <2>1. PICK chunk \in SUBSET clear.page \ {{}} :
          /\ db' = [k \in Keys |-> IF k \in chunk THEN NoRecord ELSE db[k]]
          /\ lease' = [k \in Keys |-> IF k \in chunk THEN Forever ELSE lease[k]]
          /\ old' = old \ chunk /\ unseen' = unseen \ chunk
          /\ clear' = AfterPage(clear.page \ chunk, clear.last)
    BY <1>9 DEF DeleteChunk
  <2>2. /\ clear.stage = "delete" /\ Raw /\ old \cap Prefixed \subseteq unseen \cup clear.page
        /\ clear.last => unseen = {}
    BY <1>9 DEF DeleteChunk, Inv, Cleared
  <2>3. /\ clear'.page = clear.page \ chunk /\ clear'.last = clear.last
        /\ clear'.stage = IF clear.page \ chunk # {} THEN "delete"
                          ELSE IF clear.last THEN "done" ELSE "scan"
        /\ clear' \in [stage : {"none", "scan", "delete", "done", "failed"}, page : SUBSET Prefixed,
                       last : BOOLEAN]
    BY <1>2, <2>1 DEF AfterPage
  <2>4. Cleared'
    BY <1>1, <2>1, <2>2, <2>3 DEF Cleared, Raw
  <2>5. TypeOK'
    <3>1. NoRecord \in Records
      BY DEF Records
    <3>2. db' \in [Keys -> Records] /\ lease' \in [Keys -> Nat \cup {Forever}]
      BY <2>1, <3>1 DEF Inv, TypeOK
    <3>3. \A k \in Keys : lease'[k] = Forever \/ \E ttl \in Ttls : lease'[k] \in 0 .. now' + ttl + Second - 1
      BY <1>1, <2>1 DEF Inv, TypeOK
    <3>4. old' \subseteq {k \in Keys : db'[k] # NoRecord} /\ unseen' \subseteq old'
      BY <2>1 DEF Inv, TypeOK
    <3> QED BY <1>1, <2>3, <3>2, <3>3, <3>4 DEF Inv, TypeOK
  <2>6. \A k \in Keys : LastWritten(k)'
    BY <1>1, <2>2 DEF Inv, Queued, LastWritten
  <2>7. \A q \in Mutations : Expiring(q)'
    BY <1>1, <2>2 DEF Inv, Called, Expiring
  <2>8. LiveRecordsAreKept'
    BY <2>1 DEF Inv, LiveRecordsAreKept
  <2> QED BY <1>3, <1>4, <2>4, <2>5, <2>6, <2>7, <2>8 DEF Inv
<1> QED BY <1>6, <1>7, <1>8, <1>9

LEMMA InvStep == ASSUME Inv, [Next]_vars PROVE Inv'
<1>1. ASSUME NEW m \in Mutations, Set(m) PROVE Inv'
  <2>1. PICK k \in Keys, ttl \in Ttls, useExpire \in BOOLEAN : Call(m, Insertion(k, ttl, useExpire))
    BY <1>1 DEF Set
  <2> DEFINE c == Insertion(k, ttl, useExpire)
  <2>2. ttl \in Nat /\ now \in Nat
    BY RedisAssumption DEF Inv, TypeOK
  <2>3. c \in Calls /\ c # NoCall /\ c.deadline <= now + c.ttl
    BY <2>2 DEF Insertion, Calls, NoCall
  <2> HIDE DEF c
  <2>4. Call(m, c)
    BY <2>1 DEF c
  <2> QED BY <2>3, <2>4, CallStep
<1>2. ASSUME NEW m \in Mutations, Delete(m) PROVE Inv'
  <2>1. PICK k \in Keys : Call(m, [kind |-> "delete", key |-> k])
    BY <1>2 DEF Delete
  <2> DEFINE c == [kind |-> "delete", key |-> k]
  <2>2. c \in Calls /\ c # NoCall /\ c.kind # "set"
    BY DEF Calls, NoCall
  <2> HIDE DEF c
  <2>3. Call(m, c)
    BY <2>1 DEF c
  <2> QED BY <2>2, <2>3, CallStep
<1> QED BY <1>1, <1>2, BeginStep, ExecuteStep, ExpireStep, FailsStep, CleanupStep, EvictStep,
           TickStep, ClearStep DEF Next

LEMMA InvAlways == Spec => []Inv
BY InvInit, InvStep, PTL DEF Spec

(***************************************************************************)
(* Theorems.                                                               *)
(***************************************************************************)
\* Types hold, and no lease outlasts its record by more than the rounding and the time the
\* commands took (cache-redis.ts, applyHighLevelExpiry).
THEOREM TypeCorrect == Spec => []TypeOK
<1>1. Inv => TypeOK
  BY DEF Inv
<1> QED BY <1>1, InvAlways, PTL

\* No lease of any key ends before the record under it, however commands, evictions and
\* other adapters' mutations interleave (cache-redis.ts, the ceiling of the seconds and the
\* tails).
THEOREM LeasesCover == Spec => []LiveRecordsAreKept
<1>1. Inv => LiveRecordsAreKept
  BY DEF Inv
<1> QED BY <1>1, InvAlways, PTL

\* With friendly commands, once all calls on a key have settled and the last one succeeded,
\* Redis holds what it left until its deadline (cache-redis.ts, serializeFriendlyMutation).
THEOREM LastWins == Spec => []LastCallWins
<1>1. ASSUME Inv PROVE LastCallWins
  <2>1. ASSUME NEW k \in Keys, order[k] # <<>>, pc[Last(order[k])] = "ok"
        PROVE  Written(k, Last(order[k]))
    <3>1. Len(order[k]) # 0
      BY <2>1, EmptySeq DEF Inv, TypeOK
    <3>2. LastWritten(k)
      BY <1>1 DEF Inv
    <3> QED BY <2>1, <3>1, <3>2 DEF LastWritten, Last
  <2> QED BY <2>1 DEF LastCallWins, Written
<1> QED BY <1>1, InvAlways, PTL

\* A clear() that succeeds has deleted every record of its prefix that was there when it
\* began, whatever pages SCAN returned and whoever wrote meanwhile (cache-redis.ts, clear).
THEOREM Thorough == Spec => []ClearIsThorough
<1>1. Inv => ClearIsThorough
  BY DEF Inv, Cleared, ClearIsThorough
<1> QED BY <1>1, InvAlways, PTL

===============================================================================
