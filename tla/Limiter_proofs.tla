---------------------------- MODULE Limiter_proofs ----------------------------
(***************************************************************************)
(* Proofs about Limiter: that every call is in one place, that the pending *)
(* set is what Bottleneck has received and not registered, and that an     *)
(* admitted probe never waits.                                             *)
(***************************************************************************)
EXTENDS Limiter, FiniteSetTheorems, SequenceTheorems, TLAPS

Distinct(s) == \A i, j \in DOMAIN s : s[i] = s[j] => i = j

(***************************************************************************)
(* Sequences and their members.                                            *)
(***************************************************************************)
LEMMA AppendMembers ==
  ASSUME NEW S, NEW s \in Seq(S), NEW e \in S
  PROVE  /\ ToSet(Append(s, e)) = ToSet(s) \cup {e}
         /\ Distinct(s) /\ e \notin ToSet(s) => Distinct(Append(s, e))
BY AppendProperties DEF ToSet, Distinct

LEMMA ConcatMembers ==
  ASSUME NEW S, NEW s \in Seq(S), NEW t \in Seq(S)
  PROVE  /\ ToSet(s \o t) = ToSet(s) \cup ToSet(t)
         /\ Distinct(s) /\ Distinct(t) /\ ToSet(s) \cap ToSet(t) = {} => Distinct(s \o t)
<1> DEFINE st == s \o t
<1>1. /\ DOMAIN s = 1 .. Len(s) /\ DOMAIN t = 1 .. Len(t) /\ DOMAIN st = 1 .. Len(s) + Len(t)
      /\ Len(s) \in Nat /\ Len(t) \in Nat
      /\ \A i \in DOMAIN st : st[i] = IF i <= Len(s) THEN s[i] ELSE t[i - Len(s)]
  BY ConcatProperties, LenProperties
<1> HIDE DEF st
<1>2. ToSet(st) \subseteq ToSet(s) \cup ToSet(t)
  BY <1>1 DEF ToSet
<1>3. ToSet(s) \subseteq ToSet(st)
  BY <1>1 DEF ToSet
<1>4. ASSUME NEW i \in DOMAIN t PROVE t[i] \in ToSet(st)
  <2>1. i + Len(s) \in DOMAIN st /\ st[i + Len(s)] = t[i]
    BY <1>1
  <2> QED BY <2>1 DEF ToSet
<1>5. ASSUME Distinct(s), Distinct(t), ToSet(s) \cap ToSet(t) = {},
             NEW i \in DOMAIN st, NEW j \in DOMAIN st, st[i] = st[j]
      PROVE  i = j
  <2>1. CASE i <= Len(s) /\ j <= Len(s)
    BY <1>1, <1>5, <2>1 DEF Distinct
  <2>2. CASE i > Len(s) /\ j > Len(s)
    <3>1. i - Len(s) \in DOMAIN t /\ j - Len(s) \in DOMAIN t
      BY <1>1, <2>2
    <3>2. t[i - Len(s)] = t[j - Len(s)]
      BY <1>1, <1>5, <2>2
    <3> QED BY <1>1, <1>5, <3>1, <3>2 DEF Distinct
  <2>3. ASSUME NEW k \in DOMAIN st, NEW l \in DOMAIN st, k <= Len(s), l > Len(s)
        PROVE  st[k] # st[l]
    <3>1. k \in DOMAIN s /\ l - Len(s) \in DOMAIN t
      BY <1>1, <2>3
    <3>2. st[k] \in ToSet(s) /\ st[l] \in ToSet(t)
      BY <1>1, <2>3, <3>1 DEF ToSet
    <3> QED BY <3>2, <1>5
  <2> QED BY <1>1, <1>5, <2>1, <2>2, <2>3
<1> QED BY <1>2, <1>3, <1>4, <1>5 DEF ToSet, Distinct, st

LEMMA ConcatPlaces ==
  ASSUME NEW S, NEW s \in Seq(S), NEW t \in Seq(S)
  PROVE  /\ Len(s \o t) = Len(s) + Len(t) /\ Len(s) \in Nat /\ Len(t) \in Nat
         /\ \A i \in 1 .. Len(s) : (s \o t)[i] = s[i]
         /\ \A i \in 1 .. Len(t) : (s \o t)[Len(s) + i] = t[i]
<1> DEFINE st == s \o t
<1>1. /\ Len(s) \in Nat /\ Len(t) \in Nat /\ Len(st) = Len(s) + Len(t)
      /\ \A i \in 1 .. Len(s) + Len(t) : st[i] = IF i <= Len(s) THEN s[i] ELSE t[i - Len(s)]
  BY ConcatProperties, LenProperties
<1> HIDE DEF st
<1>2. \A i \in 1 .. Len(s) : st[i] = s[i]
  BY <1>1
<1>3. ASSUME NEW i \in 1 .. Len(t) PROVE st[Len(s) + i] = t[i]
  <2>1. Len(s) + i \in 1 .. Len(s) + Len(t) /\ ~(Len(s) + i <= Len(s)) /\ Len(s) + i - Len(s) = i
    BY <1>1
  <2> QED BY <1>1, <2>1
<1> QED BY <1>1, <1>2, <1>3 DEF st

LEMMA TailMembers ==
  ASSUME NEW S, NEW s \in Seq(S), s # <<>>, Distinct(s)
  PROVE  /\ Head(s) \in ToSet(s)
         /\ ToSet(Tail(s)) = ToSet(s) \ {Head(s)}
         /\ Distinct(Tail(s))
<1>1. /\ Len(s) \in Nat \ {0} /\ DOMAIN s = 1 .. Len(s) /\ DOMAIN Tail(s) = 1 .. Len(s) - 1
      /\ Head(s) = s[1] /\ \A i \in DOMAIN Tail(s) : Tail(s)[i] = s[i + 1]
  BY HeadTailProperties, LenProperties, EmptySeq
<1>2. ASSUME NEW i \in DOMAIN s, s[i] # Head(s) PROVE s[i] \in ToSet(Tail(s))
  <2>1. i - 1 \in DOMAIN Tail(s) /\ Tail(s)[i - 1] = s[i]
    BY <1>1, <1>2
  <2> QED BY <2>1 DEF ToSet
<1>3. ASSUME NEW i \in DOMAIN Tail(s) PROVE Tail(s)[i] \in ToSet(s) /\ Tail(s)[i] # Head(s)
  <2>1. i + 1 \in DOMAIN s /\ 1 \in DOMAIN s /\ i + 1 # 1
    BY <1>1
  <2> QED BY <1>1, <2>1 DEF ToSet, Distinct
<1>4. ASSUME NEW i \in DOMAIN Tail(s), NEW j \in DOMAIN Tail(s), Tail(s)[i] = Tail(s)[j]
      PROVE  i = j
  <2>1. i + 1 \in DOMAIN s /\ j + 1 \in DOMAIN s /\ s[i + 1] = s[j + 1]
    BY <1>1, <1>4
  <2>2. i + 1 = j + 1
    BY <2>1 DEF Distinct
  <2> QED BY <2>2, <1>1
<1>5. Head(s) \in ToSet(s)
  BY <1>1 DEF ToSet
<1> QED BY <1>2, <1>3, <1>4, <1>5 DEF ToSet, Distinct

LEMMA PrefixMembers ==
  ASSUME NEW S, NEW s \in Seq(S), NEW n \in 0 .. Len(s)
  PROVE  /\ SubSeq(s, 1, n) \in Seq(S)
         /\ Len(SubSeq(s, 1, n)) = n
         /\ \A i \in 1 .. n : SubSeq(s, 1, n)[i] = s[i]
         /\ ToSet(SubSeq(s, 1, n)) \subseteq ToSet(s)
         /\ Distinct(s) => Distinct(SubSeq(s, 1, n))
BY SubSeqProperties, ElementOfSeq DEF ToSet, Distinct

LEMMA MemberOfSeq ==
  ASSUME NEW S, NEW s \in Seq(S)
  PROVE  ToSet(s) \subseteq S
BY ElementOfSeq DEF ToSet

\* A sequence without repetitions has as many members as places.
LEMMA DistinctCount ==
  ASSUME NEW S, NEW s \in Seq(S), Distinct(s)
  PROVE  Cardinality(ToSet(s)) = Len(s)
<1>1. s \in Bijection(1 .. Len(s), ToSet(s))
  BY DEF Bijection, Injection, Surjection, IsInjective, ToSet, Distinct
<1> QED BY <1>1, FS_CountingElements DEF ExistsBijection

(***************************************************************************)
(* Types.  The answers of check() never outnumber the members checked.     *)
(***************************************************************************)
TypeInv ==
  /\ TypeOK
  /\ snapshot \in [pending : Nat, version : Nat]
  /\ flush = "checking" => Len(verdicts) <= Checked

LEMMA CfgType ==
  ASSUME cfg \in Settings
  PROVE  /\ cfg.reservoir \in Nat /\ cfg.refresh \in Nat
         /\ cfg.spaced \in BOOLEAN /\ cfg.concurrent \in Nat
BY SettingsAssumption

LEMMA RegisteredFinite == IsFiniteSet(Registered) /\ Cardinality(Registered) \in Nat
BY SettingsAssumption, FS_Subset, FS_CardinalityType DEF Registered

LEMMA CapacityType ==
  ASSUME TypeInv
  PROVE  Room \in Int /\ Capacity \in Int /\ Capacity <= tokens /\ Capacity <= Room
<1> HIDE DEF Registered
<1>1. tokens \in Nat /\ cfg.concurrent \in Nat
  BY CfgType DEF TypeInv, TypeOK
<1> QED BY <1>1, RegisteredFinite DEF Room, Capacity

\* The admitted members are a prefix of the burst.
LEMMA AdmittedPrefix ==
  ASSUME TypeInv, flush = "checking"
  PROVE  /\ Checked \in 0 .. Len(batch)
         /\ Admitted \in 0 .. Len(batch)
         /\ Admitted <= Len(verdicts)
         /\ Admitted > 0 => version = snapshot.version
<1> DEFINE T == {i \in DOMAIN verdicts : \A j \in 1 .. i : verdicts[j]}
<1>1. batch \in Seq(Requests) /\ batch # <<>> /\ cfg.spaced \in BOOLEAN
  BY CfgType DEF TypeInv, TypeOK
<1>2. Checked \in 0 .. Len(batch)
  BY <1>1, EmptySeq DEF Checked
<1>3. Len(verdicts) \in Nat /\ DOMAIN verdicts = 1 .. Len(verdicts) /\ Len(verdicts) <= Checked
  BY LenProperties DEF TypeInv, TypeOK
<1>4. /\ IsFiniteSet(1 .. Len(verdicts)) /\ Cardinality(1 .. Len(verdicts)) = Len(verdicts)
  <2> DEFINE n == Len(verdicts)
  <2>1. n \in Nat
    BY <1>3
  <2> HIDE DEF n, T
  <2>2. IsFiniteSet(1 .. n) /\ Cardinality(1 .. n) = n
    BY <2>1, FS_Interval
  <2> QED BY <2>2 DEF n
<1>5. T \subseteq 1 .. Len(verdicts)
  BY <1>3
<1> HIDE DEF T
<1>6. Cardinality(T) \in Nat /\ Cardinality(T) <= Len(verdicts)
  BY <1>4, <1>5, FS_Subset, FS_CardinalityType
<1>7. Admitted = IF version # snapshot.version THEN 0 ELSE Cardinality(T)
  BY DEF Admitted, T
<1> QED BY <1>2, <1>3, <1>6, <1>7, LenProperties, <1>1

LEMMA TypeInit == ASSUME Init PROVE TypeInv
<1>1. <<>> \in Seq(Requests) /\ <<>> \in Seq(BOOLEAN)
  BY EmptySeq
<1> QED BY <1>1, CfgType DEF Init, TypeInv, TypeOK

LEMMA TypeStep == ASSUME TypeInv, [Next]_vars PROVE TypeInv'
<1> USE DEF TypeInv, TypeOK
<1>1. ASSUME NEW r \in Requests, Queue(r) PROVE TypeInv'
  <2> DEFINE job == <<r>>
  <2>1. job \in Seq(Requests) /\ Len(job) = 1
    OBVIOUS
  <2>2. line' = line \o job /\ pending' = pending \cup ToSet(job)
        /\ version' = version + Len(job) /\ UNCHANGED <<slots, cooling, tokens>>
    BY <1>1 DEF Queue, Submit
  <2> HIDE DEF job
  <2>3. pending' \subseteq Requests /\ version' \in Nat /\ line' \in Seq(Requests)
    BY <2>1, <2>2, MemberOfSeq, ConcatProperties
  <2>4. Checked' = Checked
    BY <1>1 DEF Queue, Checked
  <2> QED BY <1>1, <2>2, <2>3, <2>4 DEF Queue
<1>2. ASSUME NEW r \in Requests, Probe(r) PROVE TypeInv'
  BY <1>2, AppendProperties DEF Probe, bottleneck, Checked
<1>3. ASSUME NEW r \in Requests, Finish(r) PROVE TypeInv'
  BY <1>3 DEF Finish, entry, bottleneck, Checked
<1>4. ASSUME TakeBatch PROVE TypeInv'
  <2>1. Cardinality(pending) \in Nat
    BY SettingsAssumption, FS_Subset, FS_CardinalityType
  <2>2. <<>> \in Seq(BOOLEAN) /\ <<>> \in Seq(Requests) /\ Len(<<>>) = 0
    BY EmptySeq
  <2>3. Checked' >= 0
    BY <1>4, CfgType DEF TakeBatch, Checked
  <2> QED BY <1>4, <2>1, <2>2, <2>3 DEF TakeBatch, bottleneck
<1>5. ASSUME Answer PROVE TypeInv'
  <2>1. Check(snapshot.pending + Len(verdicts) + 1) \in BOOLEAN
    BY CfgType DEF Check
  <2>2. verdicts' \in Seq(BOOLEAN) /\ Len(verdicts') = Len(verdicts) + 1 /\ Len(verdicts) \in Nat
    BY <1>5, <2>1, AppendProperties, LenProperties DEF Answer
  <2>3. Checked \in Nat /\ Len(verdicts) < Checked
    BY <1>5, AdmittedPrefix DEF Answer
  <2>4. Checked' = Checked
    BY <1>5 DEF Answer, Checked
  <2>5. flush' = "checking" => Len(verdicts') <= Checked'
    BY <2>2, <2>3, <2>4
  <2> QED BY <1>5, <2>2, <2>5 DEF Answer, bottleneck
<1>6. ASSUME Decide PROVE TypeInv'
  <2> DEFINE jobs == SubSeq(batch, 1, Admitted)
  <2>1. jobs \in Seq(Requests) /\ Len(jobs) \in Nat /\ ToSet(jobs) \subseteq Requests
    BY <1>6, AdmittedPrefix, PrefixMembers, LenProperties, MemberOfSeq DEF Decide
  <2> HIDE DEF jobs
  <2>2. line' = line \o jobs /\ pending' = pending \cup ToSet(jobs)
        /\ version' = version + Len(jobs) /\ UNCHANGED <<slots, cooling, tokens>>
    BY <1>6 DEF Decide, Submit, jobs
  <2>4. line' \in Seq(Requests)
    BY <2>1, <2>2, ConcatProperties
  <2>3. <<>> \in Seq(BOOLEAN) /\ <<>> \in Seq(Requests)
    BY EmptySeq
  <2> QED BY <1>6, <2>1, <2>2, <2>3, <2>4 DEF Decide
<1>7. ASSUME Register PROVE TypeInv'
  <2>1. tokens - 1 \in Nat
    BY <1>7, CapacityType DEF Register
  <2>2. Head(line) \in Requests /\ Tail(line) \in Seq(Requests)
    BY <1>7, HeadTailProperties DEF Register
  <2>3. slots' \in Seq(Requests)
    BY <1>7, <2>2, AppendProperties DEF Register
  <2> QED BY <1>7, <2>1, <2>2, <2>3 DEF Register, Scheduled, Checked
<1>8. ASSUME Execute PROVE TypeInv'
  <2>1. Head(slots) \in Requests /\ Tail(slots) \in Seq(Requests)
    BY <1>8, HeadTailProperties DEF Execute
  <2> QED BY <1>8, <2>1 DEF Execute, entry, Checked
<1>9. ASSUME MinTimePasses PROVE TypeInv'
  BY <1>9 DEF MinTimePasses, entry, Checked
<1>10. ASSUME Refresh PROVE TypeInv'
  BY <1>10, CfgType DEF Refresh, entry, Checked
<1>11. CASE UNCHANGED vars
  BY <1>11 DEF vars, entry, bottleneck, Checked
<1> QED BY <1>1, <1>2, <1>3, <1>4, <1>5, <1>6, <1>7, <1>8, <1>9, <1>10, <1>11 DEF Next

\* Every variable keeps its type, and the flag of the flush says where the probes are
\* (limiter.ts, flushOverflow).
THEOREM TypeCorrect == Spec => []TypeOK
<1>1. TypeInv => TypeOK
  BY DEF TypeInv
<1> QED BY <1>1, TypeInit, TypeStep, PTL DEF Spec

(***************************************************************************)
(* Accounting.  Where a call is, its status says; and no queue has it      *)
(* twice.                                                                  *)
(***************************************************************************)
Accounted ==
  /\ \A r \in Requests : status[r] = "probing" <=> r \in ToSet(probes) \cup ToSet(batch)
  /\ \A r \in Requests : status[r] = "submitted" <=> r \in ToSet(line)
  /\ \A r \in Requests : status[r] = "registered" <=> r \in ToSet(slots)
  /\ ToSet(probes) \cap ToSet(batch) = {}
  /\ Distinct(probes) /\ Distinct(batch) /\ Distinct(line) /\ Distinct(slots)
  /\ pending = ToSet(line)

LEMMA AccountedInit == ASSUME Init PROVE Accounted
BY DEF Init, Accounted, ToSet, Distinct

LEMMA AccountedStep == ASSUME TypeInv, Accounted, [Next]_vars PROVE Accounted'
<1> USE DEF Accounted
<1> DEFINE Types == /\ status \in [Requests -> {"new", "probing", "submitted", "registered",
                                                "running", "done", "refused"}]
                    /\ probes \in Seq(Requests) /\ batch \in Seq(Requests) /\ line \in Seq(Requests)
                    /\ slots \in Seq(Requests)
<1>0. Types
  BY DEF TypeInv, TypeOK
<1>1. ASSUME NEW r \in Requests, Queue(r) PROVE Accounted'
  <2> DEFINE job == <<r>>
  <2>1. job \in Seq(Requests) /\ ToSet(job) = {r} /\ Distinct(job)
    BY DEF ToSet, Distinct
  <2>2. line' = line \o job /\ pending' = pending \cup ToSet(job) /\ UNCHANGED slots
    BY <1>1 DEF Queue, Submit
  <2> HIDE DEF job
  <2>3. r \notin ToSet(line) /\ r \notin ToSet(probes) \cup ToSet(batch) /\ r \notin ToSet(slots)
    BY <1>1 DEF Queue
  <2>4. ToSet(line') = ToSet(line) \cup {r} /\ Distinct(line')
    BY <1>0, <2>1, <2>2, <2>3, ConcatMembers
  <2>5. status' = [status EXCEPT ![r] = "submitted"] /\ UNCHANGED <<probes, batch>>
    BY <1>1 DEF Queue
  <2> QED BY <1>0, <2>1, <2>2, <2>3, <2>4, <2>5
<1>2. ASSUME NEW r \in Requests, Probe(r) PROVE Accounted'
  <2>1. r \notin ToSet(line) /\ r \notin ToSet(probes) \cup ToSet(batch) /\ r \notin ToSet(slots)
    BY <1>2 DEF Probe
  <2>2. ToSet(probes') = ToSet(probes) \cup {r} /\ Distinct(probes')
    BY <1>0, <1>2, <2>1, AppendMembers DEF Probe
  <2>3. status' = [status EXCEPT ![r] = "probing"] /\ UNCHANGED <<pending, line, batch, slots>>
    BY <1>2 DEF Probe, bottleneck
  <2> QED BY <1>0, <2>1, <2>2, <2>3
<1>3. ASSUME NEW r \in Requests, Finish(r) PROVE Accounted'
  BY <1>0, <1>3 DEF Finish, entry, bottleneck
<1>4. ASSUME TakeBatch PROVE Accounted'
  <2>1. batch = <<>> /\ batch' = probes /\ probes' = <<>> /\ UNCHANGED <<status, pending, line, slots>>
    BY <1>4 DEF TakeBatch, bottleneck, TypeInv, TypeOK
  <2>2. ToSet(<<>>) = {} /\ Distinct(<<>>)
    BY DEF ToSet, Distinct
  <2> QED BY <2>1, <2>2
<1>5. ASSUME Answer PROVE Accounted'
  BY <1>5 DEF Answer, bottleneck
<1>6. ASSUME Decide PROVE Accounted'
  <2> DEFINE jobs == SubSeq(batch, 1, Admitted)
  <2>1. jobs \in Seq(Requests) /\ ToSet(jobs) \subseteq ToSet(batch) /\ Distinct(jobs)
    BY <1>0, <1>6, AdmittedPrefix, PrefixMembers DEF Decide
  <2>2. ToSet(jobs) \cap ToSet(line) = {}
    BY <2>1, <1>0, MemberOfSeq
  <2>3. line' = line \o jobs /\ pending' = pending \cup ToSet(jobs)
        /\ batch' = <<>> /\ UNCHANGED <<probes, slots>>
    BY <1>6 DEF Decide, Submit
  <2>4. status' = [r \in Requests |-> IF r \notin ToSet(batch) THEN status[r]
                                      ELSE IF r \in ToSet(jobs) THEN "submitted" ELSE "refused"]
    BY <1>6 DEF Decide
  <2> HIDE DEF jobs
  <2>5. ToSet(line') = ToSet(line) \cup ToSet(jobs) /\ Distinct(line')
    BY <1>0, <2>1, <2>2, <2>3, ConcatMembers
  <2>6. ToSet(batch') = {} /\ Distinct(batch')
    BY <2>3 DEF ToSet, Distinct
  <2> QED BY <1>0, <2>1, <2>2, <2>3, <2>4, <2>5, <2>6
<1>7. ASSUME Register PROVE Accounted'
  <2>1. line # <<>> /\ line' = Tail(line) /\ pending' = pending \ {Head(line)}
    BY <1>7 DEF Register, Scheduled
  <2>2. Head(line) \in ToSet(line) /\ ToSet(line') = ToSet(line) \ {Head(line)} /\ Distinct(line')
    BY <1>0, <2>1, TailMembers
  <2>3. UNCHANGED <<probes, batch>>
        /\ status' = [status EXCEPT ![Head(line)] = IF cfg.spaced THEN "registered" ELSE "running"]
        /\ slots' = IF cfg.spaced THEN Append(slots, Head(line)) ELSE slots
    BY <1>7 DEF Register
  <2>4. Head(line) \in Requests /\ status[Head(line)] = "submitted"
    BY <1>0, <2>2, MemberOfSeq
  <2>5. /\ ToSet(slots') = IF cfg.spaced THEN ToSet(slots) \cup {Head(line)} ELSE ToSet(slots)
        /\ Distinct(slots')
    <3>1. CASE cfg.spaced
      BY <1>0, <2>3, <2>4, <3>1, AppendMembers
    <3>2. CASE ~cfg.spaced
      BY <2>3, <3>2
    <3> QED BY <3>1, <3>2
  <2>6. cfg.spaced \in BOOLEAN
    BY CfgType DEF TypeInv, TypeOK
  <2> QED BY <1>0, <2>1, <2>2, <2>3, <2>4, <2>5, <2>6
<1>8. ASSUME Execute PROVE Accounted'
  <2>1. Head(slots) \in ToSet(slots) /\ ToSet(slots') = ToSet(slots) \ {Head(slots)}
        /\ Distinct(slots')
    BY <1>0, <1>8, TailMembers DEF Execute
  <2>2. Head(slots) \in Requests /\ status[Head(slots)] = "registered"
    BY <1>0, <2>1, MemberOfSeq
  <2>3. status' = [status EXCEPT ![Head(slots)] = "running"]
        /\ UNCHANGED <<probes, batch, line, pending>>
    BY <1>8 DEF Execute, entry
  <2> QED BY <1>0, <2>1, <2>2, <2>3
<1>9. ASSUME MinTimePasses PROVE Accounted'
  BY <1>9 DEF MinTimePasses, entry
<1>10. ASSUME Refresh PROVE Accounted'
  BY <1>10 DEF Refresh, entry
<1>11. CASE UNCHANGED vars
  BY <1>11 DEF vars, entry, bottleneck
<1> QED BY <1>1, <1>2, <1>3, <1>4, <1>5, <1>6, <1>7, <1>8, <1>9, <1>10, <1>11 DEF Next

LEMMA AccountedExact == ASSUME TypeInv, Accounted PROVE CallsAreAccounted
BY DistinctCount DEF TypeInv, TypeOK, Accounted, CallsAreAccounted

\* A call is undecided in exactly one place or out of the entry, and pendingRegistration
\* holds just the jobs that Bottleneck has received and not registered (limiter.ts, submit,
\* flushOverflow and the scheduled listener).
THEOREM Accounting == Spec => []CallsAreAccounted
BY TypeInit, TypeStep, AccountedInit, AccountedStep, AccountedExact, PTL DEF Spec

(***************************************************************************)
(* Probes that are admitted.  While nothing was submitted or registered    *)
(* since the snapshot, a good verdict still holds: the capacity can only   *)
(* have grown, for a refresh does not lower the reservoir.                 *)
(***************************************************************************)
VerdictsHold ==
  flush = "checking" =>
    /\ snapshot.version <= version
    /\ version = snapshot.version =>
         /\ snapshot.pending = Len(line)
         /\ \A i \in DOMAIN verdicts : verdicts[i] => Check(snapshot.pending + i)

NoWaitInv ==
  /\ tokens <= cfg.refresh
  /\ \A r \in Requests : status[r] = "new" => mode[r] = "queue"
  /\ cfg.spaced => \A i \in 1 .. Len(line) : mode[line[i]] = "overflow" => i = 1
  /\ OverflowNeverWaits
  /\ VerdictsHold

NeverLowered == \A c \in Settings : c.reservoir <= c.refresh

LEMMA AdmittedHold ==
  ASSUME TypeInv, flush = "checking", NEW i \in 1 .. Admitted
  PROVE  i \in DOMAIN verdicts /\ verdicts[i]
<1> DEFINE T == {k \in DOMAIN verdicts : \A j \in 1 .. k : verdicts[j]}
<1>1. /\ Len(verdicts) \in Nat /\ DOMAIN verdicts = 1 .. Len(verdicts)
      /\ \A k \in DOMAIN verdicts : verdicts[k] \in BOOLEAN
  BY LenProperties, ElementOfSeq DEF TypeInv, TypeOK
<1>2. Admitted \in Nat /\ Admitted <= Len(verdicts) /\ Admitted > 0
  BY AdmittedPrefix, LenProperties DEF TypeInv, TypeOK
<1>3. i \in DOMAIN verdicts
  BY <1>1, <1>2
<1>4. Admitted = Cardinality(T)
  BY <1>2, AdmittedPrefix DEF Admitted
<1>5. ASSUME ~verdicts[i] PROVE FALSE
  <2>1. T \subseteq 1 .. i - 1
    BY <1>1, <1>3, <1>5
  <2> HIDE DEF T
  <2>2. i - 1 \in Nat
    BY <1>2
  <2>3. IsFiniteSet(1 .. i - 1) /\ Cardinality(1 .. i - 1) = i - 1
    <3> DEFINE n == i - 1
    <3> HIDE DEF n
    <3>1. n \in Nat
      BY <2>2 DEF n
    <3>2. IsFiniteSet(1 .. n) /\ Cardinality(1 .. n) = n
      BY <3>1, FS_Interval
    <3> QED BY <3>2 DEF n
  <2>4. Cardinality(T) <= i - 1
    BY <2>1, <2>3, FS_Subset
  <2> QED BY <1>2, <1>4, <2>4
<1> QED BY <1>1, <1>3, <1>5

LEMMA SameCapacity ==
  ASSUME Registered' = Registered, UNCHANGED <<cfg, tokens>>
  PROVE  Capacity' = Capacity
<1> HIDE DEF Registered
<1> QED BY DEF Capacity, Room

\* A step that takes nothing from the capacity.
LEMMA Steady ==
  ASSUME TypeInv, NoWaitInv, Capacity' \in Int, Capacity' >= Capacity, cooling' => cooling,
         tokens' <= cfg'.refresh, \A r \in Requests : status'[r] = "new" => status[r] = "new",
         UNCHANGED <<cfg, mode, line, slots, version, snapshot, verdicts, flush>>
  PROVE  NoWaitInv'
<1>1. Capacity \in Int /\ Len(line) \in Nat /\ snapshot.pending \in Nat
      /\ \A i \in DOMAIN verdicts : i \in Nat
  BY CapacityType, LenProperties DEF TypeInv, TypeOK
<1> HIDE DEF Capacity
<1>2. OverflowNeverWaits'
  BY <1>1 DEF NoWaitInv, OverflowNeverWaits
<1>3. ASSUME NEW i \in DOMAIN verdicts, Check(snapshot.pending + i)
      PROVE  Check(snapshot.pending + i)'
  BY <1>1, <1>3 DEF Check
<1>4. VerdictsHold'
  BY <1>3 DEF NoWaitInv, VerdictsHold
<1> QED BY <1>2, <1>4 DEF NoWaitInv

LEMMA NoWaitInit == ASSUME Init, NeverLowered PROVE NoWaitInv
BY DEF Init, NeverLowered, NoWaitInv, OverflowNeverWaits, VerdictsHold

LEMMA RegisterNoWait ==
  ASSUME TypeInv, Accounted, NoWaitInv, Register
  PROVE  NoWaitInv'
<1> DEFINE r == Head(line)
<1>1. /\ line \in Seq(Requests) /\ line # <<>> /\ slots \in Seq(Requests) /\ tokens \in Nat
      /\ version \in Nat /\ snapshot.version \in Nat
  BY DEF TypeInv, TypeOK, Register
<1>2. /\ r \in Requests /\ r = line[1] /\ Len(line) \in Nat \ {0}
      /\ line' = Tail(line) /\ Len(line') = Len(line) - 1
      /\ \A i \in 1 .. Len(line') : line'[i] = line[i + 1]
  BY <1>1, HeadTailProperties, LenProperties, EmptySeq DEF Register
<1>3. status[r] = "submitted"
  BY <1>1, <1>2, TailMembers DEF Accounted
<1> HIDE DEF r
<1>4. /\ status' = [status EXCEPT ![r] = IF cfg.spaced THEN "registered" ELSE "running"]
      /\ slots' = IF cfg.spaced THEN Append(slots, r) ELSE slots
      /\ tokens' = tokens - 1 /\ version' = version + 1
      /\ UNCHANGED <<cfg, mode, flush, snapshot, verdicts, cooling>>
  BY DEF Register, Scheduled, r
<1>5. Registered' = Registered \cup {r} /\ r \notin Registered
  BY <1>2, <1>3, <1>4 DEF Registered, TypeInv, TypeOK
<1>6. Capacity' = Capacity - 1 /\ Capacity \in Int
  <2> HIDE DEF Registered
  <2>1. Cardinality(Registered') = Cardinality(Registered) + 1 /\ Cardinality(Registered) \in Nat
    BY <1>5, RegisteredFinite, FS_AddElement
  <2>2. cfg.concurrent \in Nat
    BY CfgType DEF TypeInv, TypeOK
  <2>3. Room' = Room - 1 /\ Room \in Int /\ tokens' = tokens - 1
    BY <1>4, <2>1, <2>2 DEF Room
  <2> HIDE DEF Room
  <2> QED BY <1>1, <2>3 DEF Capacity
<1> HIDE DEF Capacity
<1>7. ASSUME NEW i \in 1 .. Len(line'), mode'[line'[i]] = "overflow"
      PROVE  /\ ~cfg.spaced /\ i <= Capacity' /\ slots' = <<>> /\ ~cooling'
  <2>1. i + 1 \in 1 .. Len(line) /\ mode[line[i + 1]] = "overflow" /\ i + 1 # 1
    BY <1>2, <1>4, <1>7
  <2>2. i + 1 <= Capacity /\ slots = <<>> /\ ~cooling /\ ~cfg.spaced
    BY <2>1 DEF NoWaitInv, OverflowNeverWaits
  <2> QED BY <1>4, <1>6, <1>7, <2>2, <1>2
<1>8. ASSUME NEW i \in 1 .. Len(slots'), mode'[slots'[i]] = "overflow"
      PROVE  i = 1 /\ ~cooling'
  <2>1. CASE i \in 1 .. Len(slots)
    <3>1. slots'[i] = slots[i]
      BY <1>1, <1>2, <1>4, <2>1, AppendProperties
    <3> QED BY <1>4, <1>8, <2>1, <3>1 DEF NoWaitInv, OverflowNeverWaits
  <2>2. CASE i \notin 1 .. Len(slots)
    <3>1. cfg.spaced /\ i = Len(slots) + 1 /\ slots'[i] = r
      BY <1>1, <1>2, <1>4, <2>2, <1>8, AppendProperties, LenProperties
    <3>2. 1 \in 1 .. Len(line) /\ mode[line[1]] = "overflow"
      BY <1>2, <1>4, <1>8, <3>1
    <3>3. slots = <<>> /\ ~cooling
      BY <3>2 DEF NoWaitInv, OverflowNeverWaits
    <3> QED BY <1>4, <3>1, <3>3
  <2> QED BY <2>1, <2>2
<1>9. OverflowNeverWaits'
  BY <1>7, <1>8 DEF OverflowNeverWaits
<1>10. VerdictsHold'
  BY <1>1, <1>4 DEF NoWaitInv, VerdictsHold
<1>11. tokens' <= cfg'.refresh
  BY <1>1, <1>4, CfgType DEF NoWaitInv, TypeInv, TypeOK
<1>12. \A q \in Requests : status'[q] = "new" => mode'[q] = "queue"
  BY <1>4 DEF NoWaitInv, TypeInv, TypeOK
<1> QED BY <1>4, <1>7, <1>9, <1>10, <1>11, <1>12 DEF NoWaitInv

LEMMA DecideNoWait ==
  ASSUME TypeInv, Accounted, NoWaitInv, Decide
  PROVE  NoWaitInv'
<1> DEFINE jobs == SubSeq(batch, 1, Admitted)
<1>1. /\ line \in Seq(Requests) /\ batch \in Seq(Requests) /\ Len(line) \in Nat
      /\ Admitted \in 0 .. Len(batch) /\ Len(batch) \in Nat /\ flush = "checking"
  BY AdmittedPrefix, LenProperties DEF TypeInv, TypeOK, Decide
<1>2. jobs \in Seq(Requests) /\ Len(jobs) = Admitted
  BY <1>1, PrefixMembers
<1>3. /\ line' = line \o jobs
      /\ UNCHANGED <<slots, cooling, tokens, cfg, mode>>
  BY DEF Decide, Submit
<1>4. \A q \in Requests : status'[q] = "new" => status[q] = "new"
  BY DEF Decide
<1>5. Registered' = Registered
  BY DEF Decide, Registered, Accounted
<1>6. flush' # "checking"
  BY DEF Decide
<1> HIDE DEF jobs
<1>7. /\ Len(line') = Len(line) + Admitted
      /\ \A i \in 1 .. Len(line) : line'[i] = line[i]
  BY <1>1, <1>2, <1>3, ConcatPlaces
<1>8. Capacity' = Capacity /\ Capacity \in Int
  BY <1>3, <1>5, SameCapacity, CapacityType
<1>9. ASSUME NEW k \in 1 .. Admitted
      PROVE  /\ Len(line) + k <= Capacity /\ slots = <<>> /\ ~cooling
             /\ cfg.spaced => Len(line) = 0 /\ k = 1
  <2>1. k \in DOMAIN verdicts /\ verdicts[k] /\ version = snapshot.version
    BY <1>1, AdmittedHold, AdmittedPrefix
  <2>2. snapshot.pending = Len(line) /\ Check(snapshot.pending + k)
    BY <1>1, <2>1 DEF NoWaitInv, VerdictsHold
  <2>3. Admitted <= Len(verdicts) /\ Len(verdicts) <= Checked /\ Len(verdicts) \in Nat
    BY <1>1, AdmittedPrefix, LenProperties DEF TypeInv, TypeOK
  <2>4. ASSUME cfg.spaced PROVE Len(line) = 0 /\ k = 1
    <3>1. Checked = IF Len(line) = 0 THEN 1 ELSE 0
      BY <2>2, <2>4 DEF Checked
    <3> QED BY <1>1, <2>3, <3>1
  <2> QED BY <2>2, <2>4 DEF Check
<1> HIDE DEF Capacity, Admitted
<1>10. ASSUME NEW i \in 1 .. Len(line'), mode'[line'[i]] = "overflow"
       PROVE  /\ i <= Capacity' /\ slots' = <<>> /\ ~cooling'
              /\ cfg'.spaced => i = 1
  <2>1. CASE i <= Len(line)
    <3>1. i \in 1 .. Len(line) /\ mode[line[i]] = "overflow"
      BY <1>1, <1>3, <1>7, <1>10, <2>1
    <3> QED BY <1>3, <1>8, <3>1 DEF NoWaitInv, OverflowNeverWaits
  <2>2. CASE i > Len(line)
    <3> DEFINE k == i - Len(line)
    <3>1. k \in 1 .. Admitted /\ i = Len(line) + k
      BY <1>1, <1>7, <2>2
    <3> HIDE DEF k
    <3>2. /\ Len(line) + k <= Capacity /\ slots = <<>> /\ ~cooling
          /\ cfg.spaced => Len(line) = 0 /\ k = 1
      BY <1>9, <3>1
    <3> QED BY <1>3, <1>8, <3>1, <3>2
  <2> QED BY <1>1, <1>7, <2>1, <2>2
<1>11. OverflowNeverWaits'
  BY <1>3, <1>10 DEF NoWaitInv, OverflowNeverWaits
<1>12. VerdictsHold'
  BY <1>6 DEF VerdictsHold
<1> QED BY <1>3, <1>4, <1>10, <1>11, <1>12 DEF NoWaitInv

LEMMA QueueNoWait ==
  ASSUME TypeInv, NoWaitInv, NEW r \in Requests, Queue(r)
  PROVE  NoWaitInv'
<1> DEFINE job == <<r>>
<1>1. /\ line \in Seq(Requests) /\ Len(line) \in Nat
      /\ status \in [Requests -> {"new", "probing", "submitted", "registered",
                                  "running", "done", "refused"}]
      /\ version \in Nat /\ snapshot.version \in Nat
  BY LenProperties DEF TypeInv, TypeOK
<1>2. job \in Seq(Requests) /\ Len(job) = 1 /\ job[1] = r
  OBVIOUS
<1>3. /\ line' = line \o job /\ version' = version + Len(job)
      /\ status[r] = "new" /\ status' = [status EXCEPT ![r] = "submitted"]
      /\ UNCHANGED <<slots, cooling, tokens, cfg, mode, flush, snapshot, verdicts>>
  BY DEF Queue, Submit
<1> HIDE DEF job
<1>4. /\ Len(line') = Len(line) + 1 /\ line'[Len(line) + 1] = r
      /\ \A i \in 1 .. Len(line) : line'[i] = line[i]
  <2>1. /\ Len(line') = Len(line) + Len(job)
        /\ \A i \in 1 .. Len(line) : line'[i] = line[i]
        /\ \A i \in 1 .. Len(job) : line'[Len(line) + i] = job[i]
    <3>1. line' = line \o job
      BY <1>3
    <3>2. line \in Seq(Requests) /\ job \in Seq(Requests)
      BY <1>1, <1>2
    <3> DEFINE st == line \o job
    <3>3. /\ Len(st) = Len(line) + Len(job)
          /\ \A i \in 1 .. Len(line) : st[i] = line[i]
          /\ \A i \in 1 .. Len(job) : st[Len(line) + i] = job[i]
      BY <3>2, ConcatPlaces
    <3> HIDE DEF st
    <3>4. line' = st
      BY <3>1 DEF st
    <3> QED BY <3>3, <3>4
  <2>2. 1 \in 1 .. Len(job)
    BY <1>2
  <2>3. line'[Len(line) + 1] = job[1]
    BY <2>1, <2>2
  <2> QED BY <1>2, <2>1, <2>3
<1>5. Registered' = Registered
  BY <1>1, <1>3 DEF Registered
<1>6. Capacity' = Capacity
  BY <1>3, <1>5, SameCapacity
<1>7. mode[r] # "overflow"
  BY <1>3 DEF NoWaitInv
<1> HIDE DEF Capacity
<1>8. ASSUME NEW i \in 1 .. Len(line'), mode'[line'[i]] = "overflow"
      PROVE  i \in 1 .. Len(line) /\ mode[line[i]] = "overflow"
  BY <1>1, <1>3, <1>4, <1>7, <1>8
<1>9. OverflowNeverWaits'
  BY <1>3, <1>6, <1>8 DEF NoWaitInv, OverflowNeverWaits
<1>10. VerdictsHold'
  BY <1>1, <1>2, <1>3 DEF NoWaitInv, VerdictsHold
<1>11. \A q \in Requests : status'[q] = "new" => mode'[q] = "queue"
  BY <1>1, <1>3 DEF NoWaitInv
<1> QED BY <1>3, <1>8, <1>9, <1>10, <1>11 DEF NoWaitInv

LEMMA ProbeNoWait ==
  ASSUME TypeInv, Accounted, NoWaitInv, NEW r \in Requests, Probe(r)
  PROVE  NoWaitInv'
<1>1. /\ line \in Seq(Requests) /\ slots \in Seq(Requests)
      /\ mode \in [Requests -> {"queue", "overflow"}]
      /\ status \in [Requests -> {"new", "probing", "submitted", "registered",
                                  "running", "done", "refused"}]
  BY DEF TypeInv, TypeOK
<1>2. /\ status[r] = "new" /\ status' = [status EXCEPT ![r] = "probing"]
      /\ mode' = [mode EXCEPT ![r] = "overflow"]
      /\ flush' = "checking" => flush = "checking"
      /\ UNCHANGED <<cfg, version, snapshot, verdicts, line, slots, cooling, tokens>>
  BY DEF Probe, bottleneck
<1>3. Registered' = Registered
  BY <1>1, <1>2 DEF Registered
<1>4. Capacity' = Capacity
  BY <1>2, <1>3, SameCapacity
<1>5. /\ \A i \in 1 .. Len(line) : line[i] \in Requests /\ line[i] # r
      /\ \A i \in 1 .. Len(slots) : slots[i] \in Requests /\ slots[i] # r
  <2>1. r \notin ToSet(line) /\ r \notin ToSet(slots)
    BY <1>2 DEF Accounted
  <2> QED BY <1>1, <2>1, ElementOfSeq, LenProperties DEF ToSet
<1>6. /\ \A i \in 1 .. Len(line) : mode'[line'[i]] = mode[line[i]]
      /\ \A i \in 1 .. Len(slots) : mode'[slots'[i]] = mode[slots[i]]
  BY <1>1, <1>2, <1>5
<1> HIDE DEF Capacity
<1>7. OverflowNeverWaits'
  BY <1>2, <1>4, <1>6 DEF NoWaitInv, OverflowNeverWaits
<1>8. VerdictsHold'
  BY <1>2, <1>4 DEF NoWaitInv, VerdictsHold, Check
<1>9. \A q \in Requests : status'[q] = "new" => mode'[q] = "queue"
  BY <1>1, <1>2 DEF NoWaitInv
<1> QED BY <1>2, <1>6, <1>7, <1>8, <1>9 DEF NoWaitInv

LEMMA FinishNoWait ==
  ASSUME TypeInv, NoWaitInv, NEW r \in Requests, Finish(r)
  PROVE  NoWaitInv'
<1>1. /\ status' = [status EXCEPT ![r] = "done"] /\ cfg.concurrent \in Nat /\ tokens \in Nat
      /\ UNCHANGED <<cfg, mode, flush, version, snapshot, verdicts, line, slots, cooling, tokens>>
  BY CfgType DEF Finish, entry, bottleneck, TypeInv, TypeOK
<1>2. Registered' \subseteq Registered /\ \A q \in Requests : status'[q] = "new" => status[q] = "new"
  BY <1>1 DEF Registered, TypeInv, TypeOK
<1>3. Room \in Int /\ Room' \in Int /\ Room' >= Room
  <2> HIDE DEF Registered
  <2>1. /\ IsFiniteSet(Registered') /\ Cardinality(Registered') \in Nat
        /\ Cardinality(Registered) \in Nat /\ Cardinality(Registered') <= Cardinality(Registered)
    BY <1>2, RegisteredFinite, FS_Subset, FS_CardinalityType
  <2> QED BY <1>1, <2>1 DEF Room
<1> HIDE DEF Room
<1>4. Capacity' \in Int /\ Capacity' >= Capacity
  BY <1>1, <1>3 DEF Capacity
<1>5. tokens' <= cfg'.refresh
  BY <1>1 DEF NoWaitInv
<1> HIDE DEF Capacity
<1> QED BY <1>1, <1>2, <1>4, <1>5, Steady

LEMMA ExecuteNoWait ==
  ASSUME TypeInv, Accounted, NoWaitInv, Execute
  PROVE  NoWaitInv'
<1>1. /\ slots \in Seq(Requests) /\ slots # <<>> /\ line \in Seq(Requests)
      /\ slots' = Tail(slots) /\ status' = [status EXCEPT ![Head(slots)] = "running"]
      /\ UNCHANGED <<cfg, mode, flush, version, snapshot, verdicts, line, tokens>>
  BY DEF Execute, entry, TypeInv, TypeOK
<1>2. /\ Len(slots) \in Nat /\ Len(slots') = Len(slots) - 1
      /\ \A i \in 1 .. Len(slots') : slots'[i] = slots[i + 1]
  BY <1>1, HeadTailProperties, LenProperties
<1>3. Head(slots) \in Requests /\ status[Head(slots)] = "registered"
  BY <1>1, TailMembers, MemberOfSeq DEF Accounted
<1>4. \A i \in 1 .. Len(line') : mode'[line'[i]] # "overflow"
  BY <1>1 DEF NoWaitInv, OverflowNeverWaits
<1>5. ASSUME NEW i \in 1 .. Len(slots'), mode'[slots'[i]] = "overflow" PROVE FALSE
  <2>1. i + 1 \in 1 .. Len(slots) /\ i + 1 # 1 /\ mode[slots[i + 1]] = "overflow"
    BY <1>1, <1>2, <1>5
  <2> QED BY <2>1 DEF NoWaitInv, OverflowNeverWaits
<1>6. OverflowNeverWaits'
  BY <1>4, <1>5 DEF OverflowNeverWaits
<1>7. flush = "checking" /\ version = snapshot.version => \A i \in DOMAIN verdicts : ~verdicts[i]
  BY <1>1 DEF NoWaitInv, VerdictsHold, Check
<1>8. VerdictsHold'
  BY <1>1, <1>7 DEF NoWaitInv, VerdictsHold
<1>9. \A q \in Requests : status'[q] = "new" => mode'[q] = "queue"
  BY <1>1, <1>3 DEF NoWaitInv, TypeInv, TypeOK
<1> QED BY <1>1, <1>4, <1>6, <1>8, <1>9 DEF NoWaitInv

LEMMA NoWaitStep ==
  ASSUME TypeInv, Accounted, NoWaitInv, [Next]_vars
  PROVE  NoWaitInv'
<1>1. ASSUME TakeBatch PROVE NoWaitInv'
  <2>1. /\ UNCHANGED <<cfg, status, mode, version, line, slots, cooling, tokens>>
        /\ verdicts' = <<>> /\ snapshot' = [pending |-> Cardinality(pending), version |-> version]
        /\ version \in Nat /\ line \in Seq(Requests)
    BY <1>1 DEF TakeBatch, bottleneck, TypeInv, TypeOK
  <2>2. Cardinality(pending) = Len(line)
    BY <2>1, DistinctCount DEF Accounted
  <2>3. VerdictsHold'
    BY <2>1, <2>2 DEF VerdictsHold
  <2>4. Registered' = Registered
    BY <2>1 DEF Registered
  <2>5. Capacity' = Capacity
    BY <2>1, <2>4, SameCapacity
  <2> HIDE DEF Capacity
  <2>6. OverflowNeverWaits'
    BY <2>1, <2>5 DEF NoWaitInv, OverflowNeverWaits
  <2> QED BY <2>1, <2>3, <2>6 DEF NoWaitInv
<1>2. ASSUME Answer PROVE NoWaitInv'
  <2> DEFINE v == Check(snapshot.pending + Len(verdicts) + 1)
  <2>1. /\ UNCHANGED <<cfg, status, mode, version, snapshot, flush, line, slots, cooling, tokens>>
        /\ verdicts' = Append(verdicts, v) /\ verdicts \in Seq(BOOLEAN)
        /\ snapshot.pending \in Nat /\ v \in BOOLEAN /\ Len(verdicts) \in Nat
    BY <1>2, CfgType, LenProperties DEF Answer, bottleneck, TypeInv, TypeOK, Check
  <2>2. Registered' = Registered
    BY <2>1 DEF Registered
  <2>3. Capacity' = Capacity
    BY <2>1, <2>2, SameCapacity
  <2> HIDE DEF Capacity, v
  <2>4. OverflowNeverWaits'
    BY <2>1, <2>3 DEF NoWaitInv, OverflowNeverWaits
  <2>5. /\ DOMAIN verdicts = 1 .. Len(verdicts) /\ DOMAIN verdicts' = 1 .. Len(verdicts) + 1
        /\ \A i \in DOMAIN verdicts : verdicts'[i] = verdicts[i]
        /\ verdicts'[Len(verdicts) + 1] = v
    BY <2>1, AppendProperties, LenProperties
  <2>6. ASSUME NEW i \in DOMAIN verdicts', verdicts'[i], flush = "checking",
               version = snapshot.version
        PROVE  Check(snapshot.pending + i)
    <3>1. CASE i \in DOMAIN verdicts
      BY <2>5, <2>6, <3>1 DEF NoWaitInv, VerdictsHold
    <3>2. CASE i = Len(verdicts) + 1
      <4>1. snapshot.pending + i = snapshot.pending + Len(verdicts) + 1
        BY <2>1, <3>2
      <4>2. v
        BY <2>5, <2>6, <3>2
      <4> QED BY <4>1, <4>2 DEF v
    <3> QED BY <2>1, <2>5, <3>1, <3>2
  <2>7. \A n : Check(n)' <=> Check(n)
    BY <2>1, <2>3 DEF Check
  <2>8. VerdictsHold'
    BY <2>1, <2>6, <2>7 DEF NoWaitInv, VerdictsHold
  <2> QED BY <2>1, <2>4, <2>8 DEF NoWaitInv
<1>3. ASSUME MinTimePasses PROVE NoWaitInv'
  <2>1. /\ UNCHANGED <<cfg, status, mode, flush, version, snapshot, verdicts, line, slots, tokens>>
        /\ ~cooling'
    BY <1>3 DEF MinTimePasses, entry
  <2>2. Registered' = Registered
    BY <2>1 DEF Registered
  <2>3. Capacity' = Capacity /\ Capacity \in Int
    BY <2>1, <2>2, SameCapacity, CapacityType
  <2>4. tokens' <= cfg'.refresh
    BY <2>1 DEF NoWaitInv
  <2> HIDE DEF Capacity
  <2> QED BY <2>1, <2>3, <2>4, Steady
<1>4. ASSUME Refresh PROVE NoWaitInv'
  <2>1. /\ UNCHANGED <<cfg, status, mode, flush, version, snapshot, verdicts, line, slots, cooling>>
        /\ tokens' = cfg.refresh /\ tokens \in Nat /\ cfg.refresh \in Nat /\ tokens <= cfg.refresh
    BY <1>4, CfgType DEF Refresh, entry, TypeInv, TypeOK, NoWaitInv
  <2>2. Registered' = Registered
    BY <2>1 DEF Registered
  <2>3. Room' = Room /\ Room \in Int
    BY <2>1, <2>2, CapacityType DEF Room
  <2> HIDE DEF Room
  <2>4. Capacity' \in Int /\ Capacity' >= Capacity
    BY <2>1, <2>3 DEF Capacity
  <2> HIDE DEF Capacity
  <2> QED BY <2>1, <2>4, Steady
<1>5. ASSUME UNCHANGED vars PROVE NoWaitInv'
  <2>1. UNCHANGED <<cfg, status, mode, flush, version, snapshot, verdicts, line, slots, cooling, tokens>>
    BY <1>5 DEF vars, entry, bottleneck
  <2>2. Registered' = Registered
    BY <2>1 DEF Registered
  <2>3. Capacity' = Capacity /\ Capacity \in Int
    BY <2>1, <2>2, SameCapacity, CapacityType
  <2>4. tokens' <= cfg'.refresh
    BY <2>1 DEF NoWaitInv
  <2> HIDE DEF Capacity
  <2> QED BY <2>1, <2>3, <2>4, Steady
<1> QED BY <1>1, <1>2, <1>3, <1>4, <1>5, QueueNoWait, ProbeNoWait, FinishNoWait, DecideNoWait,
           RegisterNoWait, ExecuteNoWait DEF Next

\* Where no refresh lowers the reservoir, a call admitted with "overflow" has capacity for
\* itself and for all jobs ahead of it from its admission until it runs, whatever other
\* bursts, queued calls, timers and endings come between the checks (limiter.ts,
\* flushOverflow: "cannot wait for each other and reuse later capacity").
THEOREM AdmittedNeverWait ==
  ASSUME NeverLowered
  PROVE  Spec => []OverflowNeverWaits
<1>1. Init => NoWaitInv
  BY NoWaitInit
<1>2. NoWaitInv => OverflowNeverWaits
  BY DEF NoWaitInv
<1> QED BY <1>1, <1>2, NoWaitStep, TypeInit, TypeStep, AccountedInit, AccountedStep, PTL DEF Spec

===============================================================================
