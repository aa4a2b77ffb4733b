------------------------ MODULE IndexedDbCache_proofs -------------------------
(***************************************************************************)
(* Proofs about IndexedDbCache: its types, that no connection is leaked or *)
(* kept dead, and that reads and sweeps remove only stale records of the   *)
(* adapter.                                                                *)
(***************************************************************************)
EXTENDS IndexedDbCache, FiniteSetTheorems, WellFoundedInduction, TLAPS

(***************************************************************************)
(* The inductive invariants.  The connections alone: an open request that  *)
(* is pending is the one the adapter waits for, so that it opens while no  *)
(* other connection is open.                                               *)
(***************************************************************************)
PendingIsOpening == \A d \in Conns : conn[d] = "pending" => opening = d

ConnInv ==
  /\ db \in Conns \cup {NoConn} /\ opening \in Conns \cup {NoConn}
  /\ conn \in [Conns -> {"closed", "pending", "blocked", "open", "lost"}]
  /\ pc \in [Calls -> {"idle", "opening", "transaction", "cleanup"}]
  /\ ConnectionsAreKept
  /\ PendingIsOpening

\* A call works on a key of the adapter.
JobInv ==
  /\ pc \in [Calls -> {"idle", "opening", "transaction", "cleanup"}]
  /\ job \in [Calls -> [op : {"none", "get", "set", "delete", "clear"},
                        key : Keys \cup {0}, deadline : Nat]]
  /\ now \in Nat
  /\ \A c \in Calls : job[c].key \in Owned \cup {0}
  /\ \A c \in Calls : job[c].op = "set" => job[c].key \in Owned

(***************************************************************************)
(* Calls that settle leave the others as they are.                         *)
(***************************************************************************)
LEMMA SettledWaiting ==
  ASSUME NEW C \in SUBSET Calls, Settle(C)
  PROVE  Waiting' = Waiting \ C
BY DEF Settle, Waiting

LEMMA InitConnInv == ASSUME Init PROVE ConnInv
BY IndexedDbAssumption DEF Init, ConnInv, ConnectionsAreKept, PendingIsOpening, Waiting

LEMMA ConnStep == ASSUME ConnInv, [Next]_vars PROVE ConnInv'
<1> USE DEF ConnInv
<1> DEFINE Types ==
      /\ db \in Conns \cup {NoConn} /\ opening \in Conns \cup {NoConn}
      /\ conn \in [Conns -> {"closed", "pending", "blocked", "open", "lost"}]
      /\ pc \in [Calls -> {"idle", "opening", "transaction", "cleanup"}]
<1>1. ASSUME UNCHANGED connections, NEW C \in SUBSET Calls, Settle(C)
      PROVE  ConnInv'
  <2>1. Types'
    BY <1>1 DEF connections, Settle
  <2>2. ConnectionsAreKept'
    BY <1>1, SettledWaiting DEF connections, ConnectionsAreKept
  <2>3. PendingIsOpening'
    BY <1>1 DEF connections, PendingIsOpening
  <2> QED BY <2>1, <2>2, <2>3
<1>2. ASSUME NEW c \in Calls, NEW j \in Jobs, CallConnected(c, j) PROVE ConnInv'
  <2>1. Types'
    BY <1>2 DEF CallConnected, connections, calls
  <2>2. Waiting' \subseteq Waiting
    BY <1>2 DEF CallConnected, calls, Waiting
  <2>3. ConnectionsAreKept' /\ PendingIsOpening'
    BY <1>2, <2>2 DEF CallConnected, connections, ConnectionsAreKept, PendingIsOpening
  <2> QED BY <2>1, <2>3
<1>3. ASSUME NEW c \in Calls, NEW j \in Jobs, CallUnconnected(c, j) PROVE ConnInv'
  <2>1. Types'
    BY <1>3 DEF CallUnconnected
  <2>2. opening' # NoConn /\ db' = NoConn /\ db = NoConn
    BY <1>3, IndexedDbAssumption DEF CallUnconnected
  <2>3. CASE opening # NoConn /\ UNCHANGED <<opening, conn>>
    BY <2>1, <2>2, <2>3 DEF ConnectionsAreKept, PendingIsOpening
  <2>4. CASE opening = NoConn
    <3>1. PICK d \in Conns :
            /\ conn[d] = "closed" /\ opening' = d
            /\ conn' = [conn EXCEPT ![d] = "pending"]
      BY <1>3, <2>4 DEF CallUnconnected
    <3> QED BY <2>1, <2>2, <2>4, <3>1, IndexedDbAssumption DEF ConnectionsAreKept, PendingIsOpening
  <2> QED BY <1>3, <2>1, <2>3, <2>4 DEF CallUnconnected
<1>4. ASSUME NEW d \in Conns, OpenSucceeds(d) PROVE ConnInv'
  <2>1. Types'
    BY <1>4 DEF OpenSucceeds
  <2>2. opening = d /\ db = NoConn
    BY <1>4, IndexedDbAssumption DEF OpenSucceeds, PendingIsOpening, ConnectionsAreKept
  <2>3. Waiting' = {}
    BY <1>4 DEF OpenSucceeds, Waiting
  <2>4. \A e \in Conns : e # d => conn'[e] = conn[e] /\ conn[e] \notin {"open", "pending"}
    BY <1>4, <2>2, IndexedDbAssumption DEF OpenSucceeds, PendingIsOpening, ConnectionsAreKept
  <2> QED BY <1>4, <2>1, <2>3, <2>4 DEF OpenSucceeds, ConnectionsAreKept, PendingIsOpening
<1>5. ASSUME NEW d \in Conns, NEW how \in {"closed", "blocked"}, OpenFails(d, how)
      PROVE  ConnInv'
  <2>1. Types'
    BY <1>5 DEF OpenFails, Settle
  <2>2. opening = d /\ db = NoConn
    BY <1>5, IndexedDbAssumption DEF OpenFails, PendingIsOpening, ConnectionsAreKept
  <2>3. Waiting' = {}
    BY <1>5, SettledWaiting DEF OpenFails, Waiting
  <2>4. \A e \in Conns : conn'[e] # "pending" /\ conn'[e] # "open"
    BY <1>5, <2>2, IndexedDbAssumption DEF OpenFails, PendingIsOpening, ConnectionsAreKept
  <2> QED BY <1>5, <2>1, <2>2, <2>3, <2>4 DEF OpenFails, ConnectionsAreKept, PendingIsOpening
<1>6. ASSUME NEW d \in Conns, OpenedLate(d) PROVE ConnInv'
  <2>1. Types' /\ Waiting' = Waiting
    BY <1>6 DEF OpenedLate, calls, Waiting
  <2> QED BY <1>6, <2>1 DEF OpenedLate, ConnectionsAreKept, PendingIsOpening
<1>7. ASSUME NEW d \in Conns, VersionChange(d) \/ CloseEvent(d) PROVE ConnInv'
  <2>1. Types' /\ Waiting' = Waiting
    BY <1>7 DEF VersionChange, CloseEvent, calls, Waiting
  <2>2. PendingIsOpening'
    BY <1>7 DEF VersionChange, CloseEvent, PendingIsOpening
  <2>3. ConnectionsAreKept'
    BY <1>7, <2>1, IndexedDbAssumption DEF VersionChange, CloseEvent, ConnectionsAreKept
  <2> QED BY <2>1, <2>2, <2>3
<1>8. ASSUME NEW d \in Conns, Lose(d) PROVE ConnInv'
  <2>1. Types'
    BY <1>8 DEF Lose, RolledBack, Settle
  <2>2. Waiting' \subseteq Waiting
    BY <1>8, SettledWaiting DEF Lose, RolledBack
  <2> QED BY <1>8, <2>1, <2>2 DEF Lose, RolledBack, ConnectionsAreKept, PendingIsOpening
<1>9. ASSUME NEW c \in Calls, Transaction(c) \/ Abort(c) PROVE ConnInv'
  <2>1. CASE Settle({c})
    BY <1>1, <1>9, <2>1 DEF Transaction, Read, Cleanup, Write, Delete, Clear, Abort, RolledBack
  <2>2. CASE pc' = [pc EXCEPT ![c] = "cleanup"] /\ pc[c] = "transaction" /\ UNCHANGED connections
    <3>1. Types' /\ Waiting' = Waiting
      BY <2>2 DEF connections, Waiting
    <3> QED BY <2>2, <3>1 DEF connections, ConnectionsAreKept, PendingIsOpening
  <2> QED
    BY <1>9, <2>1, <2>2
    DEF Transaction, Read, Running, Cleanup, Write, Delete, Clear, Abort, RolledBack
<1>10. CASE Reload
  <2>1. Types' /\ Waiting' = {}
    BY <1>10, SettledWaiting DEF Reload, Settle, Waiting
  <2> QED BY <1>10, <2>1 DEF Reload, ConnectionsAreKept, PendingIsOpening
<1>11. CASE Tick \/ UNCHANGED vars
  <2>1. Types' /\ Waiting' = Waiting
    BY <1>11 DEF Tick, vars, connections, calls, Waiting
  <2> QED BY <1>11, <2>1 DEF Tick, vars, connections, ConnectionsAreKept, PendingIsOpening
<1> QED
  BY <1>2, <1>3, <1>4, <1>5, <1>6, <1>7, <1>8, <1>9, <1>10, <1>11 DEF Next, Open

(***************************************************************************)
(* Jobs.                                                                   *)
(***************************************************************************)
LEMMA InitJobInv == ASSUME Init PROVE JobInv
BY DEF Init, JobInv, NoJob

LEMMA JobStep == ASSUME JobInv, [Next]_vars PROVE JobInv'
<1> USE DEF JobInv
<1>1. ASSUME NEW C \in SUBSET Calls, Settle(C), now' = now PROVE JobInv'
  BY <1>1 DEF Settle, NoJob
<1>2. ASSUME NEW j \in Jobs
      PROVE  /\ j \in [op : {"none", "get", "set", "delete", "clear"},
                       key : Keys \cup {0}, deadline : Nat]
             /\ j.key \in Owned \cup {0} /\ (j.op = "set" => j.key \in Owned)
  BY <1>2, IndexedDbAssumption DEF Jobs, Job
<1>3. ASSUME NEW c \in Calls, NEW j \in Jobs, CallConnected(c, j) \/ CallUnconnected(c, j)
      PROVE  JobInv'
  <2>1. /\ job' \in {job, [job EXCEPT ![c] = j]} /\ now' = now
        /\ pc' \in {pc, [pc EXCEPT ![c] = "transaction"], [pc EXCEPT ![c] = "opening"]}
    BY <1>3 DEF CallConnected, CallUnconnected, calls
  <2> QED BY <1>2, <2>1
<1>4. ASSUME NEW d \in Conns, Open(d) PROVE JobInv'
  <2>1. Waiting \in SUBSET Calls /\ {c \in Calls : on[c] = d} \in SUBSET Calls
    BY DEF Waiting
  <2>2. CASE UNCHANGED <<pc, job, now>>
    BY <2>2
  <2>3. CASE OpenSucceeds(d)
    BY <2>3 DEF OpenSucceeds
  <2> QED
    BY <1>1, <1>4, <2>1, <2>2, <2>3
    DEF Open, OpenFails, OpenedLate, VersionChange, Lose, RolledBack, CloseEvent, calls
<1>5. ASSUME NEW c \in Calls, Transaction(c) \/ Abort(c) PROVE JobInv'
  <2>1. now' = now
    BY <1>5 DEF Transaction, Read, Cleanup, Write, Delete, Clear, Abort, RolledBack
  <2>2. CASE Settle({c})
    BY <1>1, <2>1, <2>2
  <2>3. CASE pc' = [pc EXCEPT ![c] = "cleanup"] /\ UNCHANGED job
    BY <2>1, <2>3
  <2> QED
    BY <1>5, <2>2, <2>3 DEF Transaction, Read, Cleanup, Write, Delete, Clear, Abort, RolledBack
<1>6. CASE Reload
  BY <1>1, <1>6 DEF Reload
<1>7. CASE Tick \/ UNCHANGED vars
  BY <1>7 DEF Tick, vars, calls
<1> QED BY <1>3, <1>4, <1>5, <1>6, <1>7 DEF Next

(***************************************************************************)
(* Types of the data.  The checkpoint is a key because a full batch is a   *)
(* nonempty finite set of keys, which has a greatest one.                  *)
(***************************************************************************)
LEMMA NatHasLeast ==
  ASSUME NEW S \in SUBSET Nat, S # {}
  PROVE  \E x \in S : \A y \in S : x <= y
<1>1. PICK m \in S : \A n \in S : ~(<<n, m>> \in OpToRel(<, Nat))
  BY NatLessThanWellFounded, WFMin
<1>2. ASSUME NEW n \in S, n < m PROVE FALSE
  <2>1. <<n, m>> \in Nat \X Nat /\ <<n, m>>[1] < <<n, m>>[2]
    BY <1>2
  <2>2. <<n, m>> \in OpToRel(<, Nat)
    BY <2>1, Zenon DEF OpToRel
  <2> QED BY <1>1, <2>2, Zenon
<1>3. \A n \in S : n \in Nat /\ m \in Nat
  OBVIOUS
<1> QED BY <1>2, <1>3

\* A finite nonempty set of naturals has a greatest member: take a smallest subset
\* that has none, and one of its members away.
LEMMA FiniteHasGreatest ==
  ASSUME NEW S \in SUBSET Nat, IsFiniteSet(S), S # {}
  PROVE  \E x \in S : \A y \in S : y <= x
<1> DEFINE Greatest(T) == \E x \in T : \A y \in T : y <= x
           Bad == {T \in SUBSET S : T # {} /\ ~Greatest(T)}
           Sizes == {Cardinality(T) : T \in Bad}
<1>1. \A T \in SUBSET S : IsFiniteSet(T) /\ Cardinality(T) \in Nat
  BY FS_Subset, FS_CardinalityType
<1> SUFFICES ASSUME ~Greatest(S) PROVE FALSE
  OBVIOUS
<1>2. Sizes \in SUBSET Nat /\ Sizes # {}
  BY <1>1
<1>3. PICK n \in Sizes : \A m \in Sizes : n <= m
  BY <1>2, NatHasLeast
<1>4. PICK T \in Bad : n = Cardinality(T)
  OBVIOUS
<1>5. PICK x \in T : TRUE
  OBVIOUS
<1>6. T \ {x} \in SUBSET S /\ T \in SUBSET S
  OBVIOUS
<1>7. Cardinality(T \ {x}) \in Nat /\ Cardinality(T) \in Nat
      /\ Cardinality(T \ {x}) = Cardinality(T) - 1
  BY <1>1, <1>5, <1>6, FS_RemoveElement
<1>8. T \ {x} \notin Bad
  <2>1. ASSUME T \ {x} \in Bad PROVE Cardinality(T) <= Cardinality(T \ {x})
    <3>1. Cardinality(T \ {x}) \in Sizes
      BY <2>1
    <3> QED BY <1>3, <1>4, <3>1
  <2> QED BY <1>7, <2>1
<1>9. CASE T \ {x} = {}
  BY <1>5, <1>9
<1>10. CASE Greatest(T \ {x})
  BY <1>5, <1>10
<1> QED BY <1>6, <1>8, <1>9, <1>10

DataInv ==
  /\ on \in [Calls -> Conns \cup {NoConn}]
  /\ DOMAIN store \subseteq Keys /\ \A k \in DOMAIN store : store[k] \in Nat
  /\ checkpoint \in Keys \cup {0} /\ now \in 0 .. MaxTime
  /\ ~resumable => checkpoint = 0

LEMMA PutType ==
  ASSUME DataInv, JobInv, NEW c \in Calls, job[c].op = "set"
  PROVE  /\ DOMAIN Put(job[c]) \subseteq Keys
         /\ \A k \in DOMAIN Put(job[c]) : Put(job[c])[k] \in Nat
<1>1. job[c].key \in Keys /\ job[c].deadline \in Nat
  BY IndexedDbAssumption DEF JobInv
<1> QED BY <1>1 DEF Put, DataInv

LEMMA SweptUpToType ==
  ASSUME NEW s, DOMAIN s \subseteq Keys
  PROVE  SweptUpTo(s) \in Keys \cup {0} /\ (~resumable => SweptUpTo(s) = 0)
<1>1. CASE ~resumable \/ Cardinality(Inspected(s)) < Batch
  BY <1>1 DEF SweptUpTo
<1>2. CASE ~(~resumable \/ Cardinality(Inspected(s)) < Batch)
  <2>1. Inspected(s) \in SUBSET Keys
    BY DEF Inspected, Ahead
  <2>2. IsFiniteSet(Inspected(s)) /\ Inspected(s) \in SUBSET Nat
    BY <2>1, FS_Subset, IndexedDbAssumption
  <2>3. Inspected(s) # {}
    BY <1>2, FS_EmptySet, IndexedDbAssumption
  <2>4. \E k \in Inspected(s) : \A j \in Inspected(s) : j <= k
    BY <2>2, <2>3, FiniteHasGreatest
  <2> QED BY <1>2, <2>1, <2>4 DEF SweptUpTo
<1> QED BY <1>1, <1>2

\* Transactions that abort leave a checkpoint that is one.
LEMMA RolledBackType ==
  ASSUME DataInv, JobInv, NEW C \in SUBSET Calls, RolledBack(C)
  PROVE  /\ Settle(C)
         /\ checkpoint' \in Keys \cup {0} /\ (~resumable => checkpoint' = 0)
<1>1. CASE UNCHANGED checkpoint
  BY <1>1 DEF RolledBack, DataInv
<1>2. CASE \E c \in C : Running(c, "set") /\ checkpoint' = SweptUpTo(Put(job[c]))
  <2>1. PICK c \in C : job[c].op = "set" /\ checkpoint' = SweptUpTo(Put(job[c]))
    BY <1>2 DEF Running
  <2> QED BY <2>1, PutType, SweptUpToType DEF RolledBack
<1> QED BY <1>1, <1>2 DEF RolledBack

LEMMA InitDataInv == ASSUME Init PROVE DataInv
<1>1. PICK K \in SUBSET (Keys \ Owned) : store = [k \in K |-> 0]
  BY DEF Init
<1> QED BY <1>1, IndexedDbAssumption DEF Init, DataInv

LEMMA DataStep == ASSUME DataInv, ConnInv, JobInv, [Next]_vars PROVE DataInv'
<1> USE DEF DataInv
<1>1. ASSUME NEW C \in SUBSET Calls, Settle(C) PROVE on' \in [Calls -> Conns \cup {NoConn}]
  BY <1>1 DEF Settle
<1>2. ASSUME NEW c \in Calls, NEW j \in Jobs, CallConnected(c, j) \/ CallUnconnected(c, j)
      PROVE  DataInv'
  <2>1. on' \in {on, [on EXCEPT ![c] = db]} /\ db \in Conns \cup {NoConn}
        /\ UNCHANGED <<store, checkpoint, now, resumable>>
    BY <1>2 DEF CallConnected, CallUnconnected, calls, data, ConnInv
  <2> QED BY <2>1
<1>3. ASSUME NEW d \in Conns, Open(d) PROVE DataInv'
  <2>1. Waiting \in SUBSET Calls /\ {c \in Calls : on[c] = d} \in SUBSET Calls
    BY DEF Waiting
  <2>2. UNCHANGED <<store, now, resumable>>
    BY <1>3 DEF Open, OpenSucceeds, OpenFails, OpenedLate, VersionChange, Lose, CloseEvent, data
  <2>3. CASE OpenSucceeds(d)
    BY <2>2, <2>3 DEF OpenSucceeds, data
  <2>4. CASE Lose(d)
    BY <1>1, <2>1, <2>2, <2>4, RolledBackType DEF Lose
  <2>5. CASE OpenFails(d, "closed") \/ OpenFails(d, "blocked") \/ OpenedLate(d)
             \/ VersionChange(d) \/ CloseEvent(d)
    BY <1>1, <2>1, <2>2, <2>5 DEF OpenFails, OpenedLate, VersionChange, CloseEvent, calls, data
  <2> QED BY <1>3, <2>3, <2>4, <2>5 DEF Open
<1>4. ASSUME NEW c \in Calls, Transaction(c) \/ Abort(c) PROVE DataInv'
  <2>1. UNCHANGED <<now, resumable>> /\ (UNCHANGED on \/ Settle({c}))
    BY <1>4 DEF Transaction, Read, Cleanup, Write, Delete, Clear, Abort, RolledBack
  <2>2. on' \in [Calls -> Conns \cup {NoConn}]
    BY <1>1, <2>1
  <2>3. \A K : DOMAIN Without(store, K) \subseteq DOMAIN store
               /\ \A k \in DOMAIN Without(store, K) : Without(store, K)[k] = store[k]
    BY DEF Without
  <2>4. CASE Write(c)
    <3>1. job[c].op = "set" /\ store' = Swept(Put(job[c])) /\ checkpoint' = SweptUpTo(Put(job[c]))
      BY <2>4 DEF Write, Running
    <3>2. /\ DOMAIN Swept(Put(job[c])) \subseteq DOMAIN Put(job[c])
          /\ \A k \in DOMAIN Swept(Put(job[c])) : Swept(Put(job[c]))[k] = Put(job[c])[k]
      BY DEF Swept, Without
    <3> QED BY <2>1, <2>2, <3>1, <3>2, PutType, SweptUpToType
  <2>5. CASE Abort(c)
    <3>1. UNCHANGED store /\ RolledBack({c}) /\ {c} \in SUBSET Calls
      BY <2>5 DEF Abort
    <3> QED BY <2>1, <2>2, <3>1, RolledBackType
  <2>6. CASE Read(c) \/ Cleanup(c) \/ Delete(c) \/ Clear(c)
    <3>1. UNCHANGED checkpoint /\ (UNCHANGED store \/ \E K : store' = Without(store, K))
      BY <2>6 DEF Read, Cleanup, Delete, Clear, data
    <3> QED BY <2>1, <2>2, <2>3, <3>1
  <2> QED BY <1>4, <2>4, <2>5, <2>6 DEF Transaction
<1>5. CASE Reload
  BY <1>1, <1>5 DEF Reload
<1>6. CASE Tick
  BY <1>6, IndexedDbAssumption DEF Tick, calls, data
<1>7. CASE UNCHANGED vars
  BY <1>7 DEF vars, calls, data
<1> QED BY <1>2, <1>3, <1>4, <1>5, <1>6, <1>7 DEF Next

(***************************************************************************)
(* What the transactions do to the store.                                  *)
(***************************************************************************)
\* The keys of the adapter and the others.
LEMMA OthersAreNotOwned ==
  ASSUME JobInv, NEW c \in Calls
  PROVE  \A k \in Keys \ Owned : k # job[c].key
BY IndexedDbAssumption DEF JobInv

LEMMA WriteSweeps ==
  ASSUME JobInv, NEW c \in Calls, Write(c)
  PROVE  LiveRecordsStay /\ OthersStay
<1> DEFINE put  == Put(job[c])
           gone == {k \in Inspected(put) \cap Owned : Stale(put[k])}
<1>1. /\ store' = Without(put, gone)
      /\ pc[c] = "transaction" /\ pc'[c] = "idle" /\ job[c].op = "set"
      /\ job[c].key \in Owned
  BY DEF Write, Swept, Running, Settle, JobInv
<1>2. /\ DOMAIN put = DOMAIN store \cup {job[c].key}
      /\ \A k \in DOMAIN store : k # job[c].key => put[k] = store[k]
      /\ put[job[c].key] = job[c].deadline
  BY DEF Put
<1> HIDE DEF put
<1>3. /\ DOMAIN store' = DOMAIN put \ gone
      /\ \A k \in DOMAIN put \ gone : store'[k] = put[k]
  BY <1>1 DEF Without
<1>4. \A k \in gone : k \in Owned /\ Stale(put[k])
  OBVIOUS
<1> HIDE DEF gone
<1>5. LiveRecordsStay
  <2> SUFFICES ASSUME NEW k \in DOMAIN store \ DOMAIN store'
               PROVE  Stale(store[k]) \/ (k = job[c].key /\ Stale(job[c].deadline))
    BY <1>1 DEF LiveRecordsStay
  <2>1. k \in gone
    BY <1>2, <1>3
  <2> QED BY <1>2, <1>4, <2>1
<1>6. OthersStay
  <2> SUFFICES ASSUME NEW k \in Keys \ Owned
               PROVE  /\ k \in DOMAIN store <=> k \in DOMAIN store'
                      /\ k \in DOMAIN store => store'[k] = store[k]
    BY DEF OthersStay
  <2>1. k \notin gone /\ k # job[c].key
    BY <1>1, <1>4
  <2> QED BY <1>2, <1>3, <2>1
<1> QED BY <1>5, <1>6

LEMMA SweepStep == ASSUME JobInv, [Next]_vars PROVE [LiveRecordsStay /\ OthersStay]_vars
<1>1. ASSUME UNCHANGED store PROVE LiveRecordsStay /\ OthersStay
  BY <1>1 DEF LiveRecordsStay, OthersStay
<1>2. ASSUME NEW c \in Calls, Cleanup(c) PROVE LiveRecordsStay /\ OthersStay
  <2>1. store' = Without(store, {job[c].key} \cap StaleKeys)
    BY <1>2 DEF Cleanup
  <2>2. \A k \in {job[c].key} \cap StaleKeys : k = job[c].key /\ Stale(store[k])
    BY DEF StaleKeys
  <2>3. LiveRecordsStay
    BY <2>1, <2>2 DEF Without, LiveRecordsStay
  <2>4. OthersStay
    BY <2>1, <2>2, OthersAreNotOwned DEF Without, OthersStay
  <2> QED BY <2>3, <2>4
<1>3. ASSUME NEW c \in Calls, Delete(c) PROVE LiveRecordsStay /\ OthersStay
  <2>1. /\ store' = Without(store, {job[c].key})
        /\ pc[c] = "transaction" /\ pc'[c] = "idle" /\ job[c].op = "delete"
    BY <1>3 DEF Delete, Running, Settle
  <2>2. LiveRecordsStay
    BY <2>1 DEF Without, LiveRecordsStay
  <2>3. OthersStay
    BY <2>1, OthersAreNotOwned DEF Without, OthersStay
  <2> QED BY <2>2, <2>3
<1>4. ASSUME NEW c \in Calls, Clear(c) PROVE LiveRecordsStay /\ OthersStay
  <2>1. /\ store' = Without(store, Owned)
        /\ pc[c] = "transaction" /\ pc'[c] = "idle" /\ job[c].op = "clear"
    BY <1>4 DEF Clear, Running, Settle
  <2>2. LiveRecordsStay
    BY <2>1 DEF Without, LiveRecordsStay
  <2>3. OthersStay
    BY <2>1 DEF Without, OthersStay
  <2> QED BY <2>2, <2>3
<1>5. ASSUME NEW c \in Calls, Read(c) \/ Abort(c) PROVE UNCHANGED store
  BY <1>5 DEF Read, Abort, data
<1>6. ASSUME NEW c \in Calls, NEW j \in Jobs, CallConnected(c, j) \/ CallUnconnected(c, j)
      PROVE  UNCHANGED store
  BY <1>6 DEF CallConnected, CallUnconnected, data
<1>7. ASSUME NEW d \in Conns, Open(d) PROVE UNCHANGED store
  BY <1>7 DEF Open, OpenSucceeds, OpenFails, OpenedLate, VersionChange, Lose, CloseEvent, data
<1>8. ASSUME Reload \/ Tick PROVE UNCHANGED store
  BY <1>8 DEF Reload, Tick, data
<1> QED BY <1>1, <1>2, <1>3, <1>4, <1>5, <1>6, <1>7, <1>8, WriteSweeps DEF Next, Transaction

(***************************************************************************)
(* The theorems.                                                           *)
(***************************************************************************)
\* For any calls, keys, prefix and batch size, every variable keeps its type; above all,
\* the checkpoint is always a key of the store or none, and none where no sweep can resume.
THEOREM TypeCorrect == Spec => []TypeOK
<1>1. Init => ConnInv /\ JobInv /\ DataInv
  BY InitConnInv, InitJobInv, InitDataInv
<1>2. (ConnInv /\ JobInv /\ DataInv) /\ [Next]_vars => (ConnInv /\ JobInv /\ DataInv)'
  BY ConnStep, JobStep, DataStep
<1>3. ConnInv /\ JobInv /\ DataInv => TypeOK
  BY DEF ConnInv, JobInv, DataInv, TypeOK
<1> QED BY <1>1, <1>2, <1>3, PTL DEF Spec

\* With any number of calls and connections, no connection stays open without the
\* adapter, none that it keeps is dead beyond its close event, and no call waits
\* for a request that is over.
THEOREM ConnectionsKept == Spec => []ConnectionsAreKept
<1>1. Init => ConnInv
  BY InitConnInv
<1>2. ConnInv /\ [Next]_vars => ConnInv'
  BY ConnStep
<1>3. ConnInv => ConnectionsAreKept
  BY DEF ConnInv
<1> QED BY <1>1, <1>2, <1>3, PTL DEF Spec

\* For any keys, prefix, batch size and clock, reads and sweeps remove only stale
\* records of the adapter, and no call touches another owner's.
THEOREM SweepsAreSafe == Spec => OnlyStaleRecordsAreSwept
<1>1. Init => JobInv
  BY InitJobInv
<1>2. JobInv /\ [Next]_vars => JobInv'
  BY JobStep
<1>3. JobInv /\ [Next]_vars => [LiveRecordsStay /\ OthersStay]_vars
  BY SweepStep
<1> QED BY <1>1, <1>2, <1>3, PTL DEF Spec, OnlyStaleRecordsAreSwept
==============================================================================
