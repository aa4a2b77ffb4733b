--------------------------- MODULE IndexedDbCache ----------------------------
(***************************************************************************)
(* IndexedDbCacheAdapter: one lazily opened connection shared by all calls *)
(* and lost to upgrades, closes and page reloads; transactions on one      *)
(* store that other code writes too; stale records that are deleted when a *)
(* get() meets them, or a batch at a time by the set()s, which resume from *)
(* a shared checkpoint.                                                    *)
(*                                                                         *)
(* A transaction is one step, taken in any order: IndexedDB runs those     *)
(* that write one store one after the other.  Its open requests for one    *)
(* database are served in order too.  Values are abstracted: a record is   *)
(* its deadline, and deadline 0 stands for a malformed one.                *)
(***************************************************************************)
EXTENDS Integers, FiniteSets

CONSTANTS
  Calls,
  Conns,         \* the open requests and their connections
  NoConn,        \* undefined
  Keys,          \* the keys of the store, in their order
  Owned,         \* those that begin with keyPrefix
  Batch,         \* SWEEP_BATCH_SIZE
  Ttls, MaxTime  \* bounds: the ttls given to set(), and the clock

ASSUME IndexedDbAssumption ==
  /\ Keys \subseteq Nat \ {0} /\ IsFiniteSet(Keys) /\ Owned \subseteq Keys
  /\ Batch \in Nat \ {0} /\ Ttls \subseteq Nat /\ MaxTime \in Nat
  /\ NoConn \notin Conns

VARIABLES
  db, opening,  \* the connection kept, and the one being opened
  conn,         \* where each connection stands
  pc, job, on,  \* per call: where it is, what it does, on which connection
  store,        \* the deadlines of the records, by key
  checkpoint,   \* sweepAfterKey, 0 for none
  now,
  resumable     \* the environment has IDBKeyRange

vars == <<db, opening, conn, pc, job, on, store, checkpoint, now, resumable>>
connections == <<db, opening, conn>>
calls == <<pc, job, on>>
data == <<store, checkpoint>>

NoJob == [op |-> "none", key |-> 0, deadline |-> 0]
Job(o, k, e) == [op |-> o, key |-> k, deadline |-> e]
Jobs ==
  {Job("clear", 0, 0)} \cup {Job(o, k, 0) : o \in {"get", "delete"}, k \in Owned}
    \cup {Job("set", k, now + t) : k \in Owned, t \in Ttls}

Stale(e) == now >= e
StaleKeys == {k \in DOMAIN store : Stale(store[k])}
Without(s, K) == [k \in DOMAIN s \ K |-> s[k]]

------------------------------------------------------------------------------
\* The records a sweep of s inspects: the first Batch after the checkpoint, or,
\* where it cannot resume, all of them.
Ahead(s) == {k \in DOMAIN s : ~resumable \/ k > checkpoint}
Inspected(s) ==
  {k \in Ahead(s) : ~resumable \/ Cardinality({j \in Ahead(s) : j <= k}) <= Batch}

\* Mutant: the checkpoint is kept where no sweep can resume from it.
SweptUpTo_Always(s) ==
  IF Cardinality(Inspected(s)) < Batch THEN 0
  ELSE CHOOSE k \in Inspected(s) : \A j \in Inspected(s) : j <= k

\* Mutant: every sweep starts at the first record.
SweptUpTo_Restarts(s) == 0

\* Where the sweep stopped, 0 once it has met the end of the store.
SweptUpTo(s) ==
  IF ~resumable \/ Cardinality(Inspected(s)) < Batch THEN 0
  ELSE CHOOSE k \in Inspected(s) : \A j \in Inspected(s) : j <= k

\* sweepExpiredRecords deletes the stale ones among them that carry the prefix.
Swept(s) == Without(s, {k \in Inspected(s) \cap Owned : Stale(s[k])})

Put(j) ==
  [k \in DOMAIN store \cup {j.key} |-> IF k = j.key THEN j.deadline ELSE store[k]]

------------------------------------------------------------------------------
Init ==
  /\ db = NoConn /\ opening = NoConn /\ conn = [d \in Conns |-> "closed"]
  /\ pc = [c \in Calls |-> "idle"] /\ job = [c \in Calls |-> NoJob]
  /\ on = [c \in Calls |-> NoConn]
  /\ store \in {[k \in K |-> 0] : K \in SUBSET (Keys \ Owned)}
  /\ checkpoint = 0 /\ now = 0 /\ resumable \in BOOLEAN

\* Calls C resolve or reject.
Settle(C) ==
  /\ pc' = [c \in Calls |-> IF c \in C THEN "idle" ELSE pc[c]]
  /\ job' = [c \in Calls |-> IF c \in C THEN NoJob ELSE job[c]]
  /\ on' = [c \in Calls |-> IF c \in C THEN NoConn ELSE on[c]]

Waiting == {c \in Calls : pc[c] = "opening"}
Running(c, o) == pc[c] = "transaction" /\ job[c].op = o

\* The transactions of calls C abort.  No record changes, but the sweep of a set() moves
\* the checkpoint before its transaction commits, and nothing moves it back.
RolledBack(C) ==
  /\ \/ UNCHANGED checkpoint
     \/ \E c \in C : Running(c, "set") /\ checkpoint' = SweptUpTo(Put(job[c]))
  /\ Settle(C)

\* getDb with a connection: the transaction begins, or throws when the connection
\* was closed under it.
CallConnected(c, j) ==
  /\ pc[c] = "idle" /\ db # NoConn
  /\ IF conn[db] = "open"
       THEN /\ pc' = [pc EXCEPT ![c] = "transaction"]
            /\ job' = [job EXCEPT ![c] = j] /\ on' = [on EXCEPT ![c] = db]
       ELSE UNCHANGED calls
  /\ UNCHANGED <<connections, data, now, resumable>>

\* getDb without one: the pending request is joined, or one is made.
CallUnconnected(c, j) ==
  /\ pc[c] = "idle" /\ db = NoConn
  /\ pc' = [pc EXCEPT ![c] = "opening"] /\ job' = [job EXCEPT ![c] = j]
  /\ \/ opening # NoConn /\ UNCHANGED <<opening, conn>>
     \/ /\ opening = NoConn
        /\ \E d \in Conns :
             /\ conn[d] = "closed" /\ \A b \in Calls : on[b] # d
             /\ opening' = d /\ conn' = [conn EXCEPT ![d] = "pending"]
  /\ UNCHANGED <<db, on, data, now, resumable>>

NoneBefore(d) == \A e \in Conns : conn[e] # "blocked"

\* onsuccess: the connection is kept and watched, and every call that waited for
\* it goes on.
OpenSucceeds(d) ==
  /\ conn[d] = "pending" /\ NoneBefore(d)
  /\ conn' = [conn EXCEPT ![d] = "open"] /\ db' = d /\ opening' = NoConn
  /\ pc' = [c \in Calls |-> IF c \in Waiting THEN "transaction" ELSE pc[c]]
  /\ on' = [c \in Calls |-> IF c \in Waiting THEN d ELSE on[c]]
  /\ UNCHANGED <<job, data, now, resumable>>

\* onerror or onblocked: the calls that waited reject.  A blocked request stays.
OpenFails(d, how) ==
  /\ conn[d] = "pending" /\ NoneBefore(d)
  /\ conn' = [conn EXCEPT ![d] = how] /\ opening' = NoConn
  /\ Settle(Waiting)
  /\ UNCHANGED <<db, data, now, resumable>>

\* Mutant: the connection that comes too late is left open.
OpenedLate_Leaks(d) ==
  /\ conn[d] = "blocked"
  /\ conn' = [conn EXCEPT ![d] = "open"]
  /\ UNCHANGED <<db, opening, calls, data, now, resumable>>

\* A request that was blocked succeeds after all, and its connection is closed
\* (or it fails).
OpenedLate(d) ==
  /\ conn[d] = "blocked"
  /\ conn' = [conn EXCEPT ![d] = "closed"]
  /\ UNCHANGED <<db, opening, calls, data, now, resumable>>

\* onVersionChange: the connection is forgotten and closed; what has begun on it
\* finishes.
VersionChange(d) ==
  /\ conn[d] = "open"
  /\ conn' = [conn EXCEPT ![d] = "closed"] /\ db' = IF db = d THEN NoConn ELSE db
  /\ UNCHANGED <<opening, calls, data, now, resumable>>

\* The browser closes the connection and aborts its transactions; the close event
\* comes later.
Lose(d) ==
  /\ conn[d] = "open"
  /\ conn' = [conn EXCEPT ![d] = "lost"]
  /\ RolledBack({c \in Calls : on[c] = d})
  /\ UNCHANGED <<db, opening, store, now, resumable>>

\* onclose: clearIfCurrent.
CloseEvent(d) ==
  /\ conn[d] = "lost"
  /\ conn' = [conn EXCEPT ![d] = "closed"] /\ db' = IF db = d THEN NoConn ELSE db
  /\ UNCHANGED <<opening, calls, data, now, resumable>>

------------------------------------------------------------------------------
\* get(): the read.  A stale record is a miss, whose cleanup begins if the
\* connection still takes transactions.
Read(c) ==
  /\ Running(c, "get")
  /\ IF job[c].key \in StaleKeys /\ conn[on[c]] = "open"
       THEN pc' = [pc EXCEPT ![c] = "cleanup"] /\ UNCHANGED <<job, on>>
       ELSE Settle({c})
  /\ UNCHANGED <<connections, data, now, resumable>>

\* Mutant: the record that was read as stale is deleted, whatever it is now.
Cleanup_Unconditional(c) ==
  /\ pc[c] = "cleanup"
  /\ store' = Without(store, {job[c].key})
  /\ Settle({c})
  /\ UNCHANGED <<connections, checkpoint, now, resumable>>

\* deleteIfStillStale: it is read again where no other writer can come between.
Cleanup(c) ==
  /\ pc[c] = "cleanup"
  /\ store' = Without(store, {job[c].key} \cap StaleKeys)
  /\ Settle({c})
  /\ UNCHANGED <<connections, checkpoint, now, resumable>>

\* set(): the put, and a sweep that starts when it has run.
Write(c) ==
  /\ Running(c, "set")
  /\ store' = Swept(Put(job[c])) /\ checkpoint' = SweptUpTo(Put(job[c]))
  /\ Settle({c})
  /\ UNCHANGED <<connections, now, resumable>>

Delete(c) ==
  /\ Running(c, "delete")
  /\ store' = Without(store, {job[c].key})
  /\ Settle({c})
  /\ UNCHANGED <<connections, checkpoint, now, resumable>>

\* clear(): the records that carry the prefix.
Clear(c) ==
  /\ Running(c, "clear")
  /\ store' = Without(store, Owned)
  /\ Settle({c})
  /\ UNCHANGED <<connections, checkpoint, now, resumable>>

\* A transaction aborts.  A get() whose cleanup aborts is a miss like any other.
Abort(c) ==
  /\ pc[c] \in {"transaction", "cleanup"}
  /\ RolledBack({c})
  /\ UNCHANGED <<connections, store, now, resumable>>

\* The page is loaded again: only the store is left.
Reload ==
  /\ db' = NoConn /\ opening' = NoConn /\ conn' = [d \in Conns |-> "closed"]
  /\ Settle(Calls) /\ checkpoint' = 0
  /\ UNCHANGED <<store, now, resumable>>

Tick == now < MaxTime /\ now' = now + 1
        /\ UNCHANGED <<connections, calls, data, resumable>>

Open(d) ==
  \/ OpenSucceeds(d) \/ OpenFails(d, "closed") \/ OpenFails(d, "blocked")
  \/ OpenedLate(d) \/ VersionChange(d) \/ Lose(d) \/ CloseEvent(d)

Transaction(c) == Read(c) \/ Cleanup(c) \/ Write(c) \/ Delete(c) \/ Clear(c)

Next ==
  \/ \E c \in Calls, j \in Jobs : CallConnected(c, j) \/ CallUnconnected(c, j)
  \/ \E d \in Conns : Open(d)
  \/ \E c \in Calls : Transaction(c) \/ Abort(c)
  \/ Reload \/ Tick

Spec == Init /\ [][Next]_vars

------------------------------------------------------------------------------
(***************************************************************************)
(* Properties.                                                             *)
(***************************************************************************)
\* Every variable keeps its type, and a checkpoint is kept only where a sweep can
\* resume from it.
TypeOK ==
  /\ db \in Conns \cup {NoConn} /\ opening \in Conns \cup {NoConn}
  /\ conn \in [Conns -> {"closed", "pending", "blocked", "open", "lost"}]
  /\ pc \in [Calls -> {"idle", "opening", "transaction", "cleanup"}]
  /\ job \in [Calls -> [op : {"none", "get", "set", "delete", "clear"},
                        key : Keys \cup {0}, deadline : Nat]]
  /\ on \in [Calls -> Conns \cup {NoConn}]
  /\ DOMAIN store \subseteq Keys /\ \A k \in DOMAIN store : store[k] \in Nat
  /\ checkpoint \in Keys \cup {0} /\ now \in 0 .. MaxTime
  /\ ~resumable => checkpoint = 0

\* "Release an internally owned connection on upgrades or unexpected closes": no
\* connection is open that the adapter does not hold, even one that opened after
\* its request had been given up; one that it holds is usable or about to be
\* dropped; and a call waits only for a request that is under way.
ConnectionsAreKept ==
  /\ \A d \in Conns : conn[d] = "open" => db = d
  /\ db # NoConn => conn[db] \in {"open", "lost"} /\ opening = NoConn
  /\ Waiting # {} => opening # NoConn
  /\ opening # NoConn => conn[opening] = "pending"

\* A record that is not stale goes only when a delete() of it, a set() that puts a
\* stale one in its place, or a clear() takes place.
LiveRecordsStay ==
  \A k \in DOMAIN store \ DOMAIN store' :
    \/ Stale(store[k])
    \/ \E c \in Calls :
         /\ pc[c] = "transaction" /\ pc'[c] = "idle"
         /\ \/ job[c].op = "clear"
            \/ job[c].op = "delete" /\ job[c].key = k
            \/ job[c].op = "set" /\ job[c].key = k /\ Stale(job[c].deadline)

\* A record without the prefix is never touched.
OthersStay ==
  \A k \in Keys \ Owned :
    /\ k \in DOMAIN store <=> k \in DOMAIN store'
    /\ k \in DOMAIN store => store'[k] = store[k]

\* "a separate unconditional delete could erase a newer concurrent put": neither a
\* get() nor a sweep removes a record that is not stale, and no call removes or
\* changes one of another owner.
OnlyStaleRecordsAreSwept == [][LiveRecordsStay /\ OthersStay]_vars

\* "leading live records cannot starve stale records later in the store": while
\* set()s go on committing, and from some time on no transaction aborts, no connection
\* is lost and the page stays, every stale record with the prefix is deleted or replaced.
StaleRecordsAreReclaimed ==
  ( /\ []<><<\E c \in Calls : Write(c)>>_vars
    /\ <>[][ /\ ~Reload /\ \A c \in Calls : ~Abort(c)
             /\ \A d \in Conns : ~Lose(d) ]_vars )
  => \A k \in Owned : k \in StaleKeys ~> k \notin StaleKeys
==============================================================================
