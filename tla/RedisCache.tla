----------------------------- MODULE RedisCache -----------------------------
(***************************************************************************)
(* The mutations that RedisCacheAdapter instances make through one Redis   *)
(* client: SET with its lease, and DEL.  With a raw command API a mutation *)
(* is one command (SET PX).  A friendly-only client needs SET and then     *)
(* pExpire or expire, so mutations of a key are chained on its tail in     *)
(* friendlyMutationTails, which all adapters of the client share.  clear() *)
(* of one adapter pages through SCAN and deletes, beside all of them.      *)
(*                                                                         *)
(* The server is the environment: a command takes effect and is answered,  *)
(* or fails before or after it took effect, and a key is evicted once its  *)
(* lease is over.  Time is counted in ticks, Second of them to a second.   *)
(***************************************************************************)
EXTENDS Naturals, SequencesExt, FiniteSets

CONSTANTS
  Mutations,  \* the calls of set() and delete()
  Keys,       \* the physical keys, k(key)
  Prefixed,   \* those with the prefix of the adapter that is cleared
  Ttls,       \* the positive ttls, in ticks
  Second,     \* ticks in a second, the precision of expire()
  Forever,    \* no lease
  MaxTime     \* the bound of the clock

ASSUME RedisAssumption ==
  /\ Ttls \subseteq Nat \ {0} /\ Second \in Nat \ {0} /\ MaxTime \in Nat
  /\ Forever \notin Nat /\ Prefixed \subseteq Keys

VARIABLES
  api,       \* what the client exposes
  call,      \* call[m]: what m was asked to do
  pc,        \* pc[m]: where m is
  prev,      \* prev[m]: the mutations whose tail m waits for (at most one)
  tails,     \* friendlyMutationTails: tails[k] holds the last mutation, if any
  cleaned,   \* the mutations that have run their finally block
  order,     \* order[k]: the chained mutations of k, as they were called
  db,        \* the records in Redis
  lease,     \* lease[k]: when Redis evicts k
  now,
  clear,     \* clear(): where it is, the keys of the page it deletes, and whether
             \* the cursor is back at zero
  old,       \* the keys whose record was there when it began, and still is
  unseen     \* those of them that SCAN has not returned yet

vars == <<api, call, pc, prev, tails, cleaned, order, db, lease, now, clear, old, unseen>>
clearing == <<clear, old, unseen>>
queue == <<prev, tails, cleaned, order>>
redis == <<db, lease>>

NoCall   == [kind |-> "none"]
NoRecord == [kind |-> "absent"]
Settled  == {"ok", "failed"}
Raw      == api = "raw"

\* set() with a positive ttl: the deadline is fixed when it is called.
Insertion(k, ttl, useExpire) ==
  [kind |-> "set", key |-> k, ttl |-> ttl, deadline |-> now + ttl,
   useExpire |-> useExpire]

\* Mutant: expire() is given milliseconds.
LeaseFor_NotConverted(ttl) == IF api = "expire" THEN ttl * Second ELSE ttl

\* Mutant: the seconds are rounded down.
LeaseFor_RoundsDown(ttl) ==
  IF api = "expire" THEN (ttl \div Second) * Second ELSE ttl

\* How long the lease is: expire() only knows seconds, rounded up.
LeaseFor(ttl) ==
  IF api = "expire" THEN ((ttl + Second - 1) \div Second) * Second ELSE ttl

------------------------------------------------------------------------------
Init ==
  /\ api \in {"raw", "pExpire", "expire"}
  /\ call = [m \in Mutations |-> NoCall] /\ pc = [m \in Mutations |-> "new"]
  /\ prev = [m \in Mutations |-> {}] /\ tails = [k \in Keys |-> {}]
  /\ cleaned = {} /\ order = [k \in Keys |-> <<>>]
  /\ db = [k \in Keys |-> NoRecord] /\ lease = [k \in Keys |-> Forever]
  /\ now = 0
  /\ clear = [stage |-> "none", page |-> {}, last |-> FALSE] /\ old = {} /\ unseen = {}

\* set() or delete(): a raw command goes out at once; a friendly mutation is
\* chained on the tail of its key and becomes the tail.
Call(m, c) ==
  /\ pc[m] = "new"
  /\ call' = [call EXCEPT ![m] = c]
  /\ IF Raw
     THEN pc' = [pc EXCEPT ![m] = "send"] /\ UNCHANGED <<prev, tails, order>>
     ELSE /\ pc' = [pc EXCEPT ![m] = "waiting"]
          /\ order' = [order EXCEPT ![c.key] = Append(@, m)]
          /\ prev' = [prev EXCEPT ![m] = tails[c.key]]
          /\ tails' = [tails EXCEPT ![c.key] = {m}]
  /\ UNCHANGED <<api, cleaned, redis, now, clearing>>

Set(m) ==
  \E k \in Keys, ttl \in Ttls, useExpire \in BOOLEAN :
    Call(m, Insertion(k, ttl, useExpire))

\* delete(), and set() with a ttl of zero.
Delete(m) == \E k \in Keys : Call(m, [kind |-> "delete", key |-> k])

\* previous.then(operation): the tail before it fulfils, however that one ended.
Begin(m) ==
  /\ pc[m] = "waiting"
  /\ \A p \in prev[m] : pc[p] \in Settled
  /\ pc' = [pc EXCEPT ![m] = "send"]
  /\ UNCHANGED <<api, call, queue, redis, now, clearing>>

\* Where a failed command leaves its call.  With a raw API, DEL and a SET without
\* expiry go out as friendly commands if the client has them, and then once more.
AfterFailure(m) ==
  IF Raw /\ pc[m] = "send" /\ (call[m].kind = "delete" \/ ~call[m].useExpire)
  THEN {"resend", "failed"} ELSE {"failed"}

\* A command that is answered, or whose answer is lost although it took effect.
Reply(m, next) ==
  \E end \in {next} \cup AfterFailure(m) : pc' = [pc EXCEPT ![m] = end]

\* Redis executes the SET (a raw one with its PX) or the DEL; a friendly SET
\* goes on with applyHighLevelExpiry.
Execute(m) ==
  LET c == call[m] IN
  /\ pc[m] \in {"send", "resend"}
  /\ Reply(m, IF ~Raw /\ c.kind = "set" /\ c.useExpire THEN "expire" ELSE "ok")
  /\ db' = [db EXCEPT ![c.key] =
             IF c.kind = "set" THEN [kind |-> "record", by |-> m, deadline |-> c.deadline]
             ELSE NoRecord]
  /\ lease' = [lease EXCEPT ![c.key] =
                IF Raw /\ c.kind = "set" /\ c.useExpire THEN now + c.ttl ELSE Forever]
  /\ old' = old \ {c.key} /\ unseen' = unseen \ {c.key}
  /\ UNCHANGED <<api, call, queue, now, clear>>

\* Redis executes pExpire or expire; on an absent key it does nothing.
Expire(m) ==
  LET c == call[m] IN
  /\ pc[m] = "expire"
  /\ Reply(m, "ok")
  /\ lease' = [lease EXCEPT ![c.key] =
                IF db[c.key] = NoRecord THEN Forever ELSE now + LeaseFor(c.ttl)]
  /\ UNCHANGED <<api, call, queue, db, now, clearing>>

\* A command fails without taking effect.
Fails(m) ==
  /\ pc[m] \in {"send", "resend", "expire"}
  /\ \E end \in AfterFailure(m) : pc' = [pc EXCEPT ![m] = end]
  /\ UNCHANGED <<api, call, queue, redis, now, clearing>>

\* Mutant: the tail is removed whoever owns it now.
Cleanup_AnyTail(m) ==
  /\ ~Raw /\ pc[m] \in Settled /\ m \notin cleaned
  /\ cleaned' = cleaned \cup {m}
  /\ tails' = [tails EXCEPT ![call[m].key] = {}]
  /\ UNCHANGED <<api, call, pc, prev, order, redis, now, clearing>>

\* The finally block: remove the tail unless a newer one replaced it.
Cleanup(m) ==
  /\ ~Raw /\ pc[m] \in Settled /\ m \notin cleaned
  /\ cleaned' = cleaned \cup {m}
  /\ tails' = [tails EXCEPT ![call[m].key] = @ \ {m}]
  /\ UNCHANGED <<api, call, pc, prev, order, redis, now, clearing>>

Evict(k) ==
  /\ lease[k] # Forever /\ lease[k] <= now
  /\ db' = [db EXCEPT ![k] = NoRecord] /\ lease' = [lease EXCEPT ![k] = Forever]
  /\ old' = old \ {k} /\ unseen' = unseen \ {k}
  /\ UNCHANGED <<api, call, pc, queue, now, clear>>

Tick ==
  /\ now < MaxTime
  /\ now' = now + 1
  /\ UNCHANGED <<api, call, pc, queue, redis, clearing>>

------------------------------------------------------------------------------
\* clear() needs raw commands: without them its first SCAN throws.
Clear ==
  /\ clear.stage = "none"
  /\ clear' = [clear EXCEPT !.stage = IF Raw THEN "scan" ELSE "failed"]
  /\ old' = {k \in Keys : Raw /\ db[k] # NoRecord} /\ unseen' = old'
  /\ UNCHANGED <<api, call, pc, queue, redis, now>>

\* Mutant: the loop ends on a page with nothing to delete.
AfterPage_EmptyEnds(page, last) ==
  [stage |-> IF page = {} THEN "done" ELSE "delete", page |-> page, last |-> last]

\* Where the loop is with these keys of the page still to delete.
AfterPage(page, last) ==
  [stage |-> IF page # {} THEN "delete" ELSE IF last THEN "done" ELSE "scan",
   page |-> page, last |-> last]

\* SCAN returns any keys that are there, whatever MATCH was asked for; a full iteration
\* returns those that were there all along.  Those without the prefix are skipped.
Scan ==
  /\ clear.stage = "scan"
  /\ \E found \in SUBSET {k \in Keys : db[k] # NoRecord}, last \in BOOLEAN :
       /\ last => unseen \subseteq found
       /\ unseen' = unseen \ found
       /\ clear' = AfterPage(found \cap Prefixed, last)
  /\ UNCHANGED <<api, call, pc, queue, redis, now, old>>

\* DEL of a chunk of the page.
DeleteChunk ==
  /\ clear.stage = "delete"
  /\ \E chunk \in SUBSET clear.page \ {{}} :
       /\ db' = [k \in Keys |-> IF k \in chunk THEN NoRecord ELSE db[k]]
       /\ lease' = [k \in Keys |-> IF k \in chunk THEN Forever ELSE lease[k]]
       /\ old' = old \ chunk /\ unseen' = unseen \ chunk
       /\ clear' = AfterPage(clear.page \ chunk, clear.last)
  /\ UNCHANGED <<api, call, pc, queue, now>>

\* SCAN or DEL fails, and so does clear().
ClearFails ==
  /\ clear.stage \in {"scan", "delete"}
  /\ clear' = [stage |-> "failed", page |-> {}, last |-> FALSE]
  /\ old' = {} /\ unseen' = {}
  /\ UNCHANGED <<api, call, pc, queue, redis, now>>

Next ==
  \/ \E m \in Mutations :
       \/ Set(m) \/ Delete(m) \/ Begin(m) \/ Execute(m) \/ Expire(m)
       \/ Fails(m) \/ Cleanup(m)
  \/ \E k \in Keys : Evict(k)
  \/ Tick
  \/ Clear \/ Scan \/ DeleteChunk \/ ClearFails

Spec == Init /\ [][Next]_vars

------------------------------------------------------------------------------
(***************************************************************************)
(* Properties.                                                             *)
(***************************************************************************)
Calls ==
  {NoCall} \cup [kind : {"delete"}, key : Keys]
  \cup [kind : {"set"}, key : Keys, ttl : Ttls, deadline : Nat, useExpire : BOOLEAN]

Records == {NoRecord} \cup [kind : {"record"}, by : Mutations, deadline : Nat]

\* Every variable keeps its type, and no lease outlasts its record by a second
\* more than the time the commands took.
TypeOK ==
  /\ api \in {"raw", "pExpire", "expire"}
  /\ call \in [Mutations -> Calls]
  /\ pc \in [Mutations -> {"new", "waiting", "send", "resend", "expire"} \cup Settled]
  /\ prev \in [Mutations -> SUBSET Mutations] /\ tails \in [Keys -> SUBSET Mutations]
  /\ cleaned \subseteq Mutations /\ order \in [Keys -> Seq(Mutations)]
  /\ db \in [Keys -> Records] /\ lease \in [Keys -> Nat \cup {Forever}] /\ now \in 0 .. MaxTime
  /\ clear \in [stage : {"none", "scan", "delete", "done", "failed"}, page : SUBSET Prefixed,
                last : BOOLEAN]
  /\ old \subseteq {k \in Keys : db[k] # NoRecord} /\ unseen \subseteq old
  /\ \A k \in Keys :
       lease[k] = Forever \/ \E ttl \in Ttls : lease[k] \in 0 .. now + ttl + Second - 1

\* "Rounding up prevents Redis from evicting before the embedded logical
\* expiration", and no mutation is "inserted between another adapter's SET and
\* expiry command": the lease of a key never ends before the deadline of the
\* record that is under it.
LiveRecordsAreKept ==
  \A k \in Keys :
    db[k] # NoRecord => lease[k] = Forever \/ lease[k] >= db[k].deadline

\* "Serialize every mutation per physical key": once everything called on a key
\* of a friendly client has settled, and the last call succeeded, Redis holds
\* what that call left, until its deadline.
LastCallWins ==
  \A k \in Keys :
    LET last == Last(order[k]) IN
    (/\ order[k] # <<>> /\ pc[last] = "ok"
     /\ \A m \in ToSet(order[k]) : pc[m] \in Settled)
      => \/ call[last].kind = "delete" /\ db[k] = NoRecord
         \/ call[last].kind = "set" /\ db[k] # NoRecord /\ db[k].by = last
         \/ call[last].kind = "set" /\ db[k] = NoRecord /\ now >= call[last].deadline

\* "Prefix-scoped removal of all keys": when clear() has succeeded, every record under its
\* prefix was written after it began, however the pages fell.
ClearIsThorough == clear.stage = "done" => old \cap Prefixed = {}
==============================================================================
