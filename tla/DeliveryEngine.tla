--------------------------- MODULE DeliveryEngine ---------------------------
(***************************************************************************)
(* delivery/engine.rs: the subscriptions of one topic, served by           *)
(* concurrent request handlers over one key-value store and one in-memory  *)
(* lease table.                                                            *)
(*                                                                         *)
(* lease_next and acknowledge read the subscription's cursor BEFORE they   *)
(* take the lease-table lock and write it back under the lock, so each is  *)
(* split where the code can be overtaken: the load, the lock, one step per *)
(* message or ack_id (at most one store write each, so that a crash may    *)
(* fall between any two writes), and the write-back with the unlock.       *)
(* modify_ack_deadline touches no cursor: its batch is a sequence of       *)
(* independent single-id requests.                                         *)
(*                                                                         *)
(* A crash keeps what reached the store and loses what was in memory; the  *)
(* restart (PubSubService::new) rebuilds the lease table from the dlv rows.*)
(***************************************************************************)
EXTENDS Cursor, Retry, FiniteSets

CONSTANTS
    Subs,                \* the subscriptions of the topic
    Handlers,            \* request handlers that may be in progress at once
    None,                \* absence of a lease, a row, a lock holder, ...
    NoMatch,             \* the <<sub, seq>> whose message fails the sub's filter
    ack_deadline,        \* ack_deadline_secs, in clock units
    Extensions,          \* the `seconds` clients pass to ModifyAckDeadline; 0: nack
    retry_policy_explicit, min_backoff, max_backoff,
    max_delivery_attempts,   \* 0: no dead-letter policy
    ForeignAckIds,       \* may a client present an ack_id of another subscription?
    LEASE_GC_GRACE,
    MaxSeq, MaxTime, MaxAttempts, MaxPull, MaxAckBatch      \* bounds

Seqs == 1 .. MaxSeq
Keys == Subs \X Seqs

ASSUME ConstantsAssumption ==
    /\ MaxSeq \in Nat /\ MaxTime \in Nat /\ MaxAttempts \in Nat
    /\ MaxPull \in Nat /\ MaxAckBatch \in Nat
    /\ Extensions \subseteq Nat
    /\ ack_deadline \in Nat /\ min_backoff \in Nat /\ max_backoff \in Nat
    /\ LEASE_GC_GRACE \in Nat /\ max_delivery_attempts \in Nat
    /\ retry_policy_explicit \in BOOLEAN /\ ForeignAckIds \in BOOLEAN
    /\ NoMatch \subseteq Keys
    /\ None \notin Subs /\ None \notin Handlers

VARIABLES
    now,        \* Clock::now_ms
    tail,       \* the topic's seq counter ("meta" keyspace)
    log,        \* seqs of the topic's message rows ("msg" keyspace)
    dlq_topic,  \* does the dead-letter topic exist?
    dlq,        \* <<sub, seq>> appended to the dead-letter topic
    cursor,     \* sub -> CursorRecord ("sub" keyspace)
    dlv,        \* <<sub, seq>> -> DeliveryRecord ("dlv" keyspace) or None
    leases,     \* <<sub, seq>> -> Lease (LeaseTable) or None
    lock,       \* holder of the lease-table mutex or None
    hs,         \* handler -> its progress
    issued,     \* ack_ids clients have received
    acked,      \* history: <<sub, seq>> an ack_id was applied to
    confirmed,  \* history: those whose Acknowledge call returned OK
    promised    \* history: <<sub, seq>> -> deadline last promised to its holder, 0 if
                \* nothing is: never delivered, nacked, settled

kv == <<tail, log, dlq_topic, dlq, cursor, dlv>>
history == <<issued, acked, confirmed, promised>>
vars == <<now, kv, leases, lock, hs, history>>

\* Lease and DeliveryRecord have the same three fields.
Lease == [deadline: Nat, attempts: Nat, generation: Nat]
AckId == [sub: Subs, seq: Seqs, generation: Nat]

ASSUME NoneAssumption == None \notin Lease

\* A handler between requests, and the shape of one in progress: cur is the
\* cursor it loaded, at the time at which it read the clock, todo the scanned
\* messages still to visit, room how many more it may lease, out what it will
\* answer, ids the ack_ids still to apply.
Idle == [pc |-> "idle", sub |-> None, at |-> 0, cur |-> new_cursor(0),
         dirty |-> FALSE, todo |-> {}, room |-> 0, out |-> {}, ids |-> {}, secs |-> 0]

PCs == {"idle", "lease_load", "lease_scan", "forwarded",
        "ack_load", "ack_apply", "modify"}

Handler ==
    [pc: PCs, sub: Subs \cup {None}, at: Nat, cur: CursorRecord(Seqs),
     dirty: BOOLEAN, todo: SUBSET Seqs, room: Nat, out: SUBSET AckId,
     ids: SUBSET AckId, secs: Nat]

\* Every variable stays within its domain.
TypeOK ==
    /\ now \in Nat
    /\ tail \in Nat
    /\ log \subseteq Seqs
    /\ dlq_topic \in BOOLEAN
    /\ dlq \subseteq Keys
    /\ cursor \in [Subs -> CursorRecord(Seqs)]
    /\ dlv \in [Keys -> Lease \cup {None}]
    /\ leases \in [Keys -> Lease \cup {None}]
    /\ lock \in Handlers \cup {None}
    /\ hs \in [Handlers -> Handler]
    /\ issued \subseteq AckId
    /\ acked \subseteq Keys
    /\ confirmed \subseteq Keys
    /\ promised \in [Keys -> Nat]

Init ==
    /\ now = 0
    /\ tail = 0
    /\ log = {}
    /\ dlq_topic \in BOOLEAN /\ (dlq_topic => max_delivery_attempts > 0)
    /\ dlq = {}
    /\ cursor = [s \in Subs |-> new_cursor(0)]
    /\ dlv = [k \in Keys |-> None]
    /\ leases = [k \in Keys |-> None]
    /\ lock = None
    /\ hs = [h \in Handlers |-> Idle]
    /\ issued = {} /\ acked = {} /\ confirmed = {}
    /\ promised = [k \in Keys |-> 0]

-----------------------------------------------------------------------------
(* The environment: time, publishers, the dead-letter topic's owner.       *)

Tick ==
    /\ now < MaxTime
    /\ now' = now + 1
    /\ UNCHANGED <<kv, leases, lock, hs, history>>

\* PubSubService::publish of one message, with seqs handed out one at a time.
Publish ==
    /\ tail < MaxSeq
    /\ tail' = tail + 1
    /\ log' = log \cup {tail'}
    /\ UNCHANGED <<now, dlq_topic, dlq, cursor, dlv, leases, lock, hs, history>>

DeleteDlqTopic ==
    /\ dlq_topic
    /\ dlq_topic' = FALSE
    /\ UNCHANGED <<now, tail, log, dlq, cursor, dlv, leases, lock, hs, history>>

-----------------------------------------------------------------------------
(* lease_next                                                              *)

\* The clock and the cursor are read before the lock is requested.
LeaseNextLoad(h, s) ==
    /\ hs[h].pc = "idle"
    /\ \E max_messages \in 1 .. MaxPull :
          hs' = [hs EXCEPT ![h] = [Idle EXCEPT !.pc = "lease_load", !.sub = s, !.at = now,
                                               !.cur = cursor[s], !.room = max_messages]]
    /\ UNCHANGED <<now, kv, leases, lock, history>>

\* Mutant: the persisted row is not consulted.
prior_lease_only(k) == leases[k]

\* What is known of an earlier delivery: the lease, else the persisted row that
\* outlives a garbage-collected lease, else nothing.
prior(k) == IF leases[k] # None THEN leases[k] ELSE dlv[k]

prior_attempts(k) == IF prior(k) = None THEN 0 ELSE prior(k).attempts

\* The scan is a snapshot of the log, taken under the lock.  (Bound: a message
\* already delivered MaxAttempts times is left out.)
LeaseNextLock(h) ==
    /\ hs[h].pc = "lease_load"
    /\ lock = None
    /\ lock' = h
    /\ hs' = [hs EXCEPT ![h].pc = "lease_scan",
                        ![h].todo = {seq \in log : prior_attempts(<<hs[h].sub, seq>>) < MaxAttempts}]
    /\ UNCHANGED <<now, kv, leases, history>>

\* Mutant: max_messages does not end the scan.
VisitingAll(h, seq) ==
    /\ hs[h].pc = "lease_scan"
    /\ seq \in hs[h].todo
    /\ \A q \in hs[h].todo : seq <= q

\* The scan visits messages in seq order while there is room in the answer.
Visiting(h, seq) ==
    /\ hs[h].pc = "lease_scan"
    /\ hs[h].room > 0
    /\ seq \in hs[h].todo
    /\ \A q \in hs[h].todo : seq <= q

is_leased(k, at) == leases[k] # None /\ leases[k].deadline > at

is_backing_off(k, at) ==
    /\ prior(k) # None
    /\ retry_policy_explicit
    /\ at < next_eligible_at(prior(k).deadline, prior(k).attempts, min_backoff, max_backoff)

is_dead(k) ==
    /\ prior(k) # None
    /\ should_dead_letter(prior(k).attempts, max_delivery_attempts)
    /\ dlq_topic

LeaseNextSkip(h, seq) ==
    LET k == <<hs[h].sub, seq>>
    IN /\ Visiting(h, seq)
       /\ \/ is_done(hs[h].cur, seq)
          \/ k \notin NoMatch /\ (is_leased(k, hs[h].at) \/ is_backing_off(k, hs[h].at))
       /\ hs' = [hs EXCEPT ![h].todo = @ \ {seq}]
       /\ UNCHANGED <<now, kv, leases, lock, history>>

\* A message the filter rejects is done for this subscription.
LeaseNextFilter(h, seq) ==
    /\ Visiting(h, seq)
    /\ ~is_done(hs[h].cur, seq)
    /\ <<hs[h].sub, seq>> \in NoMatch
    /\ hs' = [hs EXCEPT ![h].todo = @ \ {seq}, ![h].dirty = TRUE,
                        ![h].cur = mark_done(@, seq)]
    /\ UNCHANGED <<now, kv, leases, lock, history>>

\* The message may be handed out, or dead-lettered, now.
Eligible(h, seq) ==
    LET k == <<hs[h].sub, seq>>
    IN /\ Visiting(h, seq)
       /\ ~is_done(hs[h].cur, seq)
       /\ k \notin NoMatch
       /\ ~is_leased(k, hs[h].at)
       /\ ~is_backing_off(k, hs[h].at)

\* Mutant: the append to the dead-letter topic is lost.
LeaseNextForwardLost(h, seq) ==
    /\ Eligible(h, seq)
    /\ is_dead(<<hs[h].sub, seq>>)
    /\ hs' = [hs EXCEPT ![h].pc = "forwarded"]
    /\ UNCHANGED <<now, kv, leases, lock, history>>

\* Dead-lettering, first write: append to the dead-letter topic's log.
LeaseNextForward(h, seq) ==
    LET k == <<hs[h].sub, seq>>
    IN /\ Eligible(h, seq)
       /\ is_dead(k)
       /\ dlq' = dlq \cup {k}
       /\ hs' = [hs EXCEPT ![h].pc = "forwarded"]
       /\ UNCHANGED <<now, tail, log, dlq_topic, cursor, dlv, leases, lock, history>>

\* Dead-lettering, second write: drop lease and row, done on the source.
LeaseNextForwarded(h, seq) ==
    LET k == <<hs[h].sub, seq>>
    IN /\ hs[h].pc = "forwarded"
       /\ seq \in hs[h].todo /\ \A q \in hs[h].todo : seq <= q
       /\ leases' = [leases EXCEPT ![k] = None]
       /\ dlv' = [dlv EXCEPT ![k] = None]
       /\ promised' = [promised EXCEPT ![k] = 0]
       /\ hs' = [hs EXCEPT ![h].pc = "lease_scan", ![h].todo = @ \ {seq},
                           ![h].dirty = TRUE, ![h].cur = mark_done(@, seq)]
       /\ UNCHANGED <<now, tail, log, dlq_topic, dlq, cursor, lock, issued, acked, confirmed>>

\* The lease of a delivery that follows `attempts` earlier ones.
new_lease(attempts, at) ==
    [deadline |-> at + ack_deadline, attempts |-> attempts + 1, generation |-> attempts + 1]

LeaseNextGrant(h, seq) ==
    LET k == <<hs[h].sub, seq>>
        lease == new_lease(prior_attempts(k), hs[h].at)
    IN /\ Eligible(h, seq)
       /\ ~is_dead(k)
       /\ leases' = [leases EXCEPT ![k] = lease]
       /\ dlv' = [dlv EXCEPT ![k] = lease]
       /\ promised' = [promised EXCEPT ![k] = lease.deadline]
       /\ hs' = [hs EXCEPT ![h].todo = @ \ {seq}, ![h].room = @ - 1,
                           ![h].out = @ \cup {[sub |-> hs[h].sub, seq |-> seq,
                                              generation |-> lease.generation]}]
       /\ UNCHANGED <<now, tail, log, dlq_topic, dlq, cursor, lock, issued, acked, confirmed>>

\* Mutant: the cursor is not written back.
UnlockOnly(h) ==
    /\ cursor' = cursor
    /\ lock' = None
    /\ hs' = [hs EXCEPT ![h] = Idle]

\* save_cursor, of the cursor loaded before the lock, if it changed; unlock.
SaveAndUnlock(h) ==
    /\ cursor' = IF hs[h].dirty THEN [cursor EXCEPT ![hs[h].sub] = hs[h].cur] ELSE cursor
    /\ lock' = None
    /\ hs' = [hs EXCEPT ![h] = Idle]

ScanDone(h) == hs[h].pc = "lease_scan" /\ (hs[h].todo = {} \/ hs[h].room = 0)

\* Answer the client.
LeaseNextReturn(h) ==
    /\ ScanDone(h)
    /\ SaveAndUnlock(h)
    /\ issued' = issued \cup hs[h].out
    /\ UNCHANGED <<now, tail, log, dlq_topic, dlq, dlv, leases, acked, confirmed, promised>>

-----------------------------------------------------------------------------
(* acknowledge                                                             *)

\* The ack_ids a client of s may present: any it ever received, however old.
Presentable(s) == {id \in issued : ForeignAckIds \/ id.sub = s}

AcknowledgeLoad(h, s) ==
    /\ hs[h].pc = "idle"
    /\ \E ids \in SUBSET Presentable(s) :
          /\ ids # {} /\ Cardinality(ids) <= MaxAckBatch
          /\ hs' = [hs EXCEPT ![h] = [Idle EXCEPT !.pc = "ack_load", !.sub = s,
                                                  !.cur = cursor[s], !.ids = ids]]
    /\ UNCHANGED <<now, kv, leases, lock, history>>

AcknowledgeLock(h) ==
    /\ hs[h].pc = "ack_load"
    /\ lock = None
    /\ lock' = h
    /\ hs' = [hs EXCEPT ![h].pc = "ack_apply"]
    /\ UNCHANGED <<now, kv, leases, history>>

\* LeaseTable::ack and LeaseTable::extend recognise an ack_id by the generation
\* of the lease it was issued for.
names_current_lease(id) ==
    LET k == <<id.sub, id.seq>>
    IN leases[k] # None /\ leases[k].generation = id.generation

\* Mutant: the row outlives the acked lease.
AcknowledgeApplyKeepRow(h, id) ==
    LET k == <<id.sub, id.seq>>
    IN /\ hs[h].pc = "ack_apply"
       /\ id \in hs[h].ids
       /\ names_current_lease(id)
       /\ leases' = [leases EXCEPT ![k] = None]
       /\ hs' = [hs EXCEPT ![h].ids = @ \ {id}, ![h].out = @ \cup {id},
                           ![h].dirty = TRUE, ![h].cur = mark_done(@, id.seq)]
       /\ acked' = acked \cup {k}
       /\ promised' = [promised EXCEPT ![k] = 0]
       /\ UNCHANGED <<now, kv, lock, issued, confirmed>>

\* Applied: drop the lease and the row, done.  (The row and the cursor are those
\* of the request's subscription, the lease the one the ack_id names.)
AcknowledgeApply(h, id) ==
    LET k == <<id.sub, id.seq>>
    IN /\ hs[h].pc = "ack_apply"
       /\ id \in hs[h].ids
       /\ names_current_lease(id)
       /\ leases' = [leases EXCEPT ![k] = None]
       /\ dlv' = [dlv EXCEPT ![<<hs[h].sub, id.seq>>] = None]
       /\ hs' = [hs EXCEPT ![h].ids = @ \ {id}, ![h].out = @ \cup {id},
                           ![h].dirty = TRUE, ![h].cur = mark_done(@, id.seq)]
       /\ acked' = acked \cup {k}
       /\ promised' = [promised EXCEPT ![k] = 0]
       /\ UNCHANGED <<now, tail, log, dlq_topic, dlq, cursor, lock, issued, confirmed>>

\* Unknown or stale: ignored.
AcknowledgeIgnore(h, id) ==
    /\ hs[h].pc = "ack_apply"
    /\ id \in hs[h].ids
    /\ ~names_current_lease(id)
    /\ hs' = [hs EXCEPT ![h].ids = @ \ {id}]
    /\ UNCHANGED <<now, kv, leases, lock, history>>

AcknowledgeReturn(h) ==
    /\ hs[h].pc = "ack_apply"
    /\ hs[h].ids = {}
    /\ SaveAndUnlock(h)
    /\ confirmed' = confirmed \cup {<<id.sub, id.seq>> : id \in hs[h].out}
    /\ UNCHANGED <<now, tail, log, dlq_topic, dlq, dlv, leases, issued, acked, promised>>

-----------------------------------------------------------------------------
(* modify_ack_deadline, sweep_expired, crash and recover                   *)

ModifyAckDeadlineLoad(h, s) ==
    /\ hs[h].pc = "idle"
    /\ \E id \in Presentable(s), seconds \in Extensions :
          hs' = [hs EXCEPT ![h] = [Idle EXCEPT !.pc = "modify", !.sub = s, !.at = now,
                                               !.ids = {id}, !.secs = seconds]]
    /\ UNCHANGED <<now, kv, leases, lock, history>>

\* LeaseTable::extend: seconds = 0 is a nack, expired as of now.
extended(k, at, seconds) == [leases[k] EXCEPT !.deadline = at + seconds]

\* Mutant: the new deadline is not persisted.
ModifyInMemory(h, id) ==
    LET k == <<id.sub, id.seq>>
        lease == extended(k, hs[h].at, hs[h].secs)
    IN /\ hs[h].pc = "modify"
       /\ lock = None
       /\ id \in hs[h].ids
       /\ hs' = [hs EXCEPT ![h] = Idle]
       /\ IF names_current_lease(id)
          THEN /\ leases' = [leases EXCEPT ![k] = lease]
               /\ promised' = [promised EXCEPT ![k] = IF hs[h].secs = 0 THEN 0 ELSE lease.deadline]
          ELSE UNCHANGED <<leases, promised>>
       /\ UNCHANGED <<now, kv, lock, issued, acked, confirmed>>

ModifyAckDeadlineApply(h, id) ==
    LET k == <<id.sub, id.seq>>
        lease == extended(k, hs[h].at, hs[h].secs)
    IN /\ hs[h].pc = "modify"
       /\ lock = None
       /\ id \in hs[h].ids
       /\ hs' = [hs EXCEPT ![h] = Idle]
       /\ IF names_current_lease(id)
          THEN /\ leases' = [leases EXCEPT ![k] = lease]
               /\ dlv' = [dlv EXCEPT ![<<hs[h].sub, id.seq>>] = lease]
               /\ promised' = [promised EXCEPT ![k] = IF hs[h].secs = 0 THEN 0 ELSE lease.deadline]
          ELSE UNCHANGED <<leases, dlv, promised>>
       /\ UNCHANGED <<now, tail, log, dlq_topic, dlq, cursor, lock, issued, acked, confirmed>>

\* Garbage collection of s's long-expired leases, whose rows stay.  The table is
\* shared: the other subscriptions' long-expired leases are put back, with the
\* current time as their deadline.
SweepExpired(s) ==
    LET expired(k) == leases[k] # None /\ leases[k].deadline <= now - LEASE_GC_GRACE
    IN /\ lock = None
       /\ leases' = [k \in Keys |-> IF ~expired(k) THEN leases[k]
                                    ELSE IF k[1] = s THEN None
                                    ELSE [leases[k] EXCEPT !.deadline = now]]
       /\ UNCHANGED <<now, kv, lock, hs, history>>

\* Mutant: the restart begins with an empty lease table.
recover_nothing == [k \in Keys |-> None]

\* The lease table `recover` rebuilds: one lease for every persisted row.
recover == dlv

\* The process dies at any point and restarts: handlers, lock and leases are gone,
\* nobody in progress is answered.
Crash ==
    /\ leases' = recover
    /\ lock' = None
    /\ hs' = [h \in Handlers |-> Idle]
    /\ UNCHANGED <<now, kv, history>>

-----------------------------------------------------------------------------
\* The part of lease_next between the load and the return.
LeaseNextScan(h) ==
    \/ LeaseNextLock(h)
    \/ \E seq \in Seqs :
          \/ LeaseNextSkip(h, seq) \/ LeaseNextFilter(h, seq)
          \/ LeaseNextForward(h, seq) \/ LeaseNextForwarded(h, seq)
          \/ LeaseNextGrant(h, seq)

LeaseNext(h) ==
    (\E s \in Subs : LeaseNextLoad(h, s)) \/ LeaseNextScan(h) \/ LeaseNextReturn(h)

AcknowledgeRest(h) ==
    \/ AcknowledgeLock(h)
    \/ \E id \in hs[h].ids : AcknowledgeApply(h, id) \/ AcknowledgeIgnore(h, id)
    \/ AcknowledgeReturn(h)

Acknowledge(h) == (\E s \in Subs : AcknowledgeLoad(h, s)) \/ AcknowledgeRest(h)

ModifyAckDeadlineRest(h) == \E id \in hs[h].ids : ModifyAckDeadlineApply(h, id)

ModifyAckDeadline(h) ==
    (\E s \in Subs : ModifyAckDeadlineLoad(h, s)) \/ ModifyAckDeadlineRest(h)

Next ==
    \/ Tick \/ Publish \/ DeleteDlqTopic \/ Crash
    \/ \E s \in Subs : SweepExpired(s)
    \/ \E h \in Handlers : LeaseNext(h) \/ Acknowledge(h) \/ ModifyAckDeadline(h)

Spec == Init /\ [][Next]_vars

-----------------------------------------------------------------------------
(* Correctness                                                             *)

\* Settled: a client acked the message on this subscription, it was forwarded
\* to the dead-letter topic, or the subscription's filter rejects it.
Settled == acked \cup dlq \cup NoMatch

\* No message is lost.  The persisted cursor passes over a message only if it is
\* settled, whatever handlers race on the cursor and wherever a crash falls:
\* lease_next skips what the cursor says is done, for ever.
NothingLost ==
    \A s \in Subs : \A seq \in Seqs : is_done(cursor[s], seq) => <<s, seq>> \in Settled

\* Crash safety of leases.  The unexpired leases `recover` would rebuild from the
\* dlv rows right now are exactly the unexpired leases in memory: a crash
\* neither frees a message its holder still works on nor revives an ended lease.
LeasesSurviveCrash ==
    LET live(row) == row # None /\ row.deadline > now
    IN \A k \in Keys : live(dlv[k]) \/ live(leases[k]) => leases[k] = dlv[k]

\* The deliveries a step adds to some lease_next call's answer.
Deliveries ==
    UNION {hs'[h].out \ hs[h].out : h \in {i \in Handlers : hs[i].pc = "lease_scan"}}

\* A holder has its message to itself until the deadline last promised to it, by
\* the delivery or by a ModifyAckDeadline: lease_next hands out no message
\* before that, not even after a crash or a sweep.
NoEarlyRedelivery ==
    [][\A id \in Deliveries : promised[<<id.sub, id.seq>>] <= now]_vars

\* An ack_id names one delivery: until the message is settled, no later delivery
\* reuses an ack_id some client already has, so a stale Ack is told apart
\* ("including across restarts", LeaseTable::insert).
AckIdNamesOneDelivery ==
    [][\A id \in Deliveries : <<id.sub, id.seq>> \notin Settled => id \notin issued]_vars

\* The retry policy's backoff, counted from the end of the previous delivery, is
\* respected by every redelivery: dropping the lease from memory (sweep, crash)
\* does not bypass it.
BackoffRespected ==
    [][\A id \in Deliveries :
          LET k == <<id.sub, id.seq>>
          IN retry_policy_explicit /\ dlv[k] # None =>
                now >= next_eligible_at(dlv[k].deadline, dlv[k].attempts,
                                        min_backoff, max_backoff)]_vars

\* While the dead-letter topic exists, nobody receives a message more than
\* max_delivery_attempts times: lease_next forwards it instead.
DeadLetterBound ==
    [][\A id \in Deliveries :
          max_delivery_attempts > 0 /\ dlq_topic => id.generation <= max_delivery_attempts]_vars

\* Acknowledge is permanent (service.rs, "Permanently acknowledges every message
\* named by `ack_ids`"; tests/recovery.rs, "Acked messages must never reappear."):
\* once the call has returned, the persisted cursor has the message done for good.
AckIsPermanent ==
    \A k \in confirmed : is_done(cursor[k[1]], k[2])

\* A nack is immediate (modify_ack_deadline, "the next lease_next call (from
\* anyone) will reclaim and redeliver it right away"): a scan that visits a nacked
\* message after the nack delivers it or dead-letters it.
NackIsImmediate ==
    [][\A h \in Handlers :
          hs[h].pc = "lease_scan" /\ hs'[h].pc = "lease_scan" =>
             \A seq \in hs[h].todo \ hs'[h].todo :
                LET k == <<hs[h].sub, seq>>
                IN /\ leases[k] # None /\ promised[k] = 0
                   /\ leases[k].deadline <= hs[h].at
                   /\ ~is_done(hs[h].cur, seq)
                   => leases'[k] # leases[k]]_vars

=============================================================================
