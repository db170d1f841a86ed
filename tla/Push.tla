-------------------------------- MODULE Push --------------------------------
(***************************************************************************)
(* Push delivery: push/manager.rs (one reconcile loop) and                 *)
(* push/dispatcher.rs (one task per push subscription, plus one deliver_one*)
(* task per message being posted) over what the delivery engine promises   *)
(* its streams.                                                            *)
(*                                                                         *)
(* The engine appears as its interface: a lease that is granted, expires,  *)
(* is re-armed or ends (DeliveryEngine has the detail).  A deliver_one     *)
(* task is "stale" once its message has been leased again: that is all the *)
(* generation inside its ack_id decides.                                   *)
(***************************************************************************)
EXTENDS Naturals, FiniteSets

CONSTANTS
    Subs,             \* subscription ids
    Configs,          \* the push_configs in use
    None,
    Slots,            \* dispatcher tasks that may exist at once
    max_concurrency,  \* push_max_concurrency_per_sub
    MaxSeq, MaxChanges   \* bounds: messages, configuration changes

Seqs == 1 .. MaxSeq
Permits == 1 .. max_concurrency
Keys == Subs \X Seqs

ASSUME PushAssumption ==
    /\ MaxSeq \in Nat /\ MaxChanges \in Nat
    /\ max_concurrency \in Nat \ {0}      \* run: max_concurrency.max(1)
    /\ None \notin Configs /\ None \notin Slots /\ None \notin Subs

VARIABLES
    subs,     \* sub -> its record's push_config and detached flag; None: deleted
    log,      \* seqs of the topic's messages
    lease,    \* <<sub, seq>> -> "none", "live" or "expired"
    done,     \* <<sub, seq>> acknowledged
    mgr,      \* the reconcile loop
    entries,  \* PushManager::entries: sub -> push_config and dispatcher, or None
    disp,     \* slot -> dispatcher task
    token,    \* shutdown_token.is_cancelled()
    changes   \* configuration changes so far

pushVars == <<subs, log, lease, done, mgr, entries, disp, token, changes>>

Record == [push_config: Configs \cup {None}, detached: BOOLEAN]
Entry == [push_config: Configs, slot: Slots]
Task == [seq: Seqs, stale: BOOLEAN]

ASSUME NoneAssumption == None \notin Record \cup Entry \cup Task

\* A dispatcher: cancel is its own token, outstanding the seqs its stream session
\* counts, batch the leased messages not yet handed to a task, tasks the deliver_one
\* task that holds each semaphore permit.
Dispatcher ==
    [pc: {"free", "spawned", "loop", "wait", "dispatch", "draining", "ended"},
     sub: Subs \cup {None}, push_config: Configs \cup {None}, cancel: BOOLEAN,
     outstanding: SUBSET Seqs, batch: SUBSET Seqs, tasks: [Permits -> Task \cup {None}]]

NoTasks == [p \in Permits |-> None]
Free == [pc |-> "free", sub |-> None, push_config |-> None, cancel |-> FALSE,
         outstanding |-> {}, batch |-> {}, tasks |-> NoTasks]

\* The reconcile loop: todo is what is left of the listing, listed the push_configs
\* it showed, at/slot the dispatcher whose end is awaited.
Manager ==
    [pc: {"off", "reconcile", "visit", "stop", "sleep", "shutdown", "shutdown_stop", "done"},
     todo: SUBSET Subs, seen: SUBSET Subs, listed: [Subs -> Configs \cup {None}],
     slot: Slots \cup {None}]

ManagerOff == [pc |-> "off", todo |-> {}, seen |-> {}, listed |-> [s \in Subs |-> None],
               slot |-> None]

PushTypeOK ==
    /\ subs \in [Subs -> Record \cup {None}]
    /\ log \subseteq Seqs
    /\ lease \in [Keys -> {"none", "live", "expired"}]
    /\ done \subseteq Keys
    /\ mgr \in Manager
    /\ entries \in [Subs -> Entry \cup {None}]
    /\ disp \in [Slots -> Dispatcher]
    /\ token \in BOOLEAN
    /\ changes \in 0 .. MaxChanges

\* Nothing leased, no dispatcher, the manager at pc.
Quiet(pc) ==
    /\ subs \in [Subs -> [push_config: Configs \cup {None}, detached: {FALSE}]]
    /\ log = {} /\ done = {}
    /\ lease = [k \in Keys |-> "none"]
    /\ mgr = [ManagerOff EXCEPT !.pc = pc]
    /\ entries = [s \in Subs |-> None]
    /\ disp = [d \in Slots |-> Free]
    /\ token = FALSE
    /\ changes = 0

-----------------------------------------------------------------------------
(* Clients and time                                                        *)

\* CreateSubscription, ModifyPushConfig or UpdateSubscription leaves the record
\* with this push_config.
ModifyPushConfig(s, cfg) ==
    /\ changes < MaxChanges
    /\ subs[s] # None /\ subs[s].push_config # cfg
    /\ subs' = [subs EXCEPT ![s].push_config = cfg]
    /\ changes' = changes + 1
    /\ UNCHANGED <<log, lease, done, mgr, entries, disp, token>>

DetachSubscription(s) ==
    /\ changes < MaxChanges
    /\ subs[s] # None /\ ~subs[s].detached
    /\ subs' = [subs EXCEPT ![s].detached = TRUE]
    /\ changes' = changes + 1
    /\ UNCHANGED <<log, lease, done, mgr, entries, disp, token>>

DeleteSubscription(s) ==
    /\ changes < MaxChanges
    /\ subs[s] # None
    /\ subs' = [subs EXCEPT ![s] = None]
    /\ changes' = changes + 1
    /\ UNCHANGED <<log, lease, done, mgr, entries, disp, token>>

Publish ==
    /\ Cardinality(log) < MaxSeq
    /\ log' = log \cup {Cardinality(log) + 1}
    /\ UNCHANGED <<subs, lease, done, mgr, entries, disp, token, changes>>

Expire(k) ==
    /\ lease[k] = "live"
    /\ lease' = [lease EXCEPT ![k] = "expired"]
    /\ UNCHANGED <<subs, log, done, mgr, entries, disp, token, changes>>

-----------------------------------------------------------------------------
(* PushManager::reconcile and shutdown, driven by run_push_manager_loop    *)

\* list_all_subscriptions: what reconcile works from, however long its stops take.
ReconcileList ==
    LET present == {s \in Subs : subs[s] # None}
    IN /\ mgr.pc = "reconcile"
       /\ mgr' = [pc |-> "visit", todo |-> present, seen |-> present, slot |-> None,
                  listed |-> [s \in Subs |-> IF s \in present THEN subs[s].push_config ELSE None]]
       /\ UNCHANGED <<subs, log, lease, done, entries, disp, token, changes>>

\* Mutant: a subscription whose push_config was removed keeps its dispatcher.
needs_restart_if_set(cfg, entry) ==
    cfg # None /\ IF entry = None THEN TRUE ELSE entry.push_config # cfg

needs_restart(cfg, entry) ==
    IF entry = None THEN cfg # None ELSE entry.push_config # cfg

Keep(s) ==
    /\ mgr.pc = "visit" /\ s \in mgr.todo
    /\ ~needs_restart(mgr.listed[s], entries[s])
    /\ mgr' = [mgr EXCEPT !.todo = @ \ {s}]
    /\ UNCHANGED <<subs, log, lease, done, entries, disp, token, changes>>

\* Mutant: the end of the cancelled dispatcher is not awaited.
StopNoJoin(s, pc) ==
    /\ entries[s] # None
    /\ entries' = [entries EXCEPT ![s] = None]
    /\ disp' = [disp EXCEPT ![entries[s].slot].cancel = TRUE]
    /\ UNCHANGED <<mgr, subs, log, lease, done, token, changes>>

\* entries.remove, then DispatcherHandle::stop: cancel, and wait for the task.
Stop(s, pc) ==
    /\ entries[s] # None
    /\ entries' = [entries EXCEPT ![s] = None]
    /\ disp' = [disp EXCEPT ![entries[s].slot].cancel = TRUE]
    /\ mgr' = [mgr EXCEPT !.pc = pc, !.slot = entries[s].slot]
    /\ UNCHANGED <<subs, log, lease, done, token, changes>>

StopOld(s) ==
    /\ mgr.pc = "visit" /\ s \in mgr.todo
    /\ needs_restart(mgr.listed[s], entries[s])
    /\ Stop(s, "stop")

\* dispatcher::spawn with the listed configuration.
Spawn(s) ==
    LET free == {d \in Slots : disp[d].pc = "free"}
        d == CHOOSE e \in free : TRUE
    IN /\ mgr.pc = "visit" /\ s \in mgr.todo
       /\ entries[s] = None
       /\ needs_restart(mgr.listed[s], entries[s])
       /\ free # {}
       /\ disp' = [disp EXCEPT ![d] = [Free EXCEPT !.pc = "spawned", !.sub = s,
                                                   !.push_config = mgr.listed[s]]]
       /\ entries' = [entries EXCEPT ![s] = [push_config |-> mgr.listed[s], slot |-> d]]
       /\ mgr' = [mgr EXCEPT !.todo = @ \ {s}]
       /\ UNCHANGED <<subs, log, lease, done, token, changes>>

StopDeleted(s) ==
    /\ mgr.pc = "visit" /\ mgr.todo = {}
    /\ s \notin mgr.seen
    /\ Stop(s, "stop")

\* The join handle of the stopped dispatcher resolves.
Joined ==
    /\ mgr.pc \in {"stop", "shutdown_stop"}
    /\ disp[mgr.slot].pc = "ended"
    /\ disp' = [disp EXCEPT ![mgr.slot] = Free]
    /\ mgr' = [mgr EXCEPT !.pc = IF @ = "stop" THEN "visit" ELSE "shutdown", !.slot = None]
    /\ UNCHANGED <<subs, log, lease, done, entries, token, changes>>

\* A token cancelled by now ends the select that follows at once.
Reconciled ==
    /\ mgr.pc = "visit" /\ mgr.todo = {}
    /\ \A s \in Subs : entries[s] # None => s \in mgr.seen
    /\ mgr' = [ManagerOff EXCEPT !.pc = IF token THEN "shutdown" ELSE "sleep"]
    /\ UNCHANGED <<subs, log, lease, done, entries, disp, token, changes>>

\* The select: the interval elapses, or the token is cancelled.
ManagerWakes ==
    /\ mgr.pc = "sleep"
    /\ \/ mgr' = [mgr EXCEPT !.pc = "reconcile"]
       \/ token /\ mgr' = [mgr EXCEPT !.pc = "shutdown"]
    /\ UNCHANGED <<subs, log, lease, done, entries, disp, token, changes>>

ShutdownStop(s) == mgr.pc = "shutdown" /\ Stop(s, "shutdown_stop")

ManagerEnds ==
    /\ mgr.pc = "shutdown"
    /\ \A s \in Subs : entries[s] = None
    /\ mgr' = [mgr EXCEPT !.pc = "done"]
    /\ UNCHANGED <<subs, log, lease, done, entries, disp, token, changes>>

ManagerStep ==
    \/ ReconcileList \/ Joined \/ Reconciled \/ ManagerWakes \/ ManagerEnds
    \/ \E s \in Subs : \/ Keep(s) \/ StopOld(s) \/ StopDeleted(s) \/ ShutdownStop(s)
                       \/ Spawn(s)

-----------------------------------------------------------------------------
(* dispatcher::run                                                         *)

\* open_stream is refused for a deleted or detached subscription, and building
\* the HTTP client may fail: either way the task ends, closing what it opened.
OpenStream(d) ==
    LET s == disp[d].sub
    IN /\ disp[d].pc = "spawned"
       /\ \E pc \in {"loop", "ended"} :
             /\ subs[s] = None \/ subs[s].detached => pc = "ended"
             /\ disp' = [disp EXCEPT ![d].pc = pc]
       /\ UNCHANGED <<subs, log, lease, done, mgr, entries, token, changes>>

LoopCancelled(d) ==
    /\ disp[d].pc \in {"loop", "wait"}
    /\ disp[d].cancel
    /\ disp' = [disp EXCEPT ![d].pc = "draining"]
    /\ UNCHANGED <<subs, log, lease, done, mgr, entries, token, changes>>

\* remaining_budget of the dispatcher's own session.
budget(d) == max_concurrency - Cardinality(disp[d].outstanding)

\* The lowest deliverable seqs, as many as the budget allows.
deliverable(d) ==
    LET eligible == {seq \in log : /\ <<disp[d].sub, seq>> \notin done
                                   /\ lease[<<disp[d].sub, seq>>] # "live"}
    IN {seq \in eligible : Cardinality({q \in eligible : q < seq}) < budget(d)}

\* Every task still posting one of these messages now has an out-of-date ack_id.
outdated(tasks, seqs) ==
    [p \in Permits |-> IF tasks[p] # None /\ tasks[p].seq \in seqs
                       THEN [tasks[p] EXCEPT !.stale = TRUE] ELSE tasks[p]]

\* lease_for_stream: lease_next, then record_leased of each message.
LeaseForStream(d) ==
    LET got == deliverable(d)
    IN /\ disp[d].pc = "loop" /\ ~disp[d].cancel
       /\ lease' = [k \in Keys |-> IF k \in {disp[d].sub} \X got THEN "live" ELSE lease[k]]
       /\ disp' = [e \in Slots |->
                     LET t == [disp[e] EXCEPT
                                 !.tasks = IF disp[e].sub = disp[d].sub THEN outdated(@, got) ELSE @]
                     IN IF e # d THEN t
                        ELSE [t EXCEPT !.pc = IF got = {} THEN "wait" ELSE "dispatch",
                                       !.outstanding = @ \cup got, !.batch = got]]
       /\ UNCHANGED <<subs, log, done, mgr, entries, token, changes>>

\* The store fails under lease_next: the loop breaks.
LeaseFails(d) ==
    /\ disp[d].pc = "loop" /\ ~disp[d].cancel
    /\ disp' = [disp EXCEPT ![d].pc = "draining"]
    /\ UNCHANGED <<subs, log, lease, done, mgr, entries, token, changes>>

\* POLL_INTERVAL_ON_EMPTY elapses or a publish notifies.
WaitOver(d) ==
    /\ disp[d].pc = "wait"
    /\ disp' = [disp EXCEPT ![d].pc = "loop"]
    /\ UNCHANGED <<subs, log, lease, done, mgr, entries, token, changes>>

\* A permit per message; the loop waits here, cancelled or not, for a free one.
SpawnDelivery(d) ==
    /\ disp[d].pc = "dispatch"
    /\ \E seq \in disp[d].batch, p \in Permits :
          /\ \A q \in disp[d].batch : seq <= q
          /\ disp[d].tasks[p] = None
          /\ \A q \in 1 .. p - 1 : disp[d].tasks[q] # None
          /\ disp' = [disp EXCEPT ![d].batch = @ \ {seq},
                                  ![d].tasks[p] = [seq |-> seq, stale |-> FALSE],
                                  ![d].pc = IF disp[d].batch = {seq} THEN "loop" ELSE @]
    /\ UNCHANGED <<subs, log, lease, done, mgr, entries, token, changes>>

\* Mutant: the stream is closed without waiting for the deliveries.
AtOnce(d) == disp[d].pc = "draining"

\* acquire_many: every deliver_one task has finished.
AllPermits(d) == disp[d].pc = "draining" /\ disp[d].tasks = NoTasks

\* close_stream releases whatever the session still counts.
CloseStream(d) ==
    /\ AllPermits(d)
    /\ lease' = [k \in Keys |-> IF k \in {disp[d].sub} \X disp[d].outstanding
                                THEN "none" ELSE lease[k]]
    /\ disp' = [disp EXCEPT ![d].pc = "ended", ![d].outstanding = {}]
    /\ UNCHANGED <<subs, log, done, mgr, entries, token, changes>>

DispatcherStep(d) ==
    \/ OpenStream(d) \/ LoopCancelled(d) \/ LeaseForStream(d) \/ LeaseFails(d)
    \/ WaitOver(d) \/ SpawnDelivery(d) \/ CloseStream(d)

-----------------------------------------------------------------------------
(* deliver_one                                                             *)

\* A success code: stream_acknowledge.  The engine ignores an out-of-date ack_id,
\* the session forgets the message either way.
PostOk(d, p) ==
    LET task == disp[d].tasks[p]
        k == <<disp[d].sub, task.seq>>
        current == ~task.stale /\ lease[k] # "none"
    IN /\ task # None
       /\ done' = IF current THEN done \cup {k} ELSE done
       /\ lease' = IF current THEN [lease EXCEPT ![k] = "none"] ELSE lease
       /\ disp' = [disp EXCEPT ![d].tasks[p] = None, ![d].outstanding = @ \ {task.seq}]
       /\ UNCHANGED <<subs, log, mgr, entries, token, changes>>

\* Anything else, a timeout included: stream_modify_ack_deadline by the backoff, at
\* least one second, so the lease is re-armed and the message stays outstanding.
PostFails(d, p) ==
    LET task == disp[d].tasks[p]
        k == <<disp[d].sub, task.seq>>
    IN /\ task # None
       /\ lease' = IF ~task.stale /\ lease[k] # "none" THEN [lease EXCEPT ![k] = "live"] ELSE lease
       /\ disp' = [disp EXCEPT ![d].tasks[p] = None]
       /\ UNCHANGED <<subs, log, done, mgr, entries, token, changes>>

DeliverOne(d, p) == PostOk(d, p) \/ PostFails(d, p)

-----------------------------------------------------------------------------
Clients ==
    \/ Publish
    \/ \E s \in Subs : \/ DetachSubscription(s) \/ DeleteSubscription(s)
                       \/ \E cfg \in Configs \cup {None} : ModifyPushConfig(s, cfg)

PushTasks == ManagerStep \/ \E d \in Slots : DispatcherStep(d) \/ \E p \in Permits : DeliverOne(d, p)

PushNext == Clients \/ (\E k \in Keys : Expire(k)) \/ PushTasks

\* The runtime runs every task that can go on, a post ends (push_timeout_secs) and
\* time passes.  No fairness for clients, or the outcome of a post.
PushFairness ==
    /\ WF_pushVars(ManagerStep)
    /\ \A d \in Slots : WF_pushVars(DispatcherStep(d))
    /\ \A d \in Slots, p \in Permits : WF_pushVars(DeliverOne(d, p))
    /\ \A k \in Keys : WF_pushVars(Expire(k))

PushInit == Quiet("reconcile")

PushSpec == PushInit /\ [][PushNext]_pushVars /\ PushFairness

-----------------------------------------------------------------------------
(* Correctness                                                             *)

\* A dispatcher task of s that has not ended.
Live(d, s) == disp[d].sub = s /\ disp[d].pc \notin {"free", "ended"}

\* A subscription is never pushed by two dispatchers at once, however its push_config
\* changes while an old dispatcher is still waiting for its deliveries (reconcile
\* awaits stop() before it spawns).
OneDispatcherPerSub ==
    \A s \in Subs : \A d, e \in Slots : Live(d, s) /\ Live(e, s) => d = e

\* No deliver_one task acks or re-arms a lease after its dispatcher closed the stream
\* ("which could otherwise land after (and silently undo) close_stream's release").
NoDeliveryAfterClose ==
    \A d \in Slots : disp[d].pc = "ended" => disp[d].tasks = NoTasks /\ disp[d].batch = {}

\* The push_config of s is cfg (None: no push, or no subscription).
Wants(s, cfg) ==
    IF cfg = None THEN subs[s] = None \/ subs[s].push_config = None
    ELSE subs[s] # None /\ subs[s].push_config = cfg

\* Reconciliation converges: once a subscription's push_config stays the same, only
\* dispatchers of that configuration go on running, and one has been started.
ReconcileConverges ==
    \A s \in Subs, cfg \in Configs \cup {None} :
        <>[](Wants(s, cfg) /\ mgr.pc # "off" /\ ~token) =>
            <>[](/\ \A d \in Slots : Live(d, s) => disp[d].push_config = cfg
                 /\ IF cfg = None THEN entries[s] = None
                    ELSE entries[s] # None /\ entries[s].push_config = cfg)

\* A dispatcher of s is at work.
Serving(s) ==
    \E d \in Slots : /\ disp[d].sub = s /\ ~disp[d].cancel
                     /\ disp[d].pc \in {"loop", "wait", "dispatch"}

Posting(s, seq) ==
    \E d \in Slots : disp[d].sub = s /\ \E p \in Permits : disp[d].tasks[p] # None
                                                      /\ disp[d].tasks[p].seq = seq

\* A message is posted again and again until it is acknowledged, as long as a
\* dispatcher works for the subscription (dispatcher.rs: "extending the ack deadline
\* (exponential backoff) on failure so the self-healing lease reclaim ... redelivers
\* it").
PushIsRetried ==
    \A s \in Subs : \A seq \in Seqs :
        (seq \in log /\ Serving(s)) ~> (Posting(s, seq) \/ <<s, seq>> \in done \/ ~Serving(s))

=============================================================================
