----------------------------- MODULE PushProofs -----------------------------
(***************************************************************************)
(* Push delivery for any number of subscriptions, dispatchers, permits and *)
(* messages: a subscription has at most one dispatcher, and a delivery     *)
(* never outlives the dispatcher that started it.                          *)
(***************************************************************************)
EXTENDS Push, FiniteSetTheorems, TLAPS

\* The manager is waiting for the end of the dispatcher it stopped last.
Stopping == mgr.pc \in {"stop", "shutdown_stop"}

\* Every dispatcher that exists belongs to the manager: it is the one of its
\* subscription's entry, or the one being stopped, whose subscription has no entry.
\* An entry names a dispatcher of its own subscription.
Owned ==
    /\ \A s \in Subs : entries[s] # None =>
          disp[entries[s].slot].pc # "free" /\ disp[entries[s].slot].sub = s
    /\ \A d \in Slots : disp[d].pc # "free" =>
          /\ disp[d].sub \in Subs
          /\ \/ entries[disp[d].sub] # None /\ entries[disp[d].sub].slot = d
             \/ Stopping /\ mgr.slot = d
    /\ Stopping => /\ mgr.slot \in Slots /\ disp[mgr.slot].pc # "free"
                   /\ entries[disp[mgr.slot].sub] = None

\* Only a dispatcher that dispatches has a batch, and only one that has opened its
\* stream, and not yet closed it, has deliveries.
Working(r) == /\ r.pc # "dispatch" => r.batch = {}
              /\ r.pc \in {"free", "spawned", "ended"} => r.tasks = NoTasks

PushInv == PushTypeOK /\ Owned /\ \A d \in Slots : Working(disp[d])

-----------------------------------------------------------------------------
(* Types                                                                   *)

\* The seq of the next message exists while the log is not full (Publish).
LEMMA NextSeqType ==
    ASSUME NEW l \in SUBSET Seqs, Cardinality(l) < MaxSeq
    PROVE  Cardinality(l) + 1 \in Seqs
<1>1. IsFiniteSet(Seqs)
  BY FS_Interval, PushAssumption DEF Seqs
<1>2. IsFiniteSet(l)
  BY <1>1, FS_Subset
<1> QED
  BY <1>2, FS_CardinalityType, PushAssumption DEF Seqs

States == {"free", "spawned", "loop", "wait", "dispatch", "draining", "ended"}

\* A field of a dispatcher may be given any value of its type.
LEMMA DispatcherUpdate ==
    ASSUME NEW r \in Dispatcher
    PROVE  /\ [r EXCEPT !.cancel = TRUE] \in Dispatcher
           /\ \A pc \in States : [r EXCEPT !.pc = pc] \in Dispatcher
           /\ \A out \in SUBSET Seqs : [r EXCEPT !.outstanding = out] \in Dispatcher
           /\ \A b \in SUBSET Seqs : [r EXCEPT !.batch = b] \in Dispatcher
           /\ \A ts \in [Permits -> Task \cup {None}] : [r EXCEPT !.tasks = ts] \in Dispatcher
<1>1. [r EXCEPT !.cancel = TRUE] \in Dispatcher
  BY DEF Dispatcher
<1>2. \A pc \in States : [r EXCEPT !.pc = pc] \in Dispatcher
  BY DEF Dispatcher, States
<1>3. \A out \in SUBSET Seqs : [r EXCEPT !.outstanding = out] \in Dispatcher
  BY DEF Dispatcher
<1>4. \A b \in SUBSET Seqs : [r EXCEPT !.batch = b] \in Dispatcher
  BY DEF Dispatcher
<1>5. \A ts \in [Permits -> Task \cup {None}] : [r EXCEPT !.tasks = ts] \in Dispatcher
  BY DEF Dispatcher
<1> QED
  BY <1>1, <1>2, <1>3, <1>4, <1>5

\* Client requests and the passing of time keep the types (Publish, ModifyPushConfig,
\* DetachSubscription, DeleteSubscription, Expire).
LEMMA ClientsType ==
    ASSUME PushTypeOK, Clients \/ \E k \in Keys : Expire(k)
    PROVE  PushTypeOK'
<1> USE PushAssumption DEF PushTypeOK
<1>1. CASE Publish
  BY <1>1, NextSeqType DEF Publish
<1>2. ASSUME NEW s \in Subs, NEW cfg \in Configs \cup {None}, ModifyPushConfig(s, cfg)
      PROVE  PushTypeOK'
  BY <1>2 DEF ModifyPushConfig, Record
<1>3. ASSUME NEW s \in Subs, DetachSubscription(s) PROVE PushTypeOK'
  <2>1. subs[s] \in Record
    BY <1>3 DEF DetachSubscription
  <2>2. [subs[s] EXCEPT !.detached = TRUE] \in Record
    BY <2>1 DEF Record
  <2>3. subs' \in [Subs -> Record \cup {None}]
    BY <1>3, <2>2 DEF DetachSubscription
  <2> QED
    BY <1>3, <2>3 DEF DetachSubscription
<1>4. ASSUME NEW s \in Subs, DeleteSubscription(s) PROVE PushTypeOK'
  BY <1>4 DEF DeleteSubscription
<1>5. ASSUME NEW k \in Keys, Expire(k) PROVE PushTypeOK'
  BY <1>5 DEF Expire
<1> QED
  BY <1>1, <1>2, <1>3, <1>4, <1>5 DEF Clients

\* The manager keeps the types (PushManager::reconcile and shutdown).
LEMMA ManagerType ==
    ASSUME PushTypeOK, ManagerStep
    PROVE  PushTypeOK'
<1> USE PushAssumption DEF PushTypeOK
<1>1. CASE ReconcileList
  BY <1>1 DEF ReconcileList, Manager, Record
<1>2. CASE Joined
  <2>1. Free \in Dispatcher
    BY DEF Free, Dispatcher, NoTasks
  <2> QED
    BY <1>2, <2>1 DEF Joined, Manager
<1>3. CASE Reconciled
  BY <1>3 DEF Reconciled, Manager, ManagerOff
<1>4. CASE ManagerWakes
  BY <1>4 DEF ManagerWakes, Manager
<1>5. CASE ManagerEnds
  BY <1>5 DEF ManagerEnds, Manager
<1>6. ASSUME NEW s \in Subs, Keep(s) PROVE PushTypeOK'
  BY <1>6 DEF Keep, Manager
<1>7. ASSUME NEW s \in Subs, NEW pc \in {"stop", "shutdown_stop"}, Stop(s, pc)
      PROVE  PushTypeOK'
  <2>1. entries[s].slot \in Slots
    BY <1>7 DEF Stop, Entry
  <2> DEFINE d == entries[s].slot
  <2>2. [disp[d] EXCEPT !.cancel = TRUE] \in Dispatcher
    BY <2>1, DispatcherUpdate
  <2>3. disp' \in [Slots -> Dispatcher]
    BY <1>7, <2>1, <2>2 DEF Stop
  <2> QED
    BY <1>7, <2>1, <2>3 DEF Stop, Manager
<1>8. ASSUME NEW s \in Subs, Spawn(s) PROVE PushTypeOK'
  <2>1. PICK d \in Slots :
           /\ disp' = [disp EXCEPT ![d] = [Free EXCEPT !.pc = "spawned", !.sub = s,
                                                       !.push_config = mgr.listed[s]]]
           /\ entries' = [entries EXCEPT ![s] = [push_config |-> mgr.listed[s], slot |-> d]]
    BY <1>8 DEF Spawn
  <2>2. mgr.listed[s] \in Configs
    BY <1>8 DEF Spawn, needs_restart, Manager
  <2>3. [Free EXCEPT !.pc = "spawned", !.sub = s, !.push_config = mgr.listed[s]] \in Dispatcher
    BY <2>2 DEF Free, Dispatcher, NoTasks
  <2>4. disp' \in [Slots -> Dispatcher] /\ entries' \in [Subs -> Entry \cup {None}]
    BY <2>1, <2>2, <2>3 DEF Entry
  <2>5. mgr' \in Manager
    BY <1>8 DEF Spawn, Manager
  <2> QED
    BY <1>8, <2>4, <2>5 DEF Spawn
<1> QED
  BY <1>1, <1>2, <1>3, <1>4, <1>5, <1>6, <1>7, <1>8
     DEF ManagerStep, StopOld, StopDeleted, ShutdownStop

\* A dispatcher task keeps the types (dispatcher::run).
LEMMA DispatcherType ==
    ASSUME PushTypeOK, NEW d \in Slots, DispatcherStep(d)
    PROVE  PushTypeOK'
<1> USE PushAssumption DEF PushTypeOK
<1>0. disp[d] \in Dispatcher
  OBVIOUS
<1>1. CASE OpenStream(d)
  <2>1. disp' \in [Slots -> Dispatcher]
    BY <1>0, <1>1, DispatcherUpdate DEF OpenStream, States
  <2> QED
    BY <1>1, <2>1 DEF OpenStream
<1>2. CASE LoopCancelled(d) \/ LeaseFails(d) \/ WaitOver(d)
  <2>1. disp' \in [Slots -> Dispatcher]
    BY <1>0, <1>2, DispatcherUpdate DEF LoopCancelled, LeaseFails, WaitOver, States
  <2> QED
    BY <1>2, <2>1 DEF LoopCancelled, LeaseFails, WaitOver
<1>3. CASE LeaseForStream(d)
  <2> DEFINE got == deliverable(d)
             t(e) == [disp[e] EXCEPT
                        !.tasks = IF disp[e].sub = disp[d].sub THEN outdated(@, got) ELSE @]
             u == [t(d) EXCEPT !.pc = IF got = {} THEN "wait" ELSE "dispatch",
                               !.outstanding = @ \cup got, !.batch = got]
  <2>1. got \in SUBSET Seqs
    BY DEF deliverable
  <2>2. ASSUME NEW e \in Slots PROVE t(e) \in Dispatcher
    <3>1. disp[e] \in Dispatcher /\ disp[e].tasks \in [Permits -> Task \cup {None}]
      BY DEF Dispatcher
    <3>2. outdated(disp[e].tasks, got) \in [Permits -> Task \cup {None}]
      BY <3>1 DEF outdated, Task
    <3> QED
      BY <3>1, <3>2, DispatcherUpdate
  <2>3. u \in Dispatcher
    <3> HIDE DEF t, got
    <3>1. t(d) \in Dispatcher
      BY <2>2
    <3> QED
      BY <2>1, <3>1 DEF Dispatcher
  <2>4. disp' = [e \in Slots |-> IF e # d THEN t(e) ELSE u]
    BY <1>3 DEF LeaseForStream
  <2>5. disp' \in [Slots -> Dispatcher]
    <3> HIDE DEF t, u
    <3> QED
      BY <2>2, <2>3, <2>4
  <2>6. lease' \in [Keys -> {"none", "live", "expired"}]
    BY <1>3 DEF LeaseForStream
  <2> QED
    BY <1>3, <2>5, <2>6 DEF LeaseForStream
<1>4. CASE SpawnDelivery(d)
  <2>1. PICK seq \in disp[d].batch, p \in Permits :
          disp' = [disp EXCEPT ![d].batch = @ \ {seq},
                               ![d].tasks[p] = [seq |-> seq, stale |-> FALSE],
                               ![d].pc = IF disp[d].batch = {seq} THEN "loop" ELSE @]
    BY <1>4 DEF SpawnDelivery
  <2> DEFINE ts == [disp[d].tasks EXCEPT ![p] = [seq |-> seq, stale |-> FALSE]]
             pc == IF disp[d].batch = {seq} THEN "loop" ELSE disp[d].pc
             r == [[[disp[d] EXCEPT !.batch = @ \ {seq}] EXCEPT !.tasks = ts] EXCEPT !.pc = pc]
  <2>2. seq \in Seqs /\ disp[d].tasks \in [Permits -> Task \cup {None}] /\ pc \in States
        /\ disp[d].batch \ {seq} \in SUBSET Seqs
    BY <1>0 DEF Dispatcher, States
  <2>3. ts \in [Permits -> Task \cup {None}]
    BY <2>2 DEF Task
  <2>4. r \in Dispatcher
    <3> HIDE DEF ts, pc
    <3>1. [disp[d] EXCEPT !.batch = @ \ {seq}] \in Dispatcher
      BY <1>0, <2>2, DispatcherUpdate
    <3>2. [[disp[d] EXCEPT !.batch = @ \ {seq}] EXCEPT !.tasks = ts] \in Dispatcher
      BY <3>1, <2>3, DispatcherUpdate
    <3> QED
      BY <3>2, <2>2, DispatcherUpdate
  <2>5. disp' = [disp EXCEPT ![d] = r]
    BY <1>0, <2>1 DEF Dispatcher
  <2>6. disp' \in [Slots -> Dispatcher]
    <3> HIDE DEF r
    <3> QED
      BY <2>4, <2>5
  <2> QED
    BY <1>4, <2>6 DEF SpawnDelivery
<1>5. CASE CloseStream(d)
  <2>1. [[disp[d] EXCEPT !.pc = "ended"] EXCEPT !.outstanding = {}] \in Dispatcher
    BY <1>0, DispatcherUpdate DEF States
  <2>2. disp' = [disp EXCEPT ![d] = [[disp[d] EXCEPT !.pc = "ended"] EXCEPT !.outstanding = {}]]
    BY <1>5, <1>0 DEF CloseStream, Dispatcher
  <2>3. disp' \in [Slots -> Dispatcher]
    BY <2>1, <2>2
  <2>4. lease' \in [Keys -> {"none", "live", "expired"}]
    BY <1>5 DEF CloseStream
  <2> QED
    BY <1>5, <2>3, <2>4 DEF CloseStream
<1> QED
  BY <1>1, <1>2, <1>3, <1>4, <1>5 DEF DispatcherStep

\* A delivery keeps the types (deliver_one).
LEMMA DeliverType ==
    ASSUME PushTypeOK, NEW d \in Slots, NEW p \in Permits, DeliverOne(d, p),
           disp[d].sub \in Subs
    PROVE  PushTypeOK'
<1> USE PushAssumption DEF PushTypeOK
<1> DEFINE task == disp[d].tasks[p]
           k == <<disp[d].sub, task.seq>>
           ts == [disp[d].tasks EXCEPT ![p] = None]
<1>0. disp[d] \in Dispatcher /\ disp[d].tasks \in [Permits -> Task \cup {None}]
      /\ disp[d].outstanding \in SUBSET Seqs
  BY DEF Dispatcher
<1>1. ts \in [Permits -> Task \cup {None}]
  BY <1>0
<1>2. task # None => k \in Keys
  BY <1>0 DEF Task, Keys
<1>3. [disp[d] EXCEPT !.tasks = ts] \in Dispatcher
  BY <1>0, <1>1, DispatcherUpdate
<1>4. CASE PostOk(d, p)
  <2>1. [[disp[d] EXCEPT !.tasks = ts] EXCEPT !.outstanding = disp[d].outstanding \ {task.seq}]
          \in Dispatcher
    <3>1. disp[d].outstanding \ {task.seq} \in SUBSET Seqs
      BY <1>0
    <3> QED
      BY <3>1, <1>3, DispatcherUpdate
  <2>2. disp' = [disp EXCEPT ![d] = [[disp[d] EXCEPT !.tasks = ts]
                        EXCEPT !.outstanding = disp[d].outstanding \ {task.seq}]]
    BY <1>4, <1>0 DEF PostOk, Dispatcher
  <2>3. disp' \in [Slots -> Dispatcher]
    BY <2>1, <2>2
  <2>4. done' \in SUBSET Keys /\ lease' \in [Keys -> {"none", "live", "expired"}]
    BY <1>4, <1>2 DEF PostOk
  <2> QED
    BY <1>4, <2>3, <2>4 DEF PostOk
<1>5. CASE PostFails(d, p)
  <2>1. disp' = [disp EXCEPT ![d] = [disp[d] EXCEPT !.tasks = ts]]
    BY <1>5, <1>0 DEF PostFails, Dispatcher
  <2>2. disp' \in [Slots -> Dispatcher]
    BY <1>3, <2>1
  <2>3. lease' \in [Keys -> {"none", "live", "expired"}]
    BY <1>5, <1>2 DEF PostFails
  <2> QED
    BY <1>5, <2>2, <2>3 DEF PostFails
<1> QED
  BY <1>4, <1>5 DEF DeliverOne

-----------------------------------------------------------------------------
(* Ownership                                                               *)

\* A dispatcher's own steps and its deliveries neither create nor free a dispatcher,
\* nor move one to another subscription.
LEMMA TasksKeepDispatchers ==
    ASSUME PushTypeOK, NEW d \in Slots,
           DispatcherStep(d) \/ \E p \in Permits : DeliverOne(d, p)
    PROVE  /\ UNCHANGED <<mgr, entries>>
           /\ \A e \in Slots : /\ disp'[e].sub = disp[e].sub
                               /\ disp'[e].pc = "free" <=> disp[e].pc = "free"
<1> USE DEF PushTypeOK, Dispatcher
<1>1. CASE OpenStream(d) \/ LoopCancelled(d) \/ LeaseFails(d) \/ WaitOver(d)
  BY <1>1 DEF OpenStream, LoopCancelled, LeaseFails, WaitOver
<1>2. CASE LeaseForStream(d)
  BY <1>2 DEF LeaseForStream
<1>3. CASE SpawnDelivery(d)
  BY <1>3 DEF SpawnDelivery
<1>4. CASE CloseStream(d)
  BY <1>4 DEF CloseStream, AllPermits
<1>5. ASSUME NEW p \in Permits, DeliverOne(d, p)
      PROVE  /\ UNCHANGED <<mgr, entries>>
             /\ \A e \in Slots : /\ disp'[e].sub = disp[e].sub
                                 /\ disp'[e].pc = disp[e].pc
  <2>1. UNCHANGED <<mgr, entries>>
    BY <1>5 DEF DeliverOne, PostOk, PostFails
  <2>2. CASE PostOk(d, p)
    <3>1. disp' = [disp EXCEPT ![d].tasks[p] = None,
                               ![d].outstanding = @ \ {disp[d].tasks[p].seq}]
      BY <2>2 DEF PostOk
    <3> QED
      BY <2>1, <3>1
  <2>3. CASE PostFails(d, p)
    <3>1. disp' = [disp EXCEPT ![d].tasks[p] = None]
      BY <2>3 DEF PostFails
    <3> QED
      BY <2>1, <3>1
  <2> QED
    BY <1>5, <2>2, <2>3 DEF DeliverOne
<1> QED
  BY <1>1, <1>2, <1>3, <1>4, <1>5 DEF DispatcherStep

\* Hence they leave ownership alone.
LEMMA TasksKeepOwned ==
    ASSUME PushTypeOK, Owned, UNCHANGED <<mgr, entries>>,
           \A e \in Slots : /\ disp'[e].sub = disp[e].sub
                            /\ disp'[e].pc = "free" <=> disp[e].pc = "free"
    PROVE  Owned'
<1>1. \A s \in Subs : entries[s] # None => entries[s].slot \in Slots
  BY DEF PushTypeOK, Entry
<1> QED
  BY <1>1 DEF Owned, Stopping

\* Every step of the manager keeps ownership: reconcile awaits the end of the
\* dispatcher whose entry it removed before it starts another.
LEMMA ManagerKeepsOwned ==
    ASSUME PushTypeOK, Owned, ManagerStep
    PROVE  Owned'
<1>0. /\ \A s \in Subs : entries[s] # None => entries[s].slot \in Slots
      /\ disp \in [Slots -> Dispatcher]
      /\ entries \in [Subs -> Entry \cup {None}]
      /\ mgr \in Manager
  BY DEF PushTypeOK, Entry
<1>1. CASE ReconcileList \/ Reconciled \/ ManagerWakes \/ ManagerEnds
  <2>1. UNCHANGED <<entries, disp>> /\ ~Stopping /\ ~Stopping'
    BY <1>0, <1>1 DEF ReconcileList, Reconciled, ManagerWakes, ManagerEnds, Stopping, Manager, ManagerOff
  <2> QED
    BY <2>1 DEF Owned
<1>2. CASE Joined
  <2> DEFINE d == mgr.slot
  <2>1. /\ Stopping /\ ~Stopping' /\ d \in Slots /\ UNCHANGED entries
        /\ disp' = [disp EXCEPT ![d] = Free]
        /\ entries[disp[d].sub] = None
    BY <1>0, <1>2 DEF Joined, Stopping, Owned, Manager
  <2>2. \A s \in Subs : entries[s] # None => entries[s].slot # d
    BY <2>1 DEF Owned
  <2>3. \A e \in Slots : e # d => disp'[e] = disp[e]
    BY <1>0, <2>1
  <2>4. disp'[d].pc = "free"
    BY <1>0, <2>1 DEF Free
  <2> QED
    BY <1>0, <2>1, <2>2, <2>3, <2>4 DEF Owned
<1>3. ASSUME NEW s \in Subs, Keep(s) PROVE Owned'
  <2>1. UNCHANGED <<entries, disp>> /\ ~Stopping /\ ~Stopping'
    BY <1>0, <1>3 DEF Keep, Stopping, Manager
  <2> QED
    BY <2>1 DEF Owned
<1>4. ASSUME NEW s \in Subs, NEW pc \in {"stop", "shutdown_stop"}, ~Stopping, Stop(s, pc)
      PROVE  Owned'
  <2> DEFINE d == entries[s].slot
  <2>1. /\ d \in Slots /\ disp[d].pc # "free" /\ disp[d].sub = s
    BY <1>0, <1>4 DEF Stop, Owned
  <2>2. /\ Stopping' /\ mgr'.slot = d
        /\ entries' = [entries EXCEPT ![s] = None]
        /\ \A e \in Slots : disp'[e].pc = disp[e].pc /\ disp'[e].sub = disp[e].sub
    BY <1>0, <1>4, <2>1 DEF Stop, Stopping, Manager, Dispatcher
  <2> HIDE DEF d
  <2>3. \A e \in Slots : disp[e].pc # "free" /\ e # d =>
           disp[e].sub # s /\ disp[e].sub \in Subs /\ entries[disp[e].sub] # None
           /\ entries[disp[e].sub].slot = e
    BY <1>0, <1>4 DEF Owned, d
  <2>4. \A r \in Subs : entries'[r] # None => r # s /\ entries'[r] = entries[r]
    BY <1>0, <2>2
  <2> QED
    BY <1>0, <2>1, <2>2, <2>3, <2>4 DEF Owned
<1>5. ASSUME NEW s \in Subs, Spawn(s) PROVE Owned'
  <2>1. PICK d \in Slots :
           /\ disp[d].pc = "free"
           /\ disp' = [disp EXCEPT ![d] = [Free EXCEPT !.pc = "spawned", !.sub = s,
                                                       !.push_config = mgr.listed[s]]]
           /\ entries' = [entries EXCEPT ![s] = [push_config |-> mgr.listed[s], slot |-> d]]
    BY <1>5 DEF Spawn
  <2>2. ~Stopping /\ ~Stopping' /\ entries[s] = None
    BY <1>0, <1>5 DEF Spawn, Stopping, Manager
  <2>3. /\ disp'[d].pc = "spawned" /\ disp'[d].sub = s
        /\ entries'[s] # None /\ entries'[s].slot = d
    <3>1. mgr.listed[s] \in Configs
      BY <1>0, <1>5 DEF Spawn, needs_restart, Manager
    <3>2. [push_config |-> mgr.listed[s], slot |-> d] \in Entry
      BY <3>1 DEF Entry
    <3>3. entries'[s] # None /\ entries'[s].slot = d
      BY <1>0, <2>1, <3>2, NoneAssumption
    <3>4. disp'[d] = [Free EXCEPT !.pc = "spawned", !.sub = s, !.push_config = mgr.listed[s]]
      BY <1>0, <2>1
    <3> QED
      BY <3>3, <3>4 DEF Free
  <2>4. \A e \in Slots : e # d => disp'[e] = disp[e]
    BY <1>0, <2>1
  <2>5. \A r \in Subs : r # s => entries'[r] = entries[r]
    BY <1>0, <2>1
  <2>6. \A e \in Slots : disp[e].pc # "free" => e # d /\ disp[e].sub # s
    BY <2>1, <2>2 DEF Owned
  <2>7. \A r \in Subs : entries[r] # None => entries[r].slot # d
    BY <2>1 DEF Owned
  <2> QED
    BY <1>0, <2>2, <2>3, <2>4, <2>5, <2>6, <2>7 DEF Owned
<1> QED
  BY <1>1, <1>2, <1>3, <1>4, <1>5
     DEF ManagerStep, StopOld, StopDeleted, ShutdownStop, Stopping

-----------------------------------------------------------------------------
(* Deliveries and their dispatcher                                         *)

\* Leasing a message again makes no delivery appear in an idle dispatcher.
LEMMA OutdatedNoTasks ==
    ASSUME NEW seqs PROVE outdated(NoTasks, seqs) = NoTasks
  BY DEF outdated, NoTasks

\* A dispatcher's own step keeps every dispatcher's deliveries within the life of
\* its stream: it closes the stream only when it holds every permit.
LEMMA DispatchersKeepWorking ==
    ASSUME PushTypeOK, \A e \in Slots : Working(disp[e]),
           NEW d \in Slots, DispatcherStep(d)
    PROVE  \A e \in Slots : Working(disp'[e])
<1> USE DEF PushTypeOK, Dispatcher
<1>1. CASE OpenStream(d)
  BY <1>1 DEF OpenStream, Working
<1>2. CASE LoopCancelled(d) \/ LeaseFails(d) \/ WaitOver(d)
  BY <1>2 DEF LoopCancelled, LeaseFails, WaitOver, Working
<1>3. CASE LeaseForStream(d)
  <2> DEFINE got == deliverable(d)
  <2>1. ASSUME NEW e \in Slots, e # d PROVE Working(disp'[e])
    <3>1. /\ disp'[e].pc = disp[e].pc /\ disp'[e].batch = disp[e].batch
          /\ disp'[e].tasks = IF disp[e].sub = disp[d].sub THEN outdated(disp[e].tasks, got)
                              ELSE disp[e].tasks
      BY <1>3, <2>1 DEF LeaseForStream
    <3> HIDE DEF got
    <3> QED
      BY <3>1, OutdatedNoTasks DEF Working
  <2>2. Working(disp'[d])
    <3>1. /\ disp'[d].pc = IF got = {} THEN "wait" ELSE "dispatch"
          /\ disp'[d].batch = got
      BY <1>3 DEF LeaseForStream
    <3> HIDE DEF got
    <3> QED
      BY <3>1 DEF Working
  <2> QED
    BY <2>1, <2>2
<1>4. CASE SpawnDelivery(d)
  <2>1. \A e \in Slots : e # d => disp'[e] = disp[e]
    BY <1>4 DEF SpawnDelivery
  <2>2. PICK seq \in disp[d].batch, p \in Permits :
          disp' = [disp EXCEPT ![d].batch = @ \ {seq},
                               ![d].tasks[p] = [seq |-> seq, stale |-> FALSE],
                               ![d].pc = IF disp[d].batch = {seq} THEN "loop" ELSE @]
    BY <1>4 DEF SpawnDelivery
  <2>3. /\ disp'[d].batch = disp[d].batch \ {seq}
        /\ disp'[d].pc = IF disp[d].batch = {seq} THEN "loop" ELSE disp[d].pc
    BY <2>2
  <2>4. Working(disp'[d])
    BY <1>4, <2>3 DEF SpawnDelivery, Working
  <2> QED
    BY <2>1, <2>4
<1>5. CASE CloseStream(d)
  BY <1>5 DEF CloseStream, AllPermits, Working
<1> QED
  BY <1>1, <1>2, <1>3, <1>4, <1>5 DEF DispatcherStep

\* A delivery that ends leaves one delivery less.
LEMMA DeliveriesKeepWorking ==
    ASSUME PushTypeOK, \A e \in Slots : Working(disp[e]),
           NEW d \in Slots, NEW p \in Permits, DeliverOne(d, p)
    PROVE  \A e \in Slots : Working(disp'[e])
<1>1. disp[d].tasks[p] # None
  BY DEF DeliverOne, PostOk, PostFails
<1>2. disp[d].pc \notin {"free", "spawned", "ended"}
  BY <1>1 DEF Working, NoTasks
<1>3. \A e \in Slots : /\ e # d => disp'[e] = disp[e]
                       /\ disp'[e].pc = disp[e].pc /\ disp'[e].batch = disp[e].batch
  <2>1. CASE PostOk(d, p)
    <3>1. disp' = [disp EXCEPT ![d].tasks[p] = None,
                               ![d].outstanding = @ \ {disp[d].tasks[p].seq}]
      BY <2>1 DEF PostOk
    <3> QED
      BY <3>1 DEF PushTypeOK, Dispatcher
  <2>2. CASE PostFails(d, p)
    <3>1. disp' = [disp EXCEPT ![d].tasks[p] = None]
      BY <2>2 DEF PostFails
    <3> QED
      BY <3>1 DEF PushTypeOK, Dispatcher
  <2> QED
    BY <2>1, <2>2 DEF DeliverOne
<1> QED
  BY <1>2, <1>3 DEF Working

\* The manager only cancels dispatchers, frees those that have ended and starts new ones.
LEMMA ManagerKeepsWorking ==
    ASSUME PushTypeOK, Owned, \A e \in Slots : Working(disp[e]), ManagerStep
    PROVE  \A e \in Slots : Working(disp'[e])
<1>0. /\ \A s \in Subs : entries[s] # None => entries[s].slot \in Slots
      /\ disp \in [Slots -> Dispatcher]
  BY DEF PushTypeOK, Entry
<1>1. CASE UNCHANGED disp
  BY <1>1
<1>2. CASE Joined
  <2>1. mgr.slot \in Slots /\ disp' = [disp EXCEPT ![mgr.slot] = Free]
    BY <1>2 DEF Joined, Owned, Stopping
  <2> QED
    BY <1>0, <2>1 DEF Working, Free
<1>3. ASSUME NEW s \in Subs, NEW pc \in {"stop", "shutdown_stop"}, Stop(s, pc)
      PROVE  \A e \in Slots : Working(disp'[e])
  BY <1>0, <1>3 DEF Stop, Working, Dispatcher
<1>4. ASSUME NEW s \in Subs, Spawn(s) PROVE \A e \in Slots : Working(disp'[e])
  <2>1. PICK d \in Slots :
           disp' = [disp EXCEPT ![d] = [Free EXCEPT !.pc = "spawned", !.sub = s,
                                                    !.push_config = mgr.listed[s]]]
    BY <1>4 DEF Spawn
  <2> QED
    BY <1>0, <2>1 DEF Working, Free
<1> QED
  BY <1>1, <1>2, <1>3, <1>4
     DEF ManagerStep, ReconcileList, Reconciled, ManagerWakes, ManagerEnds, Keep,
         StopOld, StopDeleted, ShutdownStop

-----------------------------------------------------------------------------
(* The theorems                                                            *)

\* The push tasks keep the invariant.
LEMMA PushTasksKeepInv ==
    ASSUME PushInv, PushTasks PROVE PushInv'
<1> USE DEF PushInv
<1>1. CASE ManagerStep
  BY <1>1, ManagerType, ManagerKeepsOwned, ManagerKeepsWorking
<1>2. ASSUME NEW d \in Slots, DispatcherStep(d) PROVE PushInv'
  BY <1>2, DispatcherType, TasksKeepDispatchers, TasksKeepOwned, DispatchersKeepWorking
<1>3. ASSUME NEW d \in Slots, NEW p \in Permits, DeliverOne(d, p) PROVE PushInv'
  <2>1. disp[d].sub \in Subs
    <3>1. disp[d].tasks[p] # None
      BY <1>3 DEF DeliverOne, PostOk, PostFails
    <3> QED
      BY <3>1 DEF Working, NoTasks, Owned
  <2> QED
    BY <1>3, <2>1, DeliverType, TasksKeepDispatchers, TasksKeepOwned, DeliveriesKeepWorking
<1> QED
  BY <1>1, <1>2, <1>3 DEF PushTasks

\* So do clients and time, which leave manager and dispatchers alone.
LEMMA ClientsKeepInv ==
    ASSUME PushInv, Clients \/ \E k \in Keys : Expire(k) PROVE PushInv'
<1>1. UNCHANGED <<mgr, entries, disp>>
  BY DEF Clients, Publish, ModifyPushConfig, DetachSubscription, DeleteSubscription, Expire
<1> QED
  BY <1>1, ClientsType DEF PushInv, Owned, Stopping

\* The invariant holds while nothing has been started, wherever the manager begins.
LEMMA QuietInv ==
    ASSUME NEW pc \in {"off", "reconcile"}, Quiet(pc) PROVE PushInv
<1>1. PushTypeOK
  <2>1. Free \in Dispatcher
    BY DEF Free, Dispatcher, NoTasks
  <2>2. [ManagerOff EXCEPT !.pc = pc] \in Manager
    BY DEF ManagerOff, Manager
  <2>3. subs \in [Subs -> Record \cup {None}]
    BY DEF Quiet, Record
  <2>4. mgr \in Manager /\ disp \in [Slots -> Dispatcher]
    BY <2>1, <2>2 DEF Quiet
  <2>5. /\ entries \in [Subs -> Entry \cup {None}]
        /\ lease \in [Keys -> {"none", "live", "expired"}]
        /\ log \subseteq Seqs /\ done \subseteq Keys /\ token \in BOOLEAN
    BY DEF Quiet
  <2>6. changes \in 0 .. MaxChanges
    BY PushAssumption DEF Quiet
  <2> QED
    BY <2>3, <2>4, <2>5, <2>6 DEF PushTypeOK
<1>2. Owned
  BY DEF Quiet, Owned, Stopping, ManagerOff, Free
<1>3. \A d \in Slots : Working(disp[d])
  BY DEF Quiet, Working, Free
<1> QED
  BY <1>1, <1>2, <1>3 DEF PushInv

\* The invariant says that a subscription has one dispatcher at most.
LEMMA InvOneDispatcher ==
    ASSUME PushInv PROVE OneDispatcherPerSub /\ NoDeliveryAfterClose
<1>1. OneDispatcherPerSub
  BY DEF PushInv, OneDispatcherPerSub, Live, Owned
<1>2. NoDeliveryAfterClose
  BY DEF PushInv, NoDeliveryAfterClose, Working
<1> QED
  BY <1>1, <1>2

\* Push delivery on its own, from any configuration of the subscriptions and with any
\* number of dispatchers and permits: a subscription is never pushed by two
\* dispatchers at once, and no delivery outlives the stream of its dispatcher.
THEOREM PushIsExclusive == PushSpec => [](OneDispatcherPerSub /\ NoDeliveryAfterClose)
<1>1. PushInit => PushInv
  BY QuietInv DEF PushInit
<1>2. PushInv /\ [PushNext]_pushVars => PushInv'
  <2>1. ASSUME PushInv, UNCHANGED pushVars PROVE PushInv'
    BY <2>1 DEF PushInv, PushTypeOK, Owned, Stopping, pushVars
  <2> QED
    BY <2>1, PushTasksKeepInv, ClientsKeepInv DEF PushNext
<1> QED
  BY <1>1, <1>2, InvOneDispatcher, PTL DEF PushSpec

=============================================================================
