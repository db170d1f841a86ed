---------------------------- MODULE ServerProofs ----------------------------
(***************************************************************************)
(* The process, for any number of requests, subscriptions, dispatchers and *)
(* layerings of the configuration: what a clean exit leaves behind, and    *)
(* that a newer store is left alone.                                       *)
(***************************************************************************)
EXTENDS Server, PushProofs

Unopened == {"load", "telemetry", "storage"}
BeforeLoops == Unopened \cup {"bind", "admin", "spawn"}

\* Nothing runs before it is started, and the process has a code once it has ended.
StartOrder ==
    /\ exit # None <=> main = "exited"
    /\ main \in BeforeLoops =>
          sync = "off" /\ sweep = "off" /\ mgr.pc = "off" /\ ~token
    /\ main \in Unopened \cup {"bind"} => reqs = 0
    /\ mgr.pc \in {"off", "done"} => \A s \in Subs : entries[s] = None

\* What the drain and the join have established when the next step begins.
StopOrder ==
    /\ main = "drain" => token
    /\ main \in {"join", "persist", "exiting"} /\ ~grace_elapsed => token /\ reqs = 0
    /\ main \in {"persist", "exiting"} => joined

\* What is on disk: a newer store was never opened, and after the final SyncAll
\* nothing is left to write.
Disk ==
    /\ format_version > FORMAT_VERSION => main \in Unopened \cup {"exited"} /\ ~dirty
    /\ (main = "exiting" \/ exit = 0) /\ ~grace_elapsed /\ ~persist_failed => ~dirty

ServerInv == ServerTypeOK /\ PushInv /\ StartOrder /\ StopOrder /\ Disk

-----------------------------------------------------------------------------
\* With no entry and no stop under way there is no dispatcher, hence no push task:
\* not before the manager was started, and not after it has ended.
LEMMA NoPushTasks ==
    ASSUME PushInv, mgr.pc \in {"off", "done"}, \A s \in Subs : entries[s] = None
    PROVE  ~PushTasks
<1>1. \A d \in Slots : disp[d].pc = "free"
  BY DEF PushInv, Owned, Stopping
<1>2. \A d \in Slots, p \in Permits : disp[d].tasks[p] = None
  BY <1>1 DEF PushInv, Working, NoTasks
<1>3. ~ManagerStep
  BY DEF ManagerStep, ReconcileList, Joined, Reconciled, ManagerWakes, ManagerEnds, Keep,
         StopOld, StopDeleted, ShutdownStop, Spawn
<1>4. \A d \in Slots : ~DispatcherStep(d)
  BY <1>1 DEF DispatcherStep, OpenStream, LoopCancelled, LeaseForStream, LeaseFails, WaitOver,
              SpawnDelivery, CloseStream, AllPermits
<1>5. \A d \in Slots, p \in Permits : ~DeliverOne(d, p)
  BY <1>2 DEF DeliverOne, PostOk, PostFails
<1> QED
  BY <1>3, <1>4, <1>5 DEF PushTasks

\* Steps of the process that leave push delivery alone, start its manager, or cancel
\* the token keep what PushProofs shows of it.
LEMMA ServerKeepsPush ==
    ASSUME ServerInv, [ServerNext]_serverVars PROVE PushInv'
<1>1. CASE UNCHANGED pushVars
  BY <1>1 DEF ServerInv, PushInv, PushTypeOK, Owned, Stopping, pushVars
<1>2. CASE SpawnLoops
  <2>1. mgr.pc = "off" /\ mgr \in Manager
    BY <1>2 DEF SpawnLoops, ServerInv, StartOrder, BeforeLoops, PushInv, PushTypeOK
  <2>2. mgr' \in Manager /\ mgr'.pc = "reconcile"
    BY <1>2, <2>1 DEF SpawnLoops, Manager
  <2> QED
    BY <1>2, <2>1, <2>2 DEF SpawnLoops, ServerInv, PushInv, PushTypeOK, Owned, Stopping
<1>3. CASE ShutdownSignal \/ NoSignalHandler
  BY <1>3 DEF ShutdownSignal, NoSignalHandler, Listen, ServerInv, PushInv, PushTypeOK, Owned, Stopping
<1>4. CASE RequestWrites \/ \E k \in Keys : TimePasses(k)
  BY <1>4, ClientsKeepInv DEF RequestWrites, TimePasses, ServerInv
<1>5. CASE Pushes(PushTasks)
  BY <1>5, PushTasksKeepInv DEF Pushes, ServerInv
<1> QED
  BY <1>1, <1>2, <1>3, <1>4, <1>5
     DEF ServerNext, MainStep, serverVars, Terminated, LoadConfig, InitTelemetry, OpenStorage,
         BindServer, BindAdmin, Drained, GraceElapsed, Join, FinalPersist, ExitSuccess,
         RequestStarts, RequestEnds, SyncData, SyncFails, SyncEnds, Sweeps, SweepEnds

\* What each step of the process keeps besides.
Proc == StartOrder /\ StopOrder /\ Disk

\* Startup: a store is opened only in a format this version knows, and nothing runs
\* before the loops are spawned (resolve_config to READY=1).
LEMMA StartupKeepsProc ==
    ASSUME ServerInv, PushTypeOK',
           LoadConfig \/ InitTelemetry \/ OpenStorage \/ BindServer \/ BindAdmin \/ SpawnLoops
    PROVE  ServerTypeOK' /\ Proc'
<1> USE ServerAssumption
        DEF ServerInv, ServerTypeOK, Proc, StartOrder, StopOrder, Disk, Unopened, BeforeLoops,
            joined, disk, loops, flags, pushVars, GoTo, Exit, FORMAT_VERSION, LoopStates
<1>1. CASE LoadConfig
  BY <1>1 DEF LoadConfig
<1>2. CASE InitTelemetry
  BY <1>2 DEF InitTelemetry
<1>3. CASE OpenStorage
  <2>2. UNCHANGED <<pushVars, ready, reqs, loops, flags>>
    BY <1>3 DEF OpenStorage
  <2>3. dirty' \in BOOLEAN
    <3>1. dirty \in BOOLEAN
      OBVIOUS
    <3> QED
      BY <1>3, <3>1, Zenon DEF OpenStorage
  <2>4. CASE GoTo("bind") /\ format_version' \in 0 .. FORMAT_VERSION
    BY <2>2, <2>3, <2>4, <1>3 DEF OpenStorage
  <2>5. CASE Exit(1) /\ UNCHANGED disk
    BY <2>2, <2>5, <1>3 DEF OpenStorage
  <2>6. \/ GoTo("bind") /\ format_version' \in 0 .. FORMAT_VERSION
        \/ Exit(1) /\ UNCHANGED disk
    <3>1. \/ GoTo("bind") /\ format_version' = FORMAT_VERSION
          \/ /\ ~unsupported(format_version) /\ GoTo("bind")
             /\ format_version' = IF format_version = 0 THEN FORMAT_VERSION ELSE format_version
          \/ Exit(1) /\ UNCHANGED disk
      BY <1>3, Zenon DEF OpenStorage
    <3> QED
      BY <3>1 DEF unsupported
  <2> QED
    BY <2>4, <2>5, <2>6
<1>4. CASE BindServer
  BY <1>4 DEF BindServer
<1>5. CASE BindAdmin
  BY <1>5 DEF BindAdmin
<1>6. CASE SpawnLoops
  <2>1. mgr'.pc = "reconcile"
    BY <1>6 DEF SpawnLoops, PushTypeOK, Manager
  <2> QED
    BY <1>6, <2>1 DEF SpawnLoops
<1> QED
  BY <1>1, <1>2, <1>3, <1>4, <1>5, <1>6

\* Shutdown: drain, join, persist, exit, in this order (run_serve).
LEMMA ShutdownKeepsProc ==
    ASSUME ServerInv, PushTypeOK',
           \/ ShutdownSignal \/ NoSignalHandler \/ Drained \/ GraceElapsed
           \/ Join \/ FinalPersist \/ ExitSuccess
    PROVE  ServerTypeOK' /\ Proc'
<1> USE ServerAssumption
        DEF ServerInv, ServerTypeOK, Proc, StartOrder, StopOrder, Disk, Unopened, BeforeLoops,
            joined, disk, loops, flags, pushVars, GoTo, Exit, FORMAT_VERSION, LoopStates
<1>1. CASE ShutdownSignal
  BY <1>1 DEF ShutdownSignal, Listen
<1>2. CASE NoSignalHandler
  BY <1>2 DEF NoSignalHandler, Listen
<1>3. CASE Drained
  BY <1>3 DEF Drained
<1>4. CASE GraceElapsed
  BY <1>4 DEF GraceElapsed
<1>5. CASE Join
  BY <1>5 DEF Join
<1>6. CASE FinalPersist
  BY <1>6 DEF FinalPersist
<1>7. CASE ExitSuccess
  BY <1>7 DEF ExitSuccess
<1> QED
  BY <1>1, <1>2, <1>3, <1>4, <1>5, <1>6, <1>7

\* Requests, loops and time: once the drain has ended in time there is no request, and
\* once the loops have been joined none of them writes.
LEMMA TasksKeepProc ==
    ASSUME ServerInv, PushTypeOK',
           \/ RequestStarts \/ RequestEnds \/ SyncData \/ SyncFails \/ SyncEnds
           \/ Sweeps \/ SweepEnds \/ \E k \in Keys : TimePasses(k)
    PROVE  ServerTypeOK' /\ Proc'
<1> USE ServerAssumption
        DEF ServerInv, ServerTypeOK, Proc, StartOrder, StopOrder, Disk, Unopened, BeforeLoops,
            joined, disk, loops, flags, pushVars, FORMAT_VERSION, LoopStates, Running
<1>1. CASE RequestStarts
  BY <1>1 DEF RequestStarts, listening
<1>2. CASE RequestEnds
  BY <1>2 DEF RequestEnds
<1>3. CASE SyncData
  BY <1>3 DEF SyncData
<1>4. CASE SyncFails
  BY <1>4 DEF SyncFails, serverVars, procVars
<1>5. CASE SyncEnds
  BY <1>5 DEF SyncEnds
<1>6. CASE Sweeps
  BY <1>6 DEF Sweeps
<1>7. CASE SweepEnds
  BY <1>7 DEF SweepEnds
<1>8. CASE \E k \in Keys : TimePasses(k)
  BY <1>8 DEF TimePasses, Expire, procVars
<1> QED
  BY <1>1, <1>2, <1>3, <1>4, <1>5, <1>6, <1>7, <1>8

\* Writes of requests and of push tasks: neither happens in a newer store, or after
\* the final SyncAll of a clean stop.
LEMMA WritesKeepProc ==
    ASSUME ServerInv, PushTypeOK', RequestWrites \/ Pushes(PushTasks)
    PROVE  ServerTypeOK' /\ Proc'
<1> USE ServerAssumption
        DEF ServerInv, ServerTypeOK, Proc, StartOrder, StopOrder, Disk, Unopened, BeforeLoops,
            joined, loops, flags, FORMAT_VERSION, LoopStates, Running
<1>1. CASE RequestWrites
  <2>1. UNCHANGED <<mgr, entries, disp, token>>
    BY <1>1 DEF RequestWrites, Clients, Publish, ModifyPushConfig, DetachSubscription,
                DeleteSubscription
  <2> QED
    BY <1>1, <2>1 DEF RequestWrites
<1>2. CASE Pushes(PushTasks)
  <2>1. mgr.pc \notin {"off", "done"}
    BY <1>2, NoPushTasks DEF Pushes
  <2>2. token' = token
    BY <1>2 DEF Pushes, PushTasks, ManagerStep, ReconcileList, Joined, Reconciled, ManagerWakes,
                ManagerEnds, Keep, StopOld, StopDeleted, ShutdownStop, Stop, Spawn,
                DispatcherStep, OpenStream, LoopCancelled, LeaseForStream, LeaseFails, WaitOver,
                SpawnDelivery, CloseStream, DeliverOne, PostOk, PostFails
  <2>3. mgr'.pc # "off" /\ (mgr'.pc = "done" => \A s \in Subs : entries'[s] = None)
    <3>1. mgr \in Manager
      BY DEF PushInv, PushTypeOK
    <3>2. CASE ManagerStep
      <4>0. CASE ReconcileList \/ Reconciled
        BY <4>0 DEF ReconcileList, Reconciled, ManagerOff
      <4>1. CASE Joined \/ ManagerWakes \/ ManagerEnds
        <5>1. CASE Joined
          BY <3>1, <5>1 DEF Joined, Manager
        <5>2. CASE ManagerWakes
          BY <3>1, <5>2 DEF ManagerWakes, Manager
        <5>3. CASE ManagerEnds
          BY <3>1, <5>3 DEF ManagerEnds, Manager
        <5> QED
          BY <4>1, <5>1, <5>2, <5>3
      <4>2. ASSUME NEW s \in Subs, Keep(s) \/ Spawn(s) PROVE mgr'.pc = "visit"
        BY <3>1, <4>2 DEF Keep, Spawn, Manager
      <4>3. ASSUME NEW s \in Subs, StopOld(s) \/ StopDeleted(s) \/ ShutdownStop(s)
            PROVE  mgr'.pc \in {"stop", "shutdown_stop"}
        BY <3>1, <4>3 DEF StopOld, StopDeleted, ShutdownStop, Stop, Manager
      <4> QED
        BY <3>2, <4>0, <4>1, <4>2, <4>3 DEF ManagerStep
    <3>3. ASSUME NEW d \in Slots, DispatcherStep(d) \/ \E p \in Permits : DeliverOne(d, p)
          PROVE  UNCHANGED mgr
      BY <3>3, TasksKeepDispatchers DEF PushInv
    <3> QED
      BY <1>2, <2>1, <3>2, <3>3 DEF Pushes, PushTasks
  <2> QED
    BY <1>2, <2>1, <2>2, <2>3 DEF Pushes
<1> QED
  BY <1>1, <1>2

\* The invariant is inductive.
LEMMA ServerInvariant == ServerSpec => []ServerInv
<1>1. ServerInit => ServerInv
  <2> SUFFICES ASSUME ServerInit PROVE ServerInv
    OBVIOUS
  <2>1. PushInv
    BY QuietInv DEF ServerInit
  <2>2. mgr.pc = "off"
    BY DEF ServerInit, Quiet, ManagerOff
  <2>3. ServerTypeOK
    <3>1. PushTypeOK
      BY <2>1 DEF PushInv
    <3>2. /\ main = "load" /\ exit = None /\ ready = "starting" /\ sync = "off" /\ sweep = "off"
          /\ format_version \in 0 .. FORMAT_VERSION + 1 /\ reqs = 0
          /\ dirty = FALSE /\ grace_elapsed = FALSE /\ persist_failed = FALSE
      BY DEF ServerInit
    <3>3. {dirty, grace_elapsed, persist_failed} \subseteq BOOLEAN
      BY <3>2, Zenon
    <3>4. reqs \in 0 .. MaxRequests
      BY <3>2, ServerAssumption
    <3> QED
      BY <3>1, <3>2, <3>3, <3>4, Zenon DEF ServerTypeOK, LoopStates
  <2>4. StartOrder
    BY <2>2 DEF ServerInit, StartOrder, Quiet
  <2>5. StopOrder /\ Disk
    BY DEF ServerInit, StopOrder, Disk, Unopened
  <2> QED
    BY <2>1, <2>3, <2>4, <2>5 DEF ServerInv
<1>2. ServerInv /\ [ServerNext]_serverVars => ServerInv'
  <2> SUFFICES ASSUME ServerInv, [ServerNext]_serverVars PROVE ServerInv'
    OBVIOUS
  <2>1. PushInv' /\ PushTypeOK'
    BY ServerKeepsPush DEF PushInv
  <2>2. CASE UNCHANGED serverVars
    BY <2>1, <2>2 DEF ServerInv, ServerTypeOK, StartOrder, StopOrder, Disk, joined,
                      serverVars, pushVars, procVars, disk, loops, flags
  <2> QED
    BY <2>1, <2>2, StartupKeepsProc, ShutdownKeepsProc, TasksKeepProc, WritesKeepProc
       DEF ServerNext, MainStep, Terminated, Proc, ServerInv
<1> QED
  BY <1>1, <1>2, PTL DEF ServerSpec

\* Every variable of the process stays in its domain.
THEOREM ServerTypesHold == ServerSpec => []ServerTypeOK
  BY ServerInvariant, PTL DEF ServerInv

\* A clean exit is durable: no request, loop or push task leaves a write behind the
\* final SyncAll, whatever was in flight when the signal came.
THEOREM CleanExitHolds == ServerSpec => []CleanExitIsDurable
<1>1. ServerInv => CleanExitIsDurable
  BY DEF ServerInv, Disk, CleanExitIsDurable
<1> QED
  BY <1>1, ServerInvariant, PTL

\* A store of a newer format is never written to, whatever the configuration says.
THEOREM NewerFormatHolds == ServerSpec => []NewerFormatUntouched
<1>1. ServerInv => NewerFormatUntouched
  BY DEF ServerInv, Disk, NewerFormatUntouched
<1> QED
  BY <1>1, ServerInvariant, PTL

\* Inside the process too, a subscription has at most one dispatcher: restarts by
\* reconcile, deletions and shutdown included.
THEOREM OneDispatcherHolds == ServerSpec => []OneDispatcherPerSub
<1>1. ServerInv => OneDispatcherPerSub
  BY InvOneDispatcher DEF ServerInv
<1> QED
  BY <1>1, ServerInvariant, PTL

\* And no delivery acks or re-arms a lease after its dispatcher closed the stream.
THEOREM NoDeliveryAfterCloseHolds == ServerSpec => []NoDeliveryAfterClose
<1>1. ServerInv => NoDeliveryAfterClose
  BY InvOneDispatcher DEF ServerInv
<1> QED
  BY <1>1, ServerInvariant, PTL

=============================================================================
