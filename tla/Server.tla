------------------------------- MODULE Server -------------------------------
(***************************************************************************)
(* The process: main.rs from the command line to the exit code, the        *)
(* background loops it owns, and what reaches the disk.  Composes          *)
(* configuration (Config) and push delivery (Push) with requests, the      *)
(* group-sync loop and the retention loop.                                 *)
(*                                                                         *)
(* Only one thing is kept of the store: whether it holds a write that no   *)
(* fsync has covered yet (dirty).  A killed process loses nothing, a power *)
(* loss loses what is dirty (store/fjall.rs).  persist on MemKv succeeds   *)
(* and does nothing, so the distinction is not made here.                  *)
(***************************************************************************)
EXTENDS Config, Push

CONSTANTS
    Layerings,   \* the file, environment and command-line layers to try
    MaxRequests  \* bound: requests in flight at once

ASSUME ServerAssumption == MaxRequests \in Nat /\ None \notin {0, 1, 2}

FORMAT_VERSION == 1

VARIABLES
    main,        \* where run_serve stands
    exit,        \* None, or the exit code
    layers,      \* file, env and cli, until the store is open; then None
    ready,       \* ReadyState
    format_version,   \* the store's marker: the data directory's, or a new MemKv's; 0: none
    dirty,       \* a write is not fsynced yet
    reqs,        \* requests (or streams) in flight
    sync, sweep, \* the group-sync and retention loops: "off", "run" or "done"
    grace_elapsed, persist_failed

loops == <<sync, sweep>>
disk == <<format_version, dirty>>
flags == <<grace_elapsed, persist_failed>>
procVars == <<main, exit, layers, ready, disk, reqs, loops, flags>>
serverVars == <<pushVars, procVars>>

LoopStates == {"off", "run", "done"}

ServerTypeOK ==
    /\ PushTypeOK
    /\ main \in {"load", "telemetry", "storage", "bind", "admin", "spawn", "listen", "drain",
                 "join", "persist", "exiting", "exited"}
    /\ exit \in {None, 0, 1, 2}
    /\ ready \in {"starting", "ready", "draining"}
    /\ format_version \in 0 .. FORMAT_VERSION + 1
    /\ reqs \in 0 .. MaxRequests
    /\ sync \in LoopStates /\ sweep \in LoopStates
    /\ {dirty, grace_elapsed, persist_failed} \subseteq BOOLEAN

ServerInit ==
    /\ Quiet("off")
    /\ main = "load" /\ exit = None
    /\ layers \in Layerings
    /\ ready = "starting"
    /\ format_version \in 0 .. FORMAT_VERSION + 1
    /\ dirty = FALSE /\ reqs = 0
    /\ sync = "off" /\ sweep = "off"
    /\ grace_elapsed = FALSE /\ persist_failed = FALSE

Running == exit = None

\* run_serve moves on, or the process ends with a code.
GoTo(pc) == main' = pc /\ exit' = exit
Exit(code) == main' = "exited" /\ exit' = code

-----------------------------------------------------------------------------
(* Startup                                                                 *)

built_config == apply_cli_overrides(load(layers.file, layers.env), layers.cli)

\* Load, apply the command line, validate: exit code 2 if any of it fails.
LoadConfig ==
    /\ main = "load"
    /\ IF load_fails(layers.file, layers.env) \/ validate(built_config) # "ok"
       THEN Exit(2)
       ELSE GoTo("telemetry")
    /\ UNCHANGED <<pushVars, layers, ready, disk, reqs, loops, flags>>

InitTelemetry ==
    /\ main = "telemetry"
    /\ GoTo("storage") \/ Exit(1)
    /\ UNCHANGED <<pushVars, layers, ready, disk, reqs, loops, flags>>

\* Mutant: any readable marker is accepted.
unsupported_never(version) == FALSE

unsupported(version) == version > FORMAT_VERSION

\* FjallKv::open and check_and_write_format_version.  (A MemKv starts out empty, in
\* this version's format.)
OpenStorage ==
    /\ main = "storage"
    /\ \/ /\ built_config.ephemeral
          /\ GoTo("bind")
          /\ format_version' = FORMAT_VERSION /\ UNCHANGED dirty
       \/ /\ ~built_config.ephemeral /\ ~unsupported(format_version)
          /\ GoTo("bind")
          /\ format_version' = IF format_version = 0 THEN FORMAT_VERSION ELSE format_version
          /\ dirty' = (format_version = 0)
       \/ ~built_config.ephemeral /\ Exit(1) /\ UNCHANGED disk  \* unsupported, corrupt, I/O error
    /\ layers' = None
    /\ UNCHANGED <<pushVars, ready, reqs, loops, flags>>

\* server::serve: requests are accepted from here on.  A bad address or a port in
\* use is exit code 2.
BindServer ==
    /\ main = "bind"
    /\ GoTo("admin") \/ Exit(2)
    /\ UNCHANGED <<pushVars, layers, ready, disk, reqs, loops, flags>>

\* admin::serve; with admin_listen empty there is nothing to bind.
BindAdmin ==
    /\ main = "admin"
    /\ GoTo("spawn") \/ Exit(2)
    /\ UNCHANGED <<pushVars, layers, ready, disk, reqs, loops, flags>>

\* The loops, then health, readiness, READY=1 and the watchdog.
SpawnLoops ==
    /\ main = "spawn"
    /\ GoTo("listen")
    /\ sync' = "run" /\ sweep' = "run"
    /\ mgr' = [mgr EXCEPT !.pc = "reconcile"]
    /\ ready' = "ready"
    /\ UNCHANGED <<subs, log, lease, done, entries, disp, token, changes>>
    /\ UNCHANGED <<layers, disk, reqs, flags>>

-----------------------------------------------------------------------------
(* Shutdown                                                                *)

\* listen_for_shutdown_signal returns; readiness and health are withdrawn before the
\* drain is awaited.
Listen(pc, cancelled, elapsed) ==
    /\ main = "listen"
    /\ GoTo(pc)
    /\ token' = cancelled /\ grace_elapsed' = elapsed
    /\ ready' = "draining"
    /\ UNCHANGED <<subs, log, lease, done, mgr, entries, disp, changes>>
    /\ UNCHANGED <<layers, disk, reqs, loops, persist_failed>>

ShutdownSignal == Listen("drain", TRUE, FALSE)

\* No handler can be installed: it returns at once, the token untouched, and the drain
\* of servers nobody stopped can only run into its time limit.
NoSignalHandler == Listen("join", FALSE, TRUE)

\* The servers, told to stop by the token, end once no request is left.
Drained ==
    /\ main = "drain" /\ reqs = 0
    /\ GoTo("join")
    /\ UNCHANGED <<pushVars, layers, ready, disk, reqs, loops, flags>>

\* Mutant: the drain has no time limit.
GraceNever == FALSE

\* shutdown_grace_secs is over first: whatever is in flight goes on.
GraceElapsed ==
    /\ main = "drain"
    /\ GoTo("join")
    /\ grace_elapsed' = TRUE
    /\ UNCHANGED <<pushVars, layers, ready, disk, reqs, loops, persist_failed>>

\* Mutant: the push manager is not awaited.
joined_without_push == sync = "done" /\ sweep = "done"

\* Every loop main awaits has ended.  (The watchdog loop, if there is one, ends with
\* the token, as the sync loop does.)
joined == sync = "done" /\ mgr.pc = "done" /\ sweep = "done"

Join ==
    /\ main = "join"
    /\ joined
    /\ GoTo("persist")
    /\ UNCHANGED <<pushVars, layers, ready, disk, reqs, loops, flags>>

\* The final SyncAll; an error is only logged.
FinalPersist ==
    /\ main = "persist"
    /\ GoTo("exiting")
    /\ \/ dirty' = FALSE /\ UNCHANGED persist_failed
       \/ persist_failed' = TRUE /\ UNCHANGED dirty
    /\ UNCHANGED <<pushVars, layers, ready, format_version, reqs, loops, grace_elapsed>>

ExitSuccess ==
    /\ main = "exiting"
    /\ Exit(0)
    /\ UNCHANGED <<pushVars, layers, ready, disk, reqs, loops, flags>>

\* Everything run_serve does on its own accord.
MainStep ==
    \/ LoadConfig \/ InitTelemetry \/ OpenStorage \/ BindServer \/ BindAdmin \/ SpawnLoops
    \/ Drained \/ GraceElapsed \/ Join \/ FinalPersist \/ ExitSuccess

-----------------------------------------------------------------------------
(* The tasks                                                               *)

listening == main \notin {"load", "telemetry", "storage", "bind"} /\ ~token

RequestStarts ==
    /\ Running /\ listening /\ reqs < MaxRequests
    /\ reqs' = reqs + 1
    /\ UNCHANGED <<pushVars, main, exit, layers, ready, disk, loops, flags>>

\* A request changes subscriptions or publishes, and the write reaches the OS.
RequestWrites ==
    /\ Running /\ reqs > 0
    /\ Clients
    /\ dirty' = TRUE
    /\ UNCHANGED <<main, exit, layers, ready, format_version, reqs, loops, flags>>

\* Mutant: a request's end is counted twice.
RequestEndsTwice ==
    /\ Running /\ reqs > 0
    /\ reqs' = reqs - 2
    /\ UNCHANGED <<pushVars, main, exit, layers, ready, disk, loops, flags>>

RequestEnds ==
    /\ Running /\ reqs > 0
    /\ reqs' = reqs - 1
    /\ UNCHANGED <<pushVars, main, exit, layers, ready, disk, loops, flags>>

\* A push task moves; whatever it changes in the store is a write.
Pushes(Step) ==
    /\ Running
    /\ Step
    /\ dirty' = (dirty \/ <<lease, done>>' # <<lease, done>>)
    /\ UNCHANGED <<main, exit, layers, ready, format_version, reqs, loops, flags>>

TimePasses(k) ==
    /\ Running
    /\ Expire(k)
    /\ UNCHANGED procVars

\* Mutant: a failed persist ends the loop.
SyncGivesUp ==
    /\ Running /\ sync = "run"
    /\ sync' = "done"
    /\ UNCHANGED <<pushVars, main, exit, layers, ready, disk, reqs, sweep, flags>>

\* run_storage_sync_loop: a group fsync every interval; it fails at times, which is
\* logged, and ends with the token.
SyncFails == Running /\ sync = "run" /\ UNCHANGED serverVars

SyncData ==
    /\ Running /\ sync = "run"
    /\ dirty' = FALSE
    /\ UNCHANGED <<pushVars, main, exit, layers, ready, format_version, reqs, loops, flags>>

SyncEnds ==
    /\ Running /\ sync = "run" /\ token
    /\ sync' = "done"
    /\ UNCHANGED <<pushVars, main, exit, layers, ready, disk, reqs, sweep, flags>>

\* run_retention_sweep_loop.
Sweeps ==
    /\ Running /\ sweep = "run"
    /\ dirty' = TRUE
    /\ UNCHANGED <<pushVars, main, exit, layers, ready, format_version, reqs, loops, flags>>

SweepEnds ==
    /\ Running /\ sweep = "run" /\ token
    /\ sweep' = "done"
    /\ UNCHANGED <<pushVars, main, exit, layers, ready, disk, reqs, sync, flags>>

-----------------------------------------------------------------------------
\* The process is gone; nothing moves any more.
Terminated == ~Running /\ UNCHANGED serverVars

ServerNext ==
    \/ Terminated
    \/ MainStep \/ ShutdownSignal \/ NoSignalHandler
    \/ RequestStarts \/ RequestWrites \/ RequestEnds
    \/ Pushes(PushTasks) \/ \E k \in Keys : TimePasses(k)
    \/ SyncData \/ SyncFails \/ SyncEnds \/ Sweeps \/ SweepEnds

\* The runtime schedules every task, timers fire, a post ends, and a group fsync
\* succeeds again and again.  Requests may hang, signals need not come.
ServerFairness ==
    /\ WF_serverVars(MainStep)
    /\ WF_serverVars(Pushes(ManagerStep))
    /\ \A d \in Slots : WF_serverVars(Pushes(DispatcherStep(d)))
    /\ \A d \in Slots, p \in Permits : WF_serverVars(Pushes(DeliverOne(d, p)))
    /\ \A k \in Keys : WF_serverVars(TimePasses(k))
    /\ WF_serverVars(SyncData) /\ WF_serverVars(SyncEnds)
    /\ WF_serverVars(SweepEnds)

ServerSpec == ServerInit /\ [][ServerNext]_serverVars /\ ServerFairness

-----------------------------------------------------------------------------
(* Correctness                                                             *)

\* The value a setting should have: that of the highest layer that sets it.
effective(k) ==
    CASE k = "ephemeral" /\ k \in DOMAIN layers.cli /\ layers.cli[k] -> TRUE
      [] k # "ephemeral" /\ k \in DOMAIN layers.cli -> layers.cli[k]
      [] k \in DOMAIN layers.env -> layers.env[k]
      [] k \in DOMAIN layers.file -> layers.file[k]
      [] OTHER -> Defaults[k]

\* What the server accepts, setting by setting.
acceptable ==
    /\ DOMAIN layers.file \cup DOMAIN layers.env \subseteq Settings
    /\ effective("sync_interval_ms") \in 1 .. 5000
    /\ effective("shutdown_grace_secs") \in 1 .. 600
    /\ effective("pull_max_wait_secs") # 0 /\ effective("push_timeout_secs") # 0
    /\ effective("default_ack_deadline_secs") \in 10 .. 600
    /\ effective("log_format") \in {"json", "text", "journald"}
    /\ effective("log_level") # ""
    /\ effective("data_dir") # "" \/ effective("ephemeral")

\* The server goes on from its configuration exactly when the value of each setting
\* in the highest layer that sets it is in range: a bad value is harmless where a
\* higher layer replaces it and fatal where none does (load, apply_cli_overrides,
\* validate).
StartsIffAcceptable ==
    layers # None =>
        /\ main = "telemetry" => acceptable
        /\ exit = 2 => ~acceptable

\* A data directory written by a newer version is never written to
\* (check_and_write_format_version refuses before anything else runs).
NewerFormatUntouched == format_version > FORMAT_VERSION => ~dirty

\* A clean exit leaves nothing to lose: when the drain finished in time and the final
\* SyncAll succeeded, no write of any request, loop or push task is left unsynced
\* ("so a clean SIGTERM never loses the last <sync_interval_ms worth of writes").
CleanExitIsDurable == exit = 0 /\ ~grace_elapsed /\ ~persist_failed => ~dirty

\* Group sync: a write is fsynced eventually, however many writes follow and whenever
\* the shutdown begins, unless the process ends first.
WritesGetSynced == dirty ~> (~dirty \/ ~Running)

\* Shutdown terminates: after the signal the process exits, whatever requests hang and
\* whatever dispatchers, posts and loops are doing.
ShutdownTerminates == token ~> ~Running

=============================================================================
