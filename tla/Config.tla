------------------------------- MODULE Config -------------------------------
(***************************************************************************)
(* config.rs and the configuration part of main.rs: how the four layers    *)
(* (defaults, file, environment, command line) make one configuration, and *)
(* which configurations are refused.                                       *)
(*                                                                         *)
(* A layer is a function from the keys it sets to values.  Text settings   *)
(* are "" when blank; addresses and paths are otherwise opaque.            *)
(***************************************************************************)
EXTENDS Naturals, Sequences

SYNC_INTERVAL_MS_MAX == 5000
SHUTDOWN_GRACE_SECS_MAX == 600
ACK_DEADLINE_SECS_MIN == 10
ACK_DEADLINE_SECS_MAX == 600
VALID_LOG_FORMATS == {"json", "text", "journald"}

\* The settings some check or some later step depends on, with their defaults.
Defaults ==
    [sync_interval_ms |-> 50, shutdown_grace_secs |-> 30, pull_max_wait_secs |-> 90,
     push_timeout_secs |-> 10, default_ack_deadline_secs |-> 10,
     log_format |-> "json", log_level |-> "info",
     data_dir |-> "/var/lib/open-pubusb", ephemeral |-> FALSE]

Settings == DOMAIN Defaults

\* A layer's settings replace those of the layers below it.
over(base, layer) ==
    [k \in DOMAIN base |-> IF k \in DOMAIN layer THEN layer[k] ELSE base[k]]

\* deny_unknown_fields: a key nobody knows, in the file or the environment.
load_fails(file, env) == ~(DOMAIN file \cup DOMAIN env \subseteq Settings)

\* Mutant: the file is read after the environment.
load_file_last(file, env) == over(over(Defaults, env), file)

\* Config::load.
load(file, env) == over(over(Defaults, file), env)

\* apply_cli_overrides: --ephemeral can switch the setting on, never off.
apply_cli_overrides(cfg, cli) ==
    [over(cfg, cli) EXCEPT !.ephemeral = cfg.ephemeral \/ ("ephemeral" \in DOMAIN cli /\ cli.ephemeral)]

\* validate looks at the settings in this order and names the first that is wrong.
CheckOrder ==
    <<"sync_interval_ms", "shutdown_grace_secs", "pull_max_wait_secs", "push_timeout_secs",
      "default_ack_deadline_secs", "log_format", "log_level", "data_dir">>

is_invalid(cfg, k) ==
    CASE k = "sync_interval_ms" -> cfg[k] = 0 \/ cfg[k] > SYNC_INTERVAL_MS_MAX
      [] k = "shutdown_grace_secs" -> cfg[k] = 0 \/ cfg[k] > SHUTDOWN_GRACE_SECS_MAX
      [] k \in {"pull_max_wait_secs", "push_timeout_secs"} -> cfg[k] = 0
      [] k = "default_ack_deadline_secs" ->
            cfg[k] < ACK_DEADLINE_SECS_MIN \/ cfg[k] > ACK_DEADLINE_SECS_MAX
      [] k = "log_format" -> cfg[k] \notin VALID_LOG_FORMATS
      [] k = "log_level" -> cfg[k] = ""
      [] k = "data_dir" -> ~cfg.ephemeral /\ cfg[k] = ""

\* Config::validate: the offending key, or "ok".
validate(cfg) ==
    LET wrong == {i \in DOMAIN CheckOrder : is_invalid(cfg, CheckOrder[i])}
    IN IF wrong = {} THEN "ok" ELSE CheckOrder[CHOOSE i \in wrong : \A j \in wrong : i <= j]

=============================================================================
