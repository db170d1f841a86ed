------------------------------ MODULE MCServer ------------------------------
(* The instance of Server for TLC.                                         *)
EXTENDS Server, TLC

CONSTANTS s1, d1, d2, url, url2

\* Values on both sides of every bound; the last key is a typo.
Samples ==
    [sync_interval_ms |-> {0, 1, 5000, 5001}, shutdown_grace_secs |-> {0, 1, 600, 601},
     pull_max_wait_secs |-> {0, 1}, push_timeout_secs |-> {0, 1},
     default_ack_deadline_secs |-> {9, 10, 600, 601}, log_format |-> {"text", "xml"},
     log_level |-> {"", "debug"}, data_dir |-> {"", "/data"}, ephemeral |-> BOOLEAN,
     listne |-> {""}]

\* A layer sets one key or none.
Layer(k) == {<<>>} \cup {k :> v : v \in Samples[k]}

\* File and environment disagree about one key; --data-dir or --ephemeral, or neither.
MCLayerings ==
    UNION {[file: Layer(k), env: Layer(k), cli: Layer("data_dir") \cup Layer("ephemeral")]
              : k \in DOMAIN Samples}

=============================================================================
