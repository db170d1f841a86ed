------------------------------- MODULE Limits -------------------------------
(***************************************************************************)
(* Resource names and the limits of the API (names.rs, limits.rs).         *)
(*                                                                         *)
(* A full name is kept as what the checks read of it: how many segments it *)
(* has, its first and third segment, whether the project is empty, and the *)
(* id by its length, whether it starts with a letter, whether all its      *)
(* characters are allowed and whether it starts with the reserved prefix.  *)
(* Payloads, keys and values are kept as their lengths.                    *)
(***************************************************************************)
EXTENDS Integers, Sequences, FiniteSetsExt

MIN_ID_LEN == 3
MAX_ID_LEN == 255

MAX_MESSAGE_BYTES == 10 * 1024 * 1024
MAX_PUBLISH_BATCH_MESSAGES == 1000
MAX_PUBLISH_BATCH_BYTES == 10 * 1024 * 1024
MAX_ATTRIBUTES == 100
MAX_ATTRIBUTE_KEY_BYTES == 256
MAX_ATTRIBUTE_VALUE_BYTES == 1024
MAX_ORDERING_KEY_BYTES == 1024
MAX_FILTER_CHARS == 256
AckDeadlineSecs == 10..600
SubscriptionRetentionSecs == 600..(7 * 24 * 3600)
TopicRetentionSecs == 600..(31 * 24 * 3600)
MAX_TOPIC_RETENTION_SECS == 31 * 24 * 3600
DeadLetterMaxAttempts == 5..100
RetryBackoffSecs == 0..600
PullMaxMessages == 1..1000

-----------------------------------------------------------------------------
(* names.rs                                                                *)

\* The sentinel a subscription's topic field takes once the topic is gone.
DELETED_TOPIC == [segments |-> 1, root |-> "_deleted-topic_", project |-> "",
                  kind |-> "",
                  id |-> [len |-> 0, letter |-> FALSE, allowed |-> TRUE, goog |-> FALSE]]

validate_resource_id(id) ==
    /\ id.len >= MIN_ID_LEN /\ id.len <= MAX_ID_LEN
    /\ id.letter
    /\ id.allowed
    /\ ~ id.goog

parse_full_name(name, kind) ==
    /\ name.segments = 4 /\ name.root = "projects" /\ name.kind = kind
    /\ name.project # ""

SubscriptionName(name) == /\ parse_full_name(name, "subscriptions")
                          /\ validate_resource_id(name.id)

TopicName(name) == IF name = DELETED_TOPIC THEN TRUE
                   ELSE /\ parse_full_name(name, "topics")
                        /\ validate_resource_id(name.id)

\* The names the REST routes build from the URL.
topic_name(project, id) == [segments |-> 4, root |-> "projects", project |-> project,
                            kind |-> "topics", id |-> id]
sub_name(project, id) == [segments |-> 4, root |-> "projects", project |-> project,
                          kind |-> "subscriptions", id |-> id]

-----------------------------------------------------------------------------
(* limits.rs                                                               *)

attribute_bytes(m) ==
    MapThenSumSet(LAMBDA a : a.key_len + a.value_len, m.attributes)

validate_message(m) ==
    /\ Cardinality(m.attributes) <= MAX_ATTRIBUTES
    /\ \A a \in m.attributes : /\ a.key_len <= MAX_ATTRIBUTE_KEY_BYTES
                               /\ ~ a.goog
                               /\ a.value_len <= MAX_ATTRIBUTE_VALUE_BYTES
    /\ m.data_len + attribute_bytes(m) <= MAX_MESSAGE_BYTES
    /\ m.ordering_key_len <= MAX_ORDERING_KEY_BYTES

validate_publish_batch(messages) ==
    /\ Len(messages) <= MAX_PUBLISH_BATCH_MESSAGES
    /\ MapThenSumSet(LAMBDA i : messages[i].data_len + attribute_bytes(messages[i]),
                     DOMAIN messages) <= MAX_PUBLISH_BATCH_BYTES

validate_ack_deadline_secs(v) == v \in AckDeadlineSecs
validate_subscription_retention_secs(v) == v \in SubscriptionRetentionSecs
validate_topic_retention_secs(v) == v \in TopicRetentionSecs

\* 0 is "unspecified": the caller puts the default in its place.
validate_dead_letter_max_attempts(v) == v = 0 \/ v \in DeadLetterMaxAttempts
validate_retry_backoff_secs(v) == v \in RetryBackoffSecs
validate_filter_len(len) == len <= MAX_FILTER_CHARS
validate_pull_max_messages(v) == v \in PullMaxMessages
=============================================================================
