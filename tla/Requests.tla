------------------------------ MODULE Requests ------------------------------
(***************************************************************************)
(* The requests of the API as the two transports serve them: the gRPC      *)
(* handlers (grpc/publisher.rs, grpc/subscriber.rs), the REST handlers     *)
(* (rest/handlers.rs), the PubSubService methods they share and the checks *)
(* and defaults of the stores.                                             *)
(*                                                                         *)
(* An operation is an operator that yields its outcome in the current      *)
(* state: the error variant or "Ok", the topics, and the one subscription  *)
(* followed here: the clients send one well-formed subscription name.  A   *)
(* request is served as a whole; Catalog.tla takes its writes apart.  None *)
(* stands for an absent optional field.                                    *)
(***************************************************************************)
EXTENDS Limits

CONSTANTS None,
          TopicMessages,    \* the Topic messages clients send
          SubMessages,      \* the Subscription messages clients send
          Masks,            \* the update masks clients send
          Batches,          \* the message batches clients publish
          Counts,           \* the max_messages of a Pull
          MaxUpdates        \* bound on the updates made

VARIABLES topics,   \* the topic records
          sub,      \* the subscription's record, or None
          updates   \* updates made so far

requestVars == <<topics, sub, updates>>

Some(v) == [some |-> v]

outcome(code, ts, s) == [code |-> code, topics |-> ts, sub |-> s]
Err(code) == outcome(code, topics, sub)
Ok == outcome("Ok", topics, sub)

-----------------------------------------------------------------------------
(* Errors: the gRPC status and the REST status with its HTTP code.         *)

to_status == [ Ok |-> "OK", NotFound |-> "NOT_FOUND",
    AlreadyExists |-> "ALREADY_EXISTS", InvalidArgument |-> "INVALID_ARGUMENT",
    FailedPrecondition |-> "FAILED_PRECONDITION",
    ResourceExhausted |-> "RESOURCE_EXHAUSTED", Unavailable |-> "UNAVAILABLE",
    Unimplemented |-> "UNIMPLEMENTED", Internal |-> "INTERNAL" ]

error_code == [ Ok |-> <<"OK", 200>>, NotFound |-> <<"NOT_FOUND", 404>>,
    AlreadyExists |-> <<"ALREADY_EXISTS", 409>>,
    InvalidArgument |-> <<"INVALID_ARGUMENT", 400>>,
    FailedPrecondition |-> <<"FAILED_PRECONDITION", 400>>,
    ResourceExhausted |-> <<"RESOURCE_EXHAUSTED", 429>>,
    Unavailable |-> <<"UNAVAILABLE", 503>>,
    Unimplemented |-> <<"UNIMPLEMENTED", 501>>, Internal |-> <<"INTERNAL", 500>> ]

-----------------------------------------------------------------------------
(* Topics.                                                                 *)

duration_to_secs(d) == IF d = None THEN None ELSE d.seconds
secs_to_duration(secs) == [seconds |-> secs, nanos |-> 0]

topic_named(name) == {t \in topics : t.name = name}

\* TopicStore::get checks the name before it looks it up.
topic_error(name) == IF ~ TopicName(name) THEN "InvalidArgument"
                     ELSE IF topic_named(name) = {} THEN "NotFound" ELSE "Ok"

create_topic_full(name, labels, retention, kms, has_schema, has_ingestion) ==
    IF \/ ~ TopicName(name)
       \/ has_schema \/ has_ingestion
       \/ retention # None /\ ~ validate_topic_retention_secs(retention)
    THEN Err("InvalidArgument")
    ELSE IF topic_named(name) # {} THEN Err("AlreadyExists")
    ELSE outcome("Ok", topics \cup
            {[name |-> name, labels |-> labels, kms_key_name |-> kms,
              message_retention_secs |-> IF retention = None THEN 0 ELSE retention]},
            sub)

update_topic(name, labels, retention, kms) ==
    IF topic_error(name) # "Ok" THEN Err(topic_error(name))
    ELSE IF /\ retention # None
            /\ retention.some # None
            /\ ~ validate_topic_retention_secs(retention.some)
    THEN Err("InvalidArgument")
    ELSE LET old == CHOOSE t \in topics : t.name = name
             new == [old EXCEPT
                !.labels = IF labels = None THEN @ ELSE labels.some,
                !.message_retention_secs =
                    IF retention = None THEN @
                    ELSE IF retention.some = None THEN 0 ELSE retention.some,
                !.kms_key_name = IF kms = None THEN @ ELSE kms.some]
         IN  outcome("Ok", (topics \ {old}) \cup {new}, sub)

\* The subscription of a deleted topic keeps its record; its topic field
\* becomes the sentinel.
delete_topic(name) ==
    IF topic_error(name) # "Ok" THEN Err(topic_error(name))
    ELSE outcome("Ok", topics \ topic_named(name),
                 IF sub # None /\ sub.topic = name
                 THEN [sub EXCEPT !.topic = DELETED_TOPIC] ELSE sub)

\* The disk guard, the topic and then the limits; append writes nothing
\* unless every message passes.
publish(name, messages, disk_full) ==
    IF disk_full THEN Err("ResourceExhausted")
    ELSE IF topic_error(name) # "Ok" THEN Err(topic_error(name))
    ELSE IF \/ \E i \in DOMAIN messages : ~ validate_message(messages[i])
            \/ ~ validate_publish_batch(messages)
    THEN Err("InvalidArgument") ELSE Ok

grpc_create_topic(m) ==
    create_topic_full(m.name, m.labels, duration_to_secs(m.message_retention_duration),
                      m.kms_key_name, m.schema_settings, m.ingestion_settings)

\* The REST body is read for its labels only.
rest_create_topic(m) ==
    create_topic_full(topic_name(m.name.project, m.name.id), m.labels, None, None,
                      FALSE, FALSE)

grpc_update_topic(m, mask) ==
    update_topic(m.name,
        IF "labels" \in mask THEN Some(m.labels) ELSE None,
        IF "message_retention_duration" \in mask
            THEN Some(duration_to_secs(m.message_retention_duration)) ELSE None,
        IF "kms_key_name" \in mask THEN Some(m.kms_key_name) ELSE None)

-----------------------------------------------------------------------------
(* Subscriptions: from the message to the options, to the record and back. *)

\* An empty endpoint is no push configuration at all.
push_config_from_proto(pc) ==
    IF pc = None \/ pc.push_endpoint = "" THEN None
    ELSE [endpoint |-> pc.push_endpoint, no_wrapper |-> pc.wrapper = "no_wrapper",
          write_metadata |-> pc.wrapper = "no_wrapper" /\ pc.write_metadata]

push_config_to_proto(cfg) ==
    IF cfg = None THEN None
    ELSE [push_endpoint |-> cfg.endpoint,
          wrapper |-> IF cfg.no_wrapper THEN "no_wrapper" ELSE "pubsub_wrapper",
          write_metadata |-> cfg.no_wrapper /\ cfg.write_metadata]

create_options_from_proto(m) ==
    LET dlp == m.dead_letter_policy
        rp  == m.retry_policy
    IN  [ack_deadline_secs |-> IF m.ack_deadline_seconds = 0 THEN None
                               ELSE m.ack_deadline_seconds,
         retain_acked_messages |-> m.retain_acked_messages,
         message_retention_secs |-> duration_to_secs(m.message_retention_duration),
         labels |-> m.labels,
         enable_message_ordering |-> m.enable_message_ordering,
         expiration_ttl_secs |-> IF m.expiration_policy = None THEN None
                                 ELSE Some(duration_to_secs(m.expiration_policy.ttl)),
         filter |-> m.filter,
         dead_letter_topic |-> IF dlp = None THEN None ELSE dlp.dead_letter_topic,
         max_delivery_attempts |-> IF dlp = None THEN None ELSE dlp.max_delivery_attempts,
         min_retry_backoff_secs |-> IF rp = None THEN None
                                    ELSE duration_to_secs(rp.minimum_backoff),
         max_retry_backoff_secs |-> IF rp = None THEN None
                                    ELSE duration_to_secs(rp.maximum_backoff),
         enable_exactly_once_delivery |-> m.enable_exactly_once_delivery,
         push_config |-> push_config_from_proto(m.push_config),
         has_bigquery_config |-> m.bigquery_config,
         has_cloud_storage_config |-> m.cloud_storage_config]

unwrap_or(option, default) == IF option = None THEN default ELSE option

\* The checks of SubscriptionStore::create that do not read the store.
valid_options(name, topic, opts) ==
    /\ SubscriptionName(name)
    /\ TopicName(topic)
    /\ ~ opts.has_bigquery_config /\ ~ opts.has_cloud_storage_config
    /\ validate_ack_deadline_secs(unwrap_or(opts.ack_deadline_secs, 10))
    /\ validate_subscription_retention_secs(unwrap_or(opts.message_retention_secs, 604800))
    /\ validate_filter_len(opts.filter)
    /\ opts.dead_letter_topic # None =>
           validate_dead_letter_max_attempts(unwrap_or(opts.max_delivery_attempts, 0))
    /\ validate_retry_backoff_secs(unwrap_or(opts.min_retry_backoff_secs, 10))
    /\ validate_retry_backoff_secs(unwrap_or(opts.max_retry_backoff_secs, 600))

new_subscription(name, topic, opts) ==
    [name |-> name, topic |-> topic,
     ack_deadline_secs |-> unwrap_or(opts.ack_deadline_secs, 10),
     retain_acked_messages |-> opts.retain_acked_messages,
     message_retention_secs |-> unwrap_or(opts.message_retention_secs, 604800),
     labels |-> opts.labels,
     enable_message_ordering |-> opts.enable_message_ordering,
     expiration_ttl_secs |-> unwrap_or(opts.expiration_ttl_secs, Some(31 * 24 * 3600)).some,
     filter |-> opts.filter,
     dead_letter_topic |-> opts.dead_letter_topic,
     max_delivery_attempts |->
        IF opts.dead_letter_topic = None THEN 0
        ELSE IF unwrap_or(opts.max_delivery_attempts, 0) = 0 THEN 5
        ELSE opts.max_delivery_attempts,
     min_retry_backoff_secs |-> unwrap_or(opts.min_retry_backoff_secs, 10),
     max_retry_backoff_secs |-> unwrap_or(opts.max_retry_backoff_secs, 600),
     retry_policy_explicit |-> \/ opts.min_retry_backoff_secs # None
                               \/ opts.max_retry_backoff_secs # None,
     detached |-> FALSE,
     enable_exactly_once_delivery |-> opts.enable_exactly_once_delivery,
     push_config |-> opts.push_config]

\* PubSubService::create_subscription resolves the topic first.
create_subscription(name, topic, opts) ==
    IF topic_error(topic) # "Ok" THEN Err(topic_error(topic))
    ELSE IF ~ valid_options(name, topic, opts) THEN Err("InvalidArgument")
    ELSE IF sub # None THEN Err("AlreadyExists")
    ELSE outcome("Ok", topics, new_subscription(name, topic, opts))

subscription_to_proto(r) ==
    [name |-> r.name, topic |-> r.topic,
     push_config |-> push_config_to_proto(r.push_config),
     bigquery_config |-> FALSE, cloud_storage_config |-> FALSE,
     ack_deadline_seconds |-> r.ack_deadline_secs,
     retain_acked_messages |-> r.retain_acked_messages,
     message_retention_duration |-> secs_to_duration(r.message_retention_secs),
     labels |-> r.labels,
     enable_message_ordering |-> r.enable_message_ordering,
     expiration_policy |-> [ttl |-> IF r.expiration_ttl_secs = None THEN None
                                    ELSE secs_to_duration(r.expiration_ttl_secs)],
     filter |-> r.filter,
     dead_letter_policy |->
        IF r.dead_letter_topic = None THEN None
        ELSE [dead_letter_topic |-> r.dead_letter_topic,
              max_delivery_attempts |-> r.max_delivery_attempts],
     retry_policy |-> [minimum_backoff |-> secs_to_duration(r.min_retry_backoff_secs),
                       maximum_backoff |-> secs_to_duration(r.max_retry_backoff_secs)],
     detached |-> r.detached,
     enable_exactly_once_delivery |-> r.enable_exactly_once_delivery]

grpc_create_subscription(m) ==
    create_subscription(m.name, m.topic, create_options_from_proto(m))

\* The name comes from the URL, everything else from the body.
rest_create_subscription(m) ==
    create_subscription(sub_name(m.name.project, m.name.id), m.topic,
                        create_options_from_proto(m))

-----------------------------------------------------------------------------
(* Updates.                                                                *)

Immutable == {"name", "topic", "enable_message_ordering", "filter"}

\* What an update mask selects of a message; None leaves a field alone.
patch_from_proto(m, mask) ==
    LET named(path, v) == IF path \in mask THEN Some(v) ELSE None
        given(path, v) == IF path \in mask /\ v # None THEN Some(v) ELSE None
        dlp == m.dead_letter_policy
        rp  == m.retry_policy
    IN  [ack_deadline_secs |-> named("ack_deadline_seconds", m.ack_deadline_seconds),
         retain_acked_messages |-> named("retain_acked_messages", m.retain_acked_messages),
         message_retention_secs |-> given("message_retention_duration",
                                duration_to_secs(m.message_retention_duration)),
         labels |-> named("labels", m.labels),
         expiration_ttl_secs |-> named("expiration_policy",
                                IF m.expiration_policy = None THEN None
                                ELSE duration_to_secs(m.expiration_policy.ttl)),
         dead_letter_topic |-> named("dead_letter_policy",
                                IF dlp = None THEN None ELSE dlp.dead_letter_topic),
         max_delivery_attempts |-> given("dead_letter_policy",
                                IF dlp = None THEN None ELSE dlp.max_delivery_attempts),
         min_retry_backoff_secs |-> given("retry_policy",
                                IF rp = None THEN None ELSE duration_to_secs(rp.minimum_backoff)),
         max_retry_backoff_secs |-> given("retry_policy",
                                IF rp = None THEN None ELSE duration_to_secs(rp.maximum_backoff)),
         detached |-> named("detached", m.detached),
         enable_exactly_once_delivery |-> named("enable_exactly_once_delivery",
                                m.enable_exactly_once_delivery),
         push_config |-> named("push_config", push_config_from_proto(m.push_config))]

\* Mutant: an update does not check the backoffs.
valid_patch_no_backoff(patch) ==
    LET ok(field, valid(_)) == patch[field] = None \/ valid(patch[field].some)
    IN  /\ ok("ack_deadline_secs", validate_ack_deadline_secs)
        /\ ok("message_retention_secs", validate_subscription_retention_secs)
        /\ ok("max_delivery_attempts", validate_dead_letter_max_attempts)

valid_patch(patch) ==
    LET ok(field, valid(_)) == patch[field] = None \/ valid(patch[field].some)
    IN  /\ ok("ack_deadline_secs", validate_ack_deadline_secs)
        /\ ok("message_retention_secs", validate_subscription_retention_secs)
        /\ ok("max_delivery_attempts", validate_dead_letter_max_attempts)
        /\ ok("min_retry_backoff_secs", validate_retry_backoff_secs)
        /\ ok("max_retry_backoff_secs", validate_retry_backoff_secs)

\* Mutant: a retry policy without bounds resets them to the defaults.
apply_patch_resets(r, patch) ==
    [f \in DOMAIN r |->
        IF f = "min_retry_backoff_secs" /\ patch[f] = None THEN 10
        ELSE IF f = "max_retry_backoff_secs" /\ patch[f] = None THEN 600
        ELSE IF f \in DOMAIN patch THEN IF patch[f] = None THEN r[f] ELSE patch[f].some
        ELSE r[f]]

apply_patch(r, patch) ==
    [f \in DOMAIN r |->
        IF f = "max_delivery_attempts" /\ patch[f] = Some(0) THEN 5
        ELSE IF f = "retry_policy_explicit"
        THEN \/ r[f] \/ patch.min_retry_backoff_secs # None
                     \/ patch.max_retry_backoff_secs # None
        ELSE IF f \in DOMAIN patch THEN IF patch[f] = None THEN r[f] ELSE patch[f].some
        ELSE r[f]]

sub_found(name) == IF sub = None THEN FALSE ELSE sub.name = name

\* SubscriptionStore::update works on a copy and stores it at the end.
update_subscription(name, patch) ==
    IF ~ sub_found(name) THEN Err("NotFound")
    ELSE IF ~ valid_patch(patch) THEN Err("InvalidArgument")
    ELSE outcome("Ok", topics, apply_patch(sub, patch))

grpc_update_subscription(m, mask) ==
    IF mask \cap Immutable # {} THEN Err("InvalidArgument")
    ELSE update_subscription(m.name, patch_from_proto(m, mask))

change_subscription(name, new) ==
    IF sub_found(name) THEN outcome("Ok", topics, new) ELSE Err("NotFound")

delete_subscription(name) == change_subscription(name, None)
detach_subscription(name) ==
    change_subscription(name, IF sub = None THEN None ELSE [sub EXCEPT !.detached = TRUE])

\* A request without a push configuration, or with an empty endpoint, sets none.
modify_push_config(name, pc) ==
    change_subscription(name,
        IF sub = None THEN None ELSE [sub EXCEPT !.push_config = push_config_from_proto(pc)])

-----------------------------------------------------------------------------
(* Delivery requests, as far as their checks go.                           *)

\* Pull, and opening a stream, refuse a detached subscription and one whose
\* topic is gone.
attached(name) ==
    IF ~ sub_found(name) THEN "NotFound"
    ELSE IF sub.detached \/ sub.topic = DELETED_TOPIC THEN "FailedPrecondition" ELSE "Ok"

AtLeastOne(n) == IF n < 1 THEN 1 ELSE n

pull(name, max_messages) ==
    IF ~ validate_pull_max_messages(AtLeastOne(max_messages)) THEN Err("InvalidArgument")
    ELSE Err(attached(name))

\* Acknowledge and ModifyAckDeadline only need the subscription.
acknowledge(name) == IF sub_found(name) THEN Ok ELSE Err("NotFound")

grpc_pull(name, n) == pull(name, IF n > 0 THEN n ELSE 1)

\* Mutant: REST passes the count on as it came.
rest_pull_raw(name, n) ==
    IF validate_pull_max_messages(n) THEN pull(name, n) ELSE Err("InvalidArgument")

rest_pull(name, n) == pull(sub_name(name.project, name.id), AtLeastOne(n))

rest_publish(name, messages, disk_full) ==
    publish(topic_name(name.project, name.id), messages, disk_full)

rest_modify_push_config(name, pc) ==
    modify_push_config(sub_name(name.project, name.id), pc)

rest_acknowledge(name) == acknowledge(sub_name(name.project, name.id))

-----------------------------------------------------------------------------
(* The requests that change something.  A request that fails changes       *)
(* nothing, and neither do reads.                                          *)

Transports == {"grpc", "rest"}

served(o, cost) ==
    /\ updates + cost <= MaxUpdates
    /\ topics' = o.topics
    /\ sub' = o.sub
    /\ updates' = updates + cost

CreateTopic(via, m) ==
    served(IF via = "grpc" THEN grpc_create_topic(m) ELSE rest_create_topic(m), 0)
UpdateTopic(m, mask) == served(grpc_update_topic(m, mask), 1)
DeleteTopic(m) == served(delete_topic(m.name), 1)
CreateSubscription(via, m) ==
    served(IF via = "grpc" THEN grpc_create_subscription(m)
           ELSE rest_create_subscription(m), 0)
UpdateSubscription(m, mask) == served(grpc_update_subscription(m, mask), 1)
DeleteSubscription(m) == served(delete_subscription(m.name), 1)
DetachSubscription(m) == served(detach_subscription(m.name), 1)
ModifyPushConfig(via, m) ==
    served(IF via = "grpc" THEN modify_push_config(m.name, m.push_config)
           ELSE rest_modify_push_config(m.name, m.push_config), 1)

RequestsInit == topics = {} /\ sub = None /\ updates = 0

RequestsNext ==
    \/ \E m \in TopicMessages : \/ \E via \in Transports : CreateTopic(via, m)
                                \/ \E mask \in Masks : UpdateTopic(m, mask)
                                \/ DeleteTopic(m)
    \/ \E m \in SubMessages : \/ \E via \in Transports : CreateSubscription(via, m)
                              \/ \E mask \in Masks : UpdateSubscription(m, mask)
                              \/ DeleteSubscription(m)
                              \/ DetachSubscription(m)
                              \/ \E via \in Transports : ModifyPushConfig(via, m)

RequestsSpec == RequestsInit /\ [][RequestsNext]_requestVars

-----------------------------------------------------------------------------
(* Properties.                                                             *)

(* What GetSubscription returns can be sent back: creating a subscription  *)
(* from the exported message is accepted and gives the same subscription,  *)
(* whatever updates led to it.  So every check create makes still holds    *)
(* after the updates, which check fewer fields.  Three fields are not      *)
(* restored: a new subscription is not detached, the exported message      *)
(* always states a retry policy, and the attempts a cleared dead-letter    *)
(* policy left behind are dropped.                                         *)
RecreateRestores ==
    sub # None =>
        LET opts == create_options_from_proto(subscription_to_proto(sub))
        IN  /\ valid_options(sub.name, sub.topic, opts)
            /\ new_subscription(sub.name, sub.topic, opts) =
                 [sub EXCEPT !.detached = FALSE, !.retry_policy_explicit = TRUE,
                             !.max_delivery_attempts =
                                IF sub.dead_letter_topic = None THEN 0 ELSE @]

\* The fields of a record an update path stands for.
fields_of(path) ==
    CASE path = "ack_deadline_seconds" -> {"ack_deadline_secs"}
      [] path = "message_retention_duration" -> {"message_retention_secs"}
      [] path = "expiration_policy" -> {"expiration_ttl_secs"}
      [] path = "dead_letter_policy" -> {"dead_letter_topic", "max_delivery_attempts"}
      [] path = "retry_policy" -> {"min_retry_backoff_secs", "max_retry_backoff_secs",
                                   "retry_policy_explicit"}
      [] OTHER -> {path}

(* An update is all or nothing: refused, it leaves the subscription as it  *)
(* was even when only its last field is at fault; accepted, it changes no  *)
(* field its mask does not name, and the name, topic, filter and ordering  *)
(* of a subscription never change.                                         *)
UpdatesAreExact ==
    sub # None =>
        \A m \in SubMessages, mask \in Masks :
            LET o == grpc_update_subscription(m, mask)
            IN  IF o.code = "Ok"
                THEN \A f \in DOMAIN sub :
                        o.sub[f] = sub[f] \/ f \in UNION {fields_of(p) : p \in mask} \ Immutable
                ELSE o.sub = sub

(* The two transports agree: whatever a REST URL and body can express of a *)
(* subscription, a labels-only topic, a publish, a pull, a push            *)
(* configuration or an acknowledgement has the effect and the canonical    *)
(* status that it has over gRPC.                                           *)
TransportsAgree ==
    LET same(g, r) == g = r /\ to_status[g.code] = error_code[r.code][1]
    IN  /\ \A m \in {n \in SubMessages : n.name = sub_name(n.name.project, n.name.id)} :
            /\ same(grpc_create_subscription(m), rest_create_subscription(m))
            /\ same(modify_push_config(m.name, m.push_config),
                    rest_modify_push_config(m.name, m.push_config))
            /\ same(acknowledge(m.name), rest_acknowledge(m.name))
            /\ \A n \in Counts : same(grpc_pull(m.name, n), rest_pull(m.name, n))
        /\ \A m \in TopicMessages, b \in Batches, full \in BOOLEAN :
            same(publish(m.name, b, full), rest_publish(m.name, b, full))
        /\ \A m \in TopicMessages :
            /\ m.message_retention_duration = None /\ m.kms_key_name = None
            /\ ~ m.schema_settings /\ ~ m.ingestion_settings
            => same(grpc_create_topic(m), rest_create_topic(m))
=============================================================================
