--------------------------- MODULE MCControlPlane ---------------------------
(***************************************************************************)
(* The control plane for TLC: the catalogue, the requests, the filters and *)
(* the listings, side by side.  The four share no state, so a behaviour    *)
(* follows one of them and leaves the others at their start.               *)
(***************************************************************************)
EXTENDS Naturals, Sequences, TLC

CONSTANTS Handlers, TopicNames, SubNames, SnapNames, None, Present, MaxOps, MaxCrashes,
          Counts, MaxUpdates, k1, k2, a, b, MaxTokens,
          NameCount, DEFAULT_PAGE_SIZE, PageSizes, MaxChanges

VARIABLES part,     \* the part of the control plane this behaviour follows
          kv, hs, stale, torn, skewed, acked, ops, crashes,
          topics, sub, updates,
          input,
          names, steady, page_token, got, size, listing, done, changes

catalogVars == <<kv, hs, stale, torn, skewed, acked, ops, crashes>>
requestVars == <<topics, sub, updates>>
listingVars == <<names, steady, page_token, got, size, listing, done, changes>>

-----------------------------------------------------------------------------
(* The messages clients send: a base message, and one field at a time off  *)
(* it, at and beyond the limits.                                           *)

Full(kind, project, len) ==
    [segments |-> 4, root |-> "projects", project |-> project, kind |-> kind,
     id |-> [len |-> len, letter |-> TRUE, allowed |-> TRUE, goog |-> FALSE]]

T == Full("topics", "p", 3)
S == Full("subscriptions", "p", 3)

Varied(base, field, values) == {[base EXCEPT ![field] = v] : v \in values}
Secs(n) == [seconds |-> n, nanos |-> 0]

BaseTopic == [name |-> T, labels |-> 0, message_retention_duration |-> None,
              kms_key_name |-> None, schema_settings |-> FALSE,
              ingestion_settings |-> FALSE]

MCTopicMessages ==
    {BaseTopic} \cup Varied(BaseTopic, "labels", {1})
    \cup Varied(BaseTopic, "name", {Full("topics", "p", 2), Full("topics", "", 3)})
    \cup Varied(BaseTopic, "message_retention_duration", {Secs(599), Secs(2678400)})
    \cup Varied(BaseTopic, "schema_settings", {TRUE})

BaseSub == [name |-> S, topic |-> T, push_config |-> None, bigquery_config |-> FALSE,
    cloud_storage_config |-> FALSE, ack_deadline_seconds |-> 0,
    retain_acked_messages |-> FALSE, message_retention_duration |-> None, labels |-> 0,
    enable_message_ordering |-> FALSE, expiration_policy |-> None, filter |-> 0,
    dead_letter_policy |-> None, retry_policy |-> None, detached |-> FALSE,
    enable_exactly_once_delivery |-> FALSE]

Push(url, wrapper) == [push_endpoint |-> url, wrapper |-> wrapper, write_metadata |-> TRUE]
DeadLetter(n) == [dead_letter_topic |-> T, max_delivery_attempts |-> n]
RetryPolicy(lo, hi) == [minimum_backoff |-> lo, maximum_backoff |-> hi]

MCSubMessages ==
    {BaseSub}
    \cup Varied(BaseSub, "name", {Full("subscriptions", "p", 256), T})
    \cup Varied(BaseSub, "push_config", {Push("", "none"), Push("u", "no_wrapper")})
    \cup Varied(BaseSub, "bigquery_config", {TRUE})
    \cup Varied(BaseSub, "ack_deadline_seconds", {9, 600})
    \cup Varied(BaseSub, "message_retention_duration", {[seconds |-> 600, nanos |-> 5]})
    \cup Varied(BaseSub, "expiration_policy", {[ttl |-> None], [ttl |-> Secs(86400)]})
    \cup Varied(BaseSub, "filter", {256, 257})
    \cup Varied(BaseSub, "dead_letter_policy", {DeadLetter(0), DeadLetter(4), DeadLetter(100)})
    \cup Varied(BaseSub, "retry_policy", {RetryPolicy(None, None), RetryPolicy(Secs(0), None),
                                          RetryPolicy(Secs(600), Secs(601))})
    \cup Varied(BaseSub, "detached", {TRUE})

Attr(k, v, goog) == [key_len |-> k, value_len |-> v, goog |-> goog]
Message(n, attrs) == [data_len |-> n, attributes |-> attrs, ordering_key_len |-> 0]

MaxBytes == 10 * 1024 * 1024

MCBatches ==
    {<<>>, <<Message(1, {Attr(256, 1024, FALSE)})>>, <<Message(1, {Attr(4, 1, TRUE)})>>,
     <<Message(MaxBytes, {})>>, <<Message(MaxBytes, {Attr(1, 0, FALSE)})>>,
     <<Message(MaxBytes, {}), Message(1, {})>>}

MCMasks == {{}, {"filter"}, {"ack_deadline_seconds"}, {"message_retention_duration"},
            {"expiration_policy"}, {"dead_letter_policy"}, {"retry_policy"}, {"detached"},
            {"push_config"}, {"ack_deadline_seconds", "dead_letter_policy", "retry_policy"}}

-----------------------------------------------------------------------------
Eq(k, v) == [kind |-> "Compare", attr |-> k, op |-> "=", value |-> v]
Ne(k, v) == [kind |-> "Compare", attr |-> k, op |-> "!=", value |-> v]
HasAttr(k) == [kind |-> "HasAttr", attr |-> k]
HasPrefix(k, p) == [kind |-> "HasPrefix", attr |-> k, prefix |-> p]

MCAtoms == <<Ne(k1, <<a>>), HasPrefix(k1, <<a>>), HasAttr(k2), Eq(k1, <<a, b>>)>>

\* k1 and k2 each absent or with one of three values.
MCAttrSets == UNION {[ks -> {<<b>>, <<a>>, <<a, b>>}] : ks \in SUBSET {k1, k2}}

-----------------------------------------------------------------------------
C == INSTANCE Catalog
R == INSTANCE Requests WITH TopicMessages <- MCTopicMessages,
        SubMessages <- MCSubMessages, Masks <- MCMasks, Batches <- MCBatches
F == INSTANCE Filter WITH Atoms <- MCAtoms, AttrSets <- MCAttrSets
L == INSTANCE Listing

Init ==
    /\ part \in {"catalog", "requests", "filter", "listing"}
    /\ C!CatalogInit
    /\ R!RequestsInit
    /\ F!FilterInit
    /\ L!ListingInit
    /\ part # "listing" => names = {} /\ size = 1 /\ listing = "topics"

CatalogStep == /\ part = "catalog"
               /\ C!CatalogNext
               /\ UNCHANGED <<part, requestVars, input, listingVars>>
RequestStep == /\ part = "requests"
               /\ R!RequestsNext
               /\ UNCHANGED <<part, catalogVars, input, listingVars>>
FilterStep  == /\ part = "filter"
               /\ F!FilterNext
               /\ UNCHANGED <<part, catalogVars, requestVars, listingVars>>
ListingStep == /\ part = "listing"
               /\ L!ListingNext
               /\ UNCHANGED <<part, catalogVars, requestVars, input>>

Next == CatalogStep \/ RequestStep \/ FilterStep \/ ListingStep

vars == <<part, catalogVars, requestVars, input, listingVars>>

Spec == Init /\ [][Next]_vars

Symmetry == Permutations(Handlers)

-----------------------------------------------------------------------------
(* The properties of the parts, where the part is the one followed.        *)

\* A name row always leads to the record of that name (Catalog).
NamesResolve == part = "catalog" => C!NamesResolve

\* The four rows of a subscription stand or fall together (Catalog).
SubscriptionRowsAgree == part = "catalog" => C!SubscriptionRowsAgree

\* Ids are never shared nor drawn again (Catalog).
IdsNeverCollide == part = "catalog" => C!IdsNeverCollide

\* The subscriptions of a deleted topic say so (Catalog).
DeletedTopicIsMarked == part = "catalog" => C!DeletedTopicIsMarked

\* A published message stays under its sequence number (Catalog).
PublishedIsKept == part = "catalog" => C!PublishedIsKept

\* The exported form of a subscription re-creates it (Requests).
RecreateRestores == part = "requests" => R!RecreateRestores

\* An update is all or nothing and changes what its mask names (Requests).
UpdatesAreExact == part = "requests" => R!UpdatesAreExact

\* gRPC and REST serve the same request alike (Requests).
TransportsAgree == part = "requests" => R!TransportsAgree

\* The parser and the evaluation agree with the grammar (Filter).
FilterMeansWhatItSays == part = "filter" => F!FilterMeansWhatItSays

\* A listing misses and repeats nothing (Listing).
ListingIsComplete == part = "listing" => L!ListingIsComplete
=============================================================================
