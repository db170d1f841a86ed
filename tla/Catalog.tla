------------------------------ MODULE Catalog ------------------------------
(***************************************************************************)
(* The resource catalogue: TopicStore, SubscriptionStore and SnapshotStore *)
(* over one KvStore, with the PubSubService operations that combine them.  *)
(*                                                                         *)
(* The stores take no lock: a request reads rows, decides, and then makes  *)
(* its writes one KvStore call at a time, while other requests run.  A     *)
(* handler is therefore the list of writes it still has to make, and one   *)
(* step makes one write.  Requests that fail their checks change nothing   *)
(* and are left out; decoding errors need a corrupt row, which no write of *)
(* this code makes.                                                        *)
(*                                                                         *)
(* Two histories say when requests got in each other's way: a row is       *)
(* `stale' once a handler wrote it after somebody else had changed it,     *)
(* and a write is `torn' once a crash kept a handler from making it.       *)
(***************************************************************************)
EXTENDS Naturals, Sequences, FiniteSets

CONSTANTS Handlers,     \* request handlers running at the same time
          TopicNames, SubNames, SnapNames,
          None,         \* an absent row
          Present,      \* a row taken to be there, whatever its value
          MaxOps,       \* bound on the requests, sweeps and publishes begun
          MaxCrashes    \* bound on the crashes

VARIABLES kv,       \* the rows present: row |-> value
          hs,       \* handler |-> what it has still to do
          stale,    \* rows overwritten from an outdated read
          torn,     \* <<row, value>> of the writes a crash prevented
          skewed,   \* subscriptions whose topic was deleted as they were created
          acked,    \* message rows of the publishes that returned
          ops, crashes

catalogVars == <<kv, hs, stale, torn, skewed, acked, ops, crashes>>

-----------------------------------------------------------------------------
(* Rows (store/keys.rs) and the three KvStore calls the stores make.       *)

record_key(kind, id) == <<"record", kind, id>>
name_key(kind, name) == <<"name", kind, name>>
id_seq_key == <<"id_seq">>
topic_seq_counter_key(topic) == <<"t/seq", topic>>
msg_key(topic, seq) == <<"msg", topic, seq>>
cursor_key(sub) == <<"sub", sub>>
topic_sub_idx_key(topic, sub) == <<"idx", topic, sub>>

get(row) == IF row \in DOMAIN kv THEN kv[row] ELSE None
put(row, value) ==
    [r \in DOMAIN kv \cup {row} |-> IF r = row THEN value ELSE kv[r]]
delete(row) == [r \in DOMAIN kv \ {row} |-> kv[r]]

\* The rows of one table, as scan_prefix returns them.
scan(table) == {r \in DOMAIN kv : r[1] = table}
records(kind) == {r \in scan("record") : r[2] = kind}

\* A counter that was never written reads as 0.
read_counter(row) == IF row \in DOMAIN kv THEN kv[row] ELSE 0

\* A full name resolves to a record through its name row.
found(kind, name) == /\ name_key(kind, name) \in DOMAIN kv
                     /\ record_key(kind, kv[name_key(kind, name)]) \in DOMAIN kv
id_of(kind, name) == kv[name_key(kind, name)]

-----------------------------------------------------------------------------
(* One write a handler has still to make: the row, its new value (None to  *)
(* delete it) and what the handler took to be there when it decided.       *)

W(row, value, seen) == [row |-> row, value |-> value, seen |-> seen]

Idle == [pc |-> "idle", kind |-> None, name |-> None, topic |-> 0, todo |-> {},
         writes |-> <<>>]

idle(h) == hs[h] = Idle /\ ops < MaxOps

begin(h, pc, kind, name, topic, todo, writes) ==
    /\ hs' = [hs EXCEPT ![h] = [pc |-> pc, kind |-> kind, name |-> name,
                                topic |-> topic, todo |-> todo, writes |-> writes]]
    /\ ops' = ops + 1
    /\ UNCHANGED <<kv, stale, torn, skewed, acked, crashes>>

continue(h, pc, todo, writes) ==
    /\ hs' = [hs EXCEPT ![h].pc = pc, ![h].todo = todo, ![h].writes = writes]
    /\ UNCHANGED <<kv, stale, torn, skewed, acked, ops, crashes>>

-----------------------------------------------------------------------------
(* Creation: the name is free, then an id is drawn from the shared counter *)
(* and the rows are written, record first.                                 *)

Create(h, kind, name, topic) ==
    /\ idle(h)
    /\ name_key(kind, name) \notin DOMAIN kv
    /\ begin(h, "next_id", kind, name, topic, {}, <<>>)

CreateTopic(h, name) == Create(h, "t", name, 0)

CreateSubscription(h, name, topic) ==
    /\ found("t", topic)
    /\ Create(h, "s", name, id_of("t", topic))

\* A snapshot copies the cursor of a subscription.
CreateSnapshot(h, name, sub) ==
    /\ found("s", sub)
    /\ cursor_key(id_of("s", sub)) \in DOMAIN kv
    /\ Create(h, "snap", name, kv[record_key("s", id_of("s", sub))].topic)

\* A record: its name and, for a subscription, the topic's id, whether its
\* topic field still names that topic, and whether it is detached.
new_record(name, topic) ==
    [name |-> name, topic |-> topic, topic_deleted |-> FALSE, detached |-> FALSE]

\* Mutant: the name row is written before the record.
persist_name_first(kind, id, record, seenRecord, seenName) ==
    << W(name_key(kind, record.name), id, seenName),
       W(record_key(kind, id), record, seenRecord) >>

\* The record and its name row, in the order persist writes them.
persist(kind, id, record, seenRecord, seenName) ==
    << W(record_key(kind, id), record, seenRecord),
       W(name_key(kind, record.name), id, seenName) >>

attach(topic, id) ==
    << W(cursor_key(id), read_counter(topic_seq_counter_key(topic)), None),
       W(topic_sub_idx_key(topic, id), id, None) >>

\* Mutant: the id drawn is the one the counter holds, not the next.
next_id_current(n) == IF n = 0 THEN 1 ELSE n

next_id(n) == n + 1

NextId(h) ==
    LET old == read_counter(id_seq_key)
        id  == next_id(old)
        hd  == hs[h]
    IN  /\ hd.pc = "next_id"
        /\ continue(h, "create", {},
              <<W(id_seq_key, id, get(id_seq_key))>>
              \o persist(hd.kind, id, new_record(hd.name, hd.topic), None, None)
              \o (IF hd.kind = "s" THEN attach(hd.topic, id) ELSE <<>>))

-----------------------------------------------------------------------------
(* Updates: read the whole record, change a field, write it all back.      *)

\* The changes that matter here: touch, update and set_push_config leave the
\* modelled fields as they were read, detach sets one.
Changes == {"keep", "detach"}

change(record, c) == IF c = "detach" THEN [record EXCEPT !.detached = TRUE]
                                     ELSE record

UpdateSubscription(h, name, c) ==
    /\ idle(h)
    /\ found("s", name)
    /\ LET id == id_of("s", name)
           record == kv[record_key("s", id)]
       IN  begin(h, "update", "s", name, record.topic, {},
                 persist("s", id, change(record, c), record, id))

\* Topics and snapshots rewrite the record only.
UpdateRecord(h, kind, name) ==
    /\ idle(h)
    /\ kind # "s"
    /\ found(kind, name)
    /\ LET id == id_of(kind, name)
           record == kv[record_key(kind, id)]
       IN  begin(h, "update", kind, name, 0, {},
                 <<W(record_key(kind, id), record, record)>>)

-----------------------------------------------------------------------------
(* Deletion.                                                               *)

delete_rows(kind, id, name) ==
    << W(record_key(kind, id), None, get(record_key(kind, id))),
       W(name_key(kind, name), None, id) >>

detach_rows(topic, id) ==
    << W(cursor_key(id), None, Present),
       W(topic_sub_idx_key(topic, id), None, Present) >>

\* Mutant: the cursor and index rows stay behind.
delete_subscription_record(name) == delete_rows("s", id_of("s", name), name)

delete_subscription(name) ==
    LET id == id_of("s", name)
    IN  delete_rows("s", id, name)
        \o detach_rows(kv[record_key("s", id)].topic, id)

DeleteSubscription(h, name) ==
    /\ idle(h)
    /\ found("s", name)
    /\ begin(h, "delete", "s", name, 0, {}, delete_subscription(name))

\* A snapshot is deleted by its name row alone.
DeleteSnapshot(h, name) ==
    /\ idle(h)
    /\ name_key("snap", name) \in DOMAIN kv
    /\ begin(h, "delete", "snap", name, 0, {},
             delete_rows("snap", id_of("snap", name), name))

\* The subscriptions of a topic, from the idx rows.
list_by_topic_id(topic) == {r[3] : r \in {i \in scan("idx") : i[2] = topic}}

\* Mutant: the topic goes first, its subscriptions afterwards.
DeleteTopicFirst(h, name) ==
    /\ idle(h)
    /\ found("t", name)
    /\ begin(h, "fan_out", "t", name, id_of("t", name),
             list_by_topic_id(id_of("t", name)),
             delete_rows("t", id_of("t", name), name))

DeleteTopic(h, name) ==
    /\ idle(h)
    /\ found("t", name)
    /\ begin(h, "fan_out", "t", name, id_of("t", name),
             list_by_topic_id(id_of("t", name)), <<>>)

\* One subscription of a topic being deleted; the request fails, and the
\* topic stays, when its record is gone.
SetTopicToDeleted(h, sub) ==
    /\ hs[h].pc = "fan_out" /\ hs[h].writes = <<>>
    /\ sub \in hs[h].todo /\ \A other \in hs[h].todo : sub <= other
    /\ LET record == get(record_key("s", sub))
       IN  IF record = None
           THEN continue(h, "failed", {}, <<>>)
           ELSE continue(h, "fan_out", hs[h].todo \ {sub},
                         persist("s", sub, [record EXCEPT !.topic_deleted = TRUE],
                                 record, get(name_key("s", record.name))))

FannedOut(h) ==
    /\ hs[h].pc = "fan_out" /\ hs[h].writes = <<>> /\ hs[h].todo = {}
    /\ IF name_key("t", hs[h].name) \in DOMAIN kv
       THEN continue(h, "delete", {},
                     delete_rows("t", id_of("t", hs[h].name), hs[h].name))
       ELSE continue(h, "failed", {}, <<>>)

\* The sweep lists every record, then deletes the expired ones by name; an
\* error ends it.
SweepExpired(h) ==
    \E expired \in SUBSET {kv[r].name : r \in records("s")} :
        /\ idle(h)
        /\ expired # {}
        /\ begin(h, "sweep", "s", None, 0, expired, <<>>)

SweepNext(h, name) ==
    /\ hs[h].pc = "sweep" /\ hs[h].writes = <<>>
    /\ name \in hs[h].todo
    /\ IF found("s", name)
       THEN /\ hs' = [hs EXCEPT ![h].name = name, ![h].todo = @ \ {name},
                                ![h].writes = delete_subscription(name)]
            /\ UNCHANGED <<kv, stale, torn, skewed, acked, ops, crashes>>
       ELSE continue(h, "failed", {}, <<>>)

-----------------------------------------------------------------------------
(* Publishing one message: draw a sequence number, write the row.          *)

Publish(h, name) ==
    /\ idle(h)
    /\ found("t", name)
    /\ begin(h, "next_seq", "t", name, id_of("t", name), {}, <<>>)

\* Mutant: the counter is not written back.
NextSeqUnsaved(h) ==
    LET hd == hs[h]
        row == topic_seq_counter_key(hd.topic)
    IN  /\ hd.pc = "next_seq"
        /\ continue(h, "publish", {},
                    <<W(msg_key(hd.topic, read_counter(row) + 1), ops, None)>>)

NextSeq(h) ==
    LET hd == hs[h]
        row == topic_seq_counter_key(hd.topic)
        seq == read_counter(row) + 1
    IN  /\ hd.pc = "next_seq"
        /\ continue(h, "publish", {},
                    <<W(row, seq, get(row)), W(msg_key(hd.topic, seq), ops, None)>>)

-----------------------------------------------------------------------------
(* The next write of a handler.                                            *)

\* The topic is gone, or a deletion of its name has begun and may have
\* listed the subscriptions already.
topic_going(topic) ==
    IF record_key("t", topic) \in DOMAIN kv
    THEN \E h \in Handlers : /\ hs[h].kind = "t"
                             /\ hs[h].pc \in {"fan_out", "delete"}
                             /\ hs[h].name = kv[record_key("t", topic)].name
    ELSE TRUE

\* The row is not as the handler took it to be when it decided.
outdated(w) == IF w.seen = Present THEN w.row \notin DOMAIN kv
                                   ELSE get(w.row) # w.seen

Write(h) ==
    LET w == Head(hs[h].writes)
        hd == hs[h]
        last == Len(hd.writes) = 1
    IN  /\ hd.writes # <<>>
        /\ kv' = IF w.value = None THEN delete(w.row) ELSE put(w.row, w.value)
        /\ stale' = IF outdated(w) THEN stale \cup {w.row} ELSE stale
        /\ skewed' = IF w.row[1] = "idx" /\ w.value # None /\ topic_going(w.row[2])
                     THEN skewed \cup {w.value} ELSE skewed
        /\ acked' = IF w.row[1] = "msg" THEN acked \cup {<<w.row, w.value>>} ELSE acked
        /\ hs' = [hs EXCEPT ![h] =
                    IF last /\ hd.pc \notin {"fan_out", "sweep"} THEN Idle
                    ELSE [hd EXCEPT !.writes = Tail(@)]]
        /\ UNCHANGED <<torn, ops, crashes>>

\* A failed request, and a sweep with nothing left, return.
Return(h) ==
    /\ \/ hs[h].pc = "failed"
       \/ hs[h].pc = "sweep" /\ hs[h].writes = <<>> /\ hs[h].todo = {}
    /\ hs' = [hs EXCEPT ![h] = Idle]
    /\ UNCHANGED <<kv, stale, torn, skewed, acked, ops, crashes>>

pending(h) == {<<hs[h].writes[i].row, hs[h].writes[i].value>> :
                 i \in DOMAIN hs[h].writes}

\* The process dies between two writes.
Crash ==
    /\ crashes < MaxCrashes
    /\ crashes' = crashes + 1
    /\ torn' = torn \cup UNION {pending(h) : h \in Handlers}
    /\ hs' = [h \in Handlers |-> Idle]
    /\ UNCHANGED <<kv, stale, skewed, acked, ops>>

CatalogInit ==
    /\ kv = <<>>
    /\ hs = [h \in Handlers |-> Idle]
    /\ stale = {} /\ torn = {} /\ skewed = {} /\ acked = {}
    /\ ops = 0 /\ crashes = 0

CatalogNext ==
    \/ \E h \in Handlers :
        \/ \E t \in TopicNames : \/ CreateTopic(h, t)
                                 \/ UpdateRecord(h, "t", t)
                                 \/ DeleteTopic(h, t)
                                 \/ Publish(h, t)
        \/ \E s \in SubNames : \/ \E t \in TopicNames : CreateSubscription(h, s, t)
                               \/ \E c \in Changes : UpdateSubscription(h, s, c)
                               \/ DeleteSubscription(h, s)
                               \/ SweepNext(h, s)
        \/ \E n \in SnapNames : \/ \E s \in SubNames : CreateSnapshot(h, n, s)
                                \/ UpdateRecord(h, "snap", n)
                                \/ DeleteSnapshot(h, n)
        \/ NextId(h)
        \/ NextSeq(h)
        \/ \E id \in 1..MaxOps : SetTopicToDeleted(h, id)
        \/ FannedOut(h)
        \/ SweepExpired(h)
        \/ Write(h)
        \/ Return(h)
    \/ Crash

CatalogSpec == CatalogInit /\ [][CatalogNext]_catalogVars

-----------------------------------------------------------------------------
(* Properties.                                                             *)

\* Somebody has still to write the row, or a crash kept somebody from it.
unsettled(row) == \/ \E h \in Handlers : \E w \in pending(h) : w[1] = row
                  \/ \E w \in torn : w[1] = row

\* Somebody has still to delete the row, or a crash kept somebody from it.
going(row) == \/ \E h \in Handlers : <<row, None>> \in pending(h)
              \/ <<row, None>> \in torn

(* A name row always leads to the record of that name (create puts the     *)
(* record before the name), so that Get and List of the project find it.   *)
(* The exceptions are a deletion under way or cut short by a crash, which  *)
(* removes the record first, and requests that raced on the same rows.     *)
NamesResolve ==
    \A r \in scan("name") :
        LET rec == record_key(r[2], kv[r])
        IN  \/ rec \in DOMAIN kv /\ kv[rec].name = r[3]
            \/ going(r)
            \/ {r, rec, id_seq_key} \cap stale # {}

(* Whatever requests ran, once nobody is still writing them the four rows  *)
(* of a subscription stand or fall together: the record, its name, its     *)
(* cursor and its idx row.  A crash between the writes and requests that   *)
(* raced on the same rows are the exceptions.                              *)
SubscriptionRowsAgree ==
    \A id \in 1..MaxOps :
        LET rec  == record_key("s", id)
            idx  == {r \in scan("idx") : r[3] = id}
            rows == {rec, cursor_key(id)} \cup idx
                    \cup {name_key("s", kv[r].name) : r \in {rec} \cap DOMAIN kv}
                    \cup {topic_sub_idx_key(kv[r].topic, id) : r \in {rec} \cap DOMAIN kv}
        IN  \/ \A r \in rows : r \in DOMAIN kv
            \/ \A r \in rows : r \notin DOMAIN kv
            \/ \E r \in rows : unsettled(r)
            \/ (rows \cup {id_seq_key}) \cap stale # {}

(* Ids are never shared by two resources of any kind, nor drawn again      *)
(* after a deletion or a crash, as long as no two requests drew from       *)
(* id_seq at the same time.                                                *)
IdsNeverCollide ==
    id_seq_key \in stale \/
    \A r \in scan("record") :
        /\ r[3] <= read_counter(id_seq_key)
        /\ \A other \in scan("record") : other[3] = r[3] => other = r

(* When a topic is gone, every subscription attached to it says so         *)
(* (delete_topic marks them before it deletes), even when a crash struck   *)
(* half-way.  The exceptions are a subscription created while the topic    *)
(* was being deleted and a record written back from an outdated read.      *)
DeletedTopicIsMarked ==
    \A r \in records("s") :
        LET topic == kv[r].topic
        IN  \/ record_key("t", topic) \in DOMAIN kv
            \/ kv[r].topic_deleted
            \/ r[3] \in skewed
            \/ unsettled(topic_sub_idx_key(topic, r[3]))
            \/ {r, id_seq_key} \cap stale # {}

(* A message whose publish returned stays in the log under the sequence    *)
(* number it was given: no later publish, deletion, re-creation of the     *)
(* topic or restart writes over it, unless two publishes drew from the     *)
(* topic's counter at the same time.                                       *)
PublishedIsKept ==
    \A m \in acked : \/ get(m[1]) = m[2]
                     \/ {topic_seq_counter_key(m[1][2]), id_seq_key} \cap stale # {}
=============================================================================
