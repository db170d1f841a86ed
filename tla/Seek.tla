-------------------------------- MODULE Seek --------------------------------
(***************************************************************************)
(* Snapshots, Seek and message retention over the delivery engine:         *)
(* PubSubService::{create_snapshot, seek_to_snapshot, seek_to_time},       *)
(* DeliveryEngine::restore_cursor, TopicStore::{append,                    *)
(* seq_boundary_for_time} and retention::sweep_expired_messages.           *)
(*                                                                         *)
(* restore_cursor takes the lease-table lock only to empty the table; it   *)
(* deletes the rows and writes the cursor without it, so pulls, acks and a *)
(* crash may fall between any two of its writes.  A publish takes its seq  *)
(* before it writes its row: until then, and for ever if the process dies  *)
(* in between, the log has a gap.  One publisher, one administrative call  *)
(* and one retention sweep are in progress at a time.                      *)
(***************************************************************************)
EXTENDS Cursor, SeqBoundary

CONSTANTS
    Handlers,       \* pull and acknowledge calls that may be in progress at once
    None,
    Retentions,     \* message_retention_secs the topic may have at a publish
    SeekTimes,      \* times clients seek to
    MAX_SNAPSHOT_LIFETIME, MIN_SNAPSHOT_REMAINING_LIFETIME,
    MaxSeq, MaxTime, MaxSeeks    \* bounds; MaxSeeks: seeks begun

Seqs == 1 .. MaxSeq

ASSUME SeekAssumption ==
    /\ MaxSeq \in Nat \ {0} /\ MaxTime \in Nat /\ MaxSeeks \in Nat
    /\ Retentions \subseteq Nat \ {0} /\ SeekTimes \subseteq Nat
    /\ MAX_SNAPSHOT_LIFETIME \in Nat /\ MIN_SNAPSHOT_REMAINING_LIFETIME \in Nat
    /\ None \notin Handlers /\ None \notin Nat

VARIABLES
    now,
    tail,    \* the topic's seq counter
    log,     \* seqs of its message rows
    row,     \* seq -> publish_ts and expire_at of its message
    cursor,  \* the subscription's cursor row
    dlv,     \* seqs of its dlv rows
    leases,  \* seqs with a lease in memory, expired ones included
    lock,    \* holder of the lease-table mutex or None
    hs,      \* handler -> its progress
    pub,     \* the publish between next_seq and the row: its seq and clock, or None
    swept,   \* the message retention has deleted, its dlv rows not yet; or 0
    snap,    \* the snapshot: cursor and expire_at; or None
    adm,     \* the administrative call in progress
    seeks,   \* seeks begun so far
    settled  \* history: seqs acked, or put behind the cursor by a seek

topic == <<tail, log, row, pub>>
engine == <<cursor, dlv, leases, lock, hs>>
vars == <<now, topic, engine, swept, snap, adm, seeks, settled>>

\* A handler: the cursor it loaded before it asked for the lock, the seq it acks.
Idle == [pc |-> "idle", cur |-> new_cursor(0), seq |-> 0]
Handler == [pc: {"idle", "pull", "ack", "save"}, cur: CursorRecord(Seqs), seq: Seqs \cup {0}]

\* The administrative call: cur is the cursor it copied or will write, seqs the rows it
\* has still to delete, time the time it seeks to, or None.  For the properties: sound,
\* the log had no gap but at its start when the call looked at it; to, the tail at that
\* moment; alone, no request ran beside it so far.
NoCall == [pc |-> "idle", cur |-> new_cursor(0), seqs |-> {}, time |-> None,
           sound |-> TRUE, to |-> 0, alone |-> TRUE]

Call == [pc: {"idle", "captured", "restore", "delete", "purge"},
         cur: CursorRecord(Seqs), seqs: SUBSET Seqs, time: Nat \cup {None},
         sound: BOOLEAN, to: Nat, alone: BOOLEAN]

\* unacked and whole are for the properties: the messages the cursor left unacked, and
\* whether the cursor was the same at both reads.
Snapshot == [cursor: CursorRecord(Seqs), expire_at: Nat, unacked: SUBSET Seqs,
             whole: BOOLEAN]

SeekTypeOK ==
    /\ now \in Nat /\ tail \in Nat /\ seeks \in Nat
    /\ log \subseteq Seqs /\ dlv \subseteq Seqs /\ leases \subseteq Seqs /\ settled \subseteq Seqs
    /\ row \in [Seqs -> [publish_ts: Nat, expire_at: Nat]]
    /\ cursor \in CursorRecord(Seqs)
    /\ lock \in Handlers \cup {None}
    /\ hs \in [Handlers -> Handler]
    /\ pub \in [seq: Seqs, at: Nat] \cup {None}
    /\ swept \in Seqs \cup {0}
    /\ snap \in Snapshot \cup {None}
    /\ adm \in Call

\* A subscription created before the first message, or right after it.
SeekInit ==
    /\ now = 0
    /\ tail \in {0, 1}
    /\ row = [seq \in Seqs |-> [publish_ts |-> 0, expire_at |-> IF seq <= tail THEN 1 ELSE 0]]
    /\ log = 1 .. tail /\ cursor = new_cursor(tail) /\ settled = log
    /\ dlv = {} /\ leases = {} /\ lock = None /\ hs = [h \in Handlers |-> Idle]
    /\ pub = None /\ swept = 0 /\ snap = None /\ adm = NoCall /\ seeks = 0

Tick ==
    /\ now < MaxTime
    /\ now' = now + 1
    /\ UNCHANGED <<topic, engine, swept, snap, adm, seeks, settled>>

-----------------------------------------------------------------------------
(* The engine, reduced to what a seek can meet: leases and rows come and go, a     *)
(* cursor loaded early is written back late.                                       *)

\* A call in progress has company.
Beside == adm' = IF adm.pc = "idle" THEN adm ELSE [adm EXCEPT !.alone = FALSE]

\* The cursor is loaded before the lock is asked for; an ack names a message delivered
\* before.
Load(h) ==
    /\ hs[h].pc = "idle"
    /\ \/ hs' = [hs EXCEPT ![h] = [pc |-> "pull", cur |-> cursor, seq |-> 0]]
       \/ \E seq \in dlv \cup leases :
             hs' = [hs EXCEPT ![h] = [pc |-> "ack", cur |-> cursor, seq |-> seq]]
    /\ Beside
    /\ UNCHANGED <<now, topic, cursor, dlv, leases, lock, swept, snap, seeks, settled>>

\* lease_next, under the lock: a lease and a row for some messages that the loaded cursor
\* leaves undone (the others have a lease that has not expired).
LeaseNext(h) ==
    /\ hs[h].pc = "pull" /\ lock = None
    /\ \E got \in SUBSET {seq \in log : ~is_done(hs[h].cur, seq)} :
          leases' = leases \cup got /\ dlv' = dlv \cup got
    /\ hs' = [hs EXCEPT ![h] = Idle]
    /\ Beside
    /\ UNCHANGED <<now, topic, cursor, lock, swept, snap, seeks, settled>>

\* acknowledge, under the lock: nothing without a lease; else the lease and the row go ...
AcknowledgeApply(h) ==
    LET seq == hs[h].seq
    IN /\ hs[h].pc = "ack" /\ lock = None
       /\ IF seq \in leases
          THEN /\ leases' = leases \ {seq} /\ dlv' = dlv \ {seq}
               /\ settled' = settled \cup {seq}
               /\ lock' = h
               /\ hs' = [hs EXCEPT ![h].pc = "save", ![h].cur = mark_done(@, seq)]
          ELSE /\ hs' = [hs EXCEPT ![h] = Idle]
               /\ UNCHANGED <<leases, dlv, settled, lock>>
       /\ Beside
       /\ UNCHANGED <<now, topic, cursor, swept, snap, seeks>>

\* ... and the cursor loaded before the lock is written back.
AcknowledgeSave(h) ==
    /\ hs[h].pc = "save"
    /\ cursor' = hs[h].cur
    /\ lock' = None
    /\ hs' = [hs EXCEPT ![h] = Idle]
    /\ Beside
    /\ UNCHANGED <<now, topic, dlv, leases, swept, snap, seeks, settled>>

\* sweep_expired: a long-expired lease leaves the table, its row stays.
SweepExpired(seq) ==
    /\ lock = None /\ seq \in leases
    /\ leases' = leases \ {seq}
    /\ UNCHANGED <<now, topic, cursor, dlv, lock, hs, swept, snap, adm, seeks, settled>>

-----------------------------------------------------------------------------
(* Publishing and retention                                                *)

\* Mutant: the first message gets seq 0.
AppendSeqFromZero ==
    /\ pub = None /\ tail < MaxSeq
    /\ tail' = tail + 1
    /\ pub' = [seq |-> tail, at |-> now]
    /\ UNCHANGED <<now, log, row, engine, swept, snap, adm, seeks, settled>>

\* TopicStore::append, first write: next_seq.  The clock was read before.
AppendSeq ==
    /\ pub = None /\ tail < MaxSeq
    /\ tail' = tail + 1
    /\ pub' = [seq |-> tail', at |-> now]
    /\ UNCHANGED <<now, log, row, engine, swept, snap, adm, seeks, settled>>

\* Second write: the message, with the retention its topic had.
AppendRow ==
    /\ pub # None
    /\ \E retention \in Retentions :
          row' = [row EXCEPT ![pub.seq] = [publish_ts |-> pub.at, expire_at |-> pub.at + retention]]
    /\ log' = log \cup {pub.seq}
    /\ pub' = None
    /\ UNCHANGED <<now, tail, engine, swept, snap, adm, seeks, settled>>

expired(seq) == row[seq].expire_at <= now

\* sweep_expired_messages: the message, then the rows it left on each subscription.
\* No lock is taken and the lease table is left alone.
RetentionDelete(seq) ==
    /\ swept = 0 /\ seq \in log /\ expired(seq)
    /\ log' = log \ {seq}
    /\ swept' = seq
    /\ UNCHANGED <<now, tail, row, pub, engine, snap, adm, seeks, settled>>

RetentionDeleteRows ==
    /\ swept # 0
    /\ dlv' = dlv \ {swept}
    /\ swept' = 0
    /\ UNCHANGED <<now, topic, cursor, leases, lock, hs, snap, adm, seeks, settled>>

-----------------------------------------------------------------------------
(* Snapshots                                                               *)

\* cursor_snapshot: the copy the snapshot will hold.
CreateSnapshotCapture ==
    /\ adm.pc = "idle" /\ snap = None
    /\ adm' = [NoCall EXCEPT !.pc = "captured", !.cur = cursor]
    /\ UNCHANGED <<now, topic, engine, swept, snap, seeks, settled>>

\* oldest_unacked_publish_ts_ms reads the cursor once more; None if nothing is left.
oldest_unacked_publish_ts ==
    LET unacked == {seq \in log : ~is_done(cursor, seq)}
    IN IF unacked = {} THEN None
       ELSE row[CHOOSE seq \in unacked : \A q \in unacked : seq <= q].publish_ts

\* Mutant: the age of the oldest unacked message is ignored.
compute_expire_at_full(at, oldest) == at + MAX_SNAPSHOT_LIFETIME

compute_expire_at(at, oldest) ==
    at + MAX_SNAPSHOT_LIFETIME - (IF oldest = None THEN 0 ELSE at - oldest)

\* Too little lifetime left is FailedPrecondition.
CreateSnapshotStore ==
    LET expire_at == compute_expire_at(now, oldest_unacked_publish_ts)
    IN /\ adm.pc = "captured"
       /\ adm' = NoCall
       /\ snap' = IF expire_at - now < MIN_SNAPSHOT_REMAINING_LIFETIME THEN None
                  ELSE [cursor |-> adm.cur, expire_at |-> expire_at,
                        unacked |-> {seq \in log : ~is_done(adm.cur, seq)},
                        whole |-> cursor = adm.cur]
       /\ UNCHANGED <<now, topic, engine, swept, seeks, settled>>

DeleteSnapshot ==
    /\ adm.pc = "idle" /\ snap # None
    /\ snap' = None
    /\ UNCHANGED <<now, topic, engine, swept, adm, seeks, settled>>

-----------------------------------------------------------------------------
(* Seek                                                                    *)

\* The binary search of seq_boundary_for_time.  A missing row counts as "before".
seq_boundary_for_time(time) == boundary(tail, log, [seq \in log |-> row[seq].publish_ts], time)

\* Mutant: the boundary itself counts as done.
floor_for_time_late(attach_seq, time) ==
    IF seq_boundary_for_time(time) > attach_seq THEN seq_boundary_for_time(time) ELSE attach_seq

\* boundary_seq.saturating_sub(1).max(attach_seq)
floor_for_time(attach_seq, time) ==
    IF seq_boundary_for_time(time) - 1 > attach_seq
    THEN seq_boundary_for_time(time) - 1 ELSE attach_seq

\* The log is complete from its first message to its tail.
gapless == \A seq \in log : seq .. tail \subseteq log

BeginSeek(cur, time) ==
    /\ adm.pc = "idle" /\ seeks < MaxSeeks
    /\ seeks' = seeks + 1
    /\ adm' = [NoCall EXCEPT !.pc = "restore", !.cur = cur, !.time = time,
                             !.sound = gapless /\ pub = None, !.to = tail]
    /\ UNCHANGED <<now, topic, engine, swept, snap, settled>>

SeekToTime(time) ==
    BeginSeek([attach_seq |-> cursor.attach_seq, acked_above_floor |-> {},
                  acked_floor |-> floor_for_time(cursor.attach_seq, time)], time)

\* The snapshot's expire_at is not looked at.
SeekToSnapshot == snap # None /\ BeginSeek(snap.cursor, None)

\* restore_cursor: empty the lease table of this subscription, under the lock ...
RestoreLeases ==
    /\ adm.pc = "restore"
    /\ lock = None
    /\ leases' = {}
    /\ adm' = [adm EXCEPT !.pc = "delete", !.seqs = leases]
    /\ UNCHANGED <<now, topic, cursor, dlv, lock, hs, swept, snap, seeks, settled>>

\* ... delete the rows of the leases it held, one by one ...
RestoreRow(seq) ==
    /\ adm.pc \in {"delete", "purge"}
    /\ seq \in adm.seqs /\ \A q \in adm.seqs : seq <= q
    /\ dlv' = dlv \ {seq}
    /\ adm' = [adm EXCEPT !.seqs = @ \ {seq}]
    /\ UNCHANGED <<now, topic, cursor, leases, lock, hs, swept, snap, seeks, settled>>

\* Mutant: only the rows of leases still in memory are deleted.
RestoreNoScan ==
    /\ adm.pc = "delete" /\ adm.seqs = {}
    /\ adm' = [adm EXCEPT !.pc = "purge"]
    /\ UNCHANGED <<now, topic, engine, swept, snap, seeks, settled>>

\* ... look for rows whose lease was garbage-collected, to delete those as well ...
RestoreScan ==
    /\ adm.pc = "delete" /\ adm.seqs = {}
    /\ adm' = [adm EXCEPT !.pc = "purge", !.seqs = dlv]
    /\ UNCHANGED <<now, topic, engine, swept, snap, seeks, settled>>

\* ... and write the cursor.
RestoreSave ==
    /\ adm.pc = "purge" /\ adm.seqs = {}
    /\ cursor' = adm.cur
    /\ adm' = NoCall
    /\ settled' = settled \cup {seq \in Seqs : is_done(adm.cur, seq)}
    /\ UNCHANGED <<now, topic, dlv, leases, lock, hs, swept, snap, seeks>>

-----------------------------------------------------------------------------
\* The process dies and restarts: the publish, the sweep, the calls in progress are gone,
\* and there is a lease for every row (recover).
Crash ==
    /\ leases' = dlv /\ lock' = None /\ hs' = [h \in Handlers |-> Idle]
    /\ pub' = None /\ swept' = 0 /\ adm' = NoCall
    /\ UNCHANGED <<now, tail, log, row, cursor, dlv, snap, seeks, settled>>

SeekNext ==
    \/ Tick \/ AppendSeq \/ AppendRow \/ RetentionDeleteRows
    \/ \E seq \in Seqs : RetentionDelete(seq) \/ SweepExpired(seq) \/ RestoreRow(seq)
    \/ \E h \in Handlers :
          Load(h) \/ LeaseNext(h) \/ AcknowledgeApply(h) \/ AcknowledgeSave(h)
    \/ CreateSnapshotCapture \/ CreateSnapshotStore \/ DeleteSnapshot
    \/ SeekToSnapshot \/ \E time \in SeekTimes : SeekToTime(time)
    \/ RestoreLeases \/ RestoreScan \/ RestoreSave
    \/ Crash

SeekSpec == SeekInit /\ [][SeekNext]_vars

-----------------------------------------------------------------------------
(* Correctness                                                             *)

\* No request is in progress, now or at any time since the seek began.
Undisturbed == adm.alone /\ \A h \in Handlers : hs[h] = Idle

\* Seek to a time divides the log at that time: when the call returns, the messages
\* published at or after it are deliverable again and those before it are done,
\* whatever was published or swept meanwhile (seek_to_time, seq_boundary_for_time).
\* Only what the subscription was created after stays done.  (A gap inside the log
\* breaks this; see `sound`.)
SeekToTimeDivides ==
    [][RestoreSave /\ adm.time # None /\ adm.sound =>
          \A seq \in log : seq > cursor.attach_seq =>
              /\ row[seq].publish_ts >= adm.time => ~is_done(cursor', seq)
              /\ row[seq].publish_ts < adm.time /\ seq <= adm.to =>
                    is_done(cursor', seq)]_vars

\* Seek starts afresh: when the call returns and no pull or ack overlapped it, the
\* subscription has no lease and no row, hence every delivery counts from one again
\* (restore_cursor; "there is no leftover attempts record for lease_next to find").
SeekStartsAfresh ==
    [][RestoreSave /\ Undisturbed => leases' = {} /\ dlv' = {}]_vars

\* A snapshot that has not expired can still be replayed: retention has deleted none
\* of the messages it left unacked, where the topic keeps messages as long as a
\* snapshot can live (compute_expire_at_ms against append's expire_at_ms).  (An ack
\* between the two reads of the cursor by create_snapshot breaks this; see `whole`.)
SnapshotReplayable ==
    snap # None /\ snap.whole /\ now < snap.expire_at =>
        \A seq \in snap.unacked :
            row[seq].expire_at >= row[seq].publish_ts + MAX_SNAPSHOT_LIFETIME => seq \in log

\* Nothing is lost but by a seek: the cursor passes over a message only if it was
\* settled or some seek put it behind the cursor, wherever the process died in the
\* middle of a seek and whatever old cursor a pull wrote back after one.
NothingLostButBySeek == \A seq \in Seqs : is_done(cursor, seq) => seq \in settled

=============================================================================
