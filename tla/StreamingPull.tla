---------------------------- MODULE StreamingPull ----------------------------
(***************************************************************************)
(* StreamingPull sessions (delivery/stream.rs, the stream half of          *)
(* delivery/engine.rs, and the two tasks per stream of grpc/streaming.rs)  *)
(* on top of the delivery engine.                                          *)
(*                                                                         *)
(* A stream is a send task, which leases and finally closes the session,   *)
(* and a recv task, which applies the client's acks and nacks.  Both are   *)
(* handlers of the engine; the session registry has a lock of its own, so  *)
(* its bookkeeping (record_leased, record_resolved, close) happens in      *)
(* steps separate from the engine's.                                       *)
(***************************************************************************)
EXTENDS DeliveryEngine

CONSTANTS
    Streams,                    \* sessions that may be open at once
    max_outstanding_messages,   \* flow control; 0: unlimited
    max_outstanding_bytes       \* of payload bytes, one per message; 0: unlimited

send(st) == <<st, "send">>
recv(st) == <<st, "recv">>

ASSUME StreamAssumption ==
    /\ Handlers = Streams \X {"send", "recv"}
    /\ max_outstanding_messages \in Nat /\ max_outstanding_bytes \in Nat
    /\ None \notin Streams

VARIABLES
    sessions,   \* stream -> SessionState or None
    leased,     \* stream -> ack_ids lease_next returned, not yet record_leased
    resolving,  \* stream -> seqs the recv task acked or nacked, not yet record_resolved
    releasing,  \* stream -> <<sub, seq>> of its closed session, not yet released
    holder      \* history: <<sub, seq>> -> stream that received the last delivery and
                \* sent neither an ack nor a nack since, or None

streamVars == <<sessions, leased, resolving, releasing, holder>>
allVars == <<vars, streamVars>>

SessionState == [sub: Subs, outstanding: SUBSET Seqs, outstanding_bytes: Nat]

\* Every stream variable stays within its domain; the byte count never goes negative,
\* however often a client acks, nacks or re-acks.
StreamTypeOK ==
    /\ sessions \in [Streams -> SessionState \cup {None}]
    /\ leased \in [Streams -> SUBSET AckId]
    /\ resolving \in [Streams -> SUBSET Seqs]
    /\ releasing \in [Streams -> SUBSET Keys]
    /\ holder \in [Keys -> Streams \cup {None}]

NoStreams ==
    /\ sessions = [st \in Streams |-> None]
    /\ leased = [st \in Streams |-> {}]
    /\ resolving = [st \in Streams |-> {}]
    /\ releasing = [st \in Streams |-> {}]
    /\ holder = [k \in Keys |-> None]

StreamInit == Init /\ NoStreams

seqs_of(ids) == {id.seq : id \in ids}
is_open(st) == sessions[st] # None

\* The sub a stream's tasks work for: captured when the session is opened.
sub_of(st) == sessions[st].sub

-----------------------------------------------------------------------------
(* The send task                                                           *)

\* A slot is reused once both tasks of its previous session have ended.
StreamOpen(st, s) ==
    /\ ~is_open(st) /\ releasing[st] = {} /\ resolving[st] = {}
    /\ hs[recv(st)].pc = "idle"
    /\ sessions' = [sessions EXCEPT ![st] = [sub |-> s, outstanding |-> {}, outstanding_bytes |-> 0]]
    /\ UNCHANGED <<vars, leased, resolving, releasing, holder>>

remaining_msgs(st) ==
    IF max_outstanding_messages = 0 THEN MaxPull
    ELSE Larger(max_outstanding_messages - Cardinality(sessions[st].outstanding), 0)

bytes_left(st) ==
    max_outstanding_bytes = 0 \/ max_outstanding_bytes - sessions[st].outstanding_bytes > 0

\* lease_for_stream: the budget bounds one lease_next call.
LeaseForStream(st) ==
    /\ is_open(st) /\ leased[st] = {}
    /\ hs[send(st)].pc = "idle"
    /\ remaining_msgs(st) > 0 /\ bytes_left(st)
    /\ hs' = [hs EXCEPT ![send(st)] =
                 [Idle EXCEPT !.pc = "lease_load", !.sub = sub_of(st), !.at = now,
                              !.cur = cursor[sub_of(st)], !.room = remaining_msgs(st)]]
    /\ UNCHANGED <<now, kv, leases, lock, history, streamVars>>

\* The engine's part of lease_for_stream.  A grant makes the stream the holder.
StreamScan(st) ==
    /\ LeaseNextScan(send(st))
    /\ holder' = [k \in Keys |-> IF \E id \in Deliveries : k = <<id.sub, id.seq>>
                                 THEN st ELSE holder[k]]
    /\ UNCHANGED <<sessions, leased, resolving, releasing>>

StreamLeaseReturn(st) ==
    /\ ScanDone(send(st))
    /\ SaveAndUnlock(send(st))
    /\ leased' = [leased EXCEPT ![st] = hs[send(st)].out]
    /\ UNCHANGED <<now, tail, log, dlq_topic, dlq, dlv, leases, history>>
    /\ UNCHANGED <<sessions, resolving, releasing, holder>>

\* record_leased of every message returned, then the response to the client.
RecordLeased(st) ==
    /\ leased[st] # {}
    /\ sessions' = [sessions EXCEPT
                       ![st].outstanding = @ \cup seqs_of(leased[st]),
                       ![st].outstanding_bytes = @ + Cardinality(leased[st])]
    /\ leased' = [leased EXCEPT ![st] = {}]
    /\ issued' = issued \cup leased[st]
    /\ UNCHANGED <<now, kv, leases, lock, hs, acked, confirmed, promised>>
    /\ UNCHANGED <<resolving, releasing, holder>>

\* Mutant: the session is dropped without reading what it still holds.
StreamForget(st) ==
    /\ is_open(st) /\ leased[st] = {} /\ hs[send(st)].pc = "idle"
    /\ sessions' = [sessions EXCEPT ![st] = None]
    /\ UNCHANGED <<vars, leased, resolving, releasing, holder>>

\* on_stream_closed, first half: the send task ends between two leases (client
\* gone, lifetime over, shutdown) and takes the session out of the registry.
StreamClose(st) ==
    /\ is_open(st) /\ leased[st] = {} /\ hs[send(st)].pc = "idle"
    /\ releasing' = [releasing EXCEPT ![st] = {sub_of(st)} \X sessions[st].outstanding]
    /\ sessions' = [sessions EXCEPT ![st] = None]
    /\ UNCHANGED <<vars, leased, resolving, holder>>

\* Mutant: the rows of the released leases stay.
StreamReleaseKeepRows(st) ==
    LET own(k) == k \in releasing[st] /\ holder[k] = st
    IN /\ releasing[st] # {}
       /\ lock = None
       /\ leases' = [k \in Keys |-> IF k \in releasing[st] THEN None ELSE leases[k]]
       /\ promised' = [k \in Keys |-> IF own(k) THEN 0 ELSE promised[k]]
       /\ holder' = [k \in Keys |-> IF own(k) THEN None ELSE holder[k]]
       /\ releasing' = [releasing EXCEPT ![st] = {}]
       /\ UNCHANGED <<now, kv, lock, hs, issued, acked, confirmed>>
       /\ UNCHANGED <<sessions, leased, resolving>>

\* on_stream_closed, second half: under the lease lock, drop the lease and the row
\* of every seq that was outstanding.
StreamRelease(st) ==
    LET own(k) == k \in releasing[st] /\ holder[k] = st
    IN /\ releasing[st] # {}
       /\ lock = None
       /\ leases' = [k \in Keys |-> IF k \in releasing[st] THEN None ELSE leases[k]]
       /\ dlv' = [k \in Keys |-> IF k \in releasing[st] THEN None ELSE dlv[k]]
       /\ promised' = [k \in Keys |-> IF own(k) THEN 0 ELSE promised[k]]
       /\ holder' = [k \in Keys |-> IF own(k) THEN None ELSE holder[k]]
       /\ releasing' = [releasing EXCEPT ![st] = {}]
       /\ UNCHANGED <<now, tail, log, dlq_topic, dlq, cursor, lock, hs, issued, acked, confirmed>>
       /\ UNCHANGED <<sessions, leased, resolving>>

-----------------------------------------------------------------------------
(* The recv task: one request at a time.  (A request that starts after the *)
(* session was closed is a plain Acknowledge or ModifyAckDeadline.)        *)

RecvIdle(st) == is_open(st) /\ hs[recv(st)].pc = "idle" /\ resolving[st] = {}

StreamAcknowledge(st) ==
    /\ RecvIdle(st)
    /\ AcknowledgeLoad(recv(st), sub_of(st))
    /\ resolving' = [resolving EXCEPT ![st] = seqs_of(hs'[recv(st)].ids)]
    /\ UNCHANGED <<sessions, leased, releasing, holder>>

StreamModifyAckDeadline(st) ==
    /\ RecvIdle(st)
    /\ ModifyAckDeadlineLoad(recv(st), sub_of(st))
    /\ resolving' = [resolving EXCEPT
                        ![st] = IF hs'[recv(st)].secs = 0 THEN seqs_of(hs'[recv(st)].ids) ELSE {}]
    /\ UNCHANGED <<sessions, leased, releasing, holder>>

\* The engine's part of the request.
StreamApply(st) ==
    /\ AcknowledgeRest(recv(st)) \/ ModifyAckDeadlineRest(recv(st))
    /\ UNCHANGED streamVars

\* Mutant: bytes are given back for seqs that were not outstanding.
RecordResolvedTwice(st) ==
    /\ hs[recv(st)].pc = "idle" /\ resolving[st] # {}
    /\ sessions' = IF ~is_open(st) THEN sessions
                   ELSE [sessions EXCEPT
                            ![st].outstanding = @ \ resolving[st],
                            ![st].outstanding_bytes = @ - Cardinality(resolving[st])]
    /\ holder' = [k \in Keys |-> IF holder[k] = st /\ k[2] \in resolving[st]
                                 THEN None ELSE holder[k]]
    /\ resolving' = [resolving EXCEPT ![st] = {}]
    /\ UNCHANGED <<vars, leased, releasing>>

\* record_resolved of every seq the request named, applied or stale; a no-op once
\* the session is closed.
RecordResolved(st) ==
    LET gone == resolving[st] \cap sessions[st].outstanding
    IN /\ hs[recv(st)].pc = "idle" /\ resolving[st] # {}
       /\ sessions' = IF ~is_open(st) THEN sessions
                      ELSE [sessions EXCEPT ![st].outstanding = @ \ gone,
                                            ![st].outstanding_bytes = @ - Cardinality(gone)]
       /\ holder' = [k \in Keys |-> IF holder[k] = st /\ k[2] \in resolving[st]
                                    THEN None ELSE holder[k]]
       /\ resolving' = [resolving EXCEPT ![st] = {}]
       /\ UNCHANGED <<vars, leased, releasing>>

-----------------------------------------------------------------------------
Background == Tick \/ Publish \/ \E s \in Subs : SweepExpired(s)

\* Every stream dies with the process.
StreamCrash ==
    /\ Crash
    /\ sessions' = [st \in Streams |-> None]
    /\ leased' = [st \in Streams |-> {}]
    /\ resolving' = [st \in Streams |-> {}]
    /\ releasing' = [st \in Streams |-> {}]
    /\ holder' = [k \in Keys |-> None]

SendTask(st) ==
    \/ \E s \in Subs : StreamOpen(st, s)
    \/ LeaseForStream(st) \/ StreamScan(st) \/ StreamLeaseReturn(st) \/ RecordLeased(st)
    \/ StreamClose(st) \/ StreamRelease(st)

RecvTask(st) ==
    StreamAcknowledge(st) \/ StreamModifyAckDeadline(st) \/ StreamApply(st) \/ RecordResolved(st)

StreamNext ==
    \/ Background /\ UNCHANGED streamVars
    \/ StreamCrash
    \/ \E st \in Streams : SendTask(st) \/ RecvTask(st)

StreamSpec == StreamInit /\ [][StreamNext]_allVars

-----------------------------------------------------------------------------
(* Correctness                                                             *)

\* What a stream counts, or is about to count, as outstanding.
Tracked(st) ==
    (IF is_open(st) THEN sessions[st].outstanding ELSE {})
        \cup seqs_of(leased[st]) \cup seqs_of(hs[send(st)].out)

\* A disconnect frees everything: as long as the stream that received a message has
\* sent neither ack nor nack for it, an unexpired lease on it is among those that
\* closing the stream releases.
HeldIsReleasable ==
    \A k \in Keys :
        LET st == holder[k]
        IN st # None /\ leases[k] # None /\ leases[k].deadline > now =>
              k[2] \in Tracked(st) \/ k \in releasing[st]

=============================================================================
