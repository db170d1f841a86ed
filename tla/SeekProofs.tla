----------------------------- MODULE SeekProofs -----------------------------
(***************************************************************************)
(* Snapshots, Seek and retention for any number of messages, handlers,     *)
(* retention times and seeks: a live snapshot still has its messages, Seek *)
(* leaves no lease and no row behind, and only a Seek takes a message away.*)
(***************************************************************************)
EXTENDS Seek, CursorTheorems

\* The log: messages are ordered by publish time as they are by seq, and a publish
\* under way has the last seq and a time no earlier than any row's.
LogOK ==
    /\ now \in Nat /\ tail \in 0 .. MaxSeq
    /\ log \subseteq 1 .. tail
    /\ row \in [Seqs -> [publish_ts: Nat, expire_at: Nat]]
    /\ \A q \in log : row[q].publish_ts <= now
    /\ \A p, q \in log : p <= q => row[p].publish_ts <= row[q].publish_ts
    /\ pub # None => /\ pub \in [seq: Seqs, at: Nat]
                     /\ pub.seq = tail /\ tail \notin log /\ pub.at <= now
                     /\ \A q \in log : row[q].publish_ts <= pub.at

\* The snapshot: it lives no longer than the longest retention of each message it left
\* unacked, and those that are gone have outlived theirs.
SnapOK ==
    snap # None =>
        /\ snap.expire_at \in Int /\ snap.unacked \subseteq 1 .. tail
        /\ pub # None => tail \notin snap.unacked
        /\ \A seq \in snap.unacked : seq \in log \/ row[seq].expire_at <= now
        /\ snap.whole => \A seq \in snap.unacked :
              snap.expire_at <= row[seq].publish_ts + MAX_SNAPSHOT_LIFETIME

-----------------------------------------------------------------------------
\* A non-empty set of seqs has a smallest one.
LEMMA FirstExists ==
    ASSUME NEW S \in SUBSET Nat, S # {} PROVE \E x \in S : \A y \in S : x <= y
<1> DEFINE R == OpToRel(<, Nat)
<1>1. IsWellFoundedOn(R, Nat)
  BY NatLessThanWellFounded
<1>2. PICK x \in S : \A y \in S : <<y, x>> \notin R
  <2> HIDE DEF R
  <2> QED
    BY <1>1, WFMin
<1>3. \A y \in S : ~(y < x)
  BY <1>2 DEF OpToRel
<1> QED
  BY <1>3

\* The first unacked message is the oldest, and the snapshot lives from its publish
\* time on (oldest_unacked_publish_ts_ms, compute_expire_at_ms).
LEMMA ExpireAt ==
    ASSUME LogOK, NEW e, e = compute_expire_at(now, oldest_unacked_publish_ts)
    PROVE  /\ e \in Int
           /\ \A seq \in log : ~is_done(cursor, seq) =>
                 e <= row[seq].publish_ts + MAX_SNAPSHOT_LIFETIME
<1> DEFINE unacked == {seq \in log : ~is_done(cursor, seq)}
           first == CHOOSE seq \in unacked : \A q \in unacked : seq <= q
<1>0. log \subseteq Seqs /\ Seqs \subseteq Nat
  BY SeekAssumption DEF LogOK, Seqs
<1>1. CASE unacked = {}
  <2>1. oldest_unacked_publish_ts = None
    BY <1>1 DEF oldest_unacked_publish_ts
  <2>2. e = now + MAX_SNAPSHOT_LIFETIME - 0
    BY <2>1 DEF compute_expire_at
  <2> QED
    BY <1>1, <2>2, SeekAssumption DEF LogOK
<1>2. CASE unacked # {}
  <2>1. \E x \in unacked : \A y \in unacked : x <= y
    <3>1. unacked \in SUBSET Nat
      BY <1>0
    <3> HIDE DEF unacked
    <3> QED
      BY <1>2, <3>1, FirstExists
  <2>2. first \in unacked /\ \A q \in unacked : first <= q
    BY <2>1
  <2>3. oldest_unacked_publish_ts = row[first].publish_ts
    BY <1>2 DEF oldest_unacked_publish_ts
  <2> HIDE DEF first
  <2>4. row[first].publish_ts \in Nat
    BY <1>0, <2>2 DEF LogOK
  <2>5. e = now + MAX_SNAPSHOT_LIFETIME - (now - row[first].publish_ts)
    BY <2>3, <2>4, SeekAssumption DEF compute_expire_at
  <2>6. \A seq \in unacked : row[seq].publish_ts \in Nat /\ row[first].publish_ts <= row[seq].publish_ts
    BY <1>0, <2>2 DEF LogOK
  <2> QED
    BY <2>4, <2>5, <2>6, SeekAssumption DEF LogOK
<1> QED
  BY <1>1, <1>2

\* Steps that leave log, clock, publish and snapshot alone.
Other == UNCHANGED <<now, tail, log, row, pub, snap>>

\* Every step keeps the order of the log and the promise of the snapshot.
LEMMA LogAndSnapStep ==
    ASSUME LogOK, SnapOK, [SeekNext]_vars PROVE LogOK' /\ SnapOK'
<1> USE SeekAssumption DEF Seqs
<1>0. \A q \in 1 .. tail : q \in Seqs /\ row[q].publish_ts \in Nat /\ row[q].expire_at \in Nat
  BY DEF LogOK
<1>1. CASE Other
  BY <1>1 DEF Other, LogOK, SnapOK
<1>2. CASE Tick
  <2>1. UNCHANGED <<tail, log, row, pub, snap>> /\ now' \in Nat /\ now <= now' /\ now \in Nat
    BY <1>2 DEF Tick, topic, LogOK
  <2>2. \A n \in Nat : n <= now => n <= now'
    BY <2>1
  <2>3. LogOK'
    BY <1>0, <2>1, <2>2 DEF LogOK
  <2>4. SnapOK'
    BY <1>0, <2>1, <2>2 DEF LogOK, SnapOK
  <2> QED
    BY <2>3, <2>4
<1>3. CASE AppendSeq
  <2>1. UNCHANGED <<now, log, row, snap>> /\ tail' = tail + 1 /\ tail' \in 1 .. MaxSeq
        /\ pub' = [seq |-> tail', at |-> now]
    BY <1>3 DEF AppendSeq, LogOK
  <2>2. LogOK'
    BY <2>1 DEF LogOK
  <2>3. SnapOK'
    BY <2>1 DEF LogOK, SnapOK
  <2> QED
    BY <2>2, <2>3
<1>4. CASE AppendRow
  <2>1. PICK retention \in Retentions :
          row' = [row EXCEPT ![pub.seq] = [publish_ts |-> pub.at, expire_at |-> pub.at + retention]]
    BY <1>4 DEF AppendRow
  <2>2. /\ UNCHANGED <<now, tail, snap>> /\ log' = log \cup {tail} /\ pub' = None
        /\ pub.seq = tail /\ tail \in Seqs /\ tail \notin log /\ pub.at \in Nat /\ pub.at <= now
        /\ \A q \in log : row[q].publish_ts <= pub.at
    BY <1>4 DEF AppendRow, LogOK
  <2>3. /\ row' \in [Seqs -> [publish_ts: Nat, expire_at: Nat]]
        /\ row'[tail].publish_ts = pub.at
        /\ \A q \in Seqs : q # tail => row'[q] = row[q]
    BY <2>1, <2>2 DEF LogOK
  <2>4. \A q \in log : q \in Seqs /\ q < tail
    BY <2>2 DEF LogOK
  <2>5. \A q \in log' : row'[q].publish_ts <= now'
    BY <2>2, <2>3, <2>4 DEF LogOK
  <2>6. ASSUME NEW p \in log', NEW q \in log', p <= q
        PROVE  row'[p].publish_ts <= row'[q].publish_ts
    <3>1. CASE q = tail
      <4>1. CASE p = tail
        BY <2>2, <2>3, <3>1, <4>1
      <4>2. CASE p \in log
        BY <2>2, <2>3, <2>4, <3>1, <4>2
      <4> QED
        BY <2>2, <4>1, <4>2
    <3>2. CASE q \in log
      <4>1. p \in log /\ p # tail /\ q # tail /\ p \in Seqs /\ q \in Seqs
        BY <2>2, <2>4, <2>6, <3>2
      <4>2. row[p].publish_ts <= row[q].publish_ts
        BY <2>6, <3>2, <4>1 DEF LogOK
      <4> QED
        BY <2>3, <4>1, <4>2
    <3> QED
      BY <2>2, <3>1, <3>2
  <2>7. log' \subseteq 1 .. tail'
    BY <2>2 DEF LogOK
  <2>8. LogOK'
    BY <2>2, <2>3, <2>5, <2>6, <2>7 DEF LogOK
  <2>9. ASSUME snap # None
        PROVE  /\ \A seq \in snap.unacked : row'[seq] = row[seq]
               /\ snap.unacked \subseteq 1 .. tail
    BY <1>0, <1>4, <2>3, <2>9 DEF AppendRow, SnapOK
  <2>10. SnapOK'
    BY <2>2, <2>9 DEF SnapOK
  <2> QED
    BY <2>8, <2>10
<1>5. ASSUME NEW seq \in Seqs, RetentionDelete(seq) PROVE LogOK' /\ SnapOK'
  BY <1>5 DEF RetentionDelete, expired, LogOK, SnapOK
<1>6. CASE CreateSnapshotStore
  <2> DEFINE e == compute_expire_at(now, oldest_unacked_publish_ts)
  <2>1. UNCHANGED <<now, tail, log, row, pub>>
    BY <1>6 DEF CreateSnapshotStore, topic
  <2>2. snap' = None \/ snap' = [cursor |-> adm.cur, expire_at |-> e,
                                 unacked |-> {seq \in log : ~is_done(adm.cur, seq)},
                                 whole |-> cursor = adm.cur]
    BY <1>6 DEF CreateSnapshotStore
  <2>3. e \in Int /\ \A seq \in log : ~is_done(cursor, seq) =>
                        e <= row[seq].publish_ts + MAX_SNAPSHOT_LIFETIME
    BY ExpireAt
  <2> HIDE DEF e
  <2>4. LogOK'
    BY <2>1 DEF LogOK
  <2>5. CASE snap' = None
    BY <2>4, <2>5 DEF SnapOK
  <2>6. CASE snap' = [cursor |-> adm.cur, expire_at |-> e,
                      unacked |-> {seq \in log : ~is_done(adm.cur, seq)},
                      whole |-> cursor = adm.cur]
    <3>1. /\ snap'.expire_at = e /\ snap'.unacked = {seq \in log : ~is_done(adm.cur, seq)}
          /\ snap'.whole => cursor = adm.cur
      BY <2>6
    <3>2. snap'.whole => \A seq \in snap'.unacked : ~is_done(cursor, seq)
      BY <3>1
    <3> QED
      BY <2>1, <2>3, <2>4, <3>1, <3>2 DEF LogOK, SnapOK
  <2> QED
    BY <2>2, <2>5, <2>6
<1>7. CASE DeleteSnapshot
  BY <1>7 DEF DeleteSnapshot, topic, LogOK, SnapOK
<1>8. CASE Crash
  BY <1>8 DEF Crash, LogOK, SnapOK
<1> QED
  BY <1>1, <1>2, <1>3, <1>4, <1>5, <1>6, <1>7, <1>8
     DEF Other, SeekNext, vars, topic, RetentionDeleteRows, SweepExpired, RestoreRow, Load, LeaseNext,
         AcknowledgeApply, AcknowledgeSave, CreateSnapshotCapture, SeekToSnapshot, SeekToTime,
         BeginSeek, RestoreLeases, RestoreScan, RestoreSave

\* A snapshot that has not expired can still be replayed, however publishes, retention,
\* seeks and crashes interleave with its creation and its life.
THEOREM SnapshotReplayableHolds == SeekSpec => []SnapshotReplayable
<1>1. SeekInit => LogOK /\ SnapOK
  BY SeekAssumption DEF SeekInit, LogOK, SnapOK, Seqs
<1>2. LogOK /\ SnapOK => SnapshotReplayable
  <2> SUFFICES ASSUME LogOK, SnapOK, snap # None, snap.whole, now < snap.expire_at,
                      NEW seq \in snap.unacked,
                      row[seq].expire_at >= row[seq].publish_ts + MAX_SNAPSHOT_LIFETIME
               PROVE  seq \in log
    BY DEF SnapshotReplayable
  <2>1. seq \in Seqs
    BY SeekAssumption DEF SnapOK, LogOK, Seqs
  <2>2. row[seq].expire_at \in Nat /\ row[seq].publish_ts \in Nat
    BY <2>1 DEF LogOK
  <2> QED
    BY <2>2, SeekAssumption DEF SnapOK, LogOK
<1> QED
  BY <1>1, <1>2, LogAndSnapStep, PTL DEF SeekSpec

-----------------------------------------------------------------------------
\* A seek no request overlaps: the table stays empty once it was emptied, and once
\* the rows were listed no row appears that is not on the list.
FreshOK ==
    /\ adm \in [pc: {"idle", "captured", "restore", "delete", "purge"}, cur: {adm.cur},
                seqs: {adm.seqs}, time: {adm.time}, sound: {adm.sound}, to: {adm.to},
                alone: {adm.alone}]
    /\ Undisturbed /\ adm.pc \in {"delete", "purge"} => leases = {}
    /\ Undisturbed /\ adm.pc = "purge" => dlv \subseteq adm.seqs

\* A request's step beside a seek shows in `alone`.
LEMMA BesideFresh ==
    ASSUME FreshOK, Beside PROVE FreshOK'
<1>1. CASE adm.pc = "idle"
  BY <1>1 DEF FreshOK, Beside
<1>2. CASE adm.pc # "idle"
  <2>1. adm' = [adm EXCEPT !.alone = FALSE]
    BY <1>2 DEF Beside
  <2>2. ~Undisturbed'
    BY <2>1 DEF FreshOK, Undisturbed
  <2> QED
    BY <2>1, <2>2 DEF FreshOK
<1> QED
  BY <1>1, <1>2

\* A step that leaves the call alone and adds no lease and no row.
LEMMA ShrinkFresh ==
    ASSUME FreshOK, UNCHANGED <<adm, hs>>, leases' \subseteq leases, dlv' \subseteq dlv
    PROVE  FreshOK'
BY DEF FreshOK, Undisturbed

\* Every step keeps it.
LEMMA FreshStep == ASSUME FreshOK, [SeekNext]_vars PROVE FreshOK'
<1>1. ASSUME NEW seq \in Seqs, RetentionDelete(seq) \/ SweepExpired(seq) PROVE FreshOK'
  BY <1>1, ShrinkFresh DEF RetentionDelete, SweepExpired, engine
<1>2. CASE Tick \/ AppendSeq \/ AppendRow \/ RetentionDeleteRows \/ DeleteSnapshot \/ UNCHANGED vars
  BY <1>2, ShrinkFresh
     DEF Tick, AppendSeq, AppendRow, RetentionDeleteRows, DeleteSnapshot, vars, engine
<1>3. ASSUME NEW h \in Handlers,
             Load(h) \/ LeaseNext(h) \/ AcknowledgeApply(h) \/ AcknowledgeSave(h)
      PROVE  FreshOK'
  BY <1>3, BesideFresh DEF Load, LeaseNext, AcknowledgeApply, AcknowledgeSave
<1>4. CASE CreateSnapshotStore \/ RestoreSave \/ Crash
  BY <1>4 DEF CreateSnapshotStore, RestoreSave, Crash, FreshOK, NoCall
<1>5. CASE CreateSnapshotCapture
  BY <1>5 DEF CreateSnapshotCapture, FreshOK, NoCall
<1>6. ASSUME NEW cur, NEW time, BeginSeek(cur, time) PROVE FreshOK'
  BY <1>6 DEF BeginSeek, FreshOK, NoCall
<1>7. CASE RestoreLeases
  BY <1>7 DEF RestoreLeases, FreshOK
<1>8. ASSUME NEW seq \in Seqs, RestoreRow(seq) PROVE FreshOK'
  BY <1>8 DEF RestoreRow, FreshOK, Undisturbed
<1>9. CASE RestoreScan
  BY <1>9 DEF RestoreScan, FreshOK, Undisturbed, engine
<1> QED
  BY <1>1, <1>2, <1>3, <1>4, <1>5, <1>6, <1>7, <1>8, <1>9
     DEF SeekNext, SeekToTime, SeekToSnapshot

\* A Seek no request overlapped leaves no lease and no row, whatever retention, the
\* sweeper and publishes did meanwhile and however often it was begun before.
THEOREM SeekStartsAfreshHolds == SeekSpec => SeekStartsAfresh
<1>1. SeekInit => FreshOK
  BY DEF SeekInit, FreshOK, NoCall
<1>2. FreshOK => (RestoreSave /\ Undisturbed => leases' = {} /\ dlv' = {})
  BY DEF FreshOK, RestoreSave
<1> QED
  BY <1>1, <1>2, FreshStep, PTL DEF SeekSpec, SeekStartsAfresh

-----------------------------------------------------------------------------
\* The binary search of seq_boundary_for_time returns a seq.
BoundaryIsSeq == \A time \in SeekTimes : seq_boundary_for_time(time) \in Nat

\* What a cursor has put behind it is settled.
Settles(c) == c \in CursorRecord(Seqs) /\ \A seq \in Seqs : is_done(c, seq) => seq \in settled

\* The cursor on disk and the one every request loaded have only settled seqs behind
\* them; the one a seek will write need not.
CursorOK ==
    /\ Settles(cursor)
    /\ hs \in [Handlers -> Handler] /\ \A h \in Handlers : Settles(hs[h].cur)
    /\ adm.cur \in CursorRecord(Seqs)
    /\ snap # None => snap.cursor \in CursorRecord(Seqs)
    /\ dlv \subseteq Seqs /\ leases \subseteq Seqs

\* A fresh cursor at 0 has nothing behind it.
LEMMA IdleSettles == Settles(new_cursor(0)) /\ Settles(new_cursor(0))' /\ Idle \in Handler
BY SeekAssumption DEF Settles, new_cursor, CursorRecord, is_done, Seqs, Idle, Handler

\* The steps of requests.
LEMMA RequestsKeepCursor ==
    ASSUME LogOK, FreshOK, CursorOK, NEW h \in Handlers,
           Load(h) \/ LeaseNext(h) \/ AcknowledgeApply(h) \/ AcknowledgeSave(h)
    PROVE  CursorOK'
<1>0. adm'.cur = adm.cur /\ snap' = snap /\ log \subseteq Seqs /\ settled \subseteq settled'
  <2>1. Beside /\ snap' = snap /\ settled \subseteq settled'
    BY DEF Load, LeaseNext, AcknowledgeApply, AcknowledgeSave
  <2>2. adm'.cur = adm.cur
    BY <2>1 DEF Beside, FreshOK
  <2>3. log \subseteq Seqs
    BY SeekAssumption DEF LogOK, Seqs
  <2> QED
    BY <2>1, <2>2, <2>3
<1>1. CASE Load(h)
  <2>1. PICK pc \in {"pull", "ack"}, seq \in Seqs \cup {0} :
          hs' = [hs EXCEPT ![h] = [pc |-> pc, cur |-> cursor, seq |-> seq]]
    BY <1>1 DEF Load, CursorOK
  <2>2. UNCHANGED <<cursor, dlv, leases, settled>>
    BY <1>1 DEF Load
  <2>3. hs' \in [Handlers -> Handler]
    BY <2>1 DEF CursorOK, Settles, Handler
  <2>4. \A g \in Handlers : hs'[g].cur = hs[g].cur \/ hs'[g].cur = cursor
    BY <2>1 DEF CursorOK
  <2> QED
    BY <1>0, <2>2, <2>3, <2>4 DEF CursorOK, Settles
<1>2. CASE LeaseNext(h)
  <2>1. hs' \in [Handlers -> Handler]
        /\ \A g \in Handlers : hs'[g].cur = hs[g].cur \/ hs'[g].cur = new_cursor(0)
    BY <1>2, IdleSettles DEF LeaseNext, CursorOK, Idle
  <2>2. UNCHANGED <<cursor, settled>> /\ dlv' \subseteq Seqs /\ leases' \subseteq Seqs
    BY <1>0, <1>2 DEF LeaseNext, CursorOK
  <2> QED
    BY <1>0, <2>1, <2>2, IdleSettles DEF CursorOK, Settles
<1>3. CASE AcknowledgeApply(h)
  <2> DEFINE seq == hs[h].seq
             c == hs[h].cur
  <2>0. UNCHANGED cursor /\ dlv' \subseteq Seqs /\ leases' \subseteq Seqs
    BY <1>3 DEF AcknowledgeApply, CursorOK
  <2>1. CASE seq \notin leases
    <3>1. hs' = [hs EXCEPT ![h] = Idle] /\ settled' = settled
      BY <1>3, <2>1 DEF AcknowledgeApply
    <3>2. hs' \in [Handlers -> Handler]
          /\ \A g \in Handlers : hs'[g].cur = hs[g].cur \/ hs'[g].cur = new_cursor(0)
      BY <3>1, IdleSettles DEF CursorOK, Idle
    <3> QED
      BY <1>0, <2>0, <3>1, <3>2, IdleSettles DEF CursorOK, Settles
  <2>2. CASE seq \in leases
    <3>1. /\ settled' = settled \cup {seq} /\ seq \in Seqs
          /\ hs' = [hs EXCEPT ![h].pc = "save", ![h].cur = mark_done(@, seq)]
      BY <1>3, <2>2 DEF AcknowledgeApply, CursorOK
    <3>2. /\ mark_done(c, seq) \in CursorRecord(Seqs)
          /\ \A x \in Seqs : is_done(mark_done(c, seq), x) <=> is_done(c, x) \/ x = seq
      BY <3>1, MarkDoneExact, SeekAssumption DEF CursorOK, Settles, Seqs
    <3>3. \A x \in Seqs : is_done(mark_done(c, seq), x) => x \in settled'
      BY <3>1, <3>2 DEF CursorOK, Settles
    <3>4. /\ hs' \in [Handlers -> Handler]
          /\ \A g \in Handlers : hs'[g].cur = hs[g].cur \/ hs'[g].cur = mark_done(c, seq)
      BY <3>1, <3>2 DEF CursorOK, Handler
    <3> QED
      BY <1>0, <2>0, <3>2, <3>3, <3>4 DEF CursorOK, Settles
  <2> QED
    BY <2>1, <2>2
<1>4. CASE AcknowledgeSave(h)
  <2>1. hs' \in [Handlers -> Handler]
        /\ \A g \in Handlers : hs'[g].cur = hs[g].cur \/ hs'[g].cur = new_cursor(0)
    BY <1>4, IdleSettles DEF AcknowledgeSave, CursorOK, Idle
  <2>2. UNCHANGED <<settled, dlv, leases>> /\ cursor' = hs[h].cur
    BY <1>4 DEF AcknowledgeSave
  <2> QED
    BY <1>0, <2>1, <2>2, IdleSettles DEF CursorOK, Settles
<1> QED
  BY <1>1, <1>2, <1>3, <1>4

\* Every other step, as long as the boundary of a seek is a seq.
LEMMA CursorStep ==
    ASSUME LogOK, FreshOK, CursorOK, BoundaryIsSeq, [SeekNext]_vars PROVE CursorOK'
<1> DEFINE Same == UNCHANGED <<cursor, hs, settled>>
                   /\ dlv' \in SUBSET dlv /\ leases' \in SUBSET leases
<1>1. ASSUME Same, UNCHANGED snap, adm'.cur \in CursorRecord(Seqs) PROVE CursorOK'
  BY <1>1 DEF CursorOK, Settles
<1>2. ASSUME NEW h \in Handlers,
             Load(h) \/ LeaseNext(h) \/ AcknowledgeApply(h) \/ AcknowledgeSave(h)
      PROVE  CursorOK'
  BY <1>2, RequestsKeepCursor
<1>3. CASE Tick \/ AppendSeq \/ AppendRow \/ RetentionDeleteRows \/ UNCHANGED vars
  BY <1>1, <1>3 DEF Tick, AppendSeq, AppendRow, RetentionDeleteRows, vars, engine, CursorOK
<1>4. ASSUME NEW seq \in Seqs, RetentionDelete(seq) \/ SweepExpired(seq) PROVE CursorOK'
  BY <1>1, <1>4 DEF RetentionDelete, SweepExpired, engine, CursorOK
<1>5. ASSUME NEW seq \in Seqs, RestoreRow(seq) PROVE CursorOK'
  BY <1>1, <1>5 DEF RestoreRow, FreshOK, CursorOK
<1>6. CASE CreateSnapshotCapture
  BY <1>1, <1>6 DEF CreateSnapshotCapture, NoCall, engine, CursorOK, Settles
<1>7. CASE CreateSnapshotStore \/ DeleteSnapshot
  BY <1>7, IdleSettles
     DEF CreateSnapshotStore, DeleteSnapshot, NoCall, engine, CursorOK, Settles
<1>8. ASSUME NEW time \in SeekTimes, SeekToTime(time) PROVE CursorOK'
  <2>1. floor_for_time(cursor.attach_seq, time) \in Nat
    BY DEF floor_for_time, BoundaryIsSeq, CursorOK, Settles, CursorRecord
  <2> QED
    BY <1>1, <1>8, <2>1
       DEF SeekToTime, BeginSeek, NoCall, engine, CursorOK, Settles, CursorRecord
<1>9. CASE SeekToSnapshot
  BY <1>1, <1>9 DEF SeekToSnapshot, BeginSeek, NoCall, engine, CursorOK
<1>10. CASE RestoreLeases \/ RestoreScan
  BY <1>1, <1>10 DEF RestoreLeases, RestoreScan, FreshOK, engine, CursorOK
<1>11. CASE RestoreSave
  <2>1. /\ cursor' = adm.cur /\ UNCHANGED <<hs, snap, dlv, leases>> /\ adm'.cur = new_cursor(0)
        /\ settled' = settled \cup {seq \in Seqs : is_done(adm.cur, seq)}
    BY <1>11 DEF RestoreSave, NoCall
  <2> QED
    BY <2>1, IdleSettles DEF CursorOK, Settles
<1>12. CASE Crash
  <2>1. /\ UNCHANGED <<cursor, dlv, snap, settled>> /\ leases' = dlv /\ adm'.cur = new_cursor(0)
        /\ hs' = [h \in Handlers |-> Idle] /\ Idle.cur = new_cursor(0)
    BY <1>12 DEF Crash, NoCall, Idle
  <2> QED
    BY <2>1, IdleSettles DEF CursorOK, Settles
<1> QED
  BY <1>2, <1>3, <1>4, <1>5, <1>6, <1>7, <1>8, <1>9, <1>10, <1>11, <1>12 DEF SeekNext

\* Only an ack or a seek takes a message away, wherever a seek was cut short by a crash
\* and whatever old cursor an ack wrote back after one, provided that the binary search
\* of seq_boundary_for_time returns a seq.
THEOREM NothingLostHolds == SeekSpec /\ []BoundaryIsSeq => []NothingLostButBySeek
<1>1. SeekInit => LogOK /\ SnapOK /\ FreshOK /\ CursorOK
  <2> SUFFICES ASSUME SeekInit PROVE LogOK /\ SnapOK /\ FreshOK /\ CursorOK
    OBVIOUS
  <2>1. LogOK /\ SnapOK
    BY SeekAssumption DEF SeekInit, LogOK, SnapOK, Seqs
  <2>2. FreshOK
    BY DEF SeekInit, FreshOK, NoCall
  <2>3. Settles(cursor)
    BY SeekAssumption DEF SeekInit, Settles, new_cursor, CursorRecord, is_done, Seqs
  <2>4. CursorOK
    BY <2>3, IdleSettles DEF SeekInit, CursorOK, NoCall, Idle, Settles
  <2> QED
    BY <2>1, <2>2, <2>4
<1>2. CursorOK => NothingLostButBySeek
  BY DEF CursorOK, Settles, NothingLostButBySeek
<1> QED
  BY <1>1, <1>2, LogAndSnapStep, FreshStep, CursorStep, PTL DEF SeekSpec

=============================================================================
