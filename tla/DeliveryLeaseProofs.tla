------------------------- MODULE DeliveryLeaseProofs -------------------------
(***************************************************************************)
(* Proofs about leases and redelivery in DeliveryEngine: crash safety of   *)
(* leases and what a delivery may never do.                                *)
(*                                                                         *)
(* The inductive invariant relates the lease table to the persisted rows   *)
(* (they differ only where both have expired), the rows to what was last   *)
(* promised to the holder, and the rows to the ack_ids handed out.         *)
(***************************************************************************)
EXTENDS DeliveryEngineProofs

\* The lease and the row of k: the same, or both expired, the row no later.
RowOK(k) ==
    \/ leases[k] = dlv[k]
    \/ /\ dlv[k] # None
       /\ dlv[k].deadline <= now
       /\ leases[k] # None =>
             /\ leases[k].attempts = dlv[k].attempts
             /\ dlv[k].deadline <= leases[k].deadline
             /\ leases[k].deadline <= now

\* The deadline promised to the holder of k is the persisted one.
PromiseOK(k) == promised[k] = 0 \/ (dlv[k] # None /\ dlv[k].deadline = promised[k])

\* The ack_ids clients have, or will have once a call in progress answers.
Known == issued \cup UNION {hs[h].out : h \in Handlers}

\* An ack_id of an unsettled message is not newer than the row.
NumberOK(id) ==
    LET k == <<id.sub, id.seq>>
    IN k \in Settled \/ (dlv[k] # None /\ id.generation <= dlv[k].attempts)

RowInv ==
    /\ \A k \in Keys : RowOK(k) /\ PromiseOK(k)
    /\ \A id \in Known : NumberOK(id)
    /\ \A h \in Handlers : hs[h].at <= now

Inv == Types /\ CursorInv /\ RowInv

\* ack_ids that clients have or will have are well typed.
LEMMA KnownType == Types => Known \subseteq AckId
  BY DEF Types, TypeOK, Known, Handler

\* No lease, row or ack_id exists at the start.
LEMMA RowInvInit == Init => RowInv
<1> SUFFICES ASSUME Init PROVE RowInv
  OBVIOUS
<1>1. \A h \in Handlers : hs[h].out = {} /\ hs[h].at = 0
  BY DEF Init, Idle
<1>2. Known = {}
  BY <1>1 DEF Init, Known
<1> QED BY <1>1, <1>2 DEF Init, RowInv, RowOK, PromiseOK

\* A step that leaves leases and rows alone and hands out no ack_id.
LEMMA QuietStep ==
    ASSUME RowInv, UNCHANGED <<leases, dlv, promised, now>>,
           acked \subseteq acked', dlq \subseteq dlq', Known' \subseteq Known,
           \A h \in Handlers : hs'[h].at <= now
    PROVE  RowInv'
<1>1. Settled \subseteq Settled'
  BY DEF Settled
<1>2. \A id \in Known' : NumberOK(id)'
  BY <1>1 DEF RowInv, NumberOK
<1> QED BY <1>2 DEF RowInv, RowOK, PromiseOK

\* One handler changes, and answers with nothing new.
LEMMA QuietHandler ==
    ASSUME Types, RowInv, NEW h \in Handlers, NEW r, hs' = [hs EXCEPT ![h] = r],
           r.out \subseteq Known, r.at <= now, issued' \subseteq Known
    PROVE  Known' \subseteq Known /\ \A i \in Handlers : hs'[i].at <= now
<1>1. \A i \in Handlers : hs'[i] = hs[i] \/ hs'[i] = r
  BY DEF Types, TypeOK
<1>2. \A i \in Handlers : hs[i].out \subseteq Known
  BY DEF Known
<1> QED BY <1>1, <1>2 DEF RowInv, Known

\* The lease and the row of one key become the same.
LEMMA RowStep ==
    ASSUME Types, RowInv, NEW k \in Keys, NEW x,
           leases' = [leases EXCEPT ![k] = x], dlv' = [dlv EXCEPT ![k] = x], now' = now
    PROVE  \A j \in Keys : RowOK(j)'
<1> TAKE j \in Keys
<1>1. CASE j = k
  BY <1>1 DEF Types, TypeOK, RowOK
<1>2. CASE j # k
  <2>1. leases'[j] = leases[j] /\ dlv'[j] = dlv[j]
    BY <1>2 DEF Types, TypeOK
  <2> QED BY <2>1 DEF RowInv, RowOK
<1> QED BY <1>1, <1>2

\* The steps of lease_next that grant and drop no lease preserve RowInv.
LEMMA RowInvQuietLeaseNext ==
    ASSUME Types, RowInv, NEW h \in Handlers,
           \/ \E s \in Subs : LeaseNextLoad(h, s)
           \/ LeaseNextLock(h)
           \/ \E seq \in Seqs :
                 LeaseNextSkip(h, seq) \/ LeaseNextFilter(h, seq) \/ LeaseNextForward(h, seq)
           \/ LeaseNextReturn(h)
    PROVE  RowInv'
<1> USE DEF kv, history
<1>1. /\ UNCHANGED <<leases, dlv, promised, now>>
      /\ acked \subseteq acked' /\ dlq \subseteq dlq' /\ issued' \subseteq Known
  BY DEF LeaseNextLoad, LeaseNextLock, LeaseNextSkip, LeaseNextFilter, LeaseNextForward,
         LeaseNextReturn, Known
<1>2. \E r : hs' = [hs EXCEPT ![h] = r] /\ r.out \subseteq hs[h].out /\ r.at <= now
  <2>1. hs[h] \in Handler /\ hs[h].at <= now /\ now \in Nat
    BY DEF Types, TypeOK, RowInv
  <2>2. Idle.out = {} /\ Idle.at <= now
    BY <2>1 DEF Idle
  <2>3. CASE \E s \in Subs : LeaseNextLoad(h, s)
    <3>1. PICK s \in Subs, m \in 1 .. MaxPull :
            hs' = [hs EXCEPT ![h] = [Idle EXCEPT !.pc = "lease_load", !.sub = s, !.at = now,
                                                 !.cur = cursor[s], !.room = m]]
      BY <2>3 DEF LeaseNextLoad
    <3> DEFINE r == [Idle EXCEPT !.pc = "lease_load", !.sub = s, !.at = now,
                                 !.cur = cursor[s], !.room = m]
    <3>2. hs' = [hs EXCEPT ![h] = r] /\ r.out = {} /\ r.at = now
      BY <3>1 DEF Idle
    <3>3. r.out \subseteq hs[h].out /\ r.at <= now
      BY <2>1, <3>2
    <3> HIDE DEF r
    <3> QED BY <3>2, <3>3
  <2>4. CASE LeaseNextLock(h)
    <3> DEFINE r == [hs[h] EXCEPT !.pc = "lease_scan",
                      !.todo = {seq \in log : prior_attempts(<<hs[h].sub, seq>>) < MaxAttempts}]
    <3>1. hs' = [hs EXCEPT ![h] = r]
      BY <2>4 DEF LeaseNextLock
    <3>2. r.out = hs[h].out /\ r.at = hs[h].at
      BY <2>1 DEF Handler
    <3> QED BY <2>1, <3>1, <3>2
  <2>5. ASSUME NEW seq \in Seqs, LeaseNextSkip(h, seq)
        PROVE  \E r : hs' = [hs EXCEPT ![h] = r] /\ r.out \subseteq hs[h].out /\ r.at <= now
    <3> DEFINE r == [hs[h] EXCEPT !.todo = @ \ {seq}]
    <3>1. hs' = [hs EXCEPT ![h] = r]
      BY <2>5 DEF LeaseNextSkip
    <3>2. r.out = hs[h].out /\ r.at = hs[h].at
      BY <2>1 DEF Handler
    <3> QED BY <2>1, <3>1, <3>2
  <2>6. ASSUME NEW seq \in Seqs, LeaseNextFilter(h, seq)
        PROVE  \E r : hs' = [hs EXCEPT ![h] = r] /\ r.out \subseteq hs[h].out /\ r.at <= now
    <3> DEFINE r == [hs[h] EXCEPT !.todo = @ \ {seq}, !.dirty = TRUE, !.cur = mark_done(@, seq)]
    <3>1. hs' = [hs EXCEPT ![h] = r]
      BY <2>6 DEF LeaseNextFilter
    <3>2. r.out = hs[h].out /\ r.at = hs[h].at
      BY <2>1 DEF Handler
    <3> QED BY <2>1, <3>1, <3>2
  <2>7. ASSUME NEW seq \in Seqs, LeaseNextForward(h, seq)
        PROVE  \E r : hs' = [hs EXCEPT ![h] = r] /\ r.out \subseteq hs[h].out /\ r.at <= now
    <3> DEFINE r == [hs[h] EXCEPT !.pc = "forwarded"]
    <3>1. hs' = [hs EXCEPT ![h] = r]
      BY <2>7 DEF LeaseNextForward
    <3>2. r.out = hs[h].out /\ r.at = hs[h].at
      BY <2>1 DEF Handler
    <3> QED BY <2>1, <3>1, <3>2
  <2>8. CASE LeaseNextReturn(h)
    BY <2>2, <2>8 DEF LeaseNextReturn, SaveAndUnlock
  <2> QED BY <2>3, <2>4, <2>5, <2>6, <2>7, <2>8
<1>3. Known' \subseteq Known /\ \A i \in Handlers : hs'[i].at <= now
  BY <1>1, <1>2, QuietHandler DEF Known
<1> QED BY <1>1, <1>3, QuietStep

\* Dead-lettering drops a lease together with its row.
LEMMA RowInvForwarded ==
    ASSUME Inv, NEW h \in Handlers, NEW seq \in Seqs, LeaseNextForwarded(h, seq)
    PROVE  RowInv'
<1> USE DEF Inv
<1> DEFINE k == <<hs[h].sub, seq>>
           r == [hs[h] EXCEPT !.pc = "lease_scan", !.todo = @ \ {seq},
                              !.dirty = TRUE, !.cur = mark_done(@, seq)]
<1>1. /\ hs[h].pc = "forwarded" /\ seq \in hs[h].todo /\ (\A q \in hs[h].todo : seq <= q)
      /\ leases' = [leases EXCEPT ![k] = None] /\ dlv' = [dlv EXCEPT ![k] = None]
      /\ promised' = [promised EXCEPT ![k] = 0] /\ hs' = [hs EXCEPT ![h] = r]
      /\ UNCHANGED <<now, dlq, issued, acked>>
  BY DEF LeaseNextForwarded
<1>2. k \in Keys /\ k \in Settled /\ Settled' = Settled
  BY <1>1 DEF Types, TypeOK, Busy, Keys, CursorInv, Sound, Settled
<1>3. r.out = hs[h].out /\ r.at = hs[h].at /\ hs[h].at <= now
  BY DEF Types, TypeOK, Handler, RowInv
<1> HIDE DEF r, k
<1>4. Known' \subseteq Known /\ \A i \in Handlers : hs'[i].at <= now
  BY <1>1, <1>3, QuietHandler DEF Known
<1>5. \A j \in Keys : RowOK(j)'
  BY <1>1, <1>2, RowStep
<1>6. \A j \in Keys : PromiseOK(j)'
  BY <1>1, <1>2 DEF PromiseOK, RowInv, Types, TypeOK
<1>7. \A id \in Known' : NumberOK(id)'
  <2> TAKE id \in Known'
  <2>1. NumberOK(id) /\ <<id.sub, id.seq>> \in Keys
    BY <1>4, KnownType DEF RowInv, AckId, Keys
  <2> QED BY <1>1, <1>2, <2>1 DEF NumberOK, Types, TypeOK
<1> QED BY <1>1, <1>4, <1>5, <1>6, <1>7 DEF RowInv

\* A grant writes a lease and the same row, with a generation nobody has seen.
LEMMA RowInvGrant ==
    ASSUME Inv, NEW h \in Handlers, NEW seq \in Seqs, LeaseNextGrant(h, seq)
    PROVE  RowInv'
<1> USE DEF Inv
<1> DEFINE k == <<hs[h].sub, seq>>
           lease == new_lease(prior_attempts(k), hs[h].at)
           id == [sub |-> hs[h].sub, seq |-> seq, generation |-> lease.generation]
           r == [hs[h] EXCEPT !.todo = @ \ {seq}, !.room = @ - 1, !.out = @ \cup {id}]
<1>1. /\ leases' = [leases EXCEPT ![k] = lease] /\ dlv' = [dlv EXCEPT ![k] = lease]
      /\ promised' = [promised EXCEPT ![k] = lease.deadline] /\ hs' = [hs EXCEPT ![h] = r]
      /\ UNCHANGED <<now, dlq, issued, acked>> /\ hs[h].pc = "lease_scan"
  BY DEF LeaseNextGrant, Eligible, Visiting
<1>2. k \in Keys /\ Settled' = Settled
  BY <1>1 DEF Types, TypeOK, Busy, Keys, Settled
<1>3. /\ prior_attempts(k) \in Nat
      /\ lease \in Lease /\ lease.attempts = prior_attempts(k) + 1
      /\ lease.generation = prior_attempts(k) + 1
  <2>1. prior_attempts(k) \in Nat /\ hs[h].at + ack_deadline \in Nat
    BY <1>2, PriorAttemptsType, ConstantsAssumption DEF Types, TypeOK, Handler
  <2> QED BY <2>1 DEF new_lease, Lease
<1>4. dlv[k] # None => dlv[k].attempts = prior_attempts(k)
  BY <1>2 DEF RowInv, RowOK, prior, prior_attempts
<1> HIDE DEF lease
<1>5. id.sub = hs[h].sub /\ id.seq = seq /\ <<id.sub, id.seq>> = k /\ id.generation = lease.generation
  OBVIOUS
<1> HIDE DEF id
<1>6. r.out = hs[h].out \cup {id} /\ r.at = hs[h].at /\ hs[h].at <= now
  BY DEF Types, TypeOK, Handler, RowInv
<1> HIDE DEF r, k
<1>7. \A i \in Handlers : hs'[i] = hs[i] \/ hs'[i] = r
  BY <1>1 DEF Types, TypeOK
<1>8. Known' \subseteq Known \cup {id} /\ \A i \in Handlers : hs'[i].at <= now
  <2>1. \A i \in Handlers : hs'[i].out \subseteq Known \cup {id} /\ hs'[i].at <= now
    BY <1>6, <1>7 DEF Known, RowInv
  <2> QED BY <1>1, <2>1 DEF Known
<1>9. \A j \in Keys : RowOK(j)'
  BY <1>1, <1>2, RowStep
<1>10. \A j \in Keys : PromiseOK(j)'
  BY <1>1, <1>2, <1>3, NoneAssumption DEF PromiseOK, RowInv, Types, TypeOK
<1>11. \A i \in Known' : NumberOK(i)'
  <2> TAKE i \in Known'
  <2>1. CASE i = id
    BY <1>1, <1>2, <1>3, <1>5, <2>1, NoneAssumption DEF NumberOK, Types, TypeOK
  <2>2. CASE i # id
    <3>1. NumberOK(i) /\ <<i.sub, i.seq>> \in Keys /\ i.generation \in Nat
      BY <1>8, <2>2, KnownType DEF RowInv, AckId, Keys
    <3>2. CASE <<i.sub, i.seq>> = k
      BY <1>1, <1>2, <1>3, <1>4, <3>1, <3>2, NoneAssumption DEF NumberOK, Types, TypeOK
    <3>3. CASE <<i.sub, i.seq>> # k
      BY <1>1, <1>2, <3>1, <3>3 DEF NumberOK, Types, TypeOK
    <3> QED BY <3>2, <3>3
  <2> QED BY <2>1, <2>2
<1> QED BY <1>1, <1>8, <1>9, <1>10, <1>11 DEF RowInv

\* acknowledge drops a lease together with its row; the message is settled then.
LEMMA RowInvAcknowledge ==
    ASSUME Inv, NEW h \in Handlers, Acknowledge(h)
    PROVE  RowInv'
<1> USE DEF Inv, kv, history
<1>0. hs[h] \in Handler /\ hs[h].at <= now /\ now \in Nat /\ hs[h].out \subseteq Known
      /\ issued \subseteq Known
  BY DEF Types, TypeOK, RowInv, Known
<1>1. ASSUME NEW s \in Subs, AcknowledgeLoad(h, s) PROVE RowInv'
  <2>1. PICK ids \in SUBSET Presentable(s) :
          hs' = [hs EXCEPT ![h] = [Idle EXCEPT !.pc = "ack_load", !.sub = s,
                                               !.cur = cursor[s], !.ids = ids]]
    BY <1>1 DEF AcknowledgeLoad
  <2> DEFINE r == [Idle EXCEPT !.pc = "ack_load", !.sub = s, !.cur = cursor[s], !.ids = ids]
  <2>2. hs' = [hs EXCEPT ![h] = r] /\ r.out \subseteq Known /\ r.at <= now
    <3>1. r.out = {} /\ r.at = 0
      BY DEF Idle
    <3> QED BY <1>0, <2>1, <3>1
  <2>3. UNCHANGED <<leases, dlv, promised, now, acked, dlq, issued>>
    BY <1>1 DEF AcknowledgeLoad
  <2> HIDE DEF r
  <2> QED BY <1>0, <2>2, <2>3, QuietHandler, QuietStep
<1>2. ASSUME AcknowledgeLock(h) PROVE RowInv'
  <2> DEFINE r == [hs[h] EXCEPT !.pc = "ack_apply"]
  <2>1. hs' = [hs EXCEPT ![h] = r] /\ r.out = hs[h].out /\ r.at = hs[h].at
    BY <1>0, <1>2 DEF AcknowledgeLock, Handler
  <2>2. UNCHANGED <<leases, dlv, promised, now, acked, dlq, issued>>
    BY <1>2 DEF AcknowledgeLock
  <2> HIDE DEF r
  <2> QED BY <1>0, <2>1, <2>2, QuietHandler, QuietStep
<1>3. ASSUME NEW id \in hs[h].ids, AcknowledgeApply(h, id) PROVE RowInv'
  <2> DEFINE k == <<id.sub, id.seq>>
             r == [hs[h] EXCEPT !.ids = @ \ {id}, !.out = @ \cup {id},
                                !.dirty = TRUE, !.cur = mark_done(@, id.seq)]
  <2>1. id.sub = hs[h].sub /\ k \in Keys
    BY DEF CursorInv, Sound, Types, TypeOK, Handler, AckId, Keys
  <2>2. /\ leases' = [leases EXCEPT ![k] = None] /\ dlv' = [dlv EXCEPT ![k] = None]
        /\ promised' = [promised EXCEPT ![k] = 0] /\ hs' = [hs EXCEPT ![h] = r]
        /\ UNCHANGED <<now, dlq, issued>> /\ acked' = acked \cup {k}
    BY <1>3, <2>1 DEF AcknowledgeApply
  <2>3. r.out = hs[h].out \cup {id} /\ r.at = hs[h].at
    BY <1>0 DEF Handler
  <2>4. Settled \subseteq Settled' /\ k \in Settled'
    BY <2>2 DEF Settled
  <2> HIDE DEF r
  <2>5. \A i \in Handlers : hs'[i] = hs[i] \/ hs'[i] = r
    BY <2>2 DEF Types, TypeOK
  <2>6. Known' \subseteq Known \cup {id} /\ \A i \in Handlers : hs'[i].at <= now
    <3>1. \A i \in Handlers : hs'[i].out \subseteq Known \cup {id} /\ hs'[i].at <= now
      BY <1>0, <2>3, <2>5 DEF Known, RowInv
    <3> QED BY <2>2, <3>1 DEF Known
  <2>7. \A j \in Keys : RowOK(j)'
    <3> HIDE DEF k
    <3> QED BY <2>1, <2>2, RowStep
  <2>8. \A j \in Keys : PromiseOK(j)'
    BY <2>1, <2>2 DEF PromiseOK, RowInv, Types, TypeOK
  <2>9. \A i \in Known' : NumberOK(i)'
    <3> TAKE i \in Known'
    <3>1. CASE <<i.sub, i.seq>> = k
      BY <2>4, <3>1 DEF NumberOK
    <3>2. CASE <<i.sub, i.seq>> # k
      <4>1. NumberOK(i) /\ <<i.sub, i.seq>> \in Keys
        BY <2>6, <3>2, KnownType DEF RowInv, AckId, Keys
      <4> QED BY <2>2, <2>4, <3>2, <4>1 DEF NumberOK, Types, TypeOK
    <3> QED BY <3>1, <3>2
  <2> QED BY <2>2, <2>6, <2>7, <2>8, <2>9 DEF RowInv
<1>4. ASSUME NEW id \in hs[h].ids, AcknowledgeIgnore(h, id) PROVE RowInv'
  <2> DEFINE r == [hs[h] EXCEPT !.ids = @ \ {id}]
  <2>1. hs' = [hs EXCEPT ![h] = r] /\ r.out = hs[h].out /\ r.at = hs[h].at
    BY <1>0, <1>4 DEF AcknowledgeIgnore, Handler
  <2>2. UNCHANGED <<leases, dlv, promised, now, acked, dlq, issued>>
    BY <1>4 DEF AcknowledgeIgnore
  <2> HIDE DEF r
  <2> QED BY <1>0, <2>1, <2>2, QuietHandler, QuietStep
<1>5. ASSUME AcknowledgeReturn(h) PROVE RowInv'
  <2>1. hs' = [hs EXCEPT ![h] = Idle] /\ Idle.out \subseteq Known /\ Idle.at <= now
    BY <1>0, <1>5 DEF AcknowledgeReturn, SaveAndUnlock, Idle
  <2>2. UNCHANGED <<leases, dlv, promised, now, acked, dlq, issued>>
    BY <1>5 DEF AcknowledgeReturn
  <2> QED BY <1>0, <2>1, <2>2, QuietHandler, QuietStep
<1> QED BY <1>1, <1>2, <1>3, <1>4, <1>5 DEF Acknowledge, AcknowledgeRest

\* modify_ack_deadline moves the deadline of a lease and of its row alike.
LEMMA RowInvModifyAckDeadline ==
    ASSUME Inv, NEW h \in Handlers, ModifyAckDeadline(h)
    PROVE  RowInv'
<1> USE DEF Inv, kv, history
<1>0. hs[h] \in Handler /\ hs[h].at <= now /\ now \in Nat /\ issued \subseteq Known
      /\ Idle.out \subseteq Known /\ Idle.at <= now
  BY DEF Types, TypeOK, RowInv, Known, Idle
<1>1. ASSUME NEW s \in Subs, ModifyAckDeadlineLoad(h, s) PROVE RowInv'
  <2>1. PICK id \in Presentable(s), seconds \in Extensions :
          hs' = [hs EXCEPT ![h] = [Idle EXCEPT !.pc = "modify", !.sub = s, !.at = now,
                                               !.ids = {id}, !.secs = seconds]]
    BY <1>1 DEF ModifyAckDeadlineLoad
  <2> DEFINE r == [Idle EXCEPT !.pc = "modify", !.sub = s, !.at = now,
                               !.ids = {id}, !.secs = seconds]
  <2>2. hs' = [hs EXCEPT ![h] = r] /\ r.out \subseteq Known /\ r.at <= now
    <3>1. r.out = {} /\ r.at = now
      BY DEF Idle
    <3> QED BY <1>0, <2>1, <3>1
  <2>3. UNCHANGED <<leases, dlv, promised, now, acked, dlq, issued>>
    BY <1>1 DEF ModifyAckDeadlineLoad
  <2> HIDE DEF r
  <2> QED BY <1>0, <2>2, <2>3, QuietHandler, QuietStep
<1>2. ASSUME NEW id \in hs[h].ids, ModifyAckDeadlineApply(h, id) PROVE RowInv'
  <2> DEFINE k == <<id.sub, id.seq>>
             lease == extended(k, hs[h].at, hs[h].secs)
  <2>1. id.sub = hs[h].sub /\ k \in Keys
    BY DEF CursorInv, Sound, Types, TypeOK, Handler, AckId, Keys
  <2>2. hs' = [hs EXCEPT ![h] = Idle] /\ UNCHANGED <<now, acked, dlq, issued>>
    BY <1>2 DEF ModifyAckDeadlineApply
  <2>3. Known' \subseteq Known /\ \A i \in Handlers : hs'[i].at <= now
    BY <1>0, <2>2, QuietHandler
  <2>4. CASE ~names_current_lease(id)
    <3>1. UNCHANGED <<leases, dlv, promised>>
      BY <1>2, <2>4 DEF ModifyAckDeadlineApply
    <3> QED BY <2>2, <2>3, <3>1, QuietStep
  <2>5. CASE names_current_lease(id)
    <3>1. /\ leases' = [leases EXCEPT ![k] = lease] /\ dlv' = [dlv EXCEPT ![k] = lease]
          /\ promised' = [promised EXCEPT ![k] = IF hs[h].secs = 0 THEN 0 ELSE lease.deadline]
      BY <1>2, <2>1, <2>5 DEF ModifyAckDeadlineApply
    <3>2. leases[k] \in Lease /\ leases[k] # None
      BY <2>1, <2>5 DEF names_current_lease, Types, TypeOK
    <3>3. hs[h].at + hs[h].secs \in Nat
      BY <1>0 DEF Handler
    <3>4. lease \in Lease /\ lease.attempts = leases[k].attempts
      BY <3>2, <3>3 DEF extended, Lease
    <3>5. dlv[k] # None /\ dlv[k].attempts = lease.attempts
      BY <2>1, <3>2, <3>4 DEF RowInv, RowOK
    <3> HIDE DEF lease, k
    <3>6. \A j \in Keys : RowOK(j)'
      BY <2>1, <2>2, <3>1, RowStep
    <3>7. \A j \in Keys : PromiseOK(j)'
      BY <2>1, <3>1, <3>4, NoneAssumption DEF PromiseOK, RowInv, Types, TypeOK
    <3>8. \A i \in Known' : NumberOK(i)'
      <4> TAKE i \in Known'
      <4>1. NumberOK(i) /\ <<i.sub, i.seq>> \in Keys
        BY <2>3, KnownType DEF RowInv, AckId, Keys
      <4>2. Settled' = Settled
        BY <2>2 DEF Settled
      <4>3. CASE <<i.sub, i.seq>> = k
        BY <3>1, <3>4, <3>5, <4>1, <4>2, <4>3, NoneAssumption DEF NumberOK, Types, TypeOK
      <4>4. CASE <<i.sub, i.seq>> # k
        BY <3>1, <4>1, <4>2, <4>4 DEF NumberOK, Types, TypeOK
      <4> QED BY <4>3, <4>4
    <3> QED BY <2>2, <2>3, <3>6, <3>7, <3>8 DEF RowInv
  <2> QED BY <2>4, <2>5
<1> QED BY <1>1, <1>2 DEF ModifyAckDeadline, ModifyAckDeadlineRest

\* The passing of time can only expire leases.
LEMMA RowInvTick == ASSUME Inv, Tick PROVE RowInv'
<1> USE DEF Inv, kv, history
<1>1. now \in Nat /\ now' = now + 1 /\ UNCHANGED <<leases, dlv, promised, hs, issued, acked, dlq>>
  BY DEF Tick, Types, TypeOK
<1>2. \A k \in Keys : RowOK(k)' /\ PromiseOK(k)'
  <2> TAKE k \in Keys
  <2>1. /\ dlv[k] # None => dlv[k].deadline \in Nat
        /\ leases[k] # None => leases[k].deadline \in Nat
    BY DEF Types, TypeOK, Lease
  <2> QED BY <1>1, <2>1 DEF RowInv, RowOK, PromiseOK
<1>3. \A id \in Known' : NumberOK(id)'
  BY <1>1 DEF RowInv, Known, NumberOK, Settled
<1>4. \A h \in Handlers : hs[h].at <= now + 1
  BY <1>1 DEF RowInv, Types, TypeOK, Handler
<1> QED BY <1>1, <1>2, <1>3, <1>4 DEF RowInv

\* sweep_expired touches leases whose row has expired as well.
LEMMA RowInvSweep == ASSUME Inv, NEW s \in Subs, SweepExpired(s) PROVE RowInv'
<1> USE DEF Inv, kv, history
<1>1. UNCHANGED <<now, dlv, promised, hs, issued, acked, dlq>>
  BY DEF SweepExpired
<1>2. ASSUME NEW k \in Keys PROVE RowOK(k)'
  <2>1. CASE leases'[k] = leases[k]
    BY <1>1, <2>1 DEF RowInv, RowOK
  <2>2. CASE leases'[k] # leases[k]
    <3>1. /\ leases[k] # None /\ leases[k].deadline <= now - LEASE_GC_GRACE
          /\ leases'[k] = None \/ leases'[k] = [leases[k] EXCEPT !.deadline = now]
      BY <2>2 DEF SweepExpired
    <3>2. leases[k] \in Lease /\ now \in Nat /\ LEASE_GC_GRACE \in Nat /\ leases[k].deadline \in Nat
      BY <3>1, ConstantsAssumption DEF Types, TypeOK, Lease
    <3>3. leases[k].deadline <= now
      BY <3>1, <3>2
    <3>4. /\ dlv[k] # None /\ dlv[k].deadline <= now
          /\ leases[k].attempts = dlv[k].attempts
      BY <3>1, <3>3 DEF RowInv, RowOK
    <3>5. CASE leases'[k] = None
      BY <1>1, <3>4, <3>5 DEF RowOK
    <3>6. CASE leases'[k] = [leases[k] EXCEPT !.deadline = now]
      <4>1. leases'[k].attempts = leases[k].attempts /\ leases'[k].deadline = now
        BY <3>2, <3>6 DEF Lease
      <4> QED BY <1>1, <3>2, <3>4, <4>1 DEF RowOK
    <3> QED BY <3>1, <3>5, <3>6
  <2> QED BY <2>1, <2>2
<1> QED BY <1>1, <1>2 DEF RowInv, PromiseOK, Known, NumberOK, Settled

\* recover makes every lease equal to its row.
LEMMA RowInvCrash == ASSUME Inv, Crash PROVE RowInv'
<1> USE DEF Inv, kv, history
<1>1. leases' = dlv /\ UNCHANGED <<now, dlv, promised, issued, acked, dlq>>
  BY DEF Crash, recover
<1>2. now \in Nat /\ \A h \in Handlers : hs'[h].out = {} /\ hs'[h].at = 0
  BY DEF Crash, Idle, Types, TypeOK
<1>3. Known' \subseteq Known
  BY <1>1, <1>2 DEF Known
<1>4. \A id \in Known' : NumberOK(id)'
  BY <1>1, <1>3 DEF RowInv, NumberOK, Settled
<1> QED BY <1>1, <1>2, <1>4 DEF RowInv, RowOK, PromiseOK

\* Inv is inductive.
LEMMA InvNext == ASSUME ~ForeignAckIds, Inv, [Next]_vars PROVE Inv'
<1> USE DEF Inv, kv, history
<1>1. Types' /\ CursorInv'
  BY TypesNext, CursorInvNext
<1>2. CASE Publish \/ DeleteDlqTopic \/ UNCHANGED vars
  <2>1. UNCHANGED <<leases, dlv, promised, now, hs, issued, acked, dlq>>
    BY <1>2 DEF Publish, DeleteDlqTopic, vars
  <2>2. Known' = Known /\ \A h \in Handlers : hs'[h].at <= now
    BY <2>1 DEF Known, RowInv
  <2> QED BY <1>1, <2>1, <2>2, QuietStep
<1>3. ASSUME NEW h \in Handlers, LeaseNext(h) PROVE RowInv'
  BY <1>3, RowInvQuietLeaseNext, RowInvForwarded, RowInvGrant DEF LeaseNext, LeaseNextScan
<1> QED BY <1>1, <1>2, <1>3, RowInvTick, RowInvCrash, RowInvSweep,
           RowInvAcknowledge, RowInvModifyAckDeadline DEF Next

\* Inv holds in every reachable state of the engine.
LEMMA InvAlways == ASSUME ~ForeignAckIds PROVE Spec => []Inv
<1>1. Init => Inv
  BY TypesInit, CursorInvInit, RowInvInit DEF Inv
<1>2. Inv /\ [Next]_vars => Inv'
  BY InvNext
<1> QED BY <1>1, <1>2, PTL DEF Spec

-----------------------------------------------------------------------------
\* A crash at any point of any interleaving neither frees a message whose holder
\* still has time nor revives a lease that ended: `recover` finds in the dlv rows
\* exactly the unexpired leases.
THEOREM LeasesAreCrashSafe ==
    ASSUME ~ForeignAckIds
    PROVE  Spec => []LeasesSurviveCrash
<1>1. Inv => LeasesSurviveCrash
  <2> SUFFICES ASSUME Inv, NEW k \in Keys,
                      \/ dlv[k] # None /\ dlv[k].deadline > now
                      \/ leases[k] # None /\ leases[k].deadline > now
               PROVE  leases[k] = dlv[k]
    BY DEF LeasesSurviveCrash
  <2>1. /\ now \in Nat
        /\ dlv[k] # None => dlv[k].deadline \in Nat
        /\ leases[k] # None => leases[k].deadline \in Nat
    BY DEF Inv, Types, TypeOK, Lease
  <2> QED BY <2>1 DEF Inv, RowInv, RowOK
<1> QED BY <1>1, InvAlways, PTL

\* A handler's answer grows during a scan only by a grant of its own.
LEMMA OnlyGrantsDeliver ==
    ASSUME Types, [Next]_vars, NEW id \in Deliveries
    PROVE  \E h \in Handlers : \E seq \in Seqs :
              /\ LeaseNextGrant(h, seq)
              /\ id.sub = hs[h].sub /\ id.seq = seq
              /\ id.generation = prior_attempts(<<hs[h].sub, seq>>) + 1
<1> USE DEF kv, history
<1>1. PICK h \in Handlers : hs[h].pc = "lease_scan" /\ id \in hs'[h].out /\ id \notin hs[h].out
  BY DEF Deliveries
<1>2. hs[h] \in Handler
  BY DEF Types, TypeOK
<1>3. ASSUME NEW i \in Handlers, NEW r, hs' = [hs EXCEPT ![i] = r]
      PROVE  i = h /\ id \in r.out
  BY <1>1, <1>3 DEF Types, TypeOK
<1>4. Idle.out = {}
  BY DEF Idle
<1>5. ~UNCHANGED hs /\ ~Crash
  BY <1>1, <1>4 DEF Crash
<1>6. PICK i \in Handlers : LeaseNext(i) \/ Acknowledge(i) \/ ModifyAckDeadline(i)
  BY <1>5 DEF Next, vars, Tick, Publish, DeleteDlqTopic, SweepExpired
<1>7. ~\E s \in Subs : LeaseNextLoad(i, s) \/ AcknowledgeLoad(i, s) \/ ModifyAckDeadlineLoad(i, s)
  <2>1. ASSUME hs[i].pc = "idle", NEW r, hs' = [hs EXCEPT ![i] = r] PROVE FALSE
    BY <1>1, <1>3, <2>1
  <2> QED BY <2>1 DEF LeaseNextLoad, AcknowledgeLoad, ModifyAckDeadlineLoad
<1>8. ~LeaseNextLock(i) /\ ~AcknowledgeLock(i)
  <2>1. ASSUME hs[i].pc # "lease_scan", NEW r, hs' = [hs EXCEPT ![i] = r] PROVE FALSE
    BY <1>1, <1>3, <2>1
  <2> QED BY <2>1 DEF LeaseNextLock, AcknowledgeLock
<1>9. ~LeaseNextReturn(i) /\ ~AcknowledgeReturn(i) /\ ~ModifyAckDeadlineRest(i)
  BY <1>3, <1>4 DEF LeaseNextReturn, AcknowledgeReturn, SaveAndUnlock,
                    ModifyAckDeadlineRest, ModifyAckDeadlineApply
<1>10. \A a \in hs[i].ids : ~AcknowledgeApply(i, a) /\ ~AcknowledgeIgnore(i, a)
  <2>1. ASSUME hs[i].pc = "ack_apply", NEW r, hs' = [hs EXCEPT ![i] = r] PROVE FALSE
    BY <1>1, <1>3, <2>1
  <2> QED BY <2>1 DEF AcknowledgeApply, AcknowledgeIgnore
<1>11. PICK seq \in Seqs :
          \/ LeaseNextSkip(i, seq) \/ LeaseNextFilter(i, seq) \/ LeaseNextForward(i, seq)
          \/ LeaseNextForwarded(i, seq) \/ LeaseNextGrant(i, seq)
  BY <1>6, <1>7, <1>8, <1>9, <1>10
     DEF LeaseNext, LeaseNextScan, Acknowledge, AcknowledgeRest, ModifyAckDeadline
<1>12. ~LeaseNextSkip(i, seq)
  <2> DEFINE r == [hs[i] EXCEPT !.todo = @ \ {seq}]
  <2> SUFFICES ASSUME hs' = [hs EXCEPT ![i] = r] PROVE FALSE
    BY DEF LeaseNextSkip
  <2>1. i = h /\ id \in r.out
    BY <1>3
  <2> QED BY <1>1, <1>2, <2>1 DEF Handler
<1>13. ~LeaseNextFilter(i, seq)
  <2> DEFINE r == [hs[i] EXCEPT !.todo = @ \ {seq}, !.dirty = TRUE, !.cur = mark_done(@, seq)]
  <2> SUFFICES ASSUME hs' = [hs EXCEPT ![i] = r] PROVE FALSE
    BY DEF LeaseNextFilter
  <2>1. i = h /\ id \in r.out
    BY <1>3
  <2> QED BY <1>1, <1>2, <2>1 DEF Handler
<1>14. ~LeaseNextForward(i, seq)
  <2> DEFINE r == [hs[i] EXCEPT !.pc = "forwarded"]
  <2> SUFFICES ASSUME hs' = [hs EXCEPT ![i] = r] PROVE FALSE
    BY DEF LeaseNextForward
  <2>1. i = h /\ id \in r.out
    BY <1>3
  <2> QED BY <1>1, <1>2, <2>1 DEF Handler
<1>15. ~LeaseNextForwarded(i, seq)
  <2> DEFINE r == [hs[i] EXCEPT !.pc = "lease_scan", !.todo = @ \ {seq},
                                !.dirty = TRUE, !.cur = mark_done(@, seq)]
  <2> SUFFICES ASSUME hs' = [hs EXCEPT ![i] = r], hs[i].pc = "forwarded" PROVE FALSE
    BY DEF LeaseNextForwarded
  <2>1. i = h
    BY <1>3
  <2> QED BY <1>1, <2>1
<1>16. LeaseNextGrant(i, seq)
  BY <1>11, <1>12, <1>13, <1>14, <1>15
<1> DEFINE lease == new_lease(prior_attempts(<<hs[i].sub, seq>>), hs[i].at)
           new == [sub |-> hs[i].sub, seq |-> seq, generation |-> lease.generation]
           r == [hs[i] EXCEPT !.todo = @ \ {seq}, !.room = @ - 1, !.out = @ \cup {new}]
<1>17. hs' = [hs EXCEPT ![i] = r]
  BY <1>16 DEF LeaseNextGrant
<1>18. i = h /\ id \in r.out
  <2> HIDE DEF r
  <2> QED BY <1>3, <1>17
<1>19. lease.generation = prior_attempts(<<hs[i].sub, seq>>) + 1
  BY DEF new_lease
<1> HIDE DEF lease
<1>20. new.sub = hs[i].sub /\ new.seq = seq /\ new.generation = lease.generation
  OBVIOUS
<1> HIDE DEF new
<1>21. id = new
  BY <1>1, <1>2, <1>18 DEF Handler
<1> QED BY <1>16, <1>19, <1>20, <1>21

\* What holds when a message is handed out: its lease, if any, and its row have
\* expired, and it is not backing off.
LEMMA GrantFacts ==
    ASSUME Inv, NEW h \in Handlers, NEW seq \in Seqs, LeaseNextGrant(h, seq)
    PROVE  LET k == <<hs[h].sub, seq>>
           IN /\ k \in Keys
              /\ dlv[k] # None => dlv[k].deadline <= now
              /\ dlv[k] # None => prior_attempts(k) = dlv[k].attempts
<1> DEFINE k == <<hs[h].sub, seq>>
<1>1. k \in Keys /\ ~is_leased(k, hs[h].at) /\ hs[h].pc = "lease_scan"
  BY DEF LeaseNextGrant, Eligible, Visiting, Inv, Types, TypeOK, Busy, Keys
<1>2. /\ hs[h].at <= now /\ now \in Nat /\ hs[h].at \in Nat /\ RowOK(k)
      /\ dlv[k] # None => dlv[k].deadline \in Nat
      /\ leases[k] # None => leases[k].deadline \in Nat
  BY <1>1 DEF Inv, RowInv, Types, TypeOK, Lease, Handler
<1> HIDE DEF k
<1>3. dlv[k] # None => dlv[k].deadline <= now
  BY <1>1, <1>2 DEF RowOK, is_leased
<1>4. dlv[k] # None => prior_attempts(k) = dlv[k].attempts
  BY <1>2 DEF RowOK, prior_attempts, prior
<1> QED BY <1>1, <1>3, <1>4 DEF k

\* lease_next hands out no message before the deadline last promised to its holder,
\* for any number of pullers, extensions, sweeps and crashes.
THEOREM NoEarlyRedeliveryHolds ==
    ASSUME ~ForeignAckIds
    PROVE  Spec => NoEarlyRedelivery
<1>1. Inv /\ [Next]_vars => [\A id \in Deliveries : promised[<<id.sub, id.seq>>] <= now]_vars
  <2> SUFFICES ASSUME Inv, [Next]_vars, NEW id \in Deliveries
               PROVE  promised[<<id.sub, id.seq>>] <= now
    OBVIOUS
  <2>1. PICK h \in Handlers, seq \in Seqs :
           LeaseNextGrant(h, seq) /\ id.sub = hs[h].sub /\ id.seq = seq
    BY OnlyGrantsDeliver DEF Inv
  <2> DEFINE k == <<hs[h].sub, seq>>
  <2>2. k \in Keys /\ (dlv[k] # None => dlv[k].deadline <= now)
    BY <2>1, GrantFacts
  <2>3. PromiseOK(k) /\ now \in Nat
    BY <2>2 DEF Inv, RowInv, Types, TypeOK
  <2> QED BY <2>1, <2>2, <2>3 DEF PromiseOK
<1> QED BY <1>1, InvAlways, PTL DEF Spec, NoEarlyRedelivery

\* The generation lease_next puts in an ack_id is above every one it handed out for
\* the same unsettled message, across restarts, sweeps and races.
THEOREM AckIdNamesOneDeliveryHolds ==
    ASSUME ~ForeignAckIds
    PROVE  Spec => AckIdNamesOneDelivery
<1>1. Inv /\ [Next]_vars =>
         [\A id \in Deliveries : <<id.sub, id.seq>> \notin Settled => id \notin issued]_vars
  <2> SUFFICES ASSUME Inv, [Next]_vars, NEW id \in Deliveries,
                      <<id.sub, id.seq>> \notin Settled, id \in issued
               PROVE  FALSE
    OBVIOUS
  <2>1. PICK h \in Handlers, seq \in Seqs :
           /\ LeaseNextGrant(h, seq) /\ id.sub = hs[h].sub /\ id.seq = seq
           /\ id.generation = prior_attempts(<<hs[h].sub, seq>>) + 1
    BY OnlyGrantsDeliver DEF Inv
  <2> DEFINE k == <<hs[h].sub, seq>>
  <2>2. k \in Keys /\ (dlv[k] # None => prior_attempts(k) = dlv[k].attempts)
    BY <2>1, GrantFacts
  <2>3. NumberOK(id)
    BY DEF Inv, RowInv, Known
  <2>4. dlv[k] # None /\ id.generation <= dlv[k].attempts
    BY <2>1, <2>3 DEF NumberOK
  <2>5. prior_attempts(k) \in Nat
    BY <2>2, PriorAttemptsType DEF Inv
  <2> QED BY <2>1, <2>2, <2>4, <2>5
<1> QED BY <1>1, InvAlways, PTL DEF Spec, AckIdNamesOneDelivery

\* A backoff is a number, whatever the attempts.
LEMMA BackoffIsInt ==
    ASSUME NEW attempts \in Nat
    PROVE  backoff_for_attempts(attempts, min_backoff, max_backoff) \in Int
<1> DEFINE shift == Smaller(Larger(attempts - 1, 0), 20)
           lo == Larger(Larger(min_backoff, 0), MIN_POSSIBLE_BACKOFF)
           hi == Larger(Larger(max_backoff, 0), lo)
<1>1. shift \in Nat /\ lo \in Int /\ hi \in Int
  BY ConstantsAssumption DEF Smaller, Larger, MIN_POSSIBLE_BACKOFF
<1>2. backoff_for_attempts(attempts, min_backoff, max_backoff) = Smaller(lo * 2^shift, hi)
  BY DEF backoff_for_attempts
<1> HIDE DEF shift, lo, hi
<1>3. 2^shift \in Int
  BY <1>1
<1>4. \A p \in Int : lo * p \in Int
  BY <1>1
<1> QED BY <1>1, <1>2, <1>3, <1>4 DEF Smaller

\* Neither a sweep that drops the lease nor a crash makes lease_next forget the
\* retry policy's backoff.
THEOREM BackoffRespectedHolds ==
    ASSUME ~ForeignAckIds
    PROVE  Spec => BackoffRespected
<1> DEFINE P(k) == retry_policy_explicit /\ dlv[k] # None =>
                      now >= next_eligible_at(dlv[k].deadline, dlv[k].attempts,
                                              min_backoff, max_backoff)
<1>1. Inv /\ [Next]_vars => [\A id \in Deliveries : P(<<id.sub, id.seq>>)]_vars
  <2> SUFFICES ASSUME Inv, [Next]_vars, NEW id \in Deliveries,
                      retry_policy_explicit, dlv[<<id.sub, id.seq>>] # None
               PROVE  now >= next_eligible_at(dlv[<<id.sub, id.seq>>].deadline,
                                dlv[<<id.sub, id.seq>>].attempts, min_backoff, max_backoff)
    OBVIOUS
  <2>1. PICK h \in Handlers, seq \in Seqs :
           LeaseNextGrant(h, seq) /\ id.sub = hs[h].sub /\ id.seq = seq
    BY OnlyGrantsDeliver DEF Inv
  <2> DEFINE k == <<hs[h].sub, seq>>
             b == backoff_for_attempts(dlv[k].attempts, min_backoff, max_backoff)
  <2>2. k \in Keys /\ k = <<id.sub, id.seq>> /\ ~is_backing_off(k, hs[h].at)
    BY <2>1, GrantFacts DEF LeaseNextGrant, Eligible
  <2>3. /\ hs[h].at <= now /\ now \in Nat /\ hs[h].at \in Nat /\ RowOK(k)
        /\ dlv[k] \in Lease /\ leases[k] \in Lease \cup {None}
    BY <2>2 DEF Inv, RowInv, Types, TypeOK, Handler
  <2>4. b \in Int /\ dlv[k].deadline \in Nat /\ (leases[k] # None => leases[k].deadline \in Nat)
    BY <2>3, BackoffIsInt DEF Lease
  <2> HIDE DEF k
  <2>5. prior(k) # None /\ prior(k).attempts = dlv[k].attempts
        /\ prior(k).deadline \in Nat /\ dlv[k].deadline <= prior(k).deadline
    BY <2>2, <2>3, <2>4 DEF prior, RowOK
  <2>6. ~(hs[h].at < prior(k).deadline + b)
    BY <2>2, <2>5 DEF is_backing_off, next_eligible_at
  <2> HIDE DEF b
  <2>7. now >= dlv[k].deadline + b
    BY <2>3, <2>4, <2>5, <2>6
  <2> QED BY <2>2, <2>7 DEF next_eligible_at, b
<1> QED BY <1>1, InvAlways, PTL DEF Spec, BackoffRespected

\* While its dead-letter topic exists, a message is delivered at most
\* max_delivery_attempts times, whatever is lost from memory in between.
THEOREM DeadLetterBoundHolds ==
    ASSUME ~ForeignAckIds
    PROVE  Spec => DeadLetterBound
<1>1. Inv /\ [Next]_vars =>
         [\A id \in Deliveries :
             max_delivery_attempts > 0 /\ dlq_topic => id.generation <= max_delivery_attempts]_vars
  <2> SUFFICES ASSUME Inv, [Next]_vars, NEW id \in Deliveries,
                      max_delivery_attempts > 0, dlq_topic
               PROVE  id.generation <= max_delivery_attempts
    OBVIOUS
  <2>1. PICK h \in Handlers, seq \in Seqs :
           /\ LeaseNextGrant(h, seq)
           /\ id.generation = prior_attempts(<<hs[h].sub, seq>>) + 1
    BY OnlyGrantsDeliver DEF Inv
  <2> DEFINE k == <<hs[h].sub, seq>>
  <2>2. k \in Keys /\ ~is_dead(k)
    BY <2>1, GrantFacts DEF LeaseNextGrant
  <2>3. prior_attempts(k) \in Nat /\ max_delivery_attempts \in Nat
    BY <2>2, PriorAttemptsType, ConstantsAssumption DEF Inv
  <2>4. prior_attempts(k) < max_delivery_attempts
    BY <2>2, <2>3 DEF is_dead, should_dead_letter, prior_attempts
  <2> QED BY <2>1, <2>3, <2>4
<1> QED BY <1>1, InvAlways, PTL DEF Spec, DeadLetterBound

=============================================================================
