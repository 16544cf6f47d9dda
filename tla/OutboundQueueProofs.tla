------------------------- MODULE OutboundQueueProofs -------------------------
(***************************************************************************)
(* Proofs about OutboundQueue: its inductive invariant, the safety         *)
(* properties that follow from it, and the refinement of OutboundDelivery. *)
(***************************************************************************)
EXTENDS OutboundQueue, FiniteSetTheorems, TLAPS

-----------------------------------------------------------------------------
(* The transitions of one row. *)

LEMMA PowerOfTwo ==
    ASSUME NEW r \in Nat
    PROVE  2^r \in Nat
<1>1. IsFiniteSet(1 .. r) /\ Cardinality(1 .. r) = r
  BY FS_Interval, SMT
<1>2. IsFiniteSet(SUBSET (1 .. r)) /\ Cardinality(SUBSET (1 .. r)) = 2^r
  BY <1>1, FS_SUBSET
<1> QED
  BY <1>2, FS_CardinalityType

LEMMA BackoffType ==
    ASSUME NEW r \in Nat
    PROVE  Backoff(r) \in Nat
<1>1. 2^r \in Nat
  BY PowerOfTwo
<1> QED
  BY <1>1, QueueAssumption DEF Backoff

LEMMA NoRowType == NoRow \in Row
  BY QueueAssumption DEF NoRow, Row, RowState

(* Whatever happens to a message, its row stays a row. *)
LEMMA RowTypes ==
    ASSUME NEW m \in Msg, NEW r \in Row
    PROVE  /\ DeadLetter(r) \in Row
           /\ Fail(r) \in Row
           /\ ValidationFail(m, r) \subseteq Row
           /\ Elapse(r) \in Row
<1>1. r.retry \in Nat /\ r.wait \in Nat
  BY QueueAssumption DEF Row
<1>2. DeadLetter(r) \in Row
  BY <1>1 DEF DeadLetter, Row, RowState
<1>3. Fail(r) \in Row
  <2>1. CASE Exhausted(r)
    BY <1>2, <2>1 DEF Fail
  <2>2. CASE ~(Exhausted(r))
    <3>1. r.retry + 1 \in 0 .. (MaxRetries - 1)
      BY <1>1, <2>2, QueueAssumption DEF Exhausted
    <3>2. Backoff(r.retry) \in Nat
      BY <1>1, BackoffType
    <3> QED
      BY <2>2, <3>1, <3>2 DEF Fail, NextRetryCount, Row, RowState
  <2> QED BY <2>1, <2>2
<1>4. ValidationFail(m, r) \subseteq Row
  BY <1>2, <1>3 DEF ValidationFail
<1>5. Elapse(r) \in Row
  BY <1>1 DEF Elapse, Row
<1> QED
  BY <1>2, <1>3, <1>4, <1>5

(* Giving up, failing or refusing a message yields a sound row when the     *)
(* attempt it stands for has been made.                                     *)
LEMMA FailIsSound ==
    ASSUME IInv, NEW m \in Msg, NEW r \in Row, r.state = "sending",
           SoundRow(m, r), r.retry < tries[m]
    PROVE  /\ SoundRow(m, Fail(r))
           /\ Fail(r).state \in {"queued", "dead"}
<1>1. r.retry \in 0 .. (MaxRetries - 1) /\ tries[m] \in 0 .. MaxRetries
  BY DEF Row, IInv, TypeOK
<1>2. CASE Exhausted(r)
  <2>1. tries[m] = MaxRetries
    BY <1>1, <1>2, QueueAssumption DEF Exhausted
  <2>2. Fail(r) = [r EXCEPT !.state = "dead"]
    BY <1>2 DEF Fail, DeadLetter
  <2> QED
    BY <1>1, <2>1, <2>2, QueueAssumption DEF SoundRow, Row
<1>3. CASE ~(Exhausted(r))
  BY <1>1, <1>3, QueueAssumption DEF Fail, NextRetryCount, SoundRow, Row
<1> QED BY <1>2, <1>3

-----------------------------------------------------------------------------
(* The initial state and, action by action, every step keep IInv. *)

LEMMA InitIInv == Init => IInv
<1> SUFFICES ASSUME Init PROVE IInv
  OBVIOUS
<1>1. TypeOK
  BY NoRowType, QueueAssumption DEF Init, TypeOK
<1>2. RowInv /\ ExistInv
  BY <1>1, QueueAssumption DEF Init, RowInv, ExistInv, SoundRow, NoRow
<1>3. PcInv /\ LockInv /\ SnapshotInv /\ ClaimIsFresh /\ TxInv
  BY DEF Init, PcInv, LockInv, SnapshotInv, ClaimIsFresh, TxInv
<1> QED BY <1>1, <1>2, <1>3 DEF IInv

LEMMA EnqueueIInv ==
    ASSUME IInv, NEW m \in Msg, Enqueue(m)
    PROVE  IInv'
<1> USE DEF IInv
<1>1. TypeOK'
  <2>1. row' \in [Msg -> Row]
    <3>1. row[m] \in Row
      BY DEF TypeOK
    <3>2. [row[m] EXCEPT !.state = "queued"] \in Row
      BY <3>1 DEF Row, RowState
    <3> QED
      BY <3>2 DEF Enqueue, TypeOK
  <2> QED
    BY <2>1 DEF Enqueue, TypeOK, job, hist
<1>2. /\ row'[m] = [row[m] EXCEPT !.state = "queued"]
      /\ \A n \in Msg \ {m} : row'[n] = row[n]
      /\ row[m].state = "none"
  BY DEF Enqueue, TypeOK
<1>3. UNCHANGED <<accepted, rejected, tries, held, todo, cur, tx, pc, cand,
                  stale, wire, form>>
  BY DEF Enqueue, job, hist
<1>4. \A n \in Msg : Due(n) => Due(n)'
  BY <1>2 DEF Due
<1>5. RowInv'
  <2> SUFFICES ASSUME NEW n \in Msg
               PROVE  row'[n].state # "sending" /\ SoundRow(n, row[n])'
    BY DEF RowInv
  <2>1. row[n] \in Row /\ SoundRow(n, row[n]) /\ row[n].state # "sending"
    BY DEF TypeOK, RowInv
  <2> QED
    BY <1>2, <1>3, <2>1 DEF SoundRow, Row
<1>6. PcInv' /\ LockInv'
  BY <1>3 DEF PcInv, LockInv
<1>7. SnapshotInv' /\ ClaimIsFresh'
  BY <1>3, <1>4 DEF SnapshotInv, ClaimIsFresh, TypeOK
<1>8. TxInv'
  BY <1>3 DEF TxInv, HeldRowInv, SoundRow
<1>9. ExistInv'
  <2>1. \A n \in Msg : row[n].state # "none" => row'[n].state # "none"
    BY <1>2
  <2> QED BY <1>3, <2>1 DEF ExistInv, TypeOK
<1> QED BY <1>1, <1>5, <1>6, <1>7, <1>8, <1>9

LEMMA SearchIInv ==
    ASSUME IInv, NEW w \in Worker, Search(w)
    PROVE  IInv'
<1> USE DEF IInv
<1>1. TypeOK'
  BY DEF Search, TypeOK, hist
<1>2. RowInv' /\ LockInv' /\ ExistInv' /\ ClaimIsFresh'
  BY DEF Search, hist, RowInv, LockInv, ExistInv, ClaimIsFresh, SoundRow, Due
<1>3. PcInv'
  BY DEF Search, PcInv, TypeOK
<1>4. SnapshotInv'
  BY DEF Search, SnapshotInv, TypeOK, Due
<1>5. TxInv'
  BY DEF Search, hist, TxInv, HeldRowInv, SoundRow
<1> QED BY <1>1, <1>2, <1>3, <1>4, <1>5

LEMMA ClaimIInv ==
    ASSUME IInv, NEW w \in Worker, Claim(w)
    PROVE  IInv'
<1> USE DEF IInv
<1>1. Free(w) \subseteq Msg
  BY DEF Free, TypeOK
<1>2. \A m \in Msg :
        (IF m \in Free(w) THEN row[m] ELSE NoRow) \in Row
  BY NoRowType DEF TypeOK
<1>3. TypeOK'
  BY <1>1, <1>2 DEF Claim, TypeOK, hist
<1>4. RowInv' /\ ExistInv'
  BY DEF Claim, hist, RowInv, ExistInv, SoundRow
<1>5. \A v \in Worker : v # w => held'[v] = held[v] /\ todo'[v] = todo[v]
                                 /\ tx'[v] = tx[v] /\ cur'[v] = cur[v]
  BY DEF Claim, TypeOK
<1>6. /\ held'[w] = Free(w) /\ todo'[w] = Free(w) /\ cur'[w] = NoMsg
      /\ \A m \in Free(w) : tx'[w][m] = row[m]
  BY <1>1 DEF Claim, TypeOK, PcInv
<1>7. PcInv'
  BY <1>5, <1>6 DEF Claim, PcInv, TypeOK
<1>8. LockInv'
  BY <1>5, <1>6 DEF LockInv, Free
<1>9. SnapshotInv'
  BY DEF Claim, SnapshotInv, TypeOK, Due
<1>10. \A m \in Free(w) : Due(m)
  BY DEF Claim, Conflict, SnapshotInv, Free
<1>11. ClaimIsFresh'
  BY <1>5, <1>6, <1>10 DEF ClaimIsFresh, Claim, Due
<1>12. TxInv'
  <2> SUFFICES ASSUME NEW v \in Worker, NEW m \in held'[v]
               PROVE  HeldRowInv(v, m)'
    BY DEF TxInv
  <2>1. UNCHANGED <<accepted, tries, rejected>>
    BY DEF Claim, hist
  <2>2. CASE v = w
    <3>1. m \in Msg /\ m \in todo'[w] /\ tx'[w][m] = row[m] /\ m # cur'[w]
      BY <1>1, <1>6, <2>2, QueueAssumption
    <3>2. row[m].state = "queued" /\ SoundRow(m, row[m])
      BY <1>1, <1>6, <1>10, <2>2, <3>1 DEF Due, RowInv
    <3> QED BY <2>1, <2>2, <3>1, <3>2 DEF HeldRowInv, SoundRow
  <2>3. CASE v # w
    <3>1. m \in held[v] /\ HeldRowInv(v, m)
      BY <1>5, <2>3 DEF TxInv
    <3> QED BY <1>5, <2>1, <2>3, <3>1 DEF HeldRowInv, SoundRow
  <2> QED BY <2>2, <2>3
<1> QED BY <1>3, <1>4, <1>7, <1>8, <1>9, <1>11, <1>12

(* The three ways a transaction ends without writing anything. *)
LEMMA RollbackIInv ==
    ASSUME IInv, NEW w \in Worker, EndTransaction(w), Outdate(w, {}),
           UNCHANGED <<row, wire, accepted, form, clicks, hist>>,
           crashes' \in 0 .. MaxCrashes
    PROVE  IInv'
<1> USE DEF IInv
<1>1. [m \in Msg |-> NoRow] \in [Msg -> Row]
  BY NoRowType
<1>2. TypeOK'
  BY <1>1 DEF TypeOK, EndTransaction, Outdate, hist
<1>3. RowInv' /\ ExistInv'
  BY DEF hist, RowInv, ExistInv, SoundRow
<1>4. \A v \in Worker : v # w => /\ held'[v] = held[v] /\ todo'[v] = todo[v]
                                 /\ tx'[v] = tx[v] /\ cur'[v] = cur[v]
                                 /\ pc'[v] = pc[v] /\ cand'[v] = cand[v]
                                 /\ stale[v] \subseteq stale'[v]
  BY DEF EndTransaction, Outdate, TypeOK
<1>5. /\ held'[w] = {} /\ todo'[w] = {} /\ cur'[w] = NoMsg
      /\ pc'[w] = "idle" /\ cand'[w] = {}
  BY DEF EndTransaction, TypeOK
<1>6. PcInv' /\ LockInv'
  BY <1>4, <1>5 DEF PcInv, LockInv
<1>7. SnapshotInv' /\ ClaimIsFresh'
  BY <1>4, <1>5 DEF SnapshotInv, ClaimIsFresh, Due
<1>8. TxInv'
  BY <1>4, <1>5 DEF TxInv, HeldRowInv, SoundRow, hist
<1> QED BY <1>2, <1>3, <1>6, <1>7, <1>8

LEMMA ClaimNothingIInv ==
    ASSUME IInv, NEW w \in Worker, ClaimNothing(w)
    PROVE  IInv'
BY RollbackIInv DEF ClaimNothing, IInv, TypeOK

LEMMA SerializationFailureIInv ==
    ASSUME IInv, NEW w \in Worker, SerializationFailure(w)
    PROVE  IInv'
BY RollbackIInv DEF SerializationFailure, IInv, TypeOK

LEMMA CrashIInv ==
    ASSUME IInv, NEW w \in Worker, Crash(w)
    PROVE  IInv'
<1>1. crashes' \in 0 .. MaxCrashes
  BY QueueAssumption DEF Crash, IInv, TypeOK
<1> QED
  BY <1>1, RollbackIInv DEF Crash

LEMMA StartSendIInv ==
    ASSUME IInv, NEW w \in Worker, StartSend(w)
    PROVE  IInv'
<1> USE DEF IInv
<1>1. PICK m \in todo[w] :
        /\ cur' = [cur EXCEPT ![w] = m]
        /\ todo' = [todo EXCEPT ![w] = @ \ {m}]
        /\ tx' = [tx EXCEPT ![w][m].state = "sending"]
        /\ tries' = [tries EXCEPT ![m] = IF @ < MaxRetries THEN @ + 1 ELSE @]
  BY DEF StartSend
<1>2. /\ m \in Msg /\ m \in held[w] /\ m \in todo[w]
      /\ HeldRowInv(w, m) /\ tx[w][m].state = "queued"
      /\ tx[w][m] \in Row /\ tries[m] \in 0 .. MaxRetries
  BY DEF TypeOK, PcInv, TxInv, HeldRowInv
<1>3. /\ UNCHANGED <<row, cand, stale, held, wire, accepted, form, crashes,
                     clicks, rejected>>
      /\ pc[w] = "loop"
      /\ pc' = [pc EXCEPT ![w] = "calling"]
  BY DEF StartSend
<1>4. \A n \in Msg : /\ tries'[n] \in 0 .. MaxRetries
                     /\ tries[n] <= tries'[n]
                     /\ tries[n] = MaxRetries => tries'[n] = MaxRetries
  BY <1>1, <1>2, QueueAssumption DEF TypeOK
<1>5. tx[w][m].retry < tries'[m]
  <2>1. tx[w][m].retry \in 0 .. (MaxRetries - 1)
    BY <1>2 DEF Row
  <2>2. tx[w][m].retry <= tries[m]
    BY <1>2 DEF HeldRowInv, SoundRow
  <2>3. tries'[m] = IF tries[m] < MaxRetries THEN tries[m] + 1 ELSE tries[m]
    BY <1>1, <1>2 DEF TypeOK
  <2> QED BY <1>2, <2>1, <2>2, <2>3, QueueAssumption
<1>6. TypeOK'
  <2>1. [tx[w][m] EXCEPT !.state = "sending"] \in Row
    BY <1>2 DEF Row, RowState
  <2>2. tx' \in [Worker -> [Msg -> Row]]
    BY <1>1, <1>2, <2>1 DEF TypeOK
  <2>3. tries' \in [Msg -> 0 .. MaxRetries]
    BY <1>1, <1>4 DEF TypeOK
  <2>4. todo' \in [Worker -> SUBSET Msg] /\ cur' \in [Worker -> Msg \union {NoMsg}]
    BY <1>1, <1>2 DEF TypeOK
  <2> QED BY <1>3, <2>2, <2>3, <2>4 DEF TypeOK
<1>7. \A n \in Msg, r \in Row : SoundRow(n, r) => SoundRow(n, r)'
  <2> SUFFICES ASSUME NEW n \in Msg, NEW r \in Row, SoundRow(n, r)
               PROVE  SoundRow(n, r)'
    OBVIOUS
  <2>1. r.retry \in Nat /\ tries[n] \in Nat /\ tries'[n] \in Nat
    BY <1>4 DEF Row, TypeOK
  <2> QED BY <1>3, <1>4, <2>1 DEF SoundRow
<1>8. RowInv' /\ ExistInv' /\ LockInv' /\ ClaimIsFresh'
  BY <1>3, <1>7 DEF RowInv, ExistInv, LockInv, ClaimIsFresh, Due, TypeOK
<1>9. PcInv'
  BY <1>1, <1>2, <1>3 DEF PcInv, TypeOK
<1>10. SnapshotInv'
  BY <1>3 DEF SnapshotInv, Due, TypeOK
<1>11. TxInv'
  <2> SUFFICES ASSUME NEW v \in Worker, NEW n \in held[v]
               PROVE  HeldRowInv(v, n)'
    BY <1>3 DEF TxInv
  <2>1. n \in Msg /\ HeldRowInv(v, n) /\ tx[v][n] \in Row
    BY DEF TxInv, TypeOK
  <2>2. CASE v = w /\ n = m
    <3>1. /\ tx'[v][n] = [tx[v][n] EXCEPT !.state = "sending"]
          /\ cur'[v] = n /\ n \notin todo'[v]
      BY <1>1, <1>2, <2>2 DEF TypeOK
    <3>2. SoundRow(n, tx[v][n])'
      <4>1. tx'[v][n].retry = tx[v][n].retry /\ tx'[v][n].state = "sending"
        BY <2>1, <3>1 DEF Row
      <4>2. tx'[v][n].retry <= tries'[n]
        BY <1>4, <1>5, <2>1, <2>2, <4>1 DEF Row
      <4> QED BY <4>1, <4>2 DEF SoundRow
    <3> QED BY <1>5, <2>1, <2>2, <3>1, <3>2 DEF HeldRowInv, Row
  <2>3. CASE v = w /\ n # m
    <3>1. tx'[v][n] = tx[v][n] /\ cur'[v] # n /\ cur[v] # n
          /\ (n \in todo'[v] <=> n \in todo[v])
      BY <1>1, <1>2, <1>3, <2>1, <2>3, QueueAssumption DEF TypeOK, PcInv
    <3> QED BY <1>7, <2>1, <3>1 DEF HeldRowInv
  <2>4. CASE v # w
    <3>1. tx'[v] = tx[v] /\ cur'[v] = cur[v] /\ todo'[v] = todo[v] /\ n # m
      BY <1>1, <1>2, <2>4 DEF TypeOK, LockInv
    <3>2. tries'[n] = tries[n]
      BY <1>1, <2>1, <3>1 DEF TypeOK
    <3> QED BY <1>7, <2>1, <3>1, <3>2 DEF HeldRowInv
  <2> QED BY <2>2, <2>3, <2>4
<1> QED BY <1>6, <1>8, <1>9, <1>10, <1>11

LEMMA PostIInv ==
    ASSUME IInv, NEW w \in Worker, Post(w)
    PROVE  IInv'
<1> USE DEF IInv
<1>1. cur[w] \in Msg /\ row[cur[w]].state # "none"
  BY DEF Post, PcInv, TypeOK, ClaimIsFresh, Due
<1>2. TypeOK'
  BY <1>1 DEF Post, TypeOK, hist
<1>3. RowInv' /\ LockInv' /\ ClaimIsFresh' /\ ExistInv'
  BY <1>1 DEF Post, hist, RowInv, LockInv, ClaimIsFresh, ExistInv, SoundRow, Due
<1>4. PcInv' /\ SnapshotInv'
  BY DEF Post, PcInv, SnapshotInv, TypeOK, Due
<1>5. TxInv'
  BY DEF Post, hist, TxInv, HeldRowInv, SoundRow
<1> QED BY <1>2, <1>3, <1>4, <1>5

LEMMA PartnerAcceptsIInv ==
    ASSUME IInv, NEW m \in Msg, PartnerAccepts(m)
    PROVE  IInv'
<1> USE DEF IInv
<1>1. TypeOK'
  BY DEF PartnerAccepts, TypeOK, job, hist
<1>2. RowInv' /\ LockInv' /\ ClaimIsFresh' /\ ExistInv'
  BY DEF PartnerAccepts, job, hist, RowInv, LockInv, ClaimIsFresh, ExistInv,
         SoundRow, Due
<1>3. PcInv' /\ SnapshotInv'
  BY DEF PartnerAccepts, job, PcInv, SnapshotInv, Due
<1>4. TxInv'
  BY DEF PartnerAccepts, job, hist, TxInv, HeldRowInv, SoundRow
<1> QED BY <1>1, <1>2, <1>3, <1>4

(* Any outcome of a send keeps IInv if the row it leaves is sound. *)
LEMMA SettledIInv ==
    ASSUME IInv, NEW w \in Worker, pc[w] \in {"calling", "posted"},
           NEW m \in Msg, m = cur[w],
           NEW r \in Row, Settled(w, r), SoundRow(m, r)',
           r.state \in {"queued", "sent", "dead"},
           wire' \subseteq wire, accepted' = accepted,
           rejected \subseteq rejected', rejected' \subseteq Msg
    PROVE  IInv'
<1> USE DEF IInv
<1>1. cur[w] \in Msg /\ cur[w] \in held[w] /\ cur[w] \notin todo[w]
  BY DEF PcInv, TypeOK
<1>2. TypeOK'
  BY <1>1 DEF Settled, TypeOK
<1>3. \A n \in Msg, s \in Row : SoundRow(n, s) => SoundRow(n, s)'
  BY DEF Settled, SoundRow
<1>4. RowInv' /\ LockInv' /\ ClaimIsFresh' /\ ExistInv'
  BY <1>3 DEF Settled, RowInv, LockInv, ClaimIsFresh, ExistInv, Due, TypeOK
<1>5. PcInv'
  BY DEF Settled, PcInv, TypeOK
<1>6. SnapshotInv'
  BY DEF Settled, SnapshotInv, Due, TypeOK
<1>7. TxInv'
  <2> SUFFICES ASSUME NEW v \in Worker, NEW n \in held[v]
               PROVE  HeldRowInv(v, n)'
    BY DEF TxInv, Settled
  <2>1. n \in Msg /\ HeldRowInv(v, n) /\ tx[v][n] \in Row
    BY DEF TxInv, TypeOK
  <2>2. CASE v = w /\ n = cur[w]
    <3>1. /\ tx'[v][n] = r
          /\ cur'[v] = NoMsg /\ n # NoMsg /\ n \notin todo'[v]
      BY <1>1, <2>2, QueueAssumption DEF Settled, TypeOK
    <3>2. SoundRow(n, tx[v][n])'
      <4>1. SoundRow(m, r)' /\ n = m /\ tx'[v][n] = r
        BY <2>2, <3>1
      <4> QED BY <4>1 DEF SoundRow
    <3> QED BY <3>1, <3>2 DEF HeldRowInv
  <2>3. CASE v = w /\ n # cur[w]
    <3>1. /\ tx'[v][n] = tx[v][n] /\ cur'[v] = NoMsg /\ n # NoMsg
          /\ todo' = todo
      BY <1>1, <2>1, <2>3, QueueAssumption DEF Settled, TypeOK
    <3> QED BY <1>3, <2>1, <2>3, <3>1 DEF HeldRowInv
  <2>4. CASE v # w
    <3>1. /\ tx'[v] = tx[v] /\ cur'[v] = cur[v] /\ todo' = todo
          /\ tries' = tries
      BY <2>4 DEF Settled, TypeOK
    <3> QED BY <1>3, <2>1, <3>1 DEF HeldRowInv
  <2> QED BY <2>2, <2>3, <2>4
<1> QED BY <1>2, <1>4, <1>5, <1>6, <1>7

(* What is known of the message being sent when its outcome arrives. *)
LEMMA CurrentRow ==
    ASSUME IInv, NEW w \in Worker, pc[w] \in {"calling", "posted"}
    PROVE  /\ cur[w] \in Msg
           /\ tx[w][cur[w]] \in Row
           /\ SoundRow(cur[w], tx[w][cur[w]])
           /\ tx[w][cur[w]].state = "sending"
           /\ tx[w][cur[w]].retry < tries[cur[w]]
<1>1. cur[w] \in Msg /\ cur[w] \in held[w]
  BY DEF IInv, PcInv, TypeOK
<1> QED
  BY <1>1 DEF IInv, TypeOK, TxInv, HeldRowInv

LEMMA SendSucceedsIInv ==
    ASSUME IInv, NEW w \in Worker, SendSucceeds(w)
    PROVE  IInv'
<1>1. pc[w] \in {"calling", "posted"} /\ cur[w] \in accepted
      /\ UNCHANGED <<wire, accepted, rejected, tries>>
  BY DEF SendSucceeds, PartnerHasIt, Settled
<1>2. PICK m \in Msg : m = cur[w]
  BY <1>1, CurrentRow
<1>3. PICK r \in Row : r = tx[w][m]
  BY <1>1, <1>2, CurrentRow
<1>4. SoundRow(m, r)
  BY <1>1, <1>2, <1>3, CurrentRow
<1>5. PICK s \in Row : s = [r EXCEPT !.state = "sent"]
  BY DEF Row, RowState
<1>6. s.state = "sent" /\ s.retry = r.retry
  BY <1>5 DEF Row
<1>7. SoundRow(m, s)'
  BY <1>1, <1>2, <1>4, <1>6 DEF SoundRow
<1>8. Settled(w, s)
  BY <1>2, <1>3, <1>5 DEF SendSucceeds
<1>9. rejected' \subseteq Msg /\ rejected \subseteq rejected'
  BY <1>1 DEF IInv, TypeOK
<1> QED BY <1>1, <1>2, <1>6, <1>7, <1>8, <1>9, SettledIInv

LEMMA SendFailsIInv ==
    ASSUME IInv, NEW w \in Worker, SendFails(w)
    PROVE  IInv'
<1>1. pc[w] \in {"calling", "posted"}
      /\ UNCHANGED <<wire, accepted, rejected, tries>>
  BY DEF SendFails, Settled
<1>2. PICK m \in Msg : m = cur[w]
  BY <1>1, CurrentRow
<1>3. PICK r \in Row : r = tx[w][m]
  BY <1>1, <1>2, CurrentRow
<1>4. SoundRow(m, r) /\ r.state = "sending" /\ r.retry < tries[m]
  BY <1>1, <1>2, <1>3, CurrentRow
<1>5. PICK s \in Row : s = Fail(r)
  BY RowTypes
<1>6. SoundRow(m, s) /\ s.state \in {"queued", "dead"}
  BY <1>4, <1>5, FailIsSound
<1>7. SoundRow(m, s)'
  BY <1>1, <1>6 DEF SoundRow
<1>8. Settled(w, s)
  BY <1>2, <1>3, <1>5 DEF SendFails
<1>9. rejected' \subseteq Msg /\ rejected \subseteq rejected'
  BY <1>1 DEF IInv, TypeOK
<1> QED BY <1>1, <1>2, <1>6, <1>7, <1>8, <1>9, SettledIInv

LEMMA SendRefusedIInv ==
    ASSUME IInv, NEW w \in Worker, SendRefused(w)
    PROVE  IInv'
<1>1. pc[w] \in {"calling", "posted"} /\ cur[w] \in rejected'
      /\ wire' \subseteq wire /\ UNCHANGED <<accepted, tries>>
      /\ rejected' = rejected \union {cur[w]}
  BY DEF SendRefused, Settled
<1>2. PICK m \in Msg : m = cur[w]
  BY <1>1, CurrentRow
<1>3. PICK r \in Row : r = tx[w][m]
  BY <1>1, <1>2, CurrentRow
<1>4. SoundRow(m, r) /\ r.state = "sending" /\ r.retry < tries[m]
  BY <1>1, <1>2, <1>3, CurrentRow
<1>5. PICK s \in ValidationFail(m, r) : Settled(w, s)
  BY <1>2, <1>3 DEF SendRefused
<1>6. SoundRow(m, s)' /\ s.state \in {"queued", "dead"}
  <2>1. CASE s = Fail(r)
    <3>1. SoundRow(m, s) /\ s.state \in {"queued", "dead"}
      BY <1>4, <2>1, FailIsSound
    <3> QED BY <1>1, <3>1 DEF SoundRow
  <2>2. CASE s = DeadLetter(r)
    <3>1. s.state = "dead" /\ s.retry = r.retry
      BY <2>2 DEF DeadLetter, Row
    <3> QED BY <1>1, <1>2, <1>4, <3>1 DEF SoundRow
  <2> QED BY <1>5, <2>1, <2>2 DEF ValidationFail
<1>7. s \in Row
  BY <1>5, RowTypes
<1>8. rejected' \subseteq Msg /\ rejected \subseteq rejected'
  BY <1>1, <1>2 DEF IInv, TypeOK
<1> QED BY <1>1, <1>2, <1>5, <1>6, <1>7, <1>8, SettledIInv

LEMMA CommitIInv ==
    ASSUME IInv, NEW w \in Worker, Commit(w)
    PROVE  IInv'
<1> USE DEF IInv
<1>1. /\ row' = [m \in Msg |-> IF m \in held[w] THEN tx[w][m] ELSE row[m]]
      /\ EndTransaction(w) /\ Outdate(w, held[w])
      /\ UNCHANGED <<wire, accepted, form, crashes, clicks, tries, rejected>>
      /\ pc[w] = "loop" /\ todo[w] = {} /\ cur[w] = NoMsg
  BY DEF Commit, LoopOver, hist, PcInv
<1>2. \A m \in held[w] : /\ m \in Msg /\ tx[w][m] \in Row
                         /\ SoundRow(m, tx[w][m])
                         /\ tx[w][m].state \in {"queued", "sent", "dead"}
  BY <1>1, QueueAssumption DEF TypeOK, TxInv, HeldRowInv
<1>3. TypeOK'
  <2>1. row' \in [Msg -> Row]
    BY <1>1, <1>2 DEF TypeOK
  <2>2. [m \in Msg |-> NoRow] \in [Msg -> Row]
    BY NoRowType
  <2> QED BY <1>1, <2>1, <2>2 DEF TypeOK, EndTransaction, Outdate
<1>4. \A v \in Worker : v # w => /\ held'[v] = held[v] /\ todo'[v] = todo[v]
                                 /\ tx'[v] = tx[v] /\ cur'[v] = cur[v]
                                 /\ pc'[v] = pc[v] /\ cand'[v] = cand[v]
  BY <1>1 DEF EndTransaction, TypeOK
<1>5. /\ held'[w] = {} /\ todo'[w] = {} /\ cur'[w] = NoMsg
      /\ pc'[w] = "idle" /\ cand'[w] = {}
  BY <1>1 DEF EndTransaction, TypeOK
<1>6. RowInv'
  <2> SUFFICES ASSUME NEW m \in Msg
               PROVE  row'[m].state # "sending" /\ SoundRow(m, row[m])'
    BY DEF RowInv
  <2>1. CASE m \in held[w]
    BY <1>1, <1>2, <2>1 DEF SoundRow
  <2>2. CASE m \notin held[w]
    BY <1>1, <2>2 DEF RowInv, SoundRow
  <2> QED BY <2>1, <2>2
<1>7. PcInv' /\ LockInv'
  BY <1>4, <1>5 DEF PcInv, LockInv
<1>8. \A m \in Msg \ held[w] : Due(m) => Due(m)'
  BY <1>1 DEF Due
<1>9. SnapshotInv'
  <2> SUFFICES ASSUME NEW v \in Worker, pc'[v] = "searched",
                      NEW m \in cand'[v] \ stale'[v]
               PROVE  Due(m)'
    BY DEF SnapshotInv
  <2>1. v # w /\ pc[v] = "searched" /\ cand'[v] = cand[v]
    BY <1>4, <1>5
  <2>2. stale'[v] = stale[v] \union held[w]
    BY <1>1, <2>1 DEF Outdate
  <2>3. m \in Msg \ held[w] /\ Due(m)
    BY <2>1, <2>2 DEF SnapshotInv, TypeOK
  <2> QED BY <1>8, <2>3
<1>10. ClaimIsFresh'
  <2> SUFFICES ASSUME NEW v \in Worker, NEW m \in held'[v]
               PROVE  Due(m)'
    BY DEF ClaimIsFresh
  <2>1. v # w /\ m \in held[v] /\ m \in Msg \ held[w]
    BY <1>4, <1>5 DEF LockInv, TypeOK
  <2> QED BY <1>8, <2>1 DEF ClaimIsFresh
<1>11. TxInv'
  BY <1>1, <1>4, <1>5 DEF TxInv, HeldRowInv, SoundRow
<1>12. ExistInv'
  <2>1. \A m \in Msg : row[m].state # "none" => row'[m].state # "none"
    BY <1>1, <1>2
  <2> QED BY <1>1, <2>1 DEF ExistInv, TypeOK
<1> QED BY <1>3, <1>6, <1>7, <1>9, <1>10, <1>11, <1>12

LEMMA OpenFormIInv ==
    ASSUME IInv, NEW o \in Operator, NEW m \in Msg, OpenForm(o, m)
    PROVE  IInv'
<1> USE DEF IInv
<1>1. TypeOK'
  BY DEF OpenForm, TypeOK, job, hist
<1>2. ExistInv'
  BY DEF OpenForm, ExistInv, TypeOK
<1>3. RowInv' /\ LockInv' /\ PcInv' /\ ClaimIsFresh' /\ SnapshotInv' /\ TxInv'
  BY DEF OpenForm, job, hist, RowInv, LockInv, PcInv, ClaimIsFresh,
         SnapshotInv, TxInv, HeldRowInv, SoundRow, Due
<1> QED BY <1>1, <1>2, <1>3

LEMMA RequeueIInv ==
    ASSUME IInv, NEW o \in Operator, Requeue(o)
    PROVE  IInv'
<1> USE DEF IInv
<1>1. PICK m \in Msg : m = form[o]
  BY DEF Requeue, TypeOK
<1>2. /\ row' = [row EXCEPT ![m].state = "queued", ![m].retry = 0,
                            ![m].wait = 0]
      /\ tries' = [tries EXCEPT ![m] = 0]
      /\ rejected' = rejected \ {m}
      /\ stale' = [v \in Worker |-> IF pc[v] = "searched"
                                    THEN stale[v] \union {m} ELSE stale[v]]
      /\ form' = [form EXCEPT ![o] = NoMsg]
      /\ clicks' = clicks + 1 /\ clicks < MaxClicks
      /\ UNCHANGED <<pc, cand, held, todo, cur, tx, wire, accepted, crashes>>
      /\ \A v \in Worker : m \notin held[v]
  BY <1>1 DEF Requeue, Locked
<1>3. /\ row'[m].state = "queued" /\ row'[m].retry = 0 /\ row'[m] \in Row
      /\ \A n \in Msg \ {m} : row'[n] = row[n]
  <2>1. row[m] \in Row
    BY DEF TypeOK
  <2>2. row'[m] = [state |-> "queued", retry |-> 0, wait |-> 0]
    BY <1>2, <2>1 DEF TypeOK, Row
  <2> QED BY <1>2, <2>1, <2>2, QueueAssumption DEF TypeOK, Row, RowState
<1>4. TypeOK'
  <2>1. row' \in [Msg -> Row]
    BY <1>2, <1>3 DEF TypeOK
  <2>2. clicks' \in 0 .. MaxClicks
    BY <1>2, QueueAssumption DEF TypeOK
  <2>3. tries' \in [Msg -> 0 .. MaxRetries]
    BY <1>2, QueueAssumption DEF TypeOK
  <2> QED BY <1>2, <2>1, <2>2, <2>3 DEF TypeOK
<1>5. \A n \in Msg \ {m} : /\ tries'[n] = tries[n]
                           /\ n \in rejected' <=> n \in rejected
  BY <1>2 DEF TypeOK
<1>6. RowInv'
  <2> SUFFICES ASSUME NEW n \in Msg
               PROVE  row'[n].state # "sending" /\ SoundRow(n, row[n])'
    BY DEF RowInv
  <2>1. CASE n = m
    BY <1>2, <1>3, <2>1, QueueAssumption DEF SoundRow, TypeOK
  <2>2. CASE n # m
    BY <1>2, <1>3, <1>5, <2>2 DEF SoundRow, RowInv
  <2> QED BY <2>1, <2>2
<1>7. PcInv' /\ LockInv'
  BY <1>2 DEF PcInv, LockInv
<1>8. \A n \in Msg \ {m} : Due(n) => Due(n)'
  BY <1>3 DEF Due
<1>9. SnapshotInv'
  BY <1>2, <1>8 DEF SnapshotInv, TypeOK
<1>10. ClaimIsFresh'
  BY <1>2, <1>8 DEF ClaimIsFresh, TypeOK
<1>11. TxInv'
  <2> SUFFICES ASSUME NEW v \in Worker, NEW n \in held[v]
               PROVE  HeldRowInv(v, n)'
    BY <1>2 DEF TxInv
  <2>1. n \in Msg \ {m} /\ HeldRowInv(v, n)
    BY <1>2 DEF TxInv, TypeOK
  <2> QED BY <1>2, <1>5, <2>1 DEF HeldRowInv, SoundRow
<1>12. ExistInv'
  <2>1. \A n \in Msg : row[n].state # "none" => row'[n].state # "none"
    BY <1>3
  <2> QED BY <1>2, <2>1 DEF ExistInv, TypeOK
<1> QED BY <1>4, <1>6, <1>7, <1>9, <1>10, <1>11, <1>12

LEMMA TickIInv ==
    ASSUME IInv, Tick
    PROVE  IInv'
<1> USE DEF IInv
<1>1. /\ row' = [m \in Msg |-> Elapse(row[m])]
      /\ tx' = [w \in Worker |-> [m \in Msg |-> Elapse(tx[w][m])]]
      /\ UNCHANGED <<pc, cand, stale, held, todo, cur, wire, accepted, form,
                     crashes, clicks, tries, rejected>>
  BY DEF Tick, hist
<1>2. \A r \in Row : /\ Elapse(r) \in Row
                     /\ Elapse(r).state = r.state
                     /\ Elapse(r).retry = r.retry
                     /\ r.wait = 0 => Elapse(r).wait = 0
  BY DEF Elapse, Row
<1>3. TypeOK'
  BY <1>1, <1>2 DEF TypeOK
<1>4. \A m \in Msg, r \in Row : SoundRow(m, r) => SoundRow(m, Elapse(r))
  BY <1>2 DEF SoundRow
<1>5. \A m \in Msg : /\ row'[m].state = row[m].state
                     /\ row[m].wait = 0 => row'[m].wait = 0
  BY <1>1, <1>2 DEF TypeOK
<1>6. RowInv'
  BY <1>1, <1>4, <1>5 DEF RowInv, TypeOK, SoundRow
<1>7. PcInv' /\ LockInv'
  BY <1>1 DEF PcInv, LockInv
<1>8. \A m \in Msg : Due(m) => Due(m)'
  BY <1>5 DEF Due
<1>9. SnapshotInv' /\ ClaimIsFresh'
  BY <1>1, <1>8 DEF SnapshotInv, ClaimIsFresh, TypeOK
<1>10. TxInv'
  <2> SUFFICES ASSUME NEW v \in Worker, NEW n \in held[v]
               PROVE  HeldRowInv(v, n)'
    BY <1>1 DEF TxInv
  <2>1. n \in Msg /\ HeldRowInv(v, n) /\ tx[v][n] \in Row
    BY DEF TxInv, TypeOK
  <2>2. tx'[v][n] = Elapse(tx[v][n])
    BY <1>1, <2>1
  <2> QED BY <1>1, <1>2, <2>1, <2>2 DEF HeldRowInv, SoundRow
<1>11. ExistInv'
  BY <1>1, <1>5 DEF ExistInv, TypeOK
<1> QED BY <1>3, <1>6, <1>7, <1>9, <1>10, <1>11

LEMMA StutterIInv ==
    ASSUME IInv, UNCHANGED vars
    PROVE  IInv'
BY DEF vars, job, hist, IInv, TypeOK, RowInv, PcInv, LockInv, SnapshotInv,
       ClaimIsFresh, TxInv, HeldRowInv, ExistInv, SoundRow, Due

LEMMA NextIInv ==
    ASSUME IInv, [Next]_vars
    PROVE  IInv'
<1>1. CASE \E m \in Msg : Enqueue(m) \/ PartnerAccepts(m)
  BY <1>1, EnqueueIInv, PartnerAcceptsIInv
<1>2. ASSUME NEW w \in Worker, RunJob(w) PROVE IInv'
  BY <1>2, SearchIInv, ClaimIInv, ClaimNothingIInv, SerializationFailureIInv,
     StartSendIInv, PostIInv, SendSucceedsIInv, SendRefusedIInv,
     SendFailsIInv, CommitIInv DEF RunJob
<1>3. ASSUME NEW w \in Worker, IdleRun(w) \/ Crash(w) PROVE IInv'
  BY <1>3, CrashIInv, StutterIInv DEF IdleRun
<1>4. ASSUME NEW o \in Operator, Requeue(o) \/ \E m \in Msg : OpenForm(o, m)
      PROVE  IInv'
  BY <1>4, RequeueIInv, OpenFormIInv
<1>5. CASE Tick \/ UNCHANGED vars
  BY <1>5, TickIInv, StutterIInv
<1> QED BY <1>1, <1>2, <1>3, <1>4, <1>5 DEF Next

-----------------------------------------------------------------------------
(* The results. *)

(* IInv holds in every state, for any number of messages, workers, operators,
   attempts, deaths and clicks. *)
THEOREM QueueInvariant == Spec => []IInv
<1> QED BY InitIInv, NextIInv, PTL DEF Spec

(* Type correctness of the queue's state. *)
THEOREM TypeCorrect == Spec => []TypeOK
<1>1. IInv => TypeOK
  BY DEF IInv
<1> QED BY <1>1, QueueInvariant, PTL

(* A claimed row is still due in the committed table. *)
THEOREM ClaimsStayFresh == Spec => []ClaimIsFresh
<1>1. IInv => ClaimIsFresh
  BY DEF IInv
<1> QED BY <1>1, QueueInvariant, PTL

(* Two workers never have the same message in a send call. *)
THEOREM SendsAreExclusive == Spec => []NoConcurrentSend
<1>1. IInv => NoConcurrentSend
  <2> SUFFICES ASSUME IInv, NEW v \in Worker, NEW w \in Worker, v # w,
                      cur[v] # NoMsg, cur[v] = cur[w]
               PROVE  FALSE
    BY DEF NoConcurrentSend
  <2>1. pc[v] \in {"calling", "posted"} /\ pc[w] \in {"calling", "posted"}
    BY DEF IInv, PcInv, TypeOK
  <2>2. cur[v] \in held[v] /\ cur[v] \in held[w]
    BY <2>1 DEF IInv, PcInv
  <2> QED BY <2>2 DEF IInv, LockInv
<1> QED BY <1>1, QueueInvariant, PTL

(* A message shown as sent is one the partner has. *)
THEOREM SentMeansAccepted == Spec => []SentIsAccepted
<1>1. IInv => SentIsAccepted
  BY DEF IInv, RowInv, SoundRow, SentIsAccepted
<1> QED BY <1>1, QueueInvariant, PTL

(* A dead letter has been refused, or tried MAX_RETRIES times. *)
THEOREM DeadLettersAreEarned == Spec => []DeadIsEarned
<1>1. IInv => DeadIsEarned
  BY DEF IInv, RowInv, SoundRow, DeadIsEarned
<1> QED BY <1>1, QueueInvariant, PTL

(* No other transaction ever sees a row in state sending. *)
THEOREM SendingNeverCommitted == Spec => []SendingIsPrivate
<1>1. IInv => SendingIsPrivate
  BY DEF IInv, RowInv, SendingIsPrivate
<1> QED BY <1>1, QueueInvariant, PTL

(* The only write to a claimed row is its holder's commit. *)
THEOREM HoldersWriteAlone == Spec => HolderAloneWrites
<1> DEFINE Alone ==
        \A w \in Worker : \A m \in held[w] :
            row'[m].state # row[m].state \/ row'[m].retry # row[m].retry
                => held'[w] = {} /\ row'[m] = tx[w][m]
<1>1. ASSUME IInv, [Next]_vars PROVE Alone
  <2> SUFFICES ASSUME NEW w \in Worker, NEW m \in held[w],
                      row'[m].state # row[m].state \/ row'[m].retry # row[m].retry
               PROVE  held'[w] = {} /\ row'[m] = tx[w][m]
    OBVIOUS
  <2>1. m \in Msg /\ row[m] \in Row /\ row[m].state # "none"
    BY <1>1 DEF IInv, TypeOK, ClaimIsFresh, Due
  <2>2. row' # row
    OBVIOUS
  <2>3. ASSUME NEW n \in Msg, Enqueue(n) PROVE FALSE
    <3>1. n # m
      BY <2>1, <2>3 DEF Enqueue
    <3> QED BY <1>1, <2>1, <2>3, <3>1 DEF Enqueue, IInv, TypeOK
  <2>4. ASSUME NEW v \in Worker, Commit(v)
        PROVE  held'[w] = {} /\ row'[m] = tx[w][m]
    <3>1. v = w
      BY <1>1, <2>1, <2>4 DEF Commit, IInv, LockInv
    <3> QED BY <1>1, <2>1, <2>4, <3>1 DEF Commit, EndTransaction, IInv, TypeOK
  <2>5. ASSUME NEW o \in Operator, Requeue(o) PROVE FALSE
    <3>1. m # form[o]
      BY <2>5 DEF Requeue, Locked
    <3> QED BY <1>1, <2>1, <2>5, <3>1 DEF Requeue, IInv, TypeOK
  <2>6. ASSUME Tick PROVE FALSE
    BY <1>1, <2>1, <2>6 DEF Tick, Elapse, Row
  <2> QED
    BY <1>1, <2>2, <2>3, <2>4, <2>5, <2>6
    DEF Next, RunJob, vars, IdleRun, PartnerAccepts, Search, Claim,
        ClaimNothing, SerializationFailure, StartSend, Post, SendSucceeds,
        SendRefused, SendFails, Settled, Crash, OpenForm
<1> QED BY <1>1, QueueInvariant, PTL DEF Spec, HolderAloneWrites

-----------------------------------------------------------------------------
(* Refinement. *)


(* A step that leaves the states of the rows, the accepted documents and the
   clicks alone is a stutter of OutboundDelivery. *)
LEMMA DeliveryStutter ==
    ASSUME IInv, IInv', UNCHANGED <<accepted, clicks>>,
           \A m \in Msg : row'[m].state = row[m].state
    PROVE  UNCHANGED Delivery!vars
BY DEF Delivery!vars

LEMMA InitRefines == Init => Delivery!Init
BY DEF Init, NoRow, DeliveryStatus, Delivery!Init

LEMMA EnqueueRefines ==
    ASSUME IInv, NEW m \in Msg, Enqueue(m)
    PROVE  Delivery!Submit(m)
<1>1. row'[m].state = "queued" /\ row[m].state = "none"
      /\ \A n \in Msg \ {m} : row'[n] = row[n]
  BY DEF Enqueue, IInv, TypeOK, Row
<1> QED
  BY <1>1 DEF Enqueue, Delivery!Submit, DeliveryStatus

LEMMA AcceptRefines ==
    ASSUME IInv, NEW m \in Msg, PartnerAccepts(m)
    PROVE  Delivery!Accept(m)
<1>1. DeliveryStatus(row[m].state) # "none"
  BY DEF PartnerAccepts, IInv, ExistInv, TypeOK, Row, RowState, DeliveryStatus
<1> QED
  BY <1>1 DEF PartnerAccepts, Delivery!Accept

LEMMA RequeueRefines ==
    ASSUME IInv, NEW o \in Operator, Requeue(o)
    PROVE  \E m \in Msg : Delivery!Reopen(m)
<1>1. PICK m \in Msg : m = form[o]
  BY DEF Requeue, IInv, TypeOK
<1>2. row'[m].state = "queued" /\ \A n \in Msg \ {m} : row'[n] = row[n]
  BY <1>1 DEF Requeue, IInv, TypeOK, Row
<1>3. DeliveryStatus(row[m].state) # "none"
  BY <1>1 DEF Requeue, IInv, ExistInv, TypeOK, Row, RowState, DeliveryStatus
<1>4. Delivery!Reopen(m)
  BY <1>2, <1>3 DEF Requeue, Delivery!Reopen, DeliveryStatus
<1> QED BY <1>4

(* A commit settles the sent and the dead of its batch; what it puts back in
   the queue was pending and stays so. *)
LEMMA CommitRefines ==
    ASSUME IInv, NEW w \in Worker, Commit(w)
    PROVE  \E S, D \in SUBSET Msg : Delivery!Settle(S, D)
<1> DEFINE S == {m \in held[w] : tx[w][m].state = "sent"}
           D == {m \in held[w] : tx[w][m].state = "dead"}
<1>1. held[w] \subseteq Msg /\ todo[w] = {} /\ cur[w] = NoMsg
  BY DEF Commit, LoopOver, IInv, TypeOK, PcInv
<1>2. \A m \in held[w] : /\ row[m].state \in {"queued", "sending"}
                         /\ tx[w][m].state \in {"queued", "sent", "dead"}
                         /\ tx[w][m].state = "sent" => m \in accepted
  BY <1>1, QueueAssumption
  DEF IInv, ClaimIsFresh, Due, TxInv, HeldRowInv, SoundRow
<1>3. S \subseteq Delivery!Pending \intersect accepted
      /\ D \subseteq Delivery!Pending \ S
  BY <1>1, <1>2 DEF Delivery!Pending, DeliveryStatus
<1>4. \A m \in Msg :
        DeliveryStatus(row'[m].state) =
            IF m \in S THEN "delivered"
            ELSE IF m \in D THEN "abandoned"
            ELSE DeliveryStatus(row[m].state)
  <2> SUFFICES ASSUME NEW m \in Msg
               PROVE  DeliveryStatus(row'[m].state) =
                        IF m \in S THEN "delivered"
                        ELSE IF m \in D THEN "abandoned"
                        ELSE DeliveryStatus(row[m].state)
    OBVIOUS
  <2>1. row'[m] = IF m \in held[w] THEN tx[w][m] ELSE row[m]
    BY DEF Commit
  <2> QED BY <1>2, <2>1 DEF DeliveryStatus
<1>5. S \in SUBSET Msg /\ D \in SUBSET Msg
  BY <1>1
<1>6. Delivery!Settle(S, D)
  BY <1>3, <1>4 DEF Commit, Delivery!Settle
<1> QED BY <1>5, <1>6

LEMMA NextRefines ==
    ASSUME IInv, IInv', [Next]_vars
    PROVE  [Delivery!Next]_(Delivery!vars)
<1>1. ASSUME NEW m \in Msg, Enqueue(m) \/ PartnerAccepts(m)
      PROVE  Delivery!Next
  BY <1>1, EnqueueRefines, AcceptRefines DEF Delivery!Next
<1>2. ASSUME NEW w \in Worker, Commit(w) PROVE Delivery!Next
  BY <1>2, CommitRefines DEF Delivery!Next
<1>3. ASSUME NEW o \in Operator, Requeue(o) PROVE Delivery!Next
  BY <1>3, RequeueRefines DEF Delivery!Next
<1>4. ASSUME Tick PROVE UNCHANGED Delivery!vars
  <2>1. \A m \in Msg : row'[m].state = row[m].state
    BY <1>4 DEF Tick, Elapse, IInv, TypeOK, Row
  <2> QED BY <1>4, <2>1, DeliveryStutter DEF Tick
<1>5. ASSUME UNCHANGED <<row, accepted, clicks>>
      PROVE  UNCHANGED Delivery!vars
  BY <1>5 DEF Delivery!vars
<1> QED
  BY <1>1, <1>2, <1>3, <1>4, <1>5
  DEF Next, RunJob, vars, IdleRun, Search, Claim, ClaimNothing,
      SerializationFailure, StartSend, Post, SendSucceeds, SendRefused,
      SendFails, Settled, Crash, OpenForm

(* The queue implements OutboundDelivery. *)
THEOREM QueueRefinesDelivery == Spec => DeliverySpec
<1> QED
  BY InitRefines, NextRefines, QueueInvariant, PTL
  DEF Spec, DeliverySpec, Delivery!Spec

=============================================================================
