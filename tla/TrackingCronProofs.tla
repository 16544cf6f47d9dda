--------------------------- MODULE TrackingCronProofs ---------------------------
(***************************************************************************)
(* Proofs about TrackingCron: the throttle of the alerts and the run's     *)
(* transaction.                                                            *)
(***************************************************************************)
EXTENDS TrackingCron, TLAPS

(* Handing a mail over leaves the earlier ones where they are. *)
LEMMA AppendAlert ==
    ASSUME alerts \in Seq(Alert), NEW a \in Alert, alerts' = Append(alerts, a)
    PROVE  /\ alerts' \in Seq(Alert)
           /\ \E n \in Nat :
                /\ DOMAIN alerts = 1 .. n /\ DOMAIN alerts' = 1 .. (n + 1)
                /\ \A i \in 1 .. n : alerts'[i] = alerts[i]
                /\ alerts'[n + 1] = a
<1>1. Len(alerts) \in Nat /\ DOMAIN alerts = 1 .. Len(alerts)
  OBVIOUS
<1>2. /\ alerts' \in Seq(Alert) /\ Len(alerts') = Len(alerts) + 1
      /\ DOMAIN alerts' = 1 .. Len(alerts')
      /\ \A i \in 1 .. Len(alerts) : alerts'[i] = alerts[i]
      /\ alerts'[Len(alerts) + 1] = a
  OBVIOUS
<1> QED
  BY <1>1, <1>2

LEMMA AlertTypes ==
    ASSUME alerts \in Seq(Alert)
    PROVE  \A i \in DOMAIN alerts :
                /\ alerts[i] \in Alert /\ alerts[i].at \in Int
                /\ alerts[i].run \in Nat /\ alerts[i].returned \in BOOLEAN
<1> SUFFICES ASSUME NEW i \in DOMAIN alerts
             PROVE  alerts[i] \in Alert
  BY TrackingAssumption DEF Alert, Time
<1> QED
  OBVIOUS

(* A mail that is not to be counted, or not later than a stamp, changes nothing
   for the stamps; a later one is the only stamp needed. *)
LEMMA StampsAppend ==
    ASSUME NEW mails \in Seq(Alert), NEW a \in Alert, NEW stamps, NEW gone,
           Stamps(stamps, mails, gone), ~a.returned \/ a.run \in gone
    PROVE  Stamps(stamps, Append(mails, a), gone)
<1>1. PICK n \in Nat : n = Len(mails) /\ DOMAIN mails = 1 .. n
  OBVIOUS
<1>2. /\ DOMAIN Append(mails, a) = 1 .. (n + 1)
      /\ \A i \in 1 .. n : Append(mails, a)[i] = mails[i]
      /\ Append(mails, a)[n + 1] = a
  BY <1>1
<1> QED
  BY <1>1, <1>2 DEF Stamps

LEMMA StampsRenewed ==
    ASSUME NEW mails \in Seq(Alert), NEW a \in Alert, NEW gone,
           a.returned, a.run \notin gone,
           \A i \in DOMAIN mails : mails[i].at <= a.at
    PROVE  Stamps({a.at}, Append(mails, a), gone)
<1>1. PICK n \in Nat : n = Len(mails) /\ DOMAIN mails = 1 .. n
  OBVIOUS
<1>2. /\ DOMAIN Append(mails, a) = 1 .. (n + 1)
      /\ \A i \in 1 .. n : Append(mails, a)[i] = mails[i]
      /\ Append(mails, a)[n + 1] = a
  BY <1>1
<1>3. a.at \in Int
  BY TrackingAssumption DEF Alert, Time
<1> QED
  BY <1>1, <1>2, <1>3 DEF Stamps

LEMMA InitIInv == Init => IInv
<1> SUFFICES ASSUME Init PROVE IInv
  OBVIOUS
<1>1. TypeOK
  BY TrackingAssumption DEF Init, TypeOK, Time
<1>2. DOMAIN alerts = {}
  BY DEF Init
<1>3. HistoryInv /\ StampInv /\ SnapshotInv
  BY <1>2 DEF Init, HistoryInv, StampInv, Stamps, SnapshotInv
<1>4. AlertsAreSpaced /\ FailuresAreAnnounced
  BY <1>2 DEF Init, AlertsAreSpaced, FailuresAreAnnounced
<1> QED
  BY <1>1, <1>3, <1>4 DEF IInv

-----------------------------------------------------------------------------
(* Steps that hand over no mail *)

(* Without a mail, the history stays as good as it was when no run is taken for
   committed and the clock does not go back. *)
LEMMA QuietStep ==
    ASSUME IInv, TypeOK', UNCHANGED <<alerts, failures>>,
           clock <= clock', runs <= runs', lost \subseteq lost'
    PROVE  /\ \A i \in DOMAIN alerts' : alerts'[i].at <= clock' /\ alerts'[i].run <= runs'
           /\ AlertsAreSpaced' /\ FailuresAreAnnounced'
<1>1. clock \in Int /\ clock' \in Int /\ runs \in Nat /\ runs' \in Nat
  BY TrackingAssumption DEF IInv, TypeOK, Time
<1>2. \A i \in DOMAIN alerts : alerts[i].at \in Int /\ alerts[i].run \in Nat
  BY AlertTypes DEF IInv, TypeOK
<1>3. \A i \in DOMAIN alerts' : alerts'[i].at <= clock' /\ alerts'[i].run <= runs'
  BY <1>1, <1>2 DEF IInv, HistoryInv
<1>4. AlertsAreSpaced'
  BY DEF IInv, AlertsAreSpaced
<1>5. FailuresAreAnnounced'
  BY DEF IInv, FailuresAreAnnounced
<1> QED
  BY <1>3, <1>4, <1>5

LEMMA StartRunIInv ==
    ASSUME IInv, StartRun
    PROVE  IInv'
<1> DEFINE r == [seen |-> status, referenced |-> Phase0Targets, found |-> Targets,
                 wrote |-> [p \in Picking |-> {}], stamp |-> stamp, outdated |-> {}]
<1> USE DEF IInv
<1>1. /\ run = {} /\ run' = {r} /\ runs' = runs + 1 /\ runs < MaxRuns
      /\ UNCHANGED <<status, clock, address, stamp, lost, alerts, failures, writes>>
  BY DEF StartRun
<1>2. runs \in Nat /\ MaxRuns \in Nat
  BY TrackingAssumption DEF TypeOK
<1>3. r \in Run
  BY DEF Run, TypeOK, Phase0Targets, Targets
<1>4. /\ r.seen = status /\ r.found = Targets /\ r.outdated = {} /\ r.stamp = stamp
      /\ r.wrote = [p \in Picking |-> {}]
  OBVIOUS
<1> HIDE DEF r
<1>5. TypeOK'
  BY <1>1, <1>2, <1>3 DEF TypeOK
<1>6. runs' > 0 /\ runs' \notin lost'
  BY <1>1, <1>2 DEF TypeOK
<1>7. /\ AlertsAreSpaced' /\ FailuresAreAnnounced'
      /\ \A i \in DOMAIN alerts' : alerts'[i].at <= clock' /\ alerts'[i].run <= runs'
  BY <1>1, <1>2, <1>5, QuietStep, TrackingAssumption DEF TypeOK, Time
<1>8. HistoryInv'
  BY <1>6, <1>7 DEF HistoryInv
<1>9. \A i \in DOMAIN alerts : alerts[i].run # runs'
  BY <1>1, <1>2, AlertTypes DEF HistoryInv, TypeOK
<1>10. StampInv'
  <2>1. Uncommitted = lost /\ Uncommitted' = lost \union {runs'}
    BY <1>1 DEF Uncommitted
  <2>2. Stamps(stamp, alerts, lost)
    BY <2>1 DEF StampInv
  <2>3. Stamps(stamp, alerts, lost)' /\ Stamps(stamp, alerts, Uncommitted)'
    BY <1>1, <1>9, <2>1, <2>2 DEF Stamps
  <2> QED
    BY <1>1, <1>4, <2>3 DEF StampInv
<1>11. SnapshotInv'
  BY <1>1, <1>4, TrackingAssumption DEF SnapshotInv, Targets
<1> QED
  BY <1>5, <1>7, <1>8, <1>10, <1>11

LEMMA CommitRunIInv ==
    ASSUME IInv, CommitRun
    PROVE  IInv'
<1> USE DEF IInv
<1>1. PICK r \in run :
        /\ status' = [p \in Picking |->
                        IF r.wrote[p] = {} THEN status[p]
                        ELSE CHOOSE s \in r.wrote[p] : TRUE]
        /\ stamp' = r.stamp /\ run' = {}
        /\ UNCHANGED <<clock, address, runs, lost, alerts, failures, writes>>
  BY DEF CommitRun
<1>2. r \in Run
  BY DEF TypeOK
<1>3. TypeOK'
  <2>1. \A p \in Picking : status'[p] \in Status
    <3> SUFFICES ASSUME NEW p \in Picking PROVE status'[p] \in Status
      OBVIOUS
    <3>1. r.wrote[p] \subseteq Status /\ status[p] \in Status
      BY <1>2 DEF Run, TypeOK
    <3>2. CASE r.wrote[p] = {}
      BY <1>1, <3>1, <3>2
    <3>3. CASE r.wrote[p] # {}
      <4>1. (CHOOSE s \in r.wrote[p] : TRUE) \in r.wrote[p]
        BY <3>3
      <4> QED
        BY <1>1, <3>1, <3>3, <4>1
    <3> QED BY <3>2, <3>3
  <2>2. status' \in [Picking -> Status]
    BY <1>1, <2>1
  <2>3. stamp' \subseteq Time
    BY <1>1, <1>2 DEF Run
  <2> QED
    BY <1>1, <2>2, <2>3 DEF TypeOK
<1>4. /\ AlertsAreSpaced' /\ FailuresAreAnnounced'
      /\ \A i \in DOMAIN alerts' : alerts'[i].at <= clock' /\ alerts'[i].run <= runs'
  BY <1>1, <1>3, QuietStep, TrackingAssumption DEF TypeOK, Time
<1>5. HistoryInv' /\ SnapshotInv'
  BY <1>1, <1>4 DEF HistoryInv, SnapshotInv
<1>6. StampInv'
  <2>1. Uncommitted' = lost /\ Stamps(r.stamp, alerts, lost)
    BY <1>1 DEF Uncommitted, StampInv
  <2>2. Stamps(stamp, alerts, Uncommitted)'
    BY <1>1, <2>1 DEF Stamps
  <2> QED
    BY <1>1, <2>2 DEF StampInv
<1> QED
  BY <1>3, <1>4, <1>5, <1>6

(* The stamp in the committed table is of an earlier run, and stays. *)
LEMMA RollBackRunIInv ==
    ASSUME IInv, RollBackRun
    PROVE  IInv'
<1> USE DEF IInv
<1>1. /\ run # {} /\ run' = {} /\ lost' = lost \union {runs}
      /\ UNCHANGED <<status, clock, address, stamp, runs, alerts, failures, writes>>
  BY DEF RollBackRun
<1>2. runs \in 1 .. runs
  BY <1>1, TrackingAssumption DEF TypeOK, HistoryInv
<1>3. TypeOK'
  BY <1>1, <1>2 DEF TypeOK
<1>4. /\ AlertsAreSpaced' /\ FailuresAreAnnounced'
      /\ \A i \in DOMAIN alerts' : alerts'[i].at <= clock' /\ alerts'[i].run <= runs'
  BY <1>1, <1>3, QuietStep, TrackingAssumption DEF TypeOK, Time
<1>5. HistoryInv' /\ SnapshotInv'
  BY <1>1, <1>4 DEF HistoryInv, SnapshotInv
<1>6. StampInv'
  <2>1. Uncommitted' = lost' /\ Uncommitted = lost'
    BY <1>1 DEF Uncommitted
  <2>2. Stamps(stamp, alerts, Uncommitted)'
    BY <1>1, <2>1 DEF Stamps, StampInv
  <2> QED
    BY <1>1, <2>2 DEF StampInv
<1> QED
  BY <1>3, <1>4, <1>5, <1>6

LEMMA OthersWriteIInv ==
    ASSUME IInv, NEW p \in Picking, NEW s \in Status, OthersWrite(p, s)
    PROVE  IInv'
<1> USE DEF IInv
<1>1. /\ writes < MaxWrites /\ writes' = writes + 1
      /\ status' = [status EXCEPT ![p] = s]
      /\ run' = {[r EXCEPT !.outdated = @ \union {p}] : r \in run}
      /\ UNCHANGED <<clock, address, stamp, runs, lost, alerts, failures>>
  BY DEF OthersWrite
<1>2. ASSUME NEW v \in run'
      PROVE  /\ v \in Run /\ run' = {v}
             /\ \E r \in run : /\ v.outdated = r.outdated \union {p}
                               /\ v.seen = r.seen /\ v.found = r.found
                               /\ v.wrote = r.wrote /\ v.stamp = r.stamp
  <2>1. PICK r \in run : v = [r EXCEPT !.outdated = @ \union {p}]
    BY <1>1, <1>2
  <2>2. r \in Run /\ run = {r}
    BY DEF TypeOK
  <2>3. v \in Run /\ run' = {v}
    BY <1>1, <2>1, <2>2 DEF Run
  <2>4. /\ v.outdated = r.outdated \union {p}
        /\ v.seen = r.seen /\ v.found = r.found
        /\ v.wrote = r.wrote /\ v.stamp = r.stamp
    BY <2>1, <2>2 DEF Run
  <2> QED
    BY <2>3, <2>4
<1>3. run' = {} <=> run = {}
  BY <1>1
<1>4. TypeOK'
  <2>1. writes' \in 0 .. MaxWrites
    BY <1>1, TrackingAssumption DEF TypeOK
  <2> QED
    BY <1>1, <1>2, <2>1 DEF TypeOK
<1>5. /\ AlertsAreSpaced' /\ FailuresAreAnnounced'
      /\ \A i \in DOMAIN alerts' : alerts'[i].at <= clock' /\ alerts'[i].run <= runs'
  BY <1>1, <1>4, QuietStep, TrackingAssumption DEF TypeOK, Time
<1>6. HistoryInv'
  BY <1>1, <1>3, <1>5 DEF HistoryInv
<1>7. StampInv'
  <2>1. Uncommitted' = Uncommitted
    BY <1>1, <1>3 DEF Uncommitted
  <2>2. Stamps(stamp, alerts, Uncommitted)'
    BY <1>1, <2>1 DEF Stamps, StampInv
  <2>3. ASSUME NEW v \in run'
        PROVE  Stamps(v.stamp, alerts, lost)'
    <3>1. PICK r \in run : v.stamp = r.stamp
      BY <1>2
    <3>2. Stamps(r.stamp, alerts, lost)
      BY DEF StampInv
    <3> QED
      BY <1>1, <3>1, <3>2
  <2> QED
    BY <2>2, <2>3 DEF StampInv
<1>8. SnapshotInv'
  <2> SUFFICES ASSUME NEW v \in run', NEW q \in Picking
               PROVE  /\ q \notin v.outdated => status'[q] = v.seen[q]
                      /\ q \in v.found \/ v.wrote[q] # {} => v.seen[q] \in Trackable
    BY DEF SnapshotInv
  <2>1. q # p => status'[q] = status[q]
    BY <1>1 DEF TypeOK
  <2> QED
    BY <1>2, <2>1 DEF SnapshotInv
<1> QED
  BY <1>4, <1>5, <1>6, <1>7, <1>8

LEMMA TickIInv ==
    ASSUME IInv, Tick
    PROVE  IInv'
<1> USE DEF IInv
<1>1. /\ clock < MaxClock /\ clock' = clock + 1
      /\ UNCHANGED <<status, address, stamp, run, runs, lost, alerts, failures, writes>>
  BY DEF Tick
<1>2. TypeOK'
  BY <1>1, TrackingAssumption DEF TypeOK, Time
<1>3. /\ AlertsAreSpaced' /\ FailuresAreAnnounced'
      /\ \A i \in DOMAIN alerts' : alerts'[i].at <= clock' /\ alerts'[i].run <= runs'
  BY <1>1, <1>2, QuietStep, TrackingAssumption DEF TypeOK, Time
<1>4. HistoryInv' /\ SnapshotInv' /\ StampInv'
  BY <1>1, <1>3 DEF HistoryInv, SnapshotInv, StampInv, Stamps, Uncommitted
<1> QED
  BY <1>2, <1>3, <1>4

-----------------------------------------------------------------------------
(* Steps that may hand over a mail *)

(* The run goes on as r after a failure. *)
LEMMA SendAlertIInv ==
    ASSUME IInv, NEW r0 \in run, NEW r \in Run, SendAlert(r),
           r.stamp = r0.stamp, r.seen = r0.seen, r.outdated = r0.outdated,
           \A p \in Picking :
                p \in r.found \/ r.wrote[p] # {} => r.seen[p] \in Trackable,
           UNCHANGED <<status, clock, address, stamp, runs, lost, writes>>
    PROVE  IInv'
<1> USE DEF IInv
<1>1. clock \in Time /\ clock \in Int /\ runs \in 1 .. MaxRuns /\ Cooldown \in Nat \ {0}
  BY TrackingAssumption DEF TypeOK, Time, HistoryInv
<1>2. Stamps(stamp, alerts, lost \union {runs}) /\ Stamps(r.stamp, alerts, lost) /\ runs \notin lost
  BY DEF StampInv, HistoryInv, Uncommitted
<1>3. r.stamp \subseteq Time
  BY DEF Run
<1>4. CASE run' = {r} /\ UNCHANGED alerts
           /\ \/ UNCHANGED failures
              \/ failures' = failures \union {clock} /\ Suppressed(r)
  <2>1. TypeOK'
    BY <1>1, <1>4 DEF TypeOK
  <2>2. HistoryInv' /\ AlertsAreSpaced'
    BY <1>4 DEF HistoryInv, AlertsAreSpaced
  <2>3. StampInv'
    BY <1>2, <1>4 DEF StampInv, Uncommitted
  <2>4. SnapshotInv'
    BY <1>4 DEF SnapshotInv
  <2>5. FailuresAreAnnounced'
    <3>1. ASSUME Suppressed(r)
          PROVE  \E i \in DOMAIN alerts :
                    alerts[i].returned /\ alerts[i].at \in clock - Cooldown + 1 .. clock
      <4>1. PICK t \in r.stamp : clock - t < Cooldown
        BY <3>1 DEF Suppressed, LastAlert
      <4>2. PICK i \in DOMAIN alerts : alerts[i].at = t /\ alerts[i].returned
        BY <1>2 DEF Stamps
      <4>3. t \in Int /\ t <= clock
        BY <1>3, <4>2, TrackingAssumption DEF Time, HistoryInv
      <4> QED
        BY <1>1, <4>1, <4>2, <4>3
    <3> QED
      BY <1>4, <3>1 DEF FailuresAreAnnounced
  <2> QED
    BY <2>1, <2>2, <2>3, <2>4, <2>5
<1>5. CASE /\ failures' = failures \union {clock} /\ ~Suppressed(r)
           /\ \E returned \in BOOLEAN :
                /\ alerts' = Append(alerts, [at |-> clock, run |-> runs,
                                             returned |-> returned])
                /\ run' = {[r EXCEPT !.stamp = StampAfter(r, returned)]}
  <2>1. PICK returned \in BOOLEAN :
                /\ alerts' = Append(alerts, [at |-> clock, run |-> runs,
                                             returned |-> returned])
                /\ run' = {[r EXCEPT !.stamp = StampAfter(r, returned)]}
    BY <1>5
  <2>a. PICK a : a = [at |-> clock, run |-> runs, returned |-> returned]
    OBVIOUS
  <2>v. PICK v : v = [r EXCEPT !.stamp = StampAfter(r, returned)]
    OBVIOUS
  <2>2. a \in Alert /\ a.at = clock /\ a.run = runs /\ a.returned = returned
    BY <1>1, <2>a DEF Alert
  <2>3. StampAfter(r, returned) \subseteq Time
    BY <1>1, <1>3 DEF StampAfter
  <2>4. /\ v \in Run /\ v.stamp = StampAfter(r, returned)
        /\ v.seen = r.seen /\ v.found = r.found
        /\ v.wrote = r.wrote /\ v.outdated = r.outdated
    BY <2>3, <2>v DEF Run
  <2>5. alerts' = Append(alerts, a) /\ run' = {v}
    BY <2>1, <2>a, <2>v
  <2>6. PICK n \in Nat :
            /\ DOMAIN alerts = 1 .. n /\ DOMAIN alerts' = 1 .. (n + 1)
            /\ \A i \in 1 .. n : alerts'[i] = alerts[i]
            /\ alerts'[n + 1] = a
    BY <2>2, <2>5, AppendAlert DEF TypeOK
  <2>7. alerts' \in Seq(Alert)
    BY <2>2, <2>5, AppendAlert DEF TypeOK
  <2>8. \A i \in 1 .. n : alerts[i].at \in Int /\ alerts[i].at <= clock /\ alerts[i].run <= runs
    BY <2>6, AlertTypes DEF TypeOK, HistoryInv
  <2>9. TypeOK'
    BY <1>1, <1>5, <2>4, <2>5, <2>7 DEF TypeOK
  <2>10. HistoryInv'
    BY <1>1, <2>2, <2>6, <2>8 DEF HistoryInv, TypeOK
  <2>11. SnapshotInv'
    BY <2>4, <2>5 DEF SnapshotInv
  <2>12. Stamps(stamp', alerts', lost' \union {runs'})
    BY <1>1, <1>2, <2>2, <2>5, StampsAppend DEF TypeOK
  <2>13. Stamps(v.stamp, alerts', lost)
    <3>1. CASE returned
      <4>1. v.stamp = {a.at}
        BY <2>2, <2>4, <3>1 DEF StampAfter
      <4>2. a.returned /\ a.run \notin lost /\ \A i \in DOMAIN alerts : alerts[i].at <= a.at
        BY <1>2, <2>2, <2>6, <2>8, <3>1
      <4>3. alerts \in Seq(Alert)
        BY DEF TypeOK
      <4>4. Stamps({a.at}, Append(alerts, a), lost)
        BY <2>2, <4>2, <4>3, StampsRenewed
      <4> QED
        BY <2>5, <4>1, <4>4
    <3>2. CASE ~returned
      BY <1>2, <2>2, <2>4, <2>5, <3>2, StampsAppend DEF StampAfter, TypeOK
    <3> QED BY <3>1, <3>2
  <2>14. StampInv'
    BY <2>5, <2>12, <2>13 DEF StampInv, Uncommitted
  <2>15. AlertsAreSpaced'
    <3> SUFFICES ASSUME NEW j \in 1 .. (n + 1), NEW i \in 1 .. j - 1,
                        alerts'[i].returned, alerts'[j].at - alerts'[i].at < Cooldown
                 PROVE  alerts'[i].run \in lost
      BY <2>6 DEF AlertsAreSpaced
    <3>1. i \in 1 .. n /\ alerts'[i] = alerts[i]
      BY <2>6
    <3>2. CASE j \in 1 .. n
      BY <2>6, <3>1, <3>2 DEF AlertsAreSpaced
    <3>3. CASE j = n + 1
      <4> SUFFICES ASSUME alerts[i].run \notin lost PROVE FALSE
        BY <3>1
      <4>1. PICK t \in r.stamp : alerts[i].at <= t
        BY <1>2, <2>6, <3>1 DEF Stamps
      <4>2. ~(clock - t < Cooldown) /\ t \in Int
        BY <1>3, <1>5, TrackingAssumption DEF Suppressed, LastAlert, Time
      <4> QED
        BY <1>1, <2>2, <2>6, <2>8, <3>1, <3>3, <4>1, <4>2
    <3> QED BY <3>2, <3>3
  <2>16. FailuresAreAnnounced'
    <3> SUFFICES ASSUME NEW t \in failures'
                 PROVE  \E i \in DOMAIN alerts' :
                            IF alerts'[i].returned
                            THEN alerts'[i].at \in t - Cooldown + 1 .. t
                            ELSE alerts'[i].at = t
      BY DEF FailuresAreAnnounced
    <3>1. CASE t \in failures
      BY <2>6, <3>1 DEF FailuresAreAnnounced
    <3>2. CASE t = clock
      BY <1>1, <2>2, <2>6, <3>2
    <3> QED BY <1>5, <3>1, <3>2
  <2> QED
    BY <2>9, <2>10, <2>11, <2>14, <2>15, <2>16
<1>6. \/ UNCHANGED <<alerts, failures>> /\ run' = {r}
      \/ /\ failures' = failures \union {clock}
         /\ IF Suppressed(r) THEN run' = {r} /\ UNCHANGED alerts
            ELSE \E returned \in BOOLEAN :
                /\ alerts' = Append(alerts, [at |-> clock, run |-> runs,
                                             returned |-> returned])
                /\ run' = {[r EXCEPT !.stamp = StampAfter(r, returned)]}
  BY DEF SendAlert
<1> QED
  BY <1>4, <1>5, <1>6

(* A step of the run that fails at nothing. *)
LEMMA GoesOnIInv ==
    ASSUME IInv, NEW r0 \in run, NEW r \in Run, run' = {r},
           r.stamp = r0.stamp, r.seen = r0.seen, r.outdated = r0.outdated,
           \A p \in Picking :
                p \in r.found \/ r.wrote[p] # {} => r.seen[p] \in Trackable,
           UNCHANGED <<status, clock, address, stamp, runs, lost, writes, alerts, failures>>
    PROVE  IInv'
<1>1. TypeOK'
  BY DEF IInv, TypeOK
<1>2. HistoryInv' /\ AlertsAreSpaced' /\ FailuresAreAnnounced'
  BY DEF IInv, HistoryInv, AlertsAreSpaced, FailuresAreAnnounced
<1>3. StampInv'
  BY DEF IInv, StampInv, Uncommitted
<1>4. SnapshotInv'
  BY DEF IInv, SnapshotInv
<1> QED
  BY <1>1, <1>2, <1>3, <1>4 DEF IInv

LEMMA Phase0IInv ==
    ASSUME IInv, NEW p \in Picking, Phase0(p)
    PROVE  IInv'
<1>1. PICK r \in run :
        LET rest == [r EXCEPT !.referenced = @ \ {p}] IN
        /\ \/ SendAlert(rest)
           \/ run' = {rest} /\ UNCHANGED <<alerts, failures>>
        /\ UNCHANGED <<status, clock, address, stamp, runs, lost, writes>>
  BY DEF Phase0
<1> DEFINE v == [r EXCEPT !.referenced = @ \ {p}]
<1>2. r \in Run
  BY DEF IInv, TypeOK
<1>3. /\ v \in Run /\ v.stamp = r.stamp /\ v.seen = r.seen
      /\ v.outdated = r.outdated /\ v.found = r.found /\ v.wrote = r.wrote
  BY <1>2 DEF Run
<1>4. \A q \in Picking : q \in v.found \/ v.wrote[q] # {} => v.seen[q] \in Trackable
  BY <1>3 DEF IInv, SnapshotInv
<1>5. \/ SendAlert(v)
      \/ run' = {v} /\ UNCHANGED <<alerts, failures>>
  BY <1>1
<1> HIDE DEF v
<1>6. CASE SendAlert(v)
  BY <1>1, <1>3, <1>4, <1>6, SendAlertIInv
<1>7. CASE run' = {v} /\ UNCHANGED <<alerts, failures>>
  BY <1>1, <1>3, <1>4, <1>7, GoesOnIInv
<1> QED
  BY <1>5, <1>6, <1>7

(* A picking that is polled was in flight, and only its status is written. *)
LEMMA PolledIs ==
    ASSUME IInv, NEW p \in Picking, NEW r \in run, p \in r.found,
           NEW written \in SUBSET Status
    PROVE  /\ Polled(r, p, written) \in Run
           /\ Polled(r, p, written).stamp = r.stamp
           /\ Polled(r, p, written).seen = r.seen
           /\ Polled(r, p, written).outdated = r.outdated
           /\ \A q \in Picking :
                q \in Polled(r, p, written).found \/ Polled(r, p, written).wrote[q] # {}
                    => Polled(r, p, written).seen[q] \in Trackable
<1> DEFINE v == Polled(r, p, written)
<1>1. r \in Run
  BY DEF IInv, TypeOK
<1>2. /\ v \in Run /\ v.stamp = r.stamp /\ v.seen = r.seen /\ v.outdated = r.outdated
      /\ v.found = r.found \ {p} /\ v.wrote = [r.wrote EXCEPT ![p] = written]
  BY <1>1 DEF Polled, Run
<1>3. \A q \in Picking : q \in r.found \/ r.wrote[q] # {} => r.seen[q] \in Trackable
  BY DEF IInv, SnapshotInv
<1>4. \A q \in Picking : q \in v.found \/ v.wrote[q] # {} => v.seen[q] \in Trackable
  <2>1. \A q \in Picking : q # p => v.wrote[q] = r.wrote[q]
    BY <1>1, <1>2 DEF Run
  <2> QED
    BY <1>2, <1>3, <2>1
<1> QED
  BY <1>2, <1>4

LEMMA PollIInv ==
    ASSUME IInv, NEW p \in Picking, Poll(p)
    PROVE  IInv'
<1>1. PICK r \in run :
        /\ p \in r.found
        /\ \/ \E s \in Status : run' = {Polled(r, p, StatusWritten(r, p, s))}
              /\ UNCHANGED <<alerts, failures>>
           \/ \E written \in {{}} \union {StatusWritten(r, p, s) : s \in Status} :
                SendAlert(Polled(r, p, written))
        /\ UNCHANGED <<status, clock, address, stamp, runs, lost, writes>>
  BY DEF Poll
<1>2. \A s \in Status : StatusWritten(r, p, s) \subseteq Status
  BY DEF StatusWritten
<1>3. CASE \E s \in Status : run' = {Polled(r, p, StatusWritten(r, p, s))}
              /\ UNCHANGED <<alerts, failures>>
  <2>1. PICK s \in Status : run' = {Polled(r, p, StatusWritten(r, p, s))}
              /\ UNCHANGED <<alerts, failures>>
    BY <1>3
  <2>v. PICK v : v = Polled(r, p, StatusWritten(r, p, s))
    OBVIOUS
  <2>2. /\ v \in Run /\ v.stamp = r.stamp /\ v.seen = r.seen
        /\ v.outdated = r.outdated
        /\ \A q \in Picking : q \in v.found \/ v.wrote[q] # {} => v.seen[q] \in Trackable
    BY <1>1, <1>2, <2>v, PolledIs
  <2>3. run' = {v}
    BY <2>1, <2>v
  <2> QED
    BY <1>1, <2>1, <2>2, <2>3, GoesOnIInv
<1>4. CASE \E written \in {{}} \union {StatusWritten(r, p, s) : s \in Status} :
                SendAlert(Polled(r, p, written))
  <2>1. PICK written \in SUBSET Status : SendAlert(Polled(r, p, written))
    BY <1>2, <1>4
  <2> QED
    BY <1>1, <2>1, PolledIs, SendAlertIInv
<1> QED
  BY <1>1, <1>3, <1>4

LEMMA NextIInv == IInv /\ [Next]_vars => IInv'
<1> SUFFICES ASSUME IInv, [Next]_vars PROVE IInv'
  OBVIOUS
<1>1. CASE StartRun \/ CommitRun \/ RollBackRun \/ Tick
  BY <1>1, StartRunIInv, CommitRunIInv, RollBackRunIInv, TickIInv
<1>2. ASSUME NEW p \in Picking, Phase0(p) \/ Poll(p) PROVE IInv'
  BY <1>2, Phase0IInv, PollIInv
<1>3. ASSUME NEW p \in Picking, NEW s \in Status, OthersWrite(p, s) PROVE IInv'
  BY <1>3, OthersWriteIInv
<1>4. CASE UNCHANGED vars
  BY <1>4 DEF vars, IInv, TypeOK, HistoryInv, StampInv, Stamps, Uncommitted, SnapshotInv,
              AlertsAreSpaced, FailuresAreAnnounced
<1> QED
  BY <1>1, <1>2, <1>3, <1>4 DEF Next

-----------------------------------------------------------------------------
(* Results *)

(* The inductive invariant of the run and its stamps (tracking_cron.py:179-278). *)
THEOREM TrackingInvariant == Spec => []IInv
<1> QED
  BY InitIInv, NextIInv, PTL DEF Spec

(* The variables keep their types, and there is one run at a time. *)
THEOREM TrackingTypes == Spec => []TypeOK
<1>1. IInv => TypeOK
  BY DEF IInv
<1> QED
  BY <1>1, TrackingInvariant, PTL

(* Two mails are closer than the cooldown only if the first one's run was rolled
   back, for every cooldown (tracking_cron.py:222-250). *)
THEOREM MailsAreSpaced == Spec => []AlertsAreSpaced
<1>1. IInv => AlertsAreSpaced
  BY DEF IInv
<1> QED
  BY <1>1, TrackingInvariant, PTL

(* No failure is swallowed by the throttle (tracking_cron.py:222-250). *)
THEOREM FailuresAreHeardOf == Spec => []FailuresAreAnnounced
<1>1. IInv => FailuresAreAnnounced
  BY DEF IInv
<1> QED
  BY <1>1, TrackingInvariant, PTL

(* A run's commit touches only pickings in flight that nobody wrote meanwhile
   (tracking_cron.py:190-193, 272-278). *)
THEOREM OthersWritesStay == Spec => TerminalIsLeftAlone
<1> DEFINE A == \A r \in run : run' = {} =>
                    \A p \in Picking : status'[p] # status[p] =>
                        status[p] \in Trackable /\ p \notin r.outdated
<1>1. IInv /\ [Next]_vars => [A]_vars
  <2> SUFFICES ASSUME IInv, Next, NEW r \in run, run' = {}, NEW p \in Picking,
                      status'[p] # status[p]
               PROVE  status[p] \in Trackable /\ p \notin r.outdated
    OBVIOUS
  <2>1. run = {r} /\ r \in Run
    BY DEF IInv, TypeOK
  <2>2. CommitRun
    <3>1. ASSUME StartRun \/ Tick PROVE FALSE
      BY <3>1 DEF StartRun, Tick
    <3>2. ASSUME RollBackRun PROVE FALSE
      BY <3>2 DEF RollBackRun
    <3>3. ASSUME NEW q \in Picking, Phase0(q) \/ Poll(q) PROVE FALSE
      BY <3>3 DEF Phase0, Poll
    <3>4. ASSUME NEW q \in Picking, NEW s \in Status, OthersWrite(q, s) PROVE FALSE
      BY <3>4 DEF OthersWrite
    <3> QED
      BY <3>1, <3>2, <3>3, <3>4 DEF Next
  <2>3. /\ \A q \in r.outdated : r.wrote[q] = {}
        /\ r.wrote[p] = {} => status'[p] = status[p]
    BY <2>1, <2>2 DEF CommitRun
  <2> QED
    BY <2>1, <2>3 DEF IInv, SnapshotInv
<1>2. Spec => [][A]_vars
  BY <1>1, TrackingInvariant, PTL DEF Spec
<1> QED
  BY <1>2 DEF TerminalIsLeftAlone
================================================================================
