----------------------------- MODULE TrackingCron -----------------------------
(***************************************************************************)
(* A run of the tracking cron as one transaction: it finds the pickings to *)
(* poll, asks the partner about each, which takes time, and is committed   *)
(* as a whole or not at all, while others write the pickings.  What fails  *)
(* is told by mail, at most once in a while: _send_cron_alert keeps the    *)
(* time of the last alert in ir.config_parameter, within the run's own     *)
(* transaction, while a mail that was handed over stays handed over.       *)
(*                                                                         *)
(* ir.cron does not start a job that is running.  Under REPEATABLE READ    *)
(* the run cannot commit when a picking it writes was written after its    *)
(* snapshot.                                                               *)
(***************************************************************************)
EXTENDS Integers, Sequences

CONSTANTS
    Picking,
    Connoted,       \* pickings with an x_mf_connote
    Referenced,     \* those with an x_mf_outbound_ref and no connote
    Status,         \* the statuses that occur
    Trackable,      \* _TRACKABLE_STATUSES
    TerminalStatuses,   \* _TERMINAL_STATUSES
    Sent,           \* mf_sent
    Cooldown,       \* _ALERT_COOLDOWN_SECONDS, in ticks
    MaxClock, MaxRuns,
    MaxWrites       \* bound: what others write to the pickings

ASSUME TrackingAssumption ==
    /\ Connoted \subseteq Picking /\ Referenced \subseteq Picking \ Connoted
    /\ Trackable \subseteq Status /\ TerminalStatuses \subseteq Status \ Trackable
    /\ Sent \in Trackable
    /\ Cooldown \in Nat \ {0}
    /\ MaxClock \in Nat /\ MaxRuns \in Nat /\ MaxWrites \in Nat

Time == 0 .. MaxClock
Alert == [at : Time, run : 1 .. MaxRuns, returned : BOOLEAN]

VARIABLES
    status,     \* status[p]: the committed x_mf_status
    clock,
    address,    \* whether mml.cron_alert_email is set
    stamp,      \* mml_3pl.last_alert: {t}, or {} when missing or malformed
    run,        \* {} or the run's transaction
    runs,       \* how many have started
    lost,       \* the runs that were rolled back
    alerts,     \* the mails tried; returned: send() did not raise
    failures,   \* when something failed that an alert is due for
    writes

vars == <<status, clock, address, stamp, run, runs, lost, alerts, failures, writes>>

Run == [seen : [Picking -> Status],         \* the snapshot
        referenced : SUBSET Referenced,     \* phase 0 has still to try
        found : SUBSET Connoted,            \* phase 1 has still to poll
        wrote : [Picking -> SUBSET Status], \* {s}: the status it has written
        stamp : SUBSET Time,
        outdated : SUBSET Picking]          \* written by others since

(* Types; a run has one transaction. *)
TypeOK ==
    /\ status \in [Picking -> Status]
    /\ clock \in Time /\ runs \in 0 .. MaxRuns /\ writes \in 0 .. MaxWrites
    /\ address \in BOOLEAN
    /\ stamp \subseteq Time
    /\ alerts \in Seq(Alert) /\ failures \subseteq Time /\ lost \subseteq 1 .. runs
    /\ \A r \in run : r \in Run /\ run = {r}

Init ==
    /\ status \in [Picking -> Trackable]
    /\ address \in BOOLEAN
    /\ clock = 0 /\ runs = 0 /\ writes = 0
    /\ stamp = {} /\ run = {} /\ lost = {} /\ failures = {}
    /\ alerts = <<>>

-----------------------------------------------------------------------------
(* _run_mf_tracking: the two searches see the same snapshot, since phase 0
   writes nothing. *)

Phase0Targets == {p \in Referenced : status[p] = Sent}

BugTargets == Connoted      \* seeded fault: the status is not looked at
Targets == {p \in Connoted : status[p] \in Trackable}

StartRun ==
    /\ run = {} /\ runs < MaxRuns
    /\ runs' = runs + 1
    /\ run' = {[seen |-> status, referenced |-> Phase0Targets, found |-> Targets,
                wrote |-> [p \in Picking |-> {}], stamp |-> stamp, outdated |-> {}]}
    /\ UNCHANGED <<status, clock, address, stamp, lost, alerts, failures, writes>>

-----------------------------------------------------------------------------
(* _send_cron_alert *)

BugCommittedStamp(r) == stamp   \* seeded fault: the run's own alerts do not count
LastAlert(r) == r.stamp

BugSuppressed(r) == \E t \in LastAlert(r) : clock - t <= Cooldown   \* seeded fault
Suppressed(r) == \E t \in LastAlert(r) : clock - t < Cooldown

(* The time is recorded after send(), and not when that raised. *)
BugStampsFirst(r, returned) == {clock}      \* seeded fault
StampAfter(r, returned) == IF returned THEN {clock} ELSE r.stamp

(* The run goes on as r, with the alert for what has just failed. *)
SendAlert(r) ==
    IF ~address THEN run' = {r} /\ UNCHANGED <<alerts, failures>>
    ELSE /\ failures' = failures \union {clock}
         /\ IF Suppressed(r) THEN run' = {r} /\ UNCHANGED alerts
            ELSE \E returned \in BOOLEAN :
                /\ alerts' = Append(alerts, [at |-> clock, run |-> runs,
                                             returned |-> returned])
                /\ run' = {[r EXCEPT !.stamp = StampAfter(r, returned)]}

-----------------------------------------------------------------------------
(* Phase 0 calls a method that no transport has, for every picking it finds; one
   whose warehouse has no connector is passed over. *)
Phase0(p) ==
    \E r \in run :
        /\ p \in r.referenced
        /\ LET rest == [r EXCEPT !.referenced = @ \ {p}] IN
           \/ SendAlert(rest)
           \/ run' = {rest} /\ UNCHANGED <<alerts, failures>>
        /\ UNCHANGED <<status, clock, address, stamp, runs, lost, writes>>

(* What _build_phase1_write_vals makes of the partner's answer s: statuses the
   addon does not know are left out. *)
StatusWritten(r, p, s) ==
    IF s \in Trackable \union TerminalStatuses /\ r.seen[p] \notin TerminalStatuses
    THEN {s} ELSE {}

Polled(r, p, written) == [r EXCEPT !.found = @ \ {p}, !.wrote[p] = written]

(* _poll_and_update: no connector or no answer, an answer that is written, or
   an exception, which may come after the write has set the status. *)
Poll(p) ==
    \E r \in run :
        /\ r.referenced = {} /\ p \in r.found
        /\ \/ \E s \in Status : run' = {Polled(r, p, StatusWritten(r, p, s))}
              /\ UNCHANGED <<alerts, failures>>
           \/ \E written \in {{}} \union {StatusWritten(r, p, s) : s \in Status} :
                SendAlert(Polled(r, p, written))
        /\ UNCHANGED <<status, clock, address, stamp, runs, lost, writes>>

Done(r) == r.referenced = {} /\ r.found = {}

CommitRun ==
    \E r \in run :
        /\ Done(r)
        /\ \A p \in r.outdated : r.wrote[p] = {}
        /\ status' = [p \in Picking |->
                        IF r.wrote[p] = {} THEN status[p]
                        ELSE CHOOSE s \in r.wrote[p] : TRUE]
        /\ stamp' = r.stamp
        /\ run' = {}
        /\ UNCHANGED <<clock, address, runs, lost, alerts, failures, writes>>

(* A picking was written meanwhile, or the process dies. *)
RollBackRun ==
    /\ run # {}
    /\ run' = {}
    /\ lost' = lost \union {runs}
    /\ UNCHANGED <<status, clock, address, stamp, runs, alerts, failures, writes>>

-----------------------------------------------------------------------------
(* Users and the inbound cron write a picking's status. *)
OthersWrite(p, s) ==
    /\ writes < MaxWrites /\ s # status[p]
    /\ writes' = writes + 1
    /\ status' = [status EXCEPT ![p] = s]
    /\ run' = {[r EXCEPT !.outdated = @ \union {p}] : r \in run}
    /\ UNCHANGED <<clock, address, stamp, runs, lost, alerts, failures>>

Tick ==
    /\ clock < MaxClock
    /\ clock' = clock + 1
    /\ UNCHANGED <<status, address, stamp, run, runs, lost, alerts, failures, writes>>

Next ==
    \/ StartRun \/ CommitRun \/ RollBackRun \/ Tick
    \/ \E p \in Picking :
        \/ Phase0(p) \/ Poll(p)
        \/ \E s \in Status : OthersWrite(p, s)

Spec == Init /\ [][Next]_vars

-----------------------------------------------------------------------------
(* The inductive invariant *)

(* The run under way is not rolled back yet, and no mail is from the future. *)
HistoryInv ==
    /\ run # {} => runs > 0 /\ runs \notin lost
    /\ \A i \in DOMAIN alerts : alerts[i].at <= clock /\ alerts[i].run <= runs

(* The runs whose stamp is not in the committed table. *)
Uncommitted == IF run = {} THEN lost ELSE lost \union {runs}

(* A set of stamps is the time of a mail that went out in a run not in gone,
   and as late as any of those. *)
Stamps(stamps, mails, gone) ==
    /\ \A t \in stamps : \E i \in DOMAIN mails :
        mails[i].at = t /\ mails[i].returned /\ mails[i].run \notin gone
    /\ \A i \in DOMAIN mails :
        mails[i].returned /\ mails[i].run \notin gone
            => \E t \in stamps : mails[i].at <= t

StampInv ==
    /\ Stamps(stamp, alerts, Uncommitted)
    /\ \A r \in run : Stamps(r.stamp, alerts, lost)

(* What the run has read is so still unless others wrote it, and it writes only
   what was in flight when it was read. *)
SnapshotInv ==
    \A r \in run :
        /\ \A p \in Picking \ r.outdated : status[p] = r.seen[p]
        /\ \A p \in Picking :
            p \in r.found \/ r.wrote[p] # {} => r.seen[p] \in Trackable

-----------------------------------------------------------------------------
(* Properties *)

(* Two mails within the cooldown only when the run of the first was rolled
   back, and the stamp with it (tracking_cron.py:23, 213). *)
AlertsAreSpaced ==
    \A j \in DOMAIN alerts : \A i \in 1 .. j - 1 :
        alerts[i].returned /\ alerts[j].at - alerts[i].at < Cooldown
            => alerts[i].run \in lost

(* The throttle swallows no failure: a mail about it, or one not older than the
   cooldown, has gone out, or the mail about it raised (tracking_cron.py:222-250). *)
FailuresAreAnnounced ==
    \A t \in failures : \E i \in DOMAIN alerts :
        IF alerts[i].returned THEN alerts[i].at \in t - Cooldown + 1 .. t
        ELSE alerts[i].at = t

(* The above, with the types: what the proofs are by induction on. *)
IInv ==
    /\ TypeOK /\ HistoryInv /\ StampInv /\ SnapshotInv
    /\ AlertsAreSpaced /\ FailuresAreAnnounced

(* A run writes the status only of a picking that is in flight and that nobody
   has written since the cron read it: a picking delivered, excepted or resolved
   during the slow poll stays so (tracking_cron.py:190-193, 272-278). *)
TerminalIsLeftAlone ==
    [][\A r \in run : run' = {} =>
        \A p \in Picking : status'[p] # status[p] =>
            status[p] \in Trackable /\ p \notin r.outdated]_vars
===============================================================================
