----------------------------- MODULE KpiDashboard -----------------------------
(***************************************************************************)
(* The figures of the KPI dashboard (mf.kpi.dashboard), as functions of the *)
(* database while it is written: pickings get their statuses, inventory     *)
(* reports leave discrepancies, users settle those, and time moves the      *)
(* windows the figures are counted over.                                    *)
(*                                                                          *)
(* The dashboard reads in one transaction, so every figure is of one state. *)
(* SohDiscrepancy has the concurrency of reports and users, PickingStatus   *)
(* the ways statuses come about; here each is one step.                     *)
(***************************************************************************)
EXTENDS Tolerance, Sequences, FiniteSetsExt

CONSTANTS
    Picking, Product,
    Qty,                \* quantities that occur, in Odoo and in reports
    Deadlines,          \* {} or {t}: date_deadline of a picking
    Grace,              \* difot_grace_days
    Week, Month, Year,  \* 7, 30 and 365 days
    Weeks,              \* how many weeks the trend shows
    MaxTime,
    MaxDiscs,           \* bound: discrepancy records
    MaxActs             \* bound: what is written to the database

ASSUME KpiAssumption ==
    /\ Qty \subseteq Nat /\ Grace \in Nat
    /\ \A dates \in Deadlines : dates \subseteq Nat /\ \A d, e \in dates : d = e
    /\ {Week, Month, Year, Weeks} \subseteq Nat \ {0}
    /\ MaxTime \in Nat /\ MaxDiscs \in Nat /\ MaxActs \in Nat

Time == 0 .. MaxTime
None == "none"          \* no x_mf_status: not an order of the partner's
Status == {"mf_sent", "mf_received", "mf_delivered", "mf_exception"}

Disc == [state : {"open", "investigated", "accepted"}, product : Product,
         mf : Qty, odoo : Qty, detected : Time, accepted : Time]

VARIABLES
    now,
    picking,    \* picking[p]: the row: status, write_date, dates of delivery and deadline
    quant,      \* quant[p]: the stock of p in internal locations
    disc,       \* the discrepancy records, in the order of their creation
    drifted,    \* drifted[p]: {t} when the last report found a drift nobody has settled
    losses,     \* losses[d]: what was written off when d was accepted, and when
    acts

vars == <<now, picking, quant, disc, drifted, losses, acts>>

(* A new installation: nothing was sent to the partner yet. *)
Init ==
    /\ now = 0 /\ acts = 0
    /\ \E deadline \in [Picking -> Deadlines] :
        picking = [p \in Picking |-> [status |-> None, written |-> 0,
                                      delivered |-> {}, deadline |-> deadline[p]]]
    /\ quant \in [Product -> Qty]
    /\ disc = <<>> /\ losses = <<>>
    /\ drifted = [p \in Product |-> {}]

Act == acts < MaxActs /\ acts' = acts + 1

-----------------------------------------------------------------------------
(* What is written *)

(* Any write of a picking renews its write_date; the date of delivery comes with
   the partner's answer, or does not. *)
Write(p, s) ==
    /\ Act
    /\ \E delivered \in
            IF s = "mf_delivered" THEN {{t} : t \in 0 .. now} \union {picking[p].delivered}
            ELSE {picking[p].delivered} :
        picking' = [picking EXCEPT ![p].status = s, ![p].written = now,
                                   ![p].delivered = delivered]
    /\ UNCHANGED <<now, quant, disc, drifted, losses>>

OpenFor(p) == {d \in DOMAIN disc : disc[d].product = p /\ disc[d].state = "open"}

BugKeepsDate(p) ==          \* seeded fault: the record keeps the date it was made
    IF OpenFor(p) = {} THEN now ELSE disc[Min(OpenFor(p))].detected
DetectedAt(p) == now

(* apply_csv, for one line: the open record is renewed or one is made, or the
   stock is set.  A record stays open when a later report finds no drift. *)
Report(p, mf) ==
    LET rec == [state |-> "open", product |-> p, mf |-> mf, odoo |-> quant[p],
                detected |-> DetectedAt(p), accepted |-> 0]
    IN  /\ Act
        /\ IF Drifts(mf, quant[p])
           THEN /\ IF OpenFor(p) # {}
                   THEN disc' = [disc EXCEPT ![Min(OpenFor(p))] = rec]
                   ELSE Cardinality(DOMAIN disc) < MaxDiscs /\ disc' = Append(disc, rec)
                /\ drifted' = [drifted EXCEPT ![p] = {now}]
                /\ UNCHANGED quant
           ELSE /\ quant' = [quant EXCEPT ![p] = mf]
                /\ UNCHANGED <<disc, drifted>>
        /\ UNCHANGED <<now, picking, losses>>

Settled(d, p) == disc[d].state = "open" /\ disc[d].product = p

Investigate(d) ==
    /\ Act
    /\ disc[d].state # "accepted"
    /\ disc' = [disc EXCEPT ![d].state = "investigated"]
    /\ drifted' = [p \in Product |-> IF Settled(d, p) THEN {} ELSE drifted[p]]
    /\ UNCHANGED <<now, picking, quant, losses>>

Accept(d) ==
    /\ Act
    /\ disc[d].state # "accepted"
    /\ disc' = [disc EXCEPT ![d].state = "accepted", ![d].accepted = now]
    /\ quant' = [quant EXCEPT ![disc[d].product] = disc[d].mf]
    /\ drifted' = [p \in Product |-> IF Settled(d, p) THEN {} ELSE drifted[p]]
    /\ losses' = Append(losses, [at |-> now, units |-> disc[d].odoo - disc[d].mf])
    /\ UNCHANGED <<now, picking>>

Tick ==
    /\ now < MaxTime
    /\ now' = now + 1
    /\ UNCHANGED <<picking, quant, disc, drifted, losses, acts>>

Next ==
    \/ \E p \in Picking, s \in Status : Write(p, s)
    \/ \E p \in Product, mf \in Qty : Report(p, mf)
    \/ \E d \in DOMAIN disc : Investigate(d) \/ Accept(d)
    \/ Tick

Spec == Init /\ [][Next]_vars

-----------------------------------------------------------------------------
(* The figures.  Percentages are counted in hundredths, and rounded. *)

Percent(n, total) == (20000 * n + total) \div (2 * total)

Since(window) == now - window
HasStatus(p, s) == picking[p].status = s
WrittenSince(p, t) == picking[p].written >= t

(* _compute_difot_value: those without a deadline, and those in time of theirs. *)
DeliveredSince(t) ==
    {p \in Picking : HasStatus(p, "mf_delivered") /\ \E d \in picking[p].delivered : d >= t}

OnTime(t) ==
    {p \in DeliveredSince(t) : picking[p].deadline = {}}
    \union {p \in DeliveredSince(t) :
                \E d \in picking[p].delivered, e \in picking[p].deadline : d <= e + Grace}

Difot ==
    LET total == Cardinality(DeliveredSince(Since(Month))) IN
    IF total = 0 THEN 10000 ELSE Percent(Cardinality(OnTime(Since(Month))), total)

Tracked == {p \in Product : quant[p] > 0}

SkusWithDiscrepancy ==
    {disc[d].product : d \in
        {e \in DOMAIN disc : /\ disc[e].state = "open"
                             /\ disc[e].detected >= Since(Month)
                             /\ Exceeds(disc[e].odoo, disc[e].mf)}}

(* _compute_ira_value *)
Ira ==
    LET total == Cardinality(Tracked)
        left == total - Cardinality(SkusWithDiscrepancy)
    IN  IF total = 0 THEN 10000 ELSE Percent(IF left < 0 THEN 0 ELSE left, total)

(* _compute_exception_and_inflight *)
ExceptionRate ==
    LET total == {p \in Picking : ~HasStatus(p, None) /\ WrittenSince(p, Since(Month))}
        excepted == {p \in Picking : HasStatus(p, "mf_exception")
                                        /\ WrittenSince(p, Since(Month))}
    IN  IF total = {} THEN 0 ELSE Percent(Cardinality(excepted), Cardinality(total))

Loss(d) == disc[d].odoo - disc[d].mf

(* _compute_shrinkage_value: what was lost, before it is divided by the stock. *)
AcceptedLosses ==
    MapThenSumSet(Loss,
        {d \in DOMAIN disc : /\ disc[d].state = "accepted"
                             /\ disc[d].accepted >= Since(Year)
                             /\ disc[d].mf < disc[d].odoo})

(* get_weekly_trend: week i ends i weeks ago. *)
BugInWeek(p, i) ==          \* seeded fault: both ends belong to the week
    now - (i + 1) * Week <= picking[p].written /\ picking[p].written <= now - i * Week
InWeek(p, i) ==
    now - (i + 1) * Week <= picking[p].written /\ picking[p].written < now - i * Week

Trend(i, s) == {p \in Picking : HasStatus(p, s) /\ InWeek(p, i)}
TrendStatuses == {"mf_sent", "mf_delivered", "mf_exception"}

DataAvailable == \E p \in Picking : ~HasStatus(p, None)

-----------------------------------------------------------------------------
(* Properties *)

(* A drift found by the last report of a product that differed counts against
   the accuracy for as long as the window, until somebody settles it: the report
   compares quantities, the dashboard a rounded percentage of the record that
   was renewed (inventory_report.py:107-112, kpi_dashboard.py:215-224). *)
FlaggedCounts ==
    \A p \in Product : \A t \in drifted[p] :
        t >= Since(Month) => p \in SkusWithDiscrepancy

WrittenOff(i) == losses[i].units

(* On time are the delivered pickings that are not late. *)
OnTimeIsNotLate ==
    OnTime(Since(Month)) =
        {p \in DeliveredSince(Since(Month)) :
            \A d \in picking[p].delivered, e \in picking[p].deadline : d - e <= Grace}

(* The weeks and statuses of the trend that count p. *)
CountedIn(p) == {w \in (0 .. Weeks - 1) \X TrendStatuses : p \in Trend(w[1], w[2])}

(* A picking is in at most one week, and a recent one in none. *)
OneWeekEach ==
    \A p \in Picking :
        Cardinality(CountedIn(p)) =
            IF /\ picking[p].status \in TrendStatuses
               /\ picking[p].written \in now - Weeks * Week .. now - 1
            THEN 1 ELSE 0

(* Accepted losses are counted once and as they were accepted. *)
LossesCountOnce ==
    AcceptedLosses =
        MapThenSumSet(WrittenOff,
            {i \in DOMAIN losses : losses[i].units > 0 /\ now - losses[i].at <= Year})

(* The shares stay between nothing and all, and without data nothing is wrong. *)
Shares ==
    /\ {Difot, Ira, ExceptionRate} \subseteq 0 .. 10000
    /\ ~DataAvailable => Difot = 10000 /\ ExceptionRate = 0

(* The figures agree with what they are said to count (kpi_dashboard.py:131-290). *)
CountsAgree == OnTimeIsNotLate /\ OneWeekEach /\ LossesCountOnce /\ Shares

-----------------------------------------------------------------------------
(* What the properties rest on *)

(* Types. *)
TypeOK ==
    /\ now \in Time /\ acts \in 0 .. MaxActs
    /\ picking \in [Picking -> [status : Status \union {None}, written : Time,
                                delivered : SUBSET Time, deadline : Deadlines]]
    /\ quant \in [Product -> Qty] /\ disc \in Seq(Disc)
    /\ drifted \in [Product -> SUBSET Time]
    /\ losses \in Seq([at : Time, units : Int])

(* A product has one open record at most: reports renew it (inventory_report.py:165-173). *)
OneOpenEach ==
    \A d, e \in DOMAIN disc :
        disc[d].state = "open" /\ Settled(e, disc[d].product) => d = e

(* The record of the last drift is open, and the drift was one of quantities. *)
DriftIsRecorded ==
    \A p \in Product : \A t \in drifted[p] :
        \E d \in OpenFor(p) :
            disc[d].detected = t /\ Drifts(disc[d].mf, disc[d].odoo)

(* A picking was delivered at one time. *)
OneDateEach ==
    \A p \in Picking : \A d, e \in picking[p].delivered : d = e

(* What every write keeps. *)
IInv == TypeOK /\ OneOpenEach /\ DriftIsRecorded /\ OneDateEach
===============================================================================
