---------------------------- MODULE SohDiscrepancy ----------------------------
(***************************************************************************)
(* Stock on hand: what the partner's inventory reports do to Odoo's stock  *)
(* (InventoryReportDocument.apply_csv) and what users do with the          *)
(* discrepancies the reports leave behind (mf.soh.discrepancy and its      *)
(* acceptance wizard), in one warehouse.                                   *)
(*                                                                         *)
(* A report may have several lines for a product, by lot or grade; they    *)
(* are applied one after another in one transaction, which works on a      *)
(* snapshot (REPEATABLE READ) and on what it has written itself, and       *)
(* cannot commit when a row it writes was written meanwhile.  When          *)
(* apply_csv raises at a line, its caller commits the lines before it.      *)
(* Reports may be applied in any order: the mailbox lists files in no       *)
(* particular one, and nothing compares their dates.                        *)
(*                                                                         *)
(* Report and wizard look at ONE quant of a product, the first the search  *)
(* returns, though lots and packages have their own: its quantity is what  *)
(* is modelled, 0 when there is none, negative where Odoo has let more go   *)
(* than there was.  Another quant that takes its place is a stock move.     *)
(***************************************************************************)
EXTENDS Tolerance, SequencesExt

CONSTANTS
    Product,
    Qty,            \* quantities that occur, in Odoo and in reports
    User,           \* users with an acceptance wizard open
    MaxLines,       \* bound: lines of a report
    MaxReports,     \* bound: reports the partner makes
    MaxMoves        \* bound: stock moves of Odoo's own

ASSUME SohAssumption ==
    /\ Qty \subseteq Int /\ 0 \in Qty
    /\ MaxLines \in Nat /\ MaxReports \in Nat /\ MaxMoves \in Nat

DiscId == 1 .. MaxReports * MaxLines    \* bound: a line creates at most one record
Line == [product : Product, qty : Qty]
Lines == SeqOf(Line, MaxLines) \ {<<>>}
Report == [lines : Lines, nr : 1 .. MaxReports]
Disc == [state : {"open", "investigated", "accepted"}, product : Product,
         mf : Qty, odoo : Qty]

NoDisc == [state |-> "none"]

VARIABLES
    quant,      \* quant[p]: the quantity of p's first quant at the warehouse's location
    disc,       \* disc[d]: the discrepancy records
    made,       \* how many reports the partner has made
    mail,       \* reports made and not yet applied
    cron,       \* the cron's transaction, or {}
    wizard,     \* wizard[u]: {} or {the record user u's open wizard is for}
    moves

vars == <<quant, disc, made, mail, cron, wizard, moves>>

Txn == [report : Report,
        todo : SeqOf(Line, MaxLines),       \* the lines it has still to apply
        quant : [Product -> Qty],           \* the tables as it sees them
        disc : [DiscId -> Disc \union {NoDisc}],
        quantWritten : SUBSET Product, discWritten : SUBSET DiscId,
        quantOutdated : SUBSET Product,     \* written by others since the snapshot
        discOutdated : SUBSET DiscId]

RecordsOf(table) == {d \in DiscId : table[d] # NoDisc}
Records == RecordsOf(disc)

(* Types; at most one report is being applied. *)
TypeOK ==
    /\ quant \in [Product -> Qty]
    /\ disc \in [DiscId -> Disc \union {NoDisc}]
    /\ made \in 0 .. MaxReports
    /\ mail \subseteq Report
    /\ \A t \in cron : t \in Txn /\ cron = {t}
    /\ wizard \in [User -> SUBSET DiscId]
    /\ moves \in 0 .. MaxMoves

Init ==
    /\ quant \in [Product -> Qty]
    /\ disc = [d \in DiscId |-> NoDisc]
    /\ made = 0
    /\ mail = {}
    /\ cron = {}
    /\ wizard = [u \in User |-> {}]
    /\ moves = 0

-----------------------------------------------------------------------------
(* The partner, and Odoo's own stock moves *)

MakeReport(lines) ==
    /\ made < MaxReports
    /\ made' = made + 1
    /\ mail' = mail \union {[lines |-> lines, nr |-> made + 1]}
    /\ UNCHANGED <<quant, disc, cron, wizard, moves>>

(* Others commit rows that the cron's transaction may write too. *)
Outdated(products, records) ==
    {[t EXCEPT !.quantOutdated = @ \union products, !.discOutdated = @ \union records]
        : t \in cron}

StockMove(p, q) ==
    /\ moves < MaxMoves /\ q # quant[p]
    /\ moves' = moves + 1
    /\ quant' = [quant EXCEPT ![p] = q]
    /\ cron' = Outdated({p}, {})
    /\ UNCHANGED <<disc, made, mail, wizard>>

-----------------------------------------------------------------------------
(* InventoryReportDocument.apply_csv *)

(* The transaction's snapshot; what follows is done to it. *)
BeginReport(r) ==
    /\ cron = {} /\ r \in mail
    /\ cron' = {[report |-> r, todo |-> r.lines, quant |-> quant, disc |-> disc,
                 quantWritten |-> {}, discWritten |-> {},
                 quantOutdated |-> {}, discOutdated |-> {}]}
    /\ mail' = mail \ {r}
    /\ UNCHANGED <<quant, disc, made, wizard, moves>>

(* The record _write_discrepancy updates in place. *)
BugNeverFindsOne(t, p) == {}    \* seeded fault
Existing(t, p) ==
    {d \in RecordsOf(t.disc) : t.disc[d].product = p /\ t.disc[d].state = "open"}

NewDisc(t) == {d \in DiscId : RecordsOf(t.disc) = 1 .. d - 1}

(* _write_discrepancy: update the open record, or create one. *)
WriteDiscrepancy(t, line) ==
    \E d \in IF Existing(t, line.product) # {} THEN Existing(t, line.product)
             ELSE NewDisc(t) :
        cron' = {[t EXCEPT !.todo = Tail(@), !.discWritten = @ \union {d},
                           !.disc[d] = [state |-> "open", product |-> line.product,
                                        mf |-> line.qty, odoo |-> t.quant[line.product]]]}

(* One line: a drift is recorded and the stock left alone, or it is set. *)
ApplyLine ==
    \E t \in cron :
        /\ t.todo # <<>>
        /\ LET line == Head(t.todo) IN
           IF Drifts(line.qty, t.quant[line.product])
           THEN WriteDiscrepancy(t, line)
           ELSE cron' = {[t EXCEPT !.todo = Tail(@),
                                   !.quant[line.product] = line.qty,
                                   !.quantWritten = @ \union {line.product}]}
        /\ UNCHANGED <<quant, disc, made, mail, wizard, moves>>

(* A row the transaction writes is no longer as the snapshot shows it. *)
BugNoConflict(t) == FALSE       \* seeded fault
Conflict(t) ==
    \/ t.quantWritten \intersect t.quantOutdated # {}
    \/ t.discWritten \intersect t.discOutdated # {}

(* All lines have been applied, or the next one raises: the crons catch that, and
   without a savepoint the lines before it are committed.  Nothing compares the
   report's date with what was applied before: 3pl.message.is_stale has no caller. *)
CommitReport ==
    \E t \in cron :
        /\ ~Conflict(t)
        /\ quant' = [p \in Product |-> IF p \in t.quantWritten THEN t.quant[p] ELSE quant[p]]
        /\ disc' = [d \in DiscId |-> IF d \in t.discWritten THEN t.disc[d] ELSE disc[d]]
        /\ cron' = {}
        /\ UNCHANGED <<made, mail, wizard, moves>>

(* A row was written meanwhile, the database refuses a statement, or the process
   dies; the rolled back report is gone (InboundPipeline). *)
AbortReport ==
    /\ cron # {}
    /\ cron' = {}
    /\ UNCHANGED <<quant, disc, made, mail, wizard, moves>>

-----------------------------------------------------------------------------
(* mf.soh.discrepancy *)

BugMayInvestigateAny(d) == d \in Records    \* seeded fault
MayInvestigate(d) == d \in Records /\ disc[d].state # "accepted"

MarkInvestigated(d) ==
    /\ MayInvestigate(d)
    /\ disc' = [disc EXCEPT ![d].state = "investigated"]
    /\ cron' = Outdated({}, {d})
    /\ UNCHANGED <<quant, made, mail, wizard, moves>>

(* action_open_accept_wizard *)
OpenWizard(u, d) ==
    /\ wizard[u] = {} /\ d \in Records
    /\ disc[d].state # "accepted"
    /\ wizard' = [wizard EXCEPT ![u] = {d}]
    /\ UNCHANGED <<quant, disc, made, mail, cron, moves>>

(* action_accept_discrepancy, with the record as it is now; a record that was
   accepted meanwhile is refused and the wizard can only be closed.  The
   inventory adjustment and the record are committed together. *)
Accept(u) ==
    \E d \in wizard[u] :
        /\ disc[d].state # "accepted"
        /\ quant' = [quant EXCEPT ![disc[d].product] = disc[d].mf]
        /\ disc' = [disc EXCEPT ![d].state = "accepted"]
        /\ wizard' = [wizard EXCEPT ![u] = {}]
        /\ cron' = Outdated({disc[d].product}, {d})
        /\ UNCHANGED <<made, mail, moves>>

CloseWizard(u) ==
    /\ wizard[u] # {}
    /\ wizard' = [wizard EXCEPT ![u] = {}]
    /\ UNCHANGED <<quant, disc, made, mail, cron, moves>>

-----------------------------------------------------------------------------
Next ==
    \/ \E lines \in Lines : MakeReport(lines)
    \/ \E p \in Product, q \in Qty : StockMove(p, q)
    \/ \E r \in mail : BeginReport(r)
    \/ ApplyLine \/ CommitReport \/ AbortReport
    \/ \E d \in DiscId : MarkInvestigated(d)
    \/ \E u \in User :
        \/ \E d \in DiscId : OpenWizard(u, d)
        \/ Accept(u) \/ CloseWizard(u)

Spec == Init /\ [][Next]_vars

-----------------------------------------------------------------------------
(* Properties *)

OneOpen(table) ==
    \A d, e \in RecordsOf(table) :
        table[d].state = "open" /\ table[e].state = "open"
            /\ table[d].product = table[e].product => d = e

(* Daily reports do not pile up open records: a product has at most one,
   although users change its state while a report is being applied
   (inventory_report.py:157-159). *)
AtMostOneOpen == OneOpen(disc)

(* What was accepted as shrinkage is never altered: not by a report that read
   it while it was open, nor by marking it investigated. *)
AcceptedIsFinal ==
    [][\A d \in Records : disc[d].state = "accepted" => disc'[d] = disc[d]]_vars

(* What a line makes of q units of p: its own figure, if that is near enough. *)
AfterLine(p, q, line) ==
    IF line.product = p /\ Abs(line.qty - q) * 1000 <= q * TolerancePerMille
    THEN line.qty ELSE q

(* The first n lines lead from q units of p to r. *)
LinesLead(p, q, r, lines, n) ==
    \E path \in [0 .. n -> Qty] :
        /\ path[0] = q /\ path[n] = r
        /\ \A i \in 1 .. n : path[i] = AfterLine(p, path[i - 1], lines[i])

(* A report changes the stock by itself only within the tolerance of what the
   stock IS, not of what it was when the cron read it, line by line: a move made
   meanwhile is never silently undone (inventory_report.py:99-117).  A report that
   broke off has led from there by its first lines, the same for all products. *)
NoSilentDrift ==
    [][\A t \in cron : cron' = {} =>
        \E n \in 0 .. Len(t.report.lines) :
            \A p \in Product :
                quant'[p] # quant[p] =>
                    LinesLead(p, quant[p], quant'[p], t.report.lines, n)]_vars

-----------------------------------------------------------------------------
(* The inductive invariant *)

(* A record shows a difference; negative stock is recorded although the report
   agrees, as its tolerance is below 0. *)
Differs(r) == r.odoo >= 0 => r.mf # r.odoo

(* Records show a difference and are numbered as they are made, and users have wizards
   for records only. *)
RecordInv ==
    /\ \A d \in Records : Differs(disc[d]) /\ 1 .. d \subseteq Records
    /\ \A u \in User : wizard[u] \subseteq Records

(* Users do not open records: what they have written since t began is settled. *)
OthersSettle(t, table) ==
    /\ t.discOutdated \subseteq RecordsOf(table)
    /\ \A d \in t.discOutdated : table[d].state # "open"

(* What t sees of the records: the committed ones, its own, and those that were
   outdated later; it writes over none that is settled. *)
Sees(t, table) ==
    /\ \A d \in DiscId \ (t.discWritten \union t.discOutdated) : t.disc[d] = table[d]
    /\ \A d \in RecordsOf(t.disc) : Differs(t.disc[d])
                                    /\ 1 .. d \subseteq RecordsOf(t.disc)
    /\ RecordsOf(table) \subseteq RecordsOf(t.disc)
    /\ t.discWritten \subseteq RecordsOf(t.disc)
    /\ \A d \in (t.discWritten \intersect RecordsOf(table)) \ t.discOutdated :
            table[d].state = "open"
    /\ OneOpen(t.disc)

(* t's quantities come about from the committed ones, line by line. *)
LineByLine(t, table) ==
    LET lines == t.report.lines
        done == Len(lines) - Len(t.todo)
    IN  /\ done \in Nat
        /\ \A i \in 1 .. Len(t.todo) : t.todo[i] = lines[done + i]
        /\ \A p \in Product \ t.quantOutdated :
                LinesLead(p, table[p], t.quant[p], lines, done)

CronInv == \A t \in cron : OthersSettle(t, disc) /\ Sees(t, disc) /\ LineByLine(t, quant)

IInv ==
    /\ TypeOK /\ RecordInv /\ CronInv
    /\ AtMostOneOpen
================================================================================
