------------------------- MODULE SohDiscrepancyProofs -------------------------
(***************************************************************************)
(* Proofs about SohDiscrepancy: what a report's transaction may write over *)
(* and how its quantities come about.                                      *)
(***************************************************************************)
EXTENDS SohDiscrepancy, FiniteSetTheorems, TLAPS

(* Bounded sequences of lines. *)
LEMMA LinesAreSeqs ==
    ASSUME NEW s \in SeqOf(Line, MaxLines)
    PROVE  /\ s \in Seq(Line) /\ Len(s) \in 0 .. MaxLines
           /\ \A i \in 1 .. Len(s) : s[i] \in Line
<1>1. PICK m \in 0 .. MaxLines : s \in [1 .. m -> Line]
  BY DEF SeqOf
<1>2. m \in Nat
  OBVIOUS
<1> QED
  BY <1>1, <1>2

LEMMA TailOfLines ==
    ASSUME NEW s \in SeqOf(Line, MaxLines), s # <<>>
    PROVE  /\ Head(s) \in Line /\ Head(s) = s[1] /\ Len(s) > 0
           /\ Tail(s) \in SeqOf(Line, MaxLines) /\ Len(Tail(s)) = Len(s) - 1
           /\ \A i \in 1 .. Len(s) - 1 : Tail(s)[i] = s[i + 1]
<1>1. s \in Seq(Line) /\ Len(s) \in 0 .. MaxLines
  BY LinesAreSeqs
<1>2. /\ Head(s) \in Line /\ Head(s) = s[1] /\ Len(s) > 0
      /\ Tail(s) \in Seq(Line) /\ Len(Tail(s)) = Len(s) - 1
      /\ \A i \in 1 .. Len(s) - 1 : Tail(s)[i] = s[i + 1]
  BY <1>1
<1>3. Tail(s) \in [1 .. Len(s) - 1 -> Line]
  <2>1. \A u \in Seq(Line) : u \in [1 .. Len(u) -> Line]
    OBVIOUS
  <2> QED
    BY <1>2, <2>1
<1>4. Len(s) - 1 \in 0 .. MaxLines
  BY <1>1, <1>2, SohAssumption
<1>5. Tail(s) \in SeqOf(Line, MaxLines)
  BY <1>3, <1>4 DEF SeqOf
<1> QED
  BY <1>2, <1>5

(* What the rounding of the dashboard does to a quantity above zero: the quotient
   exceeds the tolerance when a half more than it is reached. *)
LEMMA ExceedsFrom ==
    ASSUME NEW mf \in Nat, NEW odoo \in Nat, odoo > 0
    PROVE  Exceeds(odoo, mf) <=>
               2000000 * Abs(mf - odoo) + odoo
                   >= (1000 * TolerancePerMille + 1) * (2 * odoo)
<1> DEFINE n == 2000000 * Abs(mf - odoo) + odoo
           d == 2 * odoo
           c == 1000 * TolerancePerMille
<1>1. n \in Nat /\ d \in Nat /\ d > 0 /\ c \in Nat
  BY ToleranceAssumption DEF Abs
<1>2. Exceeds(odoo, mf) <=> n \div d > c
  BY DEF Exceeds, VariancePct
<1> HIDE DEF n, d, c
<1>3. PICK q, r : q = n \div d /\ r = n % d
  OBVIOUS
<1>4. q \in Nat /\ r \in 0 .. d - 1 /\ n = d * q + r
  BY <1>1, <1>3
<1>5. ASSUME q > c PROVE n >= (c + 1) * d
  <2>1. q >= c + 1
    BY <1>1, <1>4, <1>5
  <2>2. q * d >= (c + 1) * d
    BY <2>1, <1>1, <1>4
  <2> QED
    BY <2>2, <1>1, <1>4
<1>6. ASSUME ~ (q > c) PROVE n < (c + 1) * d
  <2>1. q <= c
    BY <1>1, <1>4, <1>6
  <2>2. q * d <= c * d
    BY <2>1, <1>1, <1>4
  <2>3. (c + 1) * d = c * d + d
    BY <1>1
  <2> QED
    BY <2>2, <2>3, <1>1, <1>4
<1>7. n \div d > c <=> n >= (c + 1) * d
  <2>1. (c + 1) * d \in Int
    BY <1>1
  <2> QED
    BY <2>1, <1>1, <1>3, <1>5, <1>6
<1> QED
  BY <1>2, <1>7 DEF n, d, c

(* The dashboard counts nothing that was no drift to the report: what exceeds
   the tolerance as a rounded percentage exceeds it as a quantity
   (soh_discrepancy.py:10-14, inventory_report.py:107-111). *)
THEOREM WhatCountsDrifted ==
    ASSUME NEW mf \in Nat, NEW odoo \in Nat, Exceeds(odoo, mf)
    PROVE  Drifts(mf, odoo)
<1>1. TolerancePerMille \in Nat /\ Abs(mf - odoo) \in Nat
  BY ToleranceAssumption DEF Abs
<1>2. CASE odoo = 0
  <2>1. mf # 0
    BY <1>1, <1>2 DEF Exceeds, VariancePct
  <2>2. Abs(mf - odoo) > 0
    BY <1>2, <2>1 DEF Abs
  <2>3. odoo * TolerancePerMille = 0
    BY <1>1, <1>2
  <2> QED
    BY <2>2, <2>3, <1>1 DEF Drifts
<1>3. CASE odoo > 0
  <2> DEFINE p == odoo * TolerancePerMille
  <2>1. 2000000 * Abs(mf - odoo) + odoo >= (1000 * TolerancePerMille + 1) * (2 * odoo)
    BY <1>3, ExceedsFrom
  <2>2. (1000 * TolerancePerMille + 1) * (2 * odoo) = 2000 * p + 2 * odoo
    BY <1>1
  <2>3. p \in Nat
    BY <1>1
  <2> HIDE DEF p
  <2>4. Abs(mf - odoo) * 1000 > p
    BY <2>1, <2>2, <2>3, <1>1, <1>3
  <2> QED
    BY <2>4 DEF Drifts, p
<1> QED
  BY <1>2, <1>3

(* Of stock up to 2000 units every drift that the report finds counts on the
   dashboard, whatever the tolerance; where Odoo has none, for any tolerance
   under 100 %.  Of larger stock the rounding may swallow it. *)
THEOREM WhatDriftedCounts ==
    ASSUME NEW mf \in Nat, NEW odoo \in Nat, odoo <= 2000, Drifts(mf, odoo),
           odoo = 0 => TolerancePerMille < 1000
    PROVE  Exceeds(odoo, mf)
<1>1. TolerancePerMille \in Nat /\ Abs(mf - odoo) \in Nat /\ odoo \in Nat
  BY ToleranceAssumption DEF Abs
<1>2. CASE odoo = 0
  <2>1. odoo * TolerancePerMille = 0
    BY <1>1, <1>2
  <2>2. mf # 0
    BY <1>2, <2>1 DEF Drifts, Abs
  <2> QED
    BY <1>1, <1>2, <2>2 DEF Exceeds, VariancePct
<1>3. CASE odoo > 0
  <2> DEFINE p == odoo * TolerancePerMille
  <2>1. Abs(mf - odoo) * 1000 > p
    BY DEF Drifts
  <2>2. (1000 * TolerancePerMille + 1) * (2 * odoo) = 2000 * p + 2 * odoo
    BY <1>1
  <2>3. p \in Nat
    BY <1>1
  <2> HIDE DEF p
  <2>4. 2000000 * Abs(mf - odoo) + odoo >= 2000 * p + 2 * odoo
    BY <2>1, <2>3, <1>1
  <2> QED
    BY <2>2, <2>4, <1>3, <1>1, ExceedsFrom
<1> QED
  BY <1>1, <1>2, <1>3

(* A figure drifts exactly when it is not near enough, and one that drifts is
   another one unless the stock is negative. *)
LEMMA DriftsOr ==
    ASSUME NEW mf \in Qty, NEW odoo \in Qty
    PROVE  /\ Drifts(mf, odoo) <=> ~(Abs(mf - odoo) * 1000 <= odoo * TolerancePerMille)
           /\ Drifts(mf, odoo) /\ odoo >= 0 => mf # odoo
<1>1. mf \in Int /\ odoo \in Int /\ TolerancePerMille \in Nat
  BY SohAssumption, ToleranceAssumption
<1>2. odoo * TolerancePerMille \in Int /\ (odoo >= 0 => odoo * TolerancePerMille >= 0)
  BY <1>1
<1>3. Abs(mf - odoo) * 1000 \in Int /\ (mf = odoo => Abs(mf - odoo) * 1000 = 0)
  BY <1>1 DEF Abs
<1> QED
  BY <1>2, <1>3 DEF Drifts

(* One line more. *)
LEMMA OneLineMore ==
    ASSUME NEW p, NEW q, NEW r \in Qty, NEW s \in Qty, NEW lines, NEW n \in Nat,
           LinesLead(p, q, r, lines, n), s = AfterLine(p, r, lines[n + 1])
    PROVE  LinesLead(p, q, s, lines, n + 1)
<1>1. PICK path \in [0 .. n -> Qty] :
        /\ path[0] = q /\ path[n] = r
        /\ \A i \in 1 .. n : path[i] = AfterLine(p, path[i - 1], lines[i])
  BY DEF LinesLead
<1> DEFINE longer == [i \in 0 .. n + 1 |-> IF i = n + 1 THEN s ELSE path[i]]
<1>2. longer \in [0 .. n + 1 -> Qty] /\ longer[0] = q /\ longer[n + 1] = s
  BY <1>1
<1>3. \A i \in 1 .. n + 1 : longer[i] = AfterLine(p, longer[i - 1], lines[i])
  <2> SUFFICES ASSUME NEW i \in 1 .. n + 1
               PROVE  longer[i] = AfterLine(p, longer[i - 1], lines[i])
    OBVIOUS
  <2>1. longer[i - 1] = path[i - 1]
    OBVIOUS
  <2>2. CASE i \in 1 .. n
    <3>1. longer[i] = path[i]
      BY <2>2
    <3> QED
      BY <1>1, <2>1, <2>2, <3>1
  <2>3. CASE i = n + 1
    <3>1. longer[i - 1] = r
      BY <1>1, <2>1, <2>3
    <3> QED
      BY <1>2, <2>3, <3>1
  <2> QED BY <2>2, <2>3
<1> QED
  BY <1>2, <1>3 DEF LinesLead

LEMMA InitIInv == Init => IInv
<1> SUFFICES ASSUME Init PROVE IInv
  OBVIOUS
<1>1. TypeOK
  BY SohAssumption DEF Init, TypeOK
<1>2. Records = {}
  BY DEF Init, Records, RecordsOf
<1> QED
  BY <1>1, <1>2 DEF Init, IInv, RecordInv, CronInv, AtMostOneOpen, OneOpen,
                    Records

-----------------------------------------------------------------------------
(* The partner, and Odoo's own stock moves *)

LEMMA MakeReportIInv ==
    ASSUME IInv, NEW lines \in Lines, MakeReport(lines)
    PROVE  IInv'
<1> USE DEF IInv
<1>1. /\ made < MaxReports /\ made' = made + 1
      /\ mail' = mail \union {[lines |-> lines, nr |-> made + 1]}
      /\ UNCHANGED <<quant, disc, cron, wizard, moves>>
  BY DEF MakeReport
<1>2. TypeOK'
  <2>1. made' \in 0 .. MaxReports /\ made + 1 \in 1 .. MaxReports
    BY <1>1, SohAssumption DEF TypeOK
  <2>2. [lines |-> lines, nr |-> made + 1] \in Report
    BY <2>1 DEF Report
  <2> QED
    BY <1>1, <2>1, <2>2 DEF TypeOK
<1>3. RecordInv' /\ CronInv' /\ AtMostOneOpen'
  BY <1>1 DEF RecordInv, CronInv, AtMostOneOpen, Records
<1> QED
  BY <1>2, <1>3

(* What others' writes do to the transaction. *)
LEMMA OutdatedIs ==
    ASSUME TypeOK, NEW ps \in SUBSET Product, NEW ds \in SUBSET DiscId,
           cron' = Outdated(ps, ds)
    PROVE  /\ \A v \in cron' : v \in Txn /\ cron' = {v}
           /\ cron' = {} <=> cron = {}
           /\ \A v \in cron' : \E t \in cron :
                /\ v.quantOutdated = t.quantOutdated \union ps
                /\ v.discOutdated = t.discOutdated \union ds
                /\ v.report = t.report /\ v.todo = t.todo
                /\ v.quant = t.quant /\ v.disc = t.disc
                /\ v.quantWritten = t.quantWritten /\ v.discWritten = t.discWritten
<1>1. cron' = {} <=> cron = {}
  BY DEF Outdated
<1>2. ASSUME NEW v \in cron'
      PROVE  /\ v \in Txn /\ cron' = {v}
             /\ \E t \in cron :
                    /\ v.quantOutdated = t.quantOutdated \union ps
                    /\ v.discOutdated = t.discOutdated \union ds
                    /\ v.report = t.report /\ v.todo = t.todo
                    /\ v.quant = t.quant /\ v.disc = t.disc
                    /\ v.quantWritten = t.quantWritten /\ v.discWritten = t.discWritten
  <2>1. PICK t \in cron :
            v = [t EXCEPT !.quantOutdated = @ \union ps, !.discOutdated = @ \union ds]
    BY <1>2 DEF Outdated
  <2>2. t \in Txn /\ cron = {t}
    BY DEF TypeOK
  <2>3. cron' = {v}
    BY <2>1, <2>2 DEF Outdated
  <2> QED
    BY <2>1, <2>2, <2>3 DEF Txn
<1> QED
  BY <1>1, <1>2

LEMMA StockMoveIInv ==
    ASSUME IInv, NEW p \in Product, NEW q \in Qty, StockMove(p, q)
    PROVE  IInv'
<1> USE DEF IInv
<1>1. /\ moves < MaxMoves /\ moves' = moves + 1
      /\ quant' = [quant EXCEPT ![p] = q] /\ cron' = Outdated({p}, {})
      /\ UNCHANGED <<disc, made, mail, wizard>>
  BY DEF StockMove
<1>2. /\ \A v \in cron' : v \in Txn /\ cron' = {v}
      /\ \A v \in cron' : \E t \in cron :
                /\ v.quantOutdated = t.quantOutdated \union {p}
                /\ v.discOutdated = t.discOutdated \union {}
                /\ v.report = t.report /\ v.todo = t.todo
                /\ v.quant = t.quant /\ v.disc = t.disc
                /\ v.quantWritten = t.quantWritten /\ v.discWritten = t.discWritten
  <2>1. TypeOK /\ {p} \in SUBSET Product /\ {} \in SUBSET DiscId
    OBVIOUS
  <2> QED
    BY <1>1, <2>1, OutdatedIs
<1>3. TypeOK'
  <2>1. moves' \in 0 .. MaxMoves
    BY <1>1, SohAssumption DEF TypeOK
  <2>2. quant' \in [Product -> Qty]
    BY <1>1 DEF TypeOK
  <2> QED
    BY <1>1, <1>2, <2>1, <2>2 DEF TypeOK
<1>4. RecordInv' /\ AtMostOneOpen'
  BY <1>1 DEF RecordInv, AtMostOneOpen, Records
<1>5. CronInv'
  <2> SUFFICES ASSUME NEW v \in cron'
               PROVE  OthersSettle(v, disc) /\ Sees(v, disc) /\ LineByLine(v, quant')
    BY <1>1 DEF CronInv
  <2>1. PICK t \in cron :
            /\ v.quantOutdated = t.quantOutdated \union {p}
            /\ v.discOutdated = t.discOutdated
            /\ v.report = t.report /\ v.todo = t.todo
            /\ v.quant = t.quant /\ v.disc = t.disc /\ v.discWritten = t.discWritten
    BY <1>2
  <2>2. \A r \in Product \ {p} : quant'[r] = quant[r]
    BY <1>1 DEF TypeOK
  <2>3. OthersSettle(v, disc) /\ Sees(v, disc)
    BY <2>1 DEF CronInv, OthersSettle, Sees
  <2>4. LineByLine(v, quant')
    BY <2>1, <2>2 DEF CronInv, LineByLine
  <2> QED
    BY <2>3, <2>4
<1> QED
  BY <1>3, <1>4, <1>5

-----------------------------------------------------------------------------
(* InventoryReportDocument.apply_csv *)

LEMMA BeginReportIInv ==
    ASSUME IInv, NEW r \in mail, BeginReport(r)
    PROVE  IInv'
<1> USE DEF IInv
<1>v. PICK v : v = [report |-> r, todo |-> r.lines, quant |-> quant, disc |-> disc,
                    quantWritten |-> {}, discWritten |-> {},
                    quantOutdated |-> {}, discOutdated |-> {}]
  OBVIOUS
<1>1. /\ cron' = {v} /\ mail' = mail \ {r}
      /\ UNCHANGED <<quant, disc, made, wizard, moves>>
  BY <1>v DEF BeginReport
<1>2. r \in Report /\ r.lines \in SeqOf(Line, MaxLines)
  BY DEF TypeOK, Report, Lines
<1>3. /\ v.report = r /\ v.todo = r.lines /\ v.quant = quant /\ v.disc = disc
      /\ v.quantWritten = {} /\ v.discWritten = {}
      /\ v.quantOutdated = {} /\ v.discOutdated = {}
  BY <1>v
<1>4. v \in Txn
  BY <1>2, <1>v DEF Txn, TypeOK
<1>5. TypeOK'
  BY <1>1, <1>4 DEF TypeOK
<1>6. RecordInv' /\ AtMostOneOpen'
  BY <1>1 DEF RecordInv, AtMostOneOpen, Records
<1>7. OthersSettle(v, disc)
  BY <1>3 DEF OthersSettle
<1>8. Sees(v, disc)
  BY <1>3 DEF Sees, RecordInv, AtMostOneOpen, Records
<1>9. LineByLine(v, quant)
  <2>1. Len(r.lines) \in Nat /\ Len(r.lines) - Len(r.lines) = 0
    BY <1>2, LinesAreSeqs
  <2>2. ASSUME NEW p \in Product
        PROVE  LinesLead(p, quant[p], quant[p], r.lines, 0)
    <3>1. quant[p] \in Qty
      BY DEF TypeOK
    <3>2. PICK path : path = [i \in 0 .. 0 |-> quant[p]]
      OBVIOUS
    <3>3. path \in [0 .. 0 -> Qty] /\ path[0] = quant[p] /\ 1 .. 0 = {}
      BY <3>1, <3>2
    <3> QED
      BY <3>3 DEF LinesLead
  <2> QED
    BY <1>3, <2>1, <2>2 DEF LineByLine
<1> QED
  BY <1>1, <1>5, <1>6, <1>7, <1>8, <1>9 DEF CronInv

LEMMA AbortReportIInv ==
    ASSUME IInv, AbortReport
    PROVE  IInv'
<1>1. cron' = {} /\ UNCHANGED <<quant, disc, made, mail, wizard, moves>>
  BY DEF AbortReport
<1> QED
  BY <1>1 DEF IInv, TypeOK, RecordInv, CronInv, AtMostOneOpen, Records

(* A line's record: the transaction's table keeps one open record per product. *)
LEMMA DiscrepancyWritten ==
    ASSUME IInv, NEW t \in cron, NEW line \in Line,
           Drifts(line.qty, t.quant[line.product]),
           NEW d \in IF Existing(t, line.product) # {} THEN Existing(t, line.product)
                     ELSE NewDisc(t),
           NEW v \in Txn,
           v.disc = [t.disc EXCEPT ![d] = [state |-> "open", product |-> line.product,
                                           mf |-> line.qty, odoo |-> t.quant[line.product]]],
           v.discWritten = t.discWritten \union {d}, v.discOutdated = t.discOutdated
    PROVE  Sees(v, disc)
<1> USE DEF IInv
<1>1. t \in Txn /\ line.product \in Product /\ line.qty \in Qty
  BY DEF TypeOK, Line
<1>2. t.quant[line.product] \in Qty /\ t.disc \in [DiscId -> Disc \union {NoDisc}]
  BY <1>1 DEF Txn
<1>w. PICK w : w = [state |-> "open", product |-> line.product,
                    mf |-> line.qty, odoo |-> t.quant[line.product]]
  OBVIOUS
<1>3. /\ w.state = "open" /\ w.product = line.product /\ Differs(w) /\ w # NoDisc
  <2>1. Differs(w)
    BY <1>1, <1>2, <1>w, DriftsOr DEF Differs
  <2>2. w.state # NoDisc.state
    BY <1>w DEF NoDisc
  <2> QED
    BY <1>w, <2>1, <2>2
<1>4. Sees(t, disc)
  BY DEF CronInv
<1>5. /\ d \in DiscId
      /\ \/ d \in Existing(t, line.product)
         \/ d \in NewDisc(t) /\ Existing(t, line.product) = {}
  BY DEF Existing, NewDisc, RecordsOf
<1>6. v.disc[d] = w /\ \A e \in DiscId \ {d} : v.disc[e] = t.disc[e]
  BY <1>2, <1>5, <1>w
<1>7. RecordsOf(v.disc) = RecordsOf(t.disc) \union {d}
  BY <1>3, <1>5, <1>6 DEF RecordsOf
<1>8. \A e \in RecordsOf(v.disc) : Differs(v.disc[e])
                                   /\ 1 .. e \subseteq RecordsOf(v.disc)
  <2> SUFFICES ASSUME NEW e \in RecordsOf(v.disc)
               PROVE  Differs(v.disc[e]) /\ 1 .. e \subseteq RecordsOf(v.disc)
    OBVIOUS
  <2>1. Differs(v.disc[e])
    BY <1>3, <1>4, <1>6, <1>7 DEF Sees, RecordsOf
  <2>2. CASE e \in RecordsOf(t.disc)
    BY <1>4, <1>7, <2>1, <2>2 DEF Sees
  <2>3. CASE e \notin RecordsOf(t.disc)
    <3>1. e = d /\ d \in NewDisc(t)
      BY <1>5, <1>7, <2>3 DEF Existing
    <3>2. RecordsOf(t.disc) = 1 .. d - 1 /\ d \in Nat
      BY <1>5, <3>1 DEF NewDisc, DiscId
    <3> QED
      BY <1>7, <2>1, <3>1, <3>2
  <2> QED BY <2>1, <2>2, <2>3
<1>9. \A e \in (v.discWritten \intersect RecordsOf(disc)) \ v.discOutdated :
            disc[e].state = "open"
  <2> SUFFICES ASSUME NEW e \in RecordsOf(disc), e \in v.discWritten, e \notin v.discOutdated
               PROVE  disc[e].state = "open"
    OBVIOUS
  <2>1. CASE e \in t.discWritten
    BY <1>4, <2>1 DEF Sees
  <2>2. CASE e \notin t.discWritten
    <3>1. e = d /\ t.disc[d] = disc[d] /\ d \in RecordsOf(t.disc)
      BY <1>4, <1>5, <2>2 DEF Sees
    <3>2. d \in Existing(t, line.product)
      <4>1. ASSUME d \in NewDisc(t) PROVE FALSE
        <5>1. d \in 1 .. d - 1 /\ d \in Nat
          BY <1>5, <3>1, <4>1 DEF NewDisc, DiscId
        <5> QED BY <5>1
      <4> QED BY <1>5, <4>1
    <3> QED
      BY <3>1, <3>2 DEF Existing
  <2> QED BY <2>1, <2>2
<1>10. OneOpen(v.disc)
  <2> SUFFICES ASSUME NEW a \in RecordsOf(v.disc), NEW b \in RecordsOf(v.disc),
                      v.disc[a].state = "open", v.disc[b].state = "open",
                      v.disc[a].product = v.disc[b].product
               PROVE  a = b
    BY DEF OneOpen
  <2>1. ASSUME NEW e \in RecordsOf(v.disc), e # d, v.disc[e].state = "open"
        PROVE  v.disc[e].product # line.product
    <3>1. e \in RecordsOf(t.disc) /\ t.disc[e] = v.disc[e]
      BY <1>6, <1>7, <2>1 DEF RecordsOf
    <3>2. CASE d \in Existing(t, line.product)
      BY <1>4, <2>1, <3>1, <3>2 DEF Existing, Sees, OneOpen
    <3>3. CASE Existing(t, line.product) = {}
      BY <2>1, <3>1, <3>3 DEF Existing
    <3> QED BY <1>5, <3>2, <3>3
  <2>2. CASE a = d \/ b = d
    BY <1>3, <1>6, <2>1, <2>2
  <2>3. CASE a # d /\ b # d
    BY <1>4, <1>6, <1>7, <2>3 DEF Sees, OneOpen, RecordsOf
  <2> QED BY <2>2, <2>3
<1>11. \A e \in DiscId \ (v.discWritten \union v.discOutdated) : v.disc[e] = disc[e]
  BY <1>4, <1>6 DEF Sees
<1> QED
  BY <1>4, <1>7, <1>8, <1>9, <1>10, <1>11 DEF Sees

(* A line's quantity: within the tolerance of what the line before it left. *)
LEMMA LineApplied ==
    ASSUME IInv, NEW t \in cron, t.todo # <<>>, NEW v \in Txn,
           v.report = t.report, v.todo = Tail(t.todo), v.quantOutdated = t.quantOutdated,
           \A p \in Product : v.quant[p] = AfterLine(p, t.quant[p], Head(t.todo))
    PROVE  LineByLine(v, quant)
<1> USE DEF IInv
<1>1. t \in Txn /\ t.todo \in SeqOf(Line, MaxLines) /\ LineByLine(t, quant)
  BY DEF TypeOK, Txn, CronInv
<1>m. PICK m : m = Len(t.todo)
  OBVIOUS
<1>n. PICK n : n = Len(t.report.lines) - m
  OBVIOUS
<1>2. /\ m \in Nat /\ m > 0 /\ Len(v.todo) = m - 1 /\ Head(t.todo) = t.todo[1]
      /\ \A i \in 1 .. m - 1 : v.todo[i] = t.todo[i + 1]
  BY <1>1, <1>m, TailOfLines, LinesAreSeqs
<1>3. /\ n \in Nat /\ \A i \in 1 .. m : t.todo[i] = t.report.lines[n + i]
      /\ \A p \in Product \ t.quantOutdated :
            LinesLead(p, quant[p], t.quant[p], t.report.lines, n)
  BY <1>1, <1>m, <1>n DEF LineByLine
<1>4. Len(t.report.lines) - (m - 1) = n + 1
  <2>1. Len(t.report.lines) \in Nat
    BY <1>1, LinesAreSeqs DEF Txn, Report, Lines
  <2> QED
    BY <1>2, <1>n, <2>1
<1>5. \A i \in 1 .. m - 1 : v.todo[i] = t.report.lines[n + 1 + i]
  <2> SUFFICES ASSUME NEW i \in 1 .. m - 1
               PROVE  v.todo[i] = t.report.lines[n + 1 + i]
    OBVIOUS
  <2>1. i + 1 \in 1 .. m /\ n + (i + 1) = n + 1 + i
    BY <1>2, <1>3
  <2> QED
    BY <1>2, <1>3, <2>1
<1>6. ASSUME NEW p \in Product \ t.quantOutdated
      PROVE  LinesLead(p, quant[p], v.quant[p], t.report.lines, n + 1)
  <2>1. t.quant[p] \in Qty /\ v.quant[p] \in Qty
    BY <1>1 DEF Txn
  <2>2. LinesLead(p, quant[p], t.quant[p], t.report.lines, n)
    BY <1>3
  <2>3. v.quant[p] = AfterLine(p, t.quant[p], t.report.lines[n + 1])
    BY <1>2, <1>3
  <2> QED
    BY <1>3, <2>1, <2>2, <2>3, OneLineMore
<1>7. Len(v.report.lines) - Len(v.todo) = n + 1
  BY <1>2, <1>4
<1>8. /\ n + 1 \in Nat
      /\ \A i \in 1 .. Len(v.todo) : v.todo[i] = v.report.lines[n + 1 + i]
      /\ \A p \in Product \ v.quantOutdated :
            LinesLead(p, quant[p], v.quant[p], v.report.lines, n + 1)
  BY <1>2, <1>3, <1>5, <1>6
<1> QED
  BY <1>7, <1>8 DEF LineByLine

LEMMA ApplyLineIInv ==
    ASSUME IInv, ApplyLine
    PROVE  IInv'
<1> USE DEF IInv
<1>1. PICK t \in cron :
        /\ t.todo # <<>>
        /\ LET line == Head(t.todo) IN
           IF Drifts(line.qty, t.quant[line.product])
           THEN WriteDiscrepancy(t, line)
           ELSE cron' = {[t EXCEPT !.todo = Tail(@),
                                   !.quant[line.product] = line.qty,
                                   !.quantWritten = @ \union {line.product}]}
        /\ UNCHANGED <<quant, disc, made, mail, wizard, moves>>
  BY DEF ApplyLine
<1>l. PICK line : line = Head(t.todo)
  OBVIOUS
<1>2. t \in Txn /\ OthersSettle(t, disc) /\ Sees(t, disc)
  BY DEF TypeOK, CronInv
<1>3. line \in Line /\ Tail(t.todo) \in SeqOf(Line, MaxLines)
  BY <1>1, <1>2, <1>l, TailOfLines DEF Txn
<1>4. line.product \in Product /\ line.qty \in Qty /\ t.quant \in [Product -> Qty]
  BY <1>2, <1>3 DEF Line, Txn
<1>5. ASSUME NEW v \in Txn, cron' = {v},
             OthersSettle(v, disc), Sees(v, disc), LineByLine(v, quant)
      PROVE  IInv'
  <2>1. TypeOK'
    BY <1>1, <1>5 DEF TypeOK
  <2>2. RecordInv' /\ AtMostOneOpen' /\ CronInv'
    BY <1>1, <1>5 DEF RecordInv, AtMostOneOpen, Records, CronInv
  <2> QED
    BY <2>1, <2>2
<1>6. Drifts(line.qty, t.quant[line.product]) <=>
        ~(Abs(line.qty - t.quant[line.product]) * 1000
            <= t.quant[line.product] * TolerancePerMille)
  BY <1>4, DriftsOr
<1>7. CASE Drifts(line.qty, t.quant[line.product])
  <2>w. PICK w : w = [state |-> "open", product |-> line.product,
                      mf |-> line.qty, odoo |-> t.quant[line.product]]
    OBVIOUS
  <2>1. WriteDiscrepancy(t, line)
    BY <1>1, <1>7, <1>l
  <2>2. PICK d \in IF Existing(t, line.product) # {} THEN Existing(t, line.product)
                   ELSE NewDisc(t) :
            cron' = {[t EXCEPT !.todo = Tail(@), !.discWritten = @ \union {d}, !.disc[d] = w]}
    BY <2>1, <2>w DEF WriteDiscrepancy
  <2>v. PICK v : v = [t EXCEPT !.todo = Tail(@), !.discWritten = @ \union {d}, !.disc[d] = w]
    OBVIOUS
  <2>3. d \in DiscId
    BY DEF Existing, NewDisc, RecordsOf
  <2>4. w \in Disc
    BY <1>4, <2>w DEF Disc
  <2>5. /\ v.report = t.report /\ v.todo = Tail(t.todo) /\ v.quant = t.quant
        /\ v.disc = [t.disc EXCEPT ![d] = w] /\ v.discWritten = t.discWritten \union {d}
        /\ v.quantOutdated = t.quantOutdated /\ v.discOutdated = t.discOutdated
    BY <1>2, <2>v DEF Txn
  <2>6. v \in Txn
    BY <1>2, <1>3, <2>3, <2>4, <2>v DEF Txn
  <2>7. Sees(v, disc)
    BY <1>3, <1>7, <2>5, <2>6, <2>w, DiscrepancyWritten
  <2>8. OthersSettle(v, disc)
    BY <1>2, <2>5 DEF OthersSettle
  <2>9. \A p \in Product : v.quant[p] = AfterLine(p, t.quant[p], line)
    BY <1>6, <1>7, <2>5 DEF AfterLine
  <2>10. LineByLine(v, quant)
    BY <1>1, <1>l, <2>5, <2>6, <2>9, LineApplied
  <2> QED
    BY <1>5, <2>2, <2>v, <2>6, <2>7, <2>8, <2>10
<1>8. CASE ~Drifts(line.qty, t.quant[line.product])
  <2>v. PICK v : v = [t EXCEPT !.todo = Tail(@), !.quant[line.product] = line.qty,
                               !.quantWritten = @ \union {line.product}]
    OBVIOUS
  <2>1. cron' = {v}
    BY <1>1, <1>8, <1>l, <2>v
  <2>2. /\ v.report = t.report /\ v.todo = Tail(t.todo) /\ v.disc = t.disc
        /\ v.quant = [t.quant EXCEPT ![line.product] = line.qty]
        /\ v.discWritten = t.discWritten
        /\ v.quantOutdated = t.quantOutdated /\ v.discOutdated = t.discOutdated
    BY <1>2, <2>v DEF Txn
  <2>3. v \in Txn
    BY <1>2, <1>3, <1>4, <2>v DEF Txn
  <2>4. OthersSettle(v, disc) /\ Sees(v, disc)
    BY <1>2, <2>2 DEF OthersSettle, Sees
  <2>5. \A p \in Product : v.quant[p] = AfterLine(p, t.quant[p], line)
    BY <1>4, <1>6, <1>8, <2>2 DEF AfterLine
  <2>6. LineByLine(v, quant)
    BY <1>1, <1>l, <2>2, <2>3, <2>5, LineApplied
  <2> QED
    BY <1>5, <2>1, <2>3, <2>4, <2>6
<1> QED
  BY <1>7, <1>8

(* A record that is committed as another one than it was is one the transaction
   wrote and nobody else has. *)
LEMMA CommittedRecords ==
    ASSUME IInv, NEW t \in cron, ~Conflict(t),
           NEW table,
           table = [d \in DiscId |-> IF d \in t.discWritten THEN t.disc[d] ELSE disc[d]]
    PROVE  /\ RecordsOf(table) = RecordsOf(t.disc)
           /\ Records \subseteq RecordsOf(table)
           /\ \A d \in RecordsOf(table) : d \notin t.discOutdated => table[d] = t.disc[d]
           /\ \A d \in t.discOutdated : table[d] = disc[d]
<1> USE DEF IInv
<1>1. t \in Txn /\ OthersSettle(t, disc) /\ Sees(t, disc)
  BY DEF TypeOK, CronInv
<1>2. t.discWritten \subseteq DiscId /\ t.discOutdated \subseteq DiscId
  BY <1>1 DEF Txn
<1>3. \A d \in t.discOutdated : d \notin t.discWritten
  BY DEF Conflict
<1>4. \A d \in t.discOutdated : table[d] = disc[d] /\ d \in RecordsOf(table)
  BY <1>1, <1>2, <1>3 DEF OthersSettle, RecordsOf
<1>5. \A d \in DiscId : d \notin t.discOutdated => table[d] = t.disc[d]
  BY <1>1 DEF Sees
<1>6. \A d \in t.discOutdated : d \in RecordsOf(t.disc)
  BY <1>1 DEF OthersSettle, Sees
<1>7. RecordsOf(table) = RecordsOf(t.disc)
  BY <1>4, <1>5, <1>6 DEF RecordsOf
<1>8. Records \subseteq RecordsOf(table)
  BY <1>1, <1>7 DEF Sees, Records
<1> QED
  BY <1>4, <1>5, <1>7, <1>8 DEF RecordsOf

LEMMA CommitReportIInv ==
    ASSUME IInv, CommitReport
    PROVE  IInv'
<1> USE DEF IInv
<1>1. PICK t \in cron :
        /\ ~Conflict(t)
        /\ quant' = [p \in Product |-> IF p \in t.quantWritten THEN t.quant[p] ELSE quant[p]]
        /\ disc' = [d \in DiscId |-> IF d \in t.discWritten THEN t.disc[d] ELSE disc[d]]
        /\ cron' = {}
        /\ UNCHANGED <<made, mail, wizard, moves>>
  BY DEF CommitReport
<1>2. t \in Txn /\ OthersSettle(t, disc) /\ Sees(t, disc)
  BY DEF TypeOK, CronInv
<1>3. /\ Records' = RecordsOf(t.disc)
      /\ Records \subseteq Records'
      /\ \A d \in Records' : d \notin t.discOutdated => disc'[d] = t.disc[d]
      /\ \A d \in t.discOutdated : disc'[d] = disc[d]
  BY <1>1, CommittedRecords DEF Records
<1>4. TypeOK'
  <2>1. quant' \in [Product -> Qty] /\ disc' \in [DiscId -> Disc \union {NoDisc}]
    BY <1>1, <1>2 DEF TypeOK, Txn
  <2> QED
    BY <1>1, <2>1 DEF TypeOK
<1>5. RecordInv'
  <2>1. \A d \in Records' : Differs(disc'[d])
    <3> SUFFICES ASSUME NEW d \in Records' PROVE Differs(disc'[d])
      OBVIOUS
    <3>1. CASE d \in t.discOutdated
      BY <1>2, <1>3, <3>1 DEF OthersSettle, RecordInv, Records
    <3>2. CASE d \notin t.discOutdated
      BY <1>2, <1>3, <3>2 DEF Sees
    <3> QED BY <3>1, <3>2
  <2>2. \A d \in Records' : 1 .. d \subseteq Records'
    BY <1>2, <1>3 DEF Sees
  <2>3. \A u \in User : wizard'[u] \subseteq Records'
    BY <1>1, <1>3 DEF RecordInv
  <2> QED
    BY <2>1, <2>2, <2>3 DEF RecordInv
<1>6. AtMostOneOpen'
  <2> SUFFICES ASSUME NEW d \in Records', NEW e \in Records',
                      disc'[d].state = "open", disc'[e].state = "open",
                      disc'[d].product = disc'[e].product
               PROVE  d = e
    BY DEF AtMostOneOpen, OneOpen, Records
  <2>1. d \notin t.discOutdated /\ e \notin t.discOutdated
    BY <1>2, <1>3 DEF OthersSettle
  <2> QED
    BY <1>2, <1>3, <2>1 DEF Sees, OneOpen
<1>7. CronInv'
  BY <1>1 DEF CronInv
<1> QED
  BY <1>4, <1>5, <1>6, <1>7

-----------------------------------------------------------------------------
(* mf.soh.discrepancy *)

(* A user settles a record: the transaction's view and its own writes stay as
   they are, its row is outdated. *)
LEMMA RecordSettled ==
    ASSUME IInv, TypeOK', NEW d \in Records, NEW s \in {"investigated", "accepted"},
           disc' = [disc EXCEPT ![d].state = s],
           NEW ps \in SUBSET Product, cron' = Outdated(ps, {d}),
           \A p \in Product \ ps : quant'[p] = quant[p],
           \A u \in User : wizard'[u] \subseteq wizard[u]
    PROVE  IInv'
<1> USE DEF IInv
<1>1. d \in DiscId /\ disc \in [DiscId -> Disc \union {NoDisc}] /\ disc[d] \in Disc
  BY DEF TypeOK, Records, RecordsOf
<1>2. /\ disc'[d].state = s /\ disc'[d].product = disc[d].product
      /\ disc'[d].mf = disc[d].mf /\ disc'[d].odoo = disc[d].odoo
      /\ disc'[d] \in Disc
      /\ \A e \in DiscId \ {d} : disc'[e] = disc[e]
  BY <1>1 DEF Disc
<1>3. disc'[d] # NoDisc
  <2>1. \A r \in Disc : r.state # NoDisc.state
    BY DEF Disc, NoDisc
  <2> QED
    BY <1>2, <2>1
<1>4. Records' = Records
  BY <1>1, <1>2, <1>3 DEF Records, RecordsOf
<1>5. RecordInv'
  <2>1. \A e \in Records : Differs(disc'[e])
    BY <1>2 DEF RecordInv, Records, RecordsOf, Differs
  <2> QED
    BY <1>4, <2>1 DEF RecordInv
<1>6. AtMostOneOpen'
  <2> SUFFICES ASSUME NEW a \in Records, NEW b \in Records,
                      disc'[a].state = "open", disc'[b].state = "open",
                      disc'[a].product = disc'[b].product
               PROVE  a = b
    BY <1>4 DEF AtMostOneOpen, OneOpen, Records
  <2>1. a # d /\ b # d
    BY <1>2
  <2> QED
    BY <1>2, <2>1 DEF AtMostOneOpen, OneOpen, Records, RecordsOf
<1>7. CronInv'
  <2> SUFFICES ASSUME NEW v \in cron'
               PROVE  OthersSettle(v, disc') /\ Sees(v, disc') /\ LineByLine(v, quant')
    BY DEF CronInv
  <2>1. PICK t \in cron :
            /\ v.quantOutdated = t.quantOutdated \union ps
            /\ v.discOutdated = t.discOutdated \union {d}
            /\ v.report = t.report /\ v.todo = t.todo
            /\ v.quant = t.quant /\ v.disc = t.disc /\ v.discWritten = t.discWritten
    <3>1. /\ TypeOK /\ ps \in SUBSET Product /\ {d} \in SUBSET DiscId
          /\ cron' = Outdated(ps, {d})
      BY <1>1
    <3>2. \A x \in cron' : \E t \in cron :
                /\ x.quantOutdated = t.quantOutdated \union ps
                /\ x.discOutdated = t.discOutdated \union {d}
                /\ x.report = t.report /\ x.todo = t.todo
                /\ x.quant = t.quant /\ x.disc = t.disc
                /\ x.quantWritten = t.quantWritten /\ x.discWritten = t.discWritten
      BY <3>1, OutdatedIs
    <3> QED
      BY <3>2
  <2>2. OthersSettle(t, disc) /\ Sees(t, disc) /\ LineByLine(t, quant) /\ t \in Txn
    BY DEF CronInv, TypeOK
  <2>3. RecordsOf(disc') = RecordsOf(disc)
    BY <1>4 DEF Records
  <2>4. OthersSettle(v, disc')
    <3>1. \A e \in v.discOutdated : disc'[e].state # "open"
      BY <1>2, <2>1, <2>2 DEF OthersSettle, Txn
    <3>2. v.discOutdated \subseteq RecordsOf(disc)
      BY <2>1, <2>2 DEF OthersSettle, Records
    <3> QED
      BY <2>3, <3>1, <3>2 DEF OthersSettle
  <2>5. Sees(v, disc')
    <3>1. \A e \in DiscId \ (v.discWritten \union v.discOutdated) : v.disc[e] = disc'[e]
      BY <1>2, <2>1, <2>2 DEF Sees
    <3>2. \A e \in (v.discWritten \intersect RecordsOf(disc)) \ v.discOutdated :
                disc'[e].state = "open"
      BY <1>2, <2>1, <2>2 DEF Sees, RecordsOf
    <3> QED
      BY <2>1, <2>2, <2>3, <3>1, <3>2 DEF Sees
  <2>6. LineByLine(v, quant')
    BY <2>1, <2>2 DEF LineByLine
  <2> QED
    BY <2>4, <2>5, <2>6
<1> QED
  BY <1>5, <1>6, <1>7

LEMMA MarkInvestigatedIInv ==
    ASSUME IInv, NEW d \in DiscId, MarkInvestigated(d)
    PROVE  IInv'
<1>1. /\ d \in Records /\ disc' = [disc EXCEPT ![d].state = "investigated"]
      /\ cron' = Outdated({}, {d})
      /\ UNCHANGED <<quant, made, mail, wizard, moves>>
  BY DEF MarkInvestigated, MayInvestigate
<1>2. TypeOK /\ {} \in SUBSET Product /\ {d} \in SUBSET DiscId
  BY DEF IInv
<1>3. \A v \in cron' : v \in Txn /\ cron' = {v}
  BY <1>1, <1>2, OutdatedIs
<1>4. disc' \in [DiscId -> Disc \union {NoDisc}]
  <2>1. disc[d] \in Disc
    BY <1>1, <1>2 DEF TypeOK, Records, RecordsOf
  <2>2. [disc[d] EXCEPT !.state = "investigated"] \in Disc
    BY <2>1 DEF Disc
  <2> QED
    BY <1>1, <1>2, <2>2 DEF TypeOK
<1>5. TypeOK'
  BY <1>1, <1>2, <1>3, <1>4 DEF TypeOK
<1> QED
  BY <1>1, <1>2, <1>5, RecordSettled

LEMMA OpenWizardIInv ==
    ASSUME IInv, NEW u \in User, NEW d \in DiscId, OpenWizard(u, d)
    PROVE  IInv'
<1> USE DEF IInv
<1>1. /\ d \in Records /\ wizard' = [wizard EXCEPT ![u] = {d}]
      /\ UNCHANGED <<quant, disc, made, mail, cron, moves>>
  BY DEF OpenWizard
<1>2. TypeOK'
  BY <1>1 DEF TypeOK
<1>3. RecordInv' /\ CronInv' /\ AtMostOneOpen'
  BY <1>1 DEF TypeOK, RecordInv, CronInv, AtMostOneOpen, Records
<1> QED
  BY <1>2, <1>3

LEMMA AcceptIInv ==
    ASSUME IInv, NEW u \in User, Accept(u)
    PROVE  IInv'
<1>1. PICK d \in wizard[u] :
        /\ quant' = [quant EXCEPT ![disc[d].product] = disc[d].mf]
        /\ disc' = [disc EXCEPT ![d].state = "accepted"]
        /\ wizard' = [wizard EXCEPT ![u] = {}]
        /\ cron' = Outdated({disc[d].product}, {d})
        /\ UNCHANGED <<made, mail, moves>>
  BY DEF Accept
<1>2. TypeOK /\ d \in Records /\ d \in DiscId
  BY DEF IInv, RecordInv, Records, RecordsOf
<1>3. disc[d] \in Disc /\ disc[d].product \in Product /\ disc[d].mf \in Qty
  <2>1. disc[d] \in Disc
    BY <1>2 DEF TypeOK, Records, RecordsOf
  <2> QED
    BY <2>1 DEF Disc
<1>4. {disc[d].product} \in SUBSET Product /\ {d} \in SUBSET DiscId
  BY <1>2, <1>3
<1>5. \A v \in cron' : v \in Txn /\ cron' = {v}
  BY <1>1, <1>2, <1>4, OutdatedIs
<1>6. disc' \in [DiscId -> Disc \union {NoDisc}] /\ quant' \in [Product -> Qty]
  <2>1. [disc[d] EXCEPT !.state = "accepted"] \in Disc
    BY <1>3 DEF Disc
  <2> QED
    BY <1>1, <1>2, <1>3, <2>1 DEF TypeOK
<1>7. TypeOK'
  BY <1>1, <1>2, <1>5, <1>6 DEF TypeOK
<1>8. /\ \A p \in Product \ {disc[d].product} : quant'[p] = quant[p]
      /\ \A x \in User : wizard'[x] \subseteq wizard[x]
  BY <1>1, <1>2 DEF TypeOK
<1>9. IInv /\ "accepted" \in {"investigated", "accepted"}
  OBVIOUS
<1> QED
  BY <1>1, <1>2, <1>4, <1>7, <1>8, <1>9, RecordSettled

LEMMA CloseWizardIInv ==
    ASSUME IInv, NEW u \in User, CloseWizard(u)
    PROVE  IInv'
<1> USE DEF IInv
<1>1. /\ wizard' = [wizard EXCEPT ![u] = {}]
      /\ UNCHANGED <<quant, disc, made, mail, cron, moves>>
  BY DEF CloseWizard
<1>2. TypeOK'
  BY <1>1 DEF TypeOK
<1>3. RecordInv' /\ CronInv' /\ AtMostOneOpen'
  BY <1>1 DEF TypeOK, RecordInv, CronInv, AtMostOneOpen, Records
<1> QED
  BY <1>2, <1>3

LEMMA NextIInv == IInv /\ [Next]_vars => IInv'
<1> SUFFICES ASSUME IInv, [Next]_vars PROVE IInv'
  OBVIOUS
<1>1. ASSUME NEW lines \in Lines, MakeReport(lines) PROVE IInv'
  BY <1>1, MakeReportIInv
<1>2. ASSUME NEW p \in Product, NEW q \in Qty, StockMove(p, q) PROVE IInv'
  BY <1>2, StockMoveIInv
<1>3. ASSUME NEW r \in mail, BeginReport(r) PROVE IInv'
  BY <1>3, BeginReportIInv
<1>4. CASE ApplyLine \/ CommitReport \/ AbortReport
  BY <1>4, ApplyLineIInv, CommitReportIInv, AbortReportIInv
<1>5. ASSUME NEW d \in DiscId, MarkInvestigated(d) PROVE IInv'
  BY <1>5, MarkInvestigatedIInv
<1>6. ASSUME NEW u \in User, NEW d \in DiscId, OpenWizard(u, d) PROVE IInv'
  BY <1>6, OpenWizardIInv
<1>7. ASSUME NEW u \in User, Accept(u) \/ CloseWizard(u) PROVE IInv'
  BY <1>7, AcceptIInv, CloseWizardIInv
<1>8. CASE UNCHANGED vars
  BY <1>8 DEF vars, IInv, TypeOK, RecordInv, CronInv, AtMostOneOpen, Records
<1> QED
  BY <1>1, <1>2, <1>3, <1>4, <1>5, <1>6, <1>7, <1>8 DEF Next

-----------------------------------------------------------------------------
(* Results *)

(* The inductive invariant of the reports' transactions (inventory_report.py:87-181,
   soh_discrepancy.py). *)
THEOREM DiscrepancyInvariant == Spec => []IInv
<1> QED
  BY InitIInv, NextIInv, PTL DEF Spec

(* The variables keep their types, and one report is applied at a time. *)
THEOREM DiscrepancyTypes == Spec => []TypeOK
<1>1. IInv => TypeOK
  BY DEF IInv
<1> QED
  BY <1>1, DiscrepancyInvariant, PTL

(* A product has at most one open record, whatever users do to it while a report
   of any length is being applied (inventory_report.py:157-159). *)
THEOREM OneOpenRecord == Spec => []AtMostOneOpen
<1>1. IInv => AtMostOneOpen
  BY DEF IInv
<1> QED
  BY <1>1, DiscrepancyInvariant, PTL

(* No report and no click alters what was accepted (soh_discrepancy.py:36-95). *)
THEOREM AcceptedStays == Spec => AcceptedIsFinal
<1> DEFINE A == \A d \in Records : disc[d].state = "accepted" => disc'[d] = disc[d]
<1>1. IInv /\ [Next]_vars => [A]_vars
  <2> SUFFICES ASSUME IInv, Next, NEW d \in Records, disc[d].state = "accepted"
               PROVE  disc'[d] = disc[d]
    OBVIOUS
  <2>0. d \in DiscId /\ disc \in [DiscId -> Disc \union {NoDisc}]
    BY DEF IInv, TypeOK, Records, RecordsOf
  <2>1. ASSUME UNCHANGED disc PROVE disc'[d] = disc[d]
    BY <2>1
  <2>2. CASE \E lines \in Lines : MakeReport(lines)
    BY <2>1, <2>2 DEF MakeReport
  <2>3. CASE \E p \in Product, q \in Qty : StockMove(p, q)
    BY <2>1, <2>3 DEF StockMove
  <2>4. CASE (\E r \in mail : BeginReport(r)) \/ ApplyLine \/ AbortReport
    BY <2>1, <2>4 DEF BeginReport, ApplyLine, AbortReport
  <2>5. CASE CommitReport
    <3>1. PICK t \in cron :
            /\ ~Conflict(t)
            /\ disc' = [e \in DiscId |-> IF e \in t.discWritten THEN t.disc[e] ELSE disc[e]]
      BY <2>5 DEF CommitReport
    <3>2. d \notin t.discWritten
      BY <3>1 DEF IInv, CronInv, Sees, Conflict, Records
    <3> QED
      BY <2>0, <3>1, <3>2
  <2>6. CASE \E e \in DiscId : MarkInvestigated(e)
    <3>1. PICK e \in DiscId : MarkInvestigated(e)
      BY <2>6
    <3>2. e # d /\ disc' = [disc EXCEPT ![e].state = "investigated"]
      BY <3>1 DEF MarkInvestigated, MayInvestigate
    <3> QED
      BY <2>0, <3>2
  <2>7. CASE \E u \in User : (\E e \in DiscId : OpenWizard(u, e)) \/ CloseWizard(u)
    BY <2>1, <2>7 DEF OpenWizard, CloseWizard
  <2>8. CASE \E u \in User : Accept(u)
    <3>1. PICK u \in User : Accept(u)
      BY <2>8
    <3>2. PICK e \in wizard[u] : /\ disc[e].state # "accepted"
                                 /\ disc' = [disc EXCEPT ![e].state = "accepted"]
      BY <3>1 DEF Accept
    <3> QED
      BY <2>0, <3>2
  <2> QED
    BY <2>2, <2>3, <2>4, <2>5, <2>6, <2>7, <2>8 DEF Next
<1>2. Spec => [][A]_vars
  BY <1>1, DiscrepancyInvariant, PTL DEF Spec
<1> QED
  BY <1>2 DEF AcceptedIsFinal

(* A report moves the stock line by line within the tolerance, from what the stock
   is when the report commits, and as far as it got, for every tolerance
   (inventory_report.py:99-117, inbound_cron.py:129). *)
THEOREM DriftIsNeverSilent == Spec => NoSilentDrift
<1> DEFINE Moved(t, n) == \A p \in Product :
                            quant'[p] # quant[p] =>
                                LinesLead(p, quant[p], quant'[p], t.report.lines, n)
           A == \A t \in cron : cron' = {} =>
                    \E n \in 0 .. Len(t.report.lines) : Moved(t, n)
<1>1. IInv /\ [Next]_vars => [A]_vars
  <2> SUFFICES ASSUME IInv, Next, NEW t \in cron, cron' = {}
               PROVE  \E n \in 0 .. Len(t.report.lines) : Moved(t, n)
    OBVIOUS
  <2>1. t \in Txn /\ cron = {t}
    BY DEF IInv, TypeOK
  <2>l. Len(t.report.lines) \in Nat
    <3>1. t.report.lines \in SeqOf(Line, MaxLines)
      BY <2>1 DEF Txn, Report, Lines
    <3> QED BY <3>1, LinesAreSeqs
  <2>u. CASE UNCHANGED quant
    <3>1. 0 \in 0 .. Len(t.report.lines) /\ Moved(t, 0)
      BY <2>l, <2>u
    <3> QED BY <3>1
  <2>c. CASE quant' # quant
    <3>2. CommitReport
      <4>1. ASSUME UNCHANGED quant PROVE FALSE
        BY <4>1, <2>c
      <4>2. ASSUME NEW ps, NEW ds, cron' = Outdated(ps, ds) PROVE FALSE
        BY <2>1, <4>2 DEF Outdated
      <4>3. ASSUME NEW q \in Product, NEW n \in Qty, StockMove(q, n) PROVE FALSE
        BY <4>2, <4>3 DEF StockMove
      <4>4. ASSUME NEW u \in User, Accept(u) PROVE FALSE
        BY <4>2, <4>4 DEF Accept
      <4>5. ASSUME NEW lines \in Lines, MakeReport(lines) PROVE FALSE
        BY <4>1, <4>5 DEF MakeReport
      <4>6. ASSUME NEW r \in mail, BeginReport(r) PROVE FALSE
        BY <4>1, <4>6 DEF BeginReport
      <4>7. ASSUME ApplyLine \/ AbortReport PROVE FALSE
        BY <4>1, <4>7 DEF ApplyLine, AbortReport
      <4>8. ASSUME NEW d \in DiscId, MarkInvestigated(d) PROVE FALSE
        BY <4>1, <4>8 DEF MarkInvestigated
      <4>9. ASSUME NEW u \in User, (\E d \in DiscId : OpenWizard(u, d)) \/ CloseWizard(u)
            PROVE  FALSE
        BY <4>1, <4>9 DEF OpenWizard, CloseWizard
      <4> QED
        BY <4>3, <4>4, <4>5, <4>6, <4>7, <4>8, <4>9 DEF Next
    <3>3. /\ ~Conflict(t)
          /\ quant' = [q \in Product |-> IF q \in t.quantWritten THEN t.quant[q] ELSE quant[q]]
      BY <2>1, <3>2 DEF CommitReport
    <3>4. ASSUME NEW p \in Product, quant'[p] # quant[p]
          PROVE  quant'[p] = t.quant[p] /\ p \notin t.quantOutdated
      BY <3>3, <3>4 DEF Conflict
    <3> DEFINE n == Len(t.report.lines) - Len(t.todo)
    <3>5. LineByLine(t, quant)
      BY DEF IInv, CronInv
    <3>6. n \in 0 .. Len(t.report.lines)
      <4>1. Len(t.todo) \in Nat
        BY <2>1, LinesAreSeqs DEF Txn
      <4>2. n \in Nat
        BY <3>5 DEF LineByLine
      <4> DEFINE all == Len(t.report.lines)
                 rest == Len(t.todo)
      <4>3. all \in Nat /\ rest \in Nat /\ all - rest \in Nat
        BY <2>l, <4>1, <4>2
      <4> HIDE DEF all, rest
      <4>4. all - rest \in 0 .. all
        BY <4>3
      <4> QED BY <4>4 DEF all, rest
    <3>7. Moved(t, n)
      BY <3>4, <3>5 DEF LineByLine
    <3> QED
      BY <3>6, <3>7
  <2> QED BY <2>u, <2>c
<1>2. Spec => [][A]_vars
  BY <1>1, DiscrepancyInvariant, PTL DEF Spec
<1> QED
  BY <1>2 DEF NoSilentDrift

-----------------------------------------------------------------------------
(* The dashboard of KpiDashboard, of the same products and the same tolerance: what *)
(* the two comparisons with the tolerance mean for the figure users see.            *)

CONSTANTS Picking, Deadlines, Grace, Week, Month, Year, Weeks, MaxTime, MaxDiscs, MaxActs

VARIABLES now, picking, stock, records, drifted, losses, acts

Dashboard == INSTANCE KpiDashboard WITH quant <- stock, disc <- records

LEMMA OneIsMin == ASSUME NEW x \in Nat PROVE Dashboard!Min({x}) = x
BY DEF Dashboard!Min

LEMMA RecordsAreDiscs ==
    ASSUME Dashboard!TypeOK, NEW d \in DOMAIN records
    PROVE  /\ records[d] \in Dashboard!Disc
           /\ records[d].product \in Product
           /\ records[d].mf \in Qty /\ records[d].odoo \in Qty
<1>1. records[d] \in Dashboard!Disc
  BY DEF Dashboard!TypeOK
<1> QED BY <1>1 DEF Dashboard!Disc

(* The record that a report renews is the open one of its product. *)
LEMMA RenewsTheOpenOne ==
    ASSUME Dashboard!TypeOK, Dashboard!OneOpenEach, NEW p \in Product,
           NEW d \in Dashboard!OpenFor(p)
    PROVE  Dashboard!OpenFor(p) = {d} /\ Dashboard!Min(Dashboard!OpenFor(p)) = d
<1>1. d \in DOMAIN records /\ DOMAIN records \subseteq Nat
  BY DEF Dashboard!TypeOK, Dashboard!OpenFor
<1>2. Dashboard!OpenFor(p) = {d}
  BY DEF Dashboard!OneOpenEach, Dashboard!OpenFor, Dashboard!Settled
<1> QED
  BY <1>1, <1>2, OneIsMin

LEMMA DashboardInit ==
    ASSUME MaxTime \in Nat, MaxActs \in Nat, Dashboard!Init
    PROVE  Dashboard!IInv
<1> USE DEF Dashboard!Init
<1>1. Dashboard!TypeOK
  BY DEF Dashboard!TypeOK, Dashboard!Time
<1>2. Dashboard!OneOpenEach
  BY DEF Dashboard!OneOpenEach
<1>3. Dashboard!DriftIsRecorded
  BY DEF Dashboard!DriftIsRecorded
<1>4. Dashboard!OneDateEach
  BY DEF Dashboard!OneDateEach
<1> QED
  BY <1>1, <1>2, <1>3, <1>4 DEF Dashboard!IInv

LEMMA WriteKeeps ==
    ASSUME MaxActs \in Nat, MaxTime \in Nat, Dashboard!IInv, NEW p \in Picking, NEW s \in Dashboard!Status,
           Dashboard!Write(p, s)
    PROVE  Dashboard!IInv'
<1> USE DEF Dashboard!IInv, Dashboard!Write, Dashboard!Act
<1>1. Dashboard!TypeOK'
  <2> DEFINE Dates == SUBSET Dashboard!Time
             Row == [status : Dashboard!Status \union {Dashboard!None}, written : Dashboard!Time,
                     delivered : Dates, deadline : Deadlines]
  <2>1. now \in Dashboard!Time /\ picking \in [Picking -> Row]
    BY DEF Dashboard!TypeOK
  <2>2. PICK delivered :
            /\ delivered \in IF s = "mf_delivered"
                             THEN {{t} : t \in 0 .. now} \union {picking[p].delivered}
                             ELSE {picking[p].delivered}
            /\ picking' = [picking EXCEPT ![p].status = s, ![p].written = now,
                                          ![p].delivered = delivered]
    OBVIOUS
  <2>3. picking[p].delivered \in Dates /\ \A t \in 0 .. now : {t} \in Dates
    BY <2>1 DEF Dashboard!Time
  <2>5. delivered \in Dates
    BY <2>2, <2>3
  <2>6. picking' \in [Picking -> Row]
    <3> DEFINE new == [picking[p] EXCEPT !.status = s, !.written = now,
                                         !.delivered = delivered]
    <3>1. new \in Row
      <4> HIDE DEF Dates
      <4>1. picking[p] \in Row
        BY <2>1
      <4> QED BY <2>1, <2>5, <4>1
    <3>2. picking' = [picking EXCEPT ![p] = new]
      BY <2>1, <2>2
    <3> HIDE DEF Row, new
    <3> QED BY <2>1, <3>1, <3>2
  <2>4. acts' \in 0 .. MaxActs
    BY DEF Dashboard!TypeOK
  <2> QED
    BY <2>4, <2>6 DEF Dashboard!TypeOK
<1>2. Dashboard!OneOpenEach'
  BY DEF Dashboard!OneOpenEach, Dashboard!Settled
<1>3. Dashboard!DriftIsRecorded'
  BY DEF Dashboard!DriftIsRecorded, Dashboard!OpenFor
<1>4. Dashboard!OneDateEach'
  <2>1. PICK delivered :
            /\ \/ \E t \in 0 .. now : delivered = {t}
               \/ delivered = picking[p].delivered
            /\ picking' = [picking EXCEPT ![p].status = s, ![p].written = now,
                                          ![p].delivered = delivered]
    OBVIOUS
  <2>2. \A d, e \in delivered : d = e
    BY <2>1 DEF Dashboard!OneDateEach
  <2> QED
    BY <2>1, <2>2 DEF Dashboard!OneDateEach, Dashboard!TypeOK
<1> QED
  BY <1>1, <1>2, <1>3, <1>4

LEMMA ReportKeeps ==
    ASSUME MaxActs \in Nat, MaxTime \in Nat, Dashboard!IInv,
           NEW p \in Product, NEW mf \in Qty, Dashboard!Report(p, mf)
    PROVE  Dashboard!IInv'
<1> DEFINE rec == [state |-> "open", product |-> p, mf |-> mf, odoo |-> stock[p],
                   detected |-> now, accepted |-> 0]
<1> USE DEF Dashboard!IInv
<1>1. /\ now \in Dashboard!Time /\ now \in Nat /\ 0 \in Dashboard!Time
      /\ records \in Seq(Dashboard!Disc) /\ stock[p] \in Qty
  BY DEF Dashboard!TypeOK, Dashboard!Time
<1>2. rec \in Dashboard!Disc
  BY <1>1 DEF Dashboard!Disc
<1>3. /\ UNCHANGED <<now, picking, losses>>
      /\ acts < MaxActs /\ acts' = acts + 1 /\ Dashboard!OneDateEach'
  BY DEF Dashboard!Report, Dashboard!Act, Dashboard!OneDateEach
<1>4. CASE ~Dashboard!Drifts(mf, stock[p])
  <2>1. stock' = [stock EXCEPT ![p] = mf] /\ UNCHANGED <<records, drifted>>
    BY <1>4 DEF Dashboard!Report
  <2>2. Dashboard!TypeOK'
    BY <1>3, <2>1 DEF Dashboard!TypeOK
  <2>3. Dashboard!OneOpenEach' /\ Dashboard!DriftIsRecorded'
    BY <2>1 DEF Dashboard!OneOpenEach, Dashboard!Settled, Dashboard!DriftIsRecorded,
                Dashboard!OpenFor
  <2> QED BY <1>3, <2>2, <2>3
<1>5. CASE Dashboard!Drifts(mf, stock[p])
  <2>1. drifted' = [drifted EXCEPT ![p] = {now}] /\ UNCHANGED stock
    BY <1>5 DEF Dashboard!Report
  (* Either way there is one place where the new record is, and it is the only open
     one of the product. *)
  <2>2. PICK d \in DOMAIN records' :
            /\ records'[d] = rec /\ records' \in Seq(Dashboard!Disc)
            /\ DOMAIN records' = DOMAIN records \union {d}
            /\ d \in DOMAIN records => records[d].product = p
            /\ \A e \in DOMAIN records \ {d} :
                /\ records'[e] = records[e]
                /\ ~Dashboard!Settled(e, p)
    <3>1. CASE Dashboard!OpenFor(p) # {}
      <4>1. PICK d : d \in Dashboard!OpenFor(p)
        BY <3>1
      <4>2. Dashboard!OpenFor(p) = {d} /\ Dashboard!Min(Dashboard!OpenFor(p)) = d
        BY <4>1, RenewsTheOpenOne
      <4>3. records' = [records EXCEPT ![d] = rec]
        BY <1>5, <3>1, <4>2 DEF Dashboard!Report, Dashboard!DetectedAt
      <4>4. /\ d \in DOMAIN records /\ records[d].product = p
            /\ \A e \in DOMAIN records \ {d} : ~Dashboard!Settled(e, p)
        BY <4>2 DEF Dashboard!OpenFor, Dashboard!Settled
      <4>5. records' \in Seq(Dashboard!Disc)
        BY <1>1, <1>2, <4>3, <4>4
      <4> QED
        BY <1>1, <4>3, <4>4, <4>5
    <3>2. CASE Dashboard!OpenFor(p) = {}
      <4>1. records' = Append(records, rec)
        BY <1>5, <3>2 DEF Dashboard!Report, Dashboard!DetectedAt
      <4>2. \A e \in DOMAIN records : ~Dashboard!Settled(e, p)
        BY <3>2 DEF Dashboard!OpenFor, Dashboard!Settled
      <4> DEFINE d == Len(records) + 1
      <4>3. /\ d \in DOMAIN records' /\ records'[d] = rec /\ records' \in Seq(Dashboard!Disc)
            /\ DOMAIN records' = DOMAIN records \union {d}
            /\ \A e \in DOMAIN records : e # d /\ records'[e] = records[e]
        BY <1>1, <1>2, <4>1
      <4> QED
        BY <4>2, <4>3
    <3> QED BY <3>1, <3>2
  <2>3. Dashboard!TypeOK'
    <3>1. drifted' \in [Product -> SUBSET Dashboard!Time]
      BY <1>1, <2>1 DEF Dashboard!TypeOK
    <3> QED
      BY <1>3, <2>1, <2>2, <3>1 DEF Dashboard!TypeOK
  <2>4. Dashboard!OneOpenEach'
    <3> SUFFICES ASSUME NEW e \in DOMAIN records', NEW g \in DOMAIN records',
                        records'[e].state = "open", records'[g].state = "open",
                        records'[g].product = records'[e].product
                 PROVE  e = g
      BY DEF Dashboard!OneOpenEach, Dashboard!Settled
    <3>1. CASE e # d /\ g # d
      BY <2>2, <3>1 DEF Dashboard!OneOpenEach, Dashboard!Settled
    <3>2. CASE e = d \/ g = d
      BY <2>2, <3>2 DEF Dashboard!Settled
    <3> QED BY <3>1, <3>2
  <2>5. Dashboard!DriftIsRecorded'
    <3> SUFFICES ASSUME NEW q \in Product, NEW t \in drifted'[q]
                 PROVE  \E e \in DOMAIN records' :
                            /\ records'[e].product = q /\ records'[e].state = "open"
                            /\ records'[e].detected = t
                            /\ Dashboard!Drifts(records'[e].mf, records'[e].odoo)
      BY DEF Dashboard!DriftIsRecorded, Dashboard!OpenFor, Dashboard!Drifts, Dashboard!Abs
    <3>1. CASE q = p
      <4>1. t = now
        BY <2>1, <3>1 DEF Dashboard!TypeOK
      <4> QED BY <1>5, <2>2, <3>1, <4>1
    <3>2. CASE q # p
      <4>1. t \in drifted[q]
        BY <2>1, <3>2 DEF Dashboard!TypeOK
      <4>2. PICK e \in Dashboard!OpenFor(q) :
                records[e].detected = t /\ Dashboard!Drifts(records[e].mf, records[e].odoo)
        BY <4>1 DEF Dashboard!DriftIsRecorded
      <4>3. e \in DOMAIN records /\ records[e].product = q /\ records[e].state = "open"
        BY <4>2 DEF Dashboard!OpenFor
      <4>4. e # d
        BY <2>2, <3>2, <4>3
      <4> QED BY <2>2, <4>2, <4>3, <4>4
    <3> QED BY <3>1, <3>2
  <2> QED BY <1>3, <2>3, <2>4, <2>5
<1> QED BY <1>4, <1>5

(* What is settled need not be recorded as open any longer, and nothing else changes. *)
LEMMA SettlingKeeps ==
    ASSUME MaxActs \in Nat, MaxTime \in Nat, Dashboard!IInv, NEW d \in DOMAIN records,
           Dashboard!Investigate(d) \/ Dashboard!Accept(d)
    PROVE  Dashboard!IInv'
<1> USE DEF Dashboard!IInv
<1>1. /\ now \in Dashboard!Time /\ now \in Nat /\ records \in Seq(Dashboard!Disc)
      /\ records[d] \in Dashboard!Disc /\ records[d].mf \in Int /\ records[d].odoo \in Int
      /\ records[d].product \in Product /\ records[d].mf \in Qty
  <2>1. now \in Dashboard!Time /\ records \in Seq(Dashboard!Disc)
    BY DEF Dashboard!TypeOK
  <2>2. now \in Nat
    BY <2>1 DEF Dashboard!Time
  <2>3. /\ records[d] \in Dashboard!Disc /\ records[d].product \in Product
        /\ records[d].mf \in Qty /\ records[d].odoo \in Qty
    BY RecordsAreDiscs
  <2>4. \A n \in Qty : n \in Int
    BY SohAssumption
  <2> QED BY <2>1, <2>2, <2>3, <2>4
<1>2. /\ UNCHANGED <<now, picking>>
      /\ acts < MaxActs /\ acts' = acts + 1
      /\ drifted' = [p \in Product |-> IF Dashboard!Settled(d, p) THEN {} ELSE drifted[p]]
  BY DEF Dashboard!Investigate, Dashboard!Accept, Dashboard!Act
<1>3. PICK r \in Dashboard!Disc : /\ records' = [records EXCEPT ![d] = r]
                       /\ r.state # "open" /\ r.product = records[d].product
  <2>1. CASE Dashboard!Investigate(d)
    <3> DEFINE r == [records[d] EXCEPT !.state = "investigated"]
    <3>1. r \in Dashboard!Disc /\ r.state # "open" /\ r.product = records[d].product
      BY <1>1 DEF Dashboard!Disc
    <3>2. records' = [records EXCEPT ![d] = r]
      BY <2>1 DEF Dashboard!Investigate
    <3> QED BY <3>1, <3>2
  <2>2. CASE Dashboard!Accept(d)
    <3> DEFINE r == [records[d] EXCEPT !.state = "accepted", !.accepted = now]
    <3>1. r \in Dashboard!Disc /\ r.state # "open" /\ r.product = records[d].product
      BY <1>1 DEF Dashboard!Disc
    <3>2. records' = [records EXCEPT ![d] = r]
      BY <2>2 DEF Dashboard!Accept
    <3> QED BY <3>1, <3>2
  <2> QED BY <2>1, <2>2
<1>4. /\ records' \in Seq(Dashboard!Disc) /\ DOMAIN records' = DOMAIN records
      /\ \A e \in DOMAIN records : records'[e] = IF e = d THEN r ELSE records[e]
  BY <1>1, <1>3
<1>5. Dashboard!TypeOK'
  <2>1. stock' \in [Product -> Qty]
    BY <1>1 DEF Dashboard!Investigate, Dashboard!Accept, Dashboard!TypeOK
  <2>2. losses' \in Seq([at : Dashboard!Time, units : Int])
    <3>1. losses \in Seq([at : Dashboard!Time, units : Int])
      BY DEF Dashboard!TypeOK
    <3>2. [at |-> now, units |-> records[d].odoo - records[d].mf]
            \in [at : Dashboard!Time, units : Int]
      BY <1>1
    <3> DEFINE Entry == [at : Dashboard!Time, units : Int]
               entry == [at |-> now, units |-> records[d].odoo - records[d].mf]
    <3>3. losses' = losses \/ losses' = Append(losses, entry)
      BY DEF Dashboard!Investigate, Dashboard!Accept
    <3>4. losses \in Seq(Entry) /\ entry \in Entry
      BY <3>1, <3>2
    <3>5. losses' \in Seq(Entry)
      <4> HIDE DEF Entry, entry
      <4> QED BY <3>3, <3>4
    <3> QED BY <3>5
  <2>3. drifted' \in [Product -> SUBSET Dashboard!Time]
    BY <1>2 DEF Dashboard!TypeOK
  <2> QED
    BY <1>2, <1>4, <2>1, <2>2, <2>3 DEF Dashboard!TypeOK
<1>6. Dashboard!OneOpenEach'
  BY <1>3, <1>4 DEF Dashboard!OneOpenEach, Dashboard!Settled
<1>7. Dashboard!DriftIsRecorded'
  <2> SUFFICES ASSUME NEW q \in Product, NEW t \in drifted'[q]
               PROVE  \E e \in DOMAIN records' :
                          /\ records'[e].product = q /\ records'[e].state = "open"
                          /\ records'[e].detected = t
                          /\ Dashboard!Drifts(records'[e].mf, records'[e].odoo)
    BY DEF Dashboard!DriftIsRecorded, Dashboard!OpenFor, Dashboard!Drifts, Dashboard!Abs
  <2>1. t \in drifted[q] /\ ~Dashboard!Settled(d, q)
    BY <1>2
  <2>2. PICK e \in Dashboard!OpenFor(q) :
            records[e].detected = t /\ Dashboard!Drifts(records[e].mf, records[e].odoo)
    BY <2>1 DEF Dashboard!DriftIsRecorded
  <2>3. e \in DOMAIN records /\ e # d
    BY <2>1, <2>2 DEF Dashboard!OpenFor, Dashboard!Settled
  <2> QED
    BY <1>4, <2>2, <2>3 DEF Dashboard!OpenFor
<1>8. Dashboard!OneDateEach'
  BY DEF Dashboard!Investigate, Dashboard!Accept, Dashboard!OneDateEach
<1> QED BY <1>5, <1>6, <1>7, <1>8

LEMMA TickKeeps ==
    ASSUME MaxActs \in Nat, MaxTime \in Nat, Dashboard!IInv, Dashboard!Tick
    PROVE  Dashboard!IInv'
<1> USE DEF Dashboard!IInv, Dashboard!Tick
<1>1. now + 1 \in Dashboard!Time
  BY DEF Dashboard!TypeOK, Dashboard!Time
<1>2. Dashboard!TypeOK'
  BY <1>1 DEF Dashboard!TypeOK
<1>3. Dashboard!OneOpenEach' /\ Dashboard!DriftIsRecorded' /\ Dashboard!OneDateEach'
  BY DEF Dashboard!OneOpenEach, Dashboard!Settled, Dashboard!DriftIsRecorded,
         Dashboard!OpenFor, Dashboard!OneDateEach
<1> QED BY <1>2, <1>3

(* What the dashboard is made of: one open record of a product, renewed by every report
   that finds a drift and settled by users only (inventory_report.py:107-167). *)
THEOREM DashboardInvariant ==
    ASSUME MaxTime \in Nat, MaxActs \in Nat
    PROVE  Dashboard!Spec => []Dashboard!IInv
<1>1. Dashboard!Init => Dashboard!IInv
  BY DashboardInit
<1>2. Dashboard!IInv /\ [Dashboard!Next]_(Dashboard!vars) => Dashboard!IInv'
  <2> SUFFICES ASSUME Dashboard!IInv, [Dashboard!Next]_(Dashboard!vars)
               PROVE  Dashboard!IInv'
    OBVIOUS
  <2>1. CASE UNCHANGED Dashboard!vars
    BY <2>1 DEF Dashboard!vars, Dashboard!IInv, Dashboard!TypeOK, Dashboard!OneOpenEach,
                Dashboard!Settled, Dashboard!DriftIsRecorded, Dashboard!OpenFor,
                Dashboard!OneDateEach
  <2> QED
    BY <2>1, WriteKeeps, ReportKeeps, SettlingKeeps, TickKeeps DEF Dashboard!Next
<1> QED
  BY <1>1, <1>2, PTL DEF Dashboard!Spec

(* The two comparisons are those of the dashboard. *)
LEMMA RecordedDriftCounts ==
    ASSUME TolerancePerMille < 1000,
           NEW mf \in Nat, NEW odoo \in Nat, odoo <= 2000, Dashboard!Drifts(mf, odoo)
    PROVE  Dashboard!Exceeds(odoo, mf)
<1>1. Drifts(mf, odoo)
  BY DEF Drifts, Abs, Dashboard!Drifts, Dashboard!Abs
<1>2. Exceeds(odoo, mf)
  BY <1>1, WhatDriftedCounts
<1> QED
  BY <1>2 DEF Exceeds, VariancePct, Abs, Dashboard!Exceeds, Dashboard!VariancePct,
              Dashboard!Abs

LEMMA RecordedIsFlagged ==
    ASSUME \A q \in Qty : 0 <= q /\ q <= 2000, TolerancePerMille < 1000,
           Dashboard!IInv
    PROVE  Dashboard!FlaggedCounts
<1> SUFFICES ASSUME NEW p \in Product, NEW t \in drifted[p], t >= Dashboard!Since(Month)
             PROVE  p \in Dashboard!SkusWithDiscrepancy
  BY DEF Dashboard!FlaggedCounts
<1>1. PICK d \in Dashboard!OpenFor(p) :
          records[d].detected = t /\ Dashboard!Drifts(records[d].mf, records[d].odoo)
  BY DEF Dashboard!IInv, Dashboard!DriftIsRecorded
<1>2. d \in DOMAIN records /\ records[d].product = p /\ records[d].state = "open"
  BY DEF Dashboard!OpenFor
<1>3. records[d].mf \in Qty /\ records[d].odoo \in Qty
  BY <1>2, RecordsAreDiscs DEF Dashboard!IInv
<1>4. Dashboard!Exceeds(records[d].odoo, records[d].mf)
  <2>1. PICK mf \in Qty, odoo \in Qty : mf = records[d].mf /\ odoo = records[d].odoo
    BY <1>3
  <2>2. mf \in Nat /\ odoo \in Nat /\ odoo <= 2000
    BY SohAssumption
  <2>3. Dashboard!Exceeds(odoo, mf)
    BY <1>1, <2>1, <2>2, RecordedDriftCounts
  <2> QED BY <2>1, <2>3
<1> QED
  BY <1>1, <1>2, <1>4 DEF Dashboard!SkusWithDiscrepancy

(* With quantities from 0 to 2000 and a tolerance under 100 %, a drift counts on the dashboard
   from the report that found it until a user settles it or the window has passed it by,
   though the one compares quantities and the other a rounded percentage
   (inventory_report.py:107-112, kpi_dashboard.py:215-224). *)
THEOREM DriftsCountUntilSettled ==
    ASSUME MaxTime \in Nat, MaxActs \in Nat,
           \A q \in Qty : 0 <= q /\ q <= 2000, TolerancePerMille < 1000
    PROVE  Dashboard!Spec => []Dashboard!FlaggedCounts
<1>1. Dashboard!IInv => Dashboard!FlaggedCounts
  BY RecordedIsFlagged
<1> QED
  BY <1>1, DashboardInvariant, PTL

-----------------------------------------------------------------------------
(* The figures *)

(* The dashboard's cardinality is the library's. *)
LEMMA SameCardinality ==
    ASSUME NEW S
    PROVE  Dashboard!Cardinality(S) = Cardinality(S)
BY DEF Cardinality, Dashboard!Cardinality

(* A rounded share of a total is a share. *)
LEMMA PercentIsShare ==
    ASSUME NEW n \in Nat, NEW total \in Nat, total > 0, n <= total
    PROVE  Dashboard!Percent(n, total) \in Nat /\ Dashboard!Percent(n, total) <= 10000
<1> DEFINE a == 20000 * n + total
           d == 2 * total
<1>1. a \in Nat /\ d \in Nat /\ d > 0 /\ a < 10001 * d
  OBVIOUS
<1> HIDE DEF a, d
<1>2. PICK q : q = a \div d
  OBVIOUS
<1>3. q \in Nat /\ q * d <= a
  BY <1>1, <1>2
<1>4. q < 10001
  <2> SUFFICES ASSUME q >= 10001 PROVE FALSE
    BY <1>3
  <2>1. q * d >= 10001 * d
    BY <1>1, <1>3
  <2> QED BY <1>1, <1>3, <2>1
<1> QED
  BY <1>2, <1>3, <1>4 DEF a, d, Dashboard!Percent

(* The week that is a ticks and one ago. *)
LEMMA WeekOf ==
    ASSUME NEW a \in Nat, NEW k \in Nat, k > 0, NEW i \in Nat
    PROVE  i * k <= a /\ a < (i + 1) * k <=> i = a \div k
<1>1. PICK q, m : q = a \div k /\ m = a % k
  OBVIOUS
<1>2. q \in Nat /\ m \in Nat /\ m < k /\ a = q * k + m
  BY <1>1
<1>3. CASE i < q
  <2>1. (i + 1) * k <= q * k
    BY <1>2, <1>3
  <2> QED BY <1>1, <1>2, <1>3, <2>1
<1>4. CASE i > q
  <2>1. (q + 1) * k <= i * k
    BY <1>2, <1>4
  <2>2. (q + 1) * k = q * k + k
    BY <1>2
  <2> QED BY <1>1, <1>2, <1>4, <2>1, <2>2
<1>5. CASE i = q
  <2>1. (q + 1) * k = q * k + k
    BY <1>2
  <2> QED BY <1>1, <1>2, <1>5, <2>1
<1> QED
  BY <1>2, <1>3, <1>4, <1>5

(* The week a picking was last written in is the only one that counts it. *)
LEMMA CountedInOneWeek ==
    ASSUME Dashboard!TypeOK, MaxTime \in Nat,
           Week \in Nat, Week > 0, Weeks \in Nat, Weeks > 0
    PROVE  Dashboard!OneWeekEach
<1> SUFFICES ASSUME NEW p \in Picking
             PROVE  Cardinality(Dashboard!CountedIn(p)) =
                        IF /\ picking[p].status \in Dashboard!TrendStatuses
                           /\ picking[p].written \in now - Weeks * Week .. now - 1
                        THEN 1 ELSE 0
  BY SameCardinality DEF Dashboard!OneWeekEach
<1> DEFINE s == picking[p].status
           w == picking[p].written
           a == now - w - 1
           q == a \div Week
<1>1. now \in Nat /\ w \in Nat
  BY DEF Dashboard!TypeOK, Dashboard!Time
<1>2. ASSUME NEW i \in Nat
      PROVE  Dashboard!InWeek(p, i) <=> a \in Nat /\ i = q
  <2>1. i * Week \in Nat /\ (i + 1) * Week \in Nat
    OBVIOUS
  <2>2. Dashboard!InWeek(p, i) <=> a \in Nat /\ i * Week <= a /\ a < (i + 1) * Week
    <3> DEFINE x == i * Week
               y == (i + 1) * Week
    <3>1. Dashboard!InWeek(p, i) <=> now - y <= w /\ w < now - x
      BY DEF Dashboard!InWeek
    <3>2. x \in Nat /\ y \in Nat
      BY <2>1
    <3> HIDE DEF x, y
    <3>3. Dashboard!InWeek(p, i) <=> a \in Nat /\ x <= a /\ a < y
      BY <1>1, <3>1, <3>2
    <3> QED BY <3>3 DEF x, y
  <2>3. CASE a \in Nat
    <3> HIDE DEF a
    <3> QED BY <2>2, <2>3, WeekOf
  <2> QED BY <2>2, <2>3
<1>3. \A i \in Nat, t \in Dashboard!TrendStatuses :
          p \in Dashboard!Trend(i, t) <=> s = t /\ a \in Nat /\ i = q
  BY <1>2 DEF Dashboard!Trend, Dashboard!HasStatus
<1>4. a \in Nat => q \in Nat
  <2> SUFFICES ASSUME a \in Nat PROVE q \in Nat
    OBVIOUS
  <2> HIDE DEF a
  <2> QED OBVIOUS
<1>5. a \in Nat => (q < Weeks <=> a < Weeks * Week)
  <2> SUFFICES ASSUME a \in Nat PROVE q < Weeks <=> a < Weeks * Week
    OBVIOUS
  <2> HIDE DEF a, q
  <2>1. q * Week <= a /\ a < (q + 1) * Week
    BY <1>4, WeekOf DEF q
  <2>2. CASE q < Weeks
    <3>1. (q + 1) * Week <= Weeks * Week
      BY <1>4, <2>2
    <3> QED BY <1>4, <2>1, <2>2, <3>1
  <2>3. CASE q >= Weeks
    <3>1. Weeks * Week <= q * Week
      BY <1>4, <2>3
    <3> QED BY <1>4, <2>1, <2>3, <3>1
  <2> QED BY <1>4, <2>2, <2>3
<1>6. w \in now - Weeks * Week .. now - 1 <=> a \in Nat /\ a < Weeks * Week
  <2> DEFINE all == Weeks * Week
  <2>1. all \in Nat
    OBVIOUS
  <2> HIDE DEF all
  <2>2. w \in now - all .. now - 1 <=> a \in Nat /\ a < all
    BY <1>1, <2>1
  <2> QED BY <2>2 DEF all
<1> HIDE DEF a, q
<1>7. CASE s \in Dashboard!TrendStatuses /\ w \in now - Weeks * Week .. now - 1
  <2>1. a \in Nat /\ q \in 0 .. Weeks - 1
    BY <1>4, <1>5, <1>6, <1>7
  <2>2. Dashboard!CountedIn(p) = {<<q, s>>}
    BY <1>3, <1>7, <2>1 DEF Dashboard!CountedIn
  <2> QED
    BY <1>7, <2>2, FS_Singleton
<1>8. CASE ~(s \in Dashboard!TrendStatuses /\ w \in now - Weeks * Week .. now - 1)
  <2>1. Dashboard!CountedIn(p) = {}
    BY <1>3, <1>5, <1>6, <1>8 DEF Dashboard!CountedIn
  <2> QED
    BY <1>8, <2>1, FS_EmptySet
<1> QED
  BY <1>7, <1>8

(* With one date each, on time and late are opposites. *)
LEMMA LateOrOnTime ==
    ASSUME Dashboard!TypeOK, Dashboard!OneDateEach, MaxTime \in Nat, Grace \in Nat,
           \A dates \in Deadlines : dates \subseteq Nat /\ \A d, e \in dates : d = e
    PROVE  Dashboard!OnTimeIsNotLate
<1> DEFINE D == Dashboard!DeliveredSince(Dashboard!Since(Month))
<1> SUFFICES ASSUME NEW p \in D
             PROVE  \/ picking[p].deadline = {}
                    \/ \E d \in picking[p].delivered, e \in picking[p].deadline : d <= e + Grace
                 <=> \A d \in picking[p].delivered, e \in picking[p].deadline : d - e <= Grace
  BY DEF Dashboard!OnTimeIsNotLate, Dashboard!OnTime
<1>1. p \in Picking
  BY DEF Dashboard!DeliveredSince
<1>2. PICK d \in picking[p].delivered : TRUE
  BY DEF Dashboard!DeliveredSince
<1>3. picking[p].delivered = {d} /\ d \in Nat
  BY <1>1, <1>2 DEF Dashboard!OneDateEach, Dashboard!TypeOK, Dashboard!Time
<1>4. picking[p].deadline \in Deadlines
  BY <1>1 DEF Dashboard!TypeOK
<1>5. CASE picking[p].deadline = {}
  BY <1>5
<1>6. CASE picking[p].deadline # {}
  <2>1. PICK e \in Nat : picking[p].deadline = {e}
    BY <1>4, <1>6
  <2> QED
    BY <1>3, <2>1
<1> QED
  BY <1>5, <1>6

(* A part of a whole. *)
LEMMA PartOfWhole ==
    ASSUME NEW S, NEW T, IsFiniteSet(T), S \subseteq T
    PROVE  /\ Cardinality(S) \in Nat /\ Cardinality(T) \in Nat
           /\ Cardinality(S) <= Cardinality(T)
           /\ Cardinality(T) = 0 <=> T = {}
BY FS_Subset, FS_CardinalityType, FS_EmptySet

LEMMA FiguresAreShares ==
    ASSUME Dashboard!TypeOK, IsFiniteSet(Picking), IsFiniteSet(Product)
    PROVE  Dashboard!Shares
<1>0. \A n, total \in Nat :
          total # 0 /\ n <= total =>
              Dashboard!Percent(n, total) \in Nat /\ Dashboard!Percent(n, total) <= 10000
  BY PercentIsShare
<1>1. /\ Dashboard!Difot \in Nat /\ Dashboard!Difot <= 10000
      /\ ~Dashboard!DataAvailable => Dashboard!Difot = 10000
  <2> DEFINE T == Dashboard!DeliveredSince(Dashboard!Since(Month))
             S == Dashboard!OnTime(Dashboard!Since(Month))
  <2>1. S \subseteq T /\ T \subseteq Picking
    BY DEF Dashboard!OnTime, Dashboard!DeliveredSince
  <2>2. IsFiniteSet(T)
    BY <2>1, FS_Subset
  <2>3. /\ Cardinality(S) \in Nat /\ Cardinality(T) \in Nat
        /\ Cardinality(S) <= Cardinality(T)
        /\ Cardinality(T) = 0 <=> T = {}
    BY <2>1, <2>2, PartOfWhole
  <2>4. ~Dashboard!DataAvailable => T = {}
    BY DEF Dashboard!DataAvailable, Dashboard!DeliveredSince, Dashboard!HasStatus,
           Dashboard!None
  <2>5. Dashboard!Difot = IF Cardinality(T) = 0 THEN 10000
                          ELSE Dashboard!Percent(Cardinality(S), Cardinality(T))
    BY SameCardinality DEF Dashboard!Difot
  <2> HIDE DEF S, T
  <2>6. Cardinality(T) # 0 =>
            /\ Dashboard!Percent(Cardinality(S), Cardinality(T)) \in Nat
            /\ Dashboard!Percent(Cardinality(S), Cardinality(T)) <= 10000
    BY <1>0, <2>3
  <2> QED
    BY <2>3, <2>4, <2>5, <2>6
<1>2. Dashboard!Ira \in Nat /\ Dashboard!Ira <= 10000
  <2> DEFINE total == Cardinality(Dashboard!Tracked)
             left == total - Cardinality(Dashboard!SkusWithDiscrepancy)
  <2>1. /\ Dashboard!Tracked \subseteq Product
        /\ Dashboard!SkusWithDiscrepancy \subseteq Product
    BY RecordsAreDiscs DEF Dashboard!Tracked, Dashboard!SkusWithDiscrepancy
  <2>2. total \in Nat /\ left \in Int /\ left <= total
    BY <2>1, PartOfWhole
  <2>3. Dashboard!Ira = IF total = 0 THEN 10000
                        ELSE Dashboard!Percent(IF left < 0 THEN 0 ELSE left, total)
    BY SameCardinality DEF Dashboard!Ira
  <2> DEFINE n == IF left < 0 THEN 0 ELSE left
  <2>4. n \in Nat /\ n <= total
    BY <2>2
  <2> HIDE DEF n, total, left
  <2>5. total # 0 => Dashboard!Percent(n, total) \in Nat
                      /\ Dashboard!Percent(n, total) <= 10000
    BY <1>0, <2>2, <2>4
  <2> QED
    BY <2>3, <2>5 DEF n
<1>3. /\ Dashboard!ExceptionRate \in Nat /\ Dashboard!ExceptionRate <= 10000
      /\ ~Dashboard!DataAvailable => Dashboard!ExceptionRate = 0
  <2> DEFINE T == {p \in Picking : /\ ~Dashboard!HasStatus(p, Dashboard!None)
                                   /\ Dashboard!WrittenSince(p, Dashboard!Since(Month))}
             S == {p \in Picking : /\ Dashboard!HasStatus(p, "mf_exception")
                                   /\ Dashboard!WrittenSince(p, Dashboard!Since(Month))}
  <2>1. S \subseteq T /\ T \subseteq Picking
    BY DEF Dashboard!HasStatus, Dashboard!None
  <2>2. IsFiniteSet(T)
    BY <2>1, FS_Subset
  <2>3. /\ Cardinality(S) \in Nat /\ Cardinality(T) \in Nat
        /\ Cardinality(S) <= Cardinality(T)
        /\ Cardinality(T) = 0 <=> T = {}
    BY <2>1, <2>2, PartOfWhole
  <2>4. ~Dashboard!DataAvailable => T = {}
    BY DEF Dashboard!DataAvailable
  <2>5. Dashboard!ExceptionRate = IF T = {} THEN 0
                                  ELSE Dashboard!Percent(Cardinality(S), Cardinality(T))
    BY SameCardinality DEF Dashboard!ExceptionRate
  <2> HIDE DEF S, T
  <2>6. T # {} =>
            /\ Dashboard!Percent(Cardinality(S), Cardinality(T)) \in Nat
            /\ Dashboard!Percent(Cardinality(S), Cardinality(T)) <= 10000
    BY <1>0, <2>3
  <2> QED
    BY <2>3, <2>4, <2>5, <2>6
<1>4. {Dashboard!Difot, Dashboard!Ira, Dashboard!ExceptionRate} \subseteq 0 .. 10000
  <2>1. \A x \in Nat : x <= 10000 => x \in 0 .. 10000
    OBVIOUS
  <2>2. Dashboard!Difot \in 0 .. 10000
    BY <1>1, <2>1
  <2>3. Dashboard!Ira \in 0 .. 10000
    BY <1>2, <2>1
  <2>4. Dashboard!ExceptionRate \in 0 .. 10000
    BY <1>3, <2>1
  <2> QED BY <2>2, <2>3, <2>4
<1> QED
  BY <1>1, <1>3, <1>4 DEF Dashboard!Shares

(* The dashboard's figures agree with what they are said to count, all but the sum of the
   losses: a delivered picking is late or on time, a picking counts in one week of the
   trend at most and a recent one in none, and every share is one, also where there is
   nothing to divide by (kpi_dashboard.py:131-252). *)
THEOREM FiguresAgree ==
    ASSUME MaxTime \in Nat, MaxActs \in Nat, Grace \in Nat,
           Week \in Nat, Week > 0, Weeks \in Nat, Weeks > 0,
           \A dates \in Deadlines : dates \subseteq Nat /\ \A d, e \in dates : d = e,
           IsFiniteSet(Picking), IsFiniteSet(Product)
    PROVE  Dashboard!Spec => [](/\ Dashboard!OnTimeIsNotLate
                                /\ Dashboard!OneWeekEach
                                /\ Dashboard!Shares)
<1>1. Dashboard!IInv => /\ Dashboard!OnTimeIsNotLate
                        /\ Dashboard!OneWeekEach
                        /\ Dashboard!Shares
  BY LateOrOnTime, CountedInOneWeek, FiguresAreShares DEF Dashboard!IInv
<1> QED
  BY <1>1, DashboardInvariant, PTL
===============================================================================
