# TLA+ verification of the MML 3PL integration for Odoo

The repository connects Odoo to a third-party logistics partner (Mainfreight).
Sale orders and products go out as messages of a queue table; order
acknowledgements, shipment confirmations and stock reports come back through an
SFTP mailbox; crons track consignments, reconcile orders and route them to
warehouses.  Most of it runs in concurrent PostgreSQL transactions of cron
workers and users, against a partner that answers late, twice or never.  That is
what is modelled here, checked with TLC and, for the most part of its safety, proved
with TLAPS.

`core` stands for `src/addons/stock_3pl_core`, `mf` for
`src/addons/stock_3pl_mainfreight`.

## 1. Inventory

| Part | Source | State it keeps | Operations | Module |
|---|---|---|---|---|
| outbound message queue | `core/models/message.py`, `core/data/cron.xml`, `core/views/message_views.xml` | rows of `stock_3pl_message`: state, retry count, next retry, activity | the job `_process_outbound_queue` (search, claim, send loop, commit), failure and dead-letter handling, Requeue | `OutboundQueue`, `OutboundDelivery` |
| transports | `core/transport/*.py`, `mf/transport/*.py` | none (the SFTP mailbox is the partner's) | `send`, `poll`, `get_tracking_status`, `get_stock_on_hand` | outcomes in the modules that call them |
| enqueue hooks | `mf/models/sale_order_hook.py`, `product_hook.py`, `core/services/tpl_service.py` | rows of the queue, under `UNIQUE(connector_id, idempotency_key)` | `action_confirm`, product `write` | `EnqueueHooks` |
| inbound pipeline | `core/models/message.py` (`_poll_inbound`), `mf/models/inbound_cron.py`, `core/transport/sftp.py` | files in the mailbox, inbound messages | two crons that poll one mailbox, deduplication, dispatch | `InboundPipeline`, `InboundDelivery` |
| stock-on-hand discrepancies | `mf/document/inventory_report.py`, `mf/models/soh_discrepancy.py`, `mf/wizard/accept_discrepancy_wizard.py` | `stock.quant`, `mf.soh.discrepancy` | apply a report, investigate, accept | `SohDiscrepancy`, `Tolerance` |
| picking status | `mf/models/picking_mf.py`, `tracking_cron.py`, `inbound_cron.py`, `mf/document/so_*.py`, `mf/wizard/reassign_warehouse_wizard.py` | `x_mf_status`, `x_mf_connote` of the pickings | acknowledgement, confirmation, tracking, reconciliation, user actions | `PickingStatus` |
| routing and split | `mf/models/route_engine.py`, `split_engine.py`, `push_cron.py` | the order's pickings and the moves in them | assign lines to warehouses, split pickings, repeat | `SplitRouting` |
| documents | `core/models/document_base.py`, `mf/document/*.py` | none | build and parse XML and CSV, the idempotency key | the key in `EnqueueHooks`; the rest is formatting |
| connector configuration | `core/models/connector.py`, `mf/models/connector_*.py`, `warehouse_mf.py` | settings | which connector is active, which warehouse it serves | as far as `EnqueueHooks` needs it |
| credential store | `core/utils/credential_store.py`, `core/models/connector.py` | a master key in `ir.config_parameter`, encrypted fields | create the key, encrypt, copy, decrypt | `CredentialStore` |
| tracking cron and alert throttle | `mf/models/tracking_cron.py` | the time of the last alert, the pickings' statuses | search, poll, one alert an hour per module, commit | `TrackingCron`; the statuses in `PickingStatus` |
| KPI dashboard | `mf/models/kpi_dashboard.py` | none | roll-ups of pickings, stock and discrepancies | `KpiDashboard`, `Tolerance` |
| order delivery status | `mf/models/sale_order_mf.py` | none | a roll-up that is always empty (section 5) | not modelled |
| webhook, registry hooks, stub wizards, views | `mf/controllers/webhook.py`, `core/hooks.py`, ... | none | no change of state | not modelled |

How they interact:

- The hooks insert rows in state `queued`; the outbound job, and nothing else,
  drains them.  The unique constraint is all that keeps two hooks apart.
- The job commits once per batch.  What it writes is invisible until then, and a
  rollback takes it back; what the partner received is not taken back.
- The two inbound crons share the mailbox and the inbound rows.  A file is
  deleted from the mailbox when it is read, and its effect is committed much later.
- A dispatched document writes pickings (`PickingStatus`) or stock
  (`SohDiscrepancy`).  The same pickings are written by the tracking and
  reconciliation crons, the routing step and users.
- The routing step writes pickings the outbound job never looks at.
- A run of the tracking cron is one transaction: the statuses and the time of the
  last alert are committed or rolled back together; a mail that went out stays out.
- Users who save a connector and transports that read one share the master key;
  whichever transaction comes first creates it.
- The dashboard reads what the documents, the tracking and the users have written.

What is hard here, and what the properties are for: two workers on one row,
a death between the partner's acceptance and the commit, lost and late answers,
clicks on a stale form, overlapping transactions against a unique constraint,
two crons on one mailbox, late and repeated documents, an error of the database
that is caught in Python while the transaction is aborted, a handler that raises after
its first writes and is committed with them, repeated and failing
runs of a routing step, an effect that is kept while the record of it is rolled
back, two transactions that each create the one key, and boundaries of tolerances,
windows and partial stock.
`PROJECT.json` lists each hazard at its line.

## 2. Modules

A transaction at Odoo's isolation level REPEATABLE READ is modelled as a snapshot
taken at its first statement, writes others do not see before the commit, and a
failure ("could not serialize access") when it locks or writes a row that was
committed by someone else after the snapshot.  An action that is one such
transaction, deciding on the rows it then writes, is atomic in the model; one
that reads and later writes is split.

**OutboundDelivery** is the abstract specification: a document is pending until
a batch settles it, as delivered (the partner has accepted it) or abandoned; only
a click reopens it.  No workers, transactions, retries or wire.

**OutboundQueue** is the job.  `row` is the committed table, `tx[w]` the version
of the rows worker `w` has written and not committed, `held` its row locks,
`stale[w]` the rows committed by others since its snapshot.  `Search`, `Claim`
(`FOR UPDATE SKIP LOCKED`), `StartSend`, `Post`, `SendSucceeds`, `SendRefused`,
`SendFails` and `Commit` follow `_process_outbound_queue` line by line;
`ClaimNothing` and `SerializationFailure` are its early ends, `Crash` a worker's
death.  `PartnerAccepts` takes a request off the wire at any time, also after the
sender timed out or died.  `OpenForm` and `Requeue` are an operator's form and a
later click.  `Tick` is the passing of one backoff unit (60 s).  `Fail` and
`ValidationFail` include what happens when announcing a dead letter raises, for a notify
user who may not see the message (`Barred`): the job's outer `except` calls `action_fail`,
and a message the partner has refused may be queued again.

**EnqueueHooks** has users whose transactions each write one document: `Begin...`
takes the snapshot and decides for every connector, `Commit...` writes the document and
its messages together, `Abort` is a duplicate key or a serialization failure.
The queue is reduced to `Drain` (sent or dead) and `Requeue`.

**InboundDelivery** is the abstract specification of the inbound side: a file goes from the
mailbox to one cron, or disappears on the way, and never comes back; its holder does all
of its work in one step, or gives up and nothing has happened.  No listings, snapshots,
transactions or duplicates.

**InboundPipeline** has the crons `core` and `mf` on one mailbox: listing,
reading and removing a file are separate steps, as another cron may come between
them; then each handles its files (store, or apply directly), `mf` dispatches the
stored messages of its snapshot, and a run commits, dies, or is aborted by a
statement the database refuses or a dead letter that raises (`FileAbortsRun`,
`MessageAbortsRun`), as often as may be.  A handler or `apply_csv` that raises may have
written before: without a savepoint that is committed, with the message dead or, of a
file, with nothing but a line in the log.  What a document does is counted, not modelled;
an effect in part counts like a whole one.  `Place` is the mapping to
`InboundDelivery`: a file a transaction has picked up is with its cron until the
transaction ends.

**Tolerance** has the two comparisons with `ira_tolerance`, in integers (the tolerance per
mille): `Drifts`, the strict one of quantities in `apply_csv`, and `Exceeds`, the
dashboard's of a percentage rounded to four places.

**SohDiscrepancy** has one report transaction at a time: `BeginReport` takes the snapshot,
`ApplyLine` applies one line to the transaction's own version of the quants and records,
`CommitReport` or `AbortReport` ends it; `CommitReport` may come before the last line, as
`apply_csv` may raise at any and its caller commits what was done.  `quantOutdated` and
`discOutdated` are the rows others have committed since the snapshot; a transaction that
wrote one of them cannot commit.  Beside it are users who investigate and accept, and Odoo's
own stock moves.  As in the code, one quant of a product is looked at (`limit=1`); that
another one takes its place is a stock move.

**PickingStatus** has one action for every writer of `x_mf_status`: the acknowledgement, the
confirmation, tracking, reconciliation, routing, and the users' buttons; and the form, in
which users may replace status and consignment number (`EditForm`).  `entered` are the
pickings for which what users entered stands.  Documents name the order, never a picking;
which open picking comes first is left open.

**SplitRouting** has the two loops of a run as steps.  `route_order` gives the whole
order to one warehouse (`RouteToFirst`, `RouteSingleLine`) or starts its loop
(`RouteGreedily`): each `Visit` takes from `remaining` what one warehouse has and adds an
assignment to `plan`, `Assigned` ends it.  `apply_routing` starts with `Apply`;
`FirstRound` (`Reuse`) and `LaterRound` (`Create`) do one assignment each.
`RoutingRaises` is a round that raises: the cron catches it and commits the earlier
rounds.  Others act between two runs only, as a run is one transaction on a snapshot:
what they do to rows it does not write might as well come after it, and what they do to
rows it writes rolls it back. `located` says whether the delivery address has
coordinates: without them the first warehouse by code is given everything;
`Geolocalize` sets them, possibly between two runs.

**CredentialStore** has sessions with one transaction each.  A transaction sees the
key and the fields of its snapshot and its own writes.  `Save` and `Duplicate` (a
connector that is copied hands the stored text to `create`) are
`_encrypt_credential_vals`, `Read` is `get_credential`; all of them create the key
when the transaction sees none, and that INSERT waits for another transaction's and
fails after its commit.  A stored field is a key and a text: `under` no key is plain
text, as older versions saved it.  An administrator may remove the key and put it
back.  `Answer` is what a reader gets.  The cipher is taken to do what Fernet
promises, and `get_param` to see the transaction's snapshot (Odoo's cache of
parameters may be older for a moment).

**TrackingCron** is one run of the tracking cron after another: `StartRun` makes both
searches, `Phase0` and `Poll` handle a picking each, in any order, and `SendAlert` is
`_send_cron_alert` within them.  Phase 0 raises for every picking whose warehouse has a
connector, as no transport has the method it calls; the pickings it finds got their
reference from an import, since the addon never writes one.  A poll may raise after the
status is already in the transaction (the write of a zone-aware `DeliveredAt` fails, and
there is no savepoint), so that a failure and a write can come together.  `returned` is
whether `send()` came back: it does so also when the SMTP server refused the mail, as Odoo
records that on the mail and raises nothing.

**KpiDashboard** has the figures as operators over pickings, quants and discrepancy
records, and the steps that write those; `losses` and `drifted` record what was
accepted and found, independently of the records.  The windows of 7, 30 and 365
days are scaled to 2, 3 and 4 ticks.  Percentages are hundredths, rounded half up
where Python rounds half to even; the difference is at exact halves only.

`MC...` modules give the constants of the small instances.  The proofs about a
module `M` are in `MProofs`.  The abstract specifications, which `OutboundQueue` and
`InboundPipeline` are proved to implement, have none.  What is proved of `Tolerance` and
`KpiDashboard`, of which `SohDiscrepancyProofs` has an instance for the same products and
the same tolerance, is there.

Definitions whose name begins with `Bug` are seeded faults: the plausible mistake
in the definition that follows (a dropped condition, a limit that is off by one,
a `return` where the loop continues).  No specification uses them; `PROJECT.json`
("mutants") says which property TLC must find violated when one replaces the
definition it stands beside.

## 3. Runs

A run takes from a second to two or three minutes on two cores.

The invariant `IInv` that a run checks is the inductive one of the module's proofs.  It
contains the module's type invariant `TypeOK`, and what the proofs need besides, so that
TLC has seen on the instance what TLAPS shows for all.

| Run | What it asks | Bounds |
|---|---|---|
| `OutboundQueue_safety` | all safety properties of the queue, its inductive invariant, and the refinement of `OutboundDelivery` | 2 messages (one over HTTP, one over SFTP, which can only fail), whose dead letters may raise for want of someone to notify, 2 workers, 2 operators, the code's 3 attempts, 1 death, 2 clicks |
| `OutboundQueue_settles` | every queued message is sent or dead in the end | the same with 1 operator, 2 attempts, 1 death, 1 click |
| `EnqueueHooks_safety` | hooks of overlapping users against the unique constraint | 1 order, 2 products, 1 code they may share, 2 connectors, 2 users, 1 edit each |
| `EnqueueHooks_update` | *violation*: an update of a product that was sent is queued | 1 product, 1 connector |
| `InboundPipeline_safety` | what two crons make of one mailbox, that a stored message is applied or dead in the end, and the refinement of `InboundDelivery` | a report that comes twice and an acknowledgement over 50 MB; deaths, broken exchanges, handlers that raise and runs that are rolled back without a bound |
| `SohDiscrepancy_safety` | reports, users and moves on one product | quantities -1, 0, 199, 200 and 201, around the 0.5 % tolerance of 200; 2 reports of 1 or 2 lines, which may break off, 2 users, 1 move |
| `PickingStatus_safety` | what a picking shows | 2 pickings, one cross-border; 2 consignments; documents handed over again; one user action, a button or an edit of status, consignment number or both |
| `PickingStatus_arrival` | an arrived consignment is shown as delivered | 1 picking, 2 consignments, documents handed over again, one user action |
| `SplitRouting_safety` | assignments and the split | orders of one line, of two, of two lines of one product, and with a service; 2 warehouses, one across the border; the address with and without coordinates; stock of 1, 2 or less than nothing; no run begins with 4 pickings or more |
| `CredentialStore_safety` | what concurrent users make of the master key and the credentials | 2 fields, 2 sessions, 2 secrets, one with the prefix of a token; 2 keys, 2 acts of an administrator |
| `TrackingCron_safety` | runs of the tracking cron, their mails and what others write meanwhile | 1 picking to poll, 1 for phase 0; a cooldown of 2 ticks, 3 ticks, 3 runs, 1 write by others |
| `KpiDashboard_safety` | whether the figures count what they say | 2 pickings, 2 products, 3 writes in 5 ticks; quantities 0, 389 and 391 |

Why the bounds suffice to see the interesting cases.  Two workers and two messages give
every overlap of search, claim and commit, and a batch in which one message fails and
another does not; a third worker adds only more of the same, and the proofs cover any
number.  One death suffices for every property that speaks of a rolled-back attempt.  Two
products on one code, two connectors of which one may be activated later, and two
transactions give all collisions of keys.  Three files, two of them equal, give a duplicate
and a file that is not one.  Quantities 199 and 200 are within the tolerance from 200 and
beyond it from 199 (199 x 0.005 < 1); 0 has no tolerance at all, and -1 one below 0; two
lines walk from 199 to 201 and back.  Two warehouses with 0 to 2 units give lines that are
filled alone, split, or short.  Two sessions give every overlap of two creations of the key,
two keys a new one after a removal, and two acts put the first one back.  With a cooldown of
2 ticks, mails fall inside it, at its end, and after it, and three runs are needed for a
stamp that is rolled back, one that is kept, and a mail it suppresses.  Windows of 2, 3 and
4 ticks in 5 let every record enter and leave each of them; 389 and 391 differ by 2, just
above 0.5 % of either (0.5141 % and 0.5115 %).  The comparison of the dashboard, on a
rounded percentage, misses a drift the report found only from about 10 200 units on (10 199
and a difference of 51 round to 0.5000), beyond the instance and listed in section 5.

What the runs show:

- `SentIsAccepted`, `DeadIsEarned`: a state a user sees tells
  the truth about the partner and about the attempts made, whatever was rolled back.
- `ClaimIsFresh`, `NoConcurrentSend`, `HolderAloneWrites`: `SKIP LOCKED` alone
  does not keep a worker from a row another one has just committed, as the
  statement sees the old snapshot; the serialization failure does (the fault
  `BugNoConflict` shows it).  A second send after a death or a lost answer is still
  possible, which is why the partner's 409 must count as success.
- `SendingIsPrivate`: `sending` never gets committed, so the recovery of rows
  "orphaned in 'sending'" (`message.py:185`) has nothing to recover.
- `Settles`: no outbound message waits for ever, provided the job runs.  `StoredSettles`: no
  inbound one does, provided the runs of its cron are not all rolled back from some time
  on; that they are not, the code cannot promise (section 5).
- `WriteReachesEveryConnector`, `ConfirmedWithMessage`: a message in flight at one
  connector starves no other, and an order that changed its warehouse is not confirmed
  on the strength of its old message.
- `DeliverySpec` of the two crons, `AppliedIsOnce`, `NoCsvUnaccounted`: removing before
  appending is what makes two polls safe, and the disjoint writes of the two crons make
  two transactions that see only their snapshots look like one after the other.  The effect
  of a message is committed once: whole, with the state applied, or as far as a handler
  got before it raised, with the state dead; a dead message may thus have had an effect.
  A CSV file of up to 50 MB that is gone left a row or an effect, or the model counts it
  in `lost`, with the error or the accident that took it; a larger one that the
  Mainfreight cron polls leaves a line in the log.
- `AtMostOneOpen`, `AcceptedIsFinal`, `NoSilentDrift`: the snapshot conflict, and
  not a check in the code, protects acceptance and moves from a concurrent report;
  each line of a report is judged against what the lines before it have left, also in a
  report that broke off.
- `ShownIsTrue`, `ArrivalIsShown`: late documents set a picking back, but never let
  it show progress its consignment has not made, and tracking brings it forward again if
  the partner answers.  What a user enters in the form is believed until the next
  document or poll: nothing is claimed of it.
- `EachMoveInOnePicking`, `RoutedIsLeftAlone`, `AssignsWhatThereIs`,
  `NearerIsExhausted`: splitting and splitting again after a failure neither
  loses nor doubles a move nor touches a routed picking; the greedy rounds hand out
  to each line exactly what there is, nearest first.  Two lines of one product are each
  given the same stock (section 5), and a stock below zero counts as none.
- `KeysAreStored`, `ReadsWhatWasEntered`: no credential is committed under a key
  nobody has stored, although nothing but `UNIQUE(key)` keeps two sessions from
  creating one each; a transport gets the secret that was entered or an error, and an
  error only for a key that was taken away or a secret that begins with `enc:`.
- `AlertsAreSpaced`, `FailuresAreAnnounced`: two mails within the cooldown mean that
  the first one's run was rolled back, and no failure is lost in the cooldown without
  a mail shortly before it.  `TerminalIsLeftAlone`: what others write during a slow
  batch is not overwritten by it; the price is that the whole batch is rolled back.
- `FlaggedCounts`, `CountsAgree`: a drift that was found counts until it is settled
  or a month old; deliveries, weeks and losses are counted once.

### Fairness

`FairSpec` of `OutboundQueue` and `InboundPipeline` asks for weak fairness of the steps of a
cron's run, and of the clock.  The crons are shipped inactive; `src/README.md` ("Verify Cron
Jobs") tells the deployer to check that they are active, and Odoo starts an active cron
whenever its interval has passed.  A run goes on because every request has a timeout.  Of
the partner and of users nothing is assumed there, and faults are bounded in
`OutboundQueue` only.  In `InboundPipeline` they are not, so that every run might be rolled
back; `StoredSettles` says what holds if not.

`FairSpec` of `PickingStatus` is the fairness of reconciliation and time alone.
`ArrivalIsShown` needs more, and has it as its hypothesis: `PartnerAnswers`, that the
tracking API answers in the end for a picking it is asked about again and again.  The code
cannot promise that: `get_tracking_status` returns nothing when a request fails or the
status is unknown (`mainfreight_rest.py:116-147`) and for every transport but REST
(`transport_base.py:43-50`), and a picking whose warehouse has no connector is not polled
(`tracking_cron.py:264-270`). No fairness is given to the routing step: no installed cron
runs it.

## 4. Proofs

The proofs hold for any values of the constants that satisfy the assumption the module names
(`QueueAssumption`, `CredentialAssumption`, ...): the bounds are naturals, the values that
stand for "none" are not among the others, and what the code fixes (a cooldown of at least a
tick, at least one attempt, statuses that are either polled or settled).  Only the theorems
about `KpiDashboard` have further hypotheses, below.  In particular any number of messages,
workers, users, sessions, connectors, files, lines, pickings and warehouses is covered.

| Module | `Spec => []IInv` | Theorems about the properties of the runs |
|---|---|---|
| `OutboundQueueProofs` | `QueueInvariant` | `ClaimsStayFresh`, `SendsAreExclusive`, `SentMeansAccepted`, `DeadLettersAreEarned`, `SendingNeverCommitted`, `HoldersWriteAlone` (`HolderAloneWrites`), `QueueRefinesDelivery` (`Spec => DeliverySpec`) |
| `EnqueueHooksProofs` | `HookInvariant` | `EveryConnectorIsReached` (`WriteReachesEveryConnector`), `ConfirmedHasMessage` (`ConfirmedWithMessage`) |
| `InboundPipelineProofs` | `PipelineInvariant` | `PipelineRefinesDelivery` (`Spec => DeliverySpec`), `MessagesAreAppliedOnce` (`AppliedIsOnce`), `CsvIsAccountedFor` (`NoCsvUnaccounted`); of parts of `IInv`: `FilesArePickedUpOnce` (`PickedUpOnce`), `FilesAreAppliedOnce` |
| `SohDiscrepancyProofs` | `DiscrepancyInvariant` | `OneOpenRecord` (`AtMostOneOpen`), `AcceptedStays` (`AcceptedIsFinal`), `DriftIsNeverSilent` (`NoSilentDrift`); of `Tolerance`: `WhatCountsDrifted`, `WhatDriftedCounts`; of `KpiDashboard`: `DashboardInvariant`, `DriftsCountUntilSettled` (`FlaggedCounts`), `FiguresAgree` (`CountsAgree`, but for the losses) |
| `PickingStatusProofs` | `PickingInvariant` | `WhatIsShownIsTrue` (`ShownIsTrue`) |
| `SplitRoutingProofs` | `SplitInvariant` | `MovesAreKept` (`EachMoveInOnePicking`), `RoutedStays` (`RoutedIsLeftAlone`), `AllIsAssigned` (`AssignsWhatThereIs`), `NearestGiveFirst` (`NearerIsExhausted`) |
| `CredentialStoreProofs` | `CredentialInvariant` | `NothingUnderAnUnstoredKey` (`KeysAreStored`), `ReadersGetWhatWasEntered` (`ReadsWhatWasEntered`) |
| `TrackingCronProofs` | `TrackingInvariant` | `MailsAreSpaced` (`AlertsAreSpaced`), `FailuresAreHeardOf` (`FailuresAreAnnounced`), `OthersWritesStay` (`TerminalIsLeftAlone`) |

Each has also a theorem for `TypeOK`.  The shape is the same everywhere: one lemma says
that `Init` implies `IInv`, one per action (or per group of actions with one argument) that
the action preserves it, and the properties follow from it.

**OutboundQueue.**  The properties are not inductive: they speak of committed rows, and a
commit writes what a worker prepared.  `IInv` adds what is known of that.  `TxInv`: an
uncommitted row is as sound as a committed one, the row being sent has been tried more
often than its counter says.  `PcInv`: what is held, still to do and being sent in each
phase.  `LockInv`: a row is locked once, which `SKIP LOCKED` establishes.  `SnapshotInv`: a
candidate is still due unless it was committed after the snapshot, so that a claim without
a conflict is fresh (`ClaimIsFresh`).  `RowInv` is the soundness of committed rows.
`ExistInv`: the wire and the forms name messages that exist, which the refinement needs.
`SettledIInv` is shared by the three outcomes of a send and `RollbackIInv` by the three
ends without a commit.  `FailIsSound` is about `action_fail` and `action_validation_fail`.
In the refinement, `Commit` maps to `Settle` with the sent and the dead of the batch,
`Requeue` to `Reopen`, `Enqueue` to `Submit`, `PartnerAccepts` to `Accept`, everything else
to a stutter.

**EnqueueHooks.**  What a commit inserts was decided at the snapshot, perhaps long before.
`Prepared` says what holds of it until then: a product's plan has passed over no connector
that it saw, an order's plan not the order's own, and where the plan leaves a message alone
there still is one.  Messages are only added, drained and requeued, so that a decision to
leave a connector alone is not undone.

**InboundPipeline.**  `PollInv`: what a cron has in each phase of its run.  `PickedInv`:
nobody has a file that still lies in the mailbox, because `remove` comes before `append` and
succeeds for one cron only.  `WriteInv`: `core` inserts rows and `mf` settles received ones,
so that neither writes a row the other may have changed; that makes `AppliedIsOnce`
inductive, also for a handler that wrote a part and raised.  `TakenInv`: a file a cron has
picked up is waiting, written, or lost with the transaction, which `NoCsvUnaccounted` needs
at every commit and rollback.  `HolderInv` is for the refinement: a file is with one cron at
most, with none while it is in the mailbox, its effect is still to come, and a row that
`core` is about to insert is of a file it has. There, `RemoveFile` maps to `PickUp` for the
poll that removes the file and to a stutter for the one that comes too late,
`ExchangeBreaks` to `Vanish` or a stutter, the ends of a transaction to `LetGo`: with
`GiveUp` when it is rolled back, with `Store` or `Settle` when it commits.
`CommitMfRefines` is where `WriteInv` is needed: the messages that `mf` found in its
snapshot are still received at its commit.

**SohDiscrepancy.**  `OthersSettle` and `Sees` relate the transaction's version of the
records to the committed one: they differ in what it wrote and in what users have settled
since, and what it wrote over was open.  With the conflict at the commit, `AtMostOneOpen`
carries over from the transaction's version, and an accepted record is never among the rows
that are overwritten.  `LineByLine` says that a product's quantity in the transaction comes
from the committed one by the lines applied so far (`LinesLead`: there is a path of
quantities, one step for each line).  Stated by a path, the property can be proved for
reports of any length; a fold, as the code has it, could not.  A report that broke off
is committed with the path of the lines it had applied, the same number for every product.

Of the two comparisons in `Tolerance`, what exceeds the tolerance on the dashboard was a
drift to the report (`WhatCountsDrifted`); the converse holds of stock up to 2000 units,
whatever the tolerance (`WhatDriftedCounts`), and not of any stock: see section 5.

**KpiDashboard.**  `DriftsCountUntilSettled` proves `FlaggedCounts` for quantities from 0 to
2000 and a tolerance under 100 %, by `WhatDriftedCounts`.  Its invariant `IInv` (TLC agrees
on the run's instance): `OneOpenEach`, a product has one open record at most, so that a
report renews the record it means, and `DriftIsRecorded`, the last drift found of a product
is in its open record, as a difference of quantities.  `FiguresAgree` proves the parts of
`CountsAgree` but the sum of the losses: `WeekOf` says which week a picking belongs to,
`PercentIsShare` that the rounded share stays one, and `OneDateEach`, a picking was
delivered at one time, that late and on time are opposites.  It assumes finitely many
pickings and products, and of the constants what `KpiAssumption` says.

**PickingStatus.**  `ShownIsTrue` is inductive with the types: a consignment never goes
back, only tracking writes progress, of the consignment the picking names at that moment,
and a confirmation that brings another consignment writes `mf_dispatched`, which claims
nothing of it.  Status and consignment number are editable fields; a picking is in `entered`
from an edit of either to the next write of its status by anything else, and the theorem,
like the property, is about the others.

**SplitRouting.**  Of the split, `Placed`, each move has its one picking, is inductive.
`ReuseKeeps` and `CreateKeeps` say of a round that it keeps it and changes no routed
picking; that a later round takes moves from unrouted pickings only rests on `Placed`.
Nothing is assumed of the assignments, except that a round is for a warehouse.  Of the
assignments, `RunInv` says what the loop has made of each line: `Handed` is a path of
quantities from what was wanted to what remains, one step for each warehouse that had its
turn, as long as what the plan has it give and never longer than what it has.  `VisitKeeps`
adds a step to the path.  If something remains at its end, every step was all that the
warehouse has; a warehouse that is then asked finds the nearer ones exhausted, which is
`NearerIsExhausted`.  A path, and not a sum over the warehouses, makes it provable for any
number of them.

**CredentialStore.**  `KeyInv`: at most one open transaction has made a key, and only while
none is committed, which `UNIQUE(key)` establishes.  `SeenInv`: what a transaction sees and
encrypts with was committed at some time, or is its own.  `TextInv`: what a field holds is
what was entered.

**TrackingCron.**  `StampInv` ties a stamp to the mail it comes from: the latest that went
out in a run that was not rolled back.  `HistoryInv` orders mails and runs in time.
`SnapshotInv`: what the run has read of a picking is so still unless others wrote it.

Only model-checked:

- `Settles`, `StoredSettles` and `ArrivalIsShown`: liveness under fairness, and the
  ENABLED in it, are beyond the prover.
- `LossesCountOnce` in `CountsAgree`: the losses are a sum over the records, which only
  induction over them could prove.
- `UpdatesAreQueued` is violated.

## 5. Divergences

One disagreement of the code with its documentation is a run of its own:

- `EnqueueHooks_update`: `product_hook.py:60` creates an update under the key of
  the message already sent; the unique constraint refuses it and the product's
  write is rolled back.  Test 16 (`mf/tests/test_product_hook.py:147`) passes on a
  mocked `create`.

Others were met while reading; the models have the behaviour, and no run
asks about it:

- `inbound_cron.py:124` gives everything that is not an acknowledgement to the CSV
  parser of the inventory report, so that an XML confirmation the Mainfreight cron
  polls first is deleted and has no effect; its docstring (line 145) says such files
  become messages.
- `so_acknowledgement.py:79` overwrites `mf_held_review`, against `src/README.md:123`.
- "Per-message exceptions do not stop processing of subsequent messages"
  (`inbound_cron.py:156`): `_dead_letter` (line 208) is called outside of any try.  When it
  raises, because the notify user may not see the message (`message.py:147`) or the
  handler's error has aborted the transaction, the run ends and is rolled back, with the
  files it had deleted; the next run meets the same message, and while that lasts nothing
  inbound is processed.
- A handler that raises after its first writes keeps them (`so_confirmation.py:124` before
  155, the lines of a report before the one that raises), with the message dead: there is no
  savepoint around it.
- `inbound_cron.py:90-106` skips blank files and files over 50 MB with a warning; the poll
  has deleted them from the mailbox.
- "Validation failures go straight to dead" (`message.py:136`): when announcing the dead
  letter raises, the outer `except` (line 246) puts the refused message back into the queue.
- `mf/tests/test_inventory_report.py:46-56` expects a report of 100 for a product without
  stock to set the stock to 100.  `apply_csv` flags a discrepancy and leaves the stock alone
  ("this is intentional", `inventory_report.py:109-110`); `NoSilentDrift` is about what
  the code does.  Negative stock is flagged even when the report agrees (the threshold is
  below 0), and of several quants of a product (lots, packages) only one is looked at
  (`limit=1`, lines 100-104 and 143-146; `soh_discrepancy.py` too).
- `action_requeue` (`message.py:142`, "from dead letter") looks at no state: a
  click on a stale form requeues a sent message.  On an inbound dead letter it
  writes `queued`, where no inbound cron looks.
- `product_hook.py:42` skips "an identical message": one with the same key, whose
  content may be older.
- `sale_order_hook.py:16` logs "SO confirmed" after a failed INSERT; without a
  savepoint the transaction is aborted and the confirmation rolled back.  A dead
  first message makes this permanent: it does not count as existing, and keeps its key.
- `tpl_service.py:36` leaves out the required `direction`: no inward order is ever
  queued.
- `src/README.md:369` promises deduplication by hash; the direct path of
  `inbound_cron.py:126` has none.  Its handler for a bad file (line 129) has no
  savepoint: an error of the database takes the run's other, deleted files down.
- Nothing compares report dates (`is_stale` has no caller), against
  `src/docs/plans/2026-02-28-3pl-integration-platform-design.md:188`.  Accepting a
  record that a later, agreeing report has outdated writes the older figure
  (`soh_discrepancy.py:93`), and a report applied while the wizard is open changes
  what is accepted.
- A late document takes a picking out of `mf_resolved`, which
  `reassign_warehouse_wizard.py:22` calls terminal.  A retried picking waits for a
  push that nothing makes (`picking_mf.py:86`).  Nothing writes `mf_sent`
  (`src/README.md:279`), and no installed cron routes before it pushes
  (`src/README.md:301`).
- `route_engine.py:240` keeps products of type `product`, a value that Odoo 19, for which the
  manifests are written, no longer has: there, no line of any order is storable and nothing is
  routed.  `SplitRouting` models what is routed where a product is storable.
- `route_engine.py:105`: two lines of one product are both given its stock.
  `route_engine.py:186` keeps the dicts of a list that holds text
  (`mainfreight_rest.py:90-96`): the partner's figures are never used.
- `split_engine.py:54`: the picking that is taken over keeps its operation type
  whatever warehouse is assigned.  The moves of a line that is not storable
  go from copy to copy and leave empty pickings in `mf_queued`.  Line 60 says a
  failing round rolls everything back; `push_cron.py:56` catches the exception and the
  cron commits, with an empty picking if `copy()` had returned (the model leaves that one
  out).
- `route_engine.py:152` counts stock that other orders have reserved: two orders can
  be promised the same units.
- A report with several lines for one product (lots, grades) compares and sets the
  quantity line by line (`inventory_report.py:99-117`); nothing adds them up, the last
  line stays.
- Of a credential that cannot be decrypted, `credential_store.py:78-79` says the raw
  value is returned, `src/README.md:355` an empty string; line 102 raises `UserError`.
  Line 51 says the same of a failing encryption, where line 66 raises.  A secret that
  itself begins with `enc:` is stored as it is and cannot be read (line 55).  A reader
  without a key creates and commits a new one, under which nothing was encrypted.
- "One alert per hour" (`tracking_cron.py:213`) does not survive a rollback, which takes
  the stamp and not the mail.  "After a successful send" (line 247): `send()` returns
  also when the mail was not delivered.
- "One bad picking must not block the rest of the batch" (`tracking_cron.py:189`): a
  picking that someone else has written rolls back the whole batch, and a `DeliveredAt`
  with a time zone makes the write raise after a part of it was done.
- The dashboard: from about 10 200 units on, a drift just above the tolerance is
  rounded to it and does not count (`kpi_dashboard.py:217-224`).  An open discrepancy is
  not closed by a later report that agrees, and after 30 days it no longer counts
  though nobody has settled it.  What DIFOT and IRA divide by differs from
  `src/docs/plans/2026-02-28-phase2-ux-design.md:116-165`.
- `sale_order_mf.py` reads `picking_type_code` from the operation type, which has no such
  field, with a default; the delivery status is always empty.  The test
  (`mf/tests/test_so_tracking.py:24-26`) fakes the field.

## 6. Not modelled

- What phase 0 of the tracking cron would do with an answer
  (`tracking_cron.py:137-174`): `get_tracking_by_outbound_ref` is defined nowhere, so
  that it never gets one.  `x_mf_connector_id` is read by nobody,
  `last_soh_applied_at` by `is_stale` and the connector's form only.
- The order's delivery status: always empty, see the divergences.
- The dashboard's colours, the badges of today, the number in flight and the targets:
  each restates one query or one comparison.
- `action_queue`, `action_acknowledged`, `action_processing`, `action_done` and
  `is_stale` have no caller.  `send_put`, `send_delete` and the order URLs of the
  REST adapter neither.
- `TPLService.queue_inward_order`: see the divergences; it never succeeds.
- The wording of documents, logs and mails; the SFTP and HTTP protocols below
  their outcomes; distances in kilometres (`Nearest` is the order they give).
- Several orders and reservations in `SplitRouting`: that no stock is promised twice
  does not hold of the code, and the step that pushes the orders is not installed.
- The cipher, the import of `cryptography` and the connection test of a connector.
- A larger composition: `PickingStatus` has the order's message as the variable
  `message`; hooks, queue and pickings share nothing else, so that putting their
  modules together would only multiply their states.
- The webhook (it checks a secret and answers), the registry hooks, the stub
  wizards, views: no change of state.

## 7. Plan

Done: `OutboundDelivery`, `OutboundQueue`, `EnqueueHooks`, `InboundDelivery`,
`InboundPipeline`, `Tolerance`, `SohDiscrepancy` with reports of several lines,
`PickingStatus`, `SplitRouting` with addresses that are located later and runs in rounds,
`CredentialStore`, `TrackingCron`, `KpiDashboard`.

Proved: every invariant and action property of the runs, but for those section 4 lists
as model-checked only.

Left:

1. `SplitRouting`: the empty picking of a round that raises after `copy()`.
