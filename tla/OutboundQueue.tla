---------------------------- MODULE OutboundQueue ----------------------------
(***************************************************************************)
(* The outbound half of the table stock_3pl_message and the cron job that  *)
(* drains it (addons/stock_3pl_core/models/message.py), the transports'    *)
(* send() as the job sees it, and the Requeue button of the message form.  *)
(*                                                                         *)
(* A cron worker runs _process_outbound_queue in ONE PostgreSQL            *)
(* transaction at isolation level REPEATABLE READ (Odoo's default): it     *)
(* searches due rows, claims them with SELECT ... FOR UPDATE SKIP LOCKED,  *)
(* sends them one by one and commits when the whole batch is done.  What   *)
(* the worker writes is invisible to the others until that commit and is   *)
(* lost if the worker dies, whereas what the partner did stays done.       *)
(***************************************************************************)
EXTENDS Naturals, FiniteSets

CONSTANTS
    Msg,            \* outbound messages that may be enqueued
    Worker,         \* cron workers that may run the job at the same time
    Operator,       \* users with a message form on their screen
    NoMsg,          \* "no message"
    MaxRetries,     \* MAX_RETRIES of message.py (3)
    BackoffCap,     \* longest backoff, in backoff units of 60 s (3600 s: 60)
    Channel,        \* Channel[m]: the transport of the connector of m
    Barred,         \* messages whose dead letter may raise: the notify user may not see it
    MaxCrashes,     \* bound: how often a worker dies
    MaxClicks       \* bound: how often operators click Requeue

(* activity_schedule raises for a notify_user_id who may not read the message when
   it dies: the case the inner "except" of the job is for. *)
ASSUME QueueAssumption ==
    /\ NoMsg \notin Msg
    /\ MaxRetries \in Nat \ {0}
    /\ BackoffCap \in Nat
    /\ Channel \in [Msg -> {"rest_api", "http_post", "sftp"}]
    /\ Barred \subseteq Msg
    /\ MaxCrashes \in Nat
    /\ MaxClicks \in Nat

VARIABLES
    row,            \* row[m]: the committed row of m
    pc,             \* pc[w]: where worker w is in _process_outbound_queue
    cand,           \* cand[w]: the candidates its search returned
    stale,          \* stale[w]: rows others committed since its snapshot
    held,           \* held[w]: the rows it has locked
    todo,           \* todo[w]: locked rows its loop has still to visit
    cur,            \* cur[w]: the message being sent
    tx,             \* tx[w][m]: its own uncommitted version of row m
    wire,           \* requests that left for the partner and may arrive
    accepted,       \* documents the partner has accepted
    form,           \* form[o]: the message o has open, shown as dead
    crashes,        \* bounded counter of worker deaths
    clicks,         \* bounded counter of Requeue clicks
    tries,          \* history: send attempts of m since it was (re)queued
    rejected        \* history: messages the partner refused for good

job  == <<pc, cand, stale, held, todo, cur, tx>>
hist == <<tries, rejected>>
vars == <<row, job, wire, accepted, form, crashes, clicks, hist>>

RowState == {"none", "queued", "sending", "sent", "dead"}

Row == [state : RowState,
        retry : 0 .. (MaxRetries - 1),  \* retry_count
        wait  : Nat]                    \* backoff units until next_retry_at

NoRow == [state |-> "none", retry |-> 0, wait |-> 0]

TypeOK ==
    /\ row \in [Msg -> Row]
    /\ pc \in [Worker -> {"idle", "searched", "loop", "calling", "posted"}]
    /\ cand \in [Worker -> SUBSET Msg]
    /\ stale \in [Worker -> SUBSET Msg]
    /\ held \in [Worker -> SUBSET Msg]
    /\ todo \in [Worker -> SUBSET Msg]
    /\ cur \in [Worker -> Msg \union {NoMsg}]
    /\ tx \in [Worker -> [Msg -> Row]]
    /\ wire \subseteq Msg
    /\ accepted \subseteq Msg
    /\ form \in [Operator -> Msg \union {NoMsg}]
    /\ crashes \in 0 .. MaxCrashes
    /\ clicks \in 0 .. MaxClicks
    /\ tries \in [Msg -> 0 .. MaxRetries]
    /\ rejected \subseteq Msg

-----------------------------------------------------------------------------
(* State transitions of one row. *)

Backoff(r) == IF 2^r < BackoffCap THEN 2^r ELSE BackoffCap

(* _dead_letter: retry_count and next_retry_at keep their values.  The To-Do for
   the connector's user is left out. *)
DeadLetter(r) == [r EXCEPT !.state = "dead"]

(***************************************************************************)
(* Definitions named Bug... are seeded faults: what a plausible mistake    *)
(* would have made of the definition that follows.  No specification uses  *)
(* them; each property of a run is checked to fail with one of them.       *)
(***************************************************************************)
BugExhaustedEarly(r) == r.retry + 2 >= MaxRetries
Exhausted(r) == r.retry + 1 >= MaxRetries

BugRetryUncounted(r) == r.retry
NextRetryCount(r) == r.retry + 1

(* action_fail.  When _dead_letter raises, the job's "except" calls
   action_fail once more, which raises again and is only logged: the row is
   dead after the first call and after the second. *)
Fail(r) ==
    IF Exhausted(r)
    THEN DeadLetter(r)
    ELSE [r EXCEPT !.state = "queued", !.retry = NextRetryCount(r),
                   !.wait = Backoff(r.retry)]

(* action_validation_fail: what may become of row r of m.  When _dead_letter raises,
   the "except" hands the refused message to action_fail, which may put it back in
   the queue. *)
ValidationFail(m, r) ==
    {DeadLetter(r)} \union {t \in {Fail(r)} : m \in Barred}

(* The domain of the search, which the claim states again in SQL. *)
Due(m) == row[m].state \in {"queued", "sending"} /\ row[m].wait = 0

BugNothingLocked == {}
Locked == UNION {held[w] : w \in Worker}

-----------------------------------------------------------------------------
Init ==
    /\ row = [m \in Msg |-> NoRow]
    /\ pc = [w \in Worker |-> "idle"]
    /\ cand = [w \in Worker |-> {}]
    /\ stale = [w \in Worker |-> {}]
    /\ held = [w \in Worker |-> {}]
    /\ todo = [w \in Worker |-> {}]
    /\ cur = [w \in Worker |-> NoMsg]
    /\ tx = [w \in Worker |-> [m \in Msg |-> NoRow]]
    /\ wire = {}
    /\ accepted = {}
    /\ form = [o \in Operator |-> NoMsg]
    /\ crashes = 0
    /\ clicks = 0
    /\ tries = [m \in Msg |-> 0]
    /\ rejected = {}

(* The end of w's transaction, by commit, rollback or early return. *)
EndTransaction(w) ==
    /\ pc' = [pc EXCEPT ![w] = "idle"]
    /\ cand' = [cand EXCEPT ![w] = {}]
    /\ held' = [held EXCEPT ![w] = {}]
    /\ todo' = [todo EXCEPT ![w] = {}]
    /\ cur' = [cur EXCEPT ![w] = NoMsg]
    /\ tx' = [tx EXCEPT ![w] = [m \in Msg |-> NoRow]]

(* Rows in ms were committed: every other open snapshot is behind on them. *)
Outdate(w, ms) ==
    stale' = [v \in Worker |->
                IF v # w /\ pc[v] = "searched" THEN stale[v] \union ms
                ELSE IF v = w THEN {} ELSE stale[v]]

(* A hook creates the message, in state queued. *)
Enqueue(m) ==
    /\ row[m].state = "none"
    /\ row' = [row EXCEPT ![m].state = "queued"]
    /\ UNCHANGED <<job, wire, accepted, form, crashes, clicks, hist>>

(* The job starts, takes its snapshot and finds nothing due. *)
IdleRun(w) ==
    /\ pc[w] = "idle"
    /\ \A m \in Msg : ~Due(m)
    /\ UNCHANGED vars

Search(w) ==
    /\ pc[w] = "idle"
    /\ \E m \in Msg : Due(m)
    /\ cand' = [cand EXCEPT ![w] = {m \in Msg : Due(m)}]
    /\ stale' = [stale EXCEPT ![w] = {}]
    /\ pc' = [pc EXCEPT ![w] = "searched"]
    /\ UNCHANGED <<row, held, todo, cur, tx, wire, accepted, form, crashes,
                   clicks, hist>>

BugFreeWithoutSkipLocked(w) == cand[w]

(* Candidates nobody else has locked: SKIP LOCKED passes over the others. *)
Free(w) == cand[w] \ UNION {held[v] : v \in Worker \ {w}}

(* A free candidate was committed by another transaction after the snapshot. *)
BugNoConflict(w) == FALSE
Conflict(w) == Free(w) \intersect stale[w] # {}

(* The SELECT repeats the search's conditions, but on the same snapshot: they
   exclude no candidate.  What guards against a change since the snapshot is
   the serialization failure below. *)
Claim(w) ==
    /\ pc[w] = "searched"
    /\ Free(w) # {}
    /\ ~Conflict(w)
    /\ held' = [held EXCEPT ![w] = Free(w)]
    /\ todo' = [todo EXCEPT ![w] = Free(w)]
    /\ tx' = [tx EXCEPT ![w] =
                [m \in Msg |-> IF m \in Free(w) THEN row[m] ELSE NoRow]]
    /\ cand' = [cand EXCEPT ![w] = {}]
    /\ stale' = [stale EXCEPT ![w] = {}]
    /\ pc' = [pc EXCEPT ![w] = "loop"]
    /\ UNCHANGED <<row, cur, wire, accepted, form, crashes, clicks, hist>>

(* Every candidate is locked by someone else: the job returns. *)
ClaimNothing(w) ==
    /\ pc[w] = "searched"
    /\ Free(w) = {}
    /\ EndTransaction(w)
    /\ Outdate(w, {})
    /\ UNCHANGED <<row, wire, accepted, form, crashes, clicks, hist>>

(* PostgreSQL refuses to lock such a row ("could not serialize access due to
   concurrent update") and the transaction rolls back. *)
SerializationFailure(w) ==
    /\ pc[w] = "searched"
    /\ Conflict(w)
    /\ EndTransaction(w)
    /\ Outdate(w, {})
    /\ UNCHANGED <<row, wire, accepted, form, crashes, clicks, hist>>

(* action_sending, at the top of the loop's "try". *)
StartSend(w) ==
    /\ pc[w] = "loop"
    /\ \E m \in todo[w] :
        /\ cur' = [cur EXCEPT ![w] = m]
        /\ todo' = [todo EXCEPT ![w] = @ \ {m}]
        /\ tx' = [tx EXCEPT ![w][m].state = "sending"]
        /\ tries' = [tries EXCEPT ![m] = IF @ < MaxRetries THEN @ + 1 ELSE @]
    /\ pc' = [pc EXCEPT ![w] = "calling"]
    /\ UNCHANGED <<row, cand, stale, held, wire, accepted, form, crashes,
                   clicks, rejected>>

(* requests.post: the request is on its way.  The SFTP adapter never gets
   here: the job passes no filename, and without one send() returns an error
   before it connects. *)
Post(w) ==
    /\ pc[w] = "calling"
    /\ Channel[cur[w]] \in {"rest_api", "http_post"}
    /\ wire' = wire \union {cur[w]}
    /\ pc' = [pc EXCEPT ![w] = "posted"]
    /\ UNCHANGED <<row, cand, stale, held, todo, cur, tx, accepted, form,
                   crashes, clicks, hist>>

(* The partner takes a request from the wire, in time or long after its
   sender timed out or died.  A request that never arrives stays there. *)
PartnerAccepts(m) ==
    /\ m \in wire
    /\ wire' = wire \ {m}
    /\ accepted' = accepted \union {m}
    /\ UNCHANGED <<row, job, form, crashes, clicks, hist>>

(* The worker goes on with its loop after the outcome of cur[w]: its row
   becomes r in the worker's transaction. *)
Settled(w, r) ==
    /\ tx' = [tx EXCEPT ![w][cur[w]] = r]
    /\ cur' = [cur EXCEPT ![w] = NoMsg]
    /\ pc' = [pc EXCEPT ![w] = "loop"]
    /\ UNCHANGED <<row, cand, stale, held, todo, form, crashes, clicks, tries>>

BugAnyAnswerWillDo(w) == TRUE
PartnerHasIt(w) == cur[w] \in accepted

(* 200 or 201, or 409 for a document the partner already has: action_sent. *)
SendSucceeds(w) ==
    /\ pc[w] = "posted"
    /\ PartnerHasIt(w)
    /\ Settled(w, [tx[w][cur[w]] EXCEPT !.state = "sent"])
    /\ UNCHANGED <<wire, accepted, rejected>>

(* 422 (rest_api), or any 4xx but 409 and 429 (http_post): the partner does not take
   this request, though it may have taken an earlier one. *)
SendRefused(w) ==
    /\ pc[w] = "posted"
    /\ cur[w] \in wire
    /\ \E r \in ValidationFail(cur[w], tx[w][cur[w]]) : Settled(w, r)
    /\ wire' = wire \ {cur[w]}
    /\ rejected' = rejected \union {cur[w]}
    /\ UNCHANGED accepted

(* An exception before the request (no adapter for the connector, an URL
   that is not https, no payload), a retriable error without a request (SFTP),
   or a timeout, a lost connection or another status after it. *)
SendFails(w) ==
    /\ pc[w] \in {"calling", "posted"}
    /\ Settled(w, Fail(tx[w][cur[w]]))
    /\ UNCHANGED <<wire, accepted, rejected>>

BugCommitsPerCall(w) == pc[w] \in {"loop", "calling"}
LoopOver(w) == pc[w] = "loop" /\ todo[w] = {}

(* The loop is over: the cron job commits the whole batch. *)
Commit(w) ==
    /\ LoopOver(w)
    /\ row' = [m \in Msg |-> IF m \in held[w] THEN tx[w][m] ELSE row[m]]
    /\ EndTransaction(w)
    /\ Outdate(w, held[w])
    /\ UNCHANGED <<wire, accepted, form, crashes, clicks, hist>>

(* The worker dies (killed at the time limit, restart): rollback. *)
Crash(w) ==
    /\ pc[w] # "idle"
    /\ crashes < MaxCrashes
    /\ crashes' = crashes + 1
    /\ EndTransaction(w)
    /\ Outdate(w, {})
    /\ UNCHANGED <<row, wire, accepted, form, clicks, hist>>

(* The form offers the Requeue button when the state it loaded is dead. *)
OpenForm(o, m) ==
    /\ form[o] = NoMsg
    /\ clicks < MaxClicks
    /\ row[m].state = "dead"
    /\ form' = [form EXCEPT ![o] = m]
    /\ UNCHANGED <<row, job, wire, accepted, crashes, clicks, hist>>

(* action_requeue on the form's message, whatever its state is by now.  The
   UPDATE waits for a worker's row lock; a serialization failure makes Odoo
   run the request again on a new snapshot. *)
Requeue(o) ==
    LET m == form[o] IN
    /\ m # NoMsg
    /\ m \notin Locked
    /\ clicks < MaxClicks
    /\ clicks' = clicks + 1
    /\ row' = [row EXCEPT ![m].state = "queued", ![m].retry = 0, ![m].wait = 0]
    /\ stale' = [v \in Worker |->
                    IF pc[v] = "searched" THEN stale[v] \union {m} ELSE stale[v]]
    /\ form' = [form EXCEPT ![o] = NoMsg]
    /\ tries' = [tries EXCEPT ![m] = 0]
    /\ rejected' = rejected \ {m}
    /\ UNCHANGED <<pc, cand, held, todo, cur, tx, wire, accepted, crashes>>

(* One backoff unit passes, for committed and uncommitted times alike. *)
Elapse(r) == [r EXCEPT !.wait = IF @ > 0 THEN @ - 1 ELSE 0]

Tick ==
    /\ \E m \in Msg : \/ row[m].wait > 0
                      \/ \E w \in Worker : tx[w][m].wait > 0
    /\ row' = [m \in Msg |-> Elapse(row[m])]
    /\ tx' = [w \in Worker |-> [m \in Msg |-> Elapse(tx[w][m])]]
    /\ UNCHANGED <<pc, cand, stale, held, todo, cur, wire, accepted, form,
                   crashes, clicks, hist>>

RunJob(w) ==
    \/ Search(w) \/ Claim(w) \/ ClaimNothing(w) \/ SerializationFailure(w)
    \/ StartSend(w) \/ Post(w)
    \/ SendSucceeds(w) \/ SendRefused(w) \/ SendFails(w)
    \/ Commit(w)

Next ==
    \/ \E m \in Msg : Enqueue(m) \/ PartnerAccepts(m)
    \/ \E w \in Worker : RunJob(w) \/ IdleRun(w) \/ Crash(w)
    \/ \E o \in Operator : Requeue(o) \/ \E m \in Msg : OpenForm(o, m)
    \/ Tick

Spec == Init /\ [][Next]_vars

(* The job is activated (README.md, "Verify Cron Jobs"): the scheduler starts
   it again and again, a started job runs on (every request has a timeout of
   30 s) and time passes.  Nothing is promised of the partner, of operators or
   of hooks. *)
FairSpec ==
    /\ Spec
    /\ \A w \in Worker : WF_vars(RunJob(w))
    /\ WF_vars(Tick)

-----------------------------------------------------------------------------
(* A row a worker works on is, in the committed table, still due: nothing the
   worker writes at its commit rests on a claim that another transaction or an
   operator has outdated (message.py:207, "preventing two workers from sending
   the same message"; the docstring's "re-checks state before acting"). *)
ClaimIsFresh == \A w \in Worker : \A m \in held[w] : Due(m)

(* No two workers have a send call for the same message open. *)
NoConcurrentSend ==
    \A v, w \in Worker :
        v # w /\ cur[v] # NoMsg => cur[v] # cur[w]

(* A message is shown as sent only if the partner has the document: crashes,
   lost answers and concurrent runs never lose an order silently. *)
SentIsAccepted == \A m \in Msg : row[m].state = "sent" => m \in accepted

(* A message is dead only if the partner refused it or MAX_RETRIES sends were
   really tried since it was queued: rollbacks never make the retry counter
   run ahead of the attempts. *)
DeadIsEarned ==
    \A m \in Msg :
        row[m].state = "dead" => m \in rejected \/ tries[m] = MaxRetries

(* The "sending" mark never reaches the committed table, so the recovery of
   rows "orphaned in 'sending'" (message.py:185) has nothing to recover. *)
SendingIsPrivate == \A m \in Msg : row[m].state # "sending"

(* While a worker holds a message, the committed row changes only by that
   worker's own commit: no operator and no other worker writes under it.
   (Time alone may pass.) *)
HolderAloneWrites ==
    [][\A w \in Worker : \A m \in held[w] :
            row'[m].state # row[m].state \/ row'[m].retry # row[m].retry
                => held'[w] = {} /\ row'[m] = tx[w][m]]_vars

(***************************************************************************)
(* The inductive invariant behind the safety properties above.  It speaks  *)
(* of what they do not mention: the uncommitted rows and the snapshots.    *)
(***************************************************************************)
SoundRow(m, r) ==
    /\ r.state = "sent" => m \in accepted
    /\ r.state = "dead" => m \in rejected \/ tries[m] = MaxRetries
    /\ r.retry <= tries[m]

RowInv == \A m \in Msg : row[m].state # "sending" /\ SoundRow(m, row[m])

PcInv ==
    \A w \in Worker :
        /\ todo[w] \subseteq held[w]
        /\ pc[w] \in {"idle", "searched"} => held[w] = {}
        /\ pc[w] \in {"idle", "searched", "loop"} => cur[w] = NoMsg
        /\ pc[w] \in {"calling", "posted"} => cur[w] \in held[w] \ todo[w]

(* What SKIP LOCKED gives: a row is locked by one worker at most. *)
LockInv ==
    \A v, w \in Worker : v # w => held[v] \intersect held[w] = {}

(* A candidate is still due unless it was committed after the snapshot. *)
SnapshotInv ==
    \A w \in Worker :
        pc[w] = "searched" => \A m \in cand[w] \ stale[w] : Due(m)

HeldRowInv(w, m) ==
    /\ SoundRow(m, tx[w][m])
    /\ m \in todo[w] => tx[w][m].state = "queued"
    /\ m = cur[w] => tx[w][m].state = "sending" /\ tx[w][m].retry < tries[m]
    /\ m \notin todo[w] /\ m # cur[w] =>
            tx[w][m].state \in {"queued", "sent", "dead"}

TxInv == \A w \in Worker : \A m \in held[w] : HeldRowInv(w, m)

(* Only messages that exist are on the wire or on a screen. *)
ExistInv ==
    /\ \A m \in wire : row[m].state # "none"
    /\ \A o \in Operator : form[o] # NoMsg => row[form[o]].state # "none"

IInv ==
    /\ TypeOK
    /\ RowInv
    /\ PcInv
    /\ LockInv
    /\ SnapshotInv
    /\ ClaimIsFresh
    /\ TxInv
    /\ ExistInv

(* Every queued message is settled in the end, whatever the partner answers,
   once crashes and clicks have ceased. *)
Settles ==
    \A m \in Msg :
        row[m].state = "queued" ~> row[m].state \in {"sent", "dead"}

(* The queue implements OutboundDelivery: draft states and retries are
   invisible there. *)
DeliveryStatus(s) ==
    IF s \in {"queued", "sending"} THEN "pending"
    ELSE IF s = "sent" THEN "delivered"
    ELSE IF s = "dead" THEN "abandoned"
    ELSE "none"

Delivery == INSTANCE OutboundDelivery WITH
    Doc <- Msg,
    status <- [m \in Msg |-> DeliveryStatus(row[m].state)],
    reopenings <- clicks

DeliverySpec == Delivery!Spec
=============================================================================
