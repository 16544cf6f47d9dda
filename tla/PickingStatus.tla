---------------------------- MODULE PickingStatus ----------------------------
(***************************************************************************)
(* x_mf_status: the life of the pickings of one confirmed sale order, which *)
(* is written by the routing step, the partner's acknowledgements and       *)
(* confirmations, the tracking and the reconciliation cron, and users.      *)
(*                                                                          *)
(* Every handler decides on the row it then writes, and under REPEATABLE    *)
(* READ it cannot commit if that row was written after its snapshot: each   *)
(* is one atomic action here.  What is left of concurrency is the order in  *)
(* which the handlers run, and in which the partner's documents arrive.     *)
(*                                                                          *)
(* The order has ONE message, which OutboundQueue sends; the partner ships  *)
(* it in one or several consignments, and its documents name the order and  *)
(* never a picking.  They come the way InboundPipeline hands them over:     *)
(* late, out of order and perhaps more than once.                           *)
(***************************************************************************)
EXTENDS Naturals, FiniteSets

CONSTANTS
    Picking,        \* the order's outbound pickings
    CrossBorder,    \* those whose warehouse and address differ in country
    Shipment,       \* the consignments the partner may ship the order in
    NoConnote,      \* an unset x_mf_connote
    EditedTo,       \* what users set the status to by hand, in the picking's form
    MaxUserActs     \* bound: what users do to the pickings

ASSUME PickingAssumption ==
    /\ CrossBorder \subseteq Picking
    /\ NoConnote \notin Shipment
    /\ MaxUserActs \in Nat

Status == {"draft", "mf_held_review", "mf_queued", "mf_sent", "mf_received",
           "mf_dispatched", "mf_in_transit", "mf_out_for_delivery",
           "mf_delivered", "mf_exception", "mf_resolved"}

TerminalStatuses == {"mf_delivered", "mf_exception"}

ASSUME EditAssumption == EditedTo \subseteq Status

(* How a consignment gets on; the tracking API reports it by these names. *)
Progress == <<"mf_dispatched", "mf_in_transit", "mf_out_for_delivery", "mf_delivered">>
Delivered == 4

Document ==
    [kind : {"ack"}]
    \union [kind : {"confirmation"}, consignment : Shipment \union {NoConnote}]

VARIABLES
    status,     \* status[p]: x_mf_status
    connote,    \* connote[p]: x_mf_connote
    routed,     \* pickings with an x_mf_routed_by
    open,       \* pickings not done or cancelled
    old,        \* pickings in mf_sent not written for reconcile_hours
    entered,    \* pickings whose status is a user's entry, or was there before the
                \* user entered another connote
    message,    \* the order's message: queued, sent or dead
    progress,   \* progress[s]: how far consignment s is, 0 when not shipped
    excepted,   \* consignments the partner reports as an exception
    mail,       \* documents of the partner that may be handed over
    acts

vars == <<status, connote, routed, open, old, entered, message, progress,
          excepted, mail, acts>>
partner == <<progress, excepted, mail>>

(* The statuses the tracking cron polls. *)
BugForgetsReceived ==                                    \* seeded fault
    {"mf_sent", "mf_dispatched", "mf_in_transit", "mf_out_for_delivery"}
Trackable == {"mf_sent", "mf_received", "mf_dispatched", "mf_in_transit",
              "mf_out_for_delivery"}

(* Types; and the program holds only routed cross-border pickings for review. *)
TypeOK ==
    /\ status \in [Picking -> Status]
    /\ connote \in [Picking -> Shipment \union {NoConnote}]
    /\ routed \subseteq Picking /\ open \subseteq Picking
    /\ old \subseteq {p \in Picking : status[p] = "mf_sent"}
    /\ entered \subseteq Picking
    /\ message \in {"queued", "sent", "dead"}
    /\ progress \in [Shipment -> 0 .. Delivered]
    /\ excepted \subseteq Shipment
    /\ mail \subseteq Document
    /\ acts \in 0 .. MaxUserActs
    /\ \A p \in Picking :
        status[p] = "mf_held_review" =>
            p \in entered \/ p \in CrossBorder \intersect routed

(* The order has just been confirmed: its message is queued (EnqueueHooks). *)
Init ==
    /\ status = [p \in Picking |-> "draft"]
    /\ connote = [p \in Picking |-> NoConnote]
    /\ routed = {} /\ old = {} /\ entered = {}
    /\ open = Picking
    /\ message = "queued"
    /\ progress = [s \in Shipment |-> 0]
    /\ excepted = {} /\ mail = {}
    /\ acts = 0

(* picking.write: it also makes the picking's write_date new. *)
WriteStatus(p, s) ==
    /\ status' = [status EXCEPT ![p] = s]
    /\ old' = old \ {p}
    /\ entered' = entered \ {p}

-----------------------------------------------------------------------------
(* The order's message: the outbound queue, and Requeue.  The partner
   acknowledges an order it has accepted. *)

Push ==
    /\ message = "queued"
    /\ \/ message' = "sent" /\ mail' = mail \union {[kind |-> "ack"]}
       \/ message' = "dead" /\ UNCHANGED mail
    /\ UNCHANGED <<status, connote, routed, open, old, entered, progress, excepted,
                   acts>>

RequeueMessage ==
    /\ message = "dead" /\ acts < MaxUserActs
    /\ acts' = acts + 1
    /\ message' = "queued"
    /\ UNCHANGED <<status, connote, routed, open, old, entered, partner>>

-----------------------------------------------------------------------------
(* mf.push.cron._route_pending_orders and mf.split.engine.apply_routing, for a
   picking that gets an assignment (SplitRouting has the whole of it). *)

BugHoldsDomestic(p) == p \notin CrossBorder     \* seeded fault
IsCrossBorder(p) == p \in CrossBorder

Route(p) ==
    /\ p \in open \ routed
    /\ routed' = routed \union {p}
    /\ WriteStatus(p, IF IsCrossBorder(p) THEN "mf_held_review" ELSE "mf_queued")
    /\ UNCHANGED <<connote, open, message, acts, partner>>

-----------------------------------------------------------------------------
(* The partner: it ships an order it has, confirms each consignment, with its
   number or without, and moves it on. *)

Ship(s) ==
    /\ message = "sent" /\ progress[s] = 0
    /\ progress' = [progress EXCEPT ![s] = 1]
    /\ \E c \in {s, NoConnote} :
        mail' = mail \union {[kind |-> "confirmation", consignment |-> c]}
    /\ UNCHANGED <<status, connote, routed, open, old, entered, message, excepted,
                   acts>>

MoveOn(s) ==
    /\ progress[s] \in 1 .. Delivered - 1 /\ s \notin excepted
    /\ \/ progress' = [progress EXCEPT ![s] = @ + 1] /\ UNCHANGED excepted
       \/ excepted' = excepted \union {s} /\ UNCHANGED progress
    /\ UNCHANGED <<status, connote, routed, open, old, entered, message, mail,
                   acts>>

(* A document stays in the mail when it is handed over again. *)
Consume(doc) == mail' \in {mail, mail \ {doc}}

(* SOAcknowledgementDocument._apply_rows: the first open picking of the order,
   whatever its status.  Which one is first depends on priority, scheduled
   date and id. *)
ApplyAck ==
    \E doc \in mail :
        /\ doc.kind = "ack"
        /\ Consume(doc)
        /\ IF open = {} THEN UNCHANGED <<status, old, entered>>
           ELSE \E p \in open : WriteStatus(p, "mf_received")
        /\ UNCHANGED <<connote, routed, open, message, progress, excepted, acts>>

(* A confirmation without a consignment number leaves the connote alone. *)
ConnoteAfter(doc, c) == IF doc.consignment = NoConnote THEN c ELSE doc.consignment

BugKeepsDelivered(p) ==     \* seeded fault: a terminal status is left alone
    IF status[p] \in TerminalStatuses THEN status[p] ELSE "mf_dispatched"
StatusConfirmed(p) == "mf_dispatched"

(* SOConfirmationDocument.apply_inbound *)
ApplyConfirmation ==
    \E doc \in mail :
        /\ doc.kind = "confirmation"
        /\ Consume(doc)
        /\ IF open = {} THEN UNCHANGED <<status, old, entered, connote>>
           ELSE \E p \in open :
                    /\ WriteStatus(p, StatusConfirmed(p))
                    /\ connote' = [connote EXCEPT ![p] = ConnoteAfter(doc, @)]
        /\ UNCHANGED <<routed, open, message, progress, excepted, acts>>

-----------------------------------------------------------------------------
(* The crons *)

(* What the tracking API may say of a consignment; it knows none that has not been
   shipped. *)
Answers(s) ==
    IF s \in excepted
    THEN {"mf_exception"}
    ELSE CASE progress[s] = 0 -> {}
           [] progress[s] = 1 -> {"mf_received", "mf_dispatched"}
           [] OTHER           -> {Progress[progress[s]]}

(* mf.tracking.cron._poll_and_update, with an answer.  Nothing is written without
   one: get_tracking_status returns {} when the request fails or the status is
   unknown, and always for a transport other than REST; and a picking whose
   warehouse has no connector is passed over. *)
Track(p) ==
    /\ status[p] \in Trackable /\ connote[p] # NoConnote
    /\ \E answer \in Answers(connote[p]) : WriteStatus(p, answer)
    /\ UNCHANGED <<connote, routed, open, message, acts, partner>>

(* mf.inbound.cron._reconcile_sent_orders *)
Reconcile(p) ==
    /\ status[p] = "mf_sent" /\ p \in old /\ connote[p] = NoConnote
    /\ WriteStatus(p, "mf_exception")
    /\ UNCHANGED <<connote, routed, open, message, acts, partner>>

Grow(p) ==
    /\ status[p] = "mf_sent" /\ p \notin old
    /\ old' = old \union {p}
    /\ UNCHANGED <<status, connote, routed, open, entered, message, acts, partner>>

-----------------------------------------------------------------------------
(* Users *)

UserSets(p, s) ==
    /\ acts < MaxUserActs
    /\ acts' = acts + 1
    /\ WriteStatus(p, s)
    /\ UNCHANGED <<connote, routed, open, message, partner>>

ApproveCrossBorder(p) ==
    /\ status[p] = "mf_held_review"
    /\ UserSets(p, "mf_queued")

(* action_mf_retry, and the reassign wizard, which also takes held pickings;
   the connector it stores is read by nobody. *)
Retry(p) ==
    /\ status[p] = "mf_exception"
    /\ UserSets(p, "mf_queued")

Reassign(p) ==
    /\ status[p] \in {"mf_exception", "mf_held_review"}
    /\ UserSets(p, "mf_queued")

MarkResolved(p) ==
    /\ status[p] = "mf_exception"
    /\ UserSets(p, "mf_resolved")

(* The Mainfreight tab of the picking's form lets users enter a status, and
   replace or clear a connote that is set, or both at once. *)
EditForm(p) ==
    /\ acts < MaxUserActs
    /\ acts' = acts + 1
    /\ \E s \in EditedTo \union {status[p]} : status' = [status EXCEPT ![p] = s]
    /\ \E c \in Shipment \union {NoConnote} :
        /\ connote[p] = NoConnote => c = NoConnote
        /\ connote' = [connote EXCEPT ![p] = c]
    /\ <<status, connote>>' # <<status, connote>>
    /\ old' = old \ {p}
    /\ entered' = entered \union {p}
    /\ UNCHANGED <<routed, open, message, partner>>

(* The picking is validated or cancelled in Odoo. *)
ClosePicking(p) ==
    /\ p \in open /\ acts < MaxUserActs
    /\ acts' = acts + 1
    /\ open' = open \ {p}
    /\ UNCHANGED <<status, connote, routed, old, entered, message, partner>>

-----------------------------------------------------------------------------
Next ==
    \/ Push \/ RequeueMessage \/ ApplyAck \/ ApplyConfirmation
    \/ \E s \in Shipment : Ship(s) \/ MoveOn(s)
    \/ \E p \in Picking :
        \/ Route(p) \/ Track(p) \/ Reconcile(p) \/ Grow(p)
        \/ ApproveCrossBorder(p) \/ Retry(p) \/ Reassign(p)
        \/ MarkResolved(p) \/ EditForm(p) \/ ClosePicking(p)

Spec == Init /\ [][Next]_vars

-----------------------------------------------------------------------------
(* Properties *)

(* What a picking shows of its delivery is true of the consignment it names:
   shown in transit, out for delivery or delivered, that consignment has got so
   far - unless a user has entered the one or the other by hand since.  A late
   document may replace the consignment or set the picking back, and must do
   both together (so_confirmation.py:114-124); and what is polled after an entry
   by hand is true again. *)
ShownIsTrue ==
    \A p \in Picking \ entered, i \in 2 .. Delivered :
        status[p] = Progress[i] =>
            connote[p] # NoConnote /\ progress[connote[p]] >= i

(* The cron that is installed reconciles, and time passes. *)
FairSpec == Spec /\ \A p \in Picking : WF_vars(Grow(p)) /\ WF_vars(Reconcile(p))

(* The tracking API answers, in the end, for a picking that it is asked about
   again and again.  The code cannot promise it: a request may fail every time, and
   only the REST transport answers at all. *)
PartnerAnswers == \A p \in Picking : WF_vars(Track(p))

(* If the partner answers, a consignment that has arrived is shown as delivered in
   the end, although an acknowledgement or confirmation that came late had set its
   picking back; unless the routing step or a user takes the picking, or another
   consignment does. *)
ArrivalIsShown ==
    PartnerAnswers =>
        \A p \in Picking, s \in Shipment :
            progress[s] = Delivered /\ connote[p] = s
                /\ status[p] \in {"mf_sent", "mf_received", "mf_dispatched",
                                  "mf_in_transit", "mf_out_for_delivery"}
            ~> \/ status[p] \in {"mf_delivered", "mf_held_review", "mf_queued"}
               \/ connote[p] # s \/ p \in entered

-----------------------------------------------------------------------------
(* The inductive invariant *)

IInv == TypeOK /\ ShownIsTrue
===============================================================================
