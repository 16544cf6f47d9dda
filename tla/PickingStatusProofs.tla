-------------------------- MODULE PickingStatusProofs --------------------------
(***************************************************************************)
(* Proofs about PickingStatus: what a picking shows of its delivery, with  *)
(* users who enter whatever status and connote they like by hand.          *)
(***************************************************************************)
EXTENDS PickingStatus, TLAPS

(* The statuses that say how far a delivery is. *)
Shown == {Progress[i] : i \in 2 .. Delivered}

LEMMA ProgressIs ==
    /\ Progress[1] = "mf_dispatched" /\ Progress[2] = "mf_in_transit"
    /\ Progress[3] = "mf_out_for_delivery" /\ Progress[4] = "mf_delivered"
    /\ \A i \in 1 .. Delivered : /\ i = 1 \/ i = 2 \/ i = 3 \/ i = 4
                                 /\ Progress[i] \in Status
    /\ \A i, j \in 1 .. Delivered : Progress[i] = Progress[j] => i = j
    /\ Shown = {"mf_in_transit", "mf_out_for_delivery", "mf_delivered"}
<1>1. /\ Progress[1] = "mf_dispatched" /\ Progress[2] = "mf_in_transit"
      /\ Progress[3] = "mf_out_for_delivery" /\ Progress[4] = "mf_delivered"
  BY DEF Progress
<1>2. \A i \in 1 .. Delivered : i = 1 \/ i = 2 \/ i = 3 \/ i = 4
  BY DEF Delivered
<1>3. \A i \in 2 .. Delivered : i = 2 \/ i = 3 \/ i = 4
  BY DEF Delivered
<1>4. 2 \in 2 .. Delivered /\ 3 \in 2 .. Delivered /\ 4 \in 2 .. Delivered
  BY DEF Delivered
<1>5. Shown = {"mf_in_transit", "mf_out_for_delivery", "mf_delivered"}
  BY <1>1, <1>3, <1>4 DEF Shown
<1>6. \A i \in 1 .. Delivered : Progress[i] \in Status
  BY <1>1, <1>2 DEF Status
<1>7. \A i, j \in 1 .. Delivered : Progress[i] = Progress[j] => i = j
  BY <1>1, <1>2
<1> QED
  BY <1>1, <1>2, <1>5, <1>6, <1>7

LEMMA InitIInv == Init => IInv
<1> SUFFICES ASSUME Init PROVE IInv
  OBVIOUS
<1>1. TypeOK
  BY PickingAssumption DEF Init, TypeOK, Status, Delivered
<1>2. ShownIsTrue
  BY ProgressIs DEF Init, ShownIsTrue, Shown
<1> QED
  BY <1>1, <1>2 DEF IInv

(* A step that writes a status: a status that shows progress is true of the
   consignment the picking names afterwards, and it is held only when it may be. *)
LEMMA WritesStatus ==
    ASSUME IInv, NEW p \in Picking, NEW s \in Status, WriteStatus(p, s),
           NEW c \in Shipment \union {NoConnote}, connote' = [connote EXCEPT ![p] = c],
           \A i \in 2 .. Delivered : s = Progress[i] => c # NoConnote /\ progress[c] >= i,
           s = "mf_held_review" => p \in CrossBorder \intersect routed',
           routed \subseteq routed', routed' \subseteq Picking, open' \subseteq open,
           mail' \subseteq mail, acts' \in 0 .. MaxUserActs,
           UNCHANGED <<message, progress, excepted>>
    PROVE  IInv'
<1> USE DEF IInv
<1>1. /\ \A q \in Picking \ {p} : status'[q] = status[q] /\ connote'[q] = connote[q]
      /\ status'[p] = s /\ connote'[p] = c
      /\ status' \in [Picking -> Status]
      /\ connote' \in [Picking -> Shipment \union {NoConnote}]
      /\ old' = old \ {p} /\ entered' = entered \ {p}
  BY DEF TypeOK, WriteStatus
<1>2. TypeOK'
  BY <1>1 DEF TypeOK
<1>3. ShownIsTrue'
  <2> SUFFICES ASSUME NEW q \in Picking \ entered', NEW i \in 2 .. Delivered,
                      status'[q] = Progress[i]
               PROVE  connote'[q] # NoConnote /\ progress[connote'[q]] >= i
    BY DEF ShownIsTrue
  <2> QED
    BY <1>1 DEF ShownIsTrue
<1> QED
  BY <1>2, <1>3

(* The same when the picking's consignment stays. *)
LEMMA WritesStatusOnly ==
    ASSUME IInv, NEW p \in Picking, NEW s \in Status \ Shown, WriteStatus(p, s),
           s = "mf_held_review" => p \in CrossBorder \intersect routed',
           routed \subseteq routed', routed' \subseteq Picking,
           mail' \subseteq mail, acts' \in 0 .. MaxUserActs,
           UNCHANGED <<connote, open, message, progress, excepted>>
    PROVE  IInv'
<1>c. PICK c : c = connote[p]
  OBVIOUS
<1>1. /\ c \in Shipment \union {NoConnote}
      /\ connote' = [connote EXCEPT ![p] = c]
  BY <1>c DEF IInv, TypeOK
<1>2. \A i \in 2 .. Delivered : s = Progress[i] => c # NoConnote /\ progress[c] >= i
  BY DEF Shown
<1>3. s \in Status /\ open' \subseteq open
  OBVIOUS
<1> QED
  BY <1>1, <1>2, <1>3, WritesStatus

-----------------------------------------------------------------------------
(* The order's message, the partner and its documents *)

LEMMA PushIInv ==
    ASSUME IInv, Push \/ RequeueMessage
    PROVE  IInv'
<1> USE DEF IInv
<1>1. /\ UNCHANGED <<status, connote, routed, open, old, entered, progress,
                  excepted>>
      /\ mail' = mail \/ mail' = mail \union {[kind |-> "ack"]}
      /\ message' \in {"queued", "sent", "dead"}
  BY DEF Push, RequeueMessage, partner
<1>2. acts' \in 0 .. MaxUserActs
  BY PickingAssumption DEF Push, RequeueMessage, TypeOK
<1>3. [kind |-> "ack"] \in Document
  BY DEF Document
<1>4. TypeOK'
  BY <1>1, <1>2, <1>3 DEF TypeOK
<1>5. ShownIsTrue'
  BY <1>1 DEF ShownIsTrue
<1> QED
  BY <1>4, <1>5

(* A consignment gets on: what is shown of it stays true. *)
LEMMA ProgressStays ==
    ASSUME IInv, NEW s \in Shipment, NEW n \in 1 .. Delivered, progress[s] <= n,
           progress' = [progress EXCEPT ![s] = n], UNCHANGED <<status, connote, entered>>
    PROVE  progress' \in [Shipment -> 0 .. Delivered] /\ ShownIsTrue'
<1>1. /\ progress \in [Shipment -> 0 .. Delivered]
      /\ \A r \in Shipment : progress[r] \in Nat
  BY DEF IInv, TypeOK, Delivered
<1>2. /\ progress' \in [Shipment -> 0 .. Delivered] /\ progress'[s] = n
      /\ \A r \in Shipment : progress'[r] \in Nat /\ progress[r] <= progress'[r]
  BY <1>1 DEF Delivered
<1>3. ShownIsTrue'
  <2> SUFFICES ASSUME NEW p \in Picking \ entered, NEW i \in 2 .. Delivered,
                      status[p] = Progress[i]
               PROVE  connote[p] # NoConnote /\ progress'[connote[p]] >= i
    BY DEF ShownIsTrue
  <2>1. connote[p] # NoConnote /\ progress[connote[p]] >= i
    BY DEF IInv, ShownIsTrue
  <2>2. connote[p] \in Shipment /\ i \in Nat
    BY <2>1 DEF IInv, TypeOK, Delivered
  <2> QED
    BY <1>1, <1>2, <2>1, <2>2
<1> QED
  BY <1>1, <1>2, <1>3

LEMMA ShipIInv ==
    ASSUME IInv, NEW s \in Shipment, Ship(s)
    PROVE  IInv'
<1> USE DEF IInv
<1>1. PICK c \in {s, NoConnote} :
        mail' = mail \union {[kind |-> "confirmation", consignment |-> c]}
  BY DEF Ship
<1>d. PICK doc : doc = [kind |-> "confirmation", consignment |-> c]
  OBVIOUS
<1>2. /\ progress[s] = 0 /\ progress' = [progress EXCEPT ![s] = 1]
      /\ UNCHANGED <<status, connote, routed, open, old, entered, message, excepted, acts>>
  BY DEF Ship
<1>3. progress' \in [Shipment -> 0 .. Delivered] /\ ShownIsTrue'
  <2>1. 1 \in 1 .. Delivered /\ progress[s] <= 1
    BY <1>2 DEF Delivered
  <2> QED
    BY <1>2, <2>1, ProgressStays
<1>4. doc \in Document /\ doc.consignment = c /\ mail' = mail \union {doc}
  BY <1>1, <1>d DEF Document
<1>5. TypeOK'
  BY <1>2, <1>3, <1>4 DEF TypeOK
<1> QED
  BY <1>3, <1>5

LEMMA MoveOnIInv ==
    ASSUME IInv, NEW s \in Shipment, MoveOn(s)
    PROVE  IInv'
<1> USE DEF IInv
<1>1. /\ progress[s] \in 1 .. Delivered - 1
      /\ \/ progress' = [progress EXCEPT ![s] = progress[s] + 1] /\ UNCHANGED excepted
         \/ excepted' = excepted \union {s} /\ UNCHANGED progress
      /\ UNCHANGED <<status, connote, routed, open, old, entered, message, mail, acts>>
  BY DEF MoveOn
<1>2. CASE progress' = [progress EXCEPT ![s] = progress[s] + 1] /\ UNCHANGED excepted
  <2>1. progress[s] + 1 \in 1 .. Delivered /\ progress[s] <= progress[s] + 1
    BY <1>1 DEF Delivered
  <2>2. progress' \in [Shipment -> 0 .. Delivered] /\ ShownIsTrue'
    BY <1>1, <1>2, <2>1, ProgressStays
  <2>3. TypeOK'
    BY <1>1, <1>2, <2>2 DEF TypeOK
  <2> QED
    BY <2>2, <2>3
<1>3. CASE excepted' = excepted \union {s} /\ UNCHANGED progress
  BY <1>1, <1>3 DEF TypeOK, ShownIsTrue
<1> QED
  BY <1>1, <1>2, <1>3

LEMMA ConsumeIs ==
    ASSUME NEW doc \in mail, Consume(doc)
    PROVE  mail' \subseteq mail
BY DEF Consume

LEMMA ApplyAckIInv ==
    ASSUME IInv, ApplyAck
    PROVE  IInv'
<1>1. PICK doc \in mail :
        /\ Consume(doc)
        /\ IF open = {} THEN UNCHANGED <<status, old, entered>>
           ELSE \E p \in open : WriteStatus(p, "mf_received")
        /\ UNCHANGED <<connote, routed, open, message, progress, excepted, acts>>
  BY DEF ApplyAck
<1>2. mail' \subseteq mail
  BY <1>1, ConsumeIs
<1>3. CASE open = {}
  BY <1>1, <1>2, <1>3 DEF IInv, TypeOK, ShownIsTrue
<1>4. CASE open # {}
  <2>1. PICK p \in open : WriteStatus(p, "mf_received")
    BY <1>1, <1>4
  <2>2. /\ p \in Picking /\ "mf_received" \in Status \ Shown
        /\ routed' \subseteq Picking /\ routed \subseteq routed'
        /\ acts' \in 0 .. MaxUserActs
    BY <1>1, ProgressIs DEF IInv, TypeOK, Status
  <2> QED
    BY <1>1, <1>2, <2>1, <2>2, WritesStatusOnly
<1> QED BY <1>3, <1>4

LEMMA ApplyConfirmationIInv ==
    ASSUME IInv, ApplyConfirmation
    PROVE  IInv'
<1>1. PICK doc \in mail :
        /\ doc.kind = "confirmation"
        /\ Consume(doc)
        /\ IF open = {} THEN UNCHANGED <<status, old, entered, connote>>
           ELSE \E p \in open :
                    /\ WriteStatus(p, StatusConfirmed(p))
                    /\ connote' = [connote EXCEPT ![p] = ConnoteAfter(doc, connote[p])]
        /\ UNCHANGED <<routed, open, message, progress, excepted, acts>>
  BY DEF ApplyConfirmation
<1>2. mail' \subseteq mail
  BY <1>1, ConsumeIs
<1>3. CASE open = {}
  BY <1>1, <1>2, <1>3 DEF IInv, TypeOK, ShownIsTrue
<1>4. CASE open # {}
  <2>1. PICK p \in open :
            /\ WriteStatus(p, "mf_dispatched")
            /\ connote' = [connote EXCEPT ![p] = ConnoteAfter(doc, connote[p])]
    BY <1>1, <1>4 DEF StatusConfirmed
  <2>c. PICK c : c = ConnoteAfter(doc, connote[p])
    OBVIOUS
  <2>2. p \in Picking
    BY DEF IInv, TypeOK
  <2>3. c \in Shipment \union {NoConnote}
    <3>1. doc.consignment \in Shipment \union {NoConnote}
      BY <1>1 DEF IInv, TypeOK, Document
    <3>2. connote[p] \in Shipment \union {NoConnote}
      BY <2>2 DEF IInv, TypeOK
    <3> QED
      BY <2>c, <3>1, <3>2 DEF ConnoteAfter
  <2>4. /\ "mf_dispatched" \in Status
        /\ \A i \in 2 .. Delivered :
                "mf_dispatched" = Progress[i] => c # NoConnote /\ progress[c] >= i
        /\ "mf_dispatched" = "mf_held_review" => p \in CrossBorder \intersect routed'
    BY ProgressIs DEF Shown, Status
  <2>5. /\ routed' \subseteq Picking /\ routed \subseteq routed' /\ open' \subseteq open
        /\ acts' \in 0 .. MaxUserActs
    BY <1>1 DEF IInv, TypeOK
  <2>6. connote' = [connote EXCEPT ![p] = c]
    BY <2>1, <2>c
  <2>7. WriteStatus(p, "mf_dispatched") /\ UNCHANGED <<message, progress, excepted>>
    BY <1>1, <2>1
  <2> QED
    BY <1>2, <2>2, <2>3, <2>4, <2>5, <2>6, <2>7, WritesStatus
<1> QED BY <1>3, <1>4

-----------------------------------------------------------------------------
(* Routing, the crons and users *)

LEMMA RouteIInv ==
    ASSUME IInv, NEW p \in Picking, Route(p)
    PROVE  IInv'
<1>s. PICK s : s = IF IsCrossBorder(p) THEN "mf_held_review" ELSE "mf_queued"
  OBVIOUS
<1>1. /\ WriteStatus(p, s) /\ routed' = routed \union {p}
      /\ UNCHANGED <<connote, open, message, acts, partner>>
  BY <1>s DEF Route
<1>2. /\ s \in Status \ Shown /\ (s = "mf_held_review" => p \in CrossBorder \intersect routed')
      /\ routed \subseteq routed' /\ routed' \subseteq Picking
      /\ mail' \subseteq mail /\ acts' \in 0 .. MaxUserActs
      /\ UNCHANGED <<connote, open, message, progress, excepted>>
  BY <1>1, <1>s, ProgressIs DEF IsCrossBorder, Status, IInv, TypeOK, partner
<1> QED
  BY <1>1, <1>2, WritesStatusOnly

LEMMA TrackIInv ==
    ASSUME IInv, NEW p \in Picking, Track(p)
    PROVE  IInv'
<1>c. PICK c : c = connote[p]
  OBVIOUS
<1>1. PICK s \in Answers(c) :
        /\ WriteStatus(p, s) /\ c # NoConnote
        /\ UNCHANGED <<connote, routed, open, message, acts, partner>>
  BY <1>c DEF Track
<1>2. /\ c \in Shipment /\ progress[c] \in 0 .. Delivered
      /\ connote' = [connote EXCEPT ![p] = c]
  BY <1>1, <1>c DEF IInv, TypeOK
<1>3. s \in Status /\ s # "mf_held_review"
      /\ \A i \in 2 .. Delivered : s = Progress[i] => progress[c] >= i
  <2>1. CASE c \in excepted
    <3>1. s = "mf_exception"
      BY <1>1, <2>1 DEF Answers
    <3> QED
      BY <3>1, ProgressIs DEF Status, Shown
  <2>2. CASE c \notin excepted /\ progress[c] \in {0, 1}
    <3>1. s \in {"mf_received", "mf_dispatched"}
      BY <1>1, <2>2 DEF Answers
    <3> QED
      BY <3>1, ProgressIs DEF Status, Shown
  <2>3. CASE c \notin excepted /\ progress[c] \in 2 .. Delivered
    <3>1. s = Progress[progress[c]]
      BY <1>1, <2>3 DEF Answers, Delivered
    <3>2. progress[c] \in 1 .. Delivered
      BY <2>3 DEF Delivered
    <3>3. s \in Status /\ s # "mf_held_review"
      BY <3>1, <3>2, ProgressIs
    <3>4. \A i \in 2 .. Delivered : i \in 1 .. Delivered /\ i >= i
      BY DEF Delivered
    <3> QED
      BY <3>1, <3>2, <3>3, <3>4, ProgressIs
  <2> QED
    BY <1>2, <2>1, <2>2, <2>3 DEF Delivered
<1>4. /\ routed' \subseteq Picking /\ routed \subseteq routed' /\ open' \subseteq open
      /\ mail' \subseteq mail /\ acts' \in 0 .. MaxUserActs
      /\ UNCHANGED <<message, progress, excepted>>
  BY <1>1 DEF IInv, TypeOK, partner
<1>5. c \in Shipment \union {NoConnote}
  BY <1>2
<1> QED
  BY <1>1, <1>2, <1>3, <1>4, <1>5, WritesStatus

LEMMA ReconcileIInv ==
    ASSUME IInv, NEW p \in Picking, Reconcile(p)
    PROVE  IInv'
<1>1. /\ WriteStatus(p, "mf_exception")
      /\ UNCHANGED <<connote, routed, open, message, acts, partner>>
  BY DEF Reconcile
<1>2. /\ "mf_exception" \in Status \ Shown
      /\ routed' \subseteq Picking /\ routed \subseteq routed'
      /\ mail' \subseteq mail /\ acts' \in 0 .. MaxUserActs
      /\ UNCHANGED <<connote, open, message, progress, excepted>>
  BY <1>1, ProgressIs DEF Status, IInv, TypeOK, partner
<1> QED
  BY <1>1, <1>2, WritesStatusOnly

LEMMA GrowIInv ==
    ASSUME IInv, NEW p \in Picking, Grow(p)
    PROVE  IInv'
<1>1. /\ status[p] = "mf_sent" /\ old' = old \union {p}
      /\ UNCHANGED <<status, connote, routed, open, entered, message, acts, partner>>
  BY DEF Grow
<1> QED
  BY <1>1 DEF IInv, TypeOK, ShownIsTrue, partner

LEMMA UserSetsIInv ==
    ASSUME IInv, NEW p \in Picking, NEW s \in Status \ (Shown \union {"mf_held_review"}),
           UserSets(p, s)
    PROVE  IInv'
<1>1. /\ WriteStatus(p, s) /\ acts < MaxUserActs /\ acts' = acts + 1
      /\ UNCHANGED <<connote, routed, open, message, partner>>
  BY DEF UserSets
<1>2. /\ s \in Status \ Shown /\ s # "mf_held_review"
      /\ routed' \subseteq Picking /\ routed \subseteq routed'
      /\ mail' \subseteq mail
      /\ UNCHANGED <<connote, open, message, progress, excepted>>
  BY <1>1 DEF IInv, TypeOK, partner
<1>3. acts' \in 0 .. MaxUserActs
  BY <1>1, PickingAssumption DEF IInv, TypeOK
<1> QED
  BY <1>1, <1>2, <1>3, WritesStatusOnly

LEMMA UserActsIInv ==
    ASSUME IInv, NEW p \in Picking,
           ApproveCrossBorder(p) \/ Retry(p) \/ Reassign(p) \/ MarkResolved(p)
    PROVE  IInv'
<1>1. {"mf_queued", "mf_resolved"} \subseteq Status \ (Shown \union {"mf_held_review"})
  BY ProgressIs DEF Status
<1>2. PICK s \in Status \ (Shown \union {"mf_held_review"}) : UserSets(p, s)
  BY <1>1 DEF ApproveCrossBorder, Retry, Reassign, MarkResolved
<1> QED
  BY <1>2, UserSetsIInv

(* A user's entry need not be true: the picking counts as entered until the program
   writes its status again. *)
LEMMA EditFormIInv ==
    ASSUME IInv, NEW p \in Picking, EditForm(p)
    PROVE  IInv'
<1> USE DEF IInv
<1>1. PICK s \in EditedTo \union {status[p]}, c \in Shipment \union {NoConnote} :
        /\ status' = [status EXCEPT ![p] = s] /\ connote' = [connote EXCEPT ![p] = c]
  BY DEF EditForm
<1>2. /\ acts < MaxUserActs /\ acts' = acts + 1
      /\ old' = old \ {p} /\ entered' = entered \union {p}
      /\ UNCHANGED <<routed, open, message, progress, excepted, mail>>
  BY DEF EditForm, partner
<1>3. /\ \A q \in Picking \ {p} : status'[q] = status[q] /\ connote'[q] = connote[q]
      /\ status' \in [Picking -> Status]
      /\ connote' \in [Picking -> Shipment \union {NoConnote}]
  BY <1>1, EditAssumption DEF TypeOK
<1>4. acts' \in 0 .. MaxUserActs
  BY <1>2, PickingAssumption DEF TypeOK
<1>5. TypeOK'
  BY <1>2, <1>3, <1>4 DEF TypeOK
<1>6. ShownIsTrue'
  BY <1>2, <1>3 DEF ShownIsTrue
<1> QED
  BY <1>5, <1>6

LEMMA ClosePickingIInv ==
    ASSUME IInv, NEW p \in Picking, ClosePicking(p)
    PROVE  IInv'
<1>1. /\ acts < MaxUserActs /\ acts' = acts + 1 /\ open' = open \ {p}
      /\ UNCHANGED <<status, connote, routed, old, entered, message, partner>>
  BY DEF ClosePicking
<1>2. acts' \in 0 .. MaxUserActs
  BY <1>1, PickingAssumption DEF IInv, TypeOK
<1> QED
  BY <1>1, <1>2 DEF IInv, TypeOK, ShownIsTrue, partner

LEMMA NextIInv == IInv /\ [Next]_vars => IInv'
<1> SUFFICES ASSUME IInv, [Next]_vars PROVE IInv'
  OBVIOUS
<1>1. CASE Push \/ RequeueMessage \/ ApplyAck \/ ApplyConfirmation
  BY <1>1, PushIInv, ApplyAckIInv, ApplyConfirmationIInv
<1>2. ASSUME NEW s \in Shipment, Ship(s) \/ MoveOn(s) PROVE IInv'
  BY <1>2, ShipIInv, MoveOnIInv
<1>3. ASSUME NEW p \in Picking, Route(p) \/ Track(p) \/ Reconcile(p) \/ Grow(p) PROVE IInv'
  BY <1>3, RouteIInv, TrackIInv, ReconcileIInv, GrowIInv
<1>4. ASSUME NEW p \in Picking,
             \/ ApproveCrossBorder(p) \/ Retry(p) \/ Reassign(p)
             \/ MarkResolved(p) \/ EditForm(p)
      PROVE  IInv'
  BY <1>4, UserActsIInv, EditFormIInv
<1>5. ASSUME NEW p \in Picking, ClosePicking(p) PROVE IInv'
  BY <1>5, ClosePickingIInv
<1>6. CASE UNCHANGED vars
  BY <1>6 DEF vars, IInv, TypeOK, ShownIsTrue
<1> QED
  BY <1>1, <1>2, <1>3, <1>4, <1>5, <1>6 DEF Next

-----------------------------------------------------------------------------
(* Results *)

(* The inductive invariant of the pickings' statuses (picking_mf.py:80-130,
   so_confirmation.py:114-124, tracking_cron.py:272-278). *)
THEOREM PickingInvariant == Spec => []IInv
<1> QED
  BY InitIInv, NextIInv, PTL DEF Spec

(* The variables keep their types, and the program holds only routed cross-border
   pickings for review. *)
THEOREM PickingTypes == Spec => []TypeOK
<1>1. IInv => TypeOK
  BY DEF IInv
<1> QED
  BY <1>1, PickingInvariant, PTL

(* A delivery progress that is shown is true of the consignment named, for any
   number of pickings, consignments and repeated documents, until a user enters a
   status or a connote by hand and again once the program has written the picking
   (so_confirmation.py:114-124, tracking_cron.py:272-278). *)
THEOREM WhatIsShownIsTrue == Spec => []ShownIsTrue
<1>1. IInv => ShownIsTrue
  BY DEF IInv
<1> QED
  BY <1>1, PickingInvariant, PTL
===============================================================================
