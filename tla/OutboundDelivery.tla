--------------------------- MODULE OutboundDelivery ---------------------------
(***************************************************************************)
(* What the outbound 3PL message queue promises to the rest of the ERP.    *)
(*                                                                         *)
(* A document handed to the queue is pending until one batch of a cron run *)
(* settles it: as delivered, which needs the partner to have accepted the  *)
(* document, or as abandoned (the dead-letter state).  A settled document  *)
(* becomes pending again only through a click of an operator on Requeue.   *)
(* There is nothing here of workers, transactions, locks, retries or of    *)
(* the wire: OutboundQueue implements this specification.                  *)
(***************************************************************************)
EXTENDS Naturals

CONSTANT Doc            \* the documents handed to the queue

VARIABLES
    status,             \* status[d]: what the ERP believes of document d
    accepted,           \* the documents the partner has accepted
    reopenings          \* how often an operator put a document back

vars == <<status, accepted, reopenings>>

Status == {"none", "pending", "delivered", "abandoned"}

TypeOK ==
    /\ status \in [Doc -> Status]
    /\ accepted \subseteq Doc
    /\ reopenings \in Nat

Pending == {d \in Doc : status[d] = "pending"}

Init ==
    /\ status = [d \in Doc |-> "none"]
    /\ accepted = {}
    /\ reopenings = 0

Submit(d) ==
    /\ status[d] = "none"
    /\ status' = [status EXCEPT ![d] = "pending"]
    /\ UNCHANGED <<accepted, reopenings>>

(* The partner may accept a document late: after the ERP gave it up. *)
Accept(d) ==
    /\ status[d] # "none"
    /\ accepted' = accepted \union {d}
    /\ UNCHANGED <<status, reopenings>>

(* One batch settles some of the pending documents, all at once. *)
Settle(delivered, abandoned) ==
    /\ delivered \subseteq Pending \intersect accepted
    /\ abandoned \subseteq Pending \ delivered
    /\ status' = [d \in Doc |->
                    IF d \in delivered THEN "delivered"
                    ELSE IF d \in abandoned THEN "abandoned"
                    ELSE status[d]]
    /\ UNCHANGED <<accepted, reopenings>>

Reopen(d) ==
    /\ status[d] # "none"
    /\ status' = [status EXCEPT ![d] = "pending"]
    /\ reopenings' = reopenings + 1
    /\ UNCHANGED accepted

Next ==
    \/ \E d \in Doc : Submit(d) \/ Accept(d) \/ Reopen(d)
    \/ \E delivered, abandoned \in SUBSET Doc : Settle(delivered, abandoned)

Spec == Init /\ [][Next]_vars

(* A document the ERP shows as delivered is one the partner accepted. *)
DeliveredIsAccepted ==
    \A d \in Doc : status[d] = "delivered" => d \in accepted
===============================================================================
