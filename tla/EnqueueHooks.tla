----------------------------- MODULE EnqueueHooks -----------------------------
(***************************************************************************)
(* How documents get into the outbound queue: the sale order hook and the  *)
(* product hook of the Mainfreight addon, running in the transactions of   *)
(* concurrent users, against the table's                                   *)
(* UNIQUE(connector_id, idempotency_key).                                  *)
(*                                                                         *)
(* A user's transaction reads a snapshot (Odoo: REPEATABLE READ), so what  *)
(* a hook finds in the table is what was there when the transaction began; *)
(* the constraint, checked when the row is inserted, sees what has been    *)
(* committed since.  The queue that drains the table is OutboundQueue; of  *)
(* it only the change from queued to sent or dead is seen here.            *)
(***************************************************************************)
EXTENDS Naturals

CONSTANTS
    Connector,      \* connectors of the Mainfreight partner
    Order,          \* sale orders
    Product,        \* product variants
    Code,           \* values of default_code
    User,           \* users whose transactions run concurrently
    None,           \* no connector, no code, no document
    MaxVer          \* bound: how often a document is edited

ASSUME HookAssumption ==
    /\ MaxVer \in Nat
    /\ None \notin Connector \union Order \union Product \union Code
    /\ Order \intersect Product = {}
    /\ Order \intersect Code = {}

VARIABLES
    active,         \* connectors that are active
    order,          \* order[o]: state, version of its content, its connector
    product,        \* product[p]: version of its content, default_code
    msg,            \* msg[c][k]: the message of connector c with key k
    txn,            \* txn[u]: what user u's open transaction is about to do
    unbuilt         \* orders whose document could not be built at confirmation

vars == <<active, order, product, msg, txn, unbuilt>>

(* The idempotency key is a hash of connector, document type and reference:
   the order's name, or the product's default_code (not the product). *)
Key == Order \union Code

Document == Order \union Product
Decision == {"none", "skip", "create", "update", "fail"}

OrderRecord == [state : {"draft", "sale", "cancel"}, ver : 0 .. MaxVer,
                conn : Connector \union {None}]
ProductRecord == [ver : 0 .. MaxVer, code : Code \union {None}]

Message == [state  : {"none", "queued", "sent", "dead"},
            of     : Document \union {None},
            ver    : 0 .. MaxVer,
            action : {"create", "update"}]

(* A transaction: the document it writes, as its snapshot shows it; the
   connectors it found; what it does for each; the key it does it under. *)
Txn == [doc  : Document \union {None},
        base : OrderRecord \union ProductRecord \union {None},
        seen : SUBSET Connector,
        plan : [Connector -> Decision],
        key  : Key \union {None}]

NoMsg == [state |-> "none", of |-> None, ver |-> 0, action |-> "create"]
NoTxn == [doc |-> None, base |-> None, seen |-> {},
          plan |-> [c \in Connector |-> "none"], key |-> None]

(* Types; a message is never in draft, from where nothing would drain it. *)
TypeOK ==
    /\ active \subseteq Connector
    /\ order \in [Order -> OrderRecord]
    /\ product \in [Product -> ProductRecord]
    /\ msg \in [Connector -> [Key -> Message]]
    /\ txn \in [User -> Txn]
    /\ unbuilt \subseteq Order

Init ==
    /\ active \in SUBSET Connector
    /\ order \in [Order -> {r \in OrderRecord : r.state = "draft" /\ r.ver = 0}]
    /\ product \in [Product -> {r \in ProductRecord : r.ver = 0}]
    /\ msg = [c \in Connector |-> [k \in Key |-> NoMsg]]
    /\ txn = [u \in User |-> NoTxn]
    /\ unbuilt = {}

-----------------------------------------------------------------------------
(* Transactions *)

Current(d) == IF d \in Order THEN order[d] ELSE product[d]

Inserts(u) == {c \in Connector : txn[u].plan[c] \in {"create", "update"}}

(* The UNIQUE constraint: the key of every row to be inserted is free in the committed
   table. *)
Insertable(u) == \A c \in Inserts(u) : msg[c][txn[u].key].state = "none"

(* Its own row was not written by anyone else since the snapshot. *)
Committable(u) ==
    /\ txn[u].doc # None
    /\ Current(txn[u].doc) = txn[u].base
    /\ Insertable(u)

BugInsertsDraft(u, v) ==    \* seeded fault: the state is left to its default
    [c \in Connector |->
        IF c \in Inserts(u)
        THEN [msg[c] EXCEPT ![txn[u].key] =
                [state |-> "draft", of |-> txn[u].doc, ver |-> v,
                 action |-> txn[u].plan[c]]]
        ELSE msg[c]]

WithInserted(u, v) ==
    [c \in Connector |->
        IF c \in Inserts(u)
        THEN [msg[c] EXCEPT ![txn[u].key] =
                [state |-> "queued", of |-> txn[u].doc, ver |-> v,
                 action |-> txn[u].plan[c]]]
        ELSE msg[c]]

(* A duplicate key or a serialization failure rolls everything back.  The
   first is not caught in write; action_confirm catches it, but the failed
   INSERT has aborted the transaction and no savepoint protects it, so the
   confirmation is rolled back as well. *)
Abort(u) ==
    /\ txn[u].doc # None
    /\ ~Committable(u)
    /\ txn' = [txn EXCEPT ![u] = NoTxn]
    /\ UNCHANGED <<active, order, product, msg, unbuilt>>

-----------------------------------------------------------------------------
(* product.product.write *)

(* What _queue_mf_product_sync decides for one connector, on the snapshot. *)
ProductDecision(c, k) ==
    IF c \notin active \/ k = None THEN "none"
    ELSE IF msg[c][k].state = "queued" THEN "skip"
    ELSE IF msg[c][k].state \notin {"none", "dead"} THEN "update"
    ELSE "create"

(* Seeded fault: the loop over the connectors returns where it continues. *)
BugReturnAtFirstInFlight(k) ==
    IF \E c \in Connector : ProductDecision(c, k) = "skip"
    THEN [c \in Connector |-> "none"]
    ELSE [c \in Connector |-> ProductDecision(c, k)]

ProductPlan(k) == [c \in Connector |-> ProductDecision(c, k)]

(* super().write and the hook's searches; the new default_code may be the
   old one, another product's, or none. *)
BeginProductWrite(u, p, k) ==
    /\ txn[u] = NoTxn
    /\ product[p].ver < MaxVer
    /\ txn' = [txn EXCEPT ![u] = [doc |-> p, base |-> product[p], seen |-> active,
                                  plan |-> ProductPlan(k), key |-> k]]
    /\ UNCHANGED <<active, order, product, msg, unbuilt>>

CommitProductWrite(u) ==
    LET p == txn[u].doc IN
    /\ p \in Product
    /\ Committable(u)
    /\ product' = [product EXCEPT ![p] = [ver |-> @.ver + 1, code |-> txn[u].key]]
    /\ msg' = WithInserted(u, product[p].ver + 1)
    /\ txn' = [txn EXCEPT ![u] = NoTxn]
    /\ UNCHANGED <<active, order, unbuilt>>

-----------------------------------------------------------------------------
(* sale.order.action_confirm *)

(* A message that is not dead blocks another one for the same order. *)
BugExistingAnywhere(c, o) ==    \* seeded fault: connector_id not searched for
    \E d \in Connector : msg[d][o].state \notin {"none", "dead"}
Existing(c, o) == msg[c][o].state \notin {"none", "dead"}

OrderDecision(c, o) ==
    IF c # order[o].conn \/ c \notin active THEN {"none"}
    ELSE IF Existing(c, o) THEN {"skip"}
    ELSE {"create", "fail"}     \* build_outbound may raise

BeginConfirm(u, o) ==
    /\ txn[u] = NoTxn
    /\ order[o].state = "draft"
    /\ \E plan \in [Connector -> Decision] :
        /\ \A c \in Connector : plan[c] \in OrderDecision(c, o)
        /\ txn' = [txn EXCEPT ![u] = [doc |-> o, base |-> order[o], seen |-> active,
                                      plan |-> plan, key |-> o]]
    /\ UNCHANGED <<active, order, product, msg, unbuilt>>

CommitConfirm(u) ==
    LET o == txn[u].doc IN
    /\ o \in Order
    /\ Committable(u)
    /\ order' = [order EXCEPT ![o].state = "sale"]
    /\ msg' = WithInserted(u, order[o].ver)
    /\ unbuilt' = IF \E c \in Connector : txn[u].plan[c] = "fail"
                  THEN unbuilt \union {o} ELSE unbuilt \ {o}
    /\ txn' = [txn EXCEPT ![u] = NoTxn]
    /\ UNCHANGED <<active, product>>

(* The rest of the order's life; nothing of it reaches the queue. *)
CancelOrder(o) ==
    /\ order[o].state = "sale"
    /\ order' = [order EXCEPT ![o].state = "cancel"]
    /\ UNCHANGED <<active, product, msg, txn, unbuilt>>

ReviseOrder(o) ==
    /\ order[o].state \in {"draft", "cancel"}
    /\ order[o].ver < MaxVer
    /\ \E c \in Connector \union {None} :
        order' = [order EXCEPT ![o] =
                    [state |-> "draft", ver |-> @.ver + 1, conn |-> c]]
    /\ UNCHANGED <<active, product, msg, txn, unbuilt>>

-----------------------------------------------------------------------------
(* The queue, and an operator's Requeue. *)
Drain(c, k) ==
    /\ msg[c][k].state = "queued"
    /\ \E s \in {"sent", "dead"} : msg' = [msg EXCEPT ![c][k].state = s]
    /\ UNCHANGED <<active, order, product, txn, unbuilt>>

Requeue(c, k) ==
    /\ msg[c][k].state = "dead"
    /\ msg' = [msg EXCEPT ![c][k].state = "queued"]
    /\ UNCHANGED <<active, order, product, txn, unbuilt>>

ActivateConnector(c) ==
    /\ c \notin active
    /\ active' = active \union {c}
    /\ UNCHANGED <<order, product, msg, txn, unbuilt>>

Next ==
    \/ \E u \in User :
        \/ \E p \in Product, k \in Code \union {None} : BeginProductWrite(u, p, k)
        \/ CommitProductWrite(u)
        \/ \E o \in Order : BeginConfirm(u, o)
        \/ CommitConfirm(u)
        \/ Abort(u)
    \/ \E o \in Order : CancelOrder(o) \/ ReviseOrder(o)
    \/ \E c \in Connector, k \in Key : Drain(c, k) \/ Requeue(c, k)
    \/ \E c \in Connector : ActivateConnector(c)

Spec == Init /\ [][Next]_vars

-----------------------------------------------------------------------------
(* Properties *)

Commits(u) ==
    /\ txn[u].doc # None
    /\ txn'[u] = NoTxn
    /\ <<order, product>>' # <<order, product>>

(* The write of a product that has a default_code leaves a message under that
   code at EVERY connector the hook found: a message in flight at one of them
   (product_hook.py:46-47) must not keep the others from being served. *)
WriteReachesEveryConnector ==
    [][\A u \in User :
        Commits(u) /\ txn[u].doc \in Product /\ txn[u].key # None
            => \A c \in txn[u].seen : msg'[c][txn[u].key].state # "none"]_vars

(* A sale order is confirmed with a message at its own warehouse's connector
   if the hook found one, unless its document could not be built: a message it
   once had at another warehouse's connector does not count. *)
ConfirmedWithMessage ==
    [][\A u \in User :
        Commits(u) /\ txn[u].doc \in Order
            => LET o == txn[u].doc
                   c == order[o].conn
               IN c \in txn[u].seen
                    => msg'[c][o].state # "none" \/ o \in unbuilt']_vars

(* test_product_hook.py:147 (Test 16): "When no in-flight message but
   already_sent exists, create is called with action='update'".  A write that
   decides so can be committed, if nobody else has interfered. *)
UpdatesAreQueued ==
    [][\A u \in User :
        txn[u].doc \in Product /\ Inserts(u) # {} /\ txn'[u] = NoTxn
            /\ Current(txn[u].doc) = txn[u].base
            /\ (\A c \in Inserts(u) : txn[u].plan[c] = "update")
            => \A c \in Inserts(u) : msg'[c][txn[u].key].action = "update"]_vars

-----------------------------------------------------------------------------
(* The inductive invariant *)

(* What a transaction is about to do was decided for its document: a write of a
   product forgets no connector it saw, a confirmation not the order's own, and
   what is left alone is left to a message that is still there. *)
Prepared(t, messages) ==
    /\ t.doc = None => t = NoTxn
    /\ t.doc \in Product =>
        /\ t.base \in ProductRecord /\ t.base.ver < MaxVer
        /\ t.key \in Code \union {None}
        /\ t.key # None => \A c \in t.seen : t.plan[c] \notin {"none", "fail"}
    /\ t.doc \in Order =>
        /\ t.base \in OrderRecord /\ t.key = t.doc
        /\ t.base.conn \in t.seen => t.plan[t.base.conn] # "none"
    /\ \A c \in Connector :
        /\ t.plan[c] # "none" => t.key # None
        /\ t.plan[c] = "skip" => messages[c][t.key].state # "none"

IInv == TypeOK /\ \A u \in User : Prepared(txn[u], msg)
===============================================================================
