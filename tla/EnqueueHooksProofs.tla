-------------------------- MODULE EnqueueHooksProofs --------------------------
(***************************************************************************)
(* Proofs about EnqueueHooks: what a transaction that reads a snapshot     *)
(* leaves in the queue's table when it commits.                            *)
(***************************************************************************)
EXTENDS EnqueueHooks, TLAPS

LEMMA NoTxnIs == NoTxn \in Txn /\ \A messages : Prepared(NoTxn, messages)
<1>1. NoTxn \in Txn
  BY DEF NoTxn, Txn, Decision
<1>2. /\ NoTxn.doc = None /\ \A c \in Connector : NoTxn.plan[c] = "none"
      /\ None \notin Product /\ None \notin Order
  BY HookAssumption DEF NoTxn
<1> QED
  BY <1>1, <1>2 DEF Prepared

LEMMA InitIInv == Init => IInv
<1> SUFFICES ASSUME Init PROVE IInv
  OBVIOUS
<1>1. NoMsg \in Message
  BY HookAssumption DEF NoMsg, Message
<1>2. /\ order \in [Order -> OrderRecord] /\ product \in [Product -> ProductRecord]
      /\ msg \in [Connector -> [Key -> Message]] /\ active \subseteq Connector
      /\ txn = [u \in User |-> NoTxn] /\ unbuilt = {}
  BY <1>1 DEF Init
<1> QED
  BY <1>2, NoTxnIs DEF IInv, TypeOK

(* A transaction's preparation holds as long as no message disappears. *)
LEMMA StaysPrepared ==
    ASSUME NEW t \in Txn, NEW before, NEW after, Prepared(t, before),
           \A c \in Connector, k \in Key :
                before[c][k].state # "none" => after[c][k].state # "none"
    PROVE  Prepared(t, after)
<1>1. \A c \in Connector : t.plan[c] = "skip" => after[c][t.key].state # "none"
  <2> SUFFICES ASSUME NEW c \in Connector, t.plan[c] = "skip"
               PROVE  after[c][t.key].state # "none"
    OBVIOUS
  <2>1. t.key \in Key
    BY DEF Prepared, Txn
  <2> QED
    BY <2>1 DEF Prepared
<1> QED
  BY <1>1 DEF Prepared

(* Two of a message's figures are the same when they differ in the state alone. *)
LEMMA SameButState ==
    ASSUME NEW m \in Message, NEW s
    PROVE  [[m EXCEPT !.state = s] EXCEPT !.state = "x"] = [m EXCEPT !.state = "x"]
<1>1. m = [state |-> m.state, of |-> m.of, ver |-> m.ver, action |-> m.action]
  BY DEF Message
<1> QED
  BY <1>1

-----------------------------------------------------------------------------
(* Transactions *)

(* What a commit inserts: queued messages, where none was. *)
LEMMA Inserted ==
    ASSUME IInv, NEW u \in User, Insertable(u), NEW v \in 0 .. MaxVer, msg' = WithInserted(u, v),
           txn[u].doc # None
    PROVE  /\ msg' \in [Connector -> [Key -> Message]]
           /\ \A c \in Connector, k \in Key : msg[c][k].state # "none" => msg'[c][k] = msg[c][k]
           /\ \A c \in Inserts(u) : msg'[c][txn[u].key].state = "queued"
<1>t. PICK t : t = txn[u]
  OBVIOUS
<1>1. t \in Txn /\ Prepared(t, msg) /\ t.doc \in Document
  BY <1>t DEF IInv, TypeOK, Txn
<1>2. ASSUME NEW c \in Inserts(u)
      PROVE  /\ c \in Connector /\ t.key \in Key /\ t.plan[c] \in {"create", "update"}
             /\ msg[c][t.key].state = "none"
  <2>1. c \in Connector /\ t.plan[c] \in {"create", "update"}
    BY <1>t, <1>2 DEF Inserts
  <2>2. t.key # None
    BY <1>1, <2>1 DEF Prepared
  <2> QED
    BY <1>1, <1>2, <1>t, <2>1, <2>2 DEF Txn, Insertable
<1>3. ASSUME NEW c \in Connector
      PROVE  /\ msg'[c] \in [Key -> Message]
             /\ \A k \in Key : msg[c][k].state # "none" => msg'[c][k] = msg[c][k]
             /\ c \in Inserts(u) => msg'[c][t.key].state = "queued"
  <2>m. PICK m : m = [state |-> "queued", of |-> t.doc, ver |-> v, action |-> t.plan[c]]
    OBVIOUS
  <2>0. msg[c] \in [Key -> Message]
    BY DEF IInv, TypeOK
  <2>1. CASE c \in Inserts(u)
    <3>1. msg'[c] = [msg[c] EXCEPT ![t.key] = m]
      BY <1>t, <2>1, <2>m DEF WithInserted
    <3>2. m \in Message
      BY <1>1, <1>2, <2>1, <2>m DEF Message
    <3>3. m.state = "queued"
      BY <2>m
    <3> QED
      BY <1>2, <2>0, <2>1, <3>1, <3>2, <3>3
  <2>2. CASE c \notin Inserts(u)
    <3>1. msg'[c] = msg[c]
      BY <2>2 DEF WithInserted
    <3> QED
      BY <2>0, <2>2, <3>1
  <2> QED BY <2>1, <2>2
<1>4. msg' \in [Connector -> [Key -> Message]]
  <2>1. DOMAIN msg' = Connector /\ msg' = [c \in Connector |-> msg'[c]]
    BY DEF WithInserted
  <2> QED
    BY <1>3, <2>1
<1> QED
  BY <1>2, <1>3, <1>4, <1>t

(* One transaction begins, or ends, and no message disappears. *)
LEMMA OneTxn ==
    ASSUME IInv, TypeOK', NEW u \in User, NEW t \in Txn, Prepared(t, msg'),
           txn' = [txn EXCEPT ![u] = t],
           \A c \in Connector, k \in Key : msg[c][k].state # "none" => msg'[c][k].state # "none"
    PROVE  IInv'
<1> SUFFICES ASSUME NEW w \in User PROVE Prepared(txn'[w], msg')
  BY DEF IInv
<1>1. CASE w = u
  BY <1>1 DEF IInv, TypeOK
<1>2. CASE w # u
  <2>1. txn'[w] = txn[w] /\ txn[w] \in Txn /\ Prepared(txn[w], msg)
    BY <1>2 DEF IInv, TypeOK
  <2>2. Prepared(txn[w], msg')
    BY <2>1, StaysPrepared
  <2> QED
    BY <2>1, <2>2
<1> QED BY <1>1, <1>2

LEMMA AbortIInv ==
    ASSUME IInv, NEW u \in User, Abort(u)
    PROVE  IInv'
<1>1. /\ txn' = [txn EXCEPT ![u] = NoTxn]
      /\ UNCHANGED <<active, order, product, msg, unbuilt>>
  BY DEF Abort
<1>2. NoTxn \in Txn /\ Prepared(NoTxn, msg')
  BY NoTxnIs
<1>3. TypeOK'
  BY <1>1, <1>2 DEF IInv, TypeOK
<1> QED
  BY <1>1, <1>2, <1>3, OneTxn

LEMMA BeginProductWriteIInv ==
    ASSUME IInv, NEW u \in User, NEW p \in Product, NEW k \in Code \union {None},
           BeginProductWrite(u, p, k)
    PROVE  IInv'
<1>t. PICK t : t = [doc |-> p, base |-> product[p], seen |-> active,
                    plan |-> ProductPlan(k), key |-> k]
  OBVIOUS
<1>1. /\ product[p].ver < MaxVer
      /\ txn' = [txn EXCEPT ![u] = t]
      /\ UNCHANGED <<active, order, product, msg, unbuilt>>
  BY <1>t DEF BeginProductWrite
<1>2. product[p] \in ProductRecord /\ active \subseteq Connector
  BY DEF IInv, TypeOK
<1>3. /\ t.doc = p /\ t.base = product[p] /\ t.seen = active /\ t.key = k
      /\ \A c \in Connector : t.plan[c] = ProductDecision(c, k)
  BY <1>t DEF ProductPlan
<1>4. \A c \in Connector : ProductDecision(c, k) \in Decision \ {"fail"}
  BY DEF ProductDecision, Decision
<1>5. t \in Txn
  <2>1. ProductPlan(k) \in [Connector -> Decision]
    BY <1>4 DEF ProductPlan
  <2>2. p \in Document /\ k \in Key \union {None}
    BY DEF Document, Key
  <2> QED
    BY <1>2, <1>t, <2>1, <2>2 DEF Txn
<1>6. Prepared(t, msg')
  <2>1. p # None /\ p \notin Order
    BY HookAssumption
  <2>2. \A c \in Connector :
            /\ t.plan[c] # "none" => t.key # None
            /\ t.plan[c] = "skip" => msg'[c][t.key].state # "none"
    BY <1>1, <1>3 DEF ProductDecision
  <2>3. t.key # None => \A c \in t.seen : t.plan[c] \notin {"none", "fail"}
    BY <1>2, <1>3 DEF ProductDecision
  <2> QED
    BY <1>1, <1>2, <1>3, <2>1, <2>2, <2>3 DEF Prepared
<1>7. TypeOK'
  BY <1>1, <1>5 DEF IInv, TypeOK
<1> QED
  BY <1>1, <1>5, <1>6, <1>7, OneTxn

LEMMA BeginConfirmIInv ==
    ASSUME IInv, NEW u \in User, NEW o \in Order, BeginConfirm(u, o)
    PROVE  IInv'
<1>1. PICK plan \in [Connector -> Decision] :
        /\ \A c \in Connector : plan[c] \in OrderDecision(c, o)
        /\ txn' = [txn EXCEPT ![u] = [doc |-> o, base |-> order[o], seen |-> active,
                                      plan |-> plan, key |-> o]]
        /\ UNCHANGED <<active, order, product, msg, unbuilt>>
  BY DEF BeginConfirm
<1>t. PICK t : t = [doc |-> o, base |-> order[o], seen |-> active,
                    plan |-> plan, key |-> o]
  OBVIOUS
<1>2. order[o] \in OrderRecord /\ active \subseteq Connector
  BY DEF IInv, TypeOK
<1>3. t.doc = o /\ t.base = order[o] /\ t.seen = active /\ t.key = o /\ t.plan = plan
  BY <1>t
<1>4. t \in Txn
  <2>1. o \in Document /\ o \in Key
    BY DEF Document, Key
  <2> QED
    BY <1>2, <1>t, <2>1 DEF Txn
<1>5. Prepared(t, msg')
  <2>1. o # None /\ o \notin Product
    BY HookAssumption
  <2>2. \A c \in Connector : t.plan[c] = "skip" => msg'[c][t.key].state # "none"
    BY <1>1, <1>3 DEF OrderDecision, Existing
  <2>3. t.base.conn \in t.seen => t.plan[t.base.conn] # "none"
    BY <1>1, <1>2, <1>3 DEF OrderDecision
  <2> QED
    BY <1>2, <1>3, <2>1, <2>2, <2>3 DEF Prepared
<1>6. txn' = [txn EXCEPT ![u] = t]
  BY <1>1, <1>t
<1>7. TypeOK'
  BY <1>1, <1>4, <1>6 DEF IInv, TypeOK
<1> QED
  BY <1>1, <1>4, <1>5, <1>6, <1>7, OneTxn

LEMMA CommitProductWriteIInv ==
    ASSUME IInv, NEW u \in User, CommitProductWrite(u)
    PROVE  IInv'
<1>p. PICK p : p = txn[u].doc
  OBVIOUS
<1>1. /\ p \in Product /\ Committable(u)
      /\ product' = [product EXCEPT ![p] = [ver |-> product[p].ver + 1, code |-> txn[u].key]]
      /\ msg' = WithInserted(u, product[p].ver + 1)
      /\ txn' = [txn EXCEPT ![u] = NoTxn]
      /\ UNCHANGED <<active, order, unbuilt>>
  BY <1>p DEF CommitProductWrite
<1>2. /\ txn[u] \in Txn /\ Prepared(txn[u], msg) /\ product[p] \in ProductRecord
      /\ txn[u].doc # None /\ Insertable(u)
      /\ p \notin Order /\ product[p] = txn[u].base
  BY <1>1, <1>p, HookAssumption DEF IInv, TypeOK, Committable, Current
<1>3. /\ txn[u].base.ver < MaxVer /\ txn[u].key \in Code \union {None}
  BY <1>1, <1>2, <1>p DEF Prepared
<1>4. product[p].ver + 1 \in 0 .. MaxVer
  BY <1>2, <1>3, HookAssumption DEF ProductRecord
<1>5. /\ msg' \in [Connector -> [Key -> Message]]
      /\ \A c \in Connector, k \in Key : msg[c][k].state # "none" => msg'[c][k] = msg[c][k]
  BY <1>1, <1>2, <1>4, Inserted
<1>6. product' \in [Product -> ProductRecord]
  <2>1. [ver |-> product[p].ver + 1, code |-> txn[u].key] \in ProductRecord
    BY <1>3, <1>4 DEF ProductRecord
  <2> QED
    BY <1>1, <2>1 DEF IInv, TypeOK
<1>7. NoTxn \in Txn /\ Prepared(NoTxn, msg')
  BY NoTxnIs
<1>8. TypeOK'
  BY <1>1, <1>5, <1>6, <1>7 DEF IInv, TypeOK
<1> QED
  BY <1>1, <1>5, <1>7, <1>8, OneTxn

LEMMA CommitConfirmIInv ==
    ASSUME IInv, NEW u \in User, CommitConfirm(u)
    PROVE  IInv'
<1>o. PICK o : o = txn[u].doc
  OBVIOUS
<1>1. /\ o \in Order /\ Committable(u)
      /\ order' = [order EXCEPT ![o].state = "sale"]
      /\ msg' = WithInserted(u, order[o].ver)
      /\ unbuilt' \subseteq unbuilt \union {o}
      /\ txn' = [txn EXCEPT ![u] = NoTxn]
      /\ UNCHANGED <<active, product>>
  BY <1>o DEF CommitConfirm
<1>2. /\ order[o] \in OrderRecord /\ order[o].ver \in 0 .. MaxVer
      /\ txn[u].doc # None /\ Insertable(u)
  <2>1. order[o] \in OrderRecord
    BY <1>1 DEF IInv, TypeOK
  <2> QED
    BY <1>1, <2>1 DEF Committable, OrderRecord
<1>3. /\ msg' \in [Connector -> [Key -> Message]]
      /\ \A c \in Connector, k \in Key : msg[c][k].state # "none" => msg'[c][k] = msg[c][k]
  BY <1>1, <1>2, Inserted
<1>4. order' \in [Order -> OrderRecord]
  <2>1. [order[o] EXCEPT !.state = "sale"] \in OrderRecord
    BY <1>2 DEF OrderRecord
  <2> QED
    BY <1>1, <2>1 DEF IInv, TypeOK
<1>5. NoTxn \in Txn /\ Prepared(NoTxn, msg')
  BY NoTxnIs
<1>6. TypeOK'
  BY <1>1, <1>3, <1>4, <1>5 DEF IInv, TypeOK
<1> QED
  BY <1>1, <1>3, <1>5, <1>6, OneTxn

-----------------------------------------------------------------------------
(* The rest of the order's life, the queue, the connectors *)

LEMMA NoTxnStep ==
    ASSUME IInv, TypeOK', UNCHANGED txn,
           \A c \in Connector, k \in Key : msg[c][k].state # "none" => msg'[c][k].state # "none"
    PROVE  IInv'
<1> SUFFICES ASSUME NEW w \in User PROVE Prepared(txn[w], msg')
  BY DEF IInv
<1>1. txn[w] \in Txn /\ Prepared(txn[w], msg)
  BY DEF IInv, TypeOK
<1> QED
  BY <1>1, StaysPrepared

LEMMA OrderStepIInv ==
    ASSUME IInv, NEW o \in Order, CancelOrder(o) \/ ReviseOrder(o)
    PROVE  IInv'
<1>1. UNCHANGED <<active, product, msg, txn, unbuilt>>
  BY DEF CancelOrder, ReviseOrder
<1>2. order[o] \in OrderRecord /\ order \in [Order -> OrderRecord]
  BY DEF IInv, TypeOK
<1>3. order' \in [Order -> OrderRecord]
  <2>1. CASE CancelOrder(o)
    <3>1. [order[o] EXCEPT !.state = "cancel"] \in OrderRecord
      BY <1>2 DEF OrderRecord
    <3> QED
      BY <1>2, <2>1, <3>1 DEF CancelOrder
  <2>2. CASE ReviseOrder(o)
    <3>1. PICK c \in Connector \union {None} :
            /\ order[o].ver < MaxVer
            /\ order' = [order EXCEPT ![o] = [state |-> "draft", ver |-> order[o].ver + 1,
                                              conn |-> c]]
      BY <2>2 DEF ReviseOrder
    <3>2. order[o].ver + 1 \in 0 .. MaxVer
      BY <1>2, <3>1, HookAssumption DEF OrderRecord
    <3>3. [state |-> "draft", ver |-> order[o].ver + 1, conn |-> c] \in OrderRecord
      BY <3>2 DEF OrderRecord
    <3> QED
      BY <1>2, <3>1, <3>3
  <2> QED BY <2>1, <2>2
<1>4. TypeOK'
  BY <1>1, <1>3 DEF IInv, TypeOK
<1> QED
  BY <1>1, <1>4, NoTxnStep

(* The queue changes a message's state, and nothing else of it. *)
LEMMA QueueStep ==
    ASSUME IInv, NEW c \in Connector, NEW k \in Key, Drain(c, k) \/ Requeue(c, k)
    PROVE  /\ msg' \in [Connector -> [Key -> Message]]
           /\ [msg[c][k] EXCEPT !.state = "x"] = [msg'[c][k] EXCEPT !.state = "x"]
           /\ msg'[c][k].state # "none"
           /\ \A d \in Connector, l \in Key :
                d # c \/ l # k => msg'[d][l] = msg[d][l]
<1>1. PICK s \in {"queued", "sent", "dead"} : msg' = [msg EXCEPT ![c][k].state = s]
  BY DEF Drain, Requeue
<1>2. msg \in [Connector -> [Key -> Message]] /\ msg[c] \in [Key -> Message]
  BY DEF IInv, TypeOK
<1>3. msg'[c] = [msg[c] EXCEPT ![k].state = s]
  BY <1>1, <1>2
<1>4. msg'[c][k] = [msg[c][k] EXCEPT !.state = s]
  BY <1>2, <1>3
<1>5. msg[c][k] \in Message /\ msg'[c][k] \in Message /\ msg'[c][k].state = s
  BY <1>2, <1>4 DEF Message
<1>6. \A d \in Connector, l \in Key : d # c \/ l # k => msg'[d][l] = msg[d][l]
  BY <1>1, <1>2, <1>3
<1>7. msg' \in [Connector -> [Key -> Message]]
  <2>1. msg'[c] \in [Key -> Message]
    BY <1>2, <1>3, <1>4, <1>5
  <2> QED
    BY <1>1, <1>2, <2>1
<1>8. [msg[c][k] EXCEPT !.state = "x"] = [msg'[c][k] EXCEPT !.state = "x"]
  BY <1>4, <1>5, SameButState
<1> QED
  BY <1>5, <1>6, <1>7, <1>8

LEMMA QueueIInv ==
    ASSUME IInv, NEW c \in Connector, NEW k \in Key, Drain(c, k) \/ Requeue(c, k)
    PROVE  IInv'
<1>1. UNCHANGED <<active, order, product, txn, unbuilt>>
  BY DEF Drain, Requeue
<1>2. /\ msg' \in [Connector -> [Key -> Message]]
      /\ msg'[c][k].state # "none"
      /\ \A d \in Connector, l \in Key : d # c \/ l # k => msg'[d][l] = msg[d][l]
  <2>1. IInv /\ (Drain(c, k) \/ Requeue(c, k))
    OBVIOUS
  <2> QED
    BY <2>1, QueueStep
<1>3. TypeOK'
  BY <1>1, <1>2 DEF IInv, TypeOK
<1>4. \A d \in Connector, l \in Key : msg[d][l].state # "none" => msg'[d][l].state # "none"
  BY <1>2
<1> QED
  BY <1>1, <1>3, <1>4, NoTxnStep

LEMMA ActivateConnectorIInv ==
    ASSUME IInv, NEW c \in Connector, ActivateConnector(c)
    PROVE  IInv'
<1>1. active' = active \union {c} /\ UNCHANGED <<order, product, msg, txn, unbuilt>>
  BY DEF ActivateConnector
<1>2. TypeOK'
  BY <1>1 DEF IInv, TypeOK
<1> QED
  BY <1>1, <1>2, NoTxnStep

LEMMA NextIInv == IInv /\ [Next]_vars => IInv'
<1> SUFFICES ASSUME IInv, [Next]_vars PROVE IInv'
  OBVIOUS
<1>1. ASSUME NEW u \in User, NEW p \in Product, NEW k \in Code \union {None},
             BeginProductWrite(u, p, k)
      PROVE  IInv'
  BY <1>1, BeginProductWriteIInv
<1>2. ASSUME NEW u \in User, NEW o \in Order, BeginConfirm(u, o) PROVE IInv'
  BY <1>2, BeginConfirmIInv
<1>3. ASSUME NEW u \in User, CommitProductWrite(u) \/ CommitConfirm(u) \/ Abort(u) PROVE IInv'
  BY <1>3, CommitProductWriteIInv, CommitConfirmIInv, AbortIInv
<1>4. ASSUME NEW o \in Order, CancelOrder(o) \/ ReviseOrder(o) PROVE IInv'
  BY <1>4, OrderStepIInv
<1>5. ASSUME NEW c \in Connector, NEW k \in Key, Drain(c, k) \/ Requeue(c, k) PROVE IInv'
  BY <1>5, QueueIInv
<1>6. ASSUME NEW c \in Connector, ActivateConnector(c) PROVE IInv'
  BY <1>6, ActivateConnectorIInv
<1>7. CASE UNCHANGED vars
  BY <1>7 DEF vars, IInv, TypeOK
<1> QED
  BY <1>1, <1>2, <1>3, <1>4, <1>5, <1>6, <1>7 DEF Next

-----------------------------------------------------------------------------
(* Results *)

(* The inductive invariant of the hooks' transactions (product_hook.py:25-77,
   sale_order_hook.py). *)
THEOREM HookInvariant == Spec => []IInv
<1> QED
  BY InitIInv, NextIInv, PTL DEF Spec

(* The variables keep their types: no message is ever in draft, where nothing would
   drain it (message.py:234). *)
THEOREM HookTypes == Spec => []TypeOK
<1>1. IInv => TypeOK
  BY DEF IInv
<1> QED
  BY <1>1, HookInvariant, PTL

(* A transaction that ends with a change of a document was committed. *)
LEMMA CommitIs ==
    ASSUME IInv, Next, NEW u \in User, Commits(u)
    PROVE  CommitProductWrite(u) \/ CommitConfirm(u)
<1>1. txn \in [User -> Txn] /\ txn[u].doc # None /\ txn'[u].doc = None
  BY NoTxnIs DEF Commits, NoTxn, IInv, TypeOK
<1>2. txn'[u] # txn[u]
  BY <1>1
<1>3. ~(\E o \in Order : CancelOrder(o) \/ ReviseOrder(o))
  BY <1>2 DEF CancelOrder, ReviseOrder
<1>4. ~(\E c \in Connector, k \in Key : Drain(c, k) \/ Requeue(c, k))
  BY <1>2 DEF Drain, Requeue
<1>5. ~(\E c \in Connector : ActivateConnector(c))
  BY <1>2 DEF ActivateConnector
<1>6. ASSUME NEW w \in User, NEW p \in Product, NEW k \in Code \union {None},
             BeginProductWrite(w, p, k)
      PROVE  FALSE
  BY <1>6 DEF BeginProductWrite, Commits
<1>7. ASSUME NEW w \in User, NEW o \in Order, BeginConfirm(w, o) PROVE FALSE
  BY <1>7 DEF BeginConfirm, Commits
<1>8. ASSUME NEW w \in User, Abort(w) PROVE FALSE
  BY <1>8 DEF Abort, Commits
<1>9. PICK w \in User : CommitProductWrite(w) \/ CommitConfirm(w)
  BY <1>3, <1>4, <1>5, <1>6, <1>7, <1>8 DEF Next
<1>10. txn' = [txn EXCEPT ![w] = NoTxn]
  BY <1>9 DEF CommitProductWrite, CommitConfirm
<1>11. w = u
  BY <1>1, <1>2, <1>10
<1> QED
  BY <1>9, <1>11

(* A product's write leaves a message at every connector its hook found, for any
   number of connectors and of overlapping users (product_hook.py:40-68). *)
THEOREM EveryConnectorIsReached == Spec => WriteReachesEveryConnector
<1> DEFINE A == \A u \in User :
                    Commits(u) /\ txn[u].doc \in Product /\ txn[u].key # None
                        => \A c \in txn[u].seen : msg'[c][txn[u].key].state # "none"
<1>1. IInv /\ [Next]_vars => [A]_vars
  <2> SUFFICES ASSUME IInv, Next, NEW u \in User, Commits(u), txn[u].doc \in Product,
                      txn[u].key # None, NEW c \in txn[u].seen
               PROVE  msg'[c][txn[u].key].state # "none"
    OBVIOUS
  <2>1. txn[u] \in Txn /\ Prepared(txn[u], msg)
    BY DEF IInv, TypeOK
  <2>2. CommitProductWrite(u)
    BY CommitIs, HookAssumption DEF CommitConfirm
  <2>3. /\ Insertable(u) /\ txn[u].doc # None /\ product[txn[u].doc] = txn[u].base
        /\ msg' = WithInserted(u, product[txn[u].doc].ver + 1)
    BY <2>2, HookAssumption DEF CommitProductWrite, Committable, Current
  <2>4. product[txn[u].doc].ver + 1 \in 0 .. MaxVer
    BY <2>1, <2>3, HookAssumption DEF Prepared, ProductRecord
  <2>5. /\ \A d \in Connector, k \in Key :
                msg[d][k].state # "none" => msg'[d][k] = msg[d][k]
        /\ \A d \in Inserts(u) : msg'[d][txn[u].key].state = "queued"
    BY <2>3, <2>4, Inserted
  <2>6. /\ c \in Connector /\ txn[u].key \in Key
        /\ txn[u].plan[c] \in {"skip", "create", "update"}
    BY <2>1 DEF Txn, Prepared, Decision
  <2>7. CASE txn[u].plan[c] = "skip"
    BY <2>1, <2>5, <2>6, <2>7 DEF Prepared
  <2>8. CASE txn[u].plan[c] # "skip"
    BY <2>5, <2>6, <2>8 DEF Inserts
  <2> QED BY <2>7, <2>8
<1>2. Spec => [][A]_vars
  BY <1>1, HookInvariant, PTL DEF Spec
<1> QED
  BY <1>2 DEF WriteReachesEveryConnector

(* An order is confirmed with a message at its own connector, whatever messages it
   has at others, or its document could not be built (sale_order_hook.py:14-60). *)
THEOREM ConfirmedHasMessage == Spec => ConfirmedWithMessage
<1> DEFINE A == \A u \in User :
                    Commits(u) /\ txn[u].doc \in Order
                        => LET o == txn[u].doc
                               c == order[o].conn
                           IN c \in txn[u].seen
                                => msg'[c][o].state # "none" \/ o \in unbuilt'
<1>1. IInv /\ [Next]_vars => [A]_vars
  <2> SUFFICES ASSUME IInv, Next, NEW u \in User, Commits(u), txn[u].doc \in Order,
                      NEW o, o = txn[u].doc, NEW c, c = order[o].conn, c \in txn[u].seen
               PROVE  msg'[c][o].state # "none" \/ o \in unbuilt'
    OBVIOUS
  <2>1. txn[u] \in Txn /\ Prepared(txn[u], msg) /\ order[o] \in OrderRecord
    BY DEF IInv, TypeOK
  <2>2. CommitConfirm(u)
    BY CommitIs, HookAssumption DEF CommitProductWrite
  <2>3. /\ Insertable(u) /\ txn[u].doc # None /\ order[o] = txn[u].base
        /\ msg' = WithInserted(u, order[o].ver)
        /\ (\E d \in Connector : txn[u].plan[d] = "fail") => o \in unbuilt'
    BY <2>2 DEF CommitConfirm, Committable, Current
  <2>4. order[o].ver \in 0 .. MaxVer
    BY <2>1 DEF OrderRecord
  <2>5. /\ \A d \in Connector, k \in Key :
                msg[d][k].state # "none" => msg'[d][k] = msg[d][k]
        /\ \A d \in Inserts(u) : msg'[d][txn[u].key].state = "queued"
    BY <2>3, <2>4, Inserted
  <2>6. /\ c \in Connector /\ o \in Key /\ txn[u].key = o
        /\ txn[u].plan[c] \in Decision \ {"none"}
    BY <2>1, <2>3 DEF Txn, Prepared, Key
  <2>7. CASE txn[u].plan[c] = "skip"
    BY <2>1, <2>5, <2>6, <2>7 DEF Prepared
  <2>8. CASE txn[u].plan[c] = "fail"
    BY <2>3, <2>6, <2>8
  <2>9. CASE txn[u].plan[c] \in {"create", "update"}
    BY <2>5, <2>6, <2>9 DEF Inserts
  <2> QED BY <2>6, <2>7, <2>8, <2>9 DEF Decision
<1>2. Spec => [][A]_vars
  BY <1>1, HookInvariant, PTL DEF Spec
<1> QED
  BY <1>2 DEF ConfirmedWithMessage
===============================================================================
