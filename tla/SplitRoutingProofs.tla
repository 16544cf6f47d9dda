-------------------------- MODULE SplitRoutingProofs --------------------------
(***************************************************************************)
(* Proofs about SplitRouting: the rounds of the split neither lose a move   *)
(* nor touch a routed picking, whatever the route engine has assigned.      *)
(***************************************************************************)
EXTENDS SplitRouting, FiniteSetTheorems, TLAPS

StatusAgrees(ks) ==
    \A i \in DOMAIN ks : Routed(ks[i]) <=> ks[i].status # "draft"

(* new is ks after a round. *)
Kept(ks, new) ==
    /\ new \in Seq(Picking)
    /\ DOMAIN ks \subseteq DOMAIN new
    /\ StatusAgrees(new)
    /\ Placed(new)
    /\ \A j \in DOMAIN ks : Routed(ks[j]) => new[j] = ks[j]

LEMMA NewPickingIs ==
    ASSUME NEW w \in Warehouse, NEW moves \in SUBSET Move
    PROVE  /\ NewPicking(w, moves) \in Picking
           /\ NewPicking(w, moves).moves = moves
           /\ ~ Routed(NewPicking(w, moves))
           /\ NewPicking(w, moves).status = "draft"
BY DEF NewPicking, Picking, Routed

LEMMA SettleIs ==
    ASSUME NEW k \in Picking, NEW w \in Warehouse
    PROVE  /\ Settle(k, w) \in Picking
           /\ Settle(k, w).moves = k.moves
           /\ Routed(Settle(k, w)) /\ Settle(k, w).status # "draft"
BY RoutingAssumption DEF Settle, Picking, Routed

(* Taking moves from a picking changes nothing else. *)
LEMMA WithoutIs ==
    ASSUME NEW k \in Picking, NEW ms
    PROVE  LET new == [k EXCEPT !.moves = @ \ ms] IN
           /\ new \in Picking
           /\ new.moves = k.moves \ ms
           /\ new.assigned = k.assigned /\ new.status = k.status
           /\ k.moves \intersect ms = {} => new = k
BY DEF Picking

(* The first round: the moves of other products go to the copy. *)
LEMMA ReuseKeeps ==
    ASSUME NEW ks \in Seq(Picking), StatusAgrees(ks), Placed(ks),
           NEW i \in DOMAIN ks, Free(ks[i]), NEW a, a.warehouse \in Warehouse
    PROVE  Kept(ks, Reuse(ks, i, a))
<1> DEFINE other == {m \in ks[i].moves : lines[m].product \notin Products(a)}
           head == Settle([ks[i] EXCEPT !.moves = @ \ other], a.warehouse)
           kept == [ks EXCEPT ![i] = head]
           copy == NewPicking(ks[i].warehouse, other)
<1>0. Reuse(ks, i, a) = IF other = {} THEN kept ELSE Append(kept, copy)
  BY DEF Reuse
<1>1. ks[i] \in Picking /\ DOMAIN ks = 1 .. Len(ks) /\ Len(ks) \in Nat
  OBVIOUS
<1>2. other \in SUBSET Move /\ ks[i].warehouse \in Warehouse
  BY <1>1 DEF Picking
<1> HIDE DEF other
<1>3. /\ [ks[i] EXCEPT !.moves = @ \ other] \in Picking
      /\ [ks[i] EXCEPT !.moves = @ \ other].moves = ks[i].moves \ other
  BY <1>1, WithoutIs
<1>4. /\ head \in Picking /\ head.moves = ks[i].moves \ other
      /\ Routed(head) /\ head.status # "draft"
  BY <1>3, SettleIs
<1>5. /\ copy \in Picking /\ copy.moves = other
      /\ ~ Routed(copy) /\ copy.status = "draft"
  BY <1>2, NewPickingIs
<1> HIDE DEF head, copy
<1>6. /\ kept \in Seq(Picking) /\ DOMAIN kept = DOMAIN ks /\ Len(kept) = Len(ks)
      /\ \A j \in DOMAIN ks : kept[j] = IF j = i THEN head ELSE ks[j]
  BY <1>4
<1>7. \A j \in DOMAIN ks : Routed(ks[j]) => kept[j] = ks[j]
  BY <1>6 DEF Free
<1> HIDE DEF kept
<1>8. CASE other = {}
  <2>1. Reuse(ks, i, a) = kept
    BY <1>0, <1>8
  <2>2. StatusAgrees(kept)
    BY <1>4, <1>6 DEF StatusAgrees
  <2>3. \A j \in DOMAIN ks : kept[j].moves = ks[j].moves
    BY <1>4, <1>6, <1>8
  <2>4. Placed(kept)
    <3> SUFFICES ASSUME NEW m \in Move
                 PROVE  \E h \in DOMAIN kept : \A j \in DOMAIN kept :
                            m \in kept[j].moves <=> j = h
      BY DEF Placed
    <3>1. PICK h \in DOMAIN ks : \A j \in DOMAIN ks : m \in ks[j].moves <=> j = h
      BY DEF Placed
    <3>2. h \in DOMAIN kept /\ \A j \in DOMAIN kept : m \in kept[j].moves <=> j = h
      BY <3>1, <2>3, <1>6
    <3> QED
      BY <3>2
  <2> QED
    BY <2>1, <2>2, <2>4, <1>6, <1>7 DEF Kept
<1>9. CASE other # {}
  <2> DEFINE new == Append(kept, copy)
  <2>1. Reuse(ks, i, a) = new
    BY <1>0, <1>9
  <2>2. /\ new \in Seq(Picking) /\ DOMAIN new = 1 .. Len(ks) + 1
        /\ \A j \in DOMAIN ks : new[j] = kept[j]
        /\ new[Len(ks) + 1] = copy
    BY <1>1, <1>5, <1>6
  <2> HIDE DEF new
  <2>3. StatusAgrees(new)
    <3> SUFFICES ASSUME NEW j \in DOMAIN new
                 PROVE  Routed(new[j]) <=> new[j].status # "draft"
      BY DEF StatusAgrees
    <3>1. CASE j = Len(ks) + 1
      BY <3>1, <2>2, <1>5
    <3>2. CASE j # Len(ks) + 1
      <4>1. j \in DOMAIN ks
        BY <3>2, <2>2, <1>1
      <4> QED
        BY <4>1, <2>2, <1>4, <1>6 DEF StatusAgrees
    <3> QED
      BY <3>1, <3>2
  <2>4. Placed(new)
    <3> SUFFICES ASSUME NEW m \in Move
                 PROVE  \E h \in DOMAIN new : \A j \in DOMAIN new :
                            m \in new[j].moves <=> j = h
      BY DEF Placed
    <3>1. PICK h \in DOMAIN ks : \A j \in DOMAIN ks : m \in ks[j].moves <=> j = h
      BY DEF Placed
    <3>2. CASE m \in other
      <4>1. h = i
        BY <3>1, <3>2 DEF other
      <4>2. \A j \in DOMAIN ks : m \notin new[j].moves
        BY <4>1, <3>1, <3>2, <2>2, <1>4, <1>6
      <4>3. \A j \in DOMAIN new : m \in new[j].moves <=> j = Len(ks) + 1
        BY <4>2, <3>2, <2>2, <1>1, <1>5
      <4> QED
        <5>1. Len(ks) + 1 \in DOMAIN new
          BY <2>2, <1>1
        <5> QED
          BY <4>3, <5>1
    <3>3. CASE m \notin other
      <4>1. \A j \in DOMAIN ks : m \in new[j].moves <=> j = h
        BY <3>1, <3>3, <2>2, <1>4, <1>6
      <4>2. \A j \in DOMAIN new : m \in new[j].moves <=> j = h
        BY <4>1, <3>1, <3>3, <2>2, <1>1, <1>5
      <4> QED
        BY <4>2, <3>1, <2>2, <1>1
    <3> QED
      BY <3>2, <3>3
  <2>5. DOMAIN ks \subseteq DOMAIN new
    BY <2>2, <1>1
  <2> QED
    BY <2>1, <2>2, <2>3, <2>4, <2>5, <1>7 DEF Kept
<1> QED
  BY <1>8, <1>9

(* A later round: it takes its moves from unrouted pickings only, as each move
   is in one picking. *)
LEMMA CreateKeeps ==
    ASSUME NEW ks \in Seq(Picking), StatusAgrees(ks), Placed(ks),
           NEW a, a.warehouse \in Warehouse
    PROVE  Kept(ks, Create(ks, a))
<1> DEFINE taken == {m \in Move : /\ lines[m].product \in Products(a)
                                  /\ \E k \in Range(ks) : Free(k) /\ m \in k.moves}
           rest == [j \in DOMAIN ks |-> [ks[j] EXCEPT !.moves = @ \ taken]]
           own == Settle(NewPicking(a.warehouse, taken), a.warehouse)
           new == Append(rest, own)
<1>1. /\ DOMAIN ks = 1 .. Len(ks) /\ Len(ks) \in Nat
      /\ \A j \in DOMAIN ks : ks[j] \in Picking
  OBVIOUS
<1>2. /\ taken \in SUBSET Move
      /\ \A m \in taken : \E j \in DOMAIN ks : ~ Routed(ks[j]) /\ m \in ks[j].moves
  BY DEF Range, Free
<1>3. Create(ks, a) = new
  BY DEF Create
<1> HIDE DEF taken
<1>4. \A j \in DOMAIN ks :
        /\ rest[j] \in Picking
        /\ rest[j].moves = ks[j].moves \ taken
        /\ rest[j].assigned = ks[j].assigned /\ rest[j].status = ks[j].status
        /\ ks[j].moves \intersect taken = {} => rest[j] = ks[j]
  <2> SUFFICES ASSUME NEW j \in DOMAIN ks
               PROVE  LET k == [ks[j] EXCEPT !.moves = @ \ taken] IN
                      /\ k \in Picking
                      /\ k.moves = ks[j].moves \ taken
                      /\ k.assigned = ks[j].assigned /\ k.status = ks[j].status
                      /\ ks[j].moves \intersect taken = {} => k = ks[j]
    OBVIOUS
  <2>1. ks[j] \in Picking
    BY <1>1
  <2> QED
    BY <2>1, WithoutIs
<1>5. /\ NewPicking(a.warehouse, taken) \in Picking
      /\ NewPicking(a.warehouse, taken).moves = taken
  BY <1>2, NewPickingIs
<1>6. own \in Picking /\ own.moves = taken /\ Routed(own) /\ own.status # "draft"
  BY <1>5, SettleIs
<1>7. rest \in Seq(Picking) /\ Len(rest) = Len(ks) /\ DOMAIN rest = DOMAIN ks
  <2>1. rest \in [1 .. Len(ks) -> Picking]
    BY <1>1, <1>4
  <2> QED
    BY <2>1, <1>1
<1> HIDE DEF own, rest
<1>8. /\ new \in Seq(Picking) /\ DOMAIN new = 1 .. Len(ks) + 1
      /\ \A j \in DOMAIN ks : new[j] = rest[j]
      /\ new[Len(ks) + 1] = own
  BY <1>1, <1>6, <1>7
<1> HIDE DEF new
<1>9. \A j \in DOMAIN ks : Routed(ks[j]) => new[j] = ks[j]
  <2> SUFFICES ASSUME NEW j \in DOMAIN ks, Routed(ks[j])
               PROVE  ks[j].moves \intersect taken = {}
    BY <1>4, <1>8
  <2> SUFFICES ASSUME NEW m \in ks[j].moves, m \in taken
               PROVE  FALSE
    OBVIOUS
  <2>1. PICK h \in DOMAIN ks : ~ Routed(ks[h]) /\ m \in ks[h].moves
    BY <1>2
  <2>2. m \in Move
    BY <1>2
  <2>3. h = j
    BY <2>1, <2>2 DEF Placed
  <2> QED
    BY <2>1, <2>3
<1>10. StatusAgrees(new)
  <2> SUFFICES ASSUME NEW j \in DOMAIN new
               PROVE  Routed(new[j]) <=> new[j].status # "draft"
    BY DEF StatusAgrees
  <2>1. CASE j = Len(ks) + 1
    BY <2>1, <1>8, <1>6
  <2>2. CASE j # Len(ks) + 1
    <3>1. j \in DOMAIN ks
      BY <2>2, <1>8, <1>1
    <3> QED
      BY <3>1, <1>4, <1>8 DEF StatusAgrees, Routed
  <2> QED
    BY <2>1, <2>2
<1>11. Placed(new)
  <2> SUFFICES ASSUME NEW m \in Move
               PROVE  \E h \in DOMAIN new : \A j \in DOMAIN new :
                          m \in new[j].moves <=> j = h
    BY DEF Placed
  <2>1. PICK h \in DOMAIN ks : \A j \in DOMAIN ks : m \in ks[j].moves <=> j = h
    BY DEF Placed
  <2>2. CASE m \in taken
    <3>1. \A j \in DOMAIN new : m \in new[j].moves <=> j = Len(ks) + 1
      BY <2>2, <1>1, <1>4, <1>6, <1>8
    <3> QED
      BY <3>1, <1>8, <1>1
  <2>3. CASE m \notin taken
    <3>1. \A j \in DOMAIN new : m \in new[j].moves <=> j = h
      BY <2>1, <2>3, <1>1, <1>4, <1>6, <1>8
    <3> QED
      BY <3>1, <2>1, <1>8, <1>1
  <2> QED
    BY <2>2, <2>3
<1>12. DOMAIN ks \subseteq DOMAIN new
  BY <1>8, <1>1
<1> QED
  BY <1>3, <1>8, <1>9, <1>10, <1>11, <1>12 DEF Kept

-----------------------------------------------------------------------------

(* Nothing is taken from another line, and no more than there is. *)
LEMMA GivenIs ==
    ASSUME NEW q \in Nat, NEW avail \in Int
    PROVE  /\ Given(q, avail) \in 0 .. q
           /\ Given(q, avail) <= IF avail > 0 THEN avail ELSE 0
           /\ Given(q, avail) < q => Given(q, avail) = IF avail > 0 THEN avail ELSE 0
BY DEF Given, Smaller

LEMMA LinesAre ==
    ASSUME TypeOK
    PROVE  /\ \A m \in Move : lines[m].product \in Product
           /\ Wanted \in [Move -> Nat]
           /\ \A w \in Warehouse, m \in Move : Stock(w, m) \in Int /\ Spare(w, m) \in Nat
<1> DEFINE Line == [product : Product, qty : Nat \ {0}, storable : BOOLEAN]
<1>1. lines \in Seq(Line)
  BY RoutingAssumption DEF TypeOK
<1>2. \A m \in Move : lines[m] \in Line
  <2> HIDE DEF Line
  <2> QED
    BY <1>1 DEF Move
<1>3. Wanted \in [Move -> Nat]
  BY <1>2 DEF Wanted
<1>4. ASSUME NEW w \in Warehouse, NEW m \in Move
      PROVE  Stock(w, m) \in Int /\ Spare(w, m) \in Nat
  <2>1. quant[w][lines[m].product] \in Qty
    BY <1>2 DEF TypeOK
  <2>2. Stock(w, m) \in Int
    BY <2>1, RoutingAssumption DEF Stock
  <2> QED
    BY <2>2 DEF Spare
<1> QED
  BY <1>2, <1>3, <1>4

LEMMA NearestAre ==
    /\ \A i \in DOMAIN Nearest : Nearest[i] \in Warehouse
    /\ Len(Nearest) \in Nat /\ DOMAIN Nearest = 1 .. Len(Nearest)
    /\ \A i, j \in DOMAIN Nearest : Nearest[i] = Nearest[j] => i = j
<1>1. Nearest \in Seq(Warehouse)
  BY RoutingAssumption
<1>2. \A i, j \in DOMAIN Nearest : Nearest[i] = Nearest[j] => i = j
  BY RoutingAssumption DEF IsInjective
<1> QED
  BY <1>1, <1>2

-----------------------------------------------------------------------------

(* The parts of the inductive invariant, as the steps disturb them. *)
PickingsOK(ks) == ks \in Seq(Picking) /\ StatusAgrees(ks) /\ Placed(ks)

RestOK ==
    /\ quant \in [Warehouse -> [Product -> Qty]]
    /\ lines \in Orders
    /\ split \in BOOLEAN /\ located \in BOOLEAN
    /\ phase \in {"idle", "assigning", "splitting"}
    /\ remaining \in [Move -> Nat]
    /\ plan \in Seq(Assignment)
    /\ done \in Nat

PlanInv == RunInv /\ AssignsWhatThereIs /\ NearerIsExhausted

LEMMA FromParts == IInv <=> RestOK /\ PickingsOK(pickings) /\ PlanInv
BY DEF IInv, TypeOK, RestOK, PickingsOK, StatusAgrees, PlanInv

LEMMA SameLines ==
    ASSUME lines' = lines
    PROVE  /\ Move' = Move /\ Picking' = Picking /\ Assignment' = Assignment
           /\ Wanted' = Wanted /\ Nothing' = Nothing
<1>1. Move' = Move
  BY DEF Move
<1> QED
  BY <1>1 DEF Picking, Assignment, Wanted, Nothing

LEMMA SameStock ==
    ASSUME lines' = lines, quant' = quant
    PROVE  /\ Filling' = Filling
           /\ \A w, m : Stock(w, m)' = Stock(w, m) /\ Spare(w, m)' = Spare(w, m)
<1>1. Move' = Move /\ Wanted' = Wanted
  BY SameLines
<1>2. \A w, m : Stock(w, m)' = Stock(w, m)
  BY DEF Stock
<1>3. \A w, m : Spare(w, m)' = Spare(w, m)
  BY <1>2 DEF Spare
<1>4. Filling' = Filling
  BY <1>1, <1>2 DEF Filling
<1> QED
  BY <1>2, <1>3, <1>4

(* What the plan says depends on the plan, the lines and the stock alone. *)
LEMMA SamePlan ==
    ASSUME lines' = lines, quant' = quant, plan' = plan, located' = located
    PROVE  /\ \A w, m, q : Gives(w, m, q)' <=> Gives(w, m, q)
           /\ \A m, n, r : Handed(m, n, r)' <=> Handed(m, n, r)
           /\ \A n : AsksOnce(n)' <=> AsksOnce(n)
           /\ NearerIsExhausted' <=> NearerIsExhausted
<1>1. Move' = Move /\ Wanted' = Wanted
  BY SameLines
<1>2. Filling' = Filling /\ \A w, m : Spare(w, m)' = Spare(w, m)
  BY SameStock
<1>3. \A w, m, q : Gives(w, m, q)' <=> Gives(w, m, q)
  BY DEF Gives
<1>4. ASSUME NEW m, NEW n, NEW r
      PROVE  Handed(m, n, r)' <=> Handed(m, n, r)
  BY <1>1, <1>2, <1>3 DEF Handed
<1>5. \A n : AsksOnce(n)' <=> AsksOnce(n)
  BY DEF AsksOnce
<1>6. NearerIsExhausted' <=> NearerIsExhausted
  BY <1>1, <1>2, <1>3 DEF NearerIsExhausted
<1> QED
  BY <1>3, <1>4, <1>5, <1>6

(* Without a run there is no plan to speak of. *)
LEMMA IdleKeeps ==
    ASSUME phase' = "idle", plan' = <<>>
    PROVE  PlanInv'
BY DEF PlanInv, RunInv, AssignsWhatThereIs, NearerIsExhausted

(* A step that leaves the order's pickings alone. *)
LEMMA PickingsStay ==
    ASSUME IInv, UNCHANGED <<lines, pickings>>, RestOK', PlanInv'
    PROVE  IInv'
<1>1. Move' = Move /\ Picking' = Picking
  BY SameLines
<1>2. PickingsOK(pickings)
  BY FromParts
<1>3. PickingsOK(pickings)'
  BY <1>1, <1>2 DEF PickingsOK, StatusAgrees, Placed
<1>4. (RestOK /\ PickingsOK(pickings) /\ PlanInv)'
  BY <1>3
<1> QED
  BY <1>4, FromParts DEF IInv, TypeOK, RestOK, PickingsOK, StatusAgrees, PlanInv

LEMMA InitIInv == Init => IInv
<1> SUFFICES ASSUME Init PROVE IInv
  OBVIOUS
<1>1. PICK n \in Nat : Move = 1 .. n
  BY RoutingAssumption DEF Init, Move
<1>2. OwnWarehouse \in Warehouse
  BY DEF Warehouse
<1>5. RestOK /\ PlanInv
  <2>1. RestOK
    <3>1. plan \in Seq(Assignment) /\ remaining \in [Move -> Nat]
      BY DEF Init, Nothing
    <3> QED
      BY <3>1 DEF Init, RestOK
  <2>2. PlanInv
    BY DEF Init, PlanInv, RunInv, AssignsWhatThereIs, NearerIsExhausted
  <2> QED
    BY <2>1, <2>2
<1>3. CASE pickings = <<NewPicking(OwnWarehouse, Move)>>
  <2>1. NewPicking(OwnWarehouse, Move) \in Picking
    BY <1>2, NewPickingIs
  <2>2. pickings \in Seq(Picking) /\ DOMAIN pickings = {1}
    BY <1>3, <2>1
  <2>3. \A i \in DOMAIN pickings : Routed(pickings[i]) <=> pickings[i].status # "draft"
    BY <1>2, <1>3, <2>2, NewPickingIs
  <2>4. pickings[1].moves = Move
    BY <1>2, <1>3, NewPickingIs
  <2>5. Placed(pickings)
    BY <2>2, <2>4 DEF Placed
  <2> QED
    BY <1>5, <2>2, <2>3, <2>5, FromParts DEF Init, PickingsOK, StatusAgrees
<1>4. CASE pickings = [m \in Move |-> NewPicking(OwnWarehouse, {m})]
  <2>1. \A m \in Move : /\ NewPicking(OwnWarehouse, {m}) \in Picking
                        /\ NewPicking(OwnWarehouse, {m}).moves = {m}
                        /\ ~ Routed(NewPicking(OwnWarehouse, {m}))
                        /\ NewPicking(OwnWarehouse, {m}).status = "draft"
    BY <1>2, NewPickingIs
  <2>2. pickings \in [1 .. n -> Picking] /\ DOMAIN pickings = Move
    BY <1>1, <1>4, <2>1
  <2>3. pickings \in Seq(Picking)
    BY <2>2
  <2>4. ASSUME NEW i \in DOMAIN pickings
        PROVE  Routed(pickings[i]) <=> pickings[i].status # "draft"
    <3>1. i \in Move /\ pickings[i] = NewPicking(OwnWarehouse, {i})
      BY <1>4, <2>2
    <3> QED
      BY <3>1, <2>1
  <2>5. ASSUME NEW m \in Move, NEW j \in DOMAIN pickings
        PROVE  m \in pickings[j].moves <=> j = m
    <3>1. j \in Move /\ pickings[j] = NewPicking(OwnWarehouse, {j})
      BY <1>4, <2>2
    <3> QED
      BY <3>1, <2>1
  <2>6. Placed(pickings)
    BY <2>2, <2>5 DEF Placed
  <2> QED
    BY <1>5, <2>3, <2>4, <2>6, FromParts DEF Init, PickingsOK, StatusAgrees
<1> QED
  BY <1>3, <1>4 DEF Init

-----------------------------------------------------------------------------
(* The route engine *)

LEMMA BeginRestOK ==
    ASSUME IInv, Begin
    PROVE  /\ quant' \in [Warehouse -> [Product -> Qty]] /\ quant' = quant
           /\ lines' \in Orders /\ lines' = lines /\ pickings' = pickings
           /\ located' \in BOOLEAN /\ located' = located
BY DEF IInv, TypeOK, Begin

LEMMA WholeIs ==
    ASSUME TypeOK, NEW w \in Warehouse
    PROVE  /\ Whole(w) \in Seq(Assignment) /\ Len(Whole(w)) = 1
           /\ Whole(w)[1].warehouse = w /\ Whole(w)[1].given = Wanted
<1>1. Wanted \in [Move -> Nat]
  BY LinesAre
<1>2. [warehouse |-> w, given |-> Wanted] \in Assignment
  BY <1>1 DEF Assignment
<1> QED
  BY <1>2 DEF Whole

(* apply_routing starts on an assignment of the whole order. *)
LEMMA ApplyWhole ==
    ASSUME IInv, Begin, NEW w \in Warehouse, Apply(Whole(w))
    PROVE  /\ RestOK' /\ RunInv'
           /\ phase' = "splitting" /\ Len(plan') = 1 /\ DOMAIN plan' = {1}
           /\ plan'[1].warehouse = w /\ plan'[1].given = Wanted
<1>1. TypeOK
  BY DEF IInv
<1>2. /\ Whole(w) \in Seq(Assignment) /\ Len(Whole(w)) = 1
      /\ Whole(w)[1].warehouse = w /\ Whole(w)[1].given = Wanted
  BY <1>1, WholeIs
<1>3. /\ phase' = "splitting" /\ remaining' = Nothing /\ done' = 0
      /\ plan' = Whole(w) /\ split' \in BOOLEAN
  BY <1>1 DEF Apply, TypeOK
<1>4. lines' = lines
  BY BeginRestOK
<1>5. Move' = Move /\ Assignment' = Assignment
  BY <1>4, SameLines
<1>6. remaining' \in [Move' -> Nat]
  BY <1>3, <1>5 DEF Nothing
<1>7. RestOK'
  BY <1>2, <1>3, <1>5, <1>6, BeginRestOK DEF RestOK
<1>8. RunInv'
  BY <1>2, <1>3 DEF RunInv
<1>9. DOMAIN plan' = {1}
  BY <1>2, <1>3
<1> QED
  BY <1>2, <1>3, <1>7, <1>8, <1>9

LEMMA RouteToFirstKeeps ==
    ASSUME IInv, RouteToFirst
    PROVE  IInv'
<1>1. Begin /\ Apply(Whole(FirstByCode)) /\ FirstByCode \in Warehouse
  BY DEF RouteToFirst, Warehouse
<1>2. RestOK' /\ RunInv'
  BY <1>1, ApplyWhole
<1>3. located' = located /\ UNCHANGED <<lines, pickings>>
  BY <1>1, BeginRestOK
<1>4. ~ located' \/ Nearest = <<>>
  BY <1>3 DEF RouteToFirst
<1>5. AssignsWhatThereIs'
  BY <1>4 DEF AssignsWhatThereIs
<1>6. NearerIsExhausted'
  <2>1. CASE ~ located'
    BY <2>1 DEF NearerIsExhausted
  <2>2. CASE Nearest = <<>>
    <3>1. DOMAIN Nearest = {}
      BY <2>2
    <3> QED
      BY <3>1 DEF NearerIsExhausted
  <2> QED
    BY <1>4, <2>1, <2>2
<1>7. PlanInv'
  BY <1>2, <1>5, <1>6 DEF PlanInv
<1> QED
  BY <1>2, <1>3, <1>7, PickingsStay

(* One warehouse that can fill the order gives it all, the others nothing. *)
LEMMA RouteSingleLineKeeps ==
    ASSUME IInv, RouteSingleLine
    PROVE  IInv'
<1>1. PICK i \in Filling : (\A j \in Filling : i <= j) /\ Apply(Whole(Nearest[i]))
  BY DEF RouteSingleLine
<1>2. i \in DOMAIN Nearest /\ Nearest[i] \in Warehouse /\ i \in 1 .. Len(Nearest)
  BY NearestAre DEF Filling
<1>3. Begin
  BY DEF RouteSingleLine
<1>4. /\ RestOK' /\ RunInv' /\ phase' = "splitting"
      /\ DOMAIN plan' = {1} /\ plan'[1].warehouse = Nearest[i] /\ plan'[1].given = Wanted
  BY <1>1, <1>2, <1>3, ApplyWhole
<1>5. UNCHANGED <<quant, lines, pickings, located>>
  BY <1>3, BeginRestOK
<1>6. Move' = Move /\ Wanted' = Wanted /\ Filling' = Filling
  BY <1>5, SameLines, SameStock
<1>7. \A w, m : Spare(w, m)' = Spare(w, m)
  BY <1>5, SameStock
<1>8. /\ Wanted \in [Move -> Nat]
      /\ \A w \in Warehouse, m \in Move : Stock(w, m) \in Int /\ Spare(w, m) \in Nat
  BY LinesAre DEF IInv
<1>9. \A m \in Move : Wanted[m] <= Spare(Nearest[i], m)
  <2> SUFFICES ASSUME NEW m \in Move PROVE Wanted[m] <= Spare(Nearest[i], m)
    OBVIOUS
  <2>1. Wanted[m] \in Nat /\ Stock(Nearest[i], m) \in Int /\ Spare(Nearest[i], m) \in Nat
    BY <1>2, <1>8
  <2>2. CASE lines[m].storable
    <3>1. Stock(Nearest[i], m) >= Wanted[m]
      BY <2>2 DEF Filling
    <3> QED
      BY <2>1, <3>1 DEF Spare
  <2>3. CASE ~ lines[m].storable
    <3>1. Wanted[m] = 0
      BY <2>3 DEF Wanted
    <3> QED
      BY <2>1, <3>1
  <2> QED
    BY <2>2, <2>3
<1>10. ASSUME NEW m \in Move PROVE Handed(m, Len(Nearest), 0)'
  <2>0. PICK v : v = Wanted[m]
    OBVIOUS
  <2> DEFINE left == [h \in 0 .. Len(Nearest) |-> IF h < i THEN v ELSE 0]
  <2>1. v \in Nat /\ Len(Nearest) \in Nat
    BY <1>8, <2>0, NearestAre
  <2>2. /\ left \in [0 .. Len(Nearest) -> 0 .. v]
        /\ left[0] = v /\ left[Len(Nearest)] = 0
    BY <1>2, <2>1
  <2>3. ASSUME NEW h \in 1 .. Len(Nearest)
        PROVE  /\ Gives(Nearest[h], m, left[h - 1] - left[h])'
               /\ left[h - 1] - left[h] <= Spare(Nearest[h], m)
    <3>1. CASE h = i
      <4>1. left[h - 1] - left[h] = v
        BY <3>1, <2>1, <1>2
      <4>2. Gives(Nearest[h], m, v)'
        BY <3>1, <2>0, <1>4 DEF Gives
      <4> QED
        BY <3>1, <4>1, <4>2, <2>0, <1>9
    <3>2. CASE h # i
      <4>1. left[h - 1] - left[h] = 0
        BY <3>2, <2>1, <1>2
      <4>2. Nearest[h] # Nearest[i] /\ Nearest[h] \in Warehouse
        BY <3>2, <1>2, NearestAre
      <4>3. Gives(Nearest[h], m, 0)'
        BY <4>2, <1>4 DEF Gives
      <4>4. Spare(Nearest[h], m) \in Nat
        BY <4>2, <1>8
      <4> QED
        BY <4>1, <4>3, <4>4
    <3> QED
      BY <3>1, <3>2
  <2> HIDE DEF left
  <2>4. ~ (0 > 0)
    OBVIOUS
  <2>5. \A h \in 1 .. Len(Nearest) :
            /\ Gives(Nearest[h], m, left[h - 1] - left[h])'
            /\ left[h - 1] - left[h] <= Spare(Nearest[h], m)'
    BY <2>3, <1>7
  <2>6. v = Wanted'[m]
    BY <2>0, <1>6
  <2> QED
    BY <2>2, <2>4, <2>5, <2>6 DEF Handed
<1>11. AssignsWhatThereIs'
  <2>1. AsksOnce(Len(Nearest))'
    BY <1>2, <1>4 DEF AsksOnce
  <2>2. \A m \in Move' : 0 \in 0 .. Wanted'[m]
    BY <1>6, <1>8
  <2>3. \A m \in Move' : \E r \in 0 .. Wanted'[m] : Handed(m, Len(Nearest), r)'
    BY <1>6, <1>10, <2>2
  <2> QED
    BY <2>1, <2>3 DEF AssignsWhatThereIs
<1>12. NearerIsExhausted'
  <2> SUFFICES ASSUME NEW h \in DOMAIN Nearest, NEW j \in DOMAIN Nearest,
                      NEW k \in DOMAIN plan', h < j, plan'[k].warehouse = Nearest[j]
               PROVE  h \notin Filling' /\ j \in Filling' /\ plan'[k].given = Wanted'
    BY DEF NearerIsExhausted
  <2>1. k = 1 /\ j = i
    BY <1>2, <1>4, NearestAre
  <2>2. h \notin Filling
    BY <2>1, <1>1, <1>2, NearestAre
  <2> QED
    BY <2>1, <2>2, <1>4, <1>6
<1>13. PlanInv'
  BY <1>4, <1>11, <1>12 DEF PlanInv
<1> QED
  BY <1>4, <1>5, <1>13, PickingsStay

LEMMA RouteGreedilyKeeps ==
    ASSUME IInv, RouteGreedily
    PROVE  IInv'
<1>1. /\ phase' = "assigning" /\ remaining' = Wanted /\ plan' = <<>> /\ done' = 0
      /\ split' = split /\ located /\ Nearest # <<>> /\ Begin
  BY DEF RouteGreedily
<1>2. UNCHANGED <<quant, lines, pickings, located>>
  BY <1>1, BeginRestOK
<1>3. Move' = Move /\ Wanted' = Wanted
  BY <1>2, SameLines
<1>4. Wanted \in [Move -> Nat]
  BY LinesAre DEF IInv
<1>5. plan' \in Seq(Assignment') /\ split' \in BOOLEAN
  BY <1>1 DEF IInv, TypeOK
<1>6. RestOK'
  BY <1>1, <1>3, <1>4, <1>5, BeginRestOK DEF RestOK
<1>7. ASSUME NEW m \in Move PROVE Handed(m, done, remaining[m])'
  <2>0. PICK v : v = Wanted[m]
    OBVIOUS
  <2> DEFINE left == [h \in 0 .. 0 |-> v]
  <2>1. v \in Nat /\ v = Wanted'[m] /\ v = remaining'[m]
    BY <2>0, <1>1, <1>3, <1>4
  <2>2. left \in [0 .. 0 -> 0 .. v] /\ left[0] = v
    BY <2>1
  <2> HIDE DEF left
  <2>3. 1 .. 0 = {}
    OBVIOUS
  <2> QED
    BY <2>1, <2>2, <2>3, <1>1 DEF Handed
<1>8. RunInv'
  <2>1. AsksOnce(0)'
    BY <1>1 DEF AsksOnce
  <2>2. AsksOnce(done)'
    BY <2>1, <1>1
  <2>3. done' <= Len(Nearest)
    BY <1>1, NearestAre
  <2> QED
    BY <2>2, <2>3, <1>1, <1>2, <1>3, <1>7 DEF RunInv
<1>9. AssignsWhatThereIs' /\ NearerIsExhausted'
  BY <1>1 DEF AssignsWhatThereIs, NearerIsExhausted
<1>10. PlanInv'
  BY <1>8, <1>9 DEF PlanInv
<1> QED
  BY <1>2, <1>6, <1>10, PickingsStay

(* A warehouse's turn.  It is asked for the first time; what the nearer ones give
   stays, and is all they have for a line of which something remains. *)
LEMMA VisitKeeps ==
    ASSUME IInv, Visit
    PROVE  IInv'
<1>1. /\ TypeOK /\ phase = "assigning" /\ done \in Nat /\ done < Len(Nearest)
      /\ located /\ Nearest # <<>>
      /\ plan \in Seq(Assignment) /\ remaining \in [Move -> Nat]
      /\ AsksOnce(done) /\ \A m \in Move : Handed(m, done, remaining[m])
  BY DEF IInv, TypeOK, RunInv, Visit
<1>2. UNCHANGED <<quant, lines, pickings, split, located, phase>> /\ done' = done + 1
  BY DEF Visit
<1>3. Move' = Move /\ Wanted' = Wanted /\ Assignment' = Assignment /\ Filling' = Filling
  BY <1>2, SameLines, SameStock
<1>4. \A w, m : Spare(w, m)' = Spare(w, m)
  BY <1>2, SameStock
<1>5. PICK w : w = Nearest[done + 1]
  OBVIOUS
<1>6. PICK given : given = [m \in Move |-> Given(remaining[m], Stock(w, m))]
  OBVIOUS
<1>7. /\ remaining' = [m \in Move |-> remaining[m] - given[m]]
      /\ plan' = IF Some(given)
                 THEN Append(plan, [warehouse |-> w, given |-> given]) ELSE plan
  BY <1>5, <1>6 DEF Visit, Turn
<1>8. done + 1 \in DOMAIN Nearest /\ w \in Warehouse /\ Len(Nearest) \in Nat
  BY <1>1, <1>5, NearestAre
<1>9. /\ Wanted \in [Move -> Nat]
      /\ \A v \in Warehouse, m \in Move : Stock(v, m) \in Int /\ Spare(v, m) \in Nat
  BY <1>1, LinesAre
<1>10. \A m \in Move : /\ given[m] \in 0 .. remaining[m]
                       /\ given[m] <= Spare(w, m)
                       /\ given[m] < remaining[m] => given[m] = Spare(w, m)
  <2> SUFFICES ASSUME NEW m \in Move
               PROVE  /\ given[m] \in 0 .. remaining[m]
                      /\ given[m] <= Spare(w, m)
                      /\ given[m] < remaining[m] => given[m] = Spare(w, m)
    OBVIOUS
  <2>1. remaining[m] \in Nat /\ Stock(w, m) \in Int
    BY <1>1, <1>8, <1>9
  <2>2. given[m] = Given(remaining[m], Stock(w, m))
    BY <1>6
  <2> QED
    BY <2>1, <2>2, GivenIs DEF Spare
<1>11. given \in [Move -> Nat]
  <2>1. \A m \in Move : given[m] \in Nat
    BY <1>1, <1>10
  <2> QED
    BY <2>1, <1>6
<1>12. remaining' \in [Move -> Nat]
  <2>1. \A m \in Move : remaining[m] - given[m] \in Nat
    BY <1>1, <1>10, <1>11
  <2> QED
    BY <2>1, <1>7
<1> DEFINE new == [warehouse |-> w, given |-> given]
<1>13. new \in Assignment
  BY <1>8, <1>11 DEF Assignment
<1>14. /\ plan' \in Seq(Assignment)
       /\ DOMAIN plan \subseteq DOMAIN plan'
       /\ \A k \in DOMAIN plan : plan'[k] = plan[k]
       /\ \A k \in DOMAIN plan' \ DOMAIN plan :
            Some(given) /\ plan'[k] = new /\ k = Len(plan) + 1
       /\ Some(given) => Len(plan) + 1 \in DOMAIN plan' /\ plan'[Len(plan) + 1] = new
  <2> HIDE DEF new
  <2>1. DOMAIN plan = 1 .. Len(plan) /\ Len(plan) \in Nat
    BY <1>1
  <2>2. CASE Some(given)
    <3>1. plan' = Append(plan, new)
      BY <2>2, <1>7 DEF new
    <3>2. /\ plan' \in Seq(Assignment) /\ DOMAIN plan' = 1 .. Len(plan) + 1
          /\ \A k \in 1 .. Len(plan) : plan'[k] = plan[k]
          /\ plan'[Len(plan) + 1] = new
      BY <3>1, <1>1, <1>13, <2>1
    <3> QED
      BY <3>2, <2>1, <2>2
  <2>3. CASE ~ Some(given)
    BY <2>3, <1>1, <1>7
  <2> QED
    BY <2>2, <2>3
<1>15. \A k \in DOMAIN plan : plan[k].warehouse # w
  <2> SUFFICES ASSUME NEW k \in DOMAIN plan PROVE plan[k].warehouse # w
    OBVIOUS
  <2>1. PICK h \in 1 .. done : plan[k].warehouse = Nearest[h]
    BY <1>1 DEF AsksOnce
  <2>2. h # done + 1 /\ h \in DOMAIN Nearest
    BY <1>1, <1>8, NearestAre
  <2> QED
    BY <2>1, <2>2, <1>5, <1>8, NearestAre
<1>16. RestOK'
  BY <1>1, <1>2, <1>3, <1>12, <1>14 DEF RestOK, TypeOK
<1>17. ASSUME NEW v, v # w, NEW m, NEW q, Gives(v, m, q)
       PROVE  Gives(v, m, q)'
  BY <1>14, <1>17 DEF Gives
<1>18. ASSUME NEW m \in Move, NEW q, q = given[m]
       PROVE  Gives(w, m, q)'
  <2>1. CASE Some(given)
    BY <2>1, <1>14, <1>18 DEF Gives
  <2>2. CASE ~ Some(given)
    <3>1. q = 0
      BY <2>2, <1>11, <1>18 DEF Some
    <3>2. plan' = plan
      BY <2>2, <1>7
    <3> QED
      BY <3>1, <3>2, <1>15 DEF Gives
  <2> QED
    BY <2>1, <2>2
<1>19. \A i \in 1 .. done : i \in DOMAIN Nearest /\ Nearest[i] # w /\ Nearest[i] \in Warehouse
  BY <1>1, <1>5, <1>8, NearestAre
<1>20. ASSUME NEW m \in Move PROVE Handed(m, done, remaining[m])'
  <2>0. PICK v, r, n : v = Wanted[m] /\ r = remaining[m] /\ n = done
    OBVIOUS
  <2>1. PICK left \in [0 .. n -> 0 .. v] :
            /\ left[0] = v /\ left[n] = r
            /\ \A i \in 1 .. n :
                /\ Gives(Nearest[i], m, left[i - 1] - left[i])
                /\ left[i - 1] - left[i] <= Spare(Nearest[i], m)
                /\ r > 0 => left[i - 1] - left[i] = Spare(Nearest[i], m)
    <3>1. Handed(m, n, r)
      BY <1>1, <2>0
    <3> QED
      BY <3>1, <2>0 DEF Handed
  <2> DEFINE after == [i \in 0 .. n + 1 |-> IF i = n + 1 THEN r - given[m] ELSE left[i]]
  <2>2. /\ v \in Nat /\ r \in Nat /\ n \in Nat /\ given[m] \in 0 .. r /\ r <= v
        /\ given[m] <= Spare(w, m) /\ (given[m] < r => given[m] = Spare(w, m))
    <3>1. v \in Nat /\ r \in Nat /\ n \in Nat
      BY <2>0, <1>1, <1>9
    <3>2. left[n] \in 0 .. v
      BY <3>1
    <3> QED
      BY <3>1, <3>2, <2>0, <2>1, <1>10
  <2>3. /\ after \in [0 .. n + 1 -> 0 .. v]
        /\ after[0] = v /\ after[n + 1] = r - given[m]
        /\ \A i \in 0 .. n : after[i] = left[i]
    BY <2>1, <2>2
  <2> HIDE DEF after
  <2>4. ASSUME NEW i \in 1 .. n + 1
        PROVE  /\ Gives(Nearest[i], m, after[i - 1] - after[i])'
               /\ after[i - 1] - after[i] <= Spare(Nearest[i], m)
               /\ r - given[m] > 0 => after[i - 1] - after[i] = Spare(Nearest[i], m)
    <3>1. CASE i = n + 1
      <4>1. i - 1 = n /\ n \in 0 .. n
        BY <3>1, <2>2
      <4>2. after[i - 1] - after[i] = given[m]
        BY <3>1, <4>1, <2>1, <2>2, <2>3
      <4>3. Nearest[i] = w
        BY <3>1, <2>0, <1>5
      <4>4. Gives(w, m, after[i - 1] - after[i])'
        BY <4>2, <1>18
      <4>5. Gives(Nearest[i], m, after[i - 1] - after[i])'
        BY <4>3, <4>4
      <4>6. r - given[m] > 0 => given[m] < r
        BY <2>2
      <4> QED
        BY <4>2, <4>3, <4>5, <4>6, <2>2
    <3>2. CASE i # n + 1
      <4>1. i \in 1 .. n /\ i - 1 \in 0 .. n /\ i \in 0 .. n
        BY <3>2, <2>2
      <4>2. after[i - 1] - after[i] = left[i - 1] - left[i]
        BY <4>1, <2>3
      <4>3. Nearest[i] # w
        BY <4>1, <2>0, <1>19
      <4>4. Gives(Nearest[i], m, left[i - 1] - left[i])
        BY <4>1, <2>1
      <4>5. PICK wi, q : wi = Nearest[i] /\ q = left[i - 1] - left[i]
        OBVIOUS
      <4>6. Gives(wi, m, q)'
        BY <4>3, <4>4, <4>5, <1>17
      <4>7. Gives(Nearest[i], m, after[i - 1] - after[i])'
        BY <4>2, <4>5, <4>6
      <4>8. r - given[m] > 0 => r > 0
        BY <2>2
      <4> QED
        BY <4>1, <4>2, <4>7, <4>8, <2>1
    <3> QED
      BY <3>1, <3>2
  <2>5. \A i \in 1 .. n + 1 :
            /\ Gives(Nearest[i], m, after[i - 1] - after[i])'
            /\ after[i - 1] - after[i] <= Spare(Nearest[i], m)'
            /\ r - given[m] > 0 => after[i - 1] - after[i] = Spare(Nearest[i], m)'
    BY <2>4, <1>4
  <2>6. v = Wanted'[m] /\ n + 1 = done' /\ r - given[m] = remaining'[m]
    BY <2>0, <1>2, <1>3, <1>7
  <2> QED
    BY <2>3, <2>5, <2>6 DEF Handed
<1>21. AsksOnce(done)'
  <2> SUFFICES ASSUME NEW i \in DOMAIN plan'
               PROVE  /\ \E h \in 1 .. done + 1 : plan'[i].warehouse = Nearest[h]
                      /\ \A j \in DOMAIN plan' :
                            plan'[i].warehouse = plan'[j].warehouse => i = j
    BY <1>2 DEF AsksOnce
  <2>1. \A h \in 1 .. done : h \in 1 .. done + 1
    BY <1>1
  <2>2. done + 1 \in 1 .. done + 1
    BY <1>1
  <2>3. CASE i \in DOMAIN plan
    BY <2>1, <2>3, <1>1, <1>14, <1>15 DEF AsksOnce
  <2>4. CASE i \notin DOMAIN plan
    BY <2>2, <2>4, <1>5, <1>14, <1>15
  <2> QED
    BY <2>3, <2>4
<1>22. RunInv'
  <2>1. done' <= Len(Nearest) /\ phase' = "assigning"
    BY <1>1, <1>2, <1>8
  <2> QED
    BY <2>1, <1>1, <1>2, <1>3, <1>20, <1>21 DEF RunInv
<1>23. AssignsWhatThereIs'
  BY <1>1, <1>2 DEF AssignsWhatThereIs
<1>24. NearerIsExhausted'
  <2> SUFFICES ASSUME NEW i \in DOMAIN Nearest, NEW j \in DOMAIN Nearest,
                      NEW k \in DOMAIN plan', NEW m \in Move,
                      i < j, plan'[k].warehouse = Nearest[j], plan'[k].given[m] > 0
               PROVE  \/ Gives(Nearest[i], m, Spare(Nearest[i], m))'
                      \/ i \notin Filling /\ j \in Filling /\ plan'[k].given = Wanted
    BY <1>3 DEF NearerIsExhausted
  <2>0. PICK wi, q : wi = Nearest[i] /\ q = Spare(Nearest[i], m)
    OBVIOUS
  <2>1. j <= done + 1 /\ i \in 1 .. done
    <3>1. i \in Nat /\ j \in Nat /\ i >= 1
      BY NearestAre
    <3>2. PICK h \in 1 .. done + 1 : plan'[k].warehouse = Nearest[h]
      BY <1>2, <1>21 DEF AsksOnce
    <3>4. h \in DOMAIN Nearest
      BY <1>1, <1>8, NearestAre
    <3>3. j = h
      BY <3>2, <3>4, NearestAre
    <3> QED
      BY <3>1, <3>3, <1>1
  <2>2. wi # w
    BY <2>0, <2>1, <1>19
  <2>3. SUFFICES ASSUME ~ (i \notin Filling /\ j \in Filling /\ plan'[k].given = Wanted)
                 PROVE  Gives(wi, m, q)
    <3>1. Gives(wi, m, q) => Gives(wi, m, q)'
      BY <2>2, <1>17
    <3>2. q = Spare(Nearest[i], m)'
      BY <2>0, <1>4
    <3> QED
      BY <2>0, <2>3, <3>1, <3>2
  <2>4. CASE k \in DOMAIN plan
    BY <2>0, <2>3, <2>4, <1>1, <1>14 DEF IInv, NearerIsExhausted
  <2>5. CASE k \notin DOMAIN plan
    <3>1. given[m] > 0
      BY <2>5, <1>14
    <3>2. remaining[m] > 0
      BY <3>1, <1>1, <1>10, <1>11
    <3>3. Handed(m, done, remaining[m])
      BY <1>1
    <3> QED
      BY <2>0, <2>1, <3>2, <3>3 DEF Handed
  <2> QED
    BY <2>4, <2>5
<1>25. PlanInv'
  BY <1>22, <1>23, <1>24 DEF PlanInv
<1> QED
  BY <1>2, <1>16, <1>25, PickingsStay

(* The warehouses after the last one that was asked give nothing: either there
   are none, or nothing remained. *)
LEMMA HandedToTheEnd ==
    ASSUME TypeOK, done <= Len(Nearest), AsksOnce(done),
           NEW m \in Move, Handed(m, done, remaining[m]),
           done = Len(Nearest) \/ remaining[m] = 0
    PROVE  remaining[m] \in 0 .. Wanted[m] /\ Handed(m, Len(Nearest), remaining[m])
<1>0. done \in Nat /\ Len(Nearest) \in Nat /\ remaining[m] \in Nat /\ Wanted[m] \in Nat
  BY NearestAre, LinesAre DEF TypeOK
<1>1. PICK left \in [0 .. done -> 0 .. Wanted[m]] :
          /\ left[0] = Wanted[m] /\ left[done] = remaining[m]
          /\ \A i \in 1 .. done :
                /\ Gives(Nearest[i], m, left[i - 1] - left[i])
                /\ left[i - 1] - left[i] <= Spare(Nearest[i], m)
                /\ remaining[m] > 0 => left[i - 1] - left[i] = Spare(Nearest[i], m)
  BY DEF Handed
<1>2. left[done] \in 0 .. Wanted[m]
  BY <1>0, <1>1
<1>3. CASE done = Len(Nearest)
  BY <1>1, <1>2, <1>3
<1>4. CASE remaining[m] = 0
  <2> DEFINE after == [i \in 0 .. Len(Nearest) |-> IF i > done THEN 0 ELSE left[i]]
  <2>1. /\ after \in [0 .. Len(Nearest) -> 0 .. Wanted[m]]
        /\ after[0] = Wanted[m] /\ after[Len(Nearest)] = 0
        /\ \A i \in 0 .. done : after[i] = left[i]
        /\ \A i \in done + 1 .. Len(Nearest) : after[i] = 0
    BY <1>0, <1>1, <1>4
  <2> HIDE DEF after
  <2>2. ASSUME NEW i \in 1 .. Len(Nearest)
        PROVE  /\ Gives(Nearest[i], m, after[i - 1] - after[i])
               /\ after[i - 1] - after[i] <= Spare(Nearest[i], m)
    <3>1. CASE i <= done
      <4>1. i \in 1 .. done /\ i \in 0 .. done /\ i - 1 \in 0 .. done
        BY <3>1, <1>0
      <4>2. after[i - 1] - after[i] = left[i - 1] - left[i]
        BY <4>1, <2>1
      <4> QED
        BY <4>1, <4>2, <1>1
    <3>2. CASE i > done
      <4>1. i - 1 \in done .. Len(Nearest) /\ i \in done + 1 .. Len(Nearest)
        BY <3>2, <1>0
      <4>2. after[i - 1] = 0
        <5>1. CASE i - 1 = done
          BY <5>1, <1>0, <1>1, <1>4, <2>1
        <5>2. CASE i - 1 # done
          <6>1. i - 1 \in done + 1 .. Len(Nearest)
            BY <5>2, <4>1, <1>0
          <6> QED
            BY <6>1, <2>1
        <5> QED
          BY <5>1, <5>2
      <4>3. after[i - 1] - after[i] = 0
        BY <4>1, <4>2, <2>1
      <4>4. i \in DOMAIN Nearest /\ Nearest[i] \in Warehouse
        BY NearestAre
      <4>5. \A k \in DOMAIN plan : plan[k].warehouse # Nearest[i]
        <5> SUFFICES ASSUME NEW k \in DOMAIN plan PROVE plan[k].warehouse # Nearest[i]
          OBVIOUS
        <5>1. PICK h \in 1 .. done : plan[k].warehouse = Nearest[h]
          BY DEF AsksOnce
        <5>2. h \in 1 .. Len(Nearest) /\ h # i
          BY <3>2, <1>0
        <5> QED
          BY <5>1, <5>2, <4>4, NearestAre
      <4>6. Spare(Nearest[i], m) \in Nat
        BY <4>4, LinesAre
      <4> QED
        BY <4>3, <4>5, <4>6 DEF Gives
    <3> QED
      BY <3>1, <3>2, <1>0
  <2>3. ~ (0 > 0)
    OBVIOUS
  <2>4. Handed(m, Len(Nearest), 0)
    BY <2>1, <2>2, <2>3 DEF Handed
  <2> QED
    BY <2>4, <1>2, <1>1, <1>4
<1> QED
  BY <1>3, <1>4

LEMMA EndRunKeeps ==
    ASSUME TypeOK, EndRun, UNCHANGED <<quant, lines, located>>
    PROVE  RestOK' /\ PlanInv'
<1>1. Move' = Move /\ Assignment' = Assignment /\ Nothing' = Nothing
  BY SameLines
<1>2. Nothing \in [Move -> Nat]
  BY DEF Nothing
<1>3. plan' \in Seq(Assignment')
  BY DEF EndRun
<1>4. RestOK'
  BY <1>1, <1>2, <1>3 DEF TypeOK, RestOK, EndRun
<1>5. PlanInv'
  BY IdleKeeps DEF EndRun
<1> QED
  BY <1>4, <1>5

LEMMA AssignedKeeps ==
    ASSUME IInv, Assigned
    PROVE  IInv'
<1>1. /\ TypeOK /\ located /\ done <= Len(Nearest) /\ AsksOnce(done)
      /\ \A m \in Move : Handed(m, done, remaining[m])
  BY DEF IInv, RunInv, Assigned
<1>2. UNCHANGED <<quant, lines, pickings, located>>
  BY DEF Assigned
<1>3. CASE plan = <<>>
  <2>1. EndRun
    BY <1>3 DEF Assigned
  <2> QED
    BY <2>1, <1>1, <1>2, EndRunKeeps, PickingsStay
<1>4. CASE plan # <<>>
  <2>1. Apply(plan)
    BY <1>4 DEF Assigned
  <2>2. Move' = Move /\ Assignment' = Assignment /\ Nothing' = Nothing /\ Wanted' = Wanted
    BY <1>2, SameLines
  <2>3. /\ plan' = plan /\ phase' = "splitting" /\ done' = 0 /\ remaining' = Nothing
        /\ split' \in BOOLEAN
    BY <2>1, <1>1 DEF Apply, TypeOK
  <2>4. RestOK'
    BY <2>2, <2>3, <1>1, <1>2 DEF TypeOK, RestOK, Nothing
  <2>5. Len(plan) > 0
    BY <1>1, <1>4 DEF TypeOK
  <2>6. RunInv'
    BY <2>3, <2>5 DEF RunInv
  <2>7. /\ \A m, n, r : Handed(m, n, r)' <=> Handed(m, n, r)
        /\ \A n : AsksOnce(n)' <=> AsksOnce(n)
        /\ NearerIsExhausted' <=> NearerIsExhausted
    BY <2>3, <1>2, SamePlan
  <2>8. AsksOnce(Len(Nearest))
    <3>1. \A h \in 1 .. done : h \in 1 .. Len(Nearest)
      BY <1>1, NearestAre DEF TypeOK
    <3> QED
      BY <3>1, <1>1 DEF AsksOnce
  <2>9. ASSUME NEW m \in Move
        PROVE  \E r \in 0 .. Wanted[m] : Handed(m, Len(Nearest), r)
    <3>1. done = Len(Nearest) \/ remaining[m] = 0
      BY <1>1 DEF Assigned, Some, TypeOK
    <3>2. Handed(m, done, remaining[m])
      BY <1>1
    <3> QED
      BY <3>1, <3>2, <1>1, HandedToTheEnd
  <2>10. AssignsWhatThereIs'
    BY <2>2, <2>7, <2>8, <2>9 DEF AssignsWhatThereIs
  <2>11. PlanInv'
    BY <2>6, <2>7, <2>10 DEF PlanInv, IInv
  <2> QED
    BY <2>4, <2>11, <1>2, PickingsStay
<1> QED
  BY <1>3, <1>4

-----------------------------------------------------------------------------
(* The split engine *)

(* A round keeps the rest of the invariant, *)
LEMMA RoundDoneKeeps ==
    ASSUME IInv, phase = "splitting", RoundDone
    PROVE  RestOK' /\ PlanInv'
<1>1. TypeOK /\ PlanInv /\ UNCHANGED <<quant, lines, located>>
  BY DEF IInv, PlanInv, RoundDone
<1>2. CASE EndRun
  BY <1>1, <1>2, EndRunKeeps
<1>3. CASE ~ EndRun
  <2>1. done + 1 < Len(plan) /\ done' = done + 1 /\ UNCHANGED <<phase, remaining, plan, split>>
    BY <1>3 DEF RoundDone
  <2>2. Move' = Move /\ Assignment' = Assignment /\ Wanted' = Wanted
    BY <1>1, SameLines
  <2>3. RestOK'
    BY <2>1, <2>2, <1>1 DEF TypeOK, RestOK
  <2>4. /\ \A m, n, r : Handed(m, n, r)' <=> Handed(m, n, r)
        /\ \A n : AsksOnce(n)' <=> AsksOnce(n)
        /\ NearerIsExhausted' <=> NearerIsExhausted
    BY <2>1, <1>1, SamePlan
  <2>5. RunInv'
    BY <2>1 DEF RunInv
  <2>6. AssignsWhatThereIs'
    BY <2>1, <2>2, <2>4, <1>1 DEF AssignsWhatThereIs, PlanInv
  <2> QED
    BY <2>3, <2>4, <2>5, <2>6, <1>1 DEF PlanInv
<1> QED
  BY <1>2, <1>3

(* and the pickings as far as it keeps what it must. *)
LEMMA RoundKeeps ==
    ASSUME IInv, phase = "splitting", RoundDone, Kept(pickings, pickings')
    PROVE  IInv'
<1>1. Move' = Move /\ Picking' = Picking
  BY SameLines DEF RoundDone
<1>2. PickingsOK(pickings)'
  BY <1>1 DEF Kept, StatusAgrees, PickingsOK, Placed
<1>3. RestOK' /\ PlanInv'
  BY RoundDoneKeeps
<1> QED
  BY <1>2, <1>3, FromParts DEF IInv, TypeOK, RestOK, PickingsOK, StatusAgrees, PlanInv

(* The rounds are such, as the picking that is taken over is unrouted. *)
LEMMA FirstRoundKeeps ==
    ASSUME IInv, FirstRound
    PROVE  Kept(pickings, pickings')
<1>1. pickings \in Seq(Picking) /\ StatusAgrees(pickings) /\ Placed(pickings)
  BY FromParts DEF PickingsOK
<1>2. PICK i \in Unrouted : pickings' = Reuse(pickings, i, plan[1])
  BY DEF FirstRound
<1>3. i \in DOMAIN pickings /\ Free(pickings[i])
  BY DEF Unrouted, Free
<1>4. plan[1] \in Assignment
  BY DEF FirstRound, IInv, TypeOK, RunInv
<1>5. plan[1].warehouse \in Warehouse
  BY <1>4 DEF Assignment
<1>6. Kept(pickings, Reuse(pickings, i, plan[1]))
  BY <1>1, <1>3, <1>5, ReuseKeeps
<1> QED
  BY <1>2, <1>6

LEMMA LaterRoundKeeps ==
    ASSUME IInv, LaterRound
    PROVE  Kept(pickings, pickings')
<1>1. pickings \in Seq(Picking) /\ StatusAgrees(pickings) /\ Placed(pickings)
  BY FromParts DEF PickingsOK
<1>2. plan[done + 1] \in Assignment
  BY DEF LaterRound, IInv, TypeOK, RunInv
<1>3. plan[done + 1].warehouse \in Warehouse
  BY <1>2 DEF Assignment
<1>4. Kept(pickings, Create(pickings, plan[done + 1]))
  BY <1>1, <1>3, CreateKeeps
<1> QED
  BY <1>4 DEF LaterRound

(* Between two runs others change the stock, the address and whether a picking
   is open. *)
LEMMA OthersKeep ==
    ASSUME IInv, phase = "idle", UNCHANGED <<lines, run, split>>,
           quant' \in [Warehouse -> [Product -> Qty]], located' \in BOOLEAN
    PROVE  RestOK' /\ PlanInv'
<1>1. Move' = Move /\ Assignment' = Assignment
  BY SameLines
<1>2. RestOK'
  BY <1>1 DEF IInv, TypeOK, RestOK, run
<1>3. phase' = "idle" /\ plan' = <<>>
  BY DEF IInv, RunInv, run
<1> QED
  BY <1>2, <1>3, IdleKeeps

(* Another's step changes at most whether a picking is open. *)
LEMMA CloseKeeps ==
    ASSUME IInv, ClosePicking
    PROVE  /\ IInv'
           /\ DOMAIN pickings' = DOMAIN pickings
           /\ \A j \in DOMAIN pickings :
                [pickings'[j] EXCEPT !.open = TRUE] = [pickings[j] EXCEPT !.open = TRUE]
<1>1. PICK i \in DOMAIN pickings : pickings' = [pickings EXCEPT ![i].open = FALSE]
  BY DEF ClosePicking
<1>2. pickings \in Seq(Picking) /\ \A j \in DOMAIN pickings : pickings[j] \in Picking
  BY DEF IInv, TypeOK
<1>3. Move' = Move /\ Picking' = Picking
  BY DEF ClosePicking, Move, Picking
<1>4. [pickings[i] EXCEPT !.open = FALSE] \in Picking
  BY <1>2 DEF Picking
<1>5. /\ pickings' \in Seq(Picking) /\ DOMAIN pickings' = DOMAIN pickings
      /\ \A j \in DOMAIN pickings :
            pickings'[j] = IF j = i THEN [pickings[i] EXCEPT !.open = FALSE]
                           ELSE pickings[j]
  BY <1>1, <1>2, <1>4
<1>6. \A j \in DOMAIN pickings : /\ pickings'[j].moves = pickings[j].moves
                                 /\ pickings'[j].assigned = pickings[j].assigned
                                 /\ pickings'[j].status = pickings[j].status
  BY <1>2, <1>5 DEF Picking
<1>7. \A j \in DOMAIN pickings :
        [pickings'[j] EXCEPT !.open = TRUE] = [pickings[j] EXCEPT !.open = TRUE]
  BY <1>2, <1>5 DEF Picking
<1>8. Placed(pickings)'
  <2> SUFFICES ASSUME NEW m \in Move
               PROVE  \E h \in DOMAIN pickings' : \A j \in DOMAIN pickings' :
                          m \in pickings'[j].moves <=> j = h
    BY <1>3 DEF Placed
  <2>1. PICK h \in DOMAIN pickings :
            \A j \in DOMAIN pickings : m \in pickings[j].moves <=> j = h
    BY DEF IInv, Placed
  <2> QED
    BY <2>1, <1>5, <1>6
<1>9. PickingsOK(pickings)'
  BY <1>3, <1>5, <1>6, <1>8 DEF IInv, TypeOK, PickingsOK, StatusAgrees, Routed
<1>10. RestOK' /\ PlanInv'
  <2>1. quant' \in [Warehouse -> [Product -> Qty]] /\ located' \in BOOLEAN
    BY DEF IInv, TypeOK, ClosePicking
  <2> QED
    BY <2>1, OthersKeep DEF ClosePicking
<1> QED
  BY <1>5, <1>7, <1>9, <1>10 DEF IInv, TypeOK, RestOK, PickingsOK, StatusAgrees, PlanInv

LEMMA StepIInv == IInv /\ [Next]_vars => IInv'
<1> SUFFICES ASSUME IInv, [Next]_vars PROVE IInv'
  OBVIOUS
<1>1. CASE RouteToFirst
  BY <1>1, RouteToFirstKeeps
<1>2. CASE RouteSingleLine
  BY <1>2, RouteSingleLineKeeps
<1>3. CASE RouteGreedily
  BY <1>3, RouteGreedilyKeeps
<1>4. CASE Visit
  BY <1>4, VisitKeeps
<1>5. CASE Assigned
  BY <1>5, AssignedKeeps
<1>6. CASE FirstRound
  <2>1. Kept(pickings, pickings')
    BY <1>6, FirstRoundKeeps
  <2> QED
    BY <2>1, <1>6, RoundKeeps DEF FirstRound
<1>7. CASE LaterRound
  <2>1. Kept(pickings, pickings')
    BY <1>7, LaterRoundKeeps
  <2> QED
    BY <2>1, <1>7, RoundKeeps DEF LaterRound
<1>8. CASE RoutingRaises
  <2>1. TypeOK /\ EndRun /\ UNCHANGED <<quant, lines, pickings, located>>
    BY <1>8 DEF RoutingRaises, IInv
  <2> QED
    BY <2>1, EndRunKeeps, PickingsStay
<1>9. CASE StockMoves
  <2>1. quant' \in [Warehouse -> [Product -> Qty]] /\ located' \in BOOLEAN
    BY <1>9 DEF StockMoves, IInv, TypeOK
  <2>2. phase = "idle" /\ UNCHANGED <<lines, pickings, run, split>>
    BY <1>9 DEF StockMoves
  <2> QED
    BY <2>1, <2>2, OthersKeep, PickingsStay
<1>10. CASE ClosePicking
  BY <1>10, CloseKeeps
<1>11. CASE Geolocalize
  <2>1. quant' \in [Warehouse -> [Product -> Qty]] /\ located' \in BOOLEAN
    BY <1>11 DEF Geolocalize, IInv, TypeOK
  <2>2. phase = "idle" /\ UNCHANGED <<lines, pickings, run, split>>
    BY <1>11 DEF Geolocalize
  <2> QED
    BY <2>1, <2>2, OthersKeep, PickingsStay
<1>12. CASE UNCHANGED vars
  <2>1. UNCHANGED <<quant, lines, pickings, split, located, phase, remaining, plan, done>>
    BY <1>12 DEF vars, run
  <2>2. Move' = Move /\ Assignment' = Assignment /\ Wanted' = Wanted
    BY <2>1, SameLines
  <2>3. RestOK'
    BY <2>1, <2>2 DEF IInv, TypeOK, RestOK
  <2>4. /\ \A m, n, r : Handed(m, n, r)' <=> Handed(m, n, r)
        /\ \A n : AsksOnce(n)' <=> AsksOnce(n)
        /\ NearerIsExhausted' <=> NearerIsExhausted
    BY <2>1, SamePlan
  <2>5. AsksOnce(done)' <=> AsksOnce(done)
    BY <2>1 DEF AsksOnce
  <2>7. RunInv'
    BY <2>1, <2>2, <2>4, <2>5 DEF RunInv, IInv
  <2>8. PlanInv'
    BY <2>1, <2>2, <2>4, <2>7 DEF PlanInv, AssignsWhatThereIs, IInv
  <2> QED
    BY <2>1, <2>3, <2>8, PickingsStay
<1> QED
  BY <1>1, <1>2, <1>3, <1>4, <1>5, <1>6, <1>7, <1>8, <1>9, <1>10, <1>11, <1>12 DEF Next

(* The inductive invariant: types, the picking that a run takes over, and each
   move's one picking, in every step of apply_routing (split_engine.py:16-103),
   for any order, warehouses and stock. *)
THEOREM SplitInvariant == Spec => []IInv
<1> QED
  BY InitIInv, StepIInv, PTL DEF Spec

(* The pickings are well typed, and a picking has the status of a routed one if
   and only if it says by what it was routed (split_engine.py:90-96). *)
THEOREM SplitTypes == Spec => []TypeOK
<1>1. IInv => TypeOK
  BY DEF IInv
<1> QED
  BY <1>1, SplitInvariant, PTL

(* Whatever way the pickings are split, and whichever round raises, each move is
   in one picking (split_engine.py:54-88). *)
THEOREM MovesAreKept == Spec => []EachMoveInOnePicking
<1>1. IInv => EachMoveInOnePicking
  <2> SUFFICES ASSUME IInv, NEW m \in Move
               PROVE  Cardinality({i \in DOMAIN pickings : m \in pickings[i].moves}) = 1
    BY DEF EachMoveInOnePicking
  <2>1. PICK h \in DOMAIN pickings :
            \A j \in DOMAIN pickings : m \in pickings[j].moves <=> j = h
    BY DEF IInv, Placed
  <2>2. {i \in DOMAIN pickings : m \in pickings[i].moves} = {h}
    BY <2>1
  <2> QED
    BY <2>2, FS_Singleton
<1> QED
  BY <1>1, SplitInvariant, PTL

(* No step of a later run changes what a routed picking is or carries: a picking
   that was routed, and perhaps sent, stays as it is (split_engine.py:79-88). *)
THEOREM RoutedStays == Spec => RoutedIsLeftAlone
<1> DEFINE Same == \A i \in DOMAIN pickings :
                Routed(pickings[i]) => [pickings'[i] EXCEPT !.open = TRUE]
                                     = [pickings[i] EXCEPT !.open = TRUE]
<1>1. ASSUME IInv, [Next]_vars PROVE Same
  <2>1. CASE pickings' = pickings
    BY <2>1
  <2>2. CASE FirstRound
    BY <1>1, <2>2, FirstRoundKeeps DEF Kept
  <2>3. CASE LaterRound
    BY <1>1, <2>3, LaterRoundKeeps DEF Kept
  <2>4. CASE ClosePicking
    BY <1>1, <2>4, CloseKeeps
  <2>5. RouteToFirst \/ RouteSingleLine \/ RouteGreedily => pickings' = pickings
    BY DEF RouteToFirst, RouteSingleLine, RouteGreedily, Begin
  <2>6. Visit \/ Assigned \/ RoutingRaises \/ StockMoves \/ Geolocalize => pickings' = pickings
    BY DEF Visit, Assigned, RoutingRaises, StockMoves, Geolocalize
  <2> QED
    BY <1>1, <2>1, <2>2, <2>3, <2>4, <2>5, <2>6 DEF Next, vars
<1>2. IInv /\ [Next]_vars => [Same]_vars
  BY <1>1
<1> QED
  BY <1>2, SplitInvariant, PTL DEF Spec, RoutedIsLeftAlone

(* However the rounds and the preference for one warehouse share it out, an order
   to a known place is assigned all that the warehouses have of each line, and
   no more, whatever the stock is, below zero too (route_engine.py:79-116). *)
THEOREM AllIsAssigned == Spec => []AssignsWhatThereIs
<1>1. IInv => AssignsWhatThereIs
  BY DEF IInv
<1> QED
  BY <1>1, SplitInvariant, PTL

(* For any number of warehouses, one is asked for a line only when every nearer
   one gives all it has (route_engine.py:76-116). *)
THEOREM NearestGiveFirst == Spec => []NearerIsExhausted
<1>1. IInv => NearerIsExhausted
  BY DEF IInv
<1> QED
  BY <1>1, SplitInvariant, PTL
===============================================================================
