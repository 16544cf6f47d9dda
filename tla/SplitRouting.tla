----------------------------- MODULE SplitRouting -----------------------------
(***************************************************************************)
(* mf.push.cron._route_pending_orders for one confirmed order: the route    *)
(* engine assigns the order's lines to warehouses, the split engine adjusts *)
(* the order's pickings.  It runs again as long as the order has an         *)
(* unrouted picking.                                                        *)
(*                                                                          *)
(* A move is named by the order line it delivers; distances are the order   *)
(* of the sequence Nearest.                                                 *)
(*                                                                          *)
(* A run goes warehouse by warehouse, then round by round through the       *)
(* assignments.  It is one transaction on a snapshot, and others are outside*)
(* of it: what they commit meanwhile it does not see, and if they wrote a   *)
(* row that it writes, it is rolled back as if it had not run.  So others   *)
(* act between two runs only, and a run that is rolled back is no behaviour *)
(* of its own.                                                              *)
(***************************************************************************)
EXTENDS Integers, SequencesExt

CONSTANTS
    Nearest,        \* the enabled warehouses with coordinates, closest first
    FirstByCode,    \* the first enabled warehouse by x_mf_warehouse_code, name
    OwnWarehouse,   \* the warehouse the order's pickings were made for
    CrossBorder,    \* warehouses in another country than the address
    Orders,         \* sequences of lines [product, qty, storable] to deliver
    Qty,            \* the sums the quants of a product may have, below 0 too
    NoWarehouse,    \* a picking that is not routed
    MaxPickings     \* bound: a run begins with fewer pickings than that

Warehouse == Range(Nearest) \union {FirstByCode, OwnWarehouse}
Product == {l.product : l \in UNION {Range(o) : o \in Orders}}

(* A line of none has no move. *)
ASSUME RoutingAssumption ==
    /\ Nearest \in Seq(Warehouse) /\ IsInjective(Nearest)
    /\ CrossBorder \subseteq Warehouse
    /\ Qty \subseteq Int
    /\ Orders \subseteq Seq([product : Product, qty : Nat \ {0}, storable : BOOLEAN])
    /\ NoWarehouse \notin Warehouse
    /\ MaxPickings \in Nat

VARIABLES
    quant,      \* quant[w]: the sum of the quants under w's stock location
    lines,      \* the order's lines
    pickings,   \* the order's outbound pickings, in the order of creation
    split,      \* x_mf_split of the order
    located,    \* whether the delivery address has coordinates
    phase,      \* where a run is: in route_order's loop, or apply_routing's
    remaining,  \* route_order's remaining: what no warehouse has given
    plan,       \* the assignments so far
    done        \* rounds that the loop has done

run == <<phase, remaining, plan, done>>
vars == <<quant, lines, pickings, split, located, run>>

Move == DOMAIN lines

Picking == [warehouse : Warehouse,      \* that of its operation type
            moves : SUBSET Move,
            assigned : Warehouse \union {NoWarehouse},  \* by routing; none: x_mf_routed_by unset
            status : {"draft", "mf_held_review", "mf_queued"},
            open : BOOLEAN]             \* not done or cancelled

NewPicking(w, moves) ==
    [warehouse |-> w, moves |-> moves, assigned |-> NoWarehouse,
     status |-> "draft", open |-> TRUE]

(* What a warehouse is to give, line by line. *)
Assignment == [warehouse : Warehouse, given : [Move -> Nat]]

Some(amounts) == \E m \in Move : amounts[m] > 0

-----------------------------------------------------------------------------
(* mf.route.engine *)

Smaller(a, b) == IF a < b THEN a ELSE b

(* _check_stock.  The cross-check with the partner's figures keeps the elements
   of get_stock_on_hand's answer that are dicts; that is a list with the text
   of the response (mainfreight_rest.py:90-96), so that Odoo's figure stands. *)
Stock(w, m) == quant[w][lines[m].product]

(* _order_lines: what is not storable is not the partner's.  The code asks for the
   product type 'product', which Odoo 19 has no more: there, nothing is storable. *)
Wanted == [m \in Move |-> IF lines[m].storable THEN lines[m].qty ELSE 0]

(* Each line is looked at alone: it does not see what another line of the same
   product was given. *)
BugTakesTheRest(q, avail) == q      \* seeded fault: partial stock gives all
Given(q, avail) == IF avail > 0 THEN Smaller(q, avail) ELSE 0

(* The only line's warehouses that can fill it alone. *)
Filling ==
    LET storable == {m \in Move : lines[m].storable} IN
    {i \in DOMAIN Nearest :
        \E m \in storable : storable = {m} /\ Stock(Nearest[i], m) >= Wanted[m]}

(* The warehouse whose turn it is. *)
BugFarthestFirst(n) == Nearest[Len(Nearest) - n]    \* seeded fault: sorted the other way
Turn(n) == Nearest[n + 1]

-----------------------------------------------------------------------------
(* mf.split.engine *)

Routed(k) == k.assigned # NoWarehouse
Products(a) == {lines[m].product : m \in {n \in Move : a.given[n] > 0}}

BugSettleStatusless(k, w) == [k EXCEPT !.assigned = w]  \* seeded fault

(* The write at the end of each round. *)
Settle(k, w) ==
    [k EXCEPT !.assigned = w,
              !.status = IF w \in CrossBorder THEN "mf_held_review" ELSE "mf_queued"]

BugLeftoverKept(ks, i, a) ==     \* seeded fault: the copy keeps all moves
    LET other == {m \in ks[i].moves : lines[m].product \notin Products(a)}
        kept == [ks EXCEPT ![i] = Settle(@, a.warehouse)]
    IN  IF other = {} THEN kept ELSE Append(kept, NewPicking(ks[i].warehouse, other))

(* The first assignment takes over an unrouted picking; its other moves go to a
   copy, which keeps the operation type. *)
Reuse(ks, i, a) ==
    LET other == {m \in ks[i].moves : lines[m].product \notin Products(a)}
        kept == [ks EXCEPT ![i] = Settle([ks[i] EXCEPT !.moves = @ \ other], a.warehouse)]
    IN  IF other = {} THEN kept ELSE Append(kept, NewPicking(ks[i].warehouse, other))

(* A later assignment gets a picking of its own, and the moves of its products
   that no routed picking has. *)
BugFreeOfAny(k) == k.open       \* seeded fault: routed pickings give moves too
Free(k) == k.open /\ ~ Routed(k)

Create(ks, a) ==
    LET taken == {m \in Move : /\ lines[m].product \in Products(a)
                               /\ \E k \in Range(ks) : Free(k) /\ m \in k.moves}
    IN  Append([i \in DOMAIN ks |-> [ks[i] EXCEPT !.moves = @ \ taken]],
               Settle(NewPicking(a.warehouse, taken), a.warehouse))

(* The unrouted pickings of the order; which one comes first, by priority,
   scheduled date and id, is left open. *)
Unrouted == {i \in DOMAIN pickings : pickings[i].open /\ ~ Routed(pickings[i])}

(* _route_pending_orders looks for unrouted pickings that are confirmed,
   waiting or assigned: they have moves. *)
Pending == \E i \in Unrouted : pickings[i].moves # {}

TypeOK ==
    /\ quant \in [Warehouse -> [Product -> Qty]]
    /\ lines \in Orders
    /\ pickings \in Seq(Picking)
    /\ split \in BOOLEAN /\ located \in BOOLEAN
    /\ phase \in {"idle", "assigning", "splitting"}
    /\ remaining \in [Move -> Nat]
    /\ plan \in Seq(Assignment)
    /\ done \in Nat
    /\ \A i \in DOMAIN pickings : Routed(pickings[i]) <=> pickings[i].status # "draft"

Nothing == [m \in Move |-> 0]

(* A confirmed order: one picking with all moves, or one for each. *)
Init ==
    /\ quant \in [Warehouse -> [Product -> Qty]]
    /\ lines \in Orders
    /\ \/ pickings = <<NewPicking(OwnWarehouse, Move)>>
       \/ pickings = [m \in Move |-> NewPicking(OwnWarehouse, {m})]
    /\ split = FALSE
    /\ located \in BOOLEAN
    /\ phase = "idle" /\ remaining = Nothing /\ plan = <<>> /\ done = 0

(* The cron has an order to route: route_order, up to its loop. *)
Begin ==
    /\ phase = "idle" /\ Pending /\ Some(Wanted)
    /\ Len(pickings) < MaxPickings
    /\ UNCHANGED <<quant, lines, pickings, located>>

(* apply_routing, up to its loop. *)
Apply(assignments) ==
    /\ phase' = "splitting" /\ remaining' = Nothing /\ done' = 0
    /\ plan' = assignments
    /\ split' = (split \/ Len(assignments) > 1)

EndRun ==
    /\ phase' = "idle" /\ remaining' = Nothing /\ plan' = <<>> /\ done' = 0
    /\ UNCHANGED split

Whole(w) == <<[warehouse |-> w, given |-> Wanted]>>

(* Without places to compare, the first warehouse gets the order. *)
RouteToFirst ==
    /\ Begin
    /\ ~ located \/ Nearest = <<>>
    /\ Apply(Whole(FirstByCode))

(* A single line goes to the nearest warehouse that can fill it. *)
RouteSingleLine ==
    /\ Begin /\ located
    /\ \E i \in Filling : (\A j \in Filling : i <= j) /\ Apply(Whole(Nearest[i]))

RouteGreedily ==
    /\ Begin /\ located /\ Nearest # <<>> /\ Filling = {}
    /\ phase' = "assigning" /\ remaining' = Wanted /\ plan' = <<>> /\ done' = 0
    /\ UNCHANGED split

(* A warehouse gives what it has of what remains. *)
Visit ==
    /\ phase = "assigning" /\ done < Len(Nearest) /\ Some(remaining)
    /\ LET w == Turn(done)
           given == [m \in Move |-> Given(remaining[m], Stock(w, m))]
       IN  /\ remaining' = [m \in Move |-> remaining[m] - given[m]]
           /\ plan' = IF Some(given)
                      THEN Append(plan, [warehouse |-> w, given |-> given]) ELSE plan
    /\ done' = done + 1
    /\ UNCHANGED <<quant, lines, pickings, split, located, phase>>

(* The loop is over; with no assignment there is nothing to apply. *)
Assigned ==
    /\ phase = "assigning" /\ (done = Len(Nearest) \/ ~ Some(remaining))
    /\ IF plan = <<>> THEN EndRun ELSE Apply(plan)
    /\ UNCHANGED <<quant, lines, pickings, located>>

RoundDone ==
    /\ \/ done + 1 < Len(plan) /\ done' = done + 1
          /\ UNCHANGED <<phase, remaining, plan, split>>
       \/ done + 1 = Len(plan) /\ EndRun
    /\ UNCHANGED <<quant, lines, located>>

FirstRound ==
    /\ phase = "splitting" /\ done = 0
    /\ \E i \in Unrouted : pickings' = Reuse(pickings, i, plan[1])
    /\ RoundDone

LaterRound ==
    /\ phase = "splitting" /\ done > 0
    /\ pickings' = Create(pickings, plan[done + 1])
    /\ RoundDone

(* copy() or create() raises in a round, as an override or a constraint of
   another addon does: the cron logs it and goes on, and nothing is rolled back.
   The empty picking that copy() leaves when what follows it raises is left out. *)
RoutingRaises ==
    /\ phase = "splitting" /\ EndRun
    /\ UNCHANGED <<quant, lines, pickings, located>>

(* Receipts, deliveries and reports of the partner. *)
StockMoves ==
    /\ phase = "idle"
    /\ \E w \in Warehouse, p \in Product, q \in Qty :
        quant' = [quant EXCEPT ![w][p] = q]
    /\ UNCHANGED <<lines, pickings, split, located, run>>

(* A picking is done, or cancelled. *)
ClosePicking ==
    /\ phase = "idle"
    /\ \E i \in DOMAIN pickings :
        /\ pickings[i].open /\ pickings[i].moves # {}
        /\ pickings' = [pickings EXCEPT ![i].open = FALSE]
    /\ UNCHANGED <<quant, lines, split, located, run>>

(* The address gets its coordinates, between two runs of the routing. *)
Geolocalize ==
    /\ phase = "idle"
    /\ ~ located /\ located' = TRUE
    /\ UNCHANGED <<quant, lines, pickings, split, run>>

Next ==
    \/ RouteToFirst \/ RouteSingleLine \/ RouteGreedily
    \/ Visit \/ Assigned
    \/ FirstRound \/ LaterRound \/ RoutingRaises
    \/ StockMoves \/ ClosePicking \/ Geolocalize

Spec == Init /\ [][Next]_vars

-----------------------------------------------------------------------------
(* Properties *)

(* Whatever way the pickings are split, and whichever round raised, each move
   is in one picking (split_engine.py:54-88). *)
EachMoveInOnePicking ==
    \A m \in Move : Cardinality({i \in DOMAIN pickings : m \in pickings[i].moves}) = 1

(* EachMoveInOnePicking in terms of the picking that has the move. *)
Placed(ks) ==
    \A m \in Move : \E i \in DOMAIN ks : \A j \in DOMAIN ks : m \in ks[j].moves <=> j = i

(* A picking that is routed, and perhaps sent, is not changed by a later run of
   the routing: "already-routed pickings are excluded" (split_engine.py:79-81). *)
RoutedIsLeftAlone ==
    [][\A i \in DOMAIN pickings :
        Routed(pickings[i]) => [pickings'[i] EXCEPT !.open = TRUE]
                             = [pickings[i] EXCEPT !.open = TRUE]]_vars

(* What a warehouse can give; a stock below 0 is none. *)
Spare(w, m) == IF Stock(w, m) > 0 THEN Stock(w, m) ELSE 0

(* By the plan, w is to give q for the line m. *)
Gives(w, m, q) ==
    \/ \E i \in DOMAIN plan : plan[i].warehouse = w /\ plan[i].given[m] = q
    \/ q = 0 /\ \A i \in DOMAIN plan : plan[i].warehouse # w

(* Of what the line m wants, r remains when the n nearest warehouses have given
   what the plan says: none more than it has, and all that they have if r is
   above 0. *)
Handed(m, n, r) ==
    \E left \in [0 .. n -> 0 .. Wanted[m]] :
        /\ left[0] = Wanted[m] /\ left[n] = r
        /\ \A i \in 1 .. n :
            /\ Gives(Nearest[i], m, left[i - 1] - left[i])
            /\ left[i - 1] - left[i] <= Spare(Nearest[i], m)
            /\ r > 0 => left[i - 1] - left[i] = Spare(Nearest[i], m)

(* The plan asks the n nearest warehouses, each once. *)
AsksOnce(n) ==
    \A i \in DOMAIN plan :
        /\ \E h \in 1 .. n : plan[i].warehouse = Nearest[h]
        /\ \A j \in DOMAIN plan : plan[i].warehouse = plan[j].warehouse => i = j

(* However the greedy rounds and the single-line preference share it out, an
   order to a known place is assigned, line by line, all that the warehouses
   have of what it wants, and no more (route_engine.py:79-116). *)
AssignsWhatThereIs ==
    phase = "splitting" /\ located /\ Nearest # <<>> =>
        /\ AsksOnce(Len(Nearest))
        /\ \A m \in Move : \E r \in 0 .. Wanted[m] : Handed(m, Len(Nearest), r)

(* A warehouse is asked for a line only when the nearer ones have given all they
   have for it, or it is the nearest that can fill a single line alone. *)
NearerIsExhausted ==
    located => \A i, j \in DOMAIN Nearest, k \in DOMAIN plan, m \in Move :
        i < j /\ plan[k].warehouse = Nearest[j] /\ plan[k].given[m] > 0 =>
            \/ Gives(Nearest[i], m, Spare(Nearest[i], m))
            \/ i \notin Filling /\ j \in Filling /\ plan[k].given = Wanted

(* Where a run is.  While the warehouses are asked, remaining is what those that
   had their turn have left of each line. *)
RunInv ==
    /\ phase = "idle" => plan = <<>>
    /\ phase = "assigning" =>
        /\ located /\ Nearest # <<>> /\ done <= Len(Nearest)
        /\ AsksOnce(done)
        /\ \A m \in Move : Handed(m, done, remaining[m])
    /\ phase = "splitting" => done < Len(plan)

(* Inductive: a round moves each move of an assignment's products at most once
   and takes it from an unrouted picking, whatever the assignments are; the
   assignments are made of what remains. *)
IInv ==
    /\ TypeOK /\ RunInv /\ Placed(pickings)
    /\ AssignsWhatThereIs /\ NearerIsExhausted
===============================================================================
