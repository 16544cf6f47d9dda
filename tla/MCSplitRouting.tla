---------------------------- MODULE MCSplitRouting ----------------------------
(* A small instance of SplitRouting for TLC. *)
EXTENDS SplitRouting

CONSTANTS w1, w2, p1, p2

TwoNear == <<w1, w2>>

SomeQty == {-1, 1, 2}

Line(p, n) == [product |-> p, qty |-> n, storable |-> TRUE]
Unstored(p) == [product |-> p, qty |-> 1, storable |-> FALSE]

(* A line, two lines, two of the same product, and one with a service. *)
SomeOrders ==
    {<<Line(p1, 2)>>,
     <<Line(p1, 2), Line(p2, 1)>>,
     <<Line(p1, 2), Line(p1, 1)>>,
     <<Line(p1, 2), Unstored(p2)>>}
===============================================================================
