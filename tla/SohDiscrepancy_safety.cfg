\* Two users, reports of one or two lines around the 0.5 % tolerance of 200 units and of
\* negative stock, which may break off, and moves in between.
\* CHECK_DEADLOCK: the bounded reports and moves end.
SPECIFICATION Spec
CONSTANTS
    Product = {p1}
    Qty <- SomeQty
    User = {u1, u2}
    TolerancePerMille = 5
    MaxLines = 2
    MaxReports = 2
    MaxMoves = 1
CHECK_DEADLOCK FALSE
SYMMETRY UserSymmetry
INVARIANTS
    IInv
    AtMostOneOpen
PROPERTIES
    AcceptedIsFinal
    NoSilentDrift
