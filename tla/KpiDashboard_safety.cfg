\* Windows scaled to 2, 3 and 4 ticks, quantities whose difference is just above the tolerance. CHECK_DEADLOCK: time and writes are bounded.
SPECIFICATION Spec
CONSTANTS
    Picking = {k1, k2}
    Product = {p1, p2}
    Qty = {0, 389, 391}
    Deadlines = {{}, {1}}
    TolerancePerMille = 5
    Grace = 1
    Week = 2
    Month = 3
    Year = 4
    Weeks = 2
    MaxTime = 5
    MaxDiscs = 2
    MaxActs = 3
CHECK_DEADLOCK FALSE
SYMMETRY Symmetry
INVARIANTS
    FlaggedCounts
    CountsAgree
