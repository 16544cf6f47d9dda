\* An order that is revised, moved between two connectors and confirmed; two products that
\* may share one default_code; two users whose transactions overlap.
\* CHECK_DEADLOCK: every document may have reached the last version the bound allows.
SPECIFICATION Spec
CONSTANTS
    Connector = {c1, c2}
    Order = {o1}
    Product = {p1, p2}
    Code = {k1}
    User = {u1, u2}
    None = None
    MaxVer = 1
CHECK_DEADLOCK FALSE
SYMMETRY HookSymmetry
INVARIANTS
    IInv
PROPERTIES
    WriteReachesEveryConnector
    ConfirmedWithMessage
