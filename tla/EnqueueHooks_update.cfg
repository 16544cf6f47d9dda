\* Test 16 of the product hook against the table's unique constraint.
SPECIFICATION Spec
CONSTANTS
    Connector = {c1}
    Order = {}
    Product = {p1}
    Code = {k1}
    User = {u1}
    None = None
    MaxVer = 2
CHECK_DEADLOCK FALSE
PROPERTIES
    UpdatesAreQueued
