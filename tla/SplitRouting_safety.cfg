\* Four orders and two warehouses, one of them across the border; the stock changes
\* between the runs of the routing.
\* CHECK_DEADLOCK: a quant may have one figure only, and no picking may be open.
SPECIFICATION Spec
CONSTANTS
    w1 = w1
    w2 = w2
    p1 = p1
    p2 = p2
    Nearest <- TwoNear
    FirstByCode = w2
    OwnWarehouse = w1
    CrossBorder = {w2}
    Orders <- SomeOrders
    Qty <- SomeQty
    NoWarehouse = NoWarehouse
    MaxPickings = 4
CHECK_DEADLOCK FALSE
INVARIANTS
    IInv
    EachMoveInOnePicking
    AssignsWhatThereIs
    NearerIsExhausted
PROPERTIES
    RoutedIsLeftAlone
