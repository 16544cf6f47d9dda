\* One picking, two consignments, under the fairness of reconciliation and time; that the
\* partner answers is an assumption of the property.
\* CHECK_DEADLOCK: an order that is delivered or closed needs nothing more.
SPECIFICATION FairSpec
CONSTANTS
    Picking = {p1}
    CrossBorder = {}
    Shipment = {s1, s2}
    NoConnote = NoConnote
    EditedTo = {"mf_sent", "mf_received"}
    MaxUserActs = 1
CHECK_DEADLOCK FALSE
PROPERTIES
    ArrivalIsShown
