\* Two pickings, one of them cross-border, shipped in two consignments; documents come
\* late and again, users intervene once.
\* CHECK_DEADLOCK: an order that is delivered or closed needs nothing more.
SPECIFICATION Spec
CONSTANTS
    Picking = {p1, p2}
    CrossBorder = {p2}
    Shipment = {s1, s2}
    NoConnote = NoConnote
    EditedTo = {"mf_sent", "mf_delivered"}
    MaxUserActs = 1
CHECK_DEADLOCK FALSE
INVARIANTS
    IInv
    ShownIsTrue
