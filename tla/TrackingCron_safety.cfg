\* One picking with a connote, one that phase 0 finds, three runs and more time than a cooldown. CHECK_DEADLOCK: the bounded runs end.
SPECIFICATION Spec
CONSTANTS
    Picking = {p1, p2}
    Connoted = {p1}
    Referenced = {p2}
    Status = {mf_sent, mf_in_transit, mf_delivered, mf_resolved}
    Trackable = {mf_sent, mf_in_transit}
    TerminalStatuses = {mf_delivered}
    Sent = mf_sent
    Cooldown = 2
    MaxClock = 3
    MaxRuns = 3
    MaxWrites = 1
CHECK_DEADLOCK FALSE
INVARIANTS
    IInv
    AlertsAreSpaced
    FailuresAreAnnounced
PROPERTIES
    TerminalIsLeftAlone
