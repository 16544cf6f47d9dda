\* The code's three attempts, an HTTP and an SFTP message whose connectors'
\* notify users may not see them, two workers, one worker death, and two operators whose
\* clicks may come late.
SPECIFICATION Spec
CONSTANTS
    m1 = m1
    m2 = m2
    Msg = {m1, m2}
    Worker = {w1, w2}
    Operator = {o1, o2}
    NoMsg = NoMsg
    MaxRetries = 3
    BackoffCap = 60
    MaxCrashes = 1
    MaxClicks = 2
    Channel <- MixedChannel
    Barred = {m1, m2}
SYMMETRY ProcessSymmetry
INVARIANTS
    IInv
    SentIsAccepted
    DeadIsEarned
    SendingIsPrivate
    ClaimIsFresh
    NoConcurrentSend
PROPERTIES
    HolderAloneWrites
    DeliverySpec
