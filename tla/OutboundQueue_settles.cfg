\* Liveness: a death, a click, two workers and the backoff between attempts.
SPECIFICATION FairSpec
CONSTANTS
    m1 = m1
    m2 = m2
    Msg = {m1, m2}
    Worker = {w1, w2}
    Operator = {o1}
    NoMsg = NoMsg
    MaxRetries = 2
    BackoffCap = 60
    MaxCrashes = 1
    MaxClicks = 1
    Channel <- MixedChannel
    Barred = {m1, m2}
PROPERTIES
    Settles
