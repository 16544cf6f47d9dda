\* A report, delivered twice, and a huge acknowledgement; any number of deaths,
\* broken exchanges and aborted transactions; under the fairness of the two crons.
SPECIFICATION FairSpec
CONSTANTS
    f1 = f1
    f2 = f2
    f3 = f3
    c1 = c1
    c2 = c2
    File = {f1, f2, f3}
    Content = {c1, c2}
    Payload <- SomePayload
    Kind <- SomeKind
    Oversized = {c2}
    None = None
INVARIANTS
    IInv
    AppliedIsOnce
    NoCsvUnaccounted
PROPERTIES
    StoredSettles
    DeliverySpec
