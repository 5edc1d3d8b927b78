CONSTANTS
    e1 = e1
    e2 = e2
    r1 = r1
    Events = {e1, e2}
    Rules = {r1}
    Breaches <- TwoEvents
    Jobs <- TwoEvents
    Processors = {p1}
    None = None
    MaxAttempts = 2
    Lease = 1
    MaxDelay = 1
    Capacity = 1
    MaxRules = 1
    RecordLimit = 2
    DeliveryLimit = 1
    MaxVersions = 1
    MaxClock = 0
    MaxWaiting = 1
    MaxFaults = 0
SPECIFICATION FairSpec
PROPERTIES EventuallySettled
