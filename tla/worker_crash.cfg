CONSTANTS
    Events = {1, 2}
    LiveEvents = {}
    Batches = {1, 2}
    Procs = {p1, p2}
    Recoverers = {r1}
    Policies <- Roomy
    Fees = {1}
    Publishers = {"worker"}
    Hour = 0
    Day = 0
    BackoffBase = 0
    BackoffCap = 0
    MaxExp = 0
    MaxTxs = 5
    MaxManual = 0
    MaxFaults = 4
    DeepReorg = FALSE
SPECIFICATION Spec
INVARIANTS TypeOK DurableBeforeSend SingleOwner OneAtATime ConfirmedIsAnchored
PROPERTIES SignedIsKept SubmitsOnce
