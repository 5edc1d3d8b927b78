CONSTANTS
    Events = {1, 2}
    LiveEvents = {}
    Batches = {1, 2}
    Procs = {p1}
    Recoverers = {r1}
    Policies <- Joined
    Fees = {1}
    Publishers = {"worker"}
    Hour = 1
    Day = 1
    BackoffBase = 1
    BackoffCap = 1
    MaxExp = 1
    MaxTxs = 5
    MaxManual = 0
    MaxFaults = 1
    DeepReorg = FALSE
SPECIFICATION FairSpec
PROPERTIES EventuallyAnchored
