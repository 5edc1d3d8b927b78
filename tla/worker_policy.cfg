CONSTANTS
    Events = {1, 2}
    LiveEvents = {}
    Batches = {1, 2}
    Procs = {p1}
    Recoverers = {r1}
    Policies <- Restarted
    Fees = {1, 2}
    Publishers = {"worker"}
    Hour = 1
    Day = 2
    BackoffBase = 0
    BackoffCap = 0
    MaxExp = 0
    MaxTxs = 5
    MaxManual = 0
    MaxFaults = 2
    DeepReorg = FALSE
SPECIFICATION Spec
INVARIANTS SpendingCaps
PROPERTIES PausedIsQuiet
