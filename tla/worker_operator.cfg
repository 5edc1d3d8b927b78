CONSTANTS
    Events = {1, 2}
    LiveEvents = {}
    Batches = {1, 2}
    Procs = {p1}
    Recoverers = {r1}
    Policies <- Roomy
    Fees = {1}
    Publishers = {"worker", "other"}
    Hour = 0
    Day = 0
    BackoffBase = 0
    BackoffCap = 0
    MaxExp = 0
    MaxTxs = 1
    MaxManual = 1
    MaxFaults = 1
    DeepReorg = FALSE
SPECIFICATION Spec
INVARIANTS BatchedOnce
