CONSTANTS
    Ids = {1, 2}
    Submissions <- Contested
    Calls = {c1, c2}
    None = None
    Batches = {b1, b2}
    Hashes = {h1, h2}
    Limits = {2}
    MaxEvents = 2
    MaxBytes = 3
    MaxDaily = 1
    MaxTxs = 1
    MaxDays = 2
    MaxWrites = 3
    MaxFaults = 1
SPECIFICATION Spec
SYMMETRY Symmetry
INVARIANTS TypeOK UsageExact AcceptedRightly BatchUniform OutboxAgrees NoWaitCycle
PROPERTIES FirstContentKept HistoryKept StoreIsLedger
