CONSTANTS
    Ids = {1, 2, 3}
    Submissions <- Distinct
    Calls = {c1, c2}
    None = None
    Batches = {b1}
    Hashes = {h1}
    Limits = {1}
    MaxEvents = 3
    MaxBytes = 3
    MaxDaily = 1
    MaxTxs = 1
    MaxDays = 2
    MaxWrites = 2
    MaxFaults = 0
SPECIFICATION Spec
INVARIANTS DailyAllowance
