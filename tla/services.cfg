SPECIFICATION Spec
SYMMETRY Symmetry
\* Every part stops at the bound of a counter.
CHECK_DEADLOCK FALSE
CONSTANTS
    \* Values of different parts never meet and share their names.
    Revocations = {a1, a2}
    Steps = {b1, b2}
    NoStep = NoStep
    Baseline = 1
    Overlap = 1
    Lag = 1
    Window = 2
    ReplayLease = 2
    Late = 2
    Horizon = 6
    Customers = {a1, a2}
    Operations = {b1, b2}
    Invitations = {i1}
    ActionIds = {m1, m2}
    Nothing = Nothing
    MaxMembers = 2
    MaxPending = 1
    MaxProjects = 2
    MaxActions = 2
    Keys = {m1, m2}
    Resolvers = {v1}
    MaxKeys = 1
    Anchored = {r1, r2}
    Contracts = 1
    Manifests = {r1}
    MaxRange = 2
    MaxHeight = 3
    MaxSerial = 5
    Undercut = FALSE
    Receipts = {1, 2, 3}
    MaxBatchReceipts = 2
    MaxQueueReceipts = 3
    MaxBatchAttempts = 2
    CheckpointEvery = 2
    MaxPrepared = 2
    MaxCalls = 1
    MaxTransactionsPerHour = 2
    MaxDailySpend = 3
    MaxQuote = 2
    HoursPerDay = 2
    MaxHour = 3
    Accounts = {x1, x2}
    NoAccount = NoAccount
    Versions = {a1, a2}
    Digests = {d1}
    Delay = 1
    LastBlock = 3
    Agents = {x1}
    Commitments = {a1, a2}
    Anchorables = {b1, b2}
    MaxEpochs = 2
    LastSecond = 3
    Releases = {a1, a2}
    NoRelease = NoRelease
    MaxRestores = 2
    MaxData = 1
    Events = {1, 2, 3}
    Pages = 2
    EventBodies = {m1, m2}
    Senders = {b1, b2}
    Capacity = 2
    FlushLimit = 2
    Attempts = 2
    MaxRows = 3
    MaxWrites = 2
    MaxSets = 3
    MaxDamage = 1
INVARIANTS ServicesTypeOK NothingSkipped WorkspaceSafe IndexFollowsChain OutboundSafe RecordedRightly ReleaseGoverned
PROPERTIES KeyEndsForGood WorkspaceIsSerial
