SPECIFICATION IndexerSpec
\* The blocks are used up.
CHECK_DEADLOCK FALSE
CONSTANTS
    Anchored = {r1, r2}
    Contracts = 1
    Manifests = {r1}
    MaxRange = 2
    MaxHeight = 3
    MaxSerial = 5
    Undercut = TRUE
INVARIANTS IndexFollowsChain
