SPECIFICATION SessionSpec
SYMMETRY Symmetry
\* The provider's credentials are used up and every flow is closed.
CHECK_DEADLOCK FALSE
CONSTANTS
    Tokens = {t1, t2}
    Requests = {r1, r2}
    Flows = {f1, f2}
    ProviderIds = {p1}
    Absent = Absent
    MaxCredential = 2
    MaxFlows = 1
    MaxSessions = 2
INVARIANTS CredentialSpentOnce RevokedStaysOut
