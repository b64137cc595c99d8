SPECIFICATION Spec
CONSTANTS
    Callers = {c1, c2}
    Targets = {}
    MaxCalls = 3
    MaxFaults = 1
    Schema = "JWT"
    Blacklist = TRUE
    IdentityClient = FALSE
    Requests <- AccountRequests
SYMMETRY Symmetry
INVARIANTS
    EndedSessionsStayEnded
PROPERTIES
    RefreshBuysOnce
    NoTokensForTheDeleted
CHECK_DEADLOCK FALSE
