SPECIFICATION Spec
CONSTANTS
    Callers = {c1, c2}
    Targets = {t1}
    MaxCalls = 3
    MaxFaults = 1
    Schema = "JWT"
    Blacklist = TRUE
    IdentityClient = FALSE
    Requests <- CatalogueRequests
SYMMETRY Symmetry
INVARIANTS
    RequestReachesItsRpc
    ProbePairInSync
PROPERTIES
    CreateRefusalIsHonest
    DeletedStayDeleted
CHECK_DEADLOCK FALSE
