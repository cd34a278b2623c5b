SPECIFICATION Spec
CONSTANTS
    BaseInterval = 2
    Unit = 2
    MaxDelay = 1
    MaxLimit = 2
    MaxFailures = 2
    Replies <- AllKinds
    HttpRequests = {"refresh", "put"}
    EnvPat = {TRUE, FALSE}
    Prompt = FALSE
INVARIANTS
    TypeOK
    PartialListIsStale
PROPERTY RenewsInOrder
