SPECIFICATION RecoveringSpec
CONSTANTS
    BaseInterval = 2
    Unit = 2
    MaxDelay = 1
    MaxLimit = 1
    MaxFailures = 1
    Replies <- GoodOrLimited
    HttpRequests = {"refresh", "delete"}
    EnvPat = {TRUE}
    Prompt = FALSE
PROPERTIES
    PollingGoesOn
    PartialListHeals
