SPECIFICATION Spec
CONSTANTS
    BaseInterval = 3
    Unit = 2
    MaxDelay = 1
    MaxLimit = 1
    MaxFailures = 0
    Replies <- GoodOnly
    HttpRequests = {}
    EnvPat = {TRUE}
    Prompt = TRUE
INVARIANT RefreshedEveryInterval
