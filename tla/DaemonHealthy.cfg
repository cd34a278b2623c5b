SPECIFICATION BrowserSpec
CONSTANTS
    BaseInterval = 2
    Unit = 2
    MaxDelay = 2
    MaxLimit = 1
    MaxFailures = 0
    Replies <- GoodOnly
    HttpRequests = {"refresh"}
    EnvPat = {TRUE}
    Prompt = TRUE
    Minute = 2
    RefreshIntervalMinutes = 1
    MarginMinutes = 3
    QuietTime = 1
    CheckPeriod = 2
    RefreshDelay = 2
INVARIANTS
    BrowserTypeOK
    StaleAtMost
    PageFollows
