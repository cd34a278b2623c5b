SPECIFICATION FairSpec
CONSTANTS
    BaseInterval = 2
    Unit = 2
    MaxDelay = 1
    MaxLimit = 1
    MaxFailures = 0
    Replies <- GoodOnly
    HttpRequests = {"put", "delete"}
    EnvPat = {TRUE}
    Prompt = TRUE
PROPERTY ReconfiguringResumes
