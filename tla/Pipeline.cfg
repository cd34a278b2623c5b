SPECIFICATION PipeSpec
CONSTANTS
    People <- MCPeople
    NoOne = ""
    User = "me"
    Now = 0
    Samples <- MCSamples
    MaxPrs = 3
    MinPoints <- MCMinPoints
    NoAnswer = NoAnswer
    GoodAnswer <- MCGood
    QuietNode <- Quiet
    Bots = {"bot"}
    ThreadLimit = 2
    CommentLimit = 2
    ReactionLimit = 2
    PrCommentLimit = 2
    ZeroTime <- MCZeroTime
    Nodes <- MCNodes
    Talkers = {"me", "you"}
    MaxEvents = 4
    MaxThreads = 3
    MaxComments = 3
INVARIANTS
    TypeOK
    PageIsRanked
    BuriedAtTheBottom
    BuriedIsNotCounted
    ApiHasTheWorthy
    OnlyDeniedIsCleared
    RateLimitIsRecognised
    FuzzedPromises
    TurnReachesTheBar
PROPERTIES
    ThreadsFollowTurns
    ActingNeverRaises
