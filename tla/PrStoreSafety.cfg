SPECIFICATION Spec
CONSTANTS
    Urls = {u1, u2}
    MaxVersion = 3
    MaxFetches = 3
    MayFail = TRUE
INVARIANTS
    TypeOK
    BuriedOnlyOnRequest
    MarksSurvive
    OneFetchAtATime
    StampMeansComplete
PROPERTIES
    ImplementsList
    RenewsInOrder
