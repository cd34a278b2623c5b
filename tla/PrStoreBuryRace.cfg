SPECIFICATION Spec
CONSTANTS
    Urls = {u1}
    MaxVersion = 1
    MaxFetches = 2
    MayFail = FALSE
PROPERTY BuryTakesEffect
