SPECIFICATION Spec
CONSTANTS
    People <- MCPeople
    NoOne = ""
    Samples <- MCSamples
    User = "me"
    Now = 0
    MaxPrs = 3
    MinPoints <- MCMinPoints
INVARIANT ApiIsRanked
