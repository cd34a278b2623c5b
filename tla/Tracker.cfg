SPECIFICATION HFairSpec
CONSTANTS
    BaseInterval = 3
    Unit = 8
INVARIANTS
    HTypeOK
    FullIntervalAfterSignal
    RecoversWithinSix
PROPERTIES
    RefreshIsServed
    SignalsKeepComing
    StopEndsRun
