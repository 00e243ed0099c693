SPECIFICATION FairSpec
CONSTANTS
    A = A
    B = B
    US = US
    k = k
    km = km
    t = t
    o1 = o1
    States <- TwoStates
    Federal = US
    Places <- File
    StateOf <- InState
    LevelOf <- AtLevel
    ParentOf <- Beside2
    CommaCounties <- Comma
    Scopes <- FiveScopes
    Sourced <- WithCodes
    Orchestrators <- OneOrch
    Interval = 2
    MaxDay = 1
    MaxFaults = 1
    MaxEdits = 1
INVARIANTS TypeOK MarkerMeansLoaded
PROPERTIES NeverRepurchased EveryPlaceSeeded DispatchedThoughCensusDown
CHECK_DEADLOCK FALSE
