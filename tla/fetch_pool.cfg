SPECIFICATION Spec
CONSTANTS
    u1 = u1
    u2 = u2
    c1 = c1
    s1 = s1
    s2 = s2
    f1 = f1
    f2 = f2
    Urls <- TwoUrls
    Contents <- OneContent
    Stagers <- OneStager
    Fetchers <- TwoFetchers
    AttemptLimit = 2
    RedispatchLimit = 1
    MaxReceive = 1
    MaxArtifact = 2
    MaxPublish = 3
    MaxFaults = 1
INVARIANTS TypeOK KnownIsStored
SYMMETRY Interchangeable
PROPERTIES KeptOnce VerdictsRest
CHECK_DEADLOCK FALSE
