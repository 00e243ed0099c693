SPECIFICATION FairSpec
CONSTANTS
    u1 = u1
    u2 = u2
    c1 = c1
    s1 = s1
    s2 = s2
    f1 = f1
    f2 = f2
    Urls <- OneUrl
    Contents <- OneContent
    Stagers <- TwoStagers
    Fetchers <- TwoFetchers
    AttemptLimit = 2
    RedispatchLimit = 1
    MaxReceive = 1
    MaxArtifact = 1
    MaxPublish = 5
    MaxFaults = 1
PROPERTIES EveryArtifactSettles
CHECK_DEADLOCK FALSE
