SPECIFICATION FairSpec
CONSTANTS
    u1 = u1
    u2 = u2
    p2 = p2
    p3 = p3
    d1 = d1
    d2 = d2
    d3 = d3
    o1 = o1
    w1 = w1
    w2 = w2
    Urls <- OnePortal
    PublisherOf <- Publisher2
    Pages <- Site
    MaxPages = 2
    PipeSizes <- Three
    Orchestrators <- OneOrch
    Workers <- OneWorker
    Beat = 1
    Visibility = 2
    Deadline = 3
    Timeout = 6
    MaxReceive = 2
    MaxDispatch = 6
    MaxFaults = 1
    MaxBacklog = 1
    MaxEdits = 1
    MaxRecrawls = 1
PROPERTIES EveryCrawlSettles
CHECK_DEADLOCK FALSE
