SPECIFICATION Spec
CONSTANTS
    u1 = u1
    u2 = u2
    p2 = p2
    p3 = p3
    d1 = d1
    d2 = d2
    d3 = d3
    o1 = o1
    w1 = w1
    w2 = w2
    Urls <- TwoPortals
    PublisherOf <- Publisher2
    Pages <- Site
    MaxPages = 2
    PipeSizes <- Two
    Orchestrators <- OneOrch
    Workers <- TwoWorkers
    Beat = 1
    Visibility = 2
    Deadline = 3
    Timeout = 5
    MaxReceive = 2
    MaxDispatch = 2
    MaxFaults = 1
    MaxBacklog = 1
    MaxEdits = 0
    MaxRecrawls = 0
INVARIANTS TypeOK RestMeansExhausted TimeoutOutlivesCrawl
SYMMETRY Interchangeable
PROPERTIES LetGoByItsVerdict
CHECK_DEADLOCK FALSE
