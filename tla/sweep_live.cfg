SPECIFICATION FairSpec
CONSTANTS
    t1 = t1
    t2 = t2
    o1 = o1
    o2 = o2
    w1 = w1
    w2 = w2
    Targets <- TwoTargets
    Orchestrators <- OneOrch
    Workers <- OneWorker
    Rank <- RankTwo
    BatchLimit = 1
    MaxReceive = 1
    MaxQueries = 1
    MaxDispatch = 5
    MaxFaults = 1
    MaxResweeps = 1
INVARIANTS TypeOK
PROPERTIES EverySweepCompletes StampsOnlyDue
CHECK_DEADLOCK FALSE
