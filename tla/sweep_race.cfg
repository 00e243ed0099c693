SPECIFICATION Spec
CONSTANTS
    t1 = t1
    t2 = t2
    o1 = o1
    o2 = o2
    w1 = w1
    w2 = w2
    Targets <- OneTarget
    Orchestrators <- TwoOrchs
    Workers <- TwoWorkers
    Rank <- RankOne
    BatchLimit = 1
    MaxReceive = 2
    MaxQueries = 2
    MaxDispatch = 2
    MaxFaults = 1
    MaxResweeps = 0
SYMMETRY InterchangeableAll
INVARIANTS CounterExact VerdictSound
PROPERTIES LetsGoOnlyWhenDone ImplementsCursor
CHECK_DEADLOCK FALSE
