SPECIFICATION FairSpec
CONSTANTS
    c1 = c1
    c2 = c2
    c3 = c3
    o1 = o1
    o2 = o2
    Campaigns <- Three
    Offices <- TwoOffices
    SeedSets <- Seeded
    Tests <- Third
    Anonymous <- Third
    Guarded <- SecondOffice
    Notified <- First
    Cap = 1
    Cooldown = 1
    MaxReceive = 2
    MaxDay = 1
    MaxFaults = 1
    MaxReplies = 1
    MaxOrders = 1
INVARIANTS TypeOK CapHolds CooldownHolds NoContactVanishes AlertedOnce
PROPERTIES NothingIsForgotten
CHECK_DEADLOCK FALSE
