SPECIFICATION Spec
CONSTANTS
    j1 = j1
    j2 = j2
    o1 = o1
    o2 = o2
    w1 = w1
    w2 = w2
    Jurisdictions <- OneOffice
    Seeders <- OneSeeder
    Scrapers <- TwoScrapers
    MaxQueries = 2
    MaxReceive = 2
    MaxFaults = 1
INVARIANTS TypeOK OutcomeOnce SeededCovers UsedUpIsDecided
CHECK_DEADLOCK FALSE
