SPECIFICATION FairSpec
CONSTANTS
    t1 = t1
    Threads <- OneThread
    Mails <- NoMails
    MaxFollowups = 2
    Budget = 1
    Amounts <- Fees
    MaxReceive = 2
    MaxHuman = 1
    MaxFaults = 2
INVARIANTS RequestsBounded ParkedIsEscalated
PROPERTIES EveryThreadSettles
CHECK_DEADLOCK FALSE
