SPECIFICATION Spec
CONSTANTS
    t1 = t1
    Threads <- OneThread
    Mails <- OneMail
    MaxFollowups = 2
    Budget = 1
    Amounts <- Fees
    MaxReceive = 2
    MaxHuman = 0
    MaxFaults = 1
INVARIANTS TypeOK FollowupsBounded RepliesOnce FeesCovered
CHECK_DEADLOCK FALSE
