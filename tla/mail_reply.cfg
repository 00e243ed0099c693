SPECIFICATION Spec
CONSTANTS
    t1 = t1
    Threads <- OneThread
    Mails <- OneMail
    MaxFollowups = 1
    Budget = 1
    Amounts <- Fees
    MaxReceive = 2
    MaxHuman = 0
    MaxFaults = 0
INVARIANTS InboundReacted
CHECK_DEADLOCK FALSE
