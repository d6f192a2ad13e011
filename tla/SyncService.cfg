SPECIFICATION FairSpec
CONSTANTS
    home = home
    work = work
    Accounts <- TwoAccounts
    Lists <- BothOrHome
    MaxPasses = 1
    MaxChanges = 3
    MaxRequests = 1
INVARIANTS
    TypeOK
    ReportedOnce
    OneWorkerPerAccount
PROPERTIES
    EveryPassEnds
CHECK_DEADLOCK FALSE
