SPECIFICATION FairSpec
CONSTANTS
    m1 = m1
    m2 = m2
    Messages <- OneMessage
    Nothing = Nothing
    HasIdle = TRUE
    HasMove = FALSE
    Faults = {"offline", "refused", "ambiguous", "partial", "store", "reorder", "crash"}
    MaxFaults = 2
    MaxActions = 2
    Requests = {"Sync", "SyncFolder", "Watch", "FetchBody", "Copy", "SaveSent", "AppendDraft", "DeleteDraft", "Shutdown"}
    MaxRequests = 1
INVARIANTS
    TypeOK
    NoActionLost
    LastIntentHolds
PROPERTY
    CommandsAreRead
CHECK_DEADLOCK FALSE
