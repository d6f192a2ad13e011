SPECIFICATION Spec
CONSTANTS
    Folders = {1, 2, 3}
    AccountOf <- OwnerOf
    Trashes = {1, 3}
    Keys <- TheKeys
    Threads <- TheThreads
    Deliverable <- New
    None = None
    MaxSteps = 3
    MaxBusy = 1
    Accounts = {1, 2}
    MaxMessages = 2
    MaxVersions = 2
    MaxClicks = 2
    MaxReports = 1
    MaxFaults = 1
INVARIANTS
    
    
    TrashOfItsAccount
    
CHECK_DEADLOCK FALSE
