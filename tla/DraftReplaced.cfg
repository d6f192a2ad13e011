SPECIFICATION DraftsSpec
CONSTANTS
    Accounts = {1, 2}
    None = None
    MaxMessages = 2
    MaxVersions = 2
    MaxClicks = 2
    MaxReports = 1
    MaxFaults = 1
PROPERTY
    ReplacesItsOwn
CHECK_DEADLOCK FALSE
