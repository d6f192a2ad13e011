SPECIFICATION Spec
CONSTANTS
    alice = alice
    bob = bob
    Goa = {1, 2}
    Eds = {3, 4}
    Keyless = {2}
    Emails = {alice, bob}
    None = None
    Faults = {"goa", "eds", "credential", "store", "bus", "crash"}
    MaxFaults = 1
    MaxChanges = 2
    MaxAccounts = 3
SYMMETRY Symmetry
INVARIANTS
    MergedOnce
    SnapshotIsDesktop
    ServiceFollowsDesktop
    
CHECK_DEADLOCK FALSE
