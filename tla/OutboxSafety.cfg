SPECIFICATION Spec
CONSTANTS
    m1 = m1
    m2 = m2
    w1 = w1
    w2 = w2
    None = None
    Messages <- OneMessage
    NoRecipients <- Nobody
    Workers <- TwoWorkers
    MaxAttempts = 2
    BaseBackoff = 1
    MaxBackoff = 1
    Faults = {"crash", "store", "ambiguous", "file", "prune", "retire"}
    MaxFaults = 1
    MaxDeliveries = 2
    MaxInbox = 1
SYMMETRY Symmetry
INVARIANT TypeOK
 
 
 
 
