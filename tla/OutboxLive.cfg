SPECIFICATION FairSpec
CONSTANTS
    m1 = m1
    m2 = m2
    w1 = w1
    w2 = w2
    None = None
    Messages <- TwoMessages
    NoRecipients <- Nobody
    Workers <- OneWorker
    MaxAttempts = 3
    BaseBackoff = 1
    MaxBackoff = 2
    Faults = {"crash", "ambiguous"}
    MaxFaults = 1
    MaxDeliveries = 3
    MaxInbox = 1
INVARIANT SleepCoversDeadline
INVARIANT ClearedOnlyOnceAccepted
INVARIANT GivesUpOnlyWhenExhausted
PROPERTY BackoffRespected
PROPERTY EveryEntrySettles
