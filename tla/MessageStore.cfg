SPECIFICATION Spec
CONSTANTS
    inbox = inbox
    work = work
    alice = alice
    bob = bob
    m1 = m1
    m2 = m2
    m3 = m3
    Boxes = {inbox, work}
    Accounts = {alice, bob}
    Removable = {work}
    Mails = {m1, m2, m3}
    None = None
    Absent = Absent
    Worlds <- SomeWorlds
    MaxUid = 2
    MaxEvents = 3
    MaxActions = 3
    MaxFaults = 1
INVARIANTS
    TypeOK
    IndexIsOwn
    
    RecordedIsComplete
    ThreadsAreConversations
CHECK_DEADLOCK FALSE
