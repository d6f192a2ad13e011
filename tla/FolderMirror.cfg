SPECIFICATION Spec
CONSTANTS
    inbox = inbox
    archive = archive
    Folders <- OneFolder
    Nowhere = Nowhere
    Servers <- AllServers
    Window = 2
    Initial = 2
    Events <- AllEvents
    MaxUid = 3
    MaxEvents = 4
    MaxFaults <- FailuresWithoutCondstore
INVARIANTS
    TypeOK
    MirrorsModseq
    OneLife
PROPERTIES
    QuietSyncIsExact
    
