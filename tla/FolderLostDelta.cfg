SPECIFICATION Spec
CONSTANTS
    inbox = inbox
    archive = archive
    Folders <- OneFolder
    Nowhere = Nowhere
    Servers <- OnlyCondstore
    Window = 2
    Initial = 2
    Events <- Delivery
    MaxUid = 3
    MaxEvents = 1
    MaxFaults <- OneFailure
PROPERTIES
    QuietSyncIsExact
