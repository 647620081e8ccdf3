SPECIFICATION FairSpec
CONSTANTS
    Rom = {r1, r2}
    NoRom = NoRom
    EventBacklog = 3
    MaxCatchUp = 2
    ForceFallback = FALSE
    WorkerDisabled = FALSE
    KeyboardCallback = TRUE
INVARIANTS
    CoreCallsSerial
    WorkerOnlyInSession
    PlayingWasPresented
    NoStaleFrame
    SavesOwnState
    NoOrphanRequest
PROPERTIES
    RequestInItsSession
    CoreSessionSpec
    RequestReturns
    StopFinishes
    FailureEndsSession
    LaunchResolves
