SPECIFICATION Spec
CONSTANTS
    Core = {"pcsx2"}
    NoCore = NoCore
    HwCore = {"pcsx2"}
    MetalCore = {}
    Registering = {"pcsx2"}
    MaxStrategies = 3
INVARIANTS
    RetriesPivot
