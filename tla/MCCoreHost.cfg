SPECIFICATION Spec
CONSTANTS
    Core = {"mupen64plus_next", "mednafen_psx_hw", "flycast", "dolphin", "pcsx2", "pcarmsx2", "fbneo", "ppsspp"}
    NoCore = NoCore
    HwCore = {"mupen64plus_next", "dolphin", "flycast", "pcsx2", "pcarmsx2", "ppsspp"}
    MetalCore = {"pcarmsx2"}
    Registering = {"fbneo", "dolphin", "pcsx2"}
    MaxStrategies = 3
INVARIANTS
    CallbacksOfLoadedCore
    LoadedIsWhole
    NothingOutlivesCore
PROPERTIES
    LibretroApiSpec
