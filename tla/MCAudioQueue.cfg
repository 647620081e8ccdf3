SPECIFICATION FairSpec
CONSTANTS
    Session = {s1, s2}
    None = None
    Quiet = Quiet
    Core = {"fceumm", "dolphin", "flycast", "pcsx2"}
    Target = 3
    Longest = 6
    Cap = 8
    Batches = {0, 2}
    Unit = 2
    Ratios = {1, 2, 3}
    DeviceBuffer = 2
    Concealment = 2
INVARIANTS
    HeardFromThisSession
PROPERTIES
    TrimIsForEmergencies
    KeepsRunning
