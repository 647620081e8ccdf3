SPECIFICATION FairSpec
CONSTANTS
    Session = {s1}
    None = None
    Quiet = Quiet
    Core = {"dolphin"}
    Target = 3
    Longest = 6
    Cap = 8
    Batches = {0, 2}
    Unit = 2
    Ratios = {2}
    DeviceBuffer = 2
    Concealment = 0
PROPERTIES ContinuesWithoutSound

