SPECIFICATION Spec
CONSTANTS
    Interval = 20
    Policies = {"wall", "n64", "n64smooth", "arcade", "dreamcast", "worker"}
    Gap = {6, 31}
    Work = {0, 9, 45}
    MaxClock = 150
INVARIANTS
    NoOverspeed
    TimeCountedOnce
