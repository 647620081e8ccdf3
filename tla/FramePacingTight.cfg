SPECIFICATION Spec
CONSTANTS
    Interval = 20
    Policies = {"tight", "tightExternal"}
    Gap = {12, 16}
    Work = {0}
    MaxClock = 500
INVARIANTS
    FollowsFrameClock
