SPECIFICATION Spec
CONSTANTS
    Pad = {1, 2, 3, 4, 5}
    Playable = {1, 2, 3, 4}
    MaxPlayers = 2
    Button = {"a", "b"}
    Key = {"k", "l"}
    Hold = {"return", "reset"}
    Press = {"save"}
    Rigs <- MCRigs
    Arrivals = 4
INVARIANTS
    TypeOK
    PolledWasHeld
    KeysAgree
    FirstComeFirstServed
PROPERTIES
    FiresOncePerPress
