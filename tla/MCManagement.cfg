SPECIFICATION Spec
CONSTANTS
    Choice = {"old", "new"}
    Standard = "old"
    Versions = 2
    Game = {"a", "b"}
    Scopes <- MCScopes
    Rows = 3
    Rigs <- MCRigs
INVARIANTS
    SettingsKept
    ProfileOfItsFile
    RemovesWhatWasAsked
PROPERTIES
    CoversKept
    JobEnds
