SPECIFICATION FairSpec
CONSTANTS
    Rigs <- MCRigs
    FallbackFrames = 3
INVARIANTS
    IndexInMask
    ImageIsFree
    ImageInHand
PROPERTIES
    KeepsShowing
