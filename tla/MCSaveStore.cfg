SPECIFICATION Spec
CONSTANTS
    Rom = {r1, r2}
    SlotNo = {0}
    empty = empty
    small = small
    large = large
    Image <- Images
    NoImage = NoImage
    Size <- Sizes
    SlotMax = 2
    ProfileMax = 3
SYMMETRY RomSwaps
INVARIANTS
    SlotIntact
    CommittedSurvives
    QuotaHeld
    RowsOfListedRoms
PROPERTY
    SlotStoreSpec
