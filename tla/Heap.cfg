SPECIFICATION Spec
CONSTANTS
    PAGE_SIZE = 16
    MAX_PAGES = 8
    LOW = 16
    FLOOR = 80
    Boots <- MCBoots
    WORD = 128
    ALIGN = 2
    HEADER = 6
    SPLIT_MIN = 4
    GROW_PAGES = 1
    Sizes <- MCSizes
    Counts = {1}
INVARIANTS
    TypeOK
    OwnedApart
    NoByteLost
    AllFreedIsWhole
    PagesAccounted
    SinglePageFound
PROPERTIES
    CallsReturn
