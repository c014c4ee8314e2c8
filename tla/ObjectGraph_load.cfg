SPECIFICATION FairSpec
CONSTANTS
    a = a
    b = b
    c = c
    Names <- MCNames
    NameOrder <- MCNameOrder
    FileSystems <- MCFileSystems
    Scripts <- MCScripts
    DefaultName = a
    Sayings = {{"After"}, {"Before", "Wants"}, {"Requires", "Before", "After"}}
    Linking = TRUE
INVARIANTS
    TypeOK
    MirroredUnlessSplit
    PlaceholdersQueued
    OwnDirectivesKept
    BeforeReaches
PROPERTIES
    LoadingEnds
