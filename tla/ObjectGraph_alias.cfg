SPECIFICATION Spec
CONSTANTS
    a = a
    b = b
    c = c
    Names <- MCNames
    NameOrder <- MCNameOrder
    FileSystems <- MCFileSystems
    Scripts <- MCScripts
    DefaultName = a
    Sayings = {{"After"}, {"Before", "Requires"}, {"Wants", "After"}}
    Linking = TRUE
INVARIANT
    OneObjectPerUnit
