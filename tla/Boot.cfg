SPECIFICATION FairSpec
CONSTANTS
    a = a
    b = b
    c = c
    Names <- MCNames
    NameOrder <- MCNameOrder
    FileSystems <- MCFileSystems
    Scripts <- MCScripts
    DefaultName = a
    Sayings = {{"Requires", "After"}, {"Wants", "Before"}, {"Conflicts"}}
    MoreOfDefault = {{"Requisite"}}
    JobsOrder <- MCJobsOrder
    MaxTimers = 2
INVARIANTS
    GraphFitsScheduler
    OrderHonoured
    JobsAreLoaded
    RequiredUp
    RejectedForCause
    CarriedOutAtExit
    OperationsNamed
PROPERTIES
    BootEnds
