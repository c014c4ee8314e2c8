SPECIFICATION FairSpec
CONSTANTS
    a = a
    b = b
    c = c
    Objects <- MCObjects
    Order <- MCOrder
    Answers = {"later"}
    Results = {"success", "failure"}
    OrderGraphs <- SomeGraphs
    TxSpecs <- StartsAndOneOther
    MaxTx = 2
    MaxTimers = 12
INVARIANTS
    TypeOK
    NoLostWakeup
    RunningIsTimed
    TimersAreOfRunningJobs
PROPERTIES
    RunningEnds
    ImplementsJobOrder
