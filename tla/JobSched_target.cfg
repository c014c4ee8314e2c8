SPECIFICATION FairSpec
CONSTANTS
    a = a
    b = b
    c = c
    Objects <- MCObjects
    Order <- MCOrder
    Answers = {"within"}
    Results = {"success"}
    OrderGraphs <- AllDagsWithRepeats
    TxSpecs <- StartStopRestart
    MaxTx = 2
    MaxTimers = 4
INVARIANTS
    CarriedOutOnReturn
    StartedOnce
    SchedInv
PROPERTIES
    CarriesOutJobOrder
