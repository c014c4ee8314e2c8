SPECIFICATION FairSpec
CONSTANTS
    a = a
    b = b
    c = c
    Objects <- MCObjects
    Order <- MCOrder
    Answers = {"later"}
    Results = {"success", "failure"}
    OrderGraphs <- SomeGraphs
    TxSpecs <- StartVerify
    MaxTx = 1
    MaxTimers = 6
PROPERTIES
    FailureUncovers
