SPECIFICATION Spec
CONSTANTS
    a = a
    b = b
    c = c
    Objects <- MCObjects
    Order <- MCOrder
    Answers = {"later"}
    Results = {"success"}
    OrderGraphs <- SomeGraphs
    TxSpecs <- StartVerify
    MaxTx = 1
    MaxTimers = 6
INVARIANTS
    StartedOnce
