SPECIFICATION Spec
CONSTANTS
    a = a
    b = b
    c = c
    Objects <- MCObjects
    Order <- MCOrder
    Answers = {"later"}
    Results = {"success"}
    OrderGraphs <- AllDags
    TxSpecs <- StartVerify
    MaxTx = 1
    MaxTimers = 3
INVARIANTS
    NoCrash
