SPECIFICATION FairSpec
CONSTANTS
    a = a
    b = b
    c = c
    Objects <- MCObjects
    Order <- MCOrder
    Answers = {"within"}
    Results = {"success"}
    OrderGraphs <- SomeGraphs
    TxSpecs <- StartsAndOneOther
    MaxTx = 2
    MaxTimers = 4
PROPERTY
    EveryTxSettles
