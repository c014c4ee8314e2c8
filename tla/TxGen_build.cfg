SPECIFICATION FairSpec
CONSTANTS
    a = a
    b = b
    c = c
    d = d
    Objects <- MCObjects
    Order <- MCOrder
    EdgeLists <- MCEdgeLists
    OrderPool = {{"AddStart", "After"}, {"AddStartNonreq", "After"}, {"After"}}
    MixedPool = {{"AddStart", "PropagatesRestartTo"}, {"AddStartNonreq", "PropagatesStopTo"}, {"AddVerify", "PropagatesReloadTo"}, {"AddStop"}}
    Goals <- MCGoals
    GoalTypes = {"start", "stop", "restart", "reload"}
INVARIANTS
    TypeOK
    ReqsConnectJobs
    NothingLeftOut
    SubmissionIsClosure
    AcyclicUnlessRemoved
    OneJobEach
    AimsMet
PROPERTIES
    RemovedOnlyFromCyclic
    GoalObjectsKept
    Terminates
