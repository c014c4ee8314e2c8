SPECIFICATION FairSpec
CONSTANTS
    Fds = {f}
    MaxTimers = 2
    MaxFDs = 2
    MaxHandles = 3
    MaxJobs = 2
INVARIANTS
    TypeOK
    NoStaleEvent
    TimersPaired
    HandlesValid
    DrainedBeforePoll
PROPERTIES
    TimersOffered
