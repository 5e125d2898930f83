\* two models compete for one place; crashes, hangs, an unload or a reload, and the shutdown
SPECIFICATION FairSpec
CONSTANTS
    m1 = m1
    m2 = m2
    c1 = c1
    c2 = c2
    Models = {m1, m2}
    Callers = {c1,c2}
    Work <- PairWork
    MaxModels = 1
    Startup = {m1}
INVARIANTS AtMostMaxModels UnloadedIsFinished ProcessIsListed ReloadIsQuiet NeverAborts
PROPERTIES UnloadCompletes EndIsNoticed LoadingWaitEnds ShutdownReaps ReloadEnds
CHECK_DEADLOCK FALSE
