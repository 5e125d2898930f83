\* idle sleeping enabled, three workers: the loop, its sleep and its end
SPECIFICATION FairSpec
CONSTANTS
    Workers = {w1, w2, w3}
    Main = main
    NextResponse = next_response
    SleepEnabled = TRUE
INVARIANTS
    NoSleepWhileBusy
    LoadedWhenWorking
    RequestInOnePlace
PROPERTIES
    TerminateEndsLoop
    AwakeAnswers
CHECK_DEADLOCK FALSE
