\* violation: SleepWaitEnds
SPECIFICATION FairSpec
CONSTANTS
    Workers = {w1, w2}
    Main = main
    NextResponse = next_response
    SleepEnabled = TRUE
PROPERTIES
    SleepWaitEnds
CHECK_DEADLOCK FALSE
