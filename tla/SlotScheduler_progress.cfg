\* fair scheduling, no faults, streaming: competition for the slots
SPECIFICATION FairSpec
CONSTANTS
    Clients = {c1, c2}
    NSlots = 2
    NoSlot = no_slot
    NoTask = no_task
    NoId = no_id
    Templates <- CompletionRequests
    Faults = {}
    MaxPartials = 1
INVARIANTS
    DeferredHasBusySlot
    NeverAborts
PROPERTIES
    RequestCompletes
CHECK_DEADLOCK FALSE
