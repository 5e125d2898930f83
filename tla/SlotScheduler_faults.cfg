\* all kinds of requests, all faults
SPECIFICATION Spec
CONSTANTS
    Clients = {c1, c2}
    NSlots = 2
    NoSlot = no_slot
    NoTask = no_task
    NoId = no_id
    Templates <- MixedRequests
    Faults = {"launch", "prompt", "shift", "decode", "leave"}
    MaxPartials = 0
SYMMETRY ClientSymmetry
INVARIANTS
    SingleOwner
    NoOrphanResult
    BusyKeepsRunning
    FinishedIsComplete
    LastResultOnce
PROPERTIES
    TaskLifecycleSpec
CHECK_DEADLOCK FALSE
