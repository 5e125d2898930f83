SPECIFICATION Spec
CONSTANTS
    Clients = {c1, c2}
    NSlots = 2
    NoSlot = no_slot
    NoTask = no_task
    NoId = no_id
    Templates <- CompletionRequests
    Faults = {"prompt"}
    MaxPartials = 0
SYMMETRY ClientSymmetry
INVARIANTS
    NeverAborts
CHECK_DEADLOCK FALSE
