SPECIFICATION Spec
CONSTANTS
    Clients = {c1, c2}
    NSlots = 1
    NoSlot = no_slot
    NoTask = no_task
    NoId = no_id
    Templates <- PlainRequests
    Faults = {"leave"}
    MaxPartials = 0
SYMMETRY ClientSymmetry
INVARIANTS
    CancelledIsGone
CHECK_DEADLOCK FALSE
