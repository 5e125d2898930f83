--------------------------- MODULE MCSlotScheduler ---------------------------
(***************************************************************************)
(* Instances of SlotScheduler for TLC.  Each set of templates names the    *)
(* kinds of requests of one run; every client picks one of them and posts  *)
(* once.                                                                   *)
(***************************************************************************)
EXTENDS SlotScheduler, TLC

T(type, id_slot, action_slot, kids) ==
    [type |-> type, id_slot |-> id_slot, action_slot |-> action_slot, kids |-> kids]

Plain     == <<T("completion", NoSlot, NoSlot, 0)>>
Pinned    == <<T("completion", 1, NoSlot, 0)>>
TwoPrompts == <<T("completion", NoSlot, NoSlot, 0), T("embedding", NoSlot, NoSlot, 0)>>
Embedding == <<T("embedding", NoSlot, NoSlot, 0)>>
WithChild == <<T("completion", NoSlot, NoSlot, 1)>>
SlotSave  == <<T("slot_action", NoSlot, 0, 0)>>
Metrics   == <<T("metrics", NoSlot, NoSlot, 0)>>

CompletionRequests == {Pinned, WithChild, TwoPrompts}
MixedRequests      == {WithChild, Embedding, SlotSave, Metrics}
PlainRequests      == {Plain, TwoPrompts}

ClientSymmetry == Permutations(Clients)
=============================================================================
