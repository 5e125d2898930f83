\* the memory calls and llama_decode on three cells, sliding window of two positions
SPECIFICATION Spec
CONSTANTS
    s0 = s0
    s1 = s1
    Size = 3
    Seqs = {s0, s1}
    MaxPos = 3
    SwaType = "standard"
    NSwa = 2
    Batches <- SmallBatches
    Ranges <- FewRanges
    Shifts <- OneBack
    MaxShift = 1
    Divisors = {2}
INVARIANTS TypeOK IndexOK NoLeakedCell SlotStillFits 
PROPERTIES FailedPrepareOnlyForgets BatchKeepsDense
SYMMETRY AnySeq
