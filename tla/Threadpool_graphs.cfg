SPECIFICATION FairSpec
CONSTANTS
    N = 3
    Graphs <- SomeGraphs
    BaseChunks = 8
    MaxGraphs = 2
INVARIANTS QuietReset InputsReady PieceOnce
PROPERTIES ComputeReturns FreeReturns ComputesGraphs
