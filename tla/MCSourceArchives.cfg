CONSTANTS
    Packagers = {p1, p2}
    Nonces = {n1, n2}
    Trees <- SourceTrees
    InitialPairs <- LeftPairs
    MaxEdits = 1
    Contract <- ContractFiles
    MaxRuns = 2
SPECIFICATION FromAnyTree
INVARIANTS
    PairOfOneRun
    NoStageLeft
    AcceptedIsWhole
    FreshPairIsAccepted
SYMMETRY AnyOrder
CHECK_DEADLOCK FALSE
