CONSTANTS
    Paths <- RepositoryPaths
    MaxPaths = 2
SPECIFICATION ClassifySpec
INVARIANTS
    PlanCoversPatch
PROPERTIES
    OnlyReadersRun
