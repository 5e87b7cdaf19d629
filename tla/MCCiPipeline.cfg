CONSTANTS
    Paths <- RepositoryPaths
    MaxPaths = 2
    Platforms = {"linux"}
    Garbled = Garbled
    Slashed = {}
    Listings <- SmokeListings
    TargetManifests <- ConfiguredTargets
    TestManifest <- CommittedTests
SPECIFICATION Spec
INVARIANTS
    GatePassMeansVerified
    SameComparison
    GateFailsOnlyForCause
    BothTargetsRun
PROPERTY GateDecides
