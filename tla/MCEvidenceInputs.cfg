\* Two attempts given any two of three paths in two directories, each of which is
\* there or not, with faults at every step and without any; one of them beside two
\* runs of one case each, one after the other or at a time, and one rebuild.
CONSTANTS
    Attempt = {a1, a2}
    Output = {p1, p2, p3}
    Manifest = {p1, p2, p3}
    Directory = {d1, d2}
    home <- Homes
    Nobody = Nobody
    NotRead = NotRead
    Runner = {r1, r2}
    r1 = r1
    a1 = a1
    p1 = p1
    p2 = p2
    p3 = p3
    d1 = d1
    d2 = d2
    MaxCases = 1
    MaxBuilds = 1
SPECIFICATION MCSpec
INVARIANTS
    BundleHasItsManifest
    SuccessIsDurable
    FailureLeavesNoStage
    ManifestVouches
    EvidenceWasInPlace
PROPERTIES
    PairSpec
    QuietAttemptSucceeds
