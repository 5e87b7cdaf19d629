CONSTANTS
    Mmap = {m1, m2}
    Descriptor = {d1, d2, d3}
    Invalid = Invalid
    PageSize = 2
    Pages = 4
    MaxFile = 3
SPECIFICATION Spec
SYMMETRY Symmetry
INVARIANTS
    TypeOK
    RegionsAccounted
    DescriptorsAccounted
PROPERTY
    CallerKeepsItsDescriptors
