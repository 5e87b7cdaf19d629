CONSTANTS
    Reader = {r1, r2, r3}
    MaxAddress = 4
    MaxBlock = 2
SYMMETRY Symmetry
SPECIFICATION Spec
INVARIANTS
    ViewsAreLive
    OneHolder
    ReadsBeforeReset
