\* One Reader is enough: it maps a file right below a buffer of the caller.
CONSTANTS
    Reader = {r1}
    MaxAddress = 3
    MaxBlock = 2
SPECIFICATION Spec
INVARIANT BorrowsSuppliedRange
