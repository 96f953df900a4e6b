\* Everything that can happen to a pool, used as documented.
CONSTANTS
    Conns = {c1, c2, c3, c4, c5}
    Borrowers = {b1, b2, b3}
    NoConn = NoConn
    min = 2
    max = 3
    Validate = TRUE
    Sweeping = TRUE
    Events <- AllButDoubleRelease
SPECIFICATION Spec
SYMMETRY Symmetry
INVARIANTS AccountsExact WithinMax ExclusiveLoan NoOrphan
