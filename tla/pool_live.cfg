\* Nothing fails: the queue alone serves every waiter, and a closed pool
\* drains, even if callers release twice.
CONSTANTS
    Conns = {c1, c2, c3}
    Borrowers = {b1, b2, b3}
    NoConn = NoConn
    min = 1
    max = 2
    Validate = TRUE
    Sweeping = TRUE
    Events = {"close", "doubleRelease"}
SPECIFICATION FairSpec
PROPERTIES WaiterServed ClosedDrains
