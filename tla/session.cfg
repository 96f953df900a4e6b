\* Streams, runs and prepared statements that leave each other's statements alone.
CONSTANTS
    Callers = {c1, c2}
    Selects = {"select *", "select a, b"}
    Dmls = {"update"}
    Ddls = {"alter"}
    Rewritten <- StarOfOne
    Pins = {p1}
    Handles = {1, 2, 3}
    NoHandle = 0
    Capacity = 2
    MaxSchema = 1
    Events = {"prepareFail", "expandFail", "commitFail", "executeFail", "stale", "endTx", "clear"}
SPECIFICATION Spec
SYMMETRY Symmetry
INVARIANTS HandlesExact CacheReady 
CHECK_DEADLOCK FALSE
