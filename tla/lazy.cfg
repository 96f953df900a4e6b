SPECIFICATION Spec
CONSTANTS
    Blobs <- MCBlobs
    Callers = {c1, c2}
    Ops <- MCAll
    Habits = {}
    Faults = {"read"}
    Size = 3
    Heads = {1, 2}
    Span = 2
    MaxCalls = 2
    Handles = {1, 2}
    Ahead = 1
    MaxBytes = 4
    Capacity = 3
INVARIANTS  BudgetsExact HandlesExact
PROPERTY CallsSettle
CHECK_DEADLOCK FALSE
