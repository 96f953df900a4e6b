\* Transactions with scopes, scripts and migrations.
SPECIFICATION Spec
CONSTANTS
    Slots = {1, 2}
    Modes = {"perScript", "perStatement", "none", "callers"}
    Refuses = {"tx", "perScript", "none", "savepoint", "rollbackTo"}
    MaxWork = 4
    MaxScript = 4
    Files = {1, 2}
    FileLen = 2
    Habits = {}
INVARIANTS KeptAsTold ScopesRight NoneLeft WholeFiles
PROPERTY NothingByTheWay
