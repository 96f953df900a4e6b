\* Pipelined blobs and batches, with errors anywhere in them.
CONSTANTS
    Kinds = {"one", "many", "write", "batch"}
    Faults = {"open", "seg", "close", "create", "put", "source", "exec"}
    MaxOps = 2
    MaxBlobs = 3
    MaxSegs = 3
    MaxRows = 3
    RowsPerCycle = 2
    Depth = 2
    OpenAhead = 2
    RampStart = 1
    FlushAt = 2
SPECIFICATION Spec
INVARIANTS LineExact ResultsRight Releases
PROPERTY Settles
CHECK_DEADLOCK FALSE
