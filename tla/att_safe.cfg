\* Everything the code copes with; a disconnected attachment may stop for good.
CONSTANTS
    Txs = {t1, t2}
    NoTx = NoTx
    Handles = {1, 2}
    NoHandle = 0
    MaxGeneration = 2
    MaxQueue = 3
    Events <- Tolerated
SPECIFICATION FairSpec
INVARIANTS OwnTransaction ServerAgrees
PROPERTIES Settles
CHECK_DEADLOCK FALSE
