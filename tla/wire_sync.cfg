\* The reader stays in step with the server, whatever fails, until an answer slips.
CONSTANTS
    Tasks = {t1, t2}
    Ids = {1, 2, 3}
    NoId = 0
    MaxDeferred = 2
    MaxUnread = 2
    Packets <- AllPackets
    MayFail <- Ops
    Events = {"die", "clearIdle"}
SPECIFICATION FairSpec
INVARIANT InSync
PROPERTIES ImplementsExchange Finishes
