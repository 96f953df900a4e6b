\* Finding: clearing a borrowed connection's cache can hang it.
CONSTANTS
    Tasks = {t1}
    Ids = {1, 2, 3}
    NoId = 0
    MaxDeferred = 1
    MaxUnread = 2
    Packets <- AllPackets
    MayFail = {}
    Events = {"clear"}
SPECIFICATION FairSpec
CHECK_DEADLOCK FALSE
PROPERTIES Settles
