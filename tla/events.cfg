SPECIFICATION Spec
CONSTANTS
    Listeners <- MCListeners
    Channels <- MCChannels
    MaxPosts = 3
    Faults = {"refuse", "die"}
    Habits = {}
INVARIANT ServerExact
PROPERTIES Told CallsSettle
CHECK_DEADLOCK FALSE
