\* The pure functions over all inputs made of a few pieces.
CONSTANTS
    Pieces <- MCPieces
    Most <- MCMost
    Zones <- MCZones
SPECIFICATION Spec
INVARIANTS LexersRight ScriptsRight RewritesRight MessagesRead ValuesReturn
CHECK_DEADLOCK FALSE
