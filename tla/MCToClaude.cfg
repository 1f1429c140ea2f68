CONSTANTS
    Kinds = {"antigravity"}
    ToolIndexes = {0}
    MaxBlocks = 4
SPECIFICATION ClaudeSpec
INVARIANT EventsInSequence
CHECK_DEADLOCK FALSE
