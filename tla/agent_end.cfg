\* The shortest runs: one prompt, one reply, listeners that may reject.
CONSTANTS
    MaxUserMessages = 1
    MaxTurns = 1
    MaxToolCalls = 0
    QueueModes = {"all"}
    ListenersMayThrow = TRUE
SPECIFICATION FairSpec
CHECK_DEADLOCK FALSE
PROPERTY
    AgentEndIsFinal
