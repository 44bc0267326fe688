\* More failing replies in a row than recovery has answers for.
CONSTANTS
    p1 = p1
    NoOne = NoOne
    Prompters = {p1}
    MaxUserMessages = 2
    MaxBashMessages = 0
    MaxReplies = 4
    MaxRetries = 1
    MaxCompacts = 0
    Failures = {"error", "overflow"}
    QueueModes = {"one-at-a-time"}
SPECIFICATION FairSpec
CHECK_DEADLOCK FALSE
INVARIANT
    RecoveryIsBounded
PROPERTY
    PromptReturns
VIEW
    RecoveryView
