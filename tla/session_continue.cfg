\* Does a recovered context overflow always leave continue() something to answer?
CONSTANTS
    p1 = p1
    NoOne = NoOne
    Prompters = {p1}
    MaxUserMessages = 1
    MaxBashMessages = 0
    MaxReplies = 2
    MaxRetries = 1
    MaxCompacts = 0
    Failures = {"error", "overflow", "silent"}
    QueueModes = {"one-at-a-time"}
SPECIFICATION Spec
CHECK_DEADLOCK FALSE
INVARIANT
    ContinueNeverThrows
