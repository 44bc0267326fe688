\* Two prompts at once: are both of the accepted messages kept?
CONSTANTS
    p1 = p1
    p2 = p2
    NoOne = NoOne
    Prompters = {p1, p2}
    MaxUserMessages = 2
    MaxBashMessages = 0
    MaxReplies = 0
    MaxRetries = 0
    MaxCompacts = 0
    Failures = {}
    QueueModes = {"all"}
SPECIFICATION Spec
CHECK_DEADLOCK FALSE
INVARIANT
    AcceptedMessagesAreKept
