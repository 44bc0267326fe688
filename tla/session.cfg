\* One caller of prompt() at a time, a compaction by hand, replies that fail.
CONSTANTS
    p1 = p1
    NoOne = NoOne
    Prompters = {p1}
    MaxUserMessages = 2
    MaxBashMessages = 1
    MaxReplies = 1
    MaxRetries = 1
    MaxCompacts = 1
    Failures = {"error", "overflow", "silent"}
    QueueModes = {"one-at-a-time"}
SPECIFICATION Spec
CHECK_DEADLOCK FALSE
INVARIANTS
    TypeOK
    ReloadShowsTheTranscript
    BashNeverSplitsACall
    ShownQueuesAreTheQueues
    AcceptedMessagesAreKept
