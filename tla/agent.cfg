\* Agent with listeners that may reject at any event: the transcript, the
\* queues, the tool batches and the end of every run under every interleaving
\* of the owner's calls.
CONSTANTS
    MaxUserMessages = 2
    MaxTurns = 2
    MaxToolCalls = 2
    QueueModes = {"all", "one-at-a-time"}
    ListenersMayThrow = TRUE
SPECIFICATION FairSpec
CHECK_DEADLOCK FALSE
INVARIANTS
    TypeOK
    RequestSeesTranscript
    ResultsFollowTheirReply
    NoCallIsSkipped
    EveryMessageIsInOnePlace
    
PROPERTIES
    InjectedMessagesAreAnswered
    DeliversMessages
    RunSettles
