\* Parallel edits and writes of an existing file and of an alias of it.
CONSTANTS
    target = target
    alias = alias
    MaxCalls = 3
    Paths <- MCPaths
    Canonical <- MCCanonical
    InitialFiles <- MCExisting
SPECIFICATION FairSpec
CHECK_DEADLOCK FALSE
INVARIANTS
    TypeOK
    OneMutationPerFile
    AsIfOneByOne
    NoQueueIsLeaked
PROPERTY
    CallsSettle
