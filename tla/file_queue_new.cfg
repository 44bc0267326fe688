\* Does the queue serialize the calls that create one file?
CONSTANTS
    target = target
    alias = alias
    MaxCalls = 2
    Paths <- MCPaths
    Canonical <- MCCanonical
    InitialFiles <- MCNone
SPECIFICATION Spec
CHECK_DEADLOCK FALSE
INVARIANT
    OneMutationPerPath
