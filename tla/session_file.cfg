\* A session file under restarts, interrupted writes, branches and labels.
CONSTANTS
    MaxEntries = 3
    MaxFiles = 2
    MaxFaults = 1
SPECIFICATION Spec
CHECK_DEADLOCK FALSE
INVARIANTS
    TypeOK
    ReloadIsTheSession
    RepliesAreInASession
    TornLinesLoseOneEntry
    ParentsComeFirst
PROPERTIES
    FilesOnlyGrow
    UnlabelledBranchIsKept
