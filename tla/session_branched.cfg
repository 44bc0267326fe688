\* Does a branched session show the model the whole branch?
CONSTANTS
    MaxEntries = 5
    MaxFiles = 2
    MaxFaults = 0
SPECIFICATION Spec
CHECK_DEADLOCK FALSE
PROPERTY
    BranchedSessionShowsTheBranch
