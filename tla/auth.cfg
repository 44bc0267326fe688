\* Two processes share auth.json; one may die anywhere.
CONSTANTS
    Processes = {"p", "q"}
    MaxTokens = 3
    MaxKeys = 1
    MaxChanges = 1
    MaxCrashes = 1
SPECIFICATION Spec
CHECK_DEADLOCK FALSE
INVARIANTS
    TypeOK
    OneAtATime
    SavedCredentialsAreKept
    StoredTokenIsUsable
PROPERTY
    GetApiKeySettles
