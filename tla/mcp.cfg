\* One server name, its connections replaced by a reload; calls share attempts.
CONSTANTS
    MaxCalls = 2
    MaxReloads = 1
    MaxClients = 4
    Entries = {"command", "url"}
    HttpEntries = {"url"}
    Kinds = {"callTool", "readResource", "refresh"}
    IdleTimeout = TRUE
SPECIFICATION Spec
CHECK_DEADLOCK FALSE
INVARIANTS
    TypeOK
    ServersAreReachable
PROPERTIES
    CallsUseTheirConfig
    OnlyLostCallsAreRepeated
    CallsSettle
    IdleServersAreClosed
