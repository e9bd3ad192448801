\* Two servers share the queue and the first two of four logs; the gateway's
\* log is full after two.
SPECIFICATION MCSpec
CONSTANTS
    Server = {s1, s2}
    Prefetch = 2
    LogLimit = 2
    ServerLogs = 2
    MaxLogs = 4
    MaxFaults = 2
INVARIANTS
    TypeOK
    NoLogIsLost
    OnlyFaultsRepeatLines
    WebLogIsNewest
PROPERTIES
    EveryLogIsWritten
    EachLogIsDelivered
CHECK_DEADLOCK FALSE
