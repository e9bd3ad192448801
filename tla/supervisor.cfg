\* Two queues, two runs of the process, three losses, a refusal.
SPECIFICATION LiveSpec
CONSTANTS
    Queues = 2
    MaxStarts = 2
    MaxLosses = 3
    MaxFailures = 1
INVARIANTS
    TypeOK
    OneConsumerPerQueue
    NothingLeftBehind
PROPERTIES
    ImplementsSession
    ShutdownEnds
    LossIsRepaired
CHECK_DEADLOCK FALSE
