\* One process, two losses, nothing else fails.
SPECIFICATION LiveSpec
CONSTANTS
    Queues = 2
    MaxStarts = 1
    MaxLosses = 2
    MaxFailures = 0
PROPERTY EveryQueueIsConsumed
CHECK_DEADLOCK FALSE
