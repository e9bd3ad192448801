\* Three players at war, every interleaving of REPLs and consumers, no failures.
SPECIFICATION Spec
CONSTANTS
    Player = {alice, bob, carol}
    Location = {europe, asia}
    Rank = {"infantry"}
    MaxUnits = 2
    MaxBatch = 1
    MaxSpawns = 3
    MaxMoves = 2
    MaxPauses = 0
    MaxLosses = 0
    MaxFailures = 0
SYMMETRY Symmetry
INVARIANTS
    TypeOK
    MeetingsAreNoticed
    WarsClearTheField
    SpawnsAreFresh
    DeadLettersAreAccounted
CHECK_DEADLOCK FALSE
