\* The server and one player, who plays on between orders and loses its connection.
SPECIFICATION Spec
CONSTANTS
    Player = {alice}
    Location = {europe}
    Rank = {"infantry"}
    MaxUnits = 1
    MaxBatch = 1
    MaxSpawns = 1
    MaxMoves = 2
    MaxPauses = 3
    MaxLosses = 2
    MaxFailures = 1
INVARIANTS
    AtMostOneMoveSlips
    PauseReaches
CHECK_DEADLOCK FALSE
