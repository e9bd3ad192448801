\* A client that joins a paused game.
SPECIFICATION Spec
CONSTANTS
    Player = {alice, bob}
    Location = {europe, asia}
    Rank = {"infantry"}
    MaxUnits = 2
    MaxBatch = 1
    MaxSpawns = 1
    MaxMoves = 1
    MaxPauses = 1
    MaxLosses = 0
    MaxFailures = 0
SYMMETRY Symmetry
INVARIANTS
    EveryoneIsPaused
CHECK_DEADLOCK FALSE
