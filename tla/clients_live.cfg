\* Liveness: two players, moves of several units, one failing publish, no connection lost.
SPECIFICATION LiveSpec
CONSTANTS
    Player = {alice, bob}
    Location = {europe, asia}
    Rank = {"infantry"}
    MaxUnits = 2
    MaxBatch = 2
    MaxSpawns = 2
    MaxMoves = 2
    MaxPauses = 0
    MaxLosses = 0
    MaxFailures = 1
PROPERTIES
    ClientsComeToRest
    EveryWarIsLogged
CHECK_DEADLOCK FALSE
