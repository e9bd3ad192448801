\* Spawning after a war.
SPECIFICATION Spec
CONSTANTS
    Player = {alice, bob}
    Location = {europe, asia}
    Rank = {"infantry", "cavalry"}
    MaxUnits = 2
    MaxBatch = 1
    MaxSpawns = 4
    MaxMoves = 2
    MaxPauses = 0
    MaxLosses = 0
    MaxFailures = 0
PROPERTIES
    SpawnAddsAUnit
CHECK_DEADLOCK FALSE
