\* Two players whose connections break, processes end and publishes fail.
SPECIFICATION Spec
CONSTANTS
    Player = {alice, bob}
    Location = {europe, asia}
    Rank = {"infantry"}
    MaxUnits = 2
    MaxBatch = 1
    MaxSpawns = 2
    MaxMoves = 2
    MaxPauses = 0
    MaxLosses = 1
    MaxFailures = 1
SYMMETRY Symmetry
INVARIANTS
    NoStandoff
    OneLogPerWar
PROPERTIES
    EachWarIsReportedByRule
CHECK_DEADLOCK FALSE
