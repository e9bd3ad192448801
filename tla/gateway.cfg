\* One player, the others unnamed. The last heartbeat that keeps it shown
\* arrives just in time.
SPECIFICATION Spec
CONSTANTS
    Player = {alice}
    Army = {old, new}
    Guess = Guess
    HeartbeatInterval = 2
    TTL = 3
    Delay = 1
    MaxQueue = 2
SYMMETRY Symmetry
INVARIANTS
    TypeOK
    PlayersAreShown
    GhostsAreDropped
    MapSettles
CHECK_DEADLOCK FALSE
