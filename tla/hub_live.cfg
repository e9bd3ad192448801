\* Liveness and refinement: one browser, the smallest buffer, two goroutines
\* that change the world.
SPECIFICATION LiveSpec
CONSTANTS
    Conn = {c1}
    Source = {moves, wars}
    SendBuffer = 1
    MaxChanges = 3
    MaxErrors = 0
PROPERTIES
    HandlersEnd
    ImplementsBroadcast
CHECK_DEADLOCK FALSE
