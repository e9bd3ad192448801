\* Two browsers, a buffer of two, a snapshot that cannot be encoded.
SPECIFICATION Spec
CONSTANTS
    Conn = {c1, c2}
    Source = {moves}
    SendBuffer = 2
    MaxChanges = 2
    MaxErrors = 1
SYMMETRY Symmetry
INVARIANTS
    TypeOK
    NeverPanics
    HubNeverBlocks
    NoPageIsForgotten
CHECK_DEADLOCK FALSE
