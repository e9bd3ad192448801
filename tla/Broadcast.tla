------------------------------ MODULE Broadcast ------------------------------
(* What the gateway promises a browser: the page shows the world as it is,   *)
(* never older than when it connected and never going back, and it catches   *)
(* up with the latest change unless its connection ends. The world is its    *)
(* number of changes. Hub implements this.                                   *)
EXTENDS Integers

CONSTANT Conn               \* websocket connections, each used once

Nothing == -1               \* a page that has not received a snapshot

VARIABLES
    version,                \* changes of the world so far
    status,                 \* "away", "watching" or "gone"
    since,                  \* version when the connection was made
    seen                    \* version of the last snapshot received

vars == <<version, status, since, seen>>

Init ==
    /\ version = 0
    /\ status = [c \in Conn |-> "away"]
    /\ since = [c \in Conn |-> 0]
    /\ seen = [c \in Conn |-> Nothing]

Change == version' = version + 1 /\ UNCHANGED <<status, since, seen>>

Arrive(c) ==
    /\ status[c] = "away"
    /\ status' = [status EXCEPT ![c] = "watching"]
    /\ since' = [since EXCEPT ![c] = version]
    /\ UNCHANGED <<version, seen>>

Show(c, v) ==
    /\ status[c] = "watching"
    /\ v \in since[c]..version
    /\ seen[c] <= v
    /\ seen' = [seen EXCEPT ![c] = v]
    /\ UNCHANGED <<version, status, since>>

Leave(c) ==
    /\ status[c] = "watching"
    /\ status' = [status EXCEPT ![c] = "gone"]
    /\ UNCHANGED <<version, since, seen>>

Next ==
    \/ Change
    \/ \E c \in Conn : \/ Arrive(c) \/ Leave(c)
                       \/ \E v \in since[c]..version : Show(c, v)

(* A page that lags behind catches up, or its connection ends.               *)
Settle(c) == seen[c] # version /\ (Show(c, version) \/ Leave(c))

Safety == Init /\ [][Next]_vars

Spec == Safety /\ \A c \in Conn : WF_vars(Settle(c))
=============================================================================
