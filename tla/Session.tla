------------------------------- MODULE Session -------------------------------
(* What a player's process looks like from outside: whether it runs, whether *)
(* it has a broker connection, and which of its queues it consumes. The      *)
(* process and goroutines of Supervisor implement it. The session actions of *)
(* GameClients have the same names and take these steps, together with what  *)
(* they do to the game.                                                      *)
CONSTANT Kinds              \* the queues of a client

VARIABLES
    phase,                  \* "out", "up" or "down": no broker connection
    subs                    \* the queues consumed over the connection

vars == <<phase, subs>>

Init == phase = "out" /\ subs = {}

(* A client is seen when it consumes every queue, not before.                *)
Join == phase = "out" /\ phase' = "up" /\ subs' = Kinds

Exit == phase # "out" /\ phase' = "out" /\ subs' = {}

Disconnect == phase = "up" /\ phase' = "down" /\ subs' = {}

Redial == phase = "down" /\ phase' = "up" /\ subs' = {}

Resubscribe(kind) ==
    /\ phase = "up"
    /\ kind \notin subs
    /\ subs' = subs \cup {kind}
    /\ UNCHANGED phase

Next == Join \/ Exit \/ Disconnect \/ Redial \/ \E kind \in Kinds : Resubscribe(kind)

Spec == Init /\ [][Next]_vars
=============================================================================
