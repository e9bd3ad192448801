------------------------------ MODULE MCGameLog ------------------------------
(* A small instance of GameLog for TLC. Servers and gateway share nothing    *)
(* but the exchange, so they need not run at the same time; the gateway gets *)
(* the logs up to MaxLogs, the servers only the first ServerLogs of them.    *)
EXTENDS GameLog

CONSTANT ServerLogs

Apart ==
    \/ \A s \in Server : phase[s] = "out"
    \/ gateway = "out" /\ published <= ServerLogs

MCSpec == Init /\ [][Next /\ Apart']_vars /\ Fairness
=============================================================================
