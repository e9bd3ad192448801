------------------------------ MODULE WarReport ------------------------------
(* What becomes of the report of one war, whoever fights it and whatever     *)
(* fails: the attacker's copy of the recognition waits, is fought and either *)
(* is reported, goes back to wait, or is lost with a queue or a process.     *)
(* Once it is over it stays so. GameClients implements this for every war.   *)
EXTENDS Integers

VARIABLES
    stage,                  \* "none", "pending", "fought" or "over"
    reports                 \* game logs of the war published

vars == <<stage, reports>>

Init == stage = "none" /\ reports = 0

(* The attacker may have no queue to receive its copy.                       *)
Declare == stage = "none" /\ stage' \in {"pending", "over"} /\ UNCHANGED reports

Fight == stage = "pending" /\ stage' = "fought" /\ UNCHANGED reports

Report == stage = "fought" /\ stage' = "over" /\ reports' = reports + 1

Retry == stage = "fought" /\ stage' = "pending" /\ UNCHANGED reports

Lose == stage \in {"pending", "fought"} /\ stage' = "over" /\ UNCHANGED reports

Next == Declare \/ Fight \/ Report \/ Retry \/ Lose

Spec == Init /\ [][Next]_vars
=============================================================================
