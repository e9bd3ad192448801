------------------------------- MODULE Delivery -------------------------------
(* At-least-once delivery, as one message of a durable queue sees it: it is  *)
(* missed if it comes before the queue exists and else kept until it has     *)
(* been written; then it is gone for good. What the broker no longer has may *)
(* still be written by a handler it has given up. GameLog implements this    *)
(* for every log.                                                            *)
EXTENDS Integers

VARIABLES
    place,                  \* "none", "missed", "kept" or "gone"
    written                 \* how often it has been written

vars == <<place, written>>

Init == place = "none" /\ written = 0

Publish == place = "none" /\ place' \in {"missed", "kept"} /\ UNCHANGED written

Write == place \in {"kept", "gone"} /\ written' = written + 1 /\ UNCHANGED place

Settle == place = "kept" /\ written > 0 /\ place' = "gone" /\ UNCHANGED written

Next == Publish \/ Write \/ Settle

Spec == Init /\ [][Next]_vars
=============================================================================
