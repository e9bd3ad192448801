------------------------------- MODULE GameLog -------------------------------
(* The way of a game log: published by a client for a war it fought, or by   *)
(* "spam"; copied by the topic exchange into the durable queue game_logs,    *)
(* which any number of servers share (multiserver.sh), and into the          *)
(* gateway's own transient queue; appended to game.log by one of the servers *)
(* and shown on the web by the gateway.                                      *)
(*                                                                           *)
(* Logs are numbered in the order the exchange gets them.                    *)
EXTENDS Integers, Sequences, SequencesExt

CONSTANTS
    Server,                  \* server processes, all in one directory
    Prefetch, LogLimit,      \* configuration
    MaxLogs,                 \* bounds: logs published,
    MaxFaults                \* connections lost and processes ended

ASSUME GameLogAssumption ==
    /\ LogLimit \in Nat \ {0}
    /\ {Prefetch, MaxLogs, MaxFaults} \subseteq Nat

Log == 1..MaxLogs

VARIABLES
    published,               \* logs published so far
    bound,                   \* game_logs has been declared, for good
    ready,                   \* its messages that no server has been sent
    phase,                   \* of each server: "out", "up", "down"
    buffer,                  \* deliveries the server has not looked at
    writer,                  \* its handlers: normally one
    lines,                   \* how often each log is in game.log
    gateway,                 \* "out", "up" or "down"
    webq,                    \* gateway_logs
    shower,                  \* its handlers: normally one
    webLog,                  \* World.log
    faults,                  \* how much of MaxFaults is spent
    \* history:
    accepted,                \* logs published when the queue existed
    lapsed,                  \* handlers of a log whose delivery was lost
    heard,                   \* logs this gateway process has handled
    late                     \* those handled after a reconnect by the old consumer

file    == <<phase, buffer, writer, lines>>
web     == <<gateway, webq, shower, webLog, heard, late>>
vars    == <<published, bound, ready, file, web, faults, accepted, lapsed>>

(* live: the goroutine belongs to the latest connection.                     *)
Writers == [log : Log, pc : {"write", "ack"}, live : BOOLEAN]
Showers == [log : Log, live : BOOLEAN]

TypeOK ==
    /\ published \in 0..MaxLogs
    /\ bound \in BOOLEAN
    /\ ready \subseteq Log
    /\ phase \in [Server -> {"out", "up", "down"}]
    /\ buffer \in [Server -> Seq(Log)]
    /\ writer \in [Server -> SUBSET Writers]
    /\ lines \in [Log -> Nat]
    /\ gateway \in {"out", "up", "down"}
    /\ webq \in Seq(Log)
    /\ shower \subseteq Showers
    /\ webLog \in Seq(Log) /\ Len(webLog) <= LogLimit
    /\ faults \in 0..MaxFaults
    /\ accepted \subseteq Log
    /\ lapsed \in [Log -> Nat]
    /\ heard \subseteq Log
    /\ late \subseteq Log

Init ==
    /\ published = 0
    /\ bound = FALSE
    /\ ready = {}
    /\ phase = [s \in Server |-> "out"]
    /\ buffer = [s \in Server |-> <<>>]
    /\ writer = [s \in Server |-> {}]
    /\ lines = [n \in Log |-> 0]
    /\ gateway = "out"
    /\ webq = <<>>
    /\ shower = {}
    /\ webLog = <<>>
    /\ faults = 0
    /\ accepted = {}
    /\ lapsed = [n \in Log |-> 0]
    /\ heard = {}
    /\ late = {}

Fault == faults < MaxFaults /\ faults' = faults + 1

(* publishGameLog. Without a queue the exchange drops its copy: the publish  *)
(* is neither mandatory nor confirmed.                                       *)
Publish ==
    /\ published < MaxLogs
    /\ published' = published + 1
    /\ ready' = IF bound THEN ready \cup {published'} ELSE ready
    /\ accepted' = IF bound THEN accepted \cup {published'} ELSE accepted
    /\ webq' = IF gateway = "up" THEN Append(webq, published') ELSE webq
    /\ UNCHANGED <<bound, file, gateway, shower, webLog, faults, lapsed, heard, late>>
-----------------------------------------------------------------------------
(* The servers.                                                              *)

Handled(s)  == {h.log : h \in {g \in writer[s] : g.live}}

(* What the broker waits for s to acknowledge.                               *)
Unacked(s)  == IF phase[s] = "up" THEN ToSet(buffer[s]) \cup Handled(s) ELSE {}

(* Boot: declares the queue, binds it, consumes.                             *)
StartServer(s) ==
    /\ phase[s] = "out"
    /\ phase' = [phase EXCEPT ![s] = "up"]
    /\ bound' = TRUE
    /\ UNCHANGED <<published, ready, buffer, writer, lines, web, faults, accepted, lapsed>>

(* The broker sends up to Prefetch messages ahead of their acknowledgement;  *)
(* 0 is no limit.                                                            *)
Send(s) ==
    /\ phase[s] = "up"
    /\ Prefetch = 0 \/ Cardinality(Unacked(s)) < Prefetch
    /\ \E n \in ready :
          /\ \A m \in ready : n <= m
          /\ buffer' = [buffer EXCEPT ![s] = Append(@, n)]
          /\ ready' = ready \ {n}
    /\ UNCHANGED <<published, bound, phase, writer, lines, web, faults, accepted, lapsed>>

(* The goroutine may still get a buffered delivery when the connection is    *)
(* gone.                                                                     *)
TakeLog(s) ==
    /\ buffer[s] # <<>>
    /\ Handled(s) = {}
    /\ writer' = [writer EXCEPT ![s] = @ \cup
            {[log |-> Head(buffer[s]), pc |-> "write", live |-> TRUE]}]
    /\ buffer' = [buffer EXCEPT ![s] = Tail(@)]
    /\ lapsed' = IF phase[s] = "up" THEN lapsed
                 ELSE [lapsed EXCEPT ![Head(buffer[s])] = @ + 1]
    /\ UNCHANGED <<published, bound, ready, phase, lines, web, faults, accepted>>

(* WriteLog sleeps, opens the file and appends a line.                       *)
WriteLog(s, h) ==
    /\ h.pc = "write"
    /\ lines' = [lines EXCEPT ![h.log] = @ + 1]
    /\ writer' = [writer EXCEPT ![s] = (@ \ {h}) \cup {[h EXCEPT !.pc = "ack"]}]
    /\ UNCHANGED <<published, bound, ready, phase, buffer, web, faults, accepted, lapsed>>

Answers(s, h) == h.live /\ phase[s] = "up"

(* Mutant of AckLog: Nack although the line is written.                      *)
AckLogRequeued(s, h) ==
    /\ h.pc = "ack"
    /\ writer' = [writer EXCEPT ![s] = @ \ {h}]
    /\ ready' = IF Answers(s, h) THEN ready \cup {h.log} ELSE ready
    /\ UNCHANGED <<published, bound, phase, buffer, lines, web, faults, accepted, lapsed>>

AckLog(s, h) ==
    /\ h.pc = "ack"
    /\ writer' = [writer EXCEPT ![s] = @ \ {h}]
    /\ UNCHANGED <<published, bound, ready, phase, buffer, lines, web, faults, accepted, lapsed>>

(* Mutant of NackLog: without requeue, the log becomes a dead letter.        *)
NackLogDropped(s, h) ==
    /\ h.pc = "write"
    /\ writer' = [writer EXCEPT ![s] = @ \ {h}]
    /\ UNCHANGED <<published, bound, ready, phase, buffer, lines, web, faults, accepted, lapsed>>

(* Mutant of NackLog: the handler publishes the log again by itself.         *)
NackLogRepublished(s, h) ==
    /\ h.pc = "write"
    /\ writer' = [writer EXCEPT ![s] = @ \ {h}]
    /\ ready' = ready \cup {h.log}
    /\ UNCHANGED <<published, bound, phase, buffer, lines, web, faults, accepted, lapsed>>

(* WriteLog returns an error. Nack with requeue: the broker puts the message *)
(* back in its old place.                                                    *)
NackLog(s, h) ==
    /\ h.pc = "write"
    /\ writer' = [writer EXCEPT ![s] = @ \ {h}]
    /\ ready' = IF Answers(s, h) THEN ready \cup {h.log} ELSE ready
    /\ UNCHANGED <<published, bound, phase, buffer, lines, web, faults, accepted, lapsed>>

(* The broker takes back what s had not acknowledged.                        *)
TakeBack(s) ==
    /\ ready' = ready \cup Unacked(s)
    /\ lapsed' = [n \in Log |-> IF phase[s] = "up" /\ n \in Handled(s)
                                THEN lapsed[n] + 1 ELSE lapsed[n]]
    /\ UNCHANGED <<published, bound, lines, web, accepted>>

LoseConnection(s) ==
    /\ phase[s] = "up"
    /\ Fault
    /\ phase' = [phase EXCEPT ![s] = "down"]
    /\ TakeBack(s)
    /\ UNCHANGED <<buffer, writer>>

(* Supervise: a new connection and a new goroutine; the old one may still be *)
(* in its handler.                                                           *)
Reconnect(s) ==
    /\ phase[s] = "down"
    /\ phase' = [phase EXCEPT ![s] = "up"]
    /\ buffer' = [buffer EXCEPT ![s] = <<>>]
    /\ writer' = [writer EXCEPT ![s] = {[h EXCEPT !.live = FALSE] : h \in @}]
    /\ UNCHANGED <<published, bound, ready, lines, web, faults, accepted, lapsed>>

End(s) ==
    /\ phase[s] # "out"
    /\ phase' = [phase EXCEPT ![s] = "out"]
    /\ buffer' = [buffer EXCEPT ![s] = <<>>]
    /\ writer' = [writer EXCEPT ![s] = {}]

(* Mutant of StopServer: the queue goes with its last consumer.              *)
StopServerTransient(s) ==
    /\ writer[s] = {}
    /\ Fault
    /\ End(s)
    /\ ready' = IF \A t \in Server : phase'[t] = "out" THEN {} ELSE ready \cup Unacked(s)
    /\ UNCHANGED <<published, bound, lines, web, accepted, lapsed>>

(* "quit" or a signal: the consumer finishes the log at hand first.          *)
StopServer(s) ==
    /\ writer[s] = {}
    /\ Fault
    /\ End(s)
    /\ TakeBack(s)

CrashServer(s) == Fault /\ End(s) /\ TakeBack(s)
-----------------------------------------------------------------------------
(* The gateway.                                                              *)

server == <<published, bound, ready, file, accepted, lapsed>>

StartGateway ==
    /\ gateway = "out"
    /\ gateway' = "up"
    /\ UNCHANGED <<server, webq, shower, webLog, heard, late, faults>>

(* Mutants of Newest: one entry too many; the oldest entries stay.           *)
NewestLate(log) ==
    IF Len(log) > LogLimit THEN SubSeq(log, Len(log) - LogLimit, Len(log)) ELSE log
NewestKept(log) ==
    IF Len(log) > LogLimit THEN SubSeq(log, 1, LogLimit) ELSE log

Newest(log) ==
    IF Len(log) > LogLimit THEN SubSeq(log, Len(log) - LogLimit + 1, Len(log)) ELSE log

(* The consumer of gateway_logs takes one delivery at a time; that of a new  *)
(* connection does not wait for what the old one is still handling.          *)
TakeWebLog ==
    /\ webq # <<>>
    /\ \A h \in shower : ~h.live
    /\ webq' = Tail(webq)
    /\ shower' = shower \cup {[log |-> Head(webq), live |-> TRUE]}
    /\ UNCHANGED <<server, gateway, webLog, heard, late, faults>>

(* World.ApplyLog, one critical section.                                     *)
ApplyLog(h) ==
    /\ shower' = shower \ {h}
    /\ webLog' = Newest(Append(webLog, h.log))
    /\ heard' = heard \cup {h.log}
    /\ late' = IF h.live THEN late ELSE late \cup {h.log}
    /\ UNCHANGED <<server, gateway, webq, faults>>

(* The transient queue goes with the connection.                             *)
GatewayLosesConnection ==
    /\ gateway = "up"
    /\ Fault
    /\ gateway' = "down"
    /\ UNCHANGED <<server, webq, shower, webLog, heard, late>>

GatewayReconnects ==
    /\ gateway = "down"
    /\ gateway' = "up"
    /\ webq' = <<>>
    /\ shower' = {[h EXCEPT !.live = FALSE] : h \in shower}
    /\ UNCHANGED <<server, webLog, heard, late, faults>>

(* The world is kept in memory only.                                         *)
StopGateway ==
    /\ gateway # "out"
    /\ Fault
    /\ gateway' = "out"
    /\ webq' = <<>>
    /\ shower' = {}
    /\ webLog' = <<>>
    /\ heard' = {}
    /\ late' = {}
    /\ UNCHANGED server
-----------------------------------------------------------------------------
Handler(s) == \E h \in writer[s] :
    WriteLog(s, h) \/ AckLog(s, h) \/ NackLog(s, h)

Gateway == \/ StartGateway \/ TakeWebLog \/ \E h \in shower : ApplyLog(h)
           \/ GatewayLosesConnection \/ GatewayReconnects \/ StopGateway

Next ==
    \/ Publish
    \/ \E s \in Server : \/ StartServer(s) \/ Send(s) \/ TakeLog(s) \/ Handler(s)
                         \/ LoseConnection(s) \/ Reconnect(s)
                         \/ StopServer(s) \/ CrashServer(s)
    \/ Gateway

Spec == Init /\ [][Next]_vars

(* The broker sends, goroutines run, and a disk that is tried again and      *)
(* again takes the line some time. Nobody has to start or reconnect anything. *)
Fairness ==
    \A s \in Server : /\ WF_vars(Send(s))
                      /\ WF_vars(TakeLog(s))
                      /\ WF_vars(Handler(s))
                      /\ SF_vars(\E h \in writer[s] : WriteLog(s, h))

LiveSpec == Spec /\ Fairness
-----------------------------------------------------------------------------
(* The broker has it: in the queue or unacknowledged.                        *)
Kept(n) == n \in ready \/ \E s \in Server : n \in Unacked(s)

(* A log that got into game_logs is in the file, or the broker still has it: *)
(* in the queue or waiting for one server's answer. Crashes, lost            *)
(* connections, full disks and times without a server lose nothing, and the  *)
(* gateway's copy takes nothing away.                                        *)
NoLogIsLost ==
    \A n \in accepted :
        lines[n] > 0 \/ Kept(n)

(* A log is written again only when the delivery it was handled under was    *)
(* lost before the ack: no retry, restart or competing server adds a line.   *)
OnlyFaultsRepeatLines == \A n \in Log : lines[n] <= 1 + lapsed[n]

(* The web shows logs the gateway has handled, each once and in the order of *)
(* publication, and those it has dropped are older than all it shows: except *)
(* that a log the old consumer still had in hand at a reconnect stands where *)
(* it was appended, perhaps behind newer ones, in the place of one of them.  *)
WebLogIsNewest ==
    /\ ToSet(webLog) \subseteq heard
    /\ \A i, j \in DOMAIN webLog :
          i < j => \/ webLog[i] < webLog[j]
                   \/ webLog[j] \in late /\ webLog[i] # webLog[j]
    /\ \A n \in heard \ ToSet(webLog) :
          /\ Len(webLog) = LogLimit
          /\ \A m \in ToSet(webLog) : n < m \/ m \in late

Place(n) ==
    IF n > published THEN "none"
    ELSE IF n \notin accepted THEN "missed"
    ELSE IF Kept(n) THEN "kept"
    ELSE "gone"

Fate(n) == INSTANCE Delivery WITH place <- Place(n), written <- lines[n]

(* The servers deliver each log at least once: the broker gives it up only   *)
(* after it was written and then never has it again, however late a handler  *)
(* of an earlier connection ends, and nobody ever writes a log published     *)
(* before the queue existed.                                                 *)
EachLogIsDelivered ==
    /\ \A n \in Log : Fate(n)!Init
    /\ [][\A n \in Log : [Fate(n)!Next]_(Fate(n)!vars)]_vars

(* Every log in the queue is written as long as some server stays connected: *)
(* WriteLog's failures and the requeues do not go round for ever.            *)
EveryLogIsWritten ==
    (<>[]\E s \in Server : phase[s] = "up")
        => \A n \in Log : n \in accepted ~> lines[n] > 0
=============================================================================
