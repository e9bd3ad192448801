----------------------------- MODULE GameClients -----------------------------
(* The players' processes (cmd/client, internal/gamelogic), the transient    *)
(* queues RabbitMQ keeps for them and the server's pause command.            *)
(*                                                                           *)
(* Each client runs a REPL and one consumer goroutine per queue; they share  *)
(* GameState, whose methods lock it one call at a time. An action is one     *)
(* such critical section, or one publish. A goroutine in the middle of a     *)
(* command or of a handler is a record in repl, mover, warrior or pauser.    *)
EXTENDS Army, Sequences, SequencesExt

CONSTANTS                    \* bounds on what the environment does
    MaxBatch,                \* unit ids named by one move command
    MaxSpawns, MaxMoves,     \* commands, over all players
    MaxPauses,               \* pause and resume commands of the server
    MaxLosses,               \* connections lost and processes ended
    MaxFailures              \* publishes that return an error while connected,
                             \* those of the server's commands among them

ASSUME BoundsAssumption ==
    {MaxBatch, MaxSpawns, MaxMoves, MaxPauses, MaxLosses, MaxFailures} \subseteq Nat

Kinds == {"pause", "moves", "wars"}      \* the three queues of a client

VARIABLES
    army, paused,            \* GameState of each player
    repl, mover, warrior,    \* goroutines: the REPL, handlerMove, handlerWar
    pauser,                  \* and handlerPause
    phase, subs,             \* the process and its connection; its queues
    moveq, warq, pauseq,     \* contents of the queues
    wars,                    \* every recognition published, oldest first;
                             \* warq holds positions in it
    gameLogs,                \* war reports published, oldest first
    dlq,                     \* messages in peril_dlq
    game,                    \* the last order the server has published
    used,                    \* how much of each bound is spent
    \* history, read by no action:
    quiet,   \* <<p, q, l>>: since p came to l, neither p nor q announced
    met,     \* <<n, l>>: war n was delivered to both and l is contested in it
    deaf,    \* p missed moves or wars and has not announced its army since
    lost,    \* p has had units removed by a war
    heeded,  \* the number of the newest order p has applied
    missed,  \* p missed the last order, or an older one came after a newer
    leaked,  \* moves p published since it was paused
    verdicts \* how each party decided each war

client  == <<army, paused, repl, mover, warrior, pauser>>
link    == <<phase, subs>>
queues  == <<moveq, warq, pauseq>>
ledger  == <<wars, gameLogs, dlq>>
arrival == <<quiet, met, deaf>>
history == <<quiet, met, deaf, lost, heeded, missed, leaked, verdicts>>
vars    == <<client, link, queues, ledger, game, used, history>>

(* What goroutines hold between two steps. live is FALSE once the connection *)
(* the message came over is gone: its acknowledgement then has no effect.    *)
WarIds   == 1..Len(wars)
Idle     == [pc |-> "idle"]
Moves    == [player : Player, units : Armies]
Handlers == [pc : {"noticed"}, move : Moves, live : BOOLEAN]
       \cup [pc : {"declare"}, move : Moves, war : Recognition, live : BOOLEAN]
Reports  == [war : WarIds, result : WarResult, live : BOOLEAN]
Orders   == [n : Nat, pause : BOOLEAN]     \* n tells equal commands apart
Pausers  == [order : Orders, live : BOOLEAN]
Todo     == Seq(UnitId) \ {<<>>}
Commands == {Idle}
       \cup [pc : {"spawn"}, id : UnitId, unit : Unit]
       \cup [pc : {"get"}, to : Location, todo : Todo]
       \cup [pc : {"update"}, to : Location, todo : Todo, unit : Unit]
       \cup [pc : {"snap"}, to : Location]
       \cup [pc : {"publish"}, units : Armies]
Verdicts == [war : WarIds, by : Player, result : WarResult]

TypeOK ==
    /\ army \in [Player -> Armies]
    /\ paused \in [Player -> BOOLEAN]
    /\ repl \in [Player -> Commands]
    /\ mover \in [Player -> SUBSET Handlers]
    /\ warrior \in [Player -> SUBSET Reports]
    /\ pauser \in [Player -> SUBSET Pausers]
    /\ phase \in [Player -> {"out", "up", "down"}]
    /\ subs \in [Player -> SUBSET Kinds]
    /\ moveq \in [Player -> Seq(Moves)]
    /\ warq \in [Player -> Seq(WarIds)]
    /\ pauseq \in [Player -> Seq(Orders)]
    /\ wars \in Seq(Recognition)
    /\ gameLogs \in Seq(Verdicts)
    /\ dlq \in [moves : Nat, wars : Nat]
    /\ game \in Orders
    /\ used \in [spawns : Nat, moves : Nat, pauses : Nat, losses : Nat, failures : Nat]
    /\ quiet \subseteq Player \X Player \X Location
    /\ met \subseteq WarIds \X Location
    /\ deaf \in [Player -> BOOLEAN]
    /\ lost \in [Player -> BOOLEAN]
    /\ heeded \in [Player -> Nat]
    /\ missed \in [Player -> BOOLEAN]
    /\ leaked \in [Player -> Nat]
    /\ verdicts \subseteq Verdicts

Init ==
    /\ army = [p \in Player |-> NoUnits]
    /\ paused = [p \in Player |-> FALSE]
    /\ repl = [p \in Player |-> Idle]
    /\ mover = [p \in Player |-> {}]
    /\ warrior = [p \in Player |-> {}]
    /\ pauser = [p \in Player |-> {}]
    /\ phase = [p \in Player |-> "out"]
    /\ subs = [p \in Player |-> {}]
    /\ moveq = [p \in Player |-> <<>>]
    /\ warq = [p \in Player |-> <<>>]
    /\ pauseq = [p \in Player |-> <<>>]
    /\ wars = <<>>
    /\ gameLogs = <<>>
    /\ dlq = [moves |-> 0, wars |-> 0]
    /\ game = [n |-> 0, pause |-> FALSE]
    /\ used = [spawns |-> 0, moves |-> 0, pauses |-> 0, losses |-> 0, failures |-> 0]
    /\ quiet = {}
    /\ met = {}
    /\ deaf = [p \in Player |-> FALSE]
    /\ lost = [p \in Player |-> FALSE]
    /\ heeded = [p \in Player |-> 0]
    /\ missed = [p \in Player |-> FALSE]
    /\ leaked = [p \in Player |-> 0]
    /\ verdicts = {}

(* One more use of a bounded resource.                                       *)
Spend(what, bound) ==
    /\ used[what] < bound
    /\ used' = [used EXCEPT ![what] = @ + 1]

(* An exchange copies a message into each queue bound to it.                 *)
Deliver(queue, kind, message) ==
    [p \in Player |-> IF kind \in subs[p] THEN Append(queue[p], message)
                                          ELSE queue[p]]

(* Mutant of Requeue: Nack(false, false), the message is gone.               *)
RequeueDropped(queue, p, message, live) == queue' = queue

(* Nack with requeue: the broker puts the message back near the front, but   *)
(* behind whatever of the queue it had already sent to this consumer. When   *)
(* the delivery's connection is gone so is the exclusive queue.              *)
Requeue(queue, p, message, live) ==
    IF live /\ phase[p] = "up"
    THEN \E i \in 1..Len(queue[p]) + 1 :
            queue' = [queue EXCEPT ![p] = InsertAt(@, i, message)]
    ELSE queue' = queue

(* p comes to loc with something nobody has been told of yet.                *)
Arrive(p, loc) ==
    /\ quiet' = quiet \cup {<<p, q, loc>> : q \in Player}
    /\ met' = {m \in met : m[2] = loc => p \notin Parties(wars[m[1]])}
    /\ UNCHANGED deaf
-----------------------------------------------------------------------------
(* Sessions.                                                                 *)

(* run(): the three subscriptions, in order, before the REPL starts. With no *)
(* units yet the client answers every message with an ack, so the handlers   *)
(* that could run between two of them change nothing.                        *)
Join(p) ==
    /\ phase[p] = "out"
    /\ phase' = [phase EXCEPT ![p] = "up"]
    /\ subs' = [subs EXCEPT ![p] = Kinds]
    /\ heeded' = [heeded EXCEPT ![p] = game.n]
    /\ missed' = [missed EXCEPT ![p] = game.pause]
    /\ UNCHANGED <<client, queues, ledger, game, used, arrival, lost, leaked, verdicts>>

(* The process ends ("quit", a signal or a crash): nothing of it persists.   *)
(* A client started again under the name begins with an empty army.          *)
Exit(p) ==
    /\ phase[p] # "out"
    /\ Spend("losses", MaxLosses)
    /\ army' = [army EXCEPT ![p] = NoUnits]
    /\ paused' = [paused EXCEPT ![p] = FALSE]
    /\ repl' = [repl EXCEPT ![p] = Idle]
    /\ mover' = [mover EXCEPT ![p] = {}]
    /\ warrior' = [warrior EXCEPT ![p] = {}]
    /\ pauser' = [pauser EXCEPT ![p] = {}]
    /\ phase' = [phase EXCEPT ![p] = "out"]
    /\ subs' = [subs EXCEPT ![p] = {}]
    /\ moveq' = [moveq EXCEPT ![p] = <<>>]
    /\ warq' = [warq EXCEPT ![p] = <<>>]
    /\ pauseq' = [pauseq EXCEPT ![p] = <<>>]
    /\ quiet' = {t \in quiet : p \notin {t[1], t[2]}}
    /\ met' = {m \in met : p \notin Parties(wars[m[1]])}
    /\ deaf' = [deaf EXCEPT ![p] = FALSE]
    /\ lost' = [lost EXCEPT ![p] = FALSE]
    /\ heeded' = [heeded EXCEPT ![p] = 0]
    /\ missed' = [missed EXCEPT ![p] = FALSE]
    /\ leaked' = [leaked EXCEPT ![p] = 0]
    /\ UNCHANGED <<ledger, game, verdicts>>

(* The broker connection breaks. The exclusive queues are gone; deliveries   *)
(* already sent stay buffered and the old goroutines may still handle them.  *)
Disconnect(p) ==
    /\ phase[p] = "up"
    /\ Spend("losses", MaxLosses)
    /\ phase' = [phase EXCEPT ![p] = "down"]
    /\ subs' = [subs EXCEPT ![p] = {}]
    /\ met' = {m \in met : p \notin Parties(wars[m[1]])}
    /\ deaf' = [deaf EXCEPT ![p] = TRUE]
    /\ UNCHANGED <<client, queues, ledger, game, quiet, lost, heeded, missed, leaked,
                   verdicts>>

(* Supervise gets through redial: a new connection and no queue yet. What    *)
(* was buffered is lost; goroutines still in a handler belong to the past.   *)
Redial(p) ==
    /\ phase[p] = "down"
    /\ phase' = [phase EXCEPT ![p] = "up"]
    /\ moveq' = [moveq EXCEPT ![p] = <<>>]
    /\ warq' = [warq EXCEPT ![p] = <<>>]
    /\ pauseq' = [pauseq EXCEPT ![p] = <<>>]
    /\ mover' = [mover EXCEPT ![p] = {[h EXCEPT !.live = FALSE] : h \in @}]
    /\ warrior' = [warrior EXCEPT ![p] = {[h EXCEPT !.live = FALSE] : h \in @}]
    /\ pauser' = [pauser EXCEPT ![p] = {[h EXCEPT !.live = FALSE] : h \in @}]
    /\ missed' = [missed EXCEPT ![p] = @ \/ pauseq[p] # <<>>]
    /\ UNCHANGED <<army, paused, repl, subs, ledger, game, used, arrival, lost,
                   heeded, leaked, verdicts>>

(* One starter of Supervise's loop succeeds. Those that fail are only        *)
(* logged, so a queue may stay undeclared for good: this step is not fair.   *)
Resubscribe(p, kind) ==
    /\ phase[p] = "up"
    /\ kind \notin subs[p]
    /\ subs' = [subs EXCEPT ![p] = @ \cup {kind}]
    /\ UNCHANGED <<client, phase, queues, ledger, game, used, history>>
-----------------------------------------------------------------------------
(* The REPL: CommandSpawn, CommandMove, commandMove.                         *)

(* Mutant of NextId: the length itself.                                      *)
NextIdOffByOne(units) == Cardinality(DOMAIN units)

(* Mutant of NextId: the highest id so far, not the one after it.            *)
NextIdLast(units) == IF DOMAIN units = {} THEN 1 ELSE Max(DOMAIN units)

(* len(gs.getUnitsSnap()) + 1.                                               *)
NextId(units) == Cardinality(DOMAIN units) + 1

(* CommandSpawn reads the number of its units and adds the new one under two *)
(* separate locks.                                                           *)
SpawnId(p, unit) ==
    /\ phase[p] # "out"
    /\ repl[p].pc = "idle"
    /\ Spend("spawns", MaxSpawns)
    /\ Cardinality(DOMAIN army[p]) < MaxUnits
    /\ repl' = [repl EXCEPT ![p] =
            [pc |-> "spawn", unit |-> unit, id |-> NextId(army[p])]]
    /\ UNCHANGED <<army, paused, mover, warrior, pauser, link, queues, ledger, game,
                   history>>

AddUnit(p) ==
    /\ repl[p].pc = "spawn"
    /\ army' = [army EXCEPT ![p] = PutUnit(@, repl[p].id, repl[p].unit)]
    /\ Arrive(p, repl[p].unit.location)
    /\ repl' = [repl EXCEPT ![p] = Idle]
    /\ UNCHANGED <<paused, mover, warrior, pauser, link, queues, ledger, game, used,
                   lost, heeded, missed, leaked, verdicts>>

(* Mutant of IsPaused: the check is forgotten.                               *)
IsPausedNever(p) == FALSE

IsPaused(p) == paused[p]

(* isPaused() is asked once, before anything else. The ids are whatever the  *)
(* player typed, ids of no unit and repetitions included.                    *)
BeginMove(p, to, ids) ==
    /\ phase[p] # "out"
    /\ repl[p].pc = "idle"
    /\ ~IsPaused(p)
    /\ Spend("moves", MaxMoves)
    /\ repl' = [repl EXCEPT ![p] = [pc |-> "get", to |-> to, todo |-> ids]]
    /\ UNCHANGED <<army, paused, mover, warrior, pauser, link, queues, ledger, game,
                   history>>

(* An unknown id ends the command; units already moved stay moved and the    *)
(* move is never published.                                                  *)
GetUnit(p) ==
    /\ repl[p].pc = "get"
    /\ LET id == Head(repl[p].todo)
       IN  repl' = [repl EXCEPT ![p] =
                IF id \in DOMAIN army[p]
                THEN [pc |-> "update", to |-> @.to, todo |-> @.todo,
                      unit |-> [army[p][id] EXCEPT !.location = repl[p].to]]
                ELSE Idle]
    /\ UNCHANGED <<army, paused, mover, warrior, pauser, link, queues, ledger, game,
                   used, history>>

(* The unit is written back even if a war removed it after GetUnit.          *)
UpdateUnit(p) ==
    /\ repl[p].pc = "update"
    /\ army' = [army EXCEPT ![p] = PutUnit(@, Head(repl[p].todo), repl[p].unit)]
    /\ Arrive(p, repl[p].unit.location)
    /\ repl' = [repl EXCEPT ![p] =
            IF Len(@.todo) = 1 THEN [pc |-> "snap", to |-> @.to]
            ELSE [pc |-> "get", to |-> @.to, todo |-> Tail(@.todo)]]
    /\ UNCHANGED <<paused, mover, warrior, pauser, link, queues, ledger, game, used,
                   lost, heeded, missed, leaked, verdicts>>

(* Mutant of SnapMove: the message carries the units at the destination only. *)
SnapMoveArrivals(p) ==
    /\ repl[p].pc = "snap"
    /\ repl' = [repl EXCEPT ![p] = [pc |-> "publish",
            units |-> Restrict(army[p], InLocation(army[p], repl[p].to))]]
    /\ UNCHANGED <<army, paused, mover, warrior, pauser, link, queues, ledger, game,
                   used, history>>

(* GetPlayerSnap: the ArmyMove carries the whole army.                       *)
SnapMove(p) ==
    /\ repl[p].pc = "snap"
    /\ repl' = [repl EXCEPT ![p] = [pc |-> "publish", units |-> army[p]]]
    /\ UNCHANGED <<army, paused, mover, warrior, pauser, link, queues, ledger, game,
                   used, history>>

PublishMove(p) ==
    /\ repl[p].pc = "publish"
    /\ phase[p] = "up"
    /\ repl' = [repl EXCEPT ![p] = Idle]
    /\ moveq' = Deliver(moveq, "moves", [player |-> p, units |-> repl[p].units])
    /\ quiet' = {t \in quiet : p \notin {t[1], t[2]}}
    /\ deaf' = [deaf EXCEPT ![p] = ~({"moves", "wars"} \subseteq subs[p])]
    /\ leaked' = [leaked EXCEPT ![p] = IF paused[p] THEN @ + 1 ELSE @]
    /\ UNCHANGED <<army, paused, mover, warrior, pauser, link, warq, pauseq, ledger,
                   game, used, met, lost, heeded, missed, verdicts>>

(* The publish returns an error, or the message is lost with a connection    *)
(* nobody has noticed is broken. The army has moved all the same.            *)
FailToPublishMove(p) ==
    /\ repl[p].pc = "publish"
    /\ \/ phase[p] = "down" /\ UNCHANGED used
       \/ phase[p] = "up" /\ Spend("failures", MaxFailures)
    /\ repl' = [repl EXCEPT ![p] = Idle]
    /\ UNCHANGED <<army, paused, mover, warrior, pauser, link, queues, ledger, game,
                   history>>
-----------------------------------------------------------------------------
(* handlerMove. One goroutine per queue: the next message is taken only when *)
(* the handler of the one before has returned.                               *)

TakeMove(p) ==
    /\ moveq[p] # <<>>
    /\ \A h \in mover[p] : ~h.live
    /\ moveq' = [moveq EXCEPT ![p] = Tail(@)]
    /\ UNCHANGED <<army, paused, repl, warrior, pauser, link, warq, pauseq, wars,
                   gameLogs, game, used, history>>

Overlap(p, move) == Locations(army[p]) \cap Locations(move.units) # {}

(* A message rejected after its connection is gone died with its queue.      *)
DeadLetter(p, what) ==
    dlq' = IF phase[p] = "up" THEN [dlq EXCEPT ![what] = @ + 1] ELSE dlq

(* SamePlayer: Reject. Everybody's own moves end up in peril_dlq.            *)
RejectOwnMove(p) ==
    /\ TakeMove(p)
    /\ Head(moveq[p]).player = p
    /\ DeadLetter(p, "moves")
    /\ UNCHANGED mover

(* Mutant of IgnoreMove: a safe move is rejected too.                        *)
IgnoreMoveRejected(p) ==
    /\ TakeMove(p)
    /\ Head(moveq[p]).player # p
    /\ ~Overlap(p, Head(moveq[p]))
    /\ DeadLetter(p, "moves")
    /\ UNCHANGED mover

(* Safe: Ack.                                                                *)
IgnoreMove(p) ==
    /\ TakeMove(p)
    /\ Head(moveq[p]).player # p
    /\ ~Overlap(p, Head(moveq[p]))
    /\ UNCHANGED <<mover, dlq>>

(* MakeWar: the handler goes on to publish.                                  *)
NoticeMove(p) ==
    /\ TakeMove(p)
    /\ Head(moveq[p]).player # p
    /\ Overlap(p, Head(moveq[p]))
    /\ mover' = [mover EXCEPT ![p] = @ \cup
            {[pc |-> "noticed", move |-> Head(moveq[p]), live |-> TRUE]}]
    /\ UNCHANGED dlq

(* The defender's army is a second snapshot, taken after HandleMove's.       *)
Recognise(p, h) ==
    /\ h.pc = "noticed"
    /\ mover' = [mover EXCEPT ![p] = (@ \ {h}) \cup
            {[pc |-> "declare", move |-> h.move, live |-> h.live,
              war |-> [attacker |-> h.move.player, attackerUnits |-> h.move.units,
                       defender |-> p, defenderUnits |-> army[p]]]}]
    /\ UNCHANGED <<army, paused, repl, warrior, pauser, link, queues, ledger, game,
                   used, history>>

DeclareWar(p, h) ==
    /\ h.pc = "declare"
    /\ phase[p] = "up"
    /\ mover' = [mover EXCEPT ![p] = @ \ {h}]
    /\ wars' = Append(wars, h.war)
    /\ warq' = Deliver(warq, "wars", Len(wars) + 1)
    /\ met' = met \cup
            IF \A q \in Parties(h.war) : "wars" \in subs[q]
            THEN {<<Len(wars) + 1, loc>> : loc \in Contested(h.war)}
            ELSE {}
    /\ UNCHANGED <<army, paused, repl, warrior, pauser, link, moveq, pauseq, gameLogs,
                   dlq, game, used, quiet, deaf, lost, heeded, missed, leaked,
                   verdicts>>

(* Nack: the move is handled again, against whatever army p has then.        *)
FailToDeclareWar(p, h) ==
    /\ h.pc = "declare"
    /\ \/ phase[p] = "down" /\ UNCHANGED used
       \/ phase[p] = "up" /\ Spend("failures", MaxFailures)
    /\ mover' = [mover EXCEPT ![p] = @ \ {h}]
    /\ Requeue(moveq, p, h.move, h.live)
    /\ UNCHANGED <<army, paused, repl, warrior, pauser, link, warq, pauseq, ledger,
                   game, history>>
-----------------------------------------------------------------------------
(* handlerWar.                                                               *)

TakeWar(p) ==
    /\ warq[p] # <<>>
    /\ \A h \in warrior[p] : ~h.live
    /\ warq' = [warq EXCEPT ![p] = Tail(@)]
    /\ UNCHANGED <<paused, repl, mover, pauser, link, moveq, pauseq, wars, gameLogs,
                   game, used, quiet, met, deaf, heeded, missed, leaked>>

(* NotInvolved: Ack.                                                         *)
IgnoreWar(p) ==
    /\ TakeWar(p)
    /\ p \notin Parties(wars[Head(warq[p])])
    /\ UNCHANGED <<army, warrior, dlq, lost, verdicts>>

(* Mutant of RejectWar: Nack, the hopeless message comes round again.        *)
RejectWarRequeued(p) ==
    /\ warq[p] # <<>>
    /\ p \in Parties(wars[Head(warq[p])])
    /\ Contested(wars[Head(warq[p])]) = {}
    /\ warq' = [warq EXCEPT ![p] = Append(Tail(@), Head(@))]
    /\ UNCHANGED <<client, link, moveq, pauseq, ledger, game, used, history>>

(* NoUnits: Reject.                                                          *)
RejectWar(p) ==
    /\ TakeWar(p)
    /\ p \in Parties(wars[Head(warq[p])])
    /\ Contested(wars[Head(warq[p])]) = {}
    /\ DeadLetter(p, "wars")
    /\ UNCHANGED <<army, warrior, lost, verdicts>>

(* Mutant of MustReport: both parties publish the log.                       *)
MustReportBoth(p, war) == TRUE

(* Only the attacker reports a war, so that it is reported once.             *)
MustReport(p, war) == p = war.attacker

(* The war is decided from the two snapshots it carries, at a location each  *)
(* party picks for itself; the loser removes what it has there by now. The   *)
(* defender acks at once, the attacker has a game log to publish first.      *)
FightWar(p, loc) ==
    /\ TakeWar(p)
    /\ LET n      == Head(warq[p])
           result == ResolveWar(wars[n], loc)
           falls  == p \in Removed(wars[n], result)
       IN  /\ p \in Parties(wars[n])
           /\ loc \in Contested(wars[n])
           /\ army' = IF falls THEN [army EXCEPT ![p] = RemoveUnits(@, loc)] ELSE army
           /\ lost' = [lost EXCEPT ![p] = @ \/ falls]
           /\ warrior' = IF MustReport(p, wars[n])
                         THEN [warrior EXCEPT ![p] = @ \cup
                                 {[war |-> n, result |-> result, live |-> TRUE]}]
                         ELSE warrior
           /\ verdicts' = verdicts \cup {[war |-> n, by |-> p, result |-> result]}
    /\ UNCHANGED dlq

PublishGameLog(p, h) ==
    /\ phase[p] = "up"
    /\ warrior' = [warrior EXCEPT ![p] = @ \ {h}]
    /\ gameLogs' = Append(gameLogs, [war |-> h.war, by |-> p, result |-> h.result])
    /\ UNCHANGED <<army, paused, repl, mover, pauser, link, queues, wars, dlq, game,
                   used, history>>

(* Nack: the war is fought again when it comes back.                         *)
FailToPublishGameLog(p, h) ==
    /\ \/ phase[p] = "down" /\ UNCHANGED used
       \/ phase[p] = "up" /\ Spend("failures", MaxFailures)
    /\ warrior' = [warrior EXCEPT ![p] = @ \ {h}]
    /\ Requeue(warq, p, h.war, h.live)
    /\ UNCHANGED <<army, paused, repl, mover, pauser, link, moveq, pauseq, ledger, game,
                   history>>
-----------------------------------------------------------------------------
(* Pausing.                                                                  *)

(* publishPauseState of the server.                                          *)
ServerPause(pause) ==
    /\ Spend("pauses", MaxPauses)
    /\ game' = [n |-> game.n + 1, pause |-> pause]
    /\ pauseq' = Deliver(pauseq, "pause", game')
    /\ missed' = [p \in Player |-> phase[p] # "out" /\ "pause" \notin subs[p]]
    /\ UNCHANGED <<client, link, moveq, warq, ledger, arrival, lost, heeded, leaked,
                   verdicts>>

(* The error is printed and the command forgotten.                           *)
FailToPublishPause ==
    /\ Spend("failures", MaxFailures)
    /\ UNCHANGED <<client, link, queues, ledger, game, history>>

(* The consumer takes one command at a time; after a Redial the new one does *)
(* not wait for what the old one is still handling.                          *)
TakePause(p) ==
    /\ pauseq[p] # <<>>
    /\ \A h \in pauser[p] : ~h.live
    /\ pauseq' = [pauseq EXCEPT ![p] = Tail(@)]
    /\ pauser' = [pauser EXCEPT ![p] = @ \cup
            {[order |-> Head(pauseq[p]), live |-> TRUE]}]
    /\ UNCHANGED <<army, paused, repl, mover, warrior, link, moveq, warq, ledger, game,
                   used, history>>

(* Mutant of ApplyPause: any command toggles.                                *)
ApplyPauseToggle(p, h) ==
    /\ pauser' = [pauser EXCEPT ![p] = @ \ {h}]
    /\ paused' = [paused EXCEPT ![p] = ~paused[p]]
    /\ leaked' = [leaked EXCEPT ![p] = IF paused'[p] THEN @ ELSE 0]
    /\ heeded' = [heeded EXCEPT ![p] = IF h.order.n < @ THEN @ ELSE h.order.n]
    /\ missed' = [missed EXCEPT ![p] = @ \/ h.order.n < heeded[p]]
    /\ UNCHANGED <<army, repl, mover, warrior, link, queues, ledger, game, used, arrival,
                   lost, verdicts>>

(* HandlePause obeys the command without asking how old it is.               *)
ApplyPause(p, h) ==
    /\ pauser' = [pauser EXCEPT ![p] = @ \ {h}]
    /\ paused' = [paused EXCEPT ![p] = h.order.pause]
    /\ leaked' = [leaked EXCEPT ![p] = IF paused'[p] THEN @ ELSE 0]
    /\ heeded' = [heeded EXCEPT ![p] = IF h.order.n < @ THEN @ ELSE h.order.n]
    /\ missed' = [missed EXCEPT ![p] = @ \/ h.order.n < heeded[p]]
    /\ UNCHANGED <<army, repl, mover, warrior, link, queues, ledger, game, used, arrival,
                   lost, verdicts>>
-----------------------------------------------------------------------------
Batches == SeqOf(UnitId, MaxBatch) \ {<<>>}

Session(p) == \/ Join(p) \/ Exit(p) \/ Disconnect(p) \/ Redial(p)
              \/ \E kind \in Kinds : Resubscribe(p, kind)

NewCommand(p) == \/ \E unit \in Unit : SpawnId(p, unit)
                 \/ \E to \in Location, ids \in Batches : BeginMove(p, to, ids)

(* The goroutines of p, given something to do.                               *)
Command(p) == \/ AddUnit(p) \/ GetUnit(p) \/ UpdateUnit(p) \/ SnapMove(p)
              \/ PublishMove(p) \/ FailToPublishMove(p)

MoveConsumer(p) ==
    \/ RejectOwnMove(p) \/ IgnoreMove(p) \/ NoticeMove(p)
    \/ \E h \in mover[p] : Recognise(p, h) \/ DeclareWar(p, h) \/ FailToDeclareWar(p, h)

WarConsumer(p) ==
    \/ IgnoreWar(p) \/ RejectWar(p) \/ \E loc \in Location : FightWar(p, loc)
    \/ \E h \in warrior[p] : PublishGameLog(p, h) \/ FailToPublishGameLog(p, h)

PauseConsumer(p) == TakePause(p) \/ \E h \in pauser[p] : ApplyPause(p, h)

Next ==
    \/ \E p \in Player :
          \/ Session(p) \/ NewCommand(p) \/ Command(p)
          \/ MoveConsumer(p) \/ WarConsumer(p) \/ PauseConsumer(p)
    \/ \E pause \in BOOLEAN : ServerPause(pause)
    \/ FailToPublishPause

Spec == Init /\ [][Next]_vars

(* The Go scheduler runs every goroutine that can proceed. Players and the   *)
(* server's operator need not type anything, and nothing has to fail.        *)
Fairness ==
    \A p \in Player : /\ WF_vars(Command(p))
                      /\ WF_vars(MoveConsumer(p))
                      /\ WF_vars(WarConsumer(p))
                      /\ WF_vars(PauseConsumer(p))

LiveSpec == Spec /\ Fairness
-----------------------------------------------------------------------------
(* Safety.                                                                   *)

Share(p, q, loc) ==
    p # q /\ loc \in Locations(army[p]) /\ loc \in Locations(army[q])

(* Since they have both been in loc, one of p and q announced its army while *)
(* neither had missed anything.                                              *)
Told(p, q, loc) ==
    /\ ~deaf[p] /\ ~deaf[q]
    /\ <<p, q, loc>> \notin quiet /\ <<q, p, loc>> \notin quiet

MovesHandled(p) == moveq[p] = <<>> /\ mover[p] = {}

(* Nobody stands next to an enemy unnoticed: once both players have handled  *)
(* every move sent to them, two armies that share a location of which they   *)
(* were told have had a war declared between them over it. Clients only look *)
(* at their own army (handlerMove), spawns are not announced, and each move  *)
(* overtakes the other's; what makes it true is that an ArmyMove carries the *)
(* whole army after the move, taken before it is published.                  *)
MeetingsAreNoticed ==
    \A p, q \in Player, loc \in Location :
        Share(p, q, loc) /\ Told(p, q, loc) /\ MovesHandled(p) /\ MovesHandled(q)
            => \E m \in met : m[2] = loc /\ Parties(wars[m[1]]) = {p, q}

(* Whoever did not outdo the other there.                                    *)
Beaten(war, loc) ==
    {p \in Parties(war) :
        \/ p = war.attacker
           /\ PowerLevel(war.attackerUnits, loc) <= PowerLevel(war.defenderUnits, loc)
        \/ p = war.defender
           /\ PowerLevel(war.defenderUnits, loc) <= PowerLevel(war.attackerUnits, loc)}

(* A party that loses a war, or draws, has left the place when it has        *)
(* handled the recognition, and stays out until it moves or spawns there     *)
(* again: HandleWar uses stale armies to decide but current ones to remove.  *)
(* Only for a war over one place: of several, each party picks its own.      *)
WarsClearTheField ==
    \A m \in met :
        Contested(wars[m[1]]) = {m[2]} =>
            \A p \in Beaten(wars[m[1]], m[2]) :
                m[2] \in Locations(army[p]) => Contains(warq[p], m[1])

(* The two together: when p and q have nothing left to handle they share no  *)
(* place they were told of, except one left over from a war that had several *)
(* places to choose from, of which HandleWar settles just one.               *)
NoStandoff ==
    \A p, q \in Player, loc \in Location :
        (/\ Share(p, q, loc) /\ Told(p, q, loc)
         /\ MovesHandled(p) /\ MovesHandled(q)
         /\ warq[p] = <<>> /\ warq[q] = <<>>)
            => \E m \in met : /\ m[2] = loc /\ Parties(wars[m[1]]) = {p, q}
                              /\ Contested(wars[m[1]]) # {loc}

(* The log of a war is published at most once and by the attacker, whatever  *)
(* is retried or lost, and says what the attacker did to its own army.       *)
OneLogPerWar ==
    /\ \A i, j \in DOMAIN gameLogs : gameLogs[i].war = gameLogs[j].war => i = j
    /\ \A i \in DOMAIN gameLogs : /\ gameLogs[i].by = wars[gameLogs[i].war].attacker
                                  /\ gameLogs[i] \in verdicts

(* As long as a player has lost no unit, a spawn never takes the id of a     *)
(* living one: len+1 is fresh because the ids are then exactly 1..len.       *)
SpawnsAreFresh ==
    \A p \in Player :
        repl[p].pc = "spawn" /\ ~lost[p] => repl[p].id \notin DOMAIN army[p]

(* isPaused is read at the start of a move only, so a move under way when    *)
(* the pause arrives is still published; never a second one.                 *)
AtMostOneMoveSlips == \A p \in Player : paused[p] => leaked[p] <= 1

(* A client that has handled all it received agrees with the server, however *)
(* often the game was paused and resumed and whatever an old consumer still  *)
(* had in hand after a reconnect: unless the last order itself was missed,   *)
(* or the old consumer obeyed an older one after it (HandlePause).           *)
PauseReaches ==
    \A p \in Player :
        phase[p] # "out" /\ ~missed[p] /\ pauseq[p] = <<>> /\ pauser[p] = {}
            => paused[p] = game.pause

(* A dead letter is the sender's own copy of a move, or a war whose overlap  *)
(* was gone by the second snapshot and then one for each party: no message   *)
(* is dead-lettered twice.                                                   *)
DeadLettersAreAccounted ==
    /\ dlq.moves <= used.moves
    /\ dlq.wars <= 2 * Cardinality({n \in DOMAIN wars : Contested(wars[n]) = {}})

(* Who has the report of a war to make: the attacker's queue, then one of    *)
(* its handlers.                                                             *)
Stage(n) ==
    IF n \notin WarIds THEN "none"
    ELSE IF Contains(warq[wars[n].attacker], n) THEN "pending"
    ELSE IF \E h \in warrior[wars[n].attacker] : h.war = n THEN "fought"
    ELSE "over"

LogsOf(n) == Cardinality({i \in DOMAIN gameLogs : gameLogs[i].war = n})

Fate(n) == INSTANCE WarReport WITH stage <- Stage(n), reports <- LogsOf(n)

(* More wars there cannot be: a move has one copy for each of its enemies.   *)
WarNumbers == 1..MaxMoves * (Cardinality(Player) - 1)

(* Every war has the life of a WarReport. A report goes out only from the    *)
(* hands of the attacker's handler and ends the matter there; one that was   *)
(* lost, with the queue or the process it was in, is never made up for by    *)
(* the other party, a restart under the name or the connection's return.     *)
EachWarIsReportedByRule ==
    /\ \A n \in WarNumbers : Fate(n)!Init
    /\ [][\A n \in WarNumbers : [Fate(n)!Next]_(Fate(n)!vars)]_vars

(* What the code is expected to do and does not.                             *)

(* The server pauses everyone (README).                                      *)
EveryoneIsPaused ==
    \A p \in Player :
        phase[p] = "up" /\ pauseq[p] = <<>> /\ pauser[p] = {} => paused[p] = game.pause

(* Spawning gives the player one more unit (CommandSpawn's message).         *)
SpawnAddsAUnit ==
    [][\A p \in Player : repl[p].pc = "spawn" /\ repl'[p] = Idle /\ phase'[p] # "out"
            => Cardinality(DOMAIN army'[p]) = Cardinality(DOMAIN army[p]) + 1]_vars
-----------------------------------------------------------------------------
(* Liveness, under LiveSpec and while no connection is lost.                 *)

AtRest(p) == /\ repl[p].pc = "idle" /\ mover[p] = {} /\ warrior[p] = {} /\ pauser[p] = {}
             /\ moveq[p] = <<>> /\ warq[p] = <<>> /\ pauseq[p] = <<>>

(* When players stop typing the clients come to rest: rejected messages and  *)
(* retries do not go round for ever.                                         *)
ClientsComeToRest == <>[](\A p \in Player : AtRest(p))

(* Every war that is fought gets into the game log, failed publishes and the *)
(* retries of the whole handler notwithstanding.                             *)
EveryWarIsLogged ==
    \A n \in WarNumbers :
        (n \in DOMAIN wars /\ Contested(wars[n]) # {})
            ~> \E i \in DOMAIN gameLogs : gameLogs[i].war = n
=============================================================================
