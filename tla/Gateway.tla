------------------------------- MODULE Gateway -------------------------------
(* The gateway's projection of the game (internal/world, cmd/gateway): what  *)
(* it learns from the players' heartbeats, moves and wars over three queues  *)
(* of its own, and how it forgets players it no longer hears of.             *)
(*                                                                           *)
(* Time passes in Ticks, of which an interval of the configuration is a      *)
(* whole number; what happens between two ticks takes no time. The           *)
(* projection has an army of a player as some message carried it, or a       *)
(* Guess, its own idea of what a war left of one.                            *)
EXTENDS Integers, Sequences, FiniteSets, Functions

CONSTANTS
    Player,
    Army,                    \* what a player's units can amount to
    Guess,
    HeartbeatInterval, TTL,  \* configuration
    Delay,                   \* a message is handled this long after, or earlier
    MaxQueue                 \* bound: messages in a queue

(* The last conjunct is what the configuration should see to: nothing in the *)
(* code relates the TTL to the interval.                                     *)
ASSUME GatewayAssumption ==
    /\ Guess \notin Army
    /\ {HeartbeatInterval, TTL} \subseteq Nat \ {0}
    /\ {Delay, MaxQueue} \subseteq Nat
    /\ TTL % 3 = 0
    /\ HeartbeatInterval + Delay <= TTL

SweepInterval == TTL \div 3

VARIABLES
    client,                  \* process and connection: "out", "up", "down"
    army,                    \* GameState's units
    beat,                    \* time since the last tick of its heartbeat
    gateway,                 \* "out", "up", "down"
    stateq, moveq, warq,     \* gateway_state, gateway_moves, gateway_wars
    players,                 \* World.players
    sweep,                   \* time since dropStale's last tick
    \* measured for the promises:
    linked,                  \* time both player and gateway are connected
    calm                     \* time since the army changed, a war named the
                             \* player, or it left

game    == <<client, army, beat>>
queues  == <<stateq, moveq, warq>>
vars    == <<game, gateway, queues, players, sweep, linked, calm>>

(* When a promise is due, and the next tick, when it must have been kept.    *)
(* Longer times are all the same.                                            *)
After(time) == time + 1
Shown   == After(HeartbeatInterval + Delay)
Settled == After(HeartbeatInterval + 2 * Delay)
Dropped == After(TTL + SweepInterval + Delay)
Long    == IF Settled > Dropped THEN Settled ELSE Dropped

States == [player : Player, army : Army, age : 0..Delay]
Sides  == {named \in SUBSET Player : Cardinality(named) \in {1, 2}}
Wars   == UNION {[armies : [named -> Army], beaten : SUBSET named, age : 0..Delay] :
                    named \in Sides}

TypeOK ==
    /\ client \in [Player -> {"out", "up", "down"}]
    /\ army \in [Player -> Army]
    /\ beat \in [Player -> 0..HeartbeatInterval]
    /\ gateway \in {"out", "up", "down"}
    /\ stateq \in Seq(States) /\ moveq \in Seq(States) /\ warq \in Seq(Wars)
    /\ DOMAIN players \subseteq Player
    /\ \A p \in DOMAIN players : players[p] \in [army : Army \cup {Guess}, age : 0..After(TTL)]
    /\ sweep \in 0..SweepInterval
    /\ linked \in [Player -> 0..Shown]
    /\ calm \in [Player -> 0..Long]

Init ==
    /\ client = [p \in Player |-> "out"]
    /\ army \in [Player -> Army]
    /\ beat = [p \in Player |-> 0]
    /\ gateway = "out"
    /\ stateq = <<>>
    /\ moveq = <<>>
    /\ warq = <<>>
    /\ players = <<>>
    /\ sweep = 0
    /\ linked = [p \in Player |-> 0]
    /\ calm = [p \in Player |-> 0]
-----------------------------------------------------------------------------
(* The players.                                                              *)

HasRoom(queue) == Len(queue) < MaxQueue

(* The heartbeat of a new client is due at once.                             *)
Join(p) ==
    /\ client[p] = "out"
    /\ HasRoom(stateq)
    /\ client' = [client EXCEPT ![p] = "up"]
    /\ beat' = [beat EXCEPT ![p] = HeartbeatInterval]
    /\ UNCHANGED <<army, gateway, queues, players, sweep, linked, calm>>

(* The next process of that name starts with another army.                   *)
Exit(p) ==
    /\ client[p] # "out"
    /\ client' = [client EXCEPT ![p] = "out"]
    /\ beat' = [beat EXCEPT ![p] = 0]
    /\ \E a \in Army : army' = [army EXCEPT ![p] = a]
    /\ linked' = [linked EXCEPT ![p] = 0]
    /\ calm' = [calm EXCEPT ![p] = 0]
    /\ UNCHANGED <<gateway, queues, players, sweep>>

Disconnect(p) ==
    /\ client[p] = "up"
    /\ client' = [client EXCEPT ![p] = "down"]
    /\ linked' = [linked EXCEPT ![p] = 0]
    /\ calm' = [calm EXCEPT ![p] = 0]
    /\ UNCHANGED <<army, beat, gateway, queues, players, sweep>>

Reconnect(p) ==
    /\ client[p] = "down"
    /\ client' = [client EXCEPT ![p] = "up"]
    /\ UNCHANGED <<army, beat, gateway, queues, players, sweep, linked, calm>>

(* A spawn, a move or a war.                                                 *)
Change(p) ==
    /\ client[p] # "out"
    /\ \E a \in Army : army' = [army EXCEPT ![p] = a]
    /\ calm' = [calm EXCEPT ![p] = 0]
    /\ UNCHANGED <<client, beat, gateway, queues, players, sweep, linked>>

(* GetPlayerSnap; an army that changes now may do so between the snapshot    *)
(* and the publish.                                                          *)
Snapshots(p) == IF calm[p] = 0 THEN Army ELSE {army[p]}

Publish(queue, message) ==
    queue' = IF gateway = "up" THEN Append(queue, message) ELSE queue

(* Mutant of Heartbeat: the timer is not set again.                          *)
HeartbeatOnce(p) ==
    /\ client[p] # "out"
    /\ beat[p] = HeartbeatInterval
    /\ beat' = [beat EXCEPT ![p] = @ + 1]
    /\ UNCHANGED <<client, army, gateway, queues, players, sweep, linked, calm>>

(* publishHeartbeats: at once, then at every tick of the ticker. An error is *)
(* only logged.                                                              *)
Heartbeat(p) ==
    /\ client[p] # "out"
    /\ beat[p] = HeartbeatInterval
    /\ beat' = [beat EXCEPT ![p] = 0]
    /\ IF client[p] = "up"
       THEN \E a \in Snapshots(p) : Publish(stateq, [player |-> p, army |-> a, age |-> 0])
       ELSE UNCHANGED stateq
    /\ UNCHANGED <<client, army, gateway, moveq, warq, players, sweep, linked, calm>>

PublishMove(p) ==
    /\ client[p] = "up"
    /\ HasRoom(moveq)
    /\ \E a \in Snapshots(p) : Publish(moveq, [player |-> p, army |-> a, age |-> 0])
    /\ UNCHANGED <<game, gateway, stateq, warq, players, sweep, linked, calm>>

(* Somebody recognises a war that names one or two of the players: the       *)
(* defender with its army, the attacker with that of an earlier move, which  *)
(* may be old and its player long gone.                                      *)
PublishWar(named) ==
    /\ HasRoom(warq)
    /\ \E armies \in [named -> Army], beaten \in SUBSET named :
          Publish(warq, [armies |-> armies, beaten |-> beaten, age |-> 0])
    /\ calm' = [p \in Player |-> IF p \in named THEN 0 ELSE calm[p]]
    /\ UNCHANGED <<game, gateway, stateq, moveq, players, sweep, linked>>
-----------------------------------------------------------------------------
(* The gateway's process.                                                    *)

StartGateway ==
    /\ gateway = "out"
    /\ gateway' = "up"
    /\ sweep' = 0
    /\ UNCHANGED <<game, queues, players, linked, calm>>

NoQueues == stateq' = <<>> /\ moveq' = <<>> /\ warq' = <<>>

Unlinked == linked' = [p \in Player |-> 0]

(* The transient queues go with the connection; dropStale keeps running.     *)
GatewayDisconnects ==
    /\ gateway = "up"
    /\ gateway' = "down"
    /\ NoQueues
    /\ Unlinked
    /\ UNCHANGED <<game, players, sweep, calm>>

GatewayReconnects ==
    /\ gateway = "down"
    /\ gateway' = "up"
    /\ UNCHANGED <<game, queues, players, sweep, linked, calm>>

StopGateway ==
    /\ gateway # "out"
    /\ gateway' = "out"
    /\ players' = <<>>
    /\ sweep' = 0
    /\ NoQueues
    /\ Unlinked
    /\ UNCHANGED <<game, calm>>

(* setPlayer for each of some players: the whole army, and seen now.         *)
SetPlayers(armies) ==
    [p \in DOMAIN players \cup DOMAIN armies |->
        IF p \in DOMAIN armies THEN [army |-> armies[p], age |-> 0] ELSE players[p]]

SetPlayer(m) == SetPlayers([p \in {m.player} |-> m.army])

(* Mutant of ApplyPlayerState: a known player is only seen again.            *)
ApplyPlayerStateSeen ==
    /\ stateq # <<>>
    /\ LET m == Head(stateq) IN
         players' = SetPlayer(IF m.player \in DOMAIN players
                              THEN [m EXCEPT !.army = players[m.player].army] ELSE m)
    /\ stateq' = Tail(stateq)
    /\ UNCHANGED <<game, gateway, moveq, warq, sweep, linked, calm>>

ApplyPlayerState ==
    /\ stateq # <<>>
    /\ players' = SetPlayer(Head(stateq))
    /\ stateq' = Tail(stateq)
    /\ UNCHANGED <<game, gateway, moveq, warq, sweep, linked, calm>>

ApplyMove ==
    /\ moveq # <<>>
    /\ players' = SetPlayer(Head(moveq))
    /\ moveq' = Tail(moveq)
    /\ UNCHANGED <<game, gateway, stateq, warq, sweep, linked, calm>>

(* The armies as the recognition has them, less the units of the beaten      *)
(* where the war was.                                                        *)
ApplyWar ==
    /\ warq # <<>>
    /\ LET w == Head(warq)
       IN  players' = SetPlayers([p \in DOMAIN w.armies |->
                                    IF p \in w.beaten THEN Guess ELSE w.armies[p]])
    /\ warq' = Tail(warq)
    /\ UNCHANGED <<game, gateway, stateq, moveq, sweep, linked, calm>>

(* Mutants of Stale: the wrong duration; a player at war is kept.            *)
StaleSweep(p) == players[p].age > SweepInterval
StaleKeepsGuesses(p) == players[p].age > TTL /\ players[p].army # Guess

Stale(p) == players[p].age > TTL

DropStale ==
    /\ gateway # "out"
    /\ sweep = SweepInterval
    /\ sweep' = 0
    /\ players' = Restrict(players, {p \in DOMAIN players : ~Stale(p)})
    /\ UNCHANGED <<game, gateway, queues, linked, calm>>
-----------------------------------------------------------------------------
(* Time passes when nothing is due.                                          *)
Older(time, most) == IF time < most THEN time + 1 ELSE most
Age(queue) == [i \in DOMAIN queue |-> [queue[i] EXCEPT !.age = @ + 1]]

Tick ==
    /\ \A p \in Player : client[p] # "out" => beat[p] < HeartbeatInterval
    /\ gateway # "out" => sweep < SweepInterval
    /\ \A q \in {stateq, moveq, warq} : \A i \in DOMAIN q : q[i].age < Delay
    /\ beat' = [p \in Player |-> IF client[p] = "out" THEN 0 ELSE beat[p] + 1]
    /\ sweep' = IF gateway = "out" THEN 0 ELSE sweep + 1
    /\ stateq' = Age(stateq)
    /\ moveq' = Age(moveq)
    /\ warq' = Age(warq)
    /\ players' = [p \in DOMAIN players |->
            [players[p] EXCEPT !.age = Older(@, After(TTL))]]
    /\ linked' = [p \in Player |-> IF client[p] = "up" /\ gateway = "up"
                                   THEN Older(linked[p], Shown) ELSE 0]
    /\ calm' = [p \in Player |-> Older(calm[p], Long)]
    /\ UNCHANGED <<client, army, gateway>>

Next ==
    \/ \E p \in Player : \/ Join(p) \/ Exit(p) \/ Disconnect(p) \/ Reconnect(p)
                         \/ Change(p) \/ Heartbeat(p) \/ PublishMove(p)
    \/ \E named \in Sides : PublishWar(named)
    \/ StartGateway \/ GatewayDisconnects \/ GatewayReconnects \/ StopGateway
    \/ ApplyPlayerState \/ ApplyMove \/ ApplyWar \/ DropStale
    \/ Tick

Spec == Init /\ [][Next]_vars
-----------------------------------------------------------------------------
(* A player is on the map one heartbeat interval, and the delay of a         *)
(* message, after both the player and the gateway are connected, and stays:  *)
(* restarts of the gateway and sweeps that meet a late heartbeat included.   *)
PlayersAreShown == \A p \in Player : linked[p] = Shown => p \in DOMAIN players

(* A player who left or is cut off is off the map after the TTL, a sweep and *)
(* the delay of its last message, unless a war has named it since.           *)
GhostsAreDropped ==
    \A p \in Player : client[p] # "up" /\ calm[p] >= Dropped => p \notin DOMAIN players

(* Three queues that carry no version may show an older army after a newer   *)
(* one, and wars are guessed at; an interval and twice the delay after the   *)
(* last of it the map shows the army as it is.                               *)
MapSettles ==
    \A p \in Player :
        linked[p] = Shown /\ calm[p] >= Settled =>
            p \in DOMAIN players /\ players[p].army = army[p]
=============================================================================
