---------------------------- MODULE GatewayProofs ----------------------------
(* What the projection promises, for any players, armies, intervals and      *)
(* delays and queues of any length: players are shown in time, those who     *)
(* left are dropped in time and the map settles.                             *)
EXTENDS Gateway, SequenceTheorems, TLAPS

(* The configuration's numbers are numbers.                                  *)
LEMMA Numbers ==
    /\ HeartbeatInterval \in Nat /\ TTL \in Nat /\ Delay \in Nat
    /\ HeartbeatInterval > 0 /\ TTL > 0
    /\ HeartbeatInterval + Delay <= TTL
    /\ SweepInterval \in Nat
    /\ Shown = HeartbeatInterval + Delay + 1 /\ Shown \in Nat
    /\ Settled = HeartbeatInterval + 2 * Delay + 1
    /\ Dropped = TTL + SweepInterval + Delay + 1
    /\ After(TTL) = TTL + 1
    /\ Long \in Nat /\ Long >= Settled /\ Long >= Dropped
<1>1. TTL \in Nat /\ TTL > 0 /\ TTL % 3 = 0  BY GatewayAssumption
<1>2. TTL \div 3 \in Nat  BY <1>1
<1> QED  BY <1>2, GatewayAssumption DEF SweepInterval, Shown, Settled, Dropped, Long, After

(* An army is not a guess.                                                   *)
LEMMA NoGuess == Guess \notin Army
BY GatewayAssumption

(* What becomes of the players when some of them are heard of.               *)
LEMMA SetPlayersFacts ==
    ASSUME NEW armies
    PROVE  /\ DOMAIN SetPlayers(armies) = DOMAIN players \cup DOMAIN armies
           /\ \A p \in DOMAIN armies : SetPlayers(armies)[p] = [army |-> armies[p], age |-> 0]
           /\ \A p \in DOMAIN players \ DOMAIN armies : SetPlayers(armies)[p] = players[p]
BY DEF SetPlayers

(* The same for one player.                                                  *)
LEMMA SetPlayerFacts ==
    ASSUME NEW m
    PROVE  /\ DOMAIN SetPlayer(m) = DOMAIN players \cup {m.player}
           /\ SetPlayer(m)[m.player] = [army |-> m.army, age |-> 0]
           /\ \A p \in DOMAIN players : p # m.player => SetPlayer(m)[p] = players[p]
<1> DEFINE one == [p \in {m.player} |-> m.army]
<1>1. DOMAIN one = {m.player} /\ one[m.player] = m.army  OBVIOUS
<1> HIDE DEF one
<1> QED  BY <1>1, SetPlayersFacts, Zenon DEF SetPlayer, one

(* A queue whose first message is taken.                                     *)
LEMMA TailFacts ==
    ASSUME NEW S, NEW q \in Seq(S), q # <<>>
    PROVE  /\ Head(q) \in S /\ Head(q) = q[1] /\ 1 \in DOMAIN q
           /\ Tail(q) \in Seq(S)
           /\ \A i \in DOMAIN Tail(q) : i + 1 \in DOMAIN q /\ Tail(q)[i] = q[i + 1]
           /\ \A i \in DOMAIN q : i = 1 \/ (i - 1 \in DOMAIN Tail(q) /\ Tail(q)[i - 1] = q[i])
<1>1. Len(q) \in Nat /\ DOMAIN q = 1..Len(q) /\ Len(q) > 0  OBVIOUS
<1>2. Tail(q) \in Seq(S) /\ Len(Tail(q)) = Len(q) - 1 /\ DOMAIN Tail(q) = 1..Len(q) - 1
  BY <1>1
<1>3. \A i \in 1..Len(q) - 1 : Tail(q)[i] = q[i + 1]  BY <1>1
<1> QED  BY <1>1, <1>2, <1>3

(* A queue that gets a message.                                              *)
LEMMA AppendFacts ==
    ASSUME NEW S, NEW q \in Seq(S), NEW m \in S
    PROVE  /\ Append(q, m) \in Seq(S)
           /\ \A i \in DOMAIN Append(q, m) :
                 (i \in DOMAIN q /\ Append(q, m)[i] = q[i]) \/ Append(q, m)[i] = m
           /\ \A i \in DOMAIN q : i \in DOMAIN Append(q, m) /\ Append(q, m)[i] = q[i]
           /\ Len(q) + 1 \in DOMAIN Append(q, m) /\ Append(q, m)[Len(q) + 1] = m
OBVIOUS

(* An older queue of states or of wars is a queue of them.                   *)
LEMMA AgeFacts ==
    ASSUME NEW q
    PROVE  /\ DOMAIN Age(q) = DOMAIN q
           /\ \A i \in DOMAIN q : Age(q)[i] = [q[i] EXCEPT !.age = @ + 1]
BY DEF Age

(* A queue of states or moves a tick older, while nothing in it is at its    *)
(* limit.                                                                    *)
LEMMA AgeStates ==
    ASSUME NEW q \in Seq(States), \A i \in DOMAIN q : q[i].age < Delay
    PROVE  /\ Age(q) \in Seq(States)
           /\ \A i \in DOMAIN q : /\ Age(q)[i].player = q[i].player
                                  /\ Age(q)[i].army = q[i].army
                                  /\ Age(q)[i].age = q[i].age + 1
<1>1. Len(q) \in Nat /\ DOMAIN q = 1..Len(q)  OBVIOUS
<1>2. ASSUME NEW i \in 1..Len(q)
      PROVE  q[i] \in States /\ q[i].age \in 0..Delay /\ q[i].age + 1 \in 0..Delay
  <2>1. q[i] \in States /\ q[i].age < Delay  BY <1>1
  <2> QED  BY <2>1, Numbers DEF States
<1>3. \A i \in 1..Len(q) : [q[i] EXCEPT !.age = @ + 1] \in States
  BY <1>2 DEF States
<1>4. Age(q) = [i \in 1..Len(q) |-> [q[i] EXCEPT !.age = @ + 1]]  BY <1>1 DEF Age
<1>5. Age(q) \in [1..Len(q) -> States]  BY <1>3, <1>4
<1>6. Age(q) \in Seq(States)  BY <1>1, <1>5
<1>7. \A i \in 1..Len(q) : Age(q)[i] = [q[i] EXCEPT !.age = @ + 1]  BY <1>4
<1>8. \A m \in States : LET older == [m EXCEPT !.age = @ + 1]
                        IN  /\ older.player = m.player /\ older.army = m.army
                            /\ older.age = m.age + 1
  BY DEF States
<1>9. \A i \in DOMAIN q : q[i] \in States  BY <1>1, <1>2
<1> QED  BY <1>1, <1>6, <1>7, <1>8, <1>9

(* What a recognition in a queue is made of.                                 *)
LEMMA WarElim ==
    ASSUME NEW w \in Wars
    PROVE  /\ DOMAIN w.armies \in Sides /\ DOMAIN w.armies \subseteq Player
           /\ \A p \in DOMAIN w.armies : w.armies[p] \in Army
           /\ w.age \in 0..Delay
<1>1. PICK named \in Sides : w \in [armies : [named -> Army], beaten : SUBSET named, age : 0..Delay]
  BY DEF Wars
<1> QED  BY <1>1 DEF Sides

(* A queue of recognitions a tick older.                                     *)
LEMMA AgeWars ==
    ASSUME NEW q \in Seq(Wars), \A i \in DOMAIN q : q[i].age < Delay
    PROVE  /\ Age(q) \in Seq(Wars)
           /\ \A i \in DOMAIN q : Age(q)[i].armies = q[i].armies /\ Age(q)[i].age = q[i].age + 1
<1>1. Len(q) \in Nat /\ DOMAIN q = 1..Len(q)  OBVIOUS
<1>2. ASSUME NEW i \in 1..Len(q)
      PROVE  /\ [q[i] EXCEPT !.age = @ + 1] \in Wars
             /\ [q[i] EXCEPT !.age = @ + 1].armies = q[i].armies
             /\ [q[i] EXCEPT !.age = @ + 1].age = q[i].age + 1
  <2>1. q[i] \in Wars /\ q[i].age < Delay  BY <1>1
  <2>2. PICK named \in Sides :
            q[i] \in [armies : [named -> Army], beaten : SUBSET named, age : 0..Delay]
    BY <2>1 DEF Wars
  <2>3. q[i].age \in 0..Delay /\ q[i].age + 1 \in 0..Delay  BY <2>1, <2>2, Numbers
  <2>4. [q[i] EXCEPT !.age = @ + 1] \in
            [armies : [named -> Army], beaten : SUBSET named, age : 0..Delay]
    BY <2>2, <2>3
  <2> QED  BY <2>2, <2>4 DEF Wars
<1>4. Age(q) = [i \in 1..Len(q) |-> [q[i] EXCEPT !.age = @ + 1]]  BY <1>1 DEF Age
<1>5. Age(q) \in [1..Len(q) -> Wars]  BY <1>2, <1>4
<1>6. Age(q) \in Seq(Wars)  BY <1>1, <1>5
<1> QED  BY <1>1, <1>2, <1>4, <1>6

(* The time since something, cut off.                                        *)
LEMMA OlderFacts ==
    ASSUME NEW most \in Nat, NEW time \in 0..most
    PROVE  /\ Older(time, most) \in 0..most
           /\ time <= Older(time, most) /\ Older(time, most) <= time + 1
           /\ time < most => Older(time, most) = time + 1
BY DEF Older
-----------------------------------------------------------------------------
(* A publish puts at most its message into the queue.                        *)
LEMMA PublishType ==
    ASSUME NEW S, NEW q \in Seq(S), NEW m \in S, NEW r,
           r = IF gateway = "up" THEN Append(q, m) ELSE q
    PROVE  r \in Seq(S)
BY AppendFacts

(* Being heard of with an army makes a well-formed entry.                    *)
LEMMA SetPlayersType ==
    ASSUME TypeOK, NEW armies, DOMAIN armies \subseteq Player,
           \A p \in DOMAIN armies : armies[p] \in Army \cup {Guess},
           players' = SetPlayers(armies)
    PROVE  /\ DOMAIN players' \subseteq Player
           /\ \A p \in DOMAIN players' :
                 players'[p] \in [army : Army \cup {Guess}, age : 0..After(TTL)]
<1>1. /\ DOMAIN players \subseteq Player
      /\ \A p \in DOMAIN players :
            players[p] \in [army : Army \cup {Guess}, age : 0..After(TTL)]
  BY DEF TypeOK
<1>2. /\ DOMAIN players' = DOMAIN players \cup DOMAIN armies
      /\ \A p \in DOMAIN armies : players'[p] = [army |-> armies[p], age |-> 0]
      /\ \A p \in DOMAIN players \ DOMAIN armies : players'[p] = players[p]
  BY SetPlayersFacts, Zenon
<1>3. 0 \in 0..After(TTL)  BY Numbers
<1>4. ASSUME NEW p \in DOMAIN armies
      PROVE  players'[p] \in [army : Army \cup {Guess}, age : 0..After(TTL)]
  BY <1>2, <1>3
<1> QED  BY <1>1, <1>2, <1>4

(* What a message says of its player is a snapshot of the right type.        *)
LEMMA SetPlayerType ==
    ASSUME TypeOK, NEW m \in States, players' = SetPlayer(m)
    PROVE  /\ DOMAIN players' \subseteq Player
           /\ \A p \in DOMAIN players' :
                 players'[p] \in [army : Army \cup {Guess}, age : 0..After(TTL)]
<1> DEFINE one == [p \in {m.player} |-> m.army]
<1>1. m.player \in Player /\ m.army \in Army  BY DEF States
<1>2. DOMAIN one \subseteq Player /\ \A p \in DOMAIN one : one[p] \in Army \cup {Guess}
  BY <1>1
<1>3. players' = SetPlayers(one)  BY DEF SetPlayer
<1> HIDE DEF one
<1> QED  BY <1>2, <1>3, SetPlayersType

(* A snapshot shows an army.                                                 *)
LEMMA SnapshotsType == ASSUME TypeOK, NEW p \in Player PROVE Snapshots(p) \subseteq Army
BY DEF TypeOK, Snapshots

(* Every step keeps the types.                                               *)
LEMMA TypeStep == TypeOK /\ [Next]_vars => TypeOK'
<1> SUFFICES ASSUME TypeOK, [Next]_vars PROVE TypeOK'
  OBVIOUS
<1> USE Numbers
<1>1. ASSUME NEW p \in Player, Join(p) \/ Exit(p) \/ Disconnect(p) \/ Reconnect(p) \/ Change(p)
      PROVE  TypeOK'
  <2>1. client' \in [Player -> {"out", "up", "down"}]
    BY <1>1 DEF TypeOK, Join, Exit, Disconnect, Reconnect, Change
  <2>2. army' \in [Player -> Army]
    BY <1>1 DEF TypeOK, Join, Exit, Disconnect, Reconnect, Change
  <2>3. beat' = beat \/ \E b \in {0, HeartbeatInterval} : beat' = [beat EXCEPT ![p] = b]
    BY <1>1 DEF Join, Exit, Disconnect, Reconnect, Change
  <2>4. beat' \in [Player -> 0..HeartbeatInterval]
    <3>1. beat \in [Player -> 0..HeartbeatInterval]  BY DEF TypeOK
    <3>2. {0, HeartbeatInterval} \subseteq 0..HeartbeatInterval  OBVIOUS
    <3> QED  BY <2>3, <3>1, <3>2
  <2>5. linked' = linked \/ linked' = [linked EXCEPT ![p] = 0]
    BY <1>1 DEF Join, Exit, Disconnect, Reconnect, Change
  <2>6. calm' = calm \/ calm' = [calm EXCEPT ![p] = 0]
    BY <1>1 DEF Join, Exit, Disconnect, Reconnect, Change
  <2>7. linked' \in [Player -> 0..Shown] /\ calm' \in [Player -> 0..Long]
    <3>1. linked \in [Player -> 0..Shown] /\ calm \in [Player -> 0..Long]  BY DEF TypeOK
    <3>2. 0 \in 0..Shown /\ 0 \in 0..Long  OBVIOUS
    <3>3. linked' \in [Player -> 0..Shown]  BY <2>5, <3>1, <3>2
    <3> QED  BY <2>6, <3>1, <3>2, <3>3
  <2>8. UNCHANGED <<gateway, queues, players, sweep>>
    BY <1>1 DEF Join, Exit, Disconnect, Reconnect, Change
  <2> QED  BY <2>1, <2>2, <2>4, <2>7, <2>8 DEF TypeOK, queues
<1>2. ASSUME NEW p \in Player, Heartbeat(p) PROVE TypeOK'
  <2>1. stateq' \in Seq(States)
    <3>1. CASE client[p] = "up"
      <4>1. PICK a \in Snapshots(p) : Publish(stateq, [player |-> p, army |-> a, age |-> 0])
        BY <1>2, <3>1 DEF Heartbeat
      <4>2. [player |-> p, army |-> a, age |-> 0] \in States  BY SnapshotsType DEF States
      <4> QED  BY <4>1, <4>2, PublishType DEF TypeOK, Publish
    <3> QED  BY <1>2, <3>1 DEF Heartbeat, TypeOK
  <2>2. beat' \in [Player -> 0..HeartbeatInterval]  BY <1>2 DEF TypeOK, Heartbeat
  <2> QED  BY <1>2, <2>1, <2>2 DEF TypeOK, Heartbeat
<1>3. ASSUME NEW p \in Player, PublishMove(p) PROVE TypeOK'
  <2>1. moveq' \in Seq(States)
    <3>1. PICK a \in Snapshots(p) : Publish(moveq, [player |-> p, army |-> a, age |-> 0])
      BY <1>3 DEF PublishMove
    <3>2. [player |-> p, army |-> a, age |-> 0] \in States  BY SnapshotsType DEF States
    <3> QED  BY <3>1, <3>2, PublishType DEF TypeOK, Publish
  <2> QED  BY <1>3, <2>1 DEF TypeOK, PublishMove, game
<1>4. ASSUME NEW named \in Sides, PublishWar(named) PROVE TypeOK'
  <2>1. warq' \in Seq(Wars)
    <3>1. PICK armies \in [named -> Army], beaten \in SUBSET named :
              Publish(warq, [armies |-> armies, beaten |-> beaten, age |-> 0])
      BY <1>4 DEF PublishWar
    <3>2. [armies |-> armies, beaten |-> beaten, age |-> 0] \in
              [armies : [named -> Army], beaten : SUBSET named, age : 0..Delay]
      OBVIOUS
    <3>3. [armies |-> armies, beaten |-> beaten, age |-> 0] \in Wars  BY <3>2 DEF Wars
    <3> QED  BY <3>1, <3>3, PublishType DEF TypeOK, Publish
  <2> QED  BY <1>4, <2>1 DEF TypeOK, PublishWar, game
<1>5. CASE StartGateway \/ GatewayDisconnects \/ GatewayReconnects \/ StopGateway
  <2>1. /\ gateway' \in {"out", "up", "down"}
        /\ sweep' \in {sweep, 0}
        /\ linked' \in {linked, [p \in Player |-> 0]}
        /\ UNCHANGED <<game, calm>>
    BY <1>5 DEF StartGateway, GatewayDisconnects, GatewayReconnects, StopGateway, Unlinked
  <2>5. sweep' \in 0..SweepInterval /\ linked' \in [Player -> 0..Shown]
    <3>1. sweep \in 0..SweepInterval /\ linked \in [Player -> 0..Shown]  BY DEF TypeOK
    <3>2. 0 \in 0..SweepInterval /\ 0 \in 0..Shown  OBVIOUS
    <3>3. [p \in Player |-> 0] \in [Player -> 0..Shown]  BY <3>2
    <3> QED  BY <2>1, <3>1, <3>2, <3>3
  <2>2. /\ stateq' \in {stateq, <<>>} /\ moveq' \in {moveq, <<>>} /\ warq' \in {warq, <<>>}
    BY <1>5 DEF StartGateway, GatewayDisconnects, GatewayReconnects, StopGateway,
                NoQueues, queues
  <2>3. players' = players \/ players' = <<>>
    BY <1>5 DEF StartGateway, GatewayDisconnects, GatewayReconnects, StopGateway
  <2>4. DOMAIN <<>> = {} /\ <<>> \in Seq(States) /\ <<>> \in Seq(Wars)  OBVIOUS
  <2> QED  BY <2>1, <2>2, <2>3, <2>4, <2>5 DEF TypeOK, game
<1>6. CASE ApplyPlayerState
  <2>1. Head(stateq) \in States /\ stateq' \in Seq(States)
    BY <1>6, TailFacts DEF TypeOK, ApplyPlayerState
  <2> QED  BY <1>6, <2>1, SetPlayerType DEF TypeOK, ApplyPlayerState, game
<1>7. CASE ApplyMove
  <2>1. Head(moveq) \in States /\ moveq' \in Seq(States)
    BY <1>7, TailFacts DEF TypeOK, ApplyMove
  <2> QED  BY <1>7, <2>1, SetPlayerType DEF TypeOK, ApplyMove, game
<1>8. CASE ApplyWar
  <2> DEFINE w == Head(warq)
             armies == [p \in DOMAIN w.armies |-> IF p \in w.beaten THEN Guess ELSE w.armies[p]]
  <2>1. w \in Wars /\ warq' \in Seq(Wars)  BY <1>8, TailFacts DEF TypeOK, ApplyWar
  <2>2. /\ DOMAIN armies \subseteq Player
        /\ \A p \in DOMAIN armies : armies[p] \in Army \cup {Guess}
    BY <2>1, WarElim
  <2>3. players' = SetPlayers(armies)  BY <1>8 DEF ApplyWar
  <2> HIDE DEF armies
  <2> QED  BY <1>8, <2>1, <2>2, <2>3, SetPlayersType DEF TypeOK, ApplyWar, game
<1>9. CASE DropStale
  BY <1>9 DEF TypeOK, DropStale, Restrict, game, queues
<1>10. CASE Tick
  <2>1. /\ stateq' \in Seq(States) /\ moveq' \in Seq(States) /\ warq' \in Seq(Wars)
    BY <1>10, AgeStates, AgeWars DEF TypeOK, Tick
  <2>2. \A p \in Player : beat[p] \in 0..HeartbeatInterval  BY DEF TypeOK
  <2>3. \A p \in Player :
            (IF client[p] = "out" THEN 0 ELSE beat[p] + 1) \in 0..HeartbeatInterval
    BY <1>10, <2>2 DEF Tick
  <2>4. beat' \in [Player -> 0..HeartbeatInterval]  BY <1>10, <2>3 DEF Tick
  <2>5. sweep' \in 0..SweepInterval
    <3>1. sweep \in 0..SweepInterval  BY DEF TypeOK
    <3>2. /\ gateway # "out" => sweep < SweepInterval
          /\ sweep' = IF gateway = "out" THEN 0 ELSE sweep + 1
      BY <1>10 DEF Tick
    <3> QED  BY <3>1, <3>2
  <2>6. \A p \in Player : /\ Older(linked[p], Shown) \in 0..Shown
                           /\ Older(calm[p], Long) \in 0..Long
    BY OlderFacts DEF TypeOK
  <2>7. linked' \in [Player -> 0..Shown] /\ calm' \in [Player -> 0..Long]
    BY <1>10, <2>6 DEF Tick
  <2>8. After(TTL) \in Nat  OBVIOUS
  <2>9. \A p \in DOMAIN players : [players[p] EXCEPT !.age = Older(@, After(TTL))]
                                      \in [army : Army \cup {Guess}, age : 0..After(TTL)]
    <3> SUFFICES ASSUME NEW p \in DOMAIN players
                 PROVE  [players[p] EXCEPT !.age = Older(@, After(TTL))]
                            \in [army : Army \cup {Guess}, age : 0..After(TTL)]
      OBVIOUS
    <3>1. players[p] \in [army : Army \cup {Guess}, age : 0..After(TTL)]  BY DEF TypeOK
    <3>2. Older(players[p].age, After(TTL)) \in 0..After(TTL)  BY <2>8, <3>1, OlderFacts
    <3> QED  BY <3>1, <3>2
  <2>10. /\ DOMAIN players' \subseteq Player
         /\ \A p \in DOMAIN players' :
               players'[p] \in [army : Army \cup {Guess}, age : 0..After(TTL)]
    BY <1>10, <2>9 DEF TypeOK, Tick
  <2> QED  BY <1>10, <2>1, <2>4, <2>5, <2>7, <2>10 DEF TypeOK, Tick
<1>11. CASE UNCHANGED vars
  BY <1>11 DEF TypeOK, vars, game, queues
<1> QED  BY <1>1, <1>2, <1>3, <1>4, <1>5, <1>6, <1>7, <1>8, <1>9, <1>10, <1>11 DEF Next

(* The projection keeps its types, whatever the queues hold.                 *)
THEOREM TypeCorrect == Spec => []TypeOK
<1>1. Init => TypeOK
  BY Numbers DEF Init, TypeOK
<1> QED  BY <1>1, TypeStep, PTL DEF Spec
-----------------------------------------------------------------------------
(* Time is counted only while both ends are connected, a gateway that is not *)
(* connected has no queues, and one that does not run knows nobody.          *)
LinkInv ==
    /\ \A p \in Player : linked[p] > 0 => client[p] = "up" /\ gateway = "up"
    /\ gateway # "up" => stateq = <<>> /\ moveq = <<>> /\ warq = <<>>
    /\ gateway = "out" => DOMAIN players = {}

(* An empty queue stays empty.                                               *)
LEMMA AgeOfNothing == Age(<<>>) = <<>>
<1>1. DOMAIN <<>> = {} /\ <<>> = [i \in {} |-> 0]  OBVIOUS
<1>2. Age(<<>>) \in [{} -> {0}] /\ <<>> \in [{} -> {0}]  BY <1>1 DEF Age
<1> QED  BY <1>2

(* Queues live and die with their gateway, whatever the step.                *)
LEMMA LinkStep == TypeOK /\ LinkInv /\ [Next]_vars => LinkInv'
<1> SUFFICES ASSUME TypeOK, LinkInv, [Next]_vars PROVE LinkInv'
  OBVIOUS
<1> USE DEF LinkInv
<1>0. linked \in [Player -> Nat] /\ client \in [Player -> {"out", "up", "down"}]
  <2>1. linked \in [Player -> 0..Shown] /\ client \in [Player -> {"out", "up", "down"}]
    BY DEF TypeOK
  <2>2. 0..Shown \subseteq Nat  BY Numbers
  <2> QED  BY <2>1, <2>2
<1>1. ASSUME NEW p \in Player, Join(p) \/ Exit(p) \/ Disconnect(p) \/ Reconnect(p) \/ Change(p)
      PROVE  LinkInv'
  BY <1>0, <1>1 DEF Join, Exit, Disconnect, Reconnect, Change, queues
<1>2. ASSUME NEW p \in Player, Heartbeat(p) \/ PublishMove(p) PROVE LinkInv'
  BY <1>2 DEF Heartbeat, PublishMove, Publish, game
<1>3. ASSUME NEW named \in Sides, PublishWar(named) PROVE LinkInv'
  BY <1>3 DEF PublishWar, Publish, game
<1>4. CASE StartGateway \/ GatewayDisconnects \/ GatewayReconnects \/ StopGateway
  <2>1. DOMAIN <<>> = {}  OBVIOUS
  <2> QED  BY <1>0, <1>4, <2>1 DEF StartGateway, GatewayDisconnects, GatewayReconnects,
                                   StopGateway, Unlinked, NoQueues, game, queues
<1>5. CASE ApplyPlayerState \/ ApplyMove \/ ApplyWar
  <2>1. UNCHANGED <<game, gateway, linked>>  BY <1>5 DEF ApplyPlayerState, ApplyMove, ApplyWar
  <2>2. gateway = "up"  BY <1>5 DEF ApplyPlayerState, ApplyMove, ApplyWar
  <2> QED  BY <2>1, <2>2 DEF game
<1>6. CASE DropStale
  BY <1>6 DEF DropStale, Restrict, game, queues
<1>7. CASE Tick
  BY <1>0, <1>7, AgeOfNothing DEF Tick
<1>8. CASE UNCHANGED vars
  BY <1>8 DEF vars, game, queues
<1> QED  BY <1>1, <1>2, <1>3, <1>4, <1>5, <1>6, <1>7, <1>8 DEF Next
-----------------------------------------------------------------------------
(* What the queues say of a player that was left alone for the time c and    *)
(* has the army a: no message is younger than c, or those that are have a.   *)
Old(q, p, c)      == \A i \in DOMAIN q : q[i].player = p => c <= q[i].age
OldWars(q, p, c)  == \A i \in DOMAIN q : p \in DOMAIN q[i].armies => c <= q[i].age
Right(q, p, c, a) == \A i \in DOMAIN q : q[i].player = p /\ q[i].age < c => q[i].army = a

(* Nobody publishes the army of a player who is not connected, nor an army   *)
(* that is not its own; and a war that names it ends its quiet time.         *)
QueuesAgree(p) ==
    /\ client[p] # "up" => Old(stateq, p, calm[p]) /\ Old(moveq, p, calm[p])
    /\ Right(stateq, p, calm[p], army[p]) /\ Right(moveq, p, calm[p], army[p])
    /\ OldWars(warq, p, calm[p])

QueueInv == \A p \in Player : QueuesAgree(p)

(* What the queues hold agrees with a player whose last change is just now.  *)
LEMMA FreshStart ==
    ASSUME NEW p, NEW a
    PROVE  /\ \A q \in Seq(States) : Old(q, p, 0) /\ Right(q, p, 0, a)
           /\ \A q \in Seq(Wars) : OldWars(q, p, 0)
<1>1. ASSUME NEW q \in Seq(States) PROVE Old(q, p, 0) /\ Right(q, p, 0, a)
  <2>1. \A i \in DOMAIN q : q[i] \in States  OBVIOUS
  <2>2. \A i \in DOMAIN q : q[i].age \in Nat  BY <2>1, Numbers DEF States
  <2> QED  BY <2>2 DEF Old, Right
<1>2. ASSUME NEW q \in Seq(Wars) PROVE OldWars(q, p, 0)
  <2>1. \A i \in DOMAIN q : q[i] \in Wars  OBVIOUS
  <2>2. \A i \in DOMAIN q : q[i].age \in Nat  BY <2>1, WarElim, Numbers
  <2> QED  BY <2>2 DEF OldWars
<1> QED  BY <1>1, <1>2

(* A message handled leaves the others of the queue as they were.            *)
LEMMA TailKeeps ==
    ASSUME NEW p, NEW c, NEW a
    PROVE  /\ \A q \in Seq(States) : q # <<>> =>
                 /\ Old(q, p, c) => Old(Tail(q), p, c)
                 /\ Right(q, p, c, a) => Right(Tail(q), p, c, a)
           /\ \A q \in Seq(Wars) : q # <<>> => (OldWars(q, p, c) => OldWars(Tail(q), p, c))
<1>1. ASSUME NEW q \in Seq(States), q # <<>>
      PROVE  \A i \in DOMAIN Tail(q) : i + 1 \in DOMAIN q /\ Tail(q)[i] = q[i + 1]
  BY <1>1, TailFacts
<1>2. ASSUME NEW q \in Seq(Wars), q # <<>>
      PROVE  \A i \in DOMAIN Tail(q) : i + 1 \in DOMAIN q /\ Tail(q)[i] = q[i + 1]
  BY <1>2, TailFacts
<1> QED  BY <1>1, <1>2 DEF Old, Right, OldWars

(* A message that agrees with its player may join the queue.                 *)
LEMMA AppendKeeps ==
    ASSUME NEW q \in Seq(States), NEW m \in States, NEW p, NEW c, NEW a
    PROVE  /\ Old(q, p, c) /\ (m.player = p => c <= m.age) => Old(Append(q, m), p, c)
           /\ Right(q, p, c, a) /\ (m.player = p /\ m.age < c => m.army = a)
                => Right(Append(q, m), p, c, a)
BY AppendFacts DEF Old, Right

(* So may a recognition.                                                     *)
LEMMA AppendWarKeeps ==
    ASSUME NEW q \in Seq(Wars), NEW w \in Wars, NEW p, NEW c, OldWars(q, p, c),
           p \in DOMAIN w.armies => c <= w.age
    PROVE  OldWars(Append(q, w), p, c)
BY AppendFacts DEF OldWars

(* The messages age as fast as the time since the last change.               *)
LEMMA AgeKeeps ==
    ASSUME NEW q \in Seq(States), \A i \in DOMAIN q : q[i].age < Delay,
           NEW p, NEW c \in Nat, NEW d \in Nat, d <= c + 1, NEW a
    PROVE  /\ Old(q, p, c) => Old(Age(q), p, d)
           /\ Right(q, p, c, a) => Right(Age(q), p, d, a)
<1>1. \A i \in DOMAIN q : q[i] \in States  OBVIOUS
<1>2. \A i \in DOMAIN q : q[i].age \in Nat  BY <1>1, Numbers DEF States
<1>3. DOMAIN Age(q) = DOMAIN q  BY AgeFacts
<1>4. \A i \in DOMAIN q : /\ Age(q)[i].player = q[i].player
                          /\ Age(q)[i].army = q[i].army
                          /\ Age(q)[i].age = q[i].age + 1
  BY AgeStates
<1>5. \A i \in DOMAIN q : c <= q[i].age => d <= Age(q)[i].age  BY <1>2, <1>4
<1> QED  BY <1>3, <1>4, <1>5, <1>2 DEF Old, Right

(* So do recognitions.                                                       *)
LEMMA AgeWarsKeeps ==
    ASSUME NEW q \in Seq(Wars), \A i \in DOMAIN q : q[i].age < Delay,
           NEW p, NEW c \in Nat, NEW d \in Nat, d <= c + 1, OldWars(q, p, c)
    PROVE  OldWars(Age(q), p, d)
<1>1. \A i \in DOMAIN q : q[i] \in Wars  OBVIOUS
<1>2. \A i \in DOMAIN q : q[i].age \in Nat  BY <1>1, WarElim, Numbers
<1> QED  BY <1>2, AgeWars, AgeFacts DEF OldWars

(* Every step keeps the queues in agreement with the players' last changes.  *)
LEMMA QueueStep == TypeOK /\ QueueInv /\ [Next]_vars => QueueInv'
<1> SUFFICES ASSUME TypeOK, QueueInv, [Next]_vars, NEW p \in Player
             PROVE  QueuesAgree(p)'
  BY DEF QueueInv
<1>0. /\ calm \in [Player -> Nat] /\ calm[p] \in Nat
      /\ client \in [Player -> {"out", "up", "down"}] /\ army \in [Player -> Army]
      /\ stateq \in Seq(States) /\ moveq \in Seq(States) /\ warq \in Seq(Wars)
  <2>1. calm \in [Player -> 0..Long]  BY DEF TypeOK
  <2>2. calm \in [Player -> Nat]  BY <2>1, Numbers
  <2> QED  BY <2>2 DEF TypeOK
<1>inv. QueuesAgree(p)  BY DEF QueueInv
<1> USE DEF QueuesAgree
<1>1. ASSUME NEW q \in Player, Join(q) \/ Exit(q) \/ Disconnect(q) \/ Reconnect(q) \/ Change(q)
      PROVE  QueuesAgree(p)'
  <2>1. UNCHANGED <<stateq, moveq, warq>>
    BY <1>1 DEF Join, Exit, Disconnect, Reconnect, Change, queues
  <2>2. \/ calm'[p] = 0
        \/ calm'[p] = calm[p] /\ army'[p] = army[p] /\ (client'[p] = "up" \/ client'[p] = client[p])
    BY <1>0, <1>1 DEF Join, Exit, Disconnect, Reconnect, Change
  <2> QED  BY <1>0, <1>inv, <2>1, <2>2, FreshStart
<1>2. ASSUME NEW q \in Player, Heartbeat(q)
      PROVE  QueuesAgree(p)'
  <2>1. UNCHANGED <<client, army, calm, moveq, warq>>  BY <1>2 DEF Heartbeat
  <2>2. CASE stateq' = stateq  BY <1>inv, <2>1, <2>2
  <2>3. CASE stateq' # stateq
    <3>1. client[q] = "up"  BY <1>2, <2>3 DEF Heartbeat
    <3>2. PICK a \in Snapshots(q) : stateq' = Append(stateq, [player |-> q, army |-> a, age |-> 0])
      BY <1>2, <2>3, <3>1 DEF Heartbeat, Publish
    <3> DEFINE m == [player |-> q, army |-> a, age |-> 0]
    <3>3. m \in States  BY SnapshotsType, Numbers DEF States
    <3>4. m.player = p /\ m.age < calm[p] => m.army = army[p]
      BY <1>0 DEF Snapshots
    <3>5. client[p] # "up" => m.player # p  BY <3>1
    <3> HIDE DEF m
    <3>6. stateq' = Append(stateq, m)  BY <3>2 DEF m
    <3> QED  BY <1>0, <1>inv, <2>1, <3>3, <3>4, <3>5, <3>6, AppendKeeps
  <2> QED  BY <2>2, <2>3
<1>3. ASSUME NEW q \in Player, PublishMove(q)
      PROVE  QueuesAgree(p)'
  <2>1. UNCHANGED <<client, army, calm, stateq, warq>>  BY <1>3 DEF PublishMove, game
  <2>2. CASE moveq' = moveq  BY <1>inv, <2>1, <2>2
  <2>3. CASE moveq' # moveq
    <3>1. client[q] = "up"  BY <1>3 DEF PublishMove
    <3>2. PICK a \in Snapshots(q) : moveq' = Append(moveq, [player |-> q, army |-> a, age |-> 0])
      BY <1>3, <2>3 DEF PublishMove, Publish
    <3> DEFINE m == [player |-> q, army |-> a, age |-> 0]
    <3>3. m \in States  BY SnapshotsType, Numbers DEF States
    <3>4. m.player = p /\ m.age < calm[p] => m.army = army[p]
      BY <1>0 DEF Snapshots
    <3>5. client[p] # "up" => m.player # p  BY <3>1
    <3> HIDE DEF m
    <3>6. moveq' = Append(moveq, m)  BY <3>2 DEF m
    <3> QED  BY <1>0, <1>inv, <2>1, <3>3, <3>4, <3>5, <3>6, AppendKeeps
  <2> QED  BY <2>2, <2>3
<1>4. ASSUME NEW named \in Sides, PublishWar(named)
      PROVE  QueuesAgree(p)'
  <2>1. UNCHANGED <<client, army, stateq, moveq>>  BY <1>4 DEF PublishWar, game
  <2>2. calm'[p] = IF p \in named THEN 0 ELSE calm[p]  BY <1>4 DEF PublishWar
  <2>3. PICK armies \in [named -> Army], beaten \in SUBSET named :
            Publish(warq, [armies |-> armies, beaten |-> beaten, age |-> 0])
    BY <1>4 DEF PublishWar
  <2> DEFINE w == [armies |-> armies, beaten |-> beaten, age |-> 0]
  <2>4. w \in [armies : [named -> Army], beaten : SUBSET named, age : 0..Delay]
    BY Numbers
  <2>5. w \in Wars /\ DOMAIN w.armies = named /\ w.age = 0  BY <2>4 DEF Wars
  <2> HIDE DEF w
  <2>6. warq' = warq \/ warq' = Append(warq, w)  BY <2>3 DEF Publish, w
  <2>7. warq' \in Seq(Wars)
    <3>1. warq \in Seq(Wars) /\ w \in Wars  BY <1>0, <2>5
    <3>2. Append(warq, w) \in Seq(Wars)  BY <3>1, AppendFacts
    <3> QED  BY <2>6, <3>1, <3>2
  <2>8. CASE p \in named  BY <1>0, <2>1, <2>2, <2>7, <2>8, FreshStart
  <2>9. CASE p \notin named
    <3>1. OldWars(Append(warq, w), p, calm[p])  BY <1>0, <1>inv, <2>5, <2>9, AppendWarKeeps
    <3> QED  BY <1>inv, <2>1, <2>2, <2>6, <2>9, <3>1
  <2> QED  BY <2>8, <2>9
<1>5. CASE StartGateway \/ GatewayDisconnects \/ GatewayReconnects \/ StopGateway
  <2>1. UNCHANGED <<client, army, calm>>
    BY <1>5 DEF StartGateway, GatewayDisconnects, GatewayReconnects, StopGateway, game
  <2>2. /\ stateq' \in {stateq, <<>>} /\ moveq' \in {moveq, <<>>} /\ warq' \in {warq, <<>>}
    BY <1>5 DEF StartGateway, GatewayDisconnects, GatewayReconnects, StopGateway,
                NoQueues, queues
  <2>3. Old(<<>>, p, calm[p]) /\ Right(<<>>, p, calm[p], army[p]) /\ OldWars(<<>>, p, calm[p])
    BY DEF Old, Right, OldWars
  <2> QED  BY <1>inv, <2>1, <2>2, <2>3
<1>6. CASE ApplyPlayerState \/ ApplyMove \/ ApplyWar
  <2>1. UNCHANGED game  BY <1>6 DEF ApplyPlayerState, ApplyMove, ApplyWar
  <2>2. UNCHANGED calm  BY <1>6 DEF ApplyPlayerState, ApplyMove, ApplyWar
  <2>3. /\ stateq' = stateq \/ (stateq # <<>> /\ stateq' = Tail(stateq))
        /\ moveq' = moveq \/ (moveq # <<>> /\ moveq' = Tail(moveq))
        /\ warq' = warq \/ (warq # <<>> /\ warq' = Tail(warq))
    BY <1>6, Zenon DEF ApplyPlayerState, ApplyMove, ApplyWar
  <2>4. Old(stateq, p, calm[p]) => Old(stateq', p, calm[p])  BY <1>0, <2>3, TailKeeps
  <2>5. Old(moveq, p, calm[p]) => Old(moveq', p, calm[p])  BY <1>0, <2>3, TailKeeps
  <2>6. /\ Right(stateq', p, calm[p], army[p]) /\ Right(moveq', p, calm[p], army[p])
        /\ OldWars(warq', p, calm[p])
    BY <1>0, <1>inv, <2>3, TailKeeps
  <2> QED  BY <1>inv, <2>1, <2>2, <2>4, <2>5, <2>6 DEF game
<1>7. CASE DropStale
  BY <1>7, <1>inv DEF DropStale, game, queues
<1>8. CASE Tick
  <2>1. UNCHANGED <<client, army>>  BY <1>8 DEF Tick
  <2>2. /\ stateq' = Age(stateq) /\ \A i \in DOMAIN stateq : stateq[i].age < Delay
        /\ moveq' = Age(moveq) /\ \A i \in DOMAIN moveq : moveq[i].age < Delay
        /\ warq' = Age(warq) /\ \A i \in DOMAIN warq : warq[i].age < Delay
    BY <1>8 DEF Tick
  <2>3. calm[p] \in 0..Long  BY DEF TypeOK
  <2>4. calm'[p] \in Nat /\ calm'[p] <= calm[p] + 1
    BY <1>8, <2>3, OlderFacts, Numbers DEF Tick
  <2>5. /\ Old(stateq, p, calm[p]) => Old(stateq', p, calm'[p])
        /\ Right(stateq', p, calm'[p], army[p])
    BY <1>0, <1>inv, <2>2, <2>4, AgeKeeps
  <2>6. /\ Old(moveq, p, calm[p]) => Old(moveq', p, calm'[p])
        /\ Right(moveq', p, calm'[p], army[p])
    BY <1>0, <1>inv, <2>2, <2>4, AgeKeeps
  <2>7. OldWars(warq', p, calm'[p])  BY <1>0, <1>inv, <2>2, <2>4, AgeWarsKeeps
  <2> QED  BY <1>inv, <2>1, <2>5, <2>6, <2>7
<1>9. CASE UNCHANGED vars
  BY <1>9, <1>inv DEF vars, game, queues
<1> QED  BY <1>1, <1>2, <1>3, <1>4, <1>5, <1>6, <1>7, <1>8, <1>9 DEF Next
-----------------------------------------------------------------------------
(* Of a player who is not connected the map may know something as long as it *)
(* was heard of: at most Delay after it fell silent; and after the TTL until *)
(* the next sweep.                                                           *)
Fading(p) ==
    client[p] # "up" /\ p \in DOMAIN players =>
        IF players[p].age <= TTL THEN calm[p] <= players[p].age + Delay
                                 ELSE calm[p] <= TTL + Delay + sweep

(* An entry that was last heard of longer ago than Delay after the last      *)
(* change has the army.                                                      *)
Settling(p) ==
    p \in DOMAIN players /\ players[p].age <= TTL /\ players[p].age + Delay < calm[p] =>
        players[p].army = army[p]

MapInv == \A p \in Player : Fading(p) /\ Settling(p)

(* A message that is handled says no more than it may.                       *)
LEMMA HeardState ==
    ASSUME TypeOK, NEW q \in Seq(States), q # <<>>, players' = SetPlayer(Head(q)),
           NEW p \in Player,
           client[p] # "up" => Old(q, p, calm[p]), Right(q, p, calm[p], army[p]),
           Fading(p), Settling(p), UNCHANGED <<client, army, calm, sweep>>
    PROVE  Fading(p)' /\ Settling(p)'
<1> DEFINE m == Head(q)
<1>1. m \in States /\ m = q[1] /\ 1 \in DOMAIN q  BY TailFacts
<1>2. /\ DOMAIN players' = DOMAIN players \cup {m.player}
      /\ players'[m.player] = [army |-> m.army, age |-> 0]
      /\ p \in DOMAIN players /\ p # m.player => players'[p] = players[p]
  BY SetPlayerFacts
<1>3. calm[p] \in Nat /\ m.age \in 0..Delay
  <2>1. calm \in [Player -> 0..Long]  BY DEF TypeOK
  <2> QED  BY <1>1, <2>1, Numbers DEF States
<1>4. client[p] # "up" /\ m.player = p => calm[p] <= m.age  BY <1>1 DEF Old
<1>5. m.player = p /\ m.age < calm[p] => m.army = army[p]  BY <1>1 DEF Right
<1> HIDE DEF m
<1>6. CASE m.player = p
  <2>1. players'[p].age = 0 /\ players'[p].army = m.army  BY <1>2, <1>6
  <2> QED  BY <1>3, <1>4, <1>5, <1>6, <2>1, Numbers DEF Fading, Settling
<1>7. CASE m.player # p
  BY <1>2, <1>7 DEF Fading, Settling
<1> QED  BY <1>6, <1>7

(* Every step keeps what the map knows fading, or right.                     *)
LEMMA MapStep == TypeOK /\ LinkInv /\ QueueInv /\ MapInv /\ [Next]_vars => MapInv'
<1> SUFFICES ASSUME TypeOK, LinkInv, QueueInv, MapInv, [Next]_vars, NEW p \in Player
             PROVE  Fading(p)' /\ Settling(p)'
  BY DEF MapInv
<1>0. /\ calm \in [Player -> 0..Long] /\ calm \in [Player -> Nat]
      /\ client \in [Player -> {"out", "up", "down"}] /\ army \in [Player -> Army]
  <2>1. calm \in [Player -> 0..Long]  BY DEF TypeOK
  <2>2. calm \in [Player -> Nat]  BY <2>1, Numbers
  <2> QED  BY <2>1, <2>2 DEF TypeOK
<1>q. stateq \in Seq(States) /\ moveq \in Seq(States) /\ warq \in Seq(Wars)  BY DEF TypeOK
<1>p. p \in DOMAIN players => players[p].age \in 0..TTL + 1
  BY Numbers DEF TypeOK
<1>inv. QueuesAgree(p) /\ Fading(p) /\ Settling(p)  BY DEF QueueInv, MapInv
<1>1. ASSUME NEW q \in Player, Join(q) \/ Exit(q) \/ Disconnect(q) \/ Reconnect(q) \/ Change(q)
      PROVE  Fading(p)' /\ Settling(p)'
  <2>1. UNCHANGED <<players, sweep>>
    BY <1>1 DEF Join, Exit, Disconnect, Reconnect, Change
  <2>2. \/ calm'[p] = 0
        \/ calm'[p] = calm[p] /\ army'[p] = army[p] /\ (client'[p] = "up" \/ client'[p] = client[p])
    BY <1>0, <1>1 DEF Join, Exit, Disconnect, Reconnect, Change
  <2>3. sweep \in Nat  BY Numbers DEF TypeOK
  <2> QED  BY <1>inv, <1>p, <2>1, <2>2, <2>3, Numbers DEF Fading, Settling
<1>2. ASSUME NEW q \in Player, Heartbeat(q) \/ PublishMove(q)
      PROVE  Fading(p)' /\ Settling(p)'
  <2>1. UNCHANGED <<client, army, calm, players, sweep>>
    BY <1>2 DEF Heartbeat, PublishMove, game
  <2> QED  BY <1>inv, <2>1 DEF Fading, Settling
<1>3. ASSUME NEW named \in Sides, PublishWar(named)
      PROVE  Fading(p)' /\ Settling(p)'
  <2>1. UNCHANGED <<client, army, players, sweep>>
    BY <1>3 DEF PublishWar, game
  <2>2. calm'[p] = 0 \/ calm'[p] = calm[p]  BY <1>3 DEF PublishWar
  <2>3. sweep \in Nat  BY Numbers DEF TypeOK
  <2> QED  BY <1>inv, <1>p, <2>1, <2>2, <2>3, Numbers DEF Fading, Settling
<1>4. CASE StartGateway \/ GatewayDisconnects \/ GatewayReconnects \/ StopGateway
  <2>1. UNCHANGED <<client, army, calm>>
    BY <1>4 DEF StartGateway, GatewayDisconnects, GatewayReconnects, StopGateway, game
  <2>2. DOMAIN players' = {} \/ UNCHANGED <<players, sweep>>
    <3>1. DOMAIN <<>> = {}  OBVIOUS
    <3> QED  BY <1>4, <3>1 DEF StartGateway, GatewayDisconnects, GatewayReconnects, StopGateway,
                               LinkInv
  <2> QED  BY <1>inv, <2>1, <2>2 DEF Fading, Settling
<1>5. CASE ApplyPlayerState
  BY <1>5, <1>inv, <1>q, HeardState DEF ApplyPlayerState, QueuesAgree, game
<1>6. CASE ApplyMove
  BY <1>6, <1>inv, <1>q, HeardState DEF ApplyMove, QueuesAgree, game
<1>7. CASE ApplyWar
  <2> DEFINE w == Head(warq)
             armies == [r \in DOMAIN w.armies |-> IF r \in w.beaten THEN Guess ELSE w.armies[r]]
  <2>1. w \in Wars /\ w = warq[1] /\ 1 \in DOMAIN warq
    BY <1>7, <1>q, TailFacts DEF ApplyWar
  <2>2. players' = SetPlayers(armies) /\ UNCHANGED <<client, army, calm, sweep>>
    BY <1>7 DEF ApplyWar, game
  <2>3. p \in DOMAIN w.armies => calm[p] <= Delay
    <3>1. w.age \in 0..Delay  BY <2>1, WarElim
    <3> QED  BY <1>0, <1>inv, <2>1, <3>1, Numbers DEF QueuesAgree, OldWars
  <2>4. DOMAIN armies = DOMAIN w.armies  OBVIOUS
  <2> HIDE DEF armies, w
  <2>5. /\ p \in DOMAIN w.armies => players'[p].age = 0
        /\ p \notin DOMAIN w.armies => /\ p \in DOMAIN players' => p \in DOMAIN players
                                       /\ p \in DOMAIN players => players'[p] = players[p]
    <3>1. /\ DOMAIN players' = DOMAIN players \cup DOMAIN armies
          /\ \A r \in DOMAIN armies : players'[r] = [army |-> armies[r], age |-> 0]
          /\ \A r \in DOMAIN players \ DOMAIN armies : players'[r] = players[r]
      BY <2>2, SetPlayersFacts, Zenon
    <3>2. CASE p \in DOMAIN armies
      <4>1. players'[p] = [army |-> armies[p], age |-> 0]  BY <3>1, <3>2
      <4>2. players'[p].age = 0  BY <4>1
      <4> QED  BY <2>4, <3>2, <4>2
    <3>3. CASE p \notin DOMAIN armies  BY <2>4, <3>1, <3>3
    <3> QED  BY <3>2, <3>3
  <2> QED  BY <1>0, <1>inv, <2>2, <2>3, <2>5, Numbers DEF Fading, Settling
<1>8. CASE DropStale
  <2>1. UNCHANGED <<client, army, calm>>  BY <1>8 DEF DropStale, game
  <2>2. /\ p \in DOMAIN players' => p \in DOMAIN players /\ players[p].age <= TTL
        /\ p \in DOMAIN players' => players'[p] = players[p]
    BY <1>8, <1>p, Numbers DEF DropStale, Restrict, Stale
  <2> QED  BY <1>inv, <2>1, <2>2 DEF Fading, Settling
<1>9. CASE Tick
  <2>1. UNCHANGED <<client, army, gateway>>  BY <1>9 DEF Tick
  <2>2. calm'[p] \in Nat /\ calm'[p] <= calm[p] + 1
    <3>1. calm'[p] = Older(calm[p], Long) /\ calm[p] \in 0..Long  BY <1>0, <1>9 DEF Tick
    <3>2. Long \in Nat  BY Numbers
    <3> QED  BY <3>1, <3>2, OlderFacts
  <2>3. DOMAIN players' = DOMAIN players  BY <1>9 DEF Tick
  <2>4. ASSUME p \in DOMAIN players
        PROVE  /\ players'[p].army = players[p].army
               /\ players'[p].age \in 0..TTL + 1
               /\ players[p].age <= TTL => players'[p].age = players[p].age + 1
               /\ players[p].age > TTL => players'[p].age = TTL + 1
    <3>1. players[p] \in [army : Army \cup {Guess}, age : 0..After(TTL)]
      BY <2>4 DEF TypeOK
    <3>2. players'[p] = [players[p] EXCEPT !.age = Older(players[p].age, After(TTL))]
      BY <1>9, <2>4 DEF Tick
    <3>3. players'[p].army = players[p].army /\ players'[p].age = Older(players[p].age, After(TTL))
      BY <3>1, <3>2
    <3> QED  BY <3>1, <3>3, <1>p, <2>4, Numbers DEF Older
  <2>5. p \in DOMAIN players => sweep \in Nat /\ sweep' = sweep + 1
    BY <1>9, Numbers DEF Tick, TypeOK, LinkInv
  <2>6. Fading(p)'
    BY <1>0, <1>inv, <1>p, <2>1, <2>2, <2>3, <2>4, <2>5, Numbers DEF Fading
  <2>7. Settling(p)'
    BY <1>0, <1>inv, <1>p, <2>1, <2>2, <2>3, <2>4, Numbers DEF Settling
  <2> QED  BY <2>6, <2>7
<1>10. CASE UNCHANGED vars
  BY <1>10, <1>inv DEF Fading, Settling, vars, game
<1> QED  BY <1>1, <1>2, <1>3, <1>4, <1>5, <1>6, <1>7, <1>8, <1>9, <1>10 DEF Next
-----------------------------------------------------------------------------
(* The map has heard of p, or is about to, as it was a ago or later.         *)
Heard(p, a) ==
    \/ \E i \in DOMAIN stateq : stateq[i].player = p /\ stateq[i].age = a
    \/ p \in DOMAIN players /\ players[p].age <= a

(* While both are connected every stretch of a heartbeat interval, up to the *)
(* last heartbeat, has one that arrives.                                     *)
Beating(p) ==
    \A e \in Nat : beat[p] <= e /\ e < linked[p] =>
        \E a \in Nat : e < a + HeartbeatInterval /\ a <= e /\ Heard(p, a)

BeatInv == \A p \in Player : Beating(p)

(* A step that forgets neither messages nor players keeps what was heard.    *)
LEMMA HeardKeeps ==
    ASSUME NEW p, beat'[p] = beat[p], linked'[p] = linked[p] \/ linked'[p] = 0,
           linked[p] \in Nat, beat[p] \in Nat,
           \A a \in Nat : a < linked[p] /\ linked'[p] # 0 /\ Heard(p, a) => Heard(p, a)',
           Beating(p)
    PROVE  Beating(p)'
<1> SUFFICES ASSUME NEW e \in Nat, beat'[p] <= e, e < linked'[p]
             PROVE  \E a \in Nat : e < a + HeartbeatInterval /\ a <= e /\ Heard(p, a)'
  BY DEF Beating
<1>1. linked'[p] = linked[p] /\ linked'[p] # 0  OBVIOUS
<1>2. PICK a \in Nat : e < a + HeartbeatInterval /\ a <= e /\ Heard(p, a)
  BY <1>1 DEF Beating
<1>3. Heard(p, a)'  BY <1>1, <1>2
<1> QED  BY <1>2, <1>3

(* Every step keeps a heartbeat on the map or on its way to it.              *)
LEMMA BeatStep == TypeOK /\ LinkInv /\ BeatInv /\ [Next]_vars => BeatInv'
<1> SUFFICES ASSUME TypeOK, LinkInv, BeatInv, [Next]_vars, NEW p \in Player
             PROVE  Beating(p)'
  BY DEF BeatInv
<1>0. /\ linked \in [Player -> 0..Shown] /\ beat \in [Player -> 0..HeartbeatInterval]
      /\ linked[p] \in Nat /\ beat[p] \in Nat /\ linked[p] <= Shown
      /\ client \in [Player -> {"out", "up", "down"}]
  <2>1. linked \in [Player -> 0..Shown] /\ beat \in [Player -> 0..HeartbeatInterval]
    BY DEF TypeOK
  <2>2. linked[p] \in 0..Shown /\ beat[p] \in 0..HeartbeatInterval  BY <2>1
  <2> QED  BY <2>1, <2>2, Numbers DEF TypeOK
<1>q. stateq \in Seq(States)  BY DEF TypeOK
<1>p. p \in DOMAIN players => players[p].age \in 0..TTL + 1
  BY Numbers DEF TypeOK
<1>inv. Beating(p)  BY DEF BeatInv
<1>1. ASSUME NEW q \in Player, Join(q) \/ Exit(q) \/ Disconnect(q) \/ Reconnect(q) \/ Change(q)
      PROVE  Beating(p)'
  <2>1. UNCHANGED <<players, stateq>>
    BY <1>1 DEF Join, Exit, Disconnect, Reconnect, Change, queues
  <2>2. \/ beat'[p] = beat[p] /\ (linked'[p] = linked[p] \/ linked'[p] = 0)
        \/ linked'[p] = 0
    BY <1>0, <1>1 DEF Join, Exit, Disconnect, Reconnect, Change, LinkInv
  <2>3. CASE linked'[p] = 0  BY <2>3 DEF Beating
  <2>4. CASE beat'[p] = beat[p] /\ linked'[p] = linked[p]
    BY <1>0, <1>inv, <2>1, <2>4, HeardKeeps DEF Heard
  <2> QED  BY <2>2, <2>3, <2>4
<1>2. ASSUME NEW q \in Player, Heartbeat(q) PROVE Beating(p)'
  <2>1. UNCHANGED <<client, gateway, players, linked>>  BY <1>2 DEF Heartbeat
  <2>2. stateq' = stateq \/ \E m \in States : stateq' = Append(stateq, m)
    <3>1. CASE client[q] = "up"
      <4>1. PICK a \in Snapshots(q) : Publish(stateq, [player |-> q, army |-> a, age |-> 0])
        BY <1>2, <3>1 DEF Heartbeat
      <4>2. [player |-> q, army |-> a, age |-> 0] \in States
        BY SnapshotsType, Numbers DEF States
      <4> QED  BY <4>1, <4>2 DEF Publish
    <3>2. CASE client[q] # "up"  BY <1>2, <3>2 DEF Heartbeat
    <3> QED  BY <3>1, <3>2
  <2>3. \A a \in Nat : Heard(p, a) => Heard(p, a)'
    BY <1>q, <2>1, <2>2, AppendFacts DEF Heard
  <2>4. CASE q # p
    <3>1. beat'[p] = beat[p]  BY <1>0, <1>2, <2>4 DEF Heartbeat
    <3> QED  BY <1>0, <1>inv, <2>1, <2>3, <3>1, HeardKeeps
  <2>5. CASE q = p
    <3> SUFFICES ASSUME NEW e \in Nat, e < linked[p]
                 PROVE  \E a \in Nat : e < a + HeartbeatInterval /\ a <= e /\ Heard(p, a)'
      BY <2>1 DEF Beating
    <3>1. beat[p] = HeartbeatInterval  BY <1>2, <2>5 DEF Heartbeat
    <3>2. CASE e >= HeartbeatInterval
      BY <1>inv, <2>3, <3>1, <3>2 DEF Beating
    <3>3. CASE e < HeartbeatInterval
      <4>1. client[p] = "up" /\ gateway = "up"  BY <1>0 DEF LinkInv
      <4>2. PICK a \in Snapshots(p) :
                stateq' = Append(stateq, [player |-> p, army |-> a, age |-> 0])
        BY <1>2, <2>5, <4>1 DEF Heartbeat, Publish
      <4> DEFINE m == [player |-> p, army |-> a, age |-> 0]
      <4>3. m \in States /\ m.player = p /\ m.age = 0
        BY SnapshotsType, Numbers DEF States
      <4> HIDE DEF m
      <4>4. stateq' = Append(stateq, m)  BY <4>2 DEF m
      <4>5. \E i \in DOMAIN stateq' : stateq'[i] = m  BY <1>q, <4>3, <4>4, AppendFacts
      <4>6. Heard(p, 0)'  BY <4>3, <4>5 DEF Heard
      <4>7. 0 \in Nat /\ e < 0 + HeartbeatInterval /\ 0 <= e  BY <3>3, Numbers
      <4> QED  BY <4>6, <4>7
    <3> QED  BY <3>2, <3>3, Numbers
  <2> QED  BY <2>4, <2>5
<1>3. ASSUME NEW q \in Player, PublishMove(q) PROVE Beating(p)'
  <2>1. UNCHANGED <<beat, linked, players, stateq>>  BY <1>3 DEF PublishMove, game
  <2> QED  BY <1>0, <1>inv, <2>1, HeardKeeps DEF Heard
<1>4. ASSUME NEW named \in Sides, PublishWar(named) PROVE Beating(p)'
  <2>1. UNCHANGED <<beat, linked, players, stateq>>  BY <1>4 DEF PublishWar, game
  <2> QED  BY <1>0, <1>inv, <2>1, HeardKeeps DEF Heard
<1>5. CASE StartGateway \/ GatewayReconnects
  <2>1. UNCHANGED <<beat, linked, players, stateq>>
    BY <1>5 DEF StartGateway, GatewayReconnects, game, queues
  <2> QED  BY <1>0, <1>inv, <2>1, HeardKeeps DEF Heard
<1>6. CASE GatewayDisconnects \/ StopGateway
  <2>1. linked'[p] = 0  BY <1>6 DEF GatewayDisconnects, StopGateway, Unlinked
  <2> QED  BY <2>1 DEF Beating
<1>7. CASE ApplyPlayerState
  <2> DEFINE m == Head(stateq)
  <2>1. /\ stateq # <<>> /\ stateq' = Tail(stateq) /\ players' = SetPlayer(m)
        /\ beat' = beat /\ linked' = linked
    BY <1>7 DEF ApplyPlayerState, game
  <2>2. /\ m = stateq[1] /\ m \in States
        /\ \A i \in DOMAIN stateq :
              i = 1 \/ (i - 1 \in DOMAIN stateq' /\ stateq'[i - 1] = stateq[i])
    BY <1>q, <2>1, TailFacts
  <2> HIDE DEF m
  <2>3. /\ DOMAIN players' = DOMAIN players \cup {m.player}
        /\ players'[m.player] = [army |-> m.army, age |-> 0]
        /\ p \in DOMAIN players /\ p # m.player => players'[p] = players[p]
    BY <2>1, SetPlayerFacts
  <2>4. \A a \in Nat : Heard(p, a) => Heard(p, a)'
    <3> SUFFICES ASSUME NEW a \in Nat, Heard(p, a) PROVE Heard(p, a)'
      OBVIOUS
    <3>1. CASE m.player = p  BY <2>3, <3>1 DEF Heard
    <3>2. CASE m.player # p
      <4>1. CASE \E i \in DOMAIN stateq : stateq[i].player = p /\ stateq[i].age = a
        BY <2>2, <3>2, <4>1 DEF Heard
      <4>2. CASE p \in DOMAIN players /\ players[p].age <= a
        BY <2>3, <3>2, <4>2 DEF Heard
      <4> QED  BY <4>1, <4>2 DEF Heard
    <3> QED  BY <3>1, <3>2
  <2> QED  BY <1>0, <1>inv, <2>1, <2>4, HeardKeeps
<1>8. CASE ApplyMove
  <2> DEFINE m == Head(moveq)
  <2>1. /\ players' = SetPlayer(m) /\ UNCHANGED <<stateq, beat, linked>>
    BY <1>8 DEF ApplyMove, game
  <2> HIDE DEF m
  <2>3. /\ DOMAIN players' = DOMAIN players \cup {m.player}
        /\ players'[m.player] = [army |-> m.army, age |-> 0]
        /\ p \in DOMAIN players /\ p # m.player => players'[p] = players[p]
    BY <2>1, SetPlayerFacts
  <2>4. \A a \in Nat : Heard(p, a) => Heard(p, a)'  BY <2>1, <2>3 DEF Heard
  <2> QED  BY <1>0, <1>inv, <2>1, <2>4, HeardKeeps
<1>9. CASE ApplyWar
  <2> DEFINE w == Head(warq)
             armies == [r \in DOMAIN w.armies |-> IF r \in w.beaten THEN Guess ELSE w.armies[r]]
  <2>1. players' = SetPlayers(armies) /\ UNCHANGED <<stateq, beat, linked>>
    BY <1>9 DEF ApplyWar, game
  <2> HIDE DEF armies
  <2>2. /\ DOMAIN players' = DOMAIN players \cup DOMAIN armies
        /\ \A r \in DOMAIN armies : players'[r] = [army |-> armies[r], age |-> 0]
        /\ \A r \in DOMAIN players \ DOMAIN armies : players'[r] = players[r]
    BY <2>1, SetPlayersFacts, Zenon
  <2>3. p \in DOMAIN players => p \in DOMAIN players' /\ players'[p].age \in {0, players[p].age}
    BY <2>2
  <2>4. \A a \in Nat : Heard(p, a) => Heard(p, a)'
    <3> SUFFICES ASSUME NEW a \in Nat, Heard(p, a) PROVE Heard(p, a)'
      OBVIOUS
    <3>1. CASE p \in DOMAIN players /\ players[p].age <= a  BY <2>3, <3>1 DEF Heard
    <3> QED  BY <2>1, <3>1 DEF Heard
  <2> QED  BY <1>0, <1>inv, <2>1, <2>4, HeardKeeps
<1>10. CASE DropStale
  <2>1. UNCHANGED <<stateq, beat, linked>>  BY <1>10 DEF DropStale, game, queues
  <2>2. p \in DOMAIN players /\ players[p].age <= TTL =>
            p \in DOMAIN players' /\ players'[p] = players[p]
    BY <1>10, <1>p, Numbers DEF DropStale, Restrict, Stale
  <2>3. \A a \in Nat : a < linked[p] => a <= TTL  BY <1>0, Numbers
  <2>4. \A a \in Nat : a < linked[p] /\ Heard(p, a) => Heard(p, a)'
    BY <1>p, <2>1, <2>2, <2>3, Numbers DEF Heard
  <2> QED  BY <1>0, <1>inv, <2>1, <2>4, HeardKeeps
<1>11. CASE Tick
  <2> SUFFICES ASSUME NEW e \in Nat, beat'[p] <= e, e < linked'[p]
               PROVE  \E a \in Nat : e < a + HeartbeatInterval /\ a <= e /\ Heard(p, a)'
    BY DEF Beating
  <2>1. client[p] = "up"  BY <1>11 DEF Tick
  <2>2. beat'[p] = beat[p] + 1  BY <1>11, <2>1 DEF Tick
  <2>3. linked'[p] = Older(linked[p], Shown)  BY <1>11 DEF Tick
  <2>4. linked'[p] <= linked[p] + 1
    <3>1. linked[p] \in 0..Shown /\ Shown \in Nat  BY <1>0, Numbers
    <3> QED  BY <2>3, <3>1, OlderFacts
  <2>5. e - 1 \in Nat /\ beat[p] <= e - 1 /\ e - 1 < linked[p]
    <3>1. linked'[p] \in Nat  BY <1>0, <2>3, Numbers DEF Older
    <3> QED  BY <1>0, <2>2, <2>4, <3>1
  <2>6. PICK a \in Nat : e - 1 < a + HeartbeatInterval /\ a <= e - 1 /\ Heard(p, a)
    BY <1>inv, <2>5 DEF Beating
  <2>7. Heard(p, a + 1)'
    <3>1. CASE \E i \in DOMAIN stateq : stateq[i].player = p /\ stateq[i].age = a
      <4>1. stateq' = Age(stateq) /\ \A i \in DOMAIN stateq : stateq[i].age < Delay
        BY <1>11 DEF Tick
      <4>2. DOMAIN stateq' = DOMAIN stateq  BY <4>1, AgeFacts
      <4>3. \A i \in DOMAIN stateq : /\ stateq'[i].player = stateq[i].player
                                     /\ stateq'[i].age = stateq[i].age + 1
        BY <1>q, <4>1, AgeStates
      <4> QED  BY <3>1, <4>2, <4>3 DEF Heard
    <3>2. CASE p \in DOMAIN players /\ players[p].age <= a
      <4>1. players[p] \in [army : Army \cup {Guess}, age : 0..After(TTL)]
        BY <3>2 DEF TypeOK
      <4>2. /\ DOMAIN players' = DOMAIN players
            /\ players'[p] = [players[p] EXCEPT !.age = Older(players[p].age, After(TTL))]
        BY <1>11, <3>2 DEF Tick
      <4>3. players'[p].age = Older(players[p].age, After(TTL))  BY <4>1, <4>2
      <4> QED  BY <3>2, <4>1, <4>2, <4>3, Numbers DEF Heard, Older
    <3> QED  BY <2>6, <3>1, <3>2 DEF Heard
  <2> QED  BY <2>5, <2>6, <2>7, Numbers
<1>12. CASE UNCHANGED vars
  <2>1. UNCHANGED <<beat, linked, players, stateq>>  BY <1>12 DEF vars, game, queues
  <2> QED  BY <1>0, <1>inv, <2>1, HeardKeeps DEF Heard
<1> QED  BY <1>1, <1>2, <1>3, <1>4, <1>5, <1>6, <1>7, <1>8, <1>9, <1>10, <1>11, <1>12 DEF Next
-----------------------------------------------------------------------------
MapIsRight == TypeOK /\ LinkInv /\ QueueInv /\ MapInv /\ BeatInv

(* Together they hold of every reachable state.                              *)
LEMMA MapIsRightHolds == Spec => []MapIsRight
<1>1. Init => MapIsRight
  <2> SUFFICES ASSUME Init PROVE MapIsRight
    OBVIOUS
  <2>1. DOMAIN <<>> = {}  OBVIOUS
  <2>2. TypeOK  BY Numbers DEF Init, TypeOK
  <2>3. LinkInv  BY <2>1 DEF Init, LinkInv
  <2>4. QueueInv  BY <2>1 DEF Init, QueueInv, QueuesAgree, Old, Right, OldWars
  <2>5. MapInv  BY <2>1 DEF Init, MapInv, Fading, Settling
  <2>6. BeatInv  BY DEF Init, BeatInv, Beating
  <2> QED  BY <2>2, <2>3, <2>4, <2>5, <2>6 DEF MapIsRight
<1>2. MapIsRight /\ [Next]_vars => MapIsRight'
  BY TypeStep, LinkStep, QueueStep, MapStep, BeatStep DEF MapIsRight
<1> QED  BY <1>1, <1>2, PTL DEF Spec

(* A heartbeat of a connected player was heard in time: neither can the      *)
(* message still be under way nor has a sweep taken the player away.         *)
LEMMA HeardInTime ==
    ASSUME MapIsRight, NEW p \in Player, linked[p] = Shown
    PROVE  p \in DOMAIN players /\ players[p].age <= HeartbeatInterval + Delay
<1> DEFINE e == HeartbeatInterval + Delay
<1>1. e \in Nat /\ beat[p] <= e /\ e < linked[p]
  <2>1. beat[p] \in 0..HeartbeatInterval  BY DEF MapIsRight, TypeOK
  <2> QED  BY <2>1, Numbers
<1>2. Beating(p)  BY DEF MapIsRight, BeatInv
<1> HIDE DEF e
<1>3. PICK a \in Nat : e < a + HeartbeatInterval /\ a <= e /\ Heard(p, a)
  BY <1>1, <1>2 DEF Beating
<1>4. a > Delay  BY <1>3, Numbers DEF e
<1>5. \A i \in DOMAIN stateq : stateq[i].age <= Delay
  <2>1. stateq \in Seq(States)  BY DEF MapIsRight, TypeOK
  <2>2. \A i \in DOMAIN stateq : stateq[i] \in States  BY <2>1
  <2> QED  BY <2>2, Numbers DEF States
<1>6. p \in DOMAIN players /\ players[p].age <= a
  BY <1>3, <1>4, <1>5, Numbers DEF Heard
<1>7. players[p].age \in Nat  BY <1>6, Numbers DEF MapIsRight, TypeOK
<1> QED  BY <1>3, <1>6, <1>7, Numbers DEF e

(* A connected player is on the map in time and stays, if the TTL is no      *)
(* shorter than a heartbeat interval and the delay of a message.             *)
THEOREM Shows == Spec => []PlayersAreShown
<1>1. MapIsRight => PlayersAreShown
  BY HeardInTime DEF PlayersAreShown
<1> QED  BY <1>1, MapIsRightHolds, PTL

(* A player who left, or cannot be heard, is off the map in time.            *)
THEOREM Drops == Spec => []GhostsAreDropped
<1>1. MapIsRight => GhostsAreDropped
  <2> SUFFICES ASSUME MapIsRight, NEW p \in Player, client[p] # "up", calm[p] >= Dropped,
                      p \in DOMAIN players
               PROVE  FALSE
    BY DEF GhostsAreDropped
  <2>1. Fading(p)  BY DEF MapIsRight, MapInv
  <2>2. sweep \in 0..SweepInterval  BY DEF MapIsRight, TypeOK
  <2>3. players[p].age \in 0..TTL + 1  BY Numbers DEF MapIsRight, TypeOK
  <2>4. calm[p] \in 0..Long  BY DEF MapIsRight, TypeOK
  <2> QED  BY <2>1, <2>2, <2>3, <2>4, Numbers DEF Fading
<1> QED  BY <1>1, MapIsRightHolds, PTL

(* The map settles on the army of a player who is left alone.                *)
THEOREM Settles == Spec => []MapSettles
<1>1. MapIsRight => MapSettles
  <2> SUFFICES ASSUME MapIsRight, NEW p \in Player, linked[p] = Shown, calm[p] >= Settled
               PROVE  p \in DOMAIN players /\ players[p].army = army[p]
    BY DEF MapSettles
  <2>1. Settling(p)  BY DEF MapIsRight, MapInv
  <2>2. p \in DOMAIN players /\ players[p].age <= HeartbeatInterval + Delay  BY HeardInTime
  <2>3. players[p].age \in Nat  BY <2>2, Numbers DEF MapIsRight, TypeOK
  <2>4. calm[p] \in 0..Long  BY DEF MapIsRight, TypeOK
  <2> QED  BY <2>1, <2>2, <2>3, <2>4, Numbers DEF Settling
<1> QED  BY <1>1, MapIsRightHolds, PTL
=============================================================================
