--------------------------- MODULE GameClientsProofs ---------------------------
(* Type correctness of GameClients, for any number of players, places, ranks *)
(* and units and any bounds: Spec => []TypeOK. Lemmas about the operators    *)
(* first, then one lemma per action. MeetingProofs builds on this.           *)
EXTENDS GameClients, FiniteSetTheorems, SequenceTheorems, TLAPS

(* Putting a message back into a queue leaves a queue of messages.           *)
LEMMA InsertType ==
    ASSUME NEW S, NEW s \in Seq(S), NEW e \in S, NEW i \in 1..Len(s) + 1
    PROVE  InsertAt(s, i, e) \in Seq(S)
BY DEF InsertAt

(* Where everything is in a queue a message was put back into.               *)
LEMMA InsertElements ==
    ASSUME NEW S, NEW s \in Seq(S), NEW e \in S, NEW k \in 1..Len(s) + 1
    PROVE  /\ Len(InsertAt(s, k, e)) = Len(s) + 1
           /\ DOMAIN InsertAt(s, k, e) = 1..Len(s) + 1
           /\ \A j \in 1..Len(s) + 1 :
                InsertAt(s, k, e)[j] = IF j < k THEN s[j] ELSE IF j = k THEN e ELSE s[j - 1]
<1> DEFINE a == SubSeq(s, 1, k - 1)
           c == SubSeq(s, k, Len(s))
<1>1. a \in Seq(S) /\ Len(a) = k - 1 /\ \A j \in 1..k - 1 : a[j] = s[j]  OBVIOUS
<1>2. /\ c \in Seq(S)
      /\ Len(c) = Len(s) - k + 1
      /\ \A j \in 1..Len(s) - k + 1 : c[j] = s[k + j - 1]
    OBVIOUS
<1> HIDE DEF a, c
<1> DEFINE ae == a \o <<e>>
<1>3. ae \in Seq(S) /\ Len(ae) = k /\ ae[k] = e /\ \A j \in 1..k - 1 : ae[j] = s[j]
    BY <1>1
<1> HIDE DEF ae
<1>4. /\ Len(ae \o c) = Len(s) + 1
      /\ DOMAIN (ae \o c) = 1..Len(s) + 1
      /\ \A j \in 1..k : (ae \o c)[j] = ae[j]
      /\ \A j \in k + 1..Len(s) + 1 : (ae \o c)[j] = c[j - k]
    BY <1>2, <1>3
<1>5. InsertAt(s, k, e) = ae \o c  BY DEF InsertAt, ae, a, c
<1>6. \A j \in k + 1..Len(s) + 1 : c[j - k] = s[j - 1]  BY <1>2
<1> QED  BY <1>3, <1>4, <1>5, <1>6

(* The result of a war in a place of the map has the type of a result.       *)
LEMMA ResultType ==
    ASSUME NEW war \in Recognition, NEW loc \in Location
    PROVE  ResolveWar(war, loc) \in WarResult
BY DEF Recognition, ResolveWar, WarResult

(* What it means for units to be an army.                                    *)
LEMMA ArmyElim ==
    ASSUME NEW units \in Armies
    PROVE  /\ DOMAIN units \subseteq UnitId
           /\ \A i \in DOMAIN units : units[i] \in Unit
BY DEF Armies

(* Adding a unit, or writing one back, makes an army of an army.             *)
LEMMA PutType ==
    ASSUME NEW units \in Armies, NEW id \in UnitId, NEW unit \in Unit
    PROVE  PutUnit(units, id, unit) \in Armies
<1> DEFINE ids == DOMAIN units \cup {id}
           g == [i \in ids |-> IF i = id THEN unit ELSE units[i]]
<1>1. ids \in SUBSET UnitId  BY ArmyElim
<1>2. \A i \in ids : (IF i = id THEN unit ELSE units[i]) \in Unit  BY ArmyElim
<1>3. g \in [ids -> Unit]  BY <1>2
<1>4. g \in Armies  BY <1>1, <1>3, Zenon DEF Armies
<1> QED  BY <1>4 DEF PutUnit

(* Removing the units of a place makes an army of an army.                   *)
LEMMA RemoveType ==
    ASSUME NEW units \in Armies, NEW loc
    PROVE  RemoveUnits(units, loc) \in Armies
<1> DEFINE ids == DOMAIN units \ InLocation(units, loc)
           g == [i \in ids |-> units[i]]
<1>1. ids \in SUBSET UnitId  BY ArmyElim
<1>2. \A i \in ids : units[i] \in Unit  BY ArmyElim
<1>3. g \in [ids -> Unit]  BY <1>2
<1>4. g \in Armies  BY <1>1, <1>3, Zenon DEF Armies
<1> QED  BY <1>4 DEF RemoveUnits, Restrict

(* Having no units is an army.                                               *)
LEMMA NoUnitsType == NoUnits \in Armies
<1>1. NoUnits \in [{} -> Unit]  BY DEF NoUnits
<1>2. {} \in SUBSET UnitId  OBVIOUS
<1> QED  BY <1>1, <1>2, Zenon DEF Armies


(* What each state of the REPL carries.                                      *)
LEMMA ReplType ==
    ASSUME TypeOK, NEW p \in Player
    PROVE  /\ repl[p].pc = "spawn" => repl[p].id \in UnitId /\ repl[p].unit \in Unit
           /\ repl[p].pc \in {"get", "update", "snap"} => repl[p].to \in Location
           /\ repl[p].pc \in {"get", "update"} => repl[p].todo \in Todo
           /\ repl[p].pc = "update" => repl[p].unit \in Unit
           /\ repl[p].pc = "publish" => repl[p].units \in Armies
<1>1. repl[p] \in Commands  BY DEF TypeOK
<1> QED  BY <1>1 DEF Commands, Idle

(* The ids of a move command still to be handled.                            *)
LEMMA TodoType ==
    ASSUME NEW todo \in Todo
    PROVE  Head(todo) \in UnitId /\ (Len(todo) # 1 => Tail(todo) \in Todo)
<1>1. todo \in Seq(UnitId) /\ todo # <<>>  BY DEF Todo
<1>2. Head(todo) \in UnitId /\ Tail(todo) \in Seq(UnitId) /\ Len(Tail(todo)) = Len(todo) - 1
    BY <1>1
<1>3. Len(todo) \in Nat /\ Len(todo) # 0  BY <1>1
<1>4. Len(<<>>) = 0  OBVIOUS
<1>5. Len(todo) # 1 => Len(Tail(todo)) # 0  BY <1>2, <1>3
<1>6. Len(todo) # 1 => Tail(todo) # <<>>  BY <1>4, <1>5
<1> QED  BY <1>2, <1>6 DEF Todo

(* What each state of a handler of moves carries.                            *)
LEMMA MoverType ==
    ASSUME TypeOK, NEW p \in Player, NEW h \in mover[p]
    PROVE  /\ h.move \in Moves
           /\ h.live \in BOOLEAN
           /\ h.pc = "declare" => h.war \in Recognition
<1>1. h \in Handlers  BY DEF TypeOK
<1> QED  BY <1>1 DEF Handlers

(* A message given back leaves the queues typed, the broker gone or not.     *)
LEMMA RequeueType ==
    ASSUME NEW S, NEW queue \in [Player -> Seq(S)], NEW queue2, NEW e \in S, NEW p \in Player,
           \/ queue2 = queue
           \/ \E i \in 1..Len(queue[p]) + 1 :
                queue2 = [queue EXCEPT ![p] = InsertAt(queue[p], i, e)]
    PROVE  queue2 \in [Player -> Seq(S)]
<1>1. CASE queue2 = queue  BY <1>1
<1>2. CASE \E i \in 1..Len(queue[p]) + 1 :
             queue2 = [queue EXCEPT ![p] = InsertAt(queue[p], i, e)]
    <2>1. PICK i \in 1..Len(queue[p]) + 1 :
             queue2 = [queue EXCEPT ![p] = InsertAt(queue[p], i, e)]
        BY <1>2
    <2>2. queue[p] \in Seq(S)  OBVIOUS
    <2>3. InsertAt(queue[p], i, e) \in Seq(S)  BY <2>2, InsertType
    <2> QED  BY <2>1, <2>3
<1> QED  BY <1>1, <1>2

(* Spending one use of a bound leaves the counters typed.                    *)
LEMMA SpendType ==
    ASSUME TypeOK, NEW bound,
           NEW what \in {"spawns", "moves", "pauses", "losses", "failures"},
           Spend(what, bound)
    PROVE  used' \in [spawns : Nat, moves : Nat, pauses : Nat, losses : Nat, failures : Nat]
<1>1. used \in [spawns : Nat, moves : Nat, pauses : Nat, losses : Nat, failures : Nat]
    BY DEF TypeOK
<1> QED  BY <1>1 DEF Spend

(* Steps that declare no war keep the ids of wars.                           *)
LEMMA SameWars ==
    ASSUME wars' = wars
    PROVE  WarIds' = WarIds /\ Reports' = Reports /\ Verdicts' = Verdicts
BY DEF WarIds, Reports, Verdicts

(* Coming to a place keeps the types of the history.                         *)
LEMMA ArriveType ==
    ASSUME TypeOK, NEW p \in Player, NEW loc \in Location, Arrive(p, loc), UNCHANGED wars
    PROVE  /\ quiet' \subseteq Player \X Player \X Location
           /\ met' \subseteq WarIds' \X Location
           /\ deaf' = deaf
BY SameWars DEF TypeOK, Arrive

(* Session: a client joins.                                                  *)
LEMMA TypeJoin == ASSUME TypeOK, NEW p \in Player, Join(p) PROVE TypeOK'
<1>1. heeded' \in [Player -> Nat] /\ missed' \in [Player -> BOOLEAN]
    BY DEF TypeOK, Join, Orders
<1> QED  BY <1>1, SameWars DEF TypeOK, Join, client, queues, ledger, arrival, Kinds

(* Session: a process ends and takes its queues with it.                     *)
LEMMA TypeExit == ASSUME TypeOK, NEW p \in Player, Exit(p) PROVE TypeOK'
<1>1. /\ army' \in [Player -> Armies]
      /\ repl' \in [Player -> Commands]
      /\ warq' \in [Player -> Seq(WarIds)]
    BY NoUnitsType DEF TypeOK, Exit, Commands
<1>2. Spend("losses", MaxLosses) /\ wars' = wars  BY DEF Exit, ledger
<1>3. /\ moveq' \in [Player -> Seq(Moves)]
      /\ pauseq' \in [Player -> Seq(Orders)]
      /\ quiet' \subseteq Player \X Player \X Location
      /\ met' \subseteq WarIds \X Location
    BY DEF TypeOK, Exit
<1> QED  BY <1>1, <1>2, <1>3, SpendType, SameWars DEF TypeOK, Exit, ledger, Kinds

(* Session: a connection is lost.                                            *)
LEMMA TypeDisconnect == ASSUME TypeOK, NEW p \in Player, Disconnect(p) PROVE TypeOK'
<1>1. Spend("losses", MaxLosses)  BY DEF Disconnect
<1> QED  BY <1>1, SpendType, SameWars DEF TypeOK, Disconnect, client, queues, ledger, Kinds

(* Session: Supervise gets a new connection.                                 *)
LEMMA TypeRedial == ASSUME TypeOK, NEW p \in Player, Redial(p) PROVE TypeOK'
<1>1. ASSUME NEW h \in mover[p] PROVE [h EXCEPT !.live = FALSE] \in Handlers
    <2>1. h \in Handlers  BY DEF TypeOK
    <2> QED  BY <2>1 DEF Handlers
<1>2. ASSUME NEW h \in warrior[p] PROVE [h EXCEPT !.live = FALSE] \in Reports
    <2>1. h \in Reports  BY DEF TypeOK
    <2> QED  BY <2>1 DEF Reports
<1>3. ASSUME NEW h \in pauser[p] PROVE [h EXCEPT !.live = FALSE] \in Pausers
    <2>1. h \in Pausers  BY DEF TypeOK
    <2> QED  BY <2>1 DEF Pausers
<1>4. /\ mover' \in [Player -> SUBSET Handlers]
      /\ warrior' \in [Player -> SUBSET Reports]
      /\ pauser' \in [Player -> SUBSET Pausers]
    BY <1>1, <1>2, <1>3 DEF Redial, TypeOK
<1>5. /\ phase' \in [Player -> {"out", "up", "down"}]
      /\ moveq' \in [Player -> Seq(Moves)]
      /\ warq' \in [Player -> Seq(WarIds)]
      /\ pauseq' \in [Player -> Seq(Orders)]
      /\ missed' \in [Player -> BOOLEAN]
    BY DEF TypeOK, Redial
<1>6. UNCHANGED <<army, paused, repl, subs, wars, gameLogs, dlq, game, used, quiet, met,
                  deaf, lost, heeded, leaked, verdicts>>
    BY DEF Redial, ledger, arrival
<1> QED  BY <1>4, <1>5, <1>6, SameWars DEF TypeOK

(* Session: one starter declares its queue again.                            *)
LEMMA TypeResubscribe ==
    ASSUME TypeOK, NEW p \in Player, NEW kind \in Kinds, Resubscribe(p, kind) PROVE TypeOK'
BY SameWars DEF TypeOK, Resubscribe, client, queues, ledger, history

(* REPL: the id of a new unit is in range because the army is not full.      *)
LEMMA TypeSpawnId ==
    ASSUME TypeOK, NEW p \in Player, NEW unit \in Unit, SpawnId(p, unit) PROVE TypeOK'
<1>1. army[p] \in Armies  BY DEF TypeOK
<1>2. DOMAIN army[p] \subseteq 1..MaxUnits  BY <1>1, ArmyElim DEF UnitId
<1>3. IsFiniteSet(DOMAIN army[p])
    <2>1. IsFiniteSet(1..MaxUnits)  BY FS_Interval, MaxUnitsAssumption
    <2> QED  BY <1>2, <2>1, FS_Subset
<1>4. NextId(army[p]) \in UnitId
    BY <1>3, FS_CardinalityType, MaxUnitsAssumption DEF NextId, SpawnId, UnitId
<1>5. [pc |-> "spawn", unit |-> unit, id |-> NextId(army[p])] \in Commands
    BY <1>4 DEF Commands
<1>6. repl' \in [Player -> Commands]  BY <1>5 DEF SpawnId, TypeOK
<1>7. Spend("spawns", MaxSpawns)  BY DEF SpawnId
<1> QED  BY <1>6, <1>7, SpendType, SameWars DEF TypeOK, SpawnId, link, queues, ledger, history

(* REPL: the new unit is added.                                              *)
LEMMA TypeAddUnit == ASSUME TypeOK, NEW p \in Player, AddUnit(p) PROVE TypeOK'
<1>1. army' \in [Player -> Armies]  BY ReplType, PutType DEF AddUnit, TypeOK
<1>2. repl' \in [Player -> Commands]  BY DEF AddUnit, TypeOK, Commands
<1>3. repl[p].unit.location \in Location  BY ReplType DEF AddUnit, Unit
<1>8. Arrive(p, repl[p].unit.location) /\ UNCHANGED wars  BY DEF AddUnit, ledger
<1>9. /\ quiet' \subseteq Player \X Player \X Location
      /\ met' \subseteq WarIds' \X Location
      /\ deaf' = deaf
    BY <1>8, <1>3, ArriveType
<1> QED  BY <1>1, <1>2, <1>3, <1>9, SameWars DEF TypeOK, AddUnit, link, queues, ledger

(* The ids of a move command are a non-empty sequence of ids.                *)
LEMMA BatchType == ASSUME NEW ids \in Batches PROVE ids \in Todo
BY BoundsAssumption DEF Batches, SeqOf, Todo

(* REPL: a move command starts.                                              *)
LEMMA TypeBeginMove ==
    ASSUME TypeOK, NEW p \in Player, NEW to \in Location, NEW ids \in Batches,
           BeginMove(p, to, ids)
    PROVE  TypeOK'
<1>1. [pc |-> "get", to |-> to, todo |-> ids] \in Commands  BY BatchType DEF Commands
<1>2. repl' \in [Player -> Commands]  BY <1>1 DEF BeginMove, TypeOK
<1>3. Spend("moves", MaxMoves)  BY DEF BeginMove
<1> QED  BY <1>2, <1>3, SpendType, SameWars DEF TypeOK, BeginMove, link, queues, ledger, history

(* REPL: a unit is read, or the command ends for want of it.                 *)
LEMMA TypeGetUnit == ASSUME TypeOK, NEW p \in Player, GetUnit(p) PROVE TypeOK'
<1> DEFINE id == Head(repl[p].todo)
           moved == [army[p][id] EXCEPT !.location = repl[p].to]
<1>1. army[p] \in Armies  BY DEF TypeOK
<1>2. repl[p].to \in Location /\ repl[p].todo \in Todo  BY ReplType DEF GetUnit
<1>3. id \in DOMAIN army[p] => moved \in Unit  BY <1>1, <1>2, ArmyElim DEF Unit
<1>4. id \in DOMAIN army[p] =>
        [pc |-> "update", to |-> repl[p].to, todo |-> repl[p].todo, unit |-> moved] \in Commands
    BY <1>2, <1>3 DEF Commands
<1>5. Idle \in Commands  BY DEF Commands
<1>6. repl' \in [Player -> Commands]  BY <1>4, <1>5 DEF GetUnit, TypeOK
<1> QED  BY <1>6, SameWars DEF TypeOK, GetUnit, link, queues, ledger, history

(* REPL: a unit is written back at its destination.                          *)
LEMMA TypeUpdateUnit == ASSUME TypeOK, NEW p \in Player, UpdateUnit(p) PROVE TypeOK'
<1>1. /\ repl[p].to \in Location
      /\ repl[p].unit \in Unit
      /\ repl[p].todo \in Todo
    BY ReplType DEF UpdateUnit
<1>2. army' \in [Player -> Armies]  BY <1>1, TodoType, PutType DEF UpdateUnit, TypeOK
<1>3. [pc |-> "snap", to |-> repl[p].to] \in Commands  BY <1>1 DEF Commands
<1>4. Len(repl[p].todo) # 1 =>
        [pc |-> "get", to |-> repl[p].to, todo |-> Tail(repl[p].todo)] \in Commands
    BY <1>1, TodoType DEF Commands
<1>5. repl' \in [Player -> Commands]  BY <1>3, <1>4 DEF UpdateUnit, TypeOK
<1>7. repl[p].unit.location \in Location  BY <1>1 DEF Unit
<1>8. Arrive(p, repl[p].unit.location) /\ UNCHANGED wars  BY DEF UpdateUnit, ledger
<1>9. /\ quiet' \subseteq Player \X Player \X Location
      /\ met' \subseteq WarIds' \X Location
      /\ deaf' = deaf
    BY <1>8, <1>7, ArriveType
<1> QED  BY <1>1, <1>2, <1>5, <1>9, SameWars DEF TypeOK, UpdateUnit, link, queues, ledger

(* REPL: the army to be announced is copied.                                 *)
LEMMA TypeSnapMove == ASSUME TypeOK, NEW p \in Player, SnapMove(p) PROVE TypeOK'
BY SameWars DEF TypeOK, SnapMove, link, queues, ledger, history, Commands

(* REPL: the move is published.                                              *)
LEMMA TypePublishMove == ASSUME TypeOK, NEW p \in Player, PublishMove(p) PROVE TypeOK'
<1>1. [player |-> p, units |-> repl[p].units] \in Moves  BY ReplType DEF PublishMove, Moves
<1>2. moveq' \in [Player -> Seq(Moves)]  BY <1>1 DEF PublishMove, Deliver, TypeOK
<1>3. repl' \in [Player -> Commands]  BY DEF PublishMove, TypeOK, Commands
<1>4. quiet' \subseteq Player \X Player \X Location  BY DEF PublishMove, TypeOK
<1>5. leaked' \in [Player -> Nat]  BY DEF PublishMove, TypeOK
<1> QED  BY <1>2, <1>3, <1>4, <1>5, SameWars DEF TypeOK, PublishMove, link, ledger

(* REPL: publishing the move fails.                                          *)
LEMMA TypeFailToPublishMove ==
    ASSUME TypeOK, NEW p \in Player, FailToPublishMove(p) PROVE TypeOK'
<1>1. repl' \in [Player -> Commands]  BY DEF FailToPublishMove, TypeOK, Commands
<1>4. Spend("failures", MaxFailures) \/ UNCHANGED used  BY DEF FailToPublishMove
<1>5. used' \in [spawns : Nat, moves : Nat, pauses : Nat, losses : Nat, failures : Nat]
    BY <1>4, SpendType DEF TypeOK
<1> QED  BY <1>1, <1>5, SameWars DEF TypeOK, FailToPublishMove, link, queues, ledger, history

(* The next move of a queue is a move.                                       *)
LEMMA TypeTakeMove ==
    ASSUME TypeOK, NEW p \in Player, TakeMove(p)
    PROVE  /\ moveq' \in [Player -> Seq(Moves)]
           /\ Head(moveq[p]) \in Moves
BY DEF TypeOK, TakeMove

(* handlerMove: a move is rejected, ignored or noticed.                      *)
LEMMA TypeMoveHandlers ==
    ASSUME TypeOK, NEW p \in Player, RejectOwnMove(p) \/ IgnoreMove(p) \/ NoticeMove(p)
    PROVE  TypeOK'
<1>1. TakeMove(p)  BY DEF RejectOwnMove, IgnoreMove, NoticeMove
<1>2. mover' \in [Player -> SUBSET Handlers]
    <2>1. [pc |-> "noticed", move |-> Head(moveq[p]), live |-> TRUE] \in Handlers
        BY <1>1, TypeTakeMove DEF Handlers
    <2>2. CASE NoticeMove(p)  BY <2>1, <2>2 DEF NoticeMove, TypeOK
    <2>3. CASE UNCHANGED mover  BY <2>3 DEF TypeOK
    <2> QED  BY <2>2, <2>3 DEF RejectOwnMove, IgnoreMove
<1>3. dlq' \in [moves : Nat, wars : Nat]
    BY DEF RejectOwnMove, IgnoreMove, NoticeMove, DeadLetter, TypeOK
<1> QED  BY <1>1, <1>2, <1>3, TypeTakeMove, SameWars
         DEF TypeOK, TakeMove, link, history

(* handlerMove: the recognition is made from the two armies.                 *)
LEMMA TypeRecognise ==
    ASSUME TypeOK, NEW p \in Player, NEW h \in mover[p], Recognise(p, h)
    PROVE  TypeOK'
<1> DEFINE war == [attacker |-> h.move.player, attackerUnits |-> h.move.units,
                   defender |-> p, defenderUnits |-> army[p]]
<1>1. h.move \in Moves /\ h.live \in BOOLEAN  BY MoverType
<1>2. war \in Recognition  BY <1>1 DEF Recognition, Moves, TypeOK
<1>3. [pc |-> "declare", move |-> h.move, live |-> h.live, war |-> war] \in Handlers
    BY <1>1, <1>2 DEF Handlers
<1>4. mover' \in [Player -> SUBSET Handlers]  BY <1>3 DEF Recognise, TypeOK
<1> QED  BY <1>4, SameWars DEF TypeOK, Recognise, link, queues, ledger, history

(* handlerMove: the recognition is published and gets the next id.           *)
LEMMA TypeDeclareWar ==
    ASSUME TypeOK, NEW p \in Player, NEW h \in mover[p], DeclareWar(p, h)
    PROVE  TypeOK'
<1>1. h.war \in Recognition  BY MoverType DEF DeclareWar
<1>2. /\ wars' \in Seq(Recognition)
      /\ Len(wars') = Len(wars) + 1
    BY <1>1 DEF DeclareWar, TypeOK
<1>3. WarIds \subseteq WarIds' /\ Len(wars) + 1 \in WarIds'  BY <1>2 DEF WarIds, TypeOK
<1>4. warq' \in [Player -> Seq(WarIds')]
    <2>1. ASSUME NEW q \in Player PROVE warq'[q] \in Seq(WarIds')
        <3>1. warq[q] \in Seq(WarIds')  BY <1>3 DEF TypeOK
        <3> QED  BY <3>1, <1>3 DEF DeclareWar, Deliver
    <2> QED  BY <2>1 DEF DeclareWar, Deliver
<1>5. Contested(h.war) \subseteq Location
    BY <1>1, ArmyElim DEF Recognition, Contested, Locations, Unit
<1>6. met' \subseteq WarIds' \X Location  BY <1>3, <1>5 DEF DeclareWar, TypeOK
<1>7. Reports \subseteq Reports' /\ Verdicts \subseteq Verdicts'
    BY <1>3 DEF Reports, Verdicts
<1>8. /\ warrior' \in [Player -> SUBSET Reports']
      /\ gameLogs' \in Seq(Verdicts')
      /\ verdicts' \subseteq Verdicts'
    BY <1>7 DEF DeclareWar, TypeOK
<1>9. mover' \in [Player -> SUBSET Handlers]  BY DEF DeclareWar, TypeOK
<1> QED  BY <1>2, <1>4, <1>6, <1>8, <1>9 DEF TypeOK, DeclareWar, link

(* handlerMove: publishing the recognition fails.                            *)
LEMMA TypeFailToDeclareWar ==
    ASSUME TypeOK, NEW p \in Player, NEW h \in mover[p], FailToDeclareWar(p, h)
    PROVE  TypeOK'
<1>1. h.move \in Moves  BY MoverType
<1>2. moveq' \in [Player -> Seq(Moves)]
    BY <1>1, RequeueType DEF FailToDeclareWar, Requeue, TypeOK
<1>3. mover' \in [Player -> SUBSET Handlers]  BY DEF FailToDeclareWar, TypeOK
<1>4. Spend("failures", MaxFailures) \/ UNCHANGED used  BY DEF FailToDeclareWar
<1>5. used' \in [spawns : Nat, moves : Nat, pauses : Nat, losses : Nat, failures : Nat]
    BY <1>4, SpendType DEF TypeOK
<1> QED  BY <1>2, <1>3, <1>5, SameWars DEF TypeOK, FailToDeclareWar, link, ledger, history

(* The next recognition of a queue is a war.                                 *)
LEMMA TypeTakeWar ==
    ASSUME TypeOK, NEW p \in Player, TakeWar(p)
    PROVE  /\ warq' \in [Player -> Seq(WarIds)]
           /\ Head(warq[p]) \in WarIds
           /\ wars[Head(warq[p])] \in Recognition
BY DEF TypeOK, TakeWar, WarIds

(* handlerWar: a recognition that changes no army.                           *)
LEMMA TypeIgnoreOrReject ==
    ASSUME TypeOK, NEW p \in Player, IgnoreWar(p) \/ RejectWar(p)
    PROVE  TypeOK'
<1>1. TakeWar(p)  BY DEF IgnoreWar, RejectWar
<1>2. dlq' \in [moves : Nat, wars : Nat]  BY DEF IgnoreWar, RejectWar, DeadLetter, TypeOK
<1> QED  BY <1>1, <1>2, TypeTakeWar, SameWars
         DEF TypeOK, TakeWar, IgnoreWar, RejectWar, link

(* handlerWar: the war is decided and the fallen removed.                    *)
LEMMA TypeFightWar ==
    ASSUME TypeOK, NEW p \in Player, NEW loc \in Location, FightWar(p, loc)
    PROVE  TypeOK'
<1> DEFINE n == Head(warq[p])
           result == ResolveWar(wars[n], loc)
<1>1. TakeWar(p)  BY DEF FightWar
<1>2. n \in WarIds /\ wars[n] \in Recognition  BY <1>1, TypeTakeWar
<1>3. result \in WarResult  BY <1>2, ResultType
<1>4. army' \in [Player -> Armies]  BY RemoveType DEF FightWar, TypeOK
<1>5. [war |-> n, result |-> result, live |-> TRUE] \in Reports  BY <1>2, <1>3 DEF Reports
<1>6. warrior' \in [Player -> SUBSET Reports]  BY <1>5 DEF FightWar, TypeOK
<1>7. [war |-> n, by |-> p, result |-> result] \in Verdicts  BY <1>2, <1>3 DEF Verdicts
<1>8. verdicts' \subseteq Verdicts  BY <1>7 DEF FightWar, TypeOK
<1>9. lost' \in [Player -> BOOLEAN]  BY DEF FightWar, TypeOK
<1> QED  BY <1>1, <1>4, <1>6, <1>8, <1>9, TypeTakeWar, SameWars
         DEF TypeOK, TakeWar, FightWar, link

(* handlerWar: the attacker's report is published.                           *)
LEMMA TypePublishGameLog ==
    ASSUME TypeOK, NEW p \in Player, NEW h \in warrior[p], PublishGameLog(p, h)
    PROVE  TypeOK'
<1>1. h \in Reports  BY DEF TypeOK
<1>2. [war |-> h.war, by |-> p, result |-> h.result] \in Verdicts
    BY <1>1 DEF Reports, Verdicts
<1>3. gameLogs' \in Seq(Verdicts)  BY <1>2 DEF PublishGameLog, TypeOK
<1>4. warrior' \in [Player -> SUBSET Reports]  BY DEF PublishGameLog, TypeOK
<1> QED  BY <1>3, <1>4, SameWars
         DEF TypeOK, PublishGameLog, link, queues, history

(* handlerWar: publishing the report fails.                                  *)
LEMMA TypeFailToPublishGameLog ==
    ASSUME TypeOK, NEW p \in Player, NEW h \in warrior[p], FailToPublishGameLog(p, h)
    PROVE  TypeOK'
<1>1. h.war \in WarIds  BY DEF TypeOK, Reports
<1>2. warq' \in [Player -> Seq(WarIds)]
    BY <1>1, RequeueType DEF FailToPublishGameLog, Requeue, TypeOK
<1>3. warrior' \in [Player -> SUBSET Reports]  BY DEF FailToPublishGameLog, TypeOK
<1>4. Spend("failures", MaxFailures) \/ UNCHANGED used  BY DEF FailToPublishGameLog
<1>5. used' \in [spawns : Nat, moves : Nat, pauses : Nat, losses : Nat, failures : Nat]
    BY <1>4, SpendType DEF TypeOK
<1> QED  BY <1>2, <1>3, <1>5, SameWars DEF TypeOK, FailToPublishGameLog, link, ledger, history

(* The server pauses or resumes, or fails to.                                *)
LEMMA TypePause ==
    ASSUME TypeOK, NEW pause \in BOOLEAN, ServerPause(pause) PROVE TypeOK'
<1>1. Spend("pauses", MaxPauses)  BY DEF ServerPause
<1>2. game' \in Orders  BY DEF ServerPause, TypeOK, Orders
<1>3. pauseq' \in [Player -> Seq(Orders)]
    <2>1. ASSUME NEW q \in Player PROVE Append(pauseq[q], game') \in Seq(Orders)
        BY <1>2, AppendProperties DEF TypeOK
    <2> QED  BY <2>1 DEF ServerPause, Deliver, TypeOK
<1>4. missed' \in [Player -> BOOLEAN]  BY DEF ServerPause, TypeOK
<1> QED  BY <1>1, <1>2, <1>3, <1>4, SpendType, SameWars
         DEF TypeOK, ServerPause, client, link, ledger, arrival

(* The command that could not be published changes nothing.                  *)
LEMMA TypeFailToPublishPause == ASSUME TypeOK, FailToPublishPause PROVE TypeOK'
<1>1. Spend("failures", MaxFailures)  BY DEF FailToPublishPause
<1> QED  BY <1>1, SpendType, SameWars
         DEF TypeOK, FailToPublishPause, client, link, queues, ledger, history

(* handlerPause: a command is taken.                                         *)
LEMMA TypeTakePause == ASSUME TypeOK, NEW p \in Player, TakePause(p) PROVE TypeOK'
<1>1. /\ pauseq \in [Player -> Seq(Orders)] /\ pauser \in [Player -> SUBSET Pausers]
      /\ pauseq[p] # <<>>
    BY DEF TypeOK, TakePause
<1>2. /\ pauseq' \in [Player -> Seq(Orders)]
      /\ [order |-> Head(pauseq[p]), live |-> TRUE] \in Pausers
    BY <1>1 DEF TakePause, Pausers
<1>3. pauser' \in [Player -> SUBSET Pausers]  BY <1>1, <1>2 DEF TakePause
<1> QED  BY <1>2, <1>3, SameWars DEF TypeOK, TakePause, link, ledger, history

(* handlerPause: the command is obeyed.                                      *)
LEMMA TypeApplyPause ==
    ASSUME TypeOK, NEW p \in Player, NEW h \in pauser[p], ApplyPause(p, h) PROVE TypeOK'
<1>1. /\ paused \in [Player -> BOOLEAN] /\ pauser \in [Player -> SUBSET Pausers]
      /\ leaked \in [Player -> Nat] /\ heeded \in [Player -> Nat]
      /\ missed \in [Player -> BOOLEAN]
    BY DEF TypeOK
<1>2. h.order.n \in Nat /\ h.order.pause \in BOOLEAN  BY <1>1 DEF Pausers, Orders
<1>3. /\ paused' \in [Player -> BOOLEAN] /\ pauser' \in [Player -> SUBSET Pausers]
      /\ leaked' \in [Player -> Nat] /\ heeded' \in [Player -> Nat]
      /\ missed' \in [Player -> BOOLEAN]
    BY <1>1, <1>2 DEF ApplyPause
<1>4. UNCHANGED <<army, repl, mover, warrior, phase, subs, moveq, warq, pauseq, wars,
                  gameLogs, dlq, game, used, quiet, met, deaf, lost, verdicts>>
    BY DEF ApplyPause, link, queues, ledger, arrival
<1> QED  BY <1>3, <1>4, SameWars DEF TypeOK

(* What handling a pause or resume leaves alone.                             *)
LEMMA PauseSteps ==
    ASSUME NEW p \in Player, PauseConsumer(p)
    PROVE  UNCHANGED <<army, repl, mover, warrior, phase, subs, moveq, warq, wars, gameLogs,
                       dlq, game, used, quiet, met, deaf, lost, verdicts>>
<1>1. CASE TakePause(p)
    BY <1>1 DEF TakePause, link, ledger, history
<1>2. ASSUME NEW h \in pauser[p], ApplyPause(p, h)
      PROVE  UNCHANGED <<army, repl, mover, warrior, phase, subs, moveq, warq, wars, gameLogs,
                         dlq, game, used, quiet, met, deaf, lost, verdicts>>
    BY <1>2 DEF ApplyPause, link, queues, ledger, arrival
<1> QED  BY <1>1, <1>2 DEF PauseConsumer

(* What the server's commands leave alone, published or not.                 *)
LEMMA OrderSteps ==
    ASSUME NEW pause \in BOOLEAN, ServerPause(pause) \/ FailToPublishPause
    PROVE  UNCHANGED <<army, paused, repl, mover, warrior, pauser, phase, subs, moveq, warq,
                       wars, gameLogs, dlq, quiet, met, deaf, lost, heeded, leaked, verdicts>>
BY DEF ServerPause, FailToPublishPause, client, link, queues, ledger, arrival, history

(* The state the game starts in.                                             *)
LEMMA TypeInit == ASSUME Init PROVE TypeOK
<1>1. army \in [Player -> Armies]  BY NoUnitsType DEF Init
<1>2. repl \in [Player -> Commands]  BY DEF Init, Commands
<1>3. /\ moveq \in [Player -> Seq(Moves)]
      /\ warq \in [Player -> Seq(WarIds)]
      /\ pauseq \in [Player -> Seq(Orders)]
      /\ wars \in Seq(Recognition)
      /\ gameLogs \in Seq(Verdicts)
    BY DEF Init
<1>4. /\ game \in Orders
      /\ dlq \in [moves : Nat, wars : Nat]
      /\ used \in [spawns : Nat, moves : Nat, pauses : Nat, losses : Nat, failures : Nat]
    BY DEF Init, Orders
<1> QED  BY <1>1, <1>2, <1>3, <1>4 DEF Init, TypeOK

(* Every step keeps the types.                                               *)
LEMMA TypeNext == ASSUME TypeOK, [Next]_vars PROVE TypeOK'
<1>1. ASSUME NEW p \in Player, Session(p) PROVE TypeOK'
    BY <1>1, TypeJoin, TypeExit, TypeDisconnect, TypeRedial, TypeResubscribe DEF Session
<1>2. ASSUME NEW p \in Player, NewCommand(p) PROVE TypeOK'
    BY <1>2, TypeSpawnId, TypeBeginMove DEF NewCommand
<1>3. ASSUME NEW p \in Player, Command(p) PROVE TypeOK'
    BY <1>3, TypeAddUnit, TypeGetUnit, TypeUpdateUnit, TypeSnapMove, TypePublishMove,
       TypeFailToPublishMove DEF Command
<1>4. ASSUME NEW p \in Player, MoveConsumer(p) PROVE TypeOK'
    BY <1>4, TypeMoveHandlers, TypeRecognise, TypeDeclareWar, TypeFailToDeclareWar
       DEF MoveConsumer
<1>5. ASSUME NEW p \in Player, WarConsumer(p) PROVE TypeOK'
    BY <1>5, TypeIgnoreOrReject, TypeFightWar, TypePublishGameLog, TypeFailToPublishGameLog
       DEF WarConsumer
<1>6. ASSUME NEW p \in Player, PauseConsumer(p) PROVE TypeOK'
    BY <1>6, TypeTakePause, TypeApplyPause DEF PauseConsumer
<1>7. ASSUME NEW pause \in BOOLEAN, ServerPause(pause) \/ FailToPublishPause PROVE TypeOK'
    BY <1>7, TypePause, TypeFailToPublishPause
<1>8. ASSUME UNCHANGED vars PROVE TypeOK'
    BY <1>8, SameWars DEF TypeOK, vars, client, link, queues, ledger, history
<1> QED  BY <1>1, <1>2, <1>3, <1>4, <1>5, <1>6, <1>7, <1>8 DEF Next

(* Every reachable state has the types the code declares: in particular ids  *)
(* stay within the map and a queued recognition is one that was published.   *)
THEOREM TypeCorrect == Spec => []TypeOK
BY TypeInit, TypeNext, PTL DEF Spec
===============================================================================
