---------------------------- MODULE MeetingProofs ----------------------------
(* No two armies stand in one place unnoticed: MeetingsAreNoticed, for any   *)
(* number of players, places and units, with connections breaking, processes *)
(* restarting and publishes failing.                                         *)
(*                                                                           *)
(* The property speaks of clients that have handled all their moves. What is *)
(* inductive is what holds before they have: a pair that shares a place and  *)
(* was told of it either has a war about it, or one of the two still has the *)
(* other's announcement in its queue or in its handler (CoverInv).           *)
EXTENDS GameClientsProofs

(* A client that is not connected has no queues; one that has not joined has *)
(* nothing at all; one that is not deaf has both queues that matter.         *)
LinkInv ==
    \A p \in Player :
        /\ phase[p] # "up" => subs[p] = {}
        /\ phase[p] = "out" => repl[p] = Idle /\ Locations(army[p]) = {}
        /\ phase[p] # "out" /\ ~deaf[p] => {"moves", "wars"} \subseteq subs[p]

(* The war a handler is about to declare is between the sender of the move,  *)
(* with the army in it, and the handler's own player.                        *)
HandlerInv ==
    \A p \in Player : \A h \in mover[p] :
        h.pc = "declare" => /\ h.war.attacker = h.move.player
                            /\ h.war.attackerUnits = h.move.units
                            /\ h.war.defender = p

(* A move about to be published shows every place its player is in.          *)
PublishInv ==
    \A p \in Player :
        repl[p].pc = "publish" => Locations(army[p]) \subseteq Locations(repl[p].units)

Noticed(p, q, loc) == \E m \in met : m[2] = loc /\ Parties(wars[m[1]]) = {p, q}

Shows(move, p, loc) == move.player = p /\ loc \in Locations(move.units)

(* q has yet to handle, or is handling, a move that shows p in loc.          *)
Heard(p, q, loc) ==
    \/ \E i \in DOMAIN moveq[q] : Shows(moveq[q][i], p, loc)
    \/ \E h \in mover[q] : h.live /\ h.pc = "noticed" /\ Shows(h.move, p, loc)
    \/ \E h \in mover[q] :
          h.live /\ h.pc = "declare" /\ Shows(h.move, p, loc) /\ loc \in Contested(h.war)

Covered(p, q, loc) == Noticed(p, q, loc) \/ Heard(p, q, loc) \/ Heard(q, p, loc)

CoverInv ==
    \A p, q \in Player, loc \in Location :
        Share(p, q, loc) /\ Told(p, q, loc) => Covered(p, q, loc)

MeetingInv == TypeOK /\ LinkInv /\ HandlerInv /\ PublishInv /\ CoverInv

-----------------------------------------------------------------------------
(* Sequences, places and armies.                                             *)

(* What is in a queue is its head or is in its tail.                         *)
LEMMA TailKeeps ==
    ASSUME NEW S, NEW s \in Seq(S), s # <<>>, NEW i \in DOMAIN s
    PROVE  s[i] = Head(s) \/ \E j \in DOMAIN Tail(s) : Tail(s)[j] = s[i]
<1>1. CASE i = 1  BY <1>1
<1>2. CASE i # 1
    <2>1. i - 1 \in DOMAIN Tail(s) /\ Tail(s)[i - 1] = s[i]  BY <1>2
    <2> QED  BY <2>1
<1> QED  BY <1>1, <1>2

(* Putting a message back keeps the others and adds that one.                *)
LEMMA InsertKeeps ==
    ASSUME NEW S, NEW s \in Seq(S), NEW e \in S, NEW k \in 1..Len(s) + 1
    PROVE  /\ \E j \in DOMAIN InsertAt(s, k, e) : InsertAt(s, k, e)[j] = e
           /\ \A i \in DOMAIN s :
                \E j \in DOMAIN InsertAt(s, k, e) : InsertAt(s, k, e)[j] = s[i]
<1> DEFINE t == InsertAt(s, k, e)
<1>1. /\ Len(t) = Len(s) + 1
      /\ DOMAIN t = 1..Len(s) + 1
      /\ \A j \in 1..Len(s) + 1 :
            t[j] = IF j < k THEN s[j] ELSE IF j = k THEN e ELSE s[j - 1]
    BY InsertElements
<1>2. k \in DOMAIN t /\ t[k] = e  BY <1>1
<1>3. ASSUME NEW i \in DOMAIN s PROVE \E j \in DOMAIN t : t[j] = s[i]
    <2>1. CASE i < k  BY <1>1, <2>1
    <2>2. CASE ~(i < k)
        <3>1. i + 1 \in DOMAIN t /\ t[i + 1] = s[i]  BY <1>1, <2>2
        <3> QED  BY <3>1
    <2> QED  BY <2>1, <2>2
<1> QED  BY <1>2, <1>3

(* A unit put into an army adds its own place and no other.                  *)
LEMMA PutLocations ==
    ASSUME NEW units, NEW id, NEW unit
    PROVE  Locations(PutUnit(units, id, unit)) \subseteq Locations(units) \cup {unit.location}
BY DEF Locations, PutUnit

(* Removing the units of a place adds no place.                              *)
LEMMA RemoveLocations ==
    ASSUME NEW units, NEW loc
    PROVE  Locations(RemoveUnits(units, loc)) = Locations(units) \ {loc}
BY DEF Locations, RemoveUnits, Restrict, InLocation

(* Players who share a place they were told of are connected and subscribed. *)
LEMMA TalkingPlayers ==
    ASSUME LinkInv, NEW p \in Player, NEW q \in Player, NEW loc,
           Share(p, q, loc), Told(p, q, loc)
    PROVE  /\ phase[p] = "up" /\ {"moves", "wars"} \subseteq subs[p]
           /\ phase[q] = "up" /\ {"moves", "wars"} \subseteq subs[q]
BY DEF LinkInv, Share, Told

-----------------------------------------------------------------------------
(* The three parts that follow a single player.                              *)

(* Without units a player is nowhere.                                        *)
LEMMA NoUnitsNowhere == Locations(NoUnits) = {}
BY DEF Locations, NoUnits

(* Wars only ever take places from an army; nothing else of interest here    *)
(* changes.                                                                  *)
LEMMA WarConsumerShrinks ==
    ASSUME TypeOK, NEW a \in Player, WarConsumer(a), NEW q \in Player
    PROVE  Locations(army'[q]) \subseteq Locations(army[q])
<1>1. ASSUME NEW loc \in Location, FightWar(a, loc)
      PROVE  Locations(army'[q]) \subseteq Locations(army[q])
    <2>1. army' = [army EXCEPT ![a] = RemoveUnits(army[a], loc)] \/ army' = army
        BY <1>1 DEF FightWar
    <2>2. army \in [Player -> Armies]  BY DEF TypeOK
    <2>3. army'[q] = RemoveUnits(army[q], loc) \/ army'[q] = army[q]  BY <2>1, <2>2
    <2> QED  BY <2>3, RemoveLocations
<1>2. \/ UNCHANGED army
      \/ \E loc \in Location : FightWar(a, loc)
    BY DEF WarConsumer, IgnoreWar, RejectWar, PublishGameLog, FailToPublishGameLog
<1> QED  BY <1>1, <1>2

(* Every step keeps LinkInv: queues exist while connected, and with them all *)
(* a client is not deaf.                                                     *)
LEMMA LinkNext == ASSUME TypeOK, LinkInv, [Next]_vars PROVE LinkInv'
<1> USE DEF LinkInv
<1>1. ASSUME NEW a \in Player, Session(a) PROVE LinkInv'
    <2>1. CASE Join(a)  BY <2>1 DEF Join, TypeOK, client, arrival, Kinds
    <2>2. CASE Exit(a)  BY <2>2, NoUnitsNowhere DEF Exit, TypeOK, Kinds
    <2>3. CASE Disconnect(a)  BY <2>3 DEF Disconnect, TypeOK, client
    <2>4. CASE Redial(a)  BY <2>4 DEF Redial, TypeOK, arrival
    <2>5. ASSUME NEW kind \in Kinds, Resubscribe(a, kind) PROVE LinkInv'
        <3>1. subs \in [Player -> SUBSET Kinds]  BY DEF TypeOK
        <3>2. phase[a] = "up" /\ \A q \in Player : subs[q] \subseteq subs'[q]
            BY <2>5, <3>1 DEF Resubscribe
        <3>3. \A q \in Player : q # a => subs'[q] = subs[q]  BY <2>5, <3>1 DEF Resubscribe
        <3>4. UNCHANGED <<army, repl, phase, deaf>>  BY <2>5 DEF Resubscribe, client, history
        <3> QED  BY <3>2, <3>3, <3>4
    <2> QED  BY <1>1, <2>1, <2>2, <2>3, <2>4, <2>5 DEF Session
<1>2. ASSUME NEW a \in Player, NewCommand(a) PROVE LinkInv'
    <2>1. repl \in [Player -> Commands]  BY DEF TypeOK
    <2>2. phase[a] # "out"  BY <1>2 DEF NewCommand, SpawnId, BeginMove
    <2>3. /\ \A q \in Player : q # a => repl'[q] = repl[q]
          /\ UNCHANGED <<army, phase, subs, deaf>>
        BY <1>2, <2>1 DEF NewCommand, SpawnId, BeginMove, link, history
    <2> QED  BY <2>2, <2>3
<1>3. ASSUME NEW a \in Player, Command(a) PROVE LinkInv'
    <2>7. /\ army \in [Player -> Armies] /\ repl \in [Player -> Commands]
          /\ deaf \in [Player -> BOOLEAN]
        BY DEF TypeOK
    <2>1. CASE AddUnit(a)  BY <2>1, SMTT(30) DEF AddUnit, Arrive, TypeOK, link, Idle
    <2>2. CASE GetUnit(a)  BY <2>2, SMTT(30) DEF GetUnit, TypeOK, link, history, Idle
    <2>3. CASE UpdateUnit(a)
        <3>1. repl[a] # Idle  BY <2>3 DEF UpdateUnit, Idle
        <3>2. UNCHANGED <<phase, subs, deaf>>  BY <2>3 DEF UpdateUnit, Arrive, link
        <3>3. \A q \in Player : q # a => repl'[q] = repl[q] /\ army'[q] = army[q]
            BY <2>3, <2>7 DEF UpdateUnit
        <3> QED  BY <3>1, <3>2, <3>3
    <2>4. CASE SnapMove(a)  BY <2>4, <2>7 DEF SnapMove, link, history, Idle
    <2>5. CASE PublishMove(a)
        <3>1. repl[a] # Idle /\ UNCHANGED <<phase, subs, army>>
            BY <2>5 DEF PublishMove, Idle, link
        <3>2. \A q \in Player : q # a => repl'[q] = repl[q] /\ deaf'[q] = deaf[q]
            BY <2>5, <2>7 DEF PublishMove
        <3>3. ~deaf'[a] => {"moves", "wars"} \subseteq subs[a]
            BY <2>5, <2>7 DEF PublishMove
        <3> QED  BY <3>1, <3>2, <3>3
    <2>6. CASE FailToPublishMove(a)  BY <2>6 DEF FailToPublishMove, TypeOK, link, history, Idle
    <2> QED  BY <1>3, <2>1, <2>2, <2>3, <2>4, <2>5, <2>6 DEF Command
<1>4. ASSUME NEW a \in Player, MoveConsumer(a) PROVE LinkInv'
    BY <1>4 DEF MoveConsumer, RejectOwnMove, IgnoreMove, NoticeMove, TakeMove, Recognise,
                DeclareWar, FailToDeclareWar, link, history
<1>5. ASSUME NEW a \in Player, WarConsumer(a) PROVE LinkInv'
    <2>1. UNCHANGED <<phase, subs, repl, deaf>>
        BY <1>5 DEF WarConsumer, IgnoreWar, RejectWar, FightWar, TakeWar, PublishGameLog,
                    FailToPublishGameLog, link, history
    <2>2. ASSUME NEW q \in Player PROVE Locations(army'[q]) \subseteq Locations(army[q])
        BY <1>5, WarConsumerShrinks
    <2> QED  BY <2>1, <2>2
<1>6. ASSUME NEW a \in Player, PauseConsumer(a) PROVE LinkInv'
    BY <1>6, PauseSteps
<1>7. ASSUME NEW pause \in BOOLEAN, ServerPause(pause) \/ FailToPublishPause PROVE LinkInv'
    BY <1>7, OrderSteps
<1>8. ASSUME UNCHANGED vars PROVE LinkInv'
    BY <1>8 DEF vars, client, link, history
<1> QED  BY <1>1, <1>2, <1>3, <1>4, <1>5, <1>6, <1>7, <1>8 DEF Next

(* Every step keeps HandlerInv: only Recognise makes a declaration.          *)
LEMMA HandlerNext == ASSUME TypeOK, HandlerInv, [Next]_vars PROVE HandlerInv'
<1> USE DEF HandlerInv
<1>1. ASSUME NEW a \in Player, Session(a) PROVE HandlerInv'
    <2>1. CASE Exit(a)  BY <2>1 DEF Exit, TypeOK
    <2>2. CASE Redial(a)
        <3>1. ASSUME NEW h \in mover'[a], h.pc = "declare"
              PROVE  \E g \in mover[a] : h.pc = g.pc /\ h.move = g.move /\ h.war = g.war
            <4>1. PICK g \in mover[a] : h = [g EXCEPT !.live = FALSE]
                BY <2>2 DEF Redial, TypeOK
            <4>2. g \in Handlers  BY DEF TypeOK
            <4> QED  BY <4>1, <4>2, <3>1 DEF Handlers
        <3>2. \A p \in Player : p # a => mover'[p] = mover[p]  BY <2>2 DEF Redial, TypeOK
        <3> QED  BY <3>1, <3>2
    <2> QED  BY <1>1, <2>1, <2>2 DEF Session, Join, Disconnect, Resubscribe, client
<1>2. ASSUME NEW a \in Player, NewCommand(a) \/ Command(a) PROVE UNCHANGED mover
    BY <1>2 DEF NewCommand, Command, SpawnId, BeginMove, AddUnit, GetUnit, UpdateUnit, SnapMove,
                PublishMove, FailToPublishMove
<1>3. ASSUME NEW a \in Player, MoveConsumer(a) PROVE HandlerInv'
    <2>1. CASE RejectOwnMove(a) \/ IgnoreMove(a)  BY <2>1 DEF RejectOwnMove, IgnoreMove
    <2>2. CASE NoticeMove(a)
        <3> DEFINE g == [pc |-> "noticed", move |-> Head(moveq[a]), live |-> TRUE]
        <3>1. mover' = [mover EXCEPT ![a] = @ \cup {g}]  BY <2>2 DEF NoticeMove
        <3>2. g.pc # "declare"  OBVIOUS
        <3> HIDE DEF g
        <3> QED  BY <3>1, <3>2 DEF TypeOK
    <2>3. ASSUME NEW h \in mover[a], Recognise(a, h) PROVE HandlerInv'
        <3>1. mover \in [Player -> SUBSET Handlers]  BY DEF TypeOK
        <3> QED  BY <2>3, <3>1 DEF Recognise
    <2>4. ASSUME NEW h \in mover[a], DeclareWar(a, h) \/ FailToDeclareWar(a, h)
          PROVE  HandlerInv'
        <3>1. mover' = [mover EXCEPT ![a] = mover[a] \ {h}]
            BY <2>4 DEF DeclareWar, FailToDeclareWar
        <3> QED  BY <3>1 DEF TypeOK
    <2> QED  BY <1>3, <2>1, <2>2, <2>3, <2>4 DEF MoveConsumer
<1>4. ASSUME NEW a \in Player, WarConsumer(a) \/ PauseConsumer(a) PROVE UNCHANGED mover
    BY <1>4, PauseSteps
       DEF WarConsumer, IgnoreWar, RejectWar, FightWar, TakeWar, PublishGameLog,
           FailToPublishGameLog
<1>5. ASSUME NEW pause \in BOOLEAN, ServerPause(pause) \/ FailToPublishPause PROVE UNCHANGED mover
    BY <1>5, OrderSteps
<1>6. ASSUME UNCHANGED vars PROVE UNCHANGED mover
    BY <1>6 DEF vars, client
<1> QED  BY <1>1, <1>2, <1>3, <1>4, <1>5, <1>6 DEF Next

(* Every step keeps PublishInv: between the copy and the publish the army    *)
(* can only shrink.                                                          *)
LEMMA PublishNext == ASSUME TypeOK, PublishInv, [Next]_vars PROVE PublishInv'
<1> USE DEF PublishInv
<1>1. ASSUME NEW a \in Player, Session(a) PROVE PublishInv'
    <2>1. CASE Exit(a)  BY <2>1 DEF Exit, TypeOK, Idle
    <2> QED  BY <1>1, <2>1 DEF Session, Join, Disconnect, Redial, Resubscribe, client
<1>2. ASSUME NEW a \in Player, NewCommand(a) PROVE PublishInv'
    <2>1. UNCHANGED army  BY <1>2 DEF NewCommand, SpawnId, BeginMove
    <2>2. \E c : c.pc # "publish" /\ repl' = [repl EXCEPT ![a] = c]
        BY <1>2 DEF NewCommand, SpawnId, BeginMove
    <2> QED  BY <2>1, <2>2 DEF TypeOK
<1>3. ASSUME NEW a \in Player, Command(a) PROVE PublishInv'
    <2>1. CASE SnapMove(a)  BY <2>1 DEF SnapMove, TypeOK
    <2>2. CASE ~SnapMove(a)
        <3>1. \E c : c.pc # "publish" /\ repl' = [repl EXCEPT ![a] = c]
            BY <1>3, <2>2 DEF Command, AddUnit, GetUnit, UpdateUnit, PublishMove,
                              FailToPublishMove, Idle
        <3>2. \A q \in Player : q # a => army'[q] = army[q]
            BY <1>3, <2>2 DEF Command, AddUnit, GetUnit, UpdateUnit, PublishMove,
                              FailToPublishMove, TypeOK
        <3> QED  BY <3>1, <3>2 DEF TypeOK
    <2> QED  BY <2>1, <2>2
<1>4. ASSUME NEW a \in Player, MoveConsumer(a) PROVE PublishInv'
    BY <1>4 DEF MoveConsumer, RejectOwnMove, IgnoreMove, NoticeMove, TakeMove, Recognise,
                DeclareWar, FailToDeclareWar
<1>5. ASSUME NEW a \in Player, WarConsumer(a) PROVE PublishInv'
    <2>1. UNCHANGED repl
        BY <1>5 DEF WarConsumer, IgnoreWar, RejectWar, FightWar, TakeWar, PublishGameLog,
                    FailToPublishGameLog
    <2>2. ASSUME NEW q \in Player PROVE Locations(army'[q]) \subseteq Locations(army[q])
        BY <1>5, WarConsumerShrinks
    <2> QED  BY <2>1, <2>2
<1>6. ASSUME NEW a \in Player, PauseConsumer(a) PROVE PublishInv'
    BY <1>6, PauseSteps
<1>7. ASSUME NEW pause \in BOOLEAN, ServerPause(pause) \/ FailToPublishPause PROVE PublishInv'
    BY <1>7, OrderSteps
<1>8. ASSUME UNCHANGED vars PROVE PublishInv'
    BY <1>8 DEF vars, client
<1> QED  BY <1>1, <1>2, <1>3, <1>4, <1>5, <1>6, <1>7, <1>8 DEF Next

-----------------------------------------------------------------------------
(* CoverInv, action by action. Each lemma takes a pair that shares a place   *)
(* and was told of it after the step and finds what covers it.               *)

(* The wars delivered to both parties are wars, so a later war has another   *)
(* id.                                                                       *)
LEMMA MetIsTyped ==
    ASSUME TypeOK, NEW m \in met
    PROVE  m[1] \in WarIds /\ m[1] \in DOMAIN wars /\ m[2] \in Location
BY DEF TypeOK, WarIds

(* Steps that touch nothing CoverInv looks at.                               *)
LEMMA CoverFrame ==
    ASSUME CoverInv, UNCHANGED <<army, quiet, met, deaf, moveq, mover, wars>>
    PROVE  CoverInv'
BY DEF CoverInv, Share, Told, Covered, Noticed, Heard

(* Armies that only shrink keep CoverInv too.                                *)
LEMMA CoverShrink ==
    ASSUME CoverInv, UNCHANGED <<quiet, met, deaf, moveq, mover, wars>>,
           \A q \in Player : Locations(army'[q]) \subseteq Locations(army[q])
    PROVE  CoverInv'
<1> SUFFICES ASSUME NEW p \in Player, NEW q \in Player, NEW loc \in Location,
                    Share(p, q, loc)', Told(p, q, loc)'
             PROVE  Covered(p, q, loc)'
    BY DEF CoverInv
<1>1. Share(p, q, loc) /\ Told(p, q, loc)  BY DEF Share, Told
<1> QED  BY <1>1 DEF CoverInv, Covered, Noticed, Heard

(* The sessions of a: a itself is told of nothing, or has nothing.           *)
LEMMA CoverSession ==
    ASSUME MeetingInv, NEW a \in Player, Session(a)
    PROVE  CoverInv'
<1> SUFFICES ASSUME NEW p \in Player, NEW q \in Player, NEW loc \in Location,
                    Share(p, q, loc)', Told(p, q, loc)'
             PROVE  Covered(p, q, loc)'
    BY DEF CoverInv
<1> USE DEF MeetingInv
<1>1. CASE Join(a) \/ \E kind \in Kinds : Resubscribe(a, kind)
    BY <1>1, CoverFrame DEF Join, Resubscribe, client, queues, ledger, arrival, history, CoverInv
<1>2. CASE Exit(a) \/ Disconnect(a)
    <2>1. p # a /\ q # a
        <3>1. CASE Exit(a)  BY <3>1, NoUnitsNowhere DEF Exit, Share, TypeOK
        <3>2. CASE Disconnect(a)  BY <3>2 DEF Disconnect, Told, TypeOK
        <3> QED  BY <1>2, <3>1, <3>2
    <2>2. /\ army'[p] = army[p] /\ army'[q] = army[q]
          /\ deaf'[p] = deaf[p] /\ deaf'[q] = deaf[q]
          /\ moveq'[p] = moveq[p] /\ moveq'[q] = moveq[q]
          /\ mover'[p] = mover[p] /\ mover'[q] = mover[q]
          /\ wars' = wars
          /\ met' = {m \in met : a \notin Parties(wars[m[1]])}
        <3>1. /\ army \in [Player -> Armies] /\ deaf \in [Player -> BOOLEAN]
              /\ moveq \in [Player -> Seq(Moves)] /\ mover \in [Player -> SUBSET Handlers]
            BY DEF TypeOK
        <3>2. CASE Exit(a)  BY <2>1, <3>1, <3>2 DEF Exit, ledger
        <3>3. CASE Disconnect(a)
            BY <2>1, <3>1, <3>3 DEF Disconnect, client, queues, ledger
        <3> QED  BY <1>2, <3>2, <3>3
    <2>3. Share(p, q, loc) /\ Told(p, q, loc)
        BY <1>2, <2>1, <2>2 DEF Share, Told, Exit, Disconnect
    <2>4. Covered(p, q, loc)  BY <2>3 DEF CoverInv
    <2>5. Noticed(p, q, loc) => Noticed(p, q, loc)'  BY <2>1, <2>2 DEF Noticed
    <2>6. (Heard(p, q, loc) => Heard(p, q, loc)') /\ (Heard(q, p, loc) => Heard(q, p, loc)')
        BY <2>2 DEF Heard
    <2> QED  BY <2>4, <2>5, <2>6 DEF Covered
<1>3. CASE Redial(a)
    <2>1. Share(p, q, loc) /\ Told(p, q, loc)
        BY <1>3 DEF Redial, arrival, Share, Told
    <2>2. p # a /\ q # a  BY <2>1, <1>3, TalkingPlayers DEF Redial
    <2>3. Covered(p, q, loc)  BY <2>1 DEF CoverInv
    <2>4. /\ moveq'[p] = moveq[p] /\ moveq'[q] = moveq[q]
          /\ mover'[p] = mover[p] /\ mover'[q] = mover[q]
          /\ wars' = wars /\ met' = met
        BY <1>3, <2>2 DEF Redial, TypeOK, ledger, arrival
    <2> QED  BY <2>3, <2>4 DEF Covered, Noticed, Heard
<1> QED  BY <1>1, <1>2, <1>3 DEF Session

(* a comes to a place: not told of it yet; every other place is as before.   *)
LEMMA CoverArrive ==
    ASSUME MeetingInv, NEW a \in Player, NEW place \in Location, NEW id, NEW unit,
           Arrive(a, place), unit.location = place,
           army' = [army EXCEPT ![a] = PutUnit(army[a], id, unit)],
           UNCHANGED <<moveq, mover, wars>>
    PROVE  CoverInv'
<1> SUFFICES ASSUME NEW p \in Player, NEW q \in Player, NEW loc \in Location,
                    Share(p, q, loc)', Told(p, q, loc)'
             PROVE  Covered(p, q, loc)'
    BY DEF CoverInv
<1> USE DEF MeetingInv
<1>1. a \in {p, q} => loc # place  BY DEF Arrive, Told
<1>2. ASSUME NEW x \in {p, q} PROVE loc \in Locations(army[x])
    <2>3. /\ army'[a] = PutUnit(army[a], id, unit)
          /\ \A y \in Player : y # a => army'[y] = army[y]
        <3>1. army \in [Player -> Armies]  BY DEF TypeOK
        <3> QED  BY <3>1
    <2>4. x \in Player /\ loc \in Locations(army'[x])  BY DEF Share
    <2>1. CASE x = a
        <3>1. Locations(army'[a]) \subseteq Locations(army[a]) \cup {place}
            BY <2>3, PutLocations
        <3> QED  BY <2>1, <2>4, <3>1, <1>1
    <2>2. CASE x # a  BY <2>2, <2>3, <2>4
    <2> QED  BY <2>1, <2>2
<1>3. Share(p, q, loc) /\ Told(p, q, loc)  BY <1>2 DEF Share, Told, Arrive
<1>4. Covered(p, q, loc)  BY <1>3 DEF CoverInv
<1>5. Noticed(p, q, loc) => Noticed(p, q, loc)'  BY <1>1 DEF Noticed, Arrive
<1>6. (Heard(p, q, loc) => Heard(p, q, loc)') /\ (Heard(q, p, loc) => Heard(q, p, loc)')
    BY DEF Heard
<1> QED  BY <1>4, <1>5, <1>6 DEF Covered

(* A published move is on its way to everyone who is not deaf.               *)
LEMMA CoverPublishMove ==
    ASSUME MeetingInv, NEW a \in Player, PublishMove(a)
    PROVE  CoverInv'
<1> SUFFICES ASSUME NEW p \in Player, NEW q \in Player, NEW loc \in Location,
                    Share(p, q, loc)', Told(p, q, loc)'
             PROVE  Covered(p, q, loc)'
    BY DEF CoverInv
<1> USE DEF MeetingInv
<1> DEFINE move == [player |-> a, units |-> repl[a].units]
<1>1. /\ UNCHANGED <<army, mover, met, wars, phase, subs>>
      /\ moveq' = Deliver(moveq, "moves", move)
    BY DEF PublishMove, link, ledger
<1>2. Share(p, q, loc)  BY <1>1 DEF Share
<1>3. ASSUME NEW x \in Player, NEW i \in DOMAIN moveq[x]
      PROVE  i \in DOMAIN moveq'[x] /\ moveq'[x][i] = moveq[x][i]
    <2>1. moveq[x] \in Seq(Moves)  BY DEF TypeOK
    <2>2. moveq'[x] = moveq[x] \/ moveq'[x] = Append(moveq[x], move)
        BY <1>1 DEF Deliver
    <2> QED  BY <2>1, <2>2
<1>4. ASSUME NEW y \in Player, y # a, Share(a, y, loc), ~deaf'[y]
      PROVE  Heard(a, y, loc)'
    <2>1. "moves" \in subs[y]
        BY <1>4 DEF LinkInv, Share, PublishMove, TypeOK
    <2>2. moveq[y] \in Seq(Moves)  BY DEF TypeOK
    <2>3. moveq'[y] = Append(moveq[y], move)  BY <1>1, <2>1 DEF Deliver
    <2>4. /\ Len(moveq[y]) + 1 \in DOMAIN moveq'[y]
          /\ moveq'[y][Len(moveq[y]) + 1] = move
        BY <2>2, <2>3
    <2>5. Shows(move, a, loc)  BY <1>4 DEF PublishInv, PublishMove, Share, Shows
    <2> QED  BY <2>4, <2>5 DEF Heard
<1>5. CASE a \in {p, q}
    BY <1>2, <1>4, <1>5 DEF Covered, Told, Share
<1>6. CASE a \notin {p, q}
    <2>1. Told(p, q, loc)  BY <1>6 DEF PublishMove, Told, TypeOK
    <2>2. Covered(p, q, loc)  BY <1>2, <2>1 DEF CoverInv
    <2>3. (Heard(p, q, loc) => Heard(p, q, loc)') /\ (Heard(q, p, loc) => Heard(q, p, loc)')
        BY <1>1, <1>3 DEF Heard
    <2>4. Noticed(p, q, loc) => Noticed(p, q, loc)'  BY <1>1 DEF Noticed
    <2> QED  BY <2>2, <2>3, <2>4 DEF Covered
<1> QED  BY <1>5, <1>6

(* What a covers is still covered when a handler of another player works,    *)
(* and what y was told is still in its queue or its handlers: the lemmas     *)
(* below only look at y = a.                                                 *)
LEMMA HeardElsewhere ==
    ASSUME NEW a \in Player, NEW x \in Player, NEW y \in Player, NEW loc, y # a,
           Heard(x, y, loc), moveq'[y] = moveq[y], mover'[y] = mover[y]
    PROVE  Heard(x, y, loc)'
BY DEF Heard

(* The next move is handled: one that shows an enemy in a place of a's is    *)
(* not ignored, and being handled takes the place of being queued.           *)
LEMMA CoverTakeMove ==
    ASSUME MeetingInv, NEW a \in Player,
           RejectOwnMove(a) \/ IgnoreMove(a) \/ NoticeMove(a)
    PROVE  CoverInv'
<1> SUFFICES ASSUME NEW p \in Player, NEW q \in Player, NEW loc \in Location,
                    Share(p, q, loc)', Told(p, q, loc)'
             PROVE  Covered(p, q, loc)'
    BY DEF CoverInv
<1> USE DEF MeetingInv
<1> DEFINE move == Head(moveq[a])
<1>1. TakeMove(a)  BY DEF RejectOwnMove, IgnoreMove, NoticeMove
<1>2. UNCHANGED <<army, quiet, met, deaf, wars>>  BY <1>1 DEF TakeMove, history
<1>3. \A y \in Player : y # a => moveq'[y] = moveq[y] /\ mover'[y] = mover[y]
    BY <1>1 DEF TakeMove, RejectOwnMove, IgnoreMove, NoticeMove, TypeOK
<1>4. /\ moveq[a] \in Seq(Moves) /\ moveq[a] # <<>> /\ moveq'[a] = Tail(moveq[a])
      /\ mover[a] \subseteq mover'[a]
    <2>1. mover' = mover \/ \E g : mover' = [mover EXCEPT ![a] = mover[a] \cup {g}]
        BY DEF RejectOwnMove, IgnoreMove, NoticeMove
    <2>3. mover \in [Player -> SUBSET Handlers]  BY DEF TypeOK
    <2>2. mover[a] \subseteq mover'[a]  BY <2>1, <2>3
    <2> QED  BY <1>1, <2>2 DEF TakeMove, TypeOK
<1>5. ASSUME NEW x \in Player, x # a, Heard(x, a, loc), loc \in Locations(army[a])
      PROVE  Heard(x, a, loc)'
    <2>1. CASE \E i \in DOMAIN moveq[a] : Shows(moveq[a][i], x, loc)
        <3>1. PICK i \in DOMAIN moveq[a] : Shows(moveq[a][i], x, loc)  BY <2>1
        <3>2. CASE \E j \in DOMAIN Tail(moveq[a]) : Tail(moveq[a])[j] = moveq[a][i]
            BY <3>1, <3>2, <1>4 DEF Heard
        <3>3. CASE moveq[a][i] = move
            <4>1. NoticeMove(a)
                BY <3>1, <3>3, <1>5
                   DEF Shows, RejectOwnMove, IgnoreMove, NoticeMove, Overlap
            <4>2. [pc |-> "noticed", move |-> move, live |-> TRUE] \in mover'[a]
                BY <4>1 DEF NoticeMove, TypeOK
            <4> QED  BY <4>2, <3>1, <3>3 DEF Heard
        <3> QED  BY <3>2, <3>3, <1>4, TailKeeps
    <2>2. CASE ~\E i \in DOMAIN moveq[a] : Shows(moveq[a][i], x, loc)
        BY <2>2, <1>4, <1>5, <1>2 DEF Heard
    <2> QED  BY <2>1, <2>2
<1>6. Share(p, q, loc) /\ Told(p, q, loc)  BY <1>2 DEF Share, Told
<1>7. Covered(p, q, loc)  BY <1>6 DEF CoverInv
<1>8. Noticed(p, q, loc) => Noticed(p, q, loc)'  BY <1>2 DEF Noticed
<1>9. (Heard(p, q, loc) => Heard(p, q, loc)') /\ (Heard(q, p, loc) => Heard(q, p, loc)')
    BY <1>3, <1>5, <1>6, HeardElsewhere DEF Share
<1> QED  BY <1>7, <1>8, <1>9 DEF Covered

(* The second snapshot still shows what the pair shares.                     *)
LEMMA CoverRecognise ==
    ASSUME MeetingInv, NEW a \in Player, NEW h \in mover[a], Recognise(a, h)
    PROVE  CoverInv'
<1> SUFFICES ASSUME NEW p \in Player, NEW q \in Player, NEW loc \in Location,
                    Share(p, q, loc)', Told(p, q, loc)'
             PROVE  Covered(p, q, loc)'
    BY DEF CoverInv
<1> USE DEF MeetingInv
<1> DEFINE g == [pc |-> "declare", move |-> h.move, live |-> h.live,
                 war |-> [attacker |-> h.move.player, attackerUnits |-> h.move.units,
                          defender |-> a, defenderUnits |-> army[a]]]
<1>1. UNCHANGED <<army, quiet, met, deaf, wars, moveq>>
    BY DEF Recognise, history, ledger, queues
<1>2. /\ \A y \in Player : y # a => mover'[y] = mover[y]
      /\ mover'[a] = (mover[a] \ {h}) \cup {g}
    BY DEF Recognise, TypeOK
<1>3. ASSUME NEW x \in Player, Heard(x, a, loc), loc \in Locations(army[a])
      PROVE  Heard(x, a, loc)'
    <2>1. CASE h.live /\ Shows(h.move, x, loc)
        <3>1. g.live /\ g.pc = "declare" /\ Shows(g.move, x, loc)  BY <2>1
        <3>2. loc \in Contested(g.war)  BY <2>1, <1>3 DEF Contested, Shows
        <3> QED  BY <3>1, <3>2, <1>2 DEF Heard
    <2>2. CASE ~(h.live /\ Shows(h.move, x, loc))
        BY <2>2, <1>1, <1>2, <1>3 DEF Heard
    <2> QED  BY <2>1, <2>2
<1>4. Share(p, q, loc) /\ Told(p, q, loc)  BY <1>1 DEF Share, Told
<1>5. Covered(p, q, loc)  BY <1>4 DEF CoverInv
<1>6. Noticed(p, q, loc) => Noticed(p, q, loc)'  BY <1>1 DEF Noticed
<1>7. (Heard(p, q, loc) => Heard(p, q, loc)') /\ (Heard(q, p, loc) => Heard(q, p, loc)')
    BY <1>1, <1>2, <1>3, <1>4, HeardElsewhere DEF Share
<1> QED  BY <1>5, <1>6, <1>7 DEF Covered

(* The declaration reaches both parties, so the war becomes one both met.    *)
LEMMA CoverDeclareWar ==
    ASSUME MeetingInv, NEW a \in Player, NEW h \in mover[a], DeclareWar(a, h)
    PROVE  CoverInv'
<1> SUFFICES ASSUME NEW p \in Player, NEW q \in Player, NEW loc \in Location,
                    Share(p, q, loc)', Told(p, q, loc)'
             PROVE  Covered(p, q, loc)'
    BY DEF CoverInv
<1> USE DEF MeetingInv
<1> DEFINE n == Len(wars) + 1
<1>1. UNCHANGED <<army, quiet, deaf, moveq>>  BY DEF DeclareWar
<1>2. /\ \A y \in Player : y # a => mover'[y] = mover[y]
      /\ mover'[a] = mover[a] \ {h}
    BY DEF DeclareWar, TypeOK
<1>3. /\ met \subseteq met'
      /\ wars'[n] = h.war
      /\ \A i \in WarIds : wars'[i] = wars[i]
    BY MoverType DEF DeclareWar, TypeOK, WarIds
<1>4. Share(p, q, loc) /\ Told(p, q, loc)  BY <1>1 DEF Share, Told
<1>5. {"moves", "wars"} \subseteq subs[p] /\ {"moves", "wars"} \subseteq subs[q]
    BY <1>4, TalkingPlayers
<1>6. ASSUME NEW x \in Player, Heard(x, a, loc), {x, a} = {p, q}
      PROVE  Heard(x, a, loc)' \/ Noticed(p, q, loc)'
    <2>1. CASE h.live /\ Shows(h.move, x, loc) /\ loc \in Contested(h.war)
        <3>1. h.war.attacker = x /\ h.war.defender = a
            BY <2>1 DEF HandlerInv, DeclareWar, Shows
        <3>2. Parties(h.war) = {p, q}  BY <3>1, <1>6 DEF Parties
        <3>3. <<n, loc>> \in met'  BY <2>1, <3>2, <1>5 DEF DeclareWar
        <3> QED  BY <3>2, <3>3, <1>3 DEF Noticed
    <2>2. CASE ~(h.live /\ Shows(h.move, x, loc) /\ loc \in Contested(h.war))
        BY <2>2, <1>1, <1>2, <1>6 DEF Heard, DeclareWar
    <2> QED  BY <2>1, <2>2
<1>7. Covered(p, q, loc)  BY <1>4 DEF CoverInv
<1>8. Noticed(p, q, loc) => Noticed(p, q, loc)'
    <2>1. ASSUME NEW m \in met PROVE wars'[m[1]] = wars[m[1]]  BY <1>3, MetIsTyped
    <2> QED  BY <2>1, <1>3 DEF Noticed
<1>9. /\ Heard(p, q, loc) => Heard(p, q, loc)' \/ Noticed(p, q, loc)'
      /\ Heard(q, p, loc) => Heard(q, p, loc)' \/ Noticed(p, q, loc)'
    BY <1>1, <1>2, <1>6, HeardElsewhere
<1> QED  BY <1>7, <1>8, <1>9 DEF Covered

(* The move goes back to the queue it came from, which is still there.       *)
LEMMA CoverFailToDeclareWar ==
    ASSUME MeetingInv, NEW a \in Player, NEW h \in mover[a], FailToDeclareWar(a, h)
    PROVE  CoverInv'
<1> SUFFICES ASSUME NEW p \in Player, NEW q \in Player, NEW loc \in Location,
                    Share(p, q, loc)', Told(p, q, loc)'
             PROVE  Covered(p, q, loc)'
    BY DEF CoverInv
<1> USE DEF MeetingInv
<1>1. UNCHANGED <<army, quiet, met, deaf, wars>>
    BY DEF FailToDeclareWar, history, ledger
<1>2. /\ \A y \in Player : y # a => mover'[y] = mover[y]
      /\ mover'[a] = mover[a] \ {h}
    BY DEF FailToDeclareWar, TypeOK
<1>3. \A y \in Player : y # a => moveq'[y] = moveq[y]
    BY DEF FailToDeclareWar, Requeue, TypeOK
<1>4. Share(p, q, loc) /\ Told(p, q, loc)  BY <1>1 DEF Share, Told
<1>5. phase[p] = "up" /\ phase[q] = "up"  BY <1>4, TalkingPlayers
<1>6. moveq[a] \in Seq(Moves) /\ h.move \in Moves  BY MoverType DEF TypeOK
<1>7. \/ moveq' = moveq /\ ~(h.live /\ phase[a] = "up")
      \/ \E i \in 1..Len(moveq[a]) + 1 : moveq'[a] = InsertAt(moveq[a], i, h.move)
    BY DEF FailToDeclareWar, Requeue, TypeOK
<1>8. ASSUME NEW x \in Player, Heard(x, a, loc), phase[a] = "up"
      PROVE  Heard(x, a, loc)'
    <2>1. CASE h.live /\ Shows(h.move, x, loc)
        <3>1. \E j \in DOMAIN moveq'[a] : moveq'[a][j] = h.move
            BY <2>1, <1>6, <1>7, <1>8, InsertKeeps
        <3> QED  BY <2>1, <3>1 DEF Heard
    <2>2. CASE ~(h.live /\ Shows(h.move, x, loc))
        <3>1. \A i \in DOMAIN moveq[a] : \E j \in DOMAIN moveq'[a] : moveq'[a][j] = moveq[a][i]
            BY <1>6, <1>7, InsertKeeps
        <3> QED  BY <2>2, <3>1, <1>2, <1>8 DEF Heard
    <2> QED  BY <2>1, <2>2
<1>9. (Heard(p, q, loc) => Heard(p, q, loc)') /\ (Heard(q, p, loc) => Heard(q, p, loc)')
    BY <1>2, <1>3, <1>5, <1>8, HeardElsewhere
<1>10. Covered(p, q, loc)  BY <1>4 DEF CoverInv
<1>11. Noticed(p, q, loc) => Noticed(p, q, loc)'  BY <1>1 DEF Noticed
<1> QED  BY <1>9, <1>10, <1>11 DEF Covered
-----------------------------------------------------------------------------
(* The theorem.                                                              *)

(* The invariant holds when nobody has a unit.                               *)
LEMMA MeetingInit == ASSUME Init PROVE MeetingInv
<1>1. \A p \in Player : Locations(army[p]) = {}  BY NoUnitsNowhere DEF Init
<1>2. LinkInv /\ HandlerInv /\ PublishInv
    BY <1>1 DEF Init, LinkInv, HandlerInv, PublishInv, Idle
<1>3. CoverInv  BY <1>1 DEF CoverInv, Share
<1> QED  BY <1>2, <1>3, TypeInit DEF MeetingInv

(* Every step keeps CoverInv, by one lemma per kind of step.                 *)
LEMMA CoverNext == ASSUME MeetingInv, [Next]_vars PROVE CoverInv'
<1>1. ASSUME NEW a \in Player, NewCommand(a) PROVE CoverInv'
    BY <1>1, CoverFrame DEF MeetingInv, NewCommand, SpawnId, BeginMove, queues, ledger, history
<1>2. ASSUME NEW a \in Player, Command(a) PROVE CoverInv'
    <2>1. CASE AddUnit(a)
        <3>1. repl[a].unit.location \in Location
            BY <2>1, ReplType DEF MeetingInv, AddUnit, Unit
        <3> QED  BY <2>1, <3>1, CoverArrive DEF AddUnit, queues, ledger
    <2>2. CASE UpdateUnit(a)
        <3>1. repl[a].unit.location \in Location
            BY <2>2, ReplType DEF MeetingInv, UpdateUnit, Unit
        <3> QED  BY <2>2, <3>1, CoverArrive DEF UpdateUnit, queues, ledger
    <2>3. CASE PublishMove(a)  BY <2>3, CoverPublishMove
    <2>4. CASE GetUnit(a) \/ SnapMove(a) \/ FailToPublishMove(a)
        BY <2>4, CoverFrame
           DEF MeetingInv, GetUnit, SnapMove, FailToPublishMove, queues, ledger, history
    <2> QED  BY <1>2, <2>1, <2>2, <2>3, <2>4 DEF Command
<1>3. ASSUME NEW a \in Player, MoveConsumer(a) PROVE CoverInv'
    BY <1>3, CoverTakeMove, CoverRecognise, CoverDeclareWar, CoverFailToDeclareWar
       DEF MoveConsumer
<1>4. ASSUME NEW a \in Player, WarConsumer(a) PROVE CoverInv'
    <2>1. UNCHANGED <<quiet, met, deaf, moveq, mover, wars>>
        BY <1>4 DEF WarConsumer, IgnoreWar, RejectWar, FightWar, TakeWar, PublishGameLog,
                    FailToPublishGameLog, queues, ledger, history
    <2> QED  BY <1>4, <2>1, WarConsumerShrinks, CoverShrink DEF MeetingInv
<1>5. ASSUME NEW a \in Player, PauseConsumer(a) PROVE CoverInv'
    BY <1>5, CoverFrame, PauseSteps DEF MeetingInv
<1>6. ASSUME NEW pause \in BOOLEAN, ServerPause(pause) \/ FailToPublishPause PROVE CoverInv'
    BY <1>6, CoverFrame, OrderSteps DEF MeetingInv
<1>7. ASSUME UNCHANGED vars PROVE CoverInv'
    BY <1>7, CoverFrame DEF MeetingInv, vars, client, queues, ledger, history
<1> QED  BY <1>1, <1>2, <1>3, <1>4, <1>5, <1>6, <1>7, CoverSession DEF Next

(* Every step keeps the invariant.                                           *)
LEMMA MeetingNext == ASSUME MeetingInv, [Next]_vars PROVE MeetingInv'
BY TypeNext, LinkNext, HandlerNext, PublishNext, CoverNext DEF MeetingInv

(* With every move handled nothing is left to hear, so the war has been      *)
(* noticed.                                                                  *)
LEMMA MeetingInvImplies == ASSUME MeetingInv PROVE MeetingsAreNoticed
<1>1. DOMAIN <<>> = {}  OBVIOUS
<1>2. ASSUME NEW p, NEW q, NEW loc, MovesHandled(q)
      PROVE  ~Heard(p, q, loc)
    BY <1>1, <1>2 DEF MovesHandled, Heard
<1>3. CoverInv  BY DEF MeetingInv
<1> QED  BY <1>2, <1>3, Zenon DEF CoverInv, Covered, MeetingsAreNoticed, Noticed

(* For any number of players and places: two players with nothing left to    *)
(* handle that share a place of which they were told have a war about it.    *)
THEOREM MeetingsNoticed == Spec => []MeetingsAreNoticed
BY MeetingInit, MeetingNext, MeetingInvImplies, PTL DEF Spec
=============================================================================
