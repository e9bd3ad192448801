------------------------------ MODULE WarProofs ------------------------------
(* Wars clear the field: WarsClearTheField, and with MeetingsAreNoticed the  *)
(* end of a meeting, NoStandoff, for any number of players, places and units *)
(* and whatever is lost, retried or restarted.                               *)
(*                                                                           *)
(* WarsClearTheField is nearly inductive. It lacks why a party's queue is    *)
(* never emptied behind its back: a war both met is between two players who  *)
(* are subscribed to wars, so neither is redialling (MetInv).                *)
(*                                                                           *)
(* Then what becomes of a war: OneLogPerWar and DeadLettersAreAccounted, by  *)
(* counting the messages in the queues, the life of its report (WarReport)   *)
(* and who can disagree about it.                                            *)
EXTENDS MeetingProofs

MetInv ==
    \A m \in met : \A p \in Parties(wars[m[1]]) : "wars" \in subs[p]

WarInv == TypeOK /\ LinkInv /\ MetInv /\ WarsClearTheField

-----------------------------------------------------------------------------
(* Armies and outcomes.                                                      *)

(* An army has finitely many units of a rank anywhere, so strength is a      *)
(* number and two strengths can be compared.                                 *)
LEMMA PowerType ==
    ASSUME NEW units \in Armies, NEW loc
    PROVE  PowerLevel(units, loc) \in Nat
<1>1. IsFiniteSet(DOMAIN units)
    <2>1. IsFiniteSet(1..MaxUnits)  BY FS_Interval, MaxUnitsAssumption
    <2>2. DOMAIN units \subseteq 1..MaxUnits  BY ArmyElim DEF UnitId
    <2> QED  BY <2>1, <2>2, FS_Subset
<1>2. ASSUME NEW rank PROVE OfRank(units, loc, rank) \in Nat
    <2> DEFINE those == {i \in InLocation(units, loc) : units[i].rank = rank}
    <2>1. those \subseteq DOMAIN units  BY DEF InLocation
    <2>2. Cardinality(those) \in Nat  BY <1>1, <2>1, FS_Subset, FS_CardinalityType
    <2> QED  BY <2>2 DEF OfRank
<1> QED  BY <1>2 DEF PowerLevel

(* The powers of the two parties of a war are numbers.                       *)
LEMMA WarPowers ==
    ASSUME NEW war \in Recognition, NEW loc
    PROVE  /\ PowerLevel(war.attackerUnits, loc) \in Nat
           /\ PowerLevel(war.defenderUnits, loc) \in Nat
BY PowerType DEF Recognition

(* Whoever did not outdo the other is among those HandleWar removes.         *)
LEMMA BeatenAreRemoved ==
    ASSUME NEW war \in Recognition, NEW loc
    PROVE  Beaten(war, loc) \subseteq Removed(war, ResolveWar(war, loc))
<1> DEFINE a == PowerLevel(war.attackerUnits, loc)
           d == PowerLevel(war.defenderUnits, loc)
           result == ResolveWar(war, loc)
<1>1. a \in Nat /\ d \in Nat  BY WarPowers
<1>2. /\ result.draw <=> a = d
      /\ result.loser = IF d > a THEN war.attacker ELSE war.defender
    BY Zenon DEF ResolveWar
<1>3. Beaten(war, loc) = {p \in Parties(war) : \/ p = war.attacker /\ a <= d
                                               \/ p = war.defender /\ d <= a}
    BY DEF Beaten
<1>4. Removed(war, result) = IF result.draw THEN Parties(war) ELSE {result.loser}
    BY DEF Removed
<1> HIDE DEF a, d, result
<1> QED  BY <1>1, <1>2, <1>3, <1>4 DEF result

(* In every war somebody does not outdo the other.                           *)
LEMMA SomebodyIsBeaten ==
    ASSUME NEW war \in Recognition, NEW loc
    PROVE  Beaten(war, loc) # {} /\ Beaten(war, loc) \subseteq Parties(war)
BY WarPowers DEF Beaten, Parties

(* A member of met is a war that was declared, and its place.                *)
LEMMA MetType ==
    ASSUME TypeOK, NEW m \in met
    PROVE  m[1] \in WarIds /\ m[2] \in Location /\ wars[m[1]] \in Recognition
BY DEF TypeOK, WarIds

(* Being in a queue, in terms of its positions.                              *)
LEMMA InQueue ==
    ASSUME NEW s, NEW e
    PROVE  Contains(s, e) <=> \E i \in 1..Len(s) : s[i] = e
BY DEF Contains

-----------------------------------------------------------------------------
(* What keeps the invariant: fewer wars met, smaller armies, longer queues.  *)

(* A step keeps MetInv when it adds no war and unsubscribes nobody.          *)
LEMMA MetFrame ==
    ASSUME MetInv, met' \subseteq met, UNCHANGED wars,
           \A p \in Player : "wars" \in subs[p] => "wars" \in subs'[p],
           \A m \in met : Parties(wars[m[1]]) \subseteq Player
    PROVE  MetInv'
BY DEF MetInv

(* A step keeps WarsClearTheField when no party of a war both met comes to a *)
(* place or loses a message.                                                 *)
LEMMA ClearFrame ==
    ASSUME WarsClearTheField, met' \subseteq met, UNCHANGED wars,
           \A m \in met' : \A p \in Parties(wars[m[1]]) :
              /\ m[2] \in Locations(army'[p]) => m[2] \in Locations(army[p])
              /\ Contains(warq[p], m[1]) => Contains(warq'[p], m[1])
    PROVE  WarsClearTheField'
BY DEF WarsClearTheField, Beaten

(* The parties of a declared war are players.                                *)
LEMMA MetParties ==
    ASSUME TypeOK
    PROVE  \A m \in met : Parties(wars[m[1]]) \subseteq Player
BY MetType DEF Parties, Recognition

-----------------------------------------------------------------------------
(* The steps.                                                                *)

(* Nobody joins, ends, breaks off, redials or subscribes with a war both met *)
(* still his.                                                                *)
LEMMA WarSession ==
    ASSUME WarInv, NEW a \in Player, Session(a)
    PROVE  MetInv' /\ WarsClearTheField'
<1> USE DEF WarInv
<1>1. CASE Join(a)
    <2>1. UNCHANGED <<met, wars, army, warq>>  BY <1>1 DEF Join, client, queues, ledger, arrival
    <2>2. \A p \in Player : "wars" \in subs[p] => "wars" \in subs'[p]
        BY <1>1 DEF Join, TypeOK, Kinds
    <2> QED  BY <2>1, <2>2, MetFrame, ClearFrame, MetParties
<1>2. ASSUME Exit(a) \/ Disconnect(a) PROVE MetInv' /\ WarsClearTheField'
    <2>1. /\ UNCHANGED wars
          /\ met' = {m \in met : a \notin Parties(wars[m[1]])}
        BY <1>2 DEF Exit, Disconnect, ledger
    <2>2. \A p \in Player : p # a => /\ subs'[p] = subs[p]
                                     /\ army'[p] = army[p]
                                     /\ warq'[p] = warq[p]
        BY <1>2 DEF Exit, Disconnect, TypeOK, client, queues
    <2>3. \A m \in met' : \A p \in Parties(wars[m[1]]) : p \in Player /\ p # a
        BY <2>1, MetParties
    <2>4. MetInv'  BY <2>1, <2>2, <2>3 DEF MetInv
    <2>5. WarsClearTheField'  BY <2>1, <2>2, <2>3, ClearFrame
    <2> QED  BY <2>4, <2>5
<1>3. CASE Redial(a)
    <2>1. UNCHANGED <<met, wars, army, subs>>  BY <1>3 DEF Redial, ledger, arrival
    <2>2. subs[a] = {}  BY <1>3 DEF Redial, LinkInv
    <2>3. \A m \in met : \A p \in Parties(wars[m[1]]) : p \in Player /\ p # a
        BY <2>2, MetParties DEF MetInv
    <2>4. \A p \in Player : p # a => warq'[p] = warq[p]  BY <1>3 DEF Redial, TypeOK
    <2> QED  BY <2>1, <2>3, <2>4, MetFrame, ClearFrame, MetParties
<1>4. ASSUME NEW kind \in Kinds, Resubscribe(a, kind)
      PROVE  MetInv' /\ WarsClearTheField'
    <2>1. UNCHANGED <<met, wars, army, warq>>
        BY <1>4 DEF Resubscribe, client, queues, ledger, history
    <2>2. \A p \in Player : "wars" \in subs[p] => "wars" \in subs'[p]
        BY <1>4 DEF Resubscribe, TypeOK
    <2> QED  BY <2>1, <2>2, MetFrame, ClearFrame, MetParties
<1> QED  BY <1>1, <1>2, <1>3, <1>4 DEF Session

(* A player who comes to a place is no longer bound by wars fought over it.  *)
LEMMA WarArrive ==
    ASSUME WarInv, NEW a \in Player, NEW id, NEW unit, Arrive(a, unit.location),
           army' = [army EXCEPT ![a] = PutUnit(army[a], id, unit)],
           UNCHANGED <<wars, warq, subs>>
    PROVE  MetInv' /\ WarsClearTheField'
<1> USE DEF WarInv
<1>1. met' = {m \in met : m[2] = unit.location => a \notin Parties(wars[m[1]])}
    BY DEF Arrive
<1>2. ASSUME NEW m \in met', NEW p \in Parties(wars[m[1]]), m[2] \in Locations(army'[p])
      PROVE  m[2] \in Locations(army[p])
    <2>1. p \in Player  BY <1>1, MetParties
    <2>2. CASE p = a
        <3>1. m[2] # unit.location  BY <1>1, <2>2
        <3>4. army'[a] = PutUnit(army[a], id, unit)  BY DEF TypeOK
        <3>2. Locations(army'[a]) \subseteq Locations(army[a]) \cup {unit.location}
            BY <3>4, PutLocations
        <3> QED  BY <1>2, <2>2, <3>1, <3>2
    <2>3. CASE p # a  BY <1>2, <2>1, <2>3 DEF TypeOK
    <2> QED  BY <2>2, <2>3
<1>3. MetInv'  BY <1>1, MetFrame, MetParties
<1>4. WarsClearTheField'  BY <1>1, <1>2, ClearFrame
<1> QED  BY <1>3, <1>4

(* A step that touches neither wars nor armies changes nothing here.         *)
LEMMA WarFrame ==
    ASSUME WarInv, UNCHANGED <<met, wars, army, warq, subs>>
    PROVE  MetInv' /\ WarsClearTheField'
BY MetFrame, ClearFrame, MetParties DEF WarInv

(* The declaration is appended to the queue of everyone subscribed, so a war *)
(* both met starts out in both queues.                                       *)
LEMMA WarDeclare ==
    ASSUME WarInv, NEW a \in Player, NEW h \in mover[a], DeclareWar(a, h)
    PROVE  MetInv' /\ WarsClearTheField'
<1> USE DEF WarInv
<1> DEFINE n == Len(wars) + 1
<1>1. UNCHANGED <<army, subs>>  BY DEF DeclareWar, link
<1>2. h.war \in Recognition  BY MoverType DEF DeclareWar
<1>3. /\ wars'[n] = h.war
      /\ \A m \in met : wars'[m[1]] = wars[m[1]]
    <2>1. wars \in Seq(Recognition) /\ wars' = Append(wars, h.war)
        BY DEF DeclareWar, TypeOK
    <2>2. \A m \in met : m[1] \in 1..Len(wars)  BY MetType DEF WarIds
    <2> QED  BY <1>2, <2>1, <2>2
<1>4. ASSUME NEW p \in Player, "wars" \in subs[p] PROVE Contains(warq'[p], n)
    <2>1. warq[p] \in Seq(WarIds) /\ warq'[p] = Append(warq[p], n)
        BY <1>4 DEF DeclareWar, Deliver, TypeOK
    <2>2. Len(warq[p]) + 1 \in 1..Len(warq'[p]) /\ warq'[p][Len(warq[p]) + 1] = n
        BY <2>1
    <2> QED  BY <2>2, InQueue
<1>5. ASSUME NEW p \in Player, NEW i, Contains(warq[p], i) PROVE Contains(warq'[p], i)
    <2>1. /\ warq[p] \in Seq(WarIds)
          /\ warq'[p] = warq[p] \/ warq'[p] = Append(warq[p], n)
        BY DEF DeclareWar, Deliver, TypeOK
    <2>2. PICK k \in 1..Len(warq[p]) : warq[p][k] = i  BY <1>5, InQueue
    <2>3. k \in 1..Len(warq'[p]) /\ warq'[p][k] = i  BY <2>1, <2>2
    <2> QED  BY <2>3, InQueue
<1>6. ASSUME NEW m \in met', m \notin met
      PROVE  /\ m[1] = n
             /\ \A p \in Parties(h.war) : p \in Player /\ "wars" \in subs[p]
    BY <1>2, <1>6 DEF DeclareWar, Parties, Recognition
<1>7. MetInv'
    BY <1>1, <1>3, <1>6 DEF MetInv
<1>8. ASSUME NEW m \in met', NEW p \in Beaten(wars'[m[1]], m[2]),
             Contested(wars'[m[1]]) = {m[2]}, m[2] \in Locations(army'[p])
      PROVE  Contains(warq'[p], m[1])
    <2>1. CASE m \in met
        <3>1. p \in Parties(wars[m[1]])  BY <1>3, <1>8, <2>1 DEF Beaten
        <3>2. p \in Player  BY <3>1, <2>1, MetParties
        <3>3. Contains(warq[p], m[1])
            BY <1>1, <1>3, <1>8, <2>1 DEF WarsClearTheField
        <3> QED  BY <3>2, <3>3, <1>5
    <2>2. CASE m \notin met
        <3>1. p \in Parties(h.war)  BY <1>3, <1>6, <1>8, <2>2 DEF Beaten
        <3> QED  BY <3>1, <2>2, <1>4, <1>6
    <2> QED  BY <2>1, <2>2
<1>9. WarsClearTheField'  BY <1>8 DEF WarsClearTheField
<1> QED  BY <1>7, <1>9

(* Taking a war off the queue removes no other; what a party does about it   *)
(* is to leave the only place it can have picked, if it is beaten there.     *)
LEMMA WarTake ==
    ASSUME WarInv, NEW a \in Player,
           \/ IgnoreWar(a)
           \/ RejectWar(a)
           \/ \E loc \in Location : FightWar(a, loc)
    PROVE  MetInv' /\ WarsClearTheField'
<1> USE DEF WarInv
<1> DEFINE n == Head(warq[a])
<1>1. TakeWar(a)  BY DEF IgnoreWar, RejectWar, FightWar
<1>2. UNCHANGED <<met, wars, subs>>  BY <1>1 DEF TakeWar, link
<1>3. MetInv'  BY <1>2, MetFrame, MetParties
<1>4. /\ warq[a] \in Seq(WarIds) /\ warq[a] # <<>> /\ warq'[a] = Tail(warq[a])
      /\ \A p \in Player : p # a => warq'[p] = warq[p] /\ army'[p] = army[p]
    <2>1. warq \in [Player -> Seq(WarIds)] /\ army \in [Player -> Armies]  BY DEF TypeOK
    <2>2. warq[a] # <<>> /\ warq' = [warq EXCEPT ![a] = Tail(@)]  BY <1>1 DEF TakeWar
    <2>3. army' = army \/ \E units : army' = [army EXCEPT ![a] = units]
        BY DEF IgnoreWar, RejectWar, FightWar
    <2> QED  BY <2>1, <2>2, <2>3
<1>5. ASSUME NEW p \in Player PROVE Locations(army'[p]) \subseteq Locations(army[p])
    <2>1. WarConsumer(a)  BY DEF WarConsumer
    <2> QED  BY <2>1, WarConsumerShrinks
<1>6. ASSUME NEW i, Contains(warq[a], i), i # n PROVE Contains(warq'[a], i)
    <2>1. PICK k \in DOMAIN warq[a] : warq[a][k] = i  BY <1>4, <1>6, InQueue
    <2>2. \E j \in DOMAIN Tail(warq[a]) : Tail(warq[a])[j] = i
        BY <1>4, <1>6, <2>1, TailKeeps
    <2>3. DOMAIN Tail(warq[a]) = 1..Len(Tail(warq[a]))  BY <1>4
    <2> QED  BY <1>4, <2>2, <2>3, InQueue
<1>7. ASSUME NEW m \in met, NEW p \in Beaten(wars[m[1]], m[2]),
             Contested(wars[m[1]]) = {m[2]}, m[2] \in Locations(army'[p])
      PROVE  Contains(warq'[p], m[1])
    <2>1. p \in Parties(wars[m[1]]) /\ p \in Player
        BY MetParties DEF Beaten
    <2>2. Contains(warq[p], m[1])
        BY <1>5, <1>7, <2>1 DEF WarsClearTheField
    <2>3. CASE p # a  BY <2>1, <2>2, <2>3, <1>4
    <2>4. CASE p = a /\ m[1] # n  BY <2>2, <2>4, <1>6
    <2>5. CASE p = a /\ m[1] = n
        <3>1. PICK loc \in Location : FightWar(a, loc)
            BY <2>1, <2>5, <1>7 DEF IgnoreWar, RejectWar
        <3>2. loc = m[2]  BY <3>1, <2>5, <1>7 DEF FightWar
        <3>3. a \in Removed(wars[n], ResolveWar(wars[n], loc))
            BY <3>2, <2>5, MetType, BeatenAreRemoved
        <3>4. army' = [army EXCEPT ![a] = RemoveUnits(army[a], loc)]
            BY <3>1, <3>3 DEF FightWar
        <3>5. Locations(army'[a]) = Locations(army[a]) \ {loc}
            BY <3>4, RemoveLocations DEF TypeOK
        <3> QED  BY <3>2, <3>5, <2>5, <1>7
    <2> QED  BY <2>3, <2>4, <2>5
<1>8. WarsClearTheField'  BY <1>2, <1>7 DEF WarsClearTheField
<1> QED  BY <1>3, <1>8

(* Reporting a war changes no army; a failed report puts it back.            *)
LEMMA WarReporting ==
    ASSUME WarInv, NEW a \in Player, NEW h \in warrior[a],
           PublishGameLog(a, h) \/ FailToPublishGameLog(a, h)
    PROVE  MetInv' /\ WarsClearTheField'
<1> USE DEF WarInv
<1>1. CASE PublishGameLog(a, h)
    BY <1>1, WarFrame DEF PublishGameLog, link, queues, history
<1>2. CASE FailToPublishGameLog(a, h)
    <2>1. UNCHANGED <<met, wars, army, subs>>
        BY <1>2 DEF FailToPublishGameLog, link, ledger, history
    <2>2. h.war \in WarIds  BY DEF TypeOK, Reports
    <2>3. warq \in [Player -> Seq(WarIds)]  BY DEF TypeOK
    <2>4. \/ warq' = warq
          \/ \E k \in 1..Len(warq[a]) + 1 :
                warq' = [warq EXCEPT ![a] = InsertAt(warq[a], k, h.war)]
        BY <1>2 DEF FailToPublishGameLog, Requeue
    <2>5. ASSUME NEW p \in Player, NEW i, Contains(warq[p], i) PROVE Contains(warq'[p], i)
        <3>1. CASE warq'[p] = warq[p]  BY <2>5, <3>1
        <3>2. CASE \E k \in 1..Len(warq[p]) + 1 : warq'[p] = InsertAt(warq[p], k, h.war)
            <4>1. PICK k \in 1..Len(warq[p]) + 1 : warq'[p] = InsertAt(warq[p], k, h.war)
                BY <3>2
            <4>2. PICK j \in 1..Len(warq[p]) : warq[p][j] = i  BY <2>5, InQueue
            <4>3. warq[p] \in Seq(WarIds)  BY <2>3
            <4>4. \E l \in DOMAIN warq'[p] : warq'[p][l] = i
                BY <2>2, <4>1, <4>2, <4>3, InsertKeeps
            <4>5. DOMAIN warq'[p] = 1..Len(warq'[p])
                BY <2>2, <4>1, <4>3, InsertType
            <4> QED  BY <4>4, <4>5, InQueue
        <3> QED  BY <2>3, <2>4, <3>1, <3>2
    <2>6. WarsClearTheField'  BY <2>1, <2>5, MetParties, ClearFrame
    <2> QED  BY <2>1, <2>6, MetFrame, MetParties
<1> QED  BY <1>1, <1>2

(* Every step keeps the invariant.                                           *)
LEMMA WarNext == ASSUME WarInv, [Next]_vars PROVE WarInv'
<1> USE DEF WarInv
<1>1. ASSUME NEW a \in Player, NewCommand(a) PROVE MetInv' /\ WarsClearTheField'
    BY <1>1, WarFrame DEF NewCommand, SpawnId, BeginMove, link, queues, ledger, history
<1>2. ASSUME NEW a \in Player, Command(a) PROVE MetInv' /\ WarsClearTheField'
    <2>1. CASE AddUnit(a)  BY <2>1, WarArrive DEF AddUnit, link, queues, ledger
    <2>2. CASE UpdateUnit(a)  BY <2>2, WarArrive DEF UpdateUnit, link, queues, ledger
    <2>3. CASE GetUnit(a) \/ SnapMove(a) \/ FailToPublishMove(a)
        BY <2>3, WarFrame
           DEF GetUnit, SnapMove, FailToPublishMove, link, queues, ledger, history
    <2>4. CASE PublishMove(a)  BY <2>4, WarFrame DEF PublishMove, link, ledger
    <2> QED  BY <1>2, <2>1, <2>2, <2>3, <2>4 DEF Command
<1>3. ASSUME NEW a \in Player, MoveConsumer(a) PROVE MetInv' /\ WarsClearTheField'
    <2>1. CASE RejectOwnMove(a) \/ IgnoreMove(a) \/ NoticeMove(a)
        BY <2>1, WarFrame
           DEF RejectOwnMove, IgnoreMove, NoticeMove, TakeMove, link, history
    <2>2. ASSUME NEW h \in mover[a], Recognise(a, h) \/ FailToDeclareWar(a, h)
          PROVE  MetInv' /\ WarsClearTheField'
        BY <2>2, WarFrame DEF Recognise, FailToDeclareWar, link, queues, ledger, history
    <2> QED  BY <1>3, <2>1, <2>2, WarDeclare DEF MoveConsumer
<1>4. ASSUME NEW a \in Player, WarConsumer(a) PROVE MetInv' /\ WarsClearTheField'
    BY <1>4, WarTake, WarReporting DEF WarConsumer
<1>5. ASSUME NEW a \in Player, PauseConsumer(a) PROVE MetInv' /\ WarsClearTheField'
    BY <1>5, WarFrame, PauseSteps
<1>6. ASSUME NEW pause \in BOOLEAN, ServerPause(pause) \/ FailToPublishPause
      PROVE  MetInv' /\ WarsClearTheField'
    BY <1>6, WarFrame, OrderSteps
<1>7. ASSUME UNCHANGED vars PROVE MetInv' /\ WarsClearTheField'
    BY <1>7, WarFrame DEF vars, client, link, queues, ledger, history
<1>8. MetInv' /\ WarsClearTheField'
    BY <1>1, <1>2, <1>3, <1>4, <1>5, <1>6, <1>7, WarSession DEF Next
<1> QED  BY <1>8, TypeNext, LinkNext

(* The invariant holds before anything is declared.                          *)
LEMMA WarInit == ASSUME Init PROVE WarInv
<1>1. LinkInv  BY MeetingInit DEF MeetingInv
<1>2. MetInv /\ WarsClearTheField  BY DEF Init, MetInv, WarsClearTheField
<1> QED  BY <1>1, <1>2, TypeInit DEF WarInv

-----------------------------------------------------------------------------
(* For any number of players and places: a party that is beaten in a war     *)
(* both received has left the place once it has handled the recognition, and *)
(* stays out until it comes there again (HandleWar).                         *)
THEOREM WarsClear == Spec => []WarsClearTheField
<1>1. WarInv => WarsClearTheField  BY DEF WarInv
<1> QED  BY <1>1, WarInit, WarNext, PTL DEF Spec

(* A meeting noticed and a war fought leave one of the two in the place.     *)
LEMMA MeetingsEnd ==
    ASSUME WarInv, MeetingsAreNoticed
    PROVE  NoStandoff
<1> SUFFICES ASSUME NEW p \in Player, NEW q \in Player, NEW loc \in Location,
                    Share(p, q, loc), Told(p, q, loc), MovesHandled(p), MovesHandled(q),
                    warq[p] = <<>>, warq[q] = <<>>
             PROVE  \E m \in met : /\ m[2] = loc /\ Parties(wars[m[1]]) = {p, q}
                                   /\ Contested(wars[m[1]]) # {loc}
    BY Zenon DEF NoStandoff
<1>1. PICK m \in met : m[2] = loc /\ Parties(wars[m[1]]) = {p, q}
    BY DEF MeetingsAreNoticed
<1>2. ASSUME Contested(wars[m[1]]) = {loc} PROVE FALSE
    <2>1. PICK x : x \in Beaten(wars[m[1]], loc) /\ x \in {p, q}
        BY <1>1, MetType, SomebodyIsBeaten DEF WarInv
    <2>2. loc \in Locations(army[x]) /\ warq[x] = <<>>  BY <2>1 DEF Share
    <2>3. Contains(warq[x], m[1])
        BY <1>1, <1>2, <2>1, <2>2 DEF WarInv, WarsClearTheField
    <2>4. ~Contains(<<>>, m[1])  BY InQueue
    <2> QED  BY <2>2, <2>3, <2>4
<1> QED  BY <1>1, <1>2

(* For any number of players and places: two players with nothing left to    *)
(* handle share no place they were told of, except one left over from a war  *)
(* that had several places to choose from.                                   *)
THEOREM NoStandoffs == Spec => []NoStandoff
<1>1. Spec => []WarInv  BY WarInit, WarNext, PTL DEF Spec
<1> QED  BY <1>1, MeetingsNoticed, MeetingsEnd, PTL
-----------------------------------------------------------------------------
(* Counting messages. The copies, in everybody's queues, of the messages     *)
(* that matter to their receivers: those holds pairs <<player, message>>.    *)
Copies(queue, those) ==
    {x \in Player \X Nat : /\ x[2] \in DOMAIN queue[x[1]]
                          /\ <<x[1], queue[x[1]][x[2]]>> \in those}

(* A copy is a player and a position in its queue, and every such pair with  *)
(* a message that matters is one.                                            *)
LEMMA CopyIs ==
    ASSUME NEW queue, NEW those
    PROVE  /\ \A x \in Copies(queue, those) :
                 /\ x[1] \in Player /\ x[2] \in Nat /\ x = <<x[1], x[2]>>
                 /\ x[2] \in DOMAIN queue[x[1]]
                 /\ <<x[1], queue[x[1]][x[2]]>> \in those
           /\ \A p \in Player, i \in Nat :
                 i \in DOMAIN queue[p] /\ <<p, queue[p][i]>> \in those
                     => <<p, i>> \in Copies(queue, those)
<1>1. ASSUME NEW x \in Player \X Nat
      PROVE  x[1] \in Player /\ x[2] \in Nat /\ x = <<x[1], x[2]>>
    OBVIOUS
<1> QED  BY <1>1, Zenon DEF Copies

(* A set mapped one-to-one into a finite one is no larger.                   *)
LEMMA OneToOne ==
    ASSUME NEW S, NEW T, IsFiniteSet(T), NEW f \in [S -> T],
           \A x, y \in S : f[x] = f[y] => x = y
    PROVE  IsFiniteSet(S) /\ Cardinality(S) <= Cardinality(T)
<1>1. f \in Injection(S, T)  BY DEF Injection, IsInjective
<1> QED  BY <1>1, FS_Injection

(* Consuming a message leaves one copy fewer, if it was one that matters.    *)
LEMMA CopiesTail ==
    ASSUME NEW M, NEW queue \in [Player -> Seq(M)], NEW those, NEW p \in Player,
           queue[p] # <<>>, IsFiniteSet(Copies(queue, those)),
           NEW queue2, queue2 = [queue EXCEPT ![p] = Tail(queue[p])]
    PROVE  /\ IsFiniteSet(Copies(queue2, those))
           /\ Cardinality(Copies(queue2, those))
                 <= Cardinality(Copies(queue, those))
                    - (IF <<p, Head(queue[p])>> \in those THEN 1 ELSE 0)
<1> DEFINE C  == Copies(queue, those)
           C2 == Copies(queue2, those)
           R  == C \ {<<p, 1>>}
           f  == [x \in C2 |-> IF x[1] = p THEN <<p, x[2] + 1>> ELSE x]
<1>1. /\ queue[p] \in Seq(M) /\ queue2[p] = Tail(queue[p])
      /\ \A q \in Player : q # p => queue2[q] = queue[q]
      /\ 1 \in DOMAIN queue[p] /\ queue[p][1] = Head(queue[p])
      /\ \A i \in DOMAIN queue2[p] : /\ i + 1 \in DOMAIN queue[p] /\ i \in Nat \ {0}
                                     /\ queue2[p][i] = queue[p][i + 1]
    OBVIOUS
<1>e. ASSUME NEW x \in C2
      PROVE  /\ x[1] \in Player /\ x[2] \in Nat /\ x = <<x[1], x[2]>>
             /\ x[2] \in DOMAIN queue2[x[1]]
             /\ <<x[1], queue2[x[1]][x[2]]>> \in those
    BY CopyIs
<1>2. ASSUME NEW x \in C2 PROVE f[x] \in R
    <2>2. CASE x[1] = p
        <3>1. f[x] = <<p, x[2] + 1>>  BY <2>2
        <3>2. /\ x[2] + 1 \in DOMAIN queue[p] /\ x[2] \in Nat \ {0}
              /\ <<p, queue[p][x[2] + 1]>> \in those
            BY <1>1, <1>e, <2>2
        <3>3. x[2] + 1 \in Nat /\ x[2] + 1 # 1  BY <3>2
        <3>4. <<p, x[2] + 1>> \in C  BY <3>2, <3>3, CopyIs
        <3>5. <<p, x[2] + 1>> # <<p, 1>>  BY <3>3
        <3> QED  BY <3>1, <3>4, <3>5
    <2>3. CASE x[1] # p
        <3>1. f[x] = x /\ x # <<p, 1>>  BY <1>e, <2>3
        <3>2. <<x[1], x[2]>> \in C
            <4>1. queue2[x[1]] = queue[x[1]]  BY <1>1, <1>e, <2>3
            <4> QED  BY <1>e, <4>1, CopyIs
        <3> QED  BY <1>e, <3>1, <3>2
    <2> QED  BY <2>2, <2>3
<1>f. \A x \in C2 : /\ f[x][1] = x[1]
                    /\ f[x][2] = IF x[1] = p THEN x[2] + 1 ELSE x[2]
    BY <1>e
<1>3. ASSUME NEW x \in C2, NEW y \in C2, f[x] = f[y] PROVE x = y
    <2> HIDE DEF f, C2
    <2>1. x[1] = y[1] /\ x[2] \in Nat /\ y[2] \in Nat  BY <1>3, <1>e, <1>f
    <2>2. x[2] = y[2]
        <3>1. x[1] = p => x[2] + 1 = y[2] + 1  BY <1>3, <1>f, <2>1
        <3>2. x[1] # p => x[2] = y[2]  BY <1>3, <1>f, <2>1
        <3> QED  BY <2>1, <3>1, <3>2
    <2>3. x = <<x[1], x[2]>> /\ y = <<y[1], y[2]>>  BY <1>e
    <2> QED  BY <2>1, <2>2, <2>3
<1>4. f \in [C2 -> R]
    <2> HIDE DEF C2, R
    <2> QED  BY <1>2, Zenon
<1>5. /\ IsFiniteSet(R)
      /\ Cardinality(R) = IF <<p, 1>> \in C THEN Cardinality(C) - 1 ELSE Cardinality(C)
    BY FS_RemoveElement
<1>6. <<p, 1>> \in C <=> <<p, Head(queue[p])>> \in those
    BY <1>1, CopyIs
<1>7. Cardinality(C) \in Nat  BY FS_CardinalityType
<1>8. IsFiniteSet(C2) /\ Cardinality(C2) <= Cardinality(R)
    <2> HIDE DEF C2, R, f
    <2> QED  BY <1>3, <1>4, <1>5, OneToOne
<1>9. Cardinality(C2) \in Nat  BY <1>8, FS_CardinalityType
<1> HIDE DEF C, C2, R
<1>10. Cardinality(C2) <= Cardinality(C)
            - (IF <<p, Head(queue[p])>> \in those THEN 1 ELSE 0)
    BY <1>5, <1>6, <1>7, <1>8, <1>9
<1> QED  BY <1>8, <1>10 DEF C, C2

(* A message given back adds at most itself.                                 *)
LEMMA CopiesInsert ==
    ASSUME NEW M, NEW queue \in [Player -> Seq(M)], NEW those, NEW p \in Player,
           NEW e \in M, IsFiniteSet(Copies(queue, those)), NEW queue2,
           \/ queue2 = queue
           \/ \E k \in 1..Len(queue[p]) + 1 :
                queue2 = [queue EXCEPT ![p] = InsertAt(queue[p], k, e)]
    PROVE  /\ IsFiniteSet(Copies(queue2, those))
           /\ Cardinality(Copies(queue2, those))
                 <= Cardinality(Copies(queue, those))
                    + (IF <<p, e>> \in those THEN 1 ELSE 0)
<1>0. Cardinality(Copies(queue, those)) \in Nat  BY FS_CardinalityType
<1>1. CASE queue2 = queue  BY <1>0, <1>1
<1>2. ASSUME NEW k \in 1..Len(queue[p]) + 1,
             queue2 = [queue EXCEPT ![p] = InsertAt(queue[p], k, e)]
      PROVE  /\ IsFiniteSet(Copies(queue2, those))
             /\ Cardinality(Copies(queue2, those))
                   <= Cardinality(Copies(queue, those))
                      + (IF <<p, e>> \in those THEN 1 ELSE 0)
    <2> DEFINE C  == Copies(queue, those)
               C2 == Copies(queue2, those)
               D  == C2 \ {<<p, k>>}
               f  == [x \in D |-> IF x[1] = p /\ x[2] > k THEN <<p, x[2] - 1>> ELSE x]
    <2>1. /\ queue[p] \in Seq(M) /\ queue2[p] = InsertAt(queue[p], k, e)
          /\ \A q \in Player : q # p => queue2[q] = queue[q]
          /\ k \in Nat \ {0} /\ Len(queue[p]) \in Nat /\ DOMAIN queue[p] = 1..Len(queue[p])
        BY <1>2
    <2>2. /\ DOMAIN queue2[p] = 1..Len(queue[p]) + 1
          /\ queue2[p][k] = e
          /\ \A i \in 1..Len(queue[p]) + 1 :
                /\ i < k => queue2[p][i] = queue[p][i] /\ i \in DOMAIN queue[p]
                /\ i > k => queue2[p][i] = queue[p][i - 1] /\ i - 1 \in DOMAIN queue[p]
        <3>1. /\ DOMAIN queue2[p] = 1..Len(queue[p]) + 1
              /\ \A i \in 1..Len(queue[p]) + 1 :
                    queue2[p][i] = IF i < k THEN queue[p][i]
                                   ELSE IF i = k THEN e ELSE queue[p][i - 1]
            BY <2>1, InsertElements
        <3> QED  BY <2>1, <3>1
    <2>3. ASSUME NEW x \in D
          PROVE  /\ x[1] \in Player /\ x[2] \in Nat /\ x = <<x[1], x[2]>>
                 /\ x[2] \in DOMAIN queue2[x[1]]
                 /\ <<x[1], queue2[x[1]][x[2]]>> \in those
                 /\ x[1] = p => x[2] # k
        <3>1. x \in C2 /\ x # <<p, k>>  OBVIOUS
        <3>2. /\ x[1] \in Player /\ x[2] \in Nat /\ x = <<x[1], x[2]>>
              /\ x[2] \in DOMAIN queue2[x[1]]
              /\ <<x[1], queue2[x[1]][x[2]]>> \in those
            BY <3>1, CopyIs
        <3>3. x[1] = p => x[2] # k  BY <3>1, <3>2
        <3> QED  BY <3>2, <3>3
    <2> HIDE DEF C, C2, D
    <2>4. ASSUME NEW x \in D PROVE f[x] \in C
        <3>1. CASE x[1] = p /\ x[2] > k
            <4>1. f[x] = <<p, x[2] - 1>>  BY <3>1
            <4>2. x[2] - 1 \in DOMAIN queue[p] /\ <<p, queue[p][x[2] - 1]>> \in those
                BY <2>2, <2>3, <3>1
            <4>3. x[2] - 1 \in Nat  BY <2>1, <4>2
            <4> QED  BY <4>1, <4>2, <4>3, CopyIs DEF C
        <3>2. CASE ~(x[1] = p /\ x[2] > k)
            <4>1. f[x] = <<x[1], x[2]>>  BY <2>3, <3>2
            <4>2. x[2] \in DOMAIN queue[x[1]] /\ <<x[1], queue[x[1]][x[2]]>> \in those
                <5>1. CASE x[1] # p  BY <2>1, <2>3, <5>1
                <5>2. CASE x[1] = p
                    <6>1. x[2] \in 1..Len(queue[p]) + 1  BY <2>2, <2>3, <5>2
                    <6>2. x[2] \in Nat /\ k \in Nat /\ x[2] # k /\ ~(x[2] > k)
                        BY <2>1, <2>3, <3>2, <5>2
                    <6>3. x[2] < k  BY <6>2
                    <6> QED  BY <2>2, <2>3, <5>2, <6>1, <6>3
                <5> QED  BY <5>1, <5>2
            <4>3. x[1] \in Player /\ x[2] \in Nat  BY <2>3
            <4>4. <<x[1], x[2]>> \in C  BY <4>2, <4>3, CopyIs DEF C
            <4> QED  BY <4>1, <4>4
        <3> QED  BY <3>1, <3>2
    <2>5. \A x \in D : /\ f[x][1] = x[1]
                       /\ f[x][2] = IF x[1] = p /\ x[2] > k THEN x[2] - 1 ELSE x[2]
        BY <2>3
    <2>6. ASSUME NEW x \in D, NEW y \in D, f[x] = f[y] PROVE x = y
        <3> HIDE DEF f
        <3>1. /\ x[1] = y[1] /\ x[2] \in Nat /\ y[2] \in Nat
              /\ x[1] = p => x[2] # k /\ y[2] # k
            <4>1. f[x][1] = x[1] /\ f[y][1] = y[1]  BY <2>5
            <4>2. x[1] = y[1]  BY <2>6, <4>1
            <4>3. /\ x[2] \in Nat /\ y[2] \in Nat
                  /\ x[1] = p => x[2] # k
                  /\ y[1] = p => y[2] # k
                BY <2>3
            <4> QED  BY <4>2, <4>3
        <3>2. x[2] = y[2]
            <4>1. x[1] # p => x[2] = y[2]  BY <2>5, <2>6, <3>1
            <4>2. x[1] = p => (IF x[2] > k THEN x[2] - 1 ELSE x[2])
                              = (IF y[2] > k THEN y[2] - 1 ELSE y[2])
                BY <2>5, <2>6, <3>1
            <4> QED  BY <2>1, <3>1, <4>1, <4>2
        <3>3. x = <<x[1], x[2]>> /\ y = <<y[1], y[2]>>  BY <2>3
        <3> QED  BY <3>1, <3>2, <3>3
    <2>7. f \in [D -> C]  BY <2>4, Zenon
    <2>8. IsFiniteSet(D) /\ Cardinality(D) <= Cardinality(C)
        <3> HIDE DEF f
        <3> QED  BY <2>6, <2>7, OneToOne DEF C
    <2>9. <<p, k>> \in C2 => <<p, e>> \in those
        <3>1. CASE <<p, k>> \in C2
            <4>1. <<p, queue2[p][k]>> \in those  BY <3>1, CopyIs DEF C2
            <4> QED  BY <2>2, <4>1
        <3> QED  BY <3>1
    <2>10. IsFiniteSet(C2)
        <3>1. IsFiniteSet(D \cup {<<p, k>>})  BY <2>8, FS_AddElement
        <3>2. C2 \subseteq D \cup {<<p, k>>}  BY DEF D
        <3> QED  BY <3>1, <3>2, FS_Subset
    <2>11. Cardinality(D) = IF <<p, k>> \in C2 THEN Cardinality(C2) - 1 ELSE Cardinality(C2)
        BY <2>10, FS_RemoveElement DEF D
    <2>12. Cardinality(C2) \in Nat /\ Cardinality(C) \in Nat
        BY <2>10, FS_CardinalityType DEF C
    <2>13. Cardinality(C2) <= Cardinality(C) + (IF <<p, e>> \in those THEN 1 ELSE 0)
        BY <2>8, <2>9, <2>11, <2>12
    <2> QED  BY <2>10, <2>13 DEF C, C2
<1> QED  BY <1>1, <1>2

(* A message the exchange copies adds at most one copy for each player it    *)
(* matters to.                                                               *)
LEMMA CopiesDeliver ==
    ASSUME NEW M, NEW queue \in [Player -> Seq(M)], NEW those, NEW e \in M,
           NEW X, \A p \in Player : <<p, e>> \in those => p \in X,
           IsFiniteSet(X), IsFiniteSet(Copies(queue, those)),
           NEW queue2,
           \A p \in Player : queue2[p] = queue[p] \/ queue2[p] = Append(queue[p], e)
    PROVE  /\ IsFiniteSet(Copies(queue2, those))
           /\ Cardinality(Copies(queue2, those))
                 <= Cardinality(Copies(queue, those)) + Cardinality(X)
<1> DEFINE C  == Copies(queue, those)
           C2 == Copies(queue2, those)
           N  == C2 \ C
           f  == [x \in N |-> x[1]]
<1>1. ASSUME NEW x \in N
      PROVE  /\ x[1] \in X /\ x[2] = Len(queue[x[1]]) + 1 /\ x = <<x[1], x[2]>>
    <2>1. /\ x[1] \in Player /\ x[2] \in Nat /\ x = <<x[1], x[2]>>
          /\ x[2] \in DOMAIN queue2[x[1]]
          /\ <<x[1], queue2[x[1]][x[2]]>> \in those
        BY CopyIs
    <2>2. queue[x[1]] \in Seq(M)  BY <2>1
    <2>3. CASE queue2[x[1]] = queue[x[1]]  BY <2>1, <2>3, CopyIs
    <2>4. CASE queue2[x[1]] = Append(queue[x[1]], e)
        <3>1. /\ x[2] \in DOMAIN queue[x[1]] \/ x[2] = Len(queue[x[1]]) + 1
              /\ x[2] \in DOMAIN queue[x[1]] => queue2[x[1]][x[2]] = queue[x[1]][x[2]]
              /\ x[2] = Len(queue[x[1]]) + 1 => queue2[x[1]][x[2]] = e
            BY <2>1, <2>2, <2>4
        <3>2. CASE x[2] \in DOMAIN queue[x[1]]
            <4>1. <<x[1], x[2]>> \in C  BY <2>1, <3>1, <3>2, CopyIs
            <4> QED  BY <2>1, <4>1
        <3>3. CASE x[2] = Len(queue[x[1]]) + 1  BY <2>1, <3>1, <3>3
        <3> QED  BY <3>1, <3>2, <3>3
    <2> QED  BY <2>1, <2>3, <2>4
<1>2. IsFiniteSet(N) /\ Cardinality(N) <= Cardinality(X)
    <2> HIDE DEF N
    <2>1. f \in [N -> X]  BY <1>1
    <2>2. \A x, y \in N : f[x] = f[y] => x = y
        <3>1. \A x \in N : f[x] = x[1]  OBVIOUS
        <3> HIDE DEF f
        <3> QED  BY <1>1, <3>1
    <2> HIDE DEF f
    <2> QED  BY <2>1, <2>2, OneToOne
<1>3. IsFiniteSet(C2)
    <2>1. IsFiniteSet(C \cup N)  BY <1>2, FS_Union
    <2>2. C2 \subseteq C \cup N  OBVIOUS
    <2> QED  BY <2>1, <2>2, FS_Subset
<1>4. Cardinality(N) = Cardinality(C2) - Cardinality(C2 \cap C)
    BY <1>3, FS_Difference
<1>5. Cardinality(C2 \cap C) <= Cardinality(C)  BY FS_Intersection
<1>6. /\ Cardinality(C2) \in Nat /\ Cardinality(C) \in Nat /\ Cardinality(N) \in Nat
      /\ Cardinality(X) \in Nat /\ Cardinality(C2 \cap C) \in Nat
    <2>1. IsFiniteSet(C2 \cap C)  BY <1>3, FS_Intersection
    <2> QED  BY <1>2, <1>3, <2>1, FS_CardinalityType
<1> HIDE DEF C, C2, N
<1>7. Cardinality(C2) <= Cardinality(C) + Cardinality(X)
    BY <1>2, <1>4, <1>5, <1>6
<1> QED  BY <1>3, <1>7 DEF C, C2

(* Emptying a queue leaves fewer copies.                                     *)
LEMMA CopiesEmpty ==
    ASSUME NEW queue, NEW those, IsFiniteSet(Copies(queue, those)), NEW queue2,
           \A p \in Player : queue2[p] = queue[p] \/ queue2[p] = <<>>
    PROVE  /\ IsFiniteSet(Copies(queue2, those))
           /\ Cardinality(Copies(queue2, those)) <= Cardinality(Copies(queue, those))
<1>1. \A i : i \notin DOMAIN <<>>  OBVIOUS
<1>2. ASSUME NEW x \in Copies(queue2, those) PROVE x \in Copies(queue, those)
    <2>1. /\ x[1] \in Player /\ x[2] \in Nat /\ x = <<x[1], x[2]>>
          /\ x[2] \in DOMAIN queue2[x[1]]
          /\ <<x[1], queue2[x[1]][x[2]]>> \in those
        BY CopyIs
    <2>2. queue2[x[1]] = queue[x[1]]  BY <1>1, <2>1
    <2> QED  BY <2>1, <2>2, CopyIs
<1> QED  BY <1>2, FS_Subset
-----------------------------------------------------------------------------
(* OneLogPerWar. Until it is logged, a war is in the attacker's queue or in  *)
(* the hands of one of the attacker's handlers, never in both or twice: a    *)
(* report that fails gives the recognition back as it ends. What connections *)
(* and processes take with them only makes it fewer.                         *)
Waiting(n)   == Copies(warq, {<<wars[n].attacker, n>>})
Reporting(n) == {h \in warrior[wars[n].attacker] : h.war = n}
Logged(n)    == {i \in DOMAIN gameLogs : gameLogs[i].war = n}

OneToken(n) ==
    /\ IsFiniteSet(Waiting(n)) /\ IsFiniteSet(Reporting(n)) /\ IsFiniteSet(Logged(n))
    /\ Cardinality(Waiting(n)) + Cardinality(Reporting(n)) + Cardinality(Logged(n)) <= 1

TokenInv == \A n \in WarIds : OneToken(n)

(* Only attackers report, only wars that were fought, and what they decided. *)
ReportInv ==
    \A p \in Player : \A h \in warrior[p] :
        /\ p = wars[h.war].attacker
        /\ Contested(wars[h.war]) # {}
        /\ [war |-> h.war, by |-> p, result |-> h.result] \in verdicts

LogsInv ==
    \A i \in DOMAIN gameLogs : /\ gameLogs[i].by = wars[gameLogs[i].war].attacker
                               /\ gameLogs[i] \in verdicts

LogInv == TypeOK /\ ReportInv /\ LogsInv /\ TokenInv

(* The three numbers are numbers.                                            *)
LEMMA TokenType ==
    ASSUME NEW n, OneToken(n)
    PROVE  /\ Cardinality(Waiting(n)) \in Nat
           /\ Cardinality(Reporting(n)) \in Nat
           /\ Cardinality(Logged(n)) \in Nat
BY FS_CardinalityType DEF OneToken

(* The ids in queues, handlers and logs are those of declared wars.          *)
LEMMA IdsAreWars ==
    ASSUME TypeOK
    PROVE  /\ \A p \in Player : \A i \in DOMAIN warq[p] : warq[p][i] \in WarIds
           /\ \A p \in Player : \A h \in warrior[p] : h.war \in WarIds
           /\ \A i \in DOMAIN gameLogs : gameLogs[i].war \in WarIds
<1>1. ASSUME NEW p \in Player
      PROVE  /\ \A i \in DOMAIN warq[p] : warq[p][i] \in WarIds
             /\ \A h \in warrior[p] : h.war \in WarIds
    <2>1. warq[p] \in Seq(WarIds) /\ warrior[p] \subseteq Reports  BY DEF TypeOK
    <2> QED  BY <2>1 DEF Reports
<1>2. ASSUME NEW i \in DOMAIN gameLogs PROVE gameLogs[i].war \in WarIds
    <2>1. gameLogs \in Seq(Verdicts)  BY DEF TypeOK
    <2>2. gameLogs[i] \in Verdicts  BY <2>1
    <2> QED  BY <2>2 DEF Verdicts
<1> QED  BY <1>1, <1>2

(* A declared war keeps its id and what it is.                               *)
LEMMA WarsAppend ==
    ASSUME TypeOK, NEW a \in Player, NEW h \in mover[a], DeclareWar(a, h)
    PROVE  /\ h.war \in Recognition
           /\ Len(wars) \in Nat /\ WarIds = 1..Len(wars)
           /\ WarIds' = 1..Len(wars) + 1
           /\ \A n \in WarIds : wars'[n] = wars[n]
           /\ wars'[Len(wars) + 1] = h.war
<1>1. h.war \in Recognition  BY MoverType DEF DeclareWar
<1>2. wars \in Seq(Recognition) /\ wars' = Append(wars, h.war)
    BY DEF DeclareWar, TypeOK
<1> QED  BY <1>1, <1>2 DEF WarIds

(* A new recognition goes once to the attacker; the others count as before.  *)
LEMMA LogDeclare ==
    ASSUME LogInv, NEW a \in Player, NEW h \in mover[a], DeclareWar(a, h)
    PROVE  ReportInv' /\ LogsInv' /\ TokenInv'
<1> USE DEF LogInv
<1> DEFINE new == Len(wars) + 1
<1>1. /\ h.war \in Recognition
      /\ Len(wars) \in Nat /\ WarIds = 1..Len(wars)
      /\ WarIds' = 1..Len(wars) + 1
      /\ \A n \in WarIds : wars'[n] = wars[n]
      /\ wars'[new] = h.war
    BY WarsAppend
<1>2. UNCHANGED <<warrior, gameLogs, verdicts>>  BY DEF DeclareWar
<1>3. /\ warq \in [Player -> Seq(WarIds')] /\ new \in WarIds'
      /\ \A p \in Player : warq'[p] = warq[p] \/ warq'[p] = Append(warq[p], new)
    <2>1. WarIds \subseteq WarIds'  BY <1>1
    <2>2. warq \in [Player -> Seq(WarIds)]  BY DEF TypeOK
    <2>3. warq \in [Player -> Seq(WarIds')]
        <3>1. ASSUME NEW p \in Player PROVE warq[p] \in Seq(WarIds')  BY <2>1, <2>2
        <3> QED  BY <2>2, <3>1
    <2>4. warq' = Deliver(warq, "wars", new)  BY DEF DeclareWar
    <2>5. \A p \in Player : warq'[p] = warq[p] \/ warq'[p] = Append(warq[p], new)
        <3> HIDE DEF new
        <3> QED  BY <2>4 DEF Deliver
    <2> QED  BY <1>1, <2>3, <2>5
<1>4. ReportInv' /\ LogsInv'
    <2>1. ReportInv'
        <3>1. ASSUME NEW p \in Player, NEW g \in warrior[p]
              PROVE  /\ g.war \in WarIds
                     /\ p = wars[g.war].attacker
                     /\ Contested(wars[g.war]) # {}
                     /\ [war |-> g.war, by |-> p, result |-> g.result] \in verdicts
            BY IdsAreWars DEF ReportInv
        <3>2. ASSUME NEW p \in Player, NEW g \in warrior[p]
              PROVE  /\ p = wars'[g.war].attacker
                     /\ Contested(wars'[g.war]) # {}
                     /\ [war |-> g.war, by |-> p, result |-> g.result] \in verdicts
            <4>1. wars'[g.war] = wars[g.war]  BY <1>1, <3>1
            <4> QED  BY <3>1, <4>1
        <3> QED  BY <1>2, <3>2 DEF ReportInv
    <2>2. LogsInv'
        <3>1. ASSUME NEW i \in DOMAIN gameLogs
              PROVE  wars'[gameLogs[i].war] = wars[gameLogs[i].war]
            BY <1>1, IdsAreWars
        <3> QED  BY <1>2, <3>1 DEF LogsInv
    <2> QED  BY <2>1, <2>2
<1>5. ASSUME NEW n \in WarIds PROVE OneToken(n)'
    <2> DEFINE those == {<<wars[n].attacker, n>>}
    <2>1. \A p \in Player : <<p, new>> \in those => p \in {}  BY <1>1
    <2>2. OneToken(n)  BY DEF TokenInv
    <2>3. IsFiniteSet(Copies(warq, those))  BY <2>2 DEF OneToken, Waiting
    <2>4. /\ IsFiniteSet(Copies(warq', those))
          /\ Cardinality(Copies(warq', those))
                <= Cardinality(Copies(warq, those)) + Cardinality({})
        <3> HIDE DEF those, new
        <3> QED  BY <1>3, <2>1, <2>3, FS_EmptySet, CopiesDeliver
    <2>5. wars'[n] = wars[n]  BY <1>1
    <2>6. /\ Waiting(n)' = Copies(warq', those) /\ Waiting(n) = Copies(warq, those)
          /\ Reporting(n)' = Reporting(n) /\ Logged(n)' = Logged(n)
        BY <1>2, <2>5 DEF Waiting, Reporting, Logged
    <2> QED  BY <2>2, <2>4, <2>6, TokenType, FS_EmptySet, FS_CardinalityType DEF OneToken
<1>6. ASSUME NEW n \in WarIds', n \notin WarIds PROVE OneToken(n)'
    <2> DEFINE those == {<<h.war.attacker, n>>}
               X == {h.war.attacker}
    <2>0. n = new /\ wars'[n] = h.war  BY <1>1, <1>6
    <2>1. Copies(warq, those) = {}
        <3>1. ASSUME NEW x \in Copies(warq, those) PROVE FALSE
            <4>1. /\ x[1] \in Player /\ x[2] \in DOMAIN warq[x[1]]
                  /\ <<x[1], warq[x[1]][x[2]]>> \in those
                BY CopyIs
            <4>2. warq[x[1]][x[2]] \in WarIds  BY <4>1, IdsAreWars
            <4> QED  BY <1>6, <4>1, <4>2
        <3> QED  BY <3>1
    <2>2. \A p \in Player : <<p, new>> \in those => p \in X  OBVIOUS
    <2>3. IsFiniteSet(X) /\ Cardinality(X) = 1  BY FS_Singleton
    <2>4. /\ IsFiniteSet(Copies(warq', those))
          /\ Cardinality(Copies(warq', those)) <= Cardinality({}) + Cardinality(X)
        <3>1. IsFiniteSet(Copies(warq, those))  BY <2>1, FS_EmptySet
        <3> HIDE DEF those, X, new
        <3>2. /\ IsFiniteSet(Copies(warq', those))
              /\ Cardinality(Copies(warq', those))
                    <= Cardinality(Copies(warq, those)) + Cardinality(X)
            BY <1>3, <2>2, <2>3, <3>1, CopiesDeliver
        <3> QED  BY <2>1, <3>2
    <2>5. Waiting(n)' = Copies(warq', those)  BY <2>0 DEF Waiting
    <2>6. Reporting(n)' = {}
        <3>1. h.war.attacker \in Player  BY <1>1 DEF Recognition
        <3>2. \A g \in warrior[h.war.attacker] : g.war # n  BY <1>6, <3>1, IdsAreWars
        <3> QED  BY <1>2, <2>0, <3>2 DEF Reporting
    <2>7. Logged(n)' = {}
        <3>1. \A i \in DOMAIN gameLogs : gameLogs[i].war # n  BY <1>6, IdsAreWars
        <3> QED  BY <1>2, <3>1 DEF Logged
    <2> QED  BY <2>3, <2>4, <2>5, <2>6, <2>7, FS_EmptySet, FS_CardinalityType DEF OneToken
<1>7. TokenInv'  BY <1>1, <1>5, <1>6 DEF TokenInv
<1> QED  BY <1>4, <1>7

(* Steps that touch neither wars nor those who fight them keep it all.       *)
LEMMA LogFrame ==
    ASSUME LogInv, UNCHANGED <<warq, warrior, gameLogs, wars, verdicts>>
    PROVE  ReportInv' /\ LogsInv' /\ TokenInv'
<1>1. ASSUME NEW n \in WarIds PROVE OneToken(n)'
    BY DEF LogInv, TokenInv, OneToken, Waiting, Reporting, Logged
<1> QED  BY <1>1 DEF LogInv, TokenInv, WarIds, ReportInv, LogsInv

(* Without a new log, a war is no more in progress than before when what its *)
(* attacker waits for and reports is.                                        *)
LEMMA FewerTokens ==
    ASSUME LogInv, UNCHANGED <<wars, gameLogs>>, NEW n \in WarIds,
           IsFiniteSet(Waiting(n)'), IsFiniteSet(Reporting(n)'),
           Cardinality(Waiting(n)') + Cardinality(Reporting(n)')
                <= Cardinality(Waiting(n)) + Cardinality(Reporting(n))
    PROVE  OneToken(n)'
<1>1. OneToken(n)  BY DEF LogInv, TokenInv
<1>2. Logged(n)' = Logged(n)  BY DEF Logged
<1>3. Cardinality(Waiting(n)') \in Nat /\ Cardinality(Reporting(n)') \in Nat
    BY FS_CardinalityType
<1> QED  BY <1>1, <1>2, <1>3, TokenType DEF OneToken

(* Copies leave with a queue and handlers with their process; a connection   *)
(* leaves a handler behind, which still reports once.                        *)
LEMMA LogSession ==
    ASSUME LogInv, NEW a \in Player, Session(a)
    PROVE  ReportInv' /\ LogsInv' /\ TokenInv'
<1> USE DEF LogInv
<1>1. CASE Exit(a) \/ Redial(a)
    <2>1. UNCHANGED <<wars, gameLogs, verdicts>>  BY <1>1 DEF Exit, Redial, ledger
    <2>2. \A p \in Player : warq'[p] = warq[p] \/ warq'[p] = <<>>
        BY <1>1 DEF Exit, Redial, TypeOK
    <2>3. ASSUME NEW p \in Player
          PROVE  \/ warrior'[p] \subseteq warrior[p]
                 \/ warrior'[p] = {[h EXCEPT !.live = FALSE] : h \in warrior[p]}
        <3>1. warrior \in [Player -> SUBSET Reports]  BY DEF TypeOK
        <3>2. CASE Exit(a)  BY <3>1, <3>2 DEF Exit
        <3>3. CASE Redial(a)
            <4>1. warrior' = [warrior EXCEPT ![a] =
                                {[h EXCEPT !.live = FALSE] : h \in warrior[a]}]
                BY <3>3 DEF Redial
            <4>2. p # a => warrior'[p] = warrior[p]  BY <3>1, <4>1
            <4>3. warrior'[a] = {[h EXCEPT !.live = FALSE] : h \in warrior[a]}
                BY <3>1, <4>1
            <4> QED  BY <4>2, <4>3
        <3> QED  BY <1>1, <3>2, <3>3
    <2>4. ASSUME NEW p \in Player, NEW g \in warrior'[p]
          PROVE  \E h \in warrior[p] : g.war = h.war /\ g.result = h.result
        <3>1. CASE warrior'[p] \subseteq warrior[p]  BY <3>1
        <3>2. CASE warrior'[p] = {[h EXCEPT !.live = FALSE] : h \in warrior[p]}
            <4>1. PICK h \in warrior[p] : g = [h EXCEPT !.live = FALSE]  BY <3>2
            <4>2. h \in Reports  BY DEF TypeOK
            <4> QED  BY <4>1, <4>2 DEF Reports
        <3> QED  BY <2>3, <3>1, <3>2
    <2>5. ReportInv' /\ LogsInv'  BY <2>1, <2>4 DEF ReportInv, LogsInv
    <2>6. ASSUME NEW n \in WarIds PROVE OneToken(n)'
        <3> DEFINE those == {<<wars[n].attacker, n>>}
        <3>1. OneToken(n)  BY DEF TokenInv
        <3>2. Waiting(n) = Copies(warq, those) /\ Waiting(n)' = Copies(warq', those)
            BY <2>1 DEF Waiting
        <3> HIDE DEF those
        <3>3. /\ IsFiniteSet(Waiting(n)')
              /\ Cardinality(Waiting(n)') <= Cardinality(Waiting(n))
            BY <2>2, <3>1, <3>2, CopiesEmpty DEF OneToken
        <3>4. /\ IsFiniteSet(Reporting(n)')
              /\ Cardinality(Reporting(n)') <= Cardinality(Reporting(n))
            <4> DEFINE p == wars[n].attacker
                       R == Reporting(n)
                       R2 == Reporting(n)'
                       f == [h \in R |-> [h EXCEPT !.live = FALSE]]
            <4>1. p \in Player
                <5>1. wars[n] \in Recognition  BY DEF TypeOK, WarIds
                <5> QED  BY <5>1 DEF Recognition
            <4>2. R2 = {h \in warrior'[p] : h.war = n}  BY <2>1 DEF Reporting
            <4>3. R = {h \in warrior[p] : h.war = n}  BY DEF Reporting
            <4>4. IsFiniteSet(R)  BY <3>1 DEF OneToken
            <4>5. CASE warrior'[p] \subseteq warrior[p]
                <5>1. R2 \subseteq R  BY <4>2, <4>3, <4>5
                <5> QED  BY <4>4, <5>1, FS_Subset
            <4>6. CASE warrior'[p] = {[h EXCEPT !.live = FALSE] : h \in warrior[p]}
                <5>1. ASSUME NEW h \in warrior[p] PROVE [h EXCEPT !.live = FALSE].war = h.war
                    <6>1. h \in Reports  BY <4>1 DEF TypeOK
                    <6> QED  BY <6>1 DEF Reports
                <5>2. \A h \in R : f[h] \in R2  BY <4>2, <4>3, <4>6, <5>1
                <5>3. \A g \in R2 : \E h \in R : f[h] = g  BY <4>2, <4>3, <4>6, <5>1
                <5> HIDE DEF f, R, R2
                <5>4. f \in [R -> R2]  BY <5>2, Zenon DEF f
                <5>5. f \in Surjection(R, R2)  BY <5>3, <5>4 DEF Surjection
                <5> QED  BY <4>4, <5>5, FS_Surjection DEF R, R2
            <4> QED  BY <2>3, <4>1, <4>5, <4>6
        <3>5. Cardinality(Waiting(n)') \in Nat /\ Cardinality(Reporting(n)') \in Nat
            BY <3>3, <3>4, FS_CardinalityType
        <3>6. Cardinality(Waiting(n)') + Cardinality(Reporting(n)')
                <= Cardinality(Waiting(n)) + Cardinality(Reporting(n))
            BY <3>1, <3>3, <3>4, <3>5, TokenType
        <3> QED  BY <2>1, <3>3, <3>4, <3>6, FewerTokens
    <2>7. TokenInv'  BY <2>1, <2>6 DEF TokenInv, WarIds
    <2> QED  BY <2>5, <2>7
<1>2. ASSUME Join(a) \/ Disconnect(a) \/ \E kind \in Kinds : Resubscribe(a, kind)
      PROVE  ReportInv' /\ LogsInv' /\ TokenInv'
    BY <1>2, LogFrame DEF Join, Disconnect, Resubscribe, client, queues, ledger, history
<1> QED  BY <1>1, <1>2 DEF Session

(* Taking a war off the queue hands the attacker's only copy to the one      *)
(* handler that will report it; other copies just go.                        *)
LEMMA LogTake ==
    ASSUME LogInv, NEW a \in Player,
           \/ IgnoreWar(a)
           \/ RejectWar(a)
           \/ \E loc \in Location : FightWar(a, loc)
    PROVE  ReportInv' /\ LogsInv' /\ TokenInv'
<1> USE DEF LogInv
<1> DEFINE m == Head(warq[a])
           mine(n) == n = m /\ a = wars[n].attacker
<1>1. TakeWar(a)  BY DEF IgnoreWar, RejectWar, FightWar
<1>2. /\ UNCHANGED <<wars, gameLogs>>
      /\ warq[a] # <<>> /\ warq' = [warq EXCEPT ![a] = Tail(warq[a])]
      /\ warq \in [Player -> Seq(WarIds)]
      /\ m \in WarIds
    <2>1. warq \in [Player -> Seq(WarIds)]  BY DEF TypeOK
    <2>2. warq[a] # <<>>  BY <1>1 DEF TakeWar
    <2>3. warq[a] \in Seq(WarIds)  BY <2>1
    <2>4. m \in WarIds  BY <2>2, <2>3
    <2>5. UNCHANGED gameLogs /\ UNCHANGED wars  BY <1>1 DEF TakeWar
    <2> QED  BY <1>1, <2>1, <2>2, <2>4, <2>5 DEF TakeWar
<1>3. \E g : /\ \A p \in Player :
                  /\ warrior'[p] \subseteq warrior[p] \cup {g}
                  /\ ~(p = a /\ mine(m)) => warrior'[p] = warrior[p]
             /\ mine(m) => \/ warrior'[a] = warrior[a]
                           \/ /\ g.war = m
                              /\ Contested(wars[m]) # {}
                              /\ [war |-> m, by |-> a, result |-> g.result] \in verdicts'
             /\ verdicts \subseteq verdicts'
    <2>1. CASE IgnoreWar(a) \/ RejectWar(a)
        <3>1. UNCHANGED <<warrior, verdicts>>  BY <2>1 DEF IgnoreWar, RejectWar
        <3> QED  BY <3>1
    <2>2. ASSUME NEW loc \in Location, FightWar(a, loc)
          PROVE  LET g == [war |-> m, result |-> ResolveWar(wars[m], loc), live |-> TRUE]
                 IN  /\ \A p \in Player :
                          /\ warrior'[p] \subseteq warrior[p] \cup {g}
                          /\ ~(p = a /\ mine(m)) => warrior'[p] = warrior[p]
                     /\ Contested(wars[m]) # {}
                     /\ [war |-> m, by |-> a, result |-> g.result] \in verdicts'
                     /\ verdicts \subseteq verdicts'
        <3> DEFINE g == [war |-> m, result |-> ResolveWar(wars[m], loc), live |-> TRUE]
        <3>1. /\ loc \in Contested(wars[m])
              /\ verdicts' = verdicts \cup {[war |-> m, by |-> a, result |-> g.result]}
            BY <2>2 DEF FightWar
        <3>2. warrior' = IF MustReport(a, wars[m])
                         THEN [warrior EXCEPT ![a] = warrior[a] \cup {g}]
                         ELSE warrior
            BY <2>2 DEF FightWar
        <3>3. warrior \in [Player -> SUBSET Reports]  BY DEF TypeOK
        <3> HIDE DEF g, m
        <3>4. MustReport(a, wars[m]) <=> mine(m)  BY DEF MustReport
        <3>5. ASSUME NEW p \in Player
              PROVE  /\ warrior'[p] \subseteq warrior[p] \cup {g}
                     /\ ~(p = a /\ mine(m)) => warrior'[p] = warrior[p]
            BY <3>2, <3>3, <3>4
        <3> QED  BY <3>1, <3>5 DEF g
    <2>3. ASSUME NEW loc \in Location, FightWar(a, loc)
          PROVE  [war |-> m, result |-> ResolveWar(wars[m], loc), live |-> TRUE].war = m
        OBVIOUS
    <2> QED  BY <2>1, <2>2, <2>3
<1>4. PICK g : /\ \A p \in Player :
                    /\ warrior'[p] \subseteq warrior[p] \cup {g}
                    /\ ~(p = a /\ mine(m)) => warrior'[p] = warrior[p]
               /\ mine(m) => \/ warrior'[a] = warrior[a]
                             \/ /\ g.war = m
                                /\ Contested(wars[m]) # {}
                                /\ [war |-> m, by |-> a, result |-> g.result] \in verdicts'
               /\ verdicts \subseteq verdicts'
    BY <1>3
<1> HIDE DEF m
<1>5. ReportInv' /\ LogsInv'
    <2>1. ASSUME NEW p \in Player, NEW h \in warrior'[p]
          PROVE  /\ p = wars[h.war].attacker
                 /\ Contested(wars[h.war]) # {}
                 /\ [war |-> h.war, by |-> p, result |-> h.result] \in verdicts'
        <3>1. CASE h \in warrior[p]  BY <1>4, <3>1 DEF ReportInv
        <3>2. CASE h \notin warrior[p]
            <4>1. h = g /\ p = a /\ mine(m) /\ warrior'[a] # warrior[a]
                BY <1>4, <3>2
            <4> QED  BY <1>4, <4>1
        <3> QED  BY <3>1, <3>2
    <2> QED  BY <1>2, <1>4, <2>1 DEF ReportInv, LogsInv
<1>6. ASSUME NEW n \in WarIds PROVE OneToken(n)'
    <2> DEFINE those == {<<wars[n].attacker, n>>}
               p == wars[n].attacker
    <2>1. OneToken(n)  BY DEF TokenInv
    <2>2. Waiting(n) = Copies(warq, those) /\ Waiting(n)' = Copies(warq', those)
        BY <1>2 DEF Waiting
    <2>3. /\ IsFiniteSet(Waiting(n)')
          /\ Cardinality(Waiting(n)')
                <= Cardinality(Waiting(n)) - (IF <<a, m>> \in those THEN 1 ELSE 0)
        <3> HIDE DEF those
        <3>1. /\ IsFiniteSet(Copies(warq', those))
              /\ Cardinality(Copies(warq', those)) <= Cardinality(Copies(warq, those))
                    - (IF <<a, Head(warq[a])>> \in those THEN 1 ELSE 0)
            BY <1>2, <2>1, <2>2, CopiesTail DEF OneToken
        <3> QED  BY <2>2, <3>1 DEF m
    <2>4. <<a, m>> \in those <=> mine(n)  OBVIOUS
    <2>5. p \in Player
        <3>1. wars[n] \in Recognition  BY DEF TypeOK, WarIds
        <3> QED  BY <3>1 DEF Recognition
    <2>6. /\ Reporting(n)' = {h \in warrior'[p] : h.war = n}
          /\ Reporting(n) = {h \in warrior[p] : h.war = n}
        BY <1>2 DEF Reporting
    <2>7. CASE mine(n)
        <3>1. Reporting(n)' \subseteq Reporting(n) \cup {g}  BY <1>4, <2>5, <2>6
        <3>2. /\ IsFiniteSet(Reporting(n) \cup {g})
              /\ Cardinality(Reporting(n) \cup {g}) <= Cardinality(Reporting(n)) + 1
            <4>1. IsFiniteSet(Reporting(n))  BY <2>1 DEF OneToken
            <4>2. Cardinality(Reporting(n)) \in Nat  BY <2>1, TokenType
            <4> DEFINE R == Reporting(n)
            <4> HIDE DEF R
            <4>3. /\ IsFiniteSet(R \cup {g})
                  /\ Cardinality(R \cup {g}) = IF g \in R THEN Cardinality(R)
                                                          ELSE Cardinality(R) + 1
                BY <4>1, FS_AddElement DEF R
            <4>4. Cardinality(R \cup {g}) <= Cardinality(R) + 1  BY <4>2, <4>3 DEF R
            <4> QED  BY <4>3, <4>4 DEF R
        <3>3. /\ IsFiniteSet(Reporting(n)')
              /\ Cardinality(Reporting(n)') <= Cardinality(Reporting(n) \cup {g})
            BY <3>1, <3>2, FS_Subset
        <3>4. /\ Cardinality(Waiting(n)') \in Nat /\ Cardinality(Reporting(n)') \in Nat
              /\ Cardinality(Reporting(n) \cup {g}) \in Nat
            BY <2>3, <3>2, <3>3, FS_CardinalityType
        <3>5. Cardinality(Waiting(n)') <= Cardinality(Waiting(n)) - 1
            BY <2>3, <2>4, <2>7
        <3>6. Cardinality(Waiting(n)') + Cardinality(Reporting(n)')
                <= Cardinality(Waiting(n)) + Cardinality(Reporting(n))
            BY <2>1, <3>2, <3>3, <3>4, <3>5, TokenType
        <3> QED  BY <1>2, <2>3, <3>3, <3>6, FewerTokens
    <2>8. CASE ~mine(n)
        <3>1. Reporting(n)' \subseteq Reporting(n)
            <4>1. CASE p = a /\ mine(m)
                <5>1. n # m  BY <2>8, <4>1
                <5>2. warrior'[a] = warrior[a] \/ g.war = m  BY <1>4, <4>1
                <5>3. warrior'[p] \subseteq warrior[p] \cup {g}  BY <1>4, <2>5
                <5> QED  BY <2>6, <4>1, <5>1, <5>2, <5>3
            <4>2. CASE ~(p = a /\ mine(m))  BY <1>4, <2>5, <2>6, <4>2
            <4> QED  BY <4>1, <4>2
        <3>2. /\ IsFiniteSet(Reporting(n)')
              /\ Cardinality(Reporting(n)') <= Cardinality(Reporting(n))
            BY <2>1, <3>1, FS_Subset DEF OneToken
        <3>3. /\ Cardinality(Waiting(n)') \in Nat /\ Cardinality(Reporting(n)') \in Nat
            BY <2>3, <3>2, FS_CardinalityType
        <3>4. Cardinality(Waiting(n)') <= Cardinality(Waiting(n))
            BY <2>3, <2>4, <2>8, <2>1, <3>3, TokenType
        <3>5. Cardinality(Waiting(n)') + Cardinality(Reporting(n)')
                <= Cardinality(Waiting(n)) + Cardinality(Reporting(n))
            BY <2>1, <3>2, <3>3, <3>4, TokenType
        <3> QED  BY <1>2, <2>3, <3>2, <3>5, FewerTokens
    <2> QED  BY <2>7, <2>8
<1>7. TokenInv'  BY <1>2, <1>6 DEF TokenInv, WarIds
<1> QED  BY <1>5, <1>7

(* A published log takes the place of the handler that reported it.          *)
LEMMA LogPublish ==
    ASSUME LogInv, NEW a \in Player, NEW h \in warrior[a], PublishGameLog(a, h)
    PROVE  ReportInv' /\ LogsInv' /\ TokenInv'
<1> USE DEF LogInv
<1> DEFINE entry == [war |-> h.war, by |-> a, result |-> h.result]
           last == Len(gameLogs) + 1
<1>1. /\ UNCHANGED <<warq, wars, verdicts>>
      /\ warrior' = [warrior EXCEPT ![a] = warrior[a] \ {h}]
      /\ gameLogs' = Append(gameLogs, entry)
    BY DEF PublishGameLog, queues, history
<1>2. /\ \A p \in Player : warrior'[p] \subseteq warrior[p]
      /\ warrior'[a] = warrior[a] \ {h}
    <2>1. warrior \in [Player -> SUBSET Reports]  BY DEF TypeOK
    <2> QED  BY <1>1, <2>1
<1>3. /\ DOMAIN gameLogs' = DOMAIN gameLogs \cup {last}
      /\ last \notin DOMAIN gameLogs
      /\ \A i \in DOMAIN gameLogs : gameLogs'[i] = gameLogs[i]
      /\ gameLogs'[last] = entry
    <2>1. gameLogs \in Seq(Verdicts)  BY DEF TypeOK
    <2> QED  BY <1>1, <2>1
<1> HIDE DEF last
<1>4. a = wars[h.war].attacker /\ entry \in verdicts  BY DEF ReportInv
<1>5. ReportInv'  BY <1>1, <1>2 DEF ReportInv
<1>6. LogsInv'
    <2>1. ASSUME NEW i \in DOMAIN gameLogs'
          PROVE  gameLogs'[i].by = wars[gameLogs'[i].war].attacker /\ gameLogs'[i] \in verdicts
        <3>1. CASE i = last  BY <1>3, <1>4, <3>1
        <3>2. CASE i # last  BY <1>3, <3>2 DEF LogsInv
        <3> QED  BY <3>1, <3>2
    <2> QED  BY <1>1, <2>1 DEF LogsInv
<1>7. ASSUME NEW n \in WarIds PROVE OneToken(n)'
    <2> DEFINE p == wars[n].attacker
    <2>1. OneToken(n)  BY DEF TokenInv
    <2>2. Waiting(n)' = Waiting(n)  BY <1>1 DEF Waiting
    <2>3. /\ Reporting(n)' = {g \in warrior'[p] : g.war = n}
          /\ Reporting(n) = {g \in warrior[p] : g.war = n}
          /\ Logged(n)' = {i \in DOMAIN gameLogs' : gameLogs'[i].war = n}
          /\ Logged(n) = {i \in DOMAIN gameLogs : gameLogs[i].war = n}
        BY <1>1 DEF Reporting, Logged
    <2>4. p \in Player
        <3>1. wars[n] \in Recognition  BY DEF TypeOK, WarIds
        <3> QED  BY <3>1 DEF Recognition
    <2>5. CASE n = h.war
        <3>1. Reporting(n)' = Reporting(n) \ {h} /\ h \in Reporting(n)
            BY <1>2, <1>4, <2>3, <2>5
        <3>2. Logged(n)' = Logged(n) \cup {last} /\ last \notin Logged(n)
            BY <1>3, <2>3, <2>5
        <3>3. /\ IsFiniteSet(Reporting(n)')
              /\ Cardinality(Reporting(n)') = Cardinality(Reporting(n)) - 1
            BY <2>1, <3>1, FS_RemoveElement DEF OneToken
        <3>4. /\ IsFiniteSet(Logged(n)')
              /\ Cardinality(Logged(n)') = Cardinality(Logged(n)) + 1
            BY <2>1, <3>2, FS_AddElement DEF OneToken
        <3> QED  BY <2>1, <2>2, <3>3, <3>4, TokenType DEF OneToken
    <2>6. CASE n # h.war
        <3>1. Reporting(n)' \subseteq Reporting(n)  BY <1>2, <2>3, <2>4
        <3>2. Logged(n)' = Logged(n)  BY <1>3, <2>3, <2>6
        <3>3. /\ IsFiniteSet(Reporting(n)')
              /\ Cardinality(Reporting(n)') <= Cardinality(Reporting(n))
            BY <2>1, <3>1, FS_Subset DEF OneToken
        <3>4. Cardinality(Reporting(n)') \in Nat  BY <3>3, FS_CardinalityType
        <3> QED  BY <2>1, <2>2, <3>2, <3>3, <3>4, TokenType DEF OneToken
    <2> QED  BY <2>5, <2>6
<1>8. TokenInv'  BY <1>1, <1>7 DEF TokenInv, WarIds
<1> QED  BY <1>5, <1>6, <1>8

(* A failed report gives back what its handler took, and ends.               *)
LEMMA LogFail ==
    ASSUME LogInv, NEW a \in Player, NEW h \in warrior[a], FailToPublishGameLog(a, h)
    PROVE  ReportInv' /\ LogsInv' /\ TokenInv'
<1> USE DEF LogInv
<1>1. /\ UNCHANGED <<wars, gameLogs, verdicts>>
      /\ warrior' = [warrior EXCEPT ![a] = warrior[a] \ {h}]
      /\ \/ warq' = warq
         \/ \E k \in 1..Len(warq[a]) + 1 :
                warq' = [warq EXCEPT ![a] = InsertAt(warq[a], k, h.war)]
    BY DEF FailToPublishGameLog, Requeue, ledger, history
<1>2. /\ \A p \in Player : warrior'[p] \subseteq warrior[p]
      /\ warrior'[a] = warrior[a] \ {h}
    <2>1. warrior \in [Player -> SUBSET Reports]  BY DEF TypeOK
    <2> QED  BY <1>1, <2>1
<1>3. h.war \in WarIds /\ a = wars[h.war].attacker  BY IdsAreWars DEF ReportInv
<1>4. ReportInv' /\ LogsInv'  BY <1>1, <1>2 DEF ReportInv, LogsInv
<1>5. ASSUME NEW n \in WarIds PROVE OneToken(n)'
    <2> DEFINE those == {<<wars[n].attacker, n>>}
               p == wars[n].attacker
    <2>1. OneToken(n)  BY DEF TokenInv
    <2>2. Waiting(n) = Copies(warq, those) /\ Waiting(n)' = Copies(warq', those)
        BY <1>1 DEF Waiting
    <2>3. /\ IsFiniteSet(Waiting(n)')
          /\ Cardinality(Waiting(n)')
                <= Cardinality(Waiting(n)) + (IF <<a, h.war>> \in those THEN 1 ELSE 0)
        <3> HIDE DEF those
        <3>1. warq \in [Player -> Seq(WarIds)]  BY DEF TypeOK
        <3>2. /\ IsFiniteSet(Copies(warq', those))
              /\ Cardinality(Copies(warq', those)) <= Cardinality(Copies(warq, those))
                    + (IF <<a, h.war>> \in those THEN 1 ELSE 0)
            <4>1. IsFiniteSet(Copies(warq, those))  BY <2>1, <2>2 DEF OneToken
            <4> QED  BY <1>1, <1>3, <3>1, <4>1, CopiesInsert
        <3> QED  BY <2>2, <3>2
    <2>4. <<a, h.war>> \in those <=> n = h.war  BY <1>3
    <2>5. p \in Player
        <3>1. wars[n] \in Recognition  BY DEF TypeOK, WarIds
        <3> QED  BY <3>1 DEF Recognition
    <2>6. /\ Reporting(n)' = {g \in warrior'[p] : g.war = n}
          /\ Reporting(n) = {g \in warrior[p] : g.war = n}
        BY <1>1 DEF Reporting
    <2>7. /\ IsFiniteSet(Reporting(n)')
          /\ Cardinality(Reporting(n)')
                <= Cardinality(Reporting(n)) - (IF n = h.war THEN 1 ELSE 0)
        <3>1. CASE n = h.war
            <4>1. Reporting(n)' = Reporting(n) \ {h} /\ h \in Reporting(n)
                BY <1>2, <1>3, <2>6, <3>1
            <4>2. /\ IsFiniteSet(Reporting(n)')
                  /\ Cardinality(Reporting(n)') = Cardinality(Reporting(n)) - 1
                BY <2>1, <4>1, FS_RemoveElement DEF OneToken
            <4> QED  BY <2>1, <3>1, <4>2, TokenType
        <3>2. CASE n # h.war
            <4>1. Reporting(n)' \subseteq Reporting(n)  BY <1>2, <2>5, <2>6
            <4>2. /\ IsFiniteSet(Reporting(n)')
                  /\ Cardinality(Reporting(n)') <= Cardinality(Reporting(n))
                BY <2>1, <4>1, FS_Subset DEF OneToken
            <4> QED  BY <2>1, <3>2, <4>2, TokenType
        <3> QED  BY <3>1, <3>2
    <2>8. Cardinality(Waiting(n)') \in Nat /\ Cardinality(Reporting(n)') \in Nat
        BY <2>3, <2>7, FS_CardinalityType
    <2>9. Cardinality(Waiting(n)') + Cardinality(Reporting(n)')
            <= Cardinality(Waiting(n)) + Cardinality(Reporting(n))
        BY <2>1, <2>3, <2>4, <2>7, <2>8, TokenType
    <2> QED  BY <1>1, <2>3, <2>7, <2>9, FewerTokens
<1>6. TokenInv'  BY <1>1, <1>5 DEF TokenInv, WarIds
<1> QED  BY <1>4, <1>6

(* Every step keeps the invariant.                                           *)
LEMMA LogNext == ASSUME LogInv, [Next]_vars PROVE LogInv'
<1> USE DEF LogInv
<1>1. ASSUME NEW a \in Player, NewCommand(a) \/ Command(a) \/ PauseConsumer(a)
      PROVE  ReportInv' /\ LogsInv' /\ TokenInv'
    <2>1. UNCHANGED <<warq, warrior, gameLogs, wars, verdicts>>
        BY <1>1, PauseSteps
           DEF NewCommand, SpawnId, BeginMove, Command, AddUnit, GetUnit, UpdateUnit,
               SnapMove, PublishMove, FailToPublishMove, queues, ledger, history
    <2> QED  BY <2>1, LogFrame
<1>2. ASSUME NEW a \in Player, MoveConsumer(a) PROVE ReportInv' /\ LogsInv' /\ TokenInv'
    <2>1. CASE RejectOwnMove(a) \/ IgnoreMove(a) \/ NoticeMove(a)
        BY <2>1, LogFrame DEF RejectOwnMove, IgnoreMove, NoticeMove, TakeMove, history
    <2>2. ASSUME NEW h \in mover[a], Recognise(a, h) \/ FailToDeclareWar(a, h)
          PROVE  ReportInv' /\ LogsInv' /\ TokenInv'
        BY <2>2, LogFrame DEF Recognise, FailToDeclareWar, queues, ledger, history
    <2> QED  BY <1>2, <2>1, <2>2, LogDeclare DEF MoveConsumer
<1>3. ASSUME NEW a \in Player, WarConsumer(a) PROVE ReportInv' /\ LogsInv' /\ TokenInv'
    BY <1>3, LogTake, LogPublish, LogFail DEF WarConsumer
<1>4. ASSUME NEW pause \in BOOLEAN, ServerPause(pause) \/ FailToPublishPause
      PROVE  ReportInv' /\ LogsInv' /\ TokenInv'
    BY <1>4, LogFrame, OrderSteps
<1>5. ASSUME UNCHANGED vars PROVE ReportInv' /\ LogsInv' /\ TokenInv'
    BY <1>5, LogFrame DEF vars, client, queues, ledger, history
<1>6. ReportInv' /\ LogsInv' /\ TokenInv'
    BY <1>1, <1>2, <1>3, <1>4, <1>5, LogSession DEF Next
<1> QED  BY <1>6, TypeNext

(* The invariant holds before anything is declared.                          *)
LEMMA LogInit == ASSUME Init PROVE LogInv
<1>1. TypeOK  BY TypeInit
<1>2. WarIds = {}  BY DEF Init, WarIds
<1>3. DOMAIN gameLogs = {}  BY DEF Init
<1> QED  BY <1>1, <1>2, <1>3 DEF Init, LogInv, ReportInv, LogsInv, TokenInv

(* Two logs of a war would be two tokens.                                    *)
LEMMA OneLogEach == ASSUME LogInv PROVE OneLogPerWar
<1> USE DEF LogInv
<1>1. ASSUME NEW i \in DOMAIN gameLogs, NEW j \in DOMAIN gameLogs,
             gameLogs[i].war = gameLogs[j].war, i # j
      PROVE  FALSE
    <2> DEFINE n == gameLogs[i].war
    <2>1. OneToken(n)  BY IdsAreWars DEF TokenInv
    <2>2. {i, j} \subseteq Logged(n)  BY <1>1 DEF Logged
    <2>3. IsFiniteSet({i, j}) /\ Cardinality({i, j}) = 2
        <3>1. IsFiniteSet({i}) /\ Cardinality({i}) = 1  BY FS_Singleton
        <3>2. IsFiniteSet({i} \cup {j}) /\ Cardinality({i} \cup {j}) = 2
            BY <1>1, <3>1, FS_AddElement
        <3>3. {i, j} = {i} \cup {j}  OBVIOUS
        <3> QED  BY <3>2, <3>3
    <2>4. Cardinality({i, j}) <= Cardinality(Logged(n))
        BY <2>1, <2>2, FS_Subset DEF OneToken
    <2> QED  BY <2>1, <2>3, <2>4, TokenType DEF OneToken
<1> QED  BY <1>1 DEF OneLogPerWar, LogsInv

(* The log of a war is published at most once and by the attacker, whatever  *)
(* is retried, lost or restarted, and says what the attacker did.            *)
THEOREM OneLogEachWar == Spec => []OneLogPerWar
BY LogInit, LogNext, OneLogEach, PTL DEF Spec
-----------------------------------------------------------------------------
(* EachWarIsReportedByRule. The refinement of WarReport rests on the tokens: *)
(* the three places a war's report can be in exclude each other.             *)
LEMMA TokenOne ==
    ASSUME NEW W, NEW R, NEW G, IsFiniteSet(W), IsFiniteSet(R), IsFiniteSet(G),
           Cardinality(W) + Cardinality(R) + Cardinality(G) <= 1
    PROVE  /\ R # {} => W = {} /\ G = {}
           /\ G # {} => W = {} /\ R = {}
<1>1. ASSUME NEW S, IsFiniteSet(S)
      PROVE  Cardinality(S) \in Nat /\ (Cardinality(S) = 0 <=> S = {})
    BY <1>1, FS_CardinalityType, FS_EmptySet
<1>2. /\ Cardinality(W) \in Nat /\ (Cardinality(W) = 0 <=> W = {})
      /\ Cardinality(R) \in Nat /\ (Cardinality(R) = 0 <=> R = {})
      /\ Cardinality(G) \in Nat /\ (Cardinality(G) = 0 <=> G = {})
    BY <1>1
<1> DEFINE w == Cardinality(W)
           r == Cardinality(R)
           g == Cardinality(G)
<1> HIDE DEF w, r, g
<1>3. w \in Nat /\ r \in Nat /\ g \in Nat /\ w + r + g <= 1  BY <1>2 DEF w, r, g
<1>4. (r # 0 => w = 0 /\ g = 0) /\ (g # 0 => w = 0 /\ r = 0)  BY <1>3
<1> QED  BY <1>2, <1>4 DEF w, r, g

(* A player has a war to report when it is in its queue or with a handler.   *)
Has(p, n) == Contains(warq[p], n) \/ \E h \in warrior[p] : h.war = n

(* The stages in terms of what the attacker has.                             *)
LEMMA StageIs ==
    ASSUME TypeOK, NEW n
    PROVE  /\ n \in WarIds =>
                 /\ wars[n].attacker \in Player
                 /\ Contains(warq[wars[n].attacker], n) <=> Waiting(n) # {}
                 /\ (\E h \in warrior[wars[n].attacker] : h.war = n) <=> Reporting(n) # {}
                 /\ Stage(n) = IF Waiting(n) # {} THEN "pending"
                               ELSE IF Reporting(n) # {} THEN "fought" ELSE "over"
                 /\ Stage(n) = "over" <=> ~Has(wars[n].attacker, n)
           /\ n \notin WarIds => Stage(n) = "none" /\ Logged(n) = {}
           /\ LogsOf(n) = Cardinality(Logged(n))
<1>1. ASSUME n \in WarIds
      PROVE  /\ wars[n].attacker \in Player
             /\ Contains(warq[wars[n].attacker], n) <=> Waiting(n) # {}
    <2> DEFINE p == wars[n].attacker
    <2>1. p \in Player
        <3>1. wars[n] \in Recognition  BY <1>1 DEF TypeOK, WarIds
        <3> QED  BY <3>1 DEF Recognition
    <2>2. warq[p] \in Seq(WarIds)  BY <2>1 DEF TypeOK
    <2>3. DOMAIN warq[p] = 1..Len(warq[p]) /\ DOMAIN warq[p] \subseteq Nat  BY <2>2
    <2>4. Waiting(n) = Copies(warq, {<<p, n>>})  BY DEF Waiting
    <2> HIDE DEF p
    <2>5. ASSUME NEW i \in 1..Len(warq[p]), warq[p][i] = n PROVE Waiting(n) # {}
        <3>1. <<p, i>> \in Copies(warq, {<<p, n>>})  BY <2>1, <2>3, <2>5, CopyIs
        <3> QED  BY <2>4, <3>1
    <2>6. ASSUME NEW x \in Waiting(n) PROVE Contains(warq[p], n)
        <3>1. /\ x[2] \in DOMAIN warq[x[1]]
              /\ <<x[1], warq[x[1]][x[2]]>> \in {<<p, n>>}
            BY <2>4, <2>6, CopyIs
        <3>2. x[1] = p /\ warq[p][x[2]] = n  BY <3>1
        <3> QED  BY <2>3, <3>1, <3>2, InQueue
    <2>7. Contains(warq[p], n) <=> Waiting(n) # {}  BY <2>5, <2>6, InQueue
    <2> QED  BY <2>1, <2>7 DEF p
<1>2. n \notin WarIds => Logged(n) = {}  BY IdsAreWars DEF Logged
<1>3. (\E h \in warrior[wars[n].attacker] : h.war = n) <=> Reporting(n) # {}
    BY DEF Reporting
<1> QED  BY <1>1, <1>2, <1>3, Zenon DEF Stage, LogsOf, Logged, Has

(* A message that came into a queue, or comes off it, was the one put there. *)
LEMMA ElementsChange ==
    ASSUME NEW S, NEW s \in Seq(S), NEW n
    PROVE  /\ s # <<>> /\ Contains(Tail(s), n) => Contains(s, n)
           /\ s # <<>> => Contains(s, Head(s))
           /\ \A e \in S : Contains(Append(s, e), n) => Contains(s, n) \/ n = e
           /\ \A e \in S, k \in 1..Len(s) + 1 :
                 Contains(InsertAt(s, k, e), n) => Contains(s, n) \/ n = e
<1>1. ASSUME s # <<>>, NEW i \in 1..Len(Tail(s)), Tail(s)[i] = n PROVE Contains(s, n)
    <2>1. i + 1 \in 1..Len(s) /\ s[i + 1] = n  BY <1>1
    <2> QED  BY <2>1, InQueue
<1>2. ASSUME s # <<>> PROVE Contains(s, Head(s))
    <2>1. 1 \in 1..Len(s) /\ s[1] = Head(s)  BY <1>2
    <2> QED  BY <2>1, InQueue
<1>3. ASSUME NEW e \in S, NEW i \in 1..Len(Append(s, e)), Append(s, e)[i] = n
      PROVE  Contains(s, n) \/ n = e
    <2>1. (i \in 1..Len(s) /\ s[i] = n) \/ n = e  BY <1>3
    <2> QED  BY <2>1, InQueue
<1>4. ASSUME NEW e \in S, NEW k \in 1..Len(s) + 1,
             NEW i \in 1..Len(InsertAt(s, k, e)), InsertAt(s, k, e)[i] = n
      PROVE  Contains(s, n) \/ n = e
    <2>1. i \in 1..Len(s) + 1 /\ Len(s) \in Nat  BY InsertElements
    <2>2. n = IF i < k THEN s[i] ELSE IF i = k THEN e ELSE s[i - 1]
        BY <1>4, <2>1, InsertElements
    <2>3. i < k => i \in 1..Len(s)  BY <2>1
    <2>4. ~(i < k) /\ i # k => i - 1 \in 1..Len(s)  BY <2>1
    <2> QED  BY <2>2, <2>3, <2>4, InQueue
<1> QED  BY <1>1, <1>2, <1>3, <1>4, InQueue

(* Nobody gets a report to make that it did not have, but by a new war.      *)
LEMMA NothingComesBack ==
    ASSUME TypeOK, [Next]_vars, NEW p \in Player, NEW n \in WarIds, Has(p, n)'
    PROVE  Has(p, n)
<1>t. /\ warq \in [Player -> Seq(WarIds)] /\ warrior \in [Player -> SUBSET Reports]
      /\ warq[p] \in Seq(WarIds)
    BY DEF TypeOK
<1>1. CASE UNCHANGED <<warq, warrior>>
    BY <1>1 DEF Has
<1>2. ASSUME NEW a \in Player, NEW h \in mover[a], DeclareWar(a, h) PROVE Has(p, n)
    <2>1. UNCHANGED warrior  BY <1>2 DEF DeclareWar
    <2>2. warq'[p] = warq[p] \/ warq'[p] = Append(warq[p], Len(wars) + 1)
        BY <1>2 DEF DeclareWar, Deliver
    <2>3. Len(wars) \in Nat /\ WarIds = 1..Len(wars)  BY DEF TypeOK, WarIds
    <2>4. WarIds \subseteq Nat /\ n # Len(wars) + 1  BY <2>3
    <2>5. warq[p] \in Seq(Nat) /\ Len(wars) + 1 \in Nat  BY <1>t, <2>3, <2>4
    <2>6. Contains(warq'[p], n) => Contains(warq[p], n)
        <3> DEFINE new == Len(wars) + 1
        <3> HIDE DEF new
        <3>1. new \in Nat /\ n # new  BY <2>4, <2>5 DEF new
        <3>2. Contains(Append(warq[p], new), n) => Contains(warq[p], n)
            BY <2>5, <3>1, ElementsChange
        <3> QED  BY <2>2, <3>2 DEF new
    <2> QED  BY <2>1, <2>6 DEF Has
<1>3. ASSUME NEW a \in Player, TakeWar(a),
             \/ UNCHANGED warrior
             \/ \E h : h.war = Head(warq[a])
                       /\ warrior' = [warrior EXCEPT ![a] = warrior[a] \cup {h}]
      PROVE  Has(p, n)
    <2>1. warq[a] # <<>> /\ warq' = [warq EXCEPT ![a] = Tail(warq[a])]
        BY <1>3 DEF TakeWar
    <2>2. Contains(warq'[p], n) => Contains(warq[p], n)
        BY <1>t, <2>1, ElementsChange
    <2>3. ASSUME NEW g \in warrior'[p], g.war = n PROVE Has(p, n)
        <3>1. g \in warrior[p] \/ (p = a /\ n = Head(warq[a]))  BY <1>3, <1>t, <2>3
        <3>2. p = a => Contains(warq[p], Head(warq[a]))  BY <1>t, <2>1, ElementsChange
        <3> QED  BY <2>3, <3>1, <3>2 DEF Has
    <2> QED  BY <2>2, <2>3 DEF Has
<1>4. ASSUME NEW a \in Player, WarConsumer(a) PROVE Has(p, n)
    <2>1. CASE IgnoreWar(a) \/ RejectWar(a)
        BY <1>3, <2>1 DEF IgnoreWar, RejectWar
    <2>2. ASSUME NEW loc \in Location, FightWar(a, loc) PROVE Has(p, n)
        <3> DEFINE h == [war |-> Head(warq[a]), live |-> TRUE,
                         result |-> ResolveWar(wars[Head(warq[a])], loc)]
        <3>1. h.war = Head(warq[a])  OBVIOUS
        <3>2. warrior' = [warrior EXCEPT ![a] = warrior[a] \cup {h}] \/ UNCHANGED warrior
            BY <2>2 DEF FightWar
        <3>3. TakeWar(a)  BY <2>2 DEF FightWar
        <3> HIDE DEF h
        <3> QED  BY <1>3, <3>1, <3>2, <3>3
    <2>3. ASSUME NEW h \in warrior[a], PublishGameLog(a, h) PROVE Has(p, n)
        <3>1. UNCHANGED warq /\ warrior'[p] \subseteq warrior[p]
            BY <1>t, <2>3 DEF PublishGameLog, queues
        <3> QED  BY <3>1 DEF Has
    <2>4. ASSUME NEW h \in warrior[a], FailToPublishGameLog(a, h) PROVE Has(p, n)
        <3>1. warrior'[p] \subseteq warrior[p]  BY <1>t, <2>4 DEF FailToPublishGameLog
        <3>2. h.war \in WarIds  BY <1>t DEF Reports
        <3>3. \/ warq'[p] = warq[p]
              \/ p = a /\ \E k \in 1..Len(warq[p]) + 1 :
                                warq'[p] = InsertAt(warq[p], k, h.war)
            BY <1>t, <2>4 DEF FailToPublishGameLog, Requeue
        <3>4. Contains(warq'[p], n) => Contains(warq[p], n) \/ (p = a /\ n = h.war)
            BY <1>t, <3>2, <3>3, ElementsChange
        <3> QED  BY <3>1, <3>4 DEF Has
    <2> QED  BY <1>4, <2>1, <2>2, <2>3, <2>4 DEF WarConsumer
<1>5. ASSUME NEW a \in Player, Session(a) PROVE Has(p, n)
    <2>1. CASE Join(a) \/ Disconnect(a) \/ \E kind \in Kinds : Resubscribe(a, kind)
        BY <1>1, <2>1 DEF Join, Disconnect, Resubscribe, client, queues
    <2>2. CASE Exit(a) \/ Redial(a)
        <3>1. warq'[p] = warq[p] \/ warq'[p] = <<>>  BY <1>t, <2>2 DEF Exit, Redial
        <3>2. ~Contains(<<>>, n)  BY InQueue
        <3>3. ASSUME NEW g \in warrior'[p], g.war = n PROVE \E h \in warrior[p] : h.war = n
            <4>1. \/ g \in warrior[p]
                  \/ \E h \in warrior[p] : g = [h EXCEPT !.live = FALSE]
                <5>1. CASE Exit(a)  BY <1>t, <3>3, <5>1 DEF Exit
                <5>2. CASE Redial(a)
                    <6>1. warrior' = [warrior EXCEPT ![a] =
                                        {[h EXCEPT !.live = FALSE] : h \in warrior[a]}]
                        BY <5>2 DEF Redial
                    <6> QED  BY <1>t, <3>3, <6>1
                <5> QED  BY <2>2, <5>1, <5>2
            <4>2. \A h \in warrior[p] : [h EXCEPT !.live = FALSE].war = h.war
                BY <1>t DEF Reports
            <4> QED  BY <3>3, <4>1, <4>2
        <3> QED  BY <3>1, <3>2, <3>3 DEF Has
    <2> QED  BY <1>5, <2>1, <2>2 DEF Session
<1>6. ASSUME NEW a \in Player, NewCommand(a) \/ Command(a) \/ PauseConsumer(a)
      PROVE  Has(p, n)
    BY <1>1, <1>6, PauseSteps
       DEF NewCommand, SpawnId, BeginMove, Command, AddUnit, GetUnit, UpdateUnit,
           SnapMove, PublishMove, FailToPublishMove, queues
<1>7. ASSUME NEW a \in Player, MoveConsumer(a) PROVE Has(p, n)
    <2>1. CASE RejectOwnMove(a) \/ IgnoreMove(a) \/ NoticeMove(a)
        BY <1>1, <2>1 DEF RejectOwnMove, IgnoreMove, NoticeMove, TakeMove
    <2>2. ASSUME NEW h \in mover[a], Recognise(a, h) \/ FailToDeclareWar(a, h)
          PROVE  Has(p, n)
        BY <1>1, <2>2 DEF Recognise, FailToDeclareWar, queues
    <2> QED  BY <1>2, <1>7, <2>1, <2>2 DEF MoveConsumer
<1>8. ASSUME NEW pause \in BOOLEAN, ServerPause(pause) \/ FailToPublishPause PROVE Has(p, n)
    BY <1>1, <1>8, OrderSteps
<1>9. CASE UNCHANGED vars
    BY <1>1, <1>9 DEF vars, client, queues
<1> QED  BY <1>4, <1>5, <1>6, <1>7, <1>8, <1>9 DEF Next

(* While no war is declared and no log published, a report to be made is     *)
(* fought, tried again or lost, and one that is over stays over.             *)
LEMMA FateQuiet ==
    ASSUME TypeOK, TypeOK', [Next]_vars, UNCHANGED <<wars, gameLogs>>, NEW n
    PROVE  [Fate(n)!Next]_(Fate(n)!vars)
<1>1. UNCHANGED LogsOf(n) /\ (n \in WarIds <=> n \in WarIds')  BY DEF LogsOf, WarIds
<1>2. CASE n \notin WarIds
    <2>1. Stage(n) = "none" /\ Stage(n)' = "none"  BY <1>1, <1>2 DEF Stage
    <2> QED  BY <1>1, <2>1 DEF Fate!vars
<1>3. CASE n \in WarIds
    <2>1. /\ wars[n].attacker \in Player
          /\ Stage(n) = "over" <=> ~Has(wars[n].attacker, n)
          /\ Stage(n) \in {"pending", "fought", "over"}
        BY <1>3, StageIs
    <2>2. /\ Stage(n)' = "over" <=> ~Has(wars[n].attacker, n)'
          /\ Stage(n)' \in {"pending", "fought", "over"}
        BY <1>1, <1>3 DEF Stage, Has
    <2>3. Has(wars[n].attacker, n)' => Has(wars[n].attacker, n)
        <3> DEFINE p == wars[n].attacker
        <3>1. p \in Player /\ UNCHANGED p  BY <2>1
        <3>2. ASSUME NEW q \in Player, Has(q, n)' PROVE Has(q, n)
            BY <1>3, <3>2, NothingComesBack
        <3> QED  BY <3>1, <3>2 DEF Has
    <2> QED
        BY <1>1, <2>1, <2>2, <2>3
           DEF Fate!Next, Fate!Fight, Fate!Retry, Fate!Lose, Fate!vars
<1> QED  BY <1>2, <1>3

(* A recognition starts one life, at its beginning, and touches no other.    *)
LEMMA FateDeclare ==
    ASSUME TypeOK, TypeOK', NEW a \in Player, NEW h \in mover[a], DeclareWar(a, h), NEW n
    PROVE  [Fate(n)!Next]_(Fate(n)!vars)
<1> DEFINE new == Len(wars) + 1
<1>1. /\ Len(wars) \in Nat /\ WarIds = 1..Len(wars)
      /\ WarIds' = 1..Len(wars) + 1
      /\ \A m \in WarIds : wars'[m] = wars[m]
    BY WarsAppend
<1>2. UNCHANGED <<warrior, gameLogs>>  BY DEF DeclareWar
<1>3. UNCHANGED LogsOf(n)  BY <1>2 DEF LogsOf
<1>4. CASE n \in WarIds
    <2> DEFINE p == wars[n].attacker
    <2>1. p \in Player  BY <1>4, StageIs
    <2>2. wars'[n] = wars[n] /\ n \in WarIds'  BY <1>1, <1>4
    <2>3. warq'[p] = warq[p] \/ warq'[p] = Append(warq[p], new)
        BY <2>1 DEF DeclareWar, Deliver
    <2>4. warq[p] \in Seq(Nat) /\ new \in Nat /\ n # new
        <3> HIDE DEF p
        <3>1. warq[p] \in Seq(WarIds)  BY <2>1 DEF TypeOK
        <3>2. WarIds \subseteq Nat /\ new \in Nat /\ n # new  BY <1>1, <1>4
        <3>3. warq[p] \in Seq(Nat)
            <4> HIDE DEF new
            <4> QED  BY <1>1, <3>1
        <3> QED  BY <3>2, <3>3
    <2> HIDE DEF new, p
    <2>5. Contains(warq'[p], n) <=> Contains(warq[p], n)
        <3>1. Contains(Append(warq[p], new), n) => Contains(warq[p], n)
            BY <2>4, ElementsChange
        <3>2. Contains(warq[p], n) => Contains(Append(warq[p], new), n)
            <4>1. /\ Len(Append(warq[p], new)) = Len(warq[p]) + 1 /\ Len(warq[p]) \in Nat
                  /\ \A i \in 1..Len(warq[p]) : Append(warq[p], new)[i] = warq[p][i]
                BY <2>4
            <4>2. 1..Len(warq[p]) \subseteq 1..Len(Append(warq[p], new))  BY <4>1
            <4> QED  BY <4>1, <4>2, InQueue
        <3> QED  BY <2>3, <3>1, <3>2
    <2>6. UNCHANGED Stage(n)  BY <1>2, <1>4, <2>2, <2>5 DEF Stage, p
    <2> QED  BY <1>3, <2>6 DEF Fate!vars
<1>5. CASE n \notin WarIds
    <2>1. Stage(n) = "none"  BY <1>5 DEF Stage
    <2>2. n \in WarIds' => wars'[n].attacker \in Player
        <3>1. wars' \in Seq(Recognition) /\ WarIds' = 1..Len(wars')  BY DEF TypeOK, WarIds
        <3>2. n \in WarIds' => wars'[n] \in Recognition  BY <3>1
        <3> QED  BY <3>2 DEF Recognition
    <2>3. \A p \in Player : \A g \in warrior[p] : g.war # n  BY <1>5, IdsAreWars
    <2>4. Stage(n)' \in {"none", "pending", "over"}
        BY <1>2, <2>2, <2>3 DEF Stage
    <2> QED  BY <1>3, <2>1, <2>4 DEF Fate!Next, Fate!Declare, Fate!vars
<1> QED  BY <1>4, <1>5

(* A log ends the life of its war: the handler had the only token.           *)
LEMMA FatePublish ==
    ASSUME LogInv, LogInv', NEW a \in Player, NEW h \in warrior[a],
           PublishGameLog(a, h), NEW n
    PROVE  [Fate(n)!Next]_(Fate(n)!vars)
<1> USE DEF LogInv
<1>1. /\ UNCHANGED <<warq, wars>>
      /\ warrior' = [warrior EXCEPT ![a] = warrior[a] \ {h}]
      /\ gameLogs' = Append(gameLogs, [war |-> h.war, by |-> a, result |-> h.result])
    BY DEF PublishGameLog, queues
<1>2. PICK last : /\ last \notin DOMAIN gameLogs
                  /\ DOMAIN gameLogs' = DOMAIN gameLogs \cup {last}
                  /\ \A i \in DOMAIN gameLogs : gameLogs'[i] = gameLogs[i]
                  /\ gameLogs'[last].war = h.war
    <2>1. gameLogs \in Seq(Verdicts)  BY DEF TypeOK
    <2>2. /\ Len(gameLogs) + 1 \notin DOMAIN gameLogs
          /\ DOMAIN gameLogs' = DOMAIN gameLogs \cup {Len(gameLogs) + 1}
          /\ \A i \in DOMAIN gameLogs : gameLogs'[i] = gameLogs[i]
          /\ gameLogs'[Len(gameLogs) + 1].war = h.war
        BY <1>1, <2>1
    <2> QED  BY <2>2
<1>3. warrior \in [Player -> SUBSET Reports] /\ UNCHANGED WarIds  BY <1>1 DEF TypeOK, WarIds
<1>4. CASE n = h.war
    <2>1. n \in WarIds /\ a = wars[n].attacker  BY <1>4, IdsAreWars DEF ReportInv
    <2>2. Reporting(n) # {}  BY <1>4, <2>1 DEF Reporting
    <2>3. Waiting(n) = {} /\ Logged(n) = {}
        <3>1. OneToken(n)  BY <2>1 DEF TokenInv
        <3> QED  BY <2>2, <3>1, TokenOne DEF OneToken
    <2>4. Stage(n) = "fought" /\ LogsOf(n) = 0
        BY <2>1, <2>2, <2>3, StageIs, FS_EmptySet
    <2>5. Logged(n)' = {last}  BY <1>2, <1>4, <2>3 DEF Logged
    <2>6. OneToken(n)'  BY <1>3, <2>1 DEF TokenInv
    <2>7. Reporting(n)' = {}
        <3>1. Logged(n)' # {}  BY <2>5
        <3> QED  BY <2>6, <3>1, TokenOne DEF OneToken
    <2>8. Stage(n)' = "over" /\ LogsOf(n)' = 1
        <3>1. ~Contains(warq[a], n)  BY <2>1, <2>3, StageIs
        <3>2. \A g \in warrior'[a] : g.war # n  BY <1>1, <2>1, <2>7 DEF Reporting
        <3>3. Stage(n)' = "over"  BY <1>1, <1>3, <2>1, <3>1, <3>2 DEF Stage
        <3>4. LogsOf(n)' = Cardinality(Logged(n)')  BY DEF LogsOf, Logged
        <3> QED  BY <2>5, <3>3, <3>4, FS_Singleton
    <2> QED  BY <2>4, <2>8 DEF Fate!Next, Fate!Report
<1>5. CASE n # h.war
    <2>1. {i \in DOMAIN gameLogs' : gameLogs'[i].war = n}
            = {i \in DOMAIN gameLogs : gameLogs[i].war = n}
        BY <1>2, <1>5
    <2>2. UNCHANGED LogsOf(n)  BY <2>1 DEF LogsOf
    <2>3. ASSUME NEW p \in Player
          PROVE  (\E g \in warrior'[p] : g.war = n) <=> (\E g \in warrior[p] : g.war = n)
        BY <1>1, <1>3, <1>5
    <2>4. n \in WarIds => wars[n].attacker \in Player  BY StageIs
    <2>5. UNCHANGED Stage(n)  BY <1>1, <1>3, <2>3, <2>4 DEF Stage
    <2> QED  BY <2>2, <2>5 DEF Fate!vars
<1> QED  BY <1>4, <1>5

(* Every step is a step in the life of each war's report, or leaves it.      *)
LEMMA FateNext ==
    ASSUME LogInv, LogInv', [Next]_vars, NEW n
    PROVE  [Fate(n)!Next]_(Fate(n)!vars)
<1> USE DEF LogInv
<1>1. CASE UNCHANGED <<wars, gameLogs>>
    BY <1>1, FateQuiet
<1>2. ASSUME NEW p \in Player, MoveConsumer(p) PROVE [Fate(n)!Next]_(Fate(n)!vars)
    <2>1. CASE RejectOwnMove(p) \/ IgnoreMove(p) \/ NoticeMove(p)
        BY <1>1, <2>1 DEF RejectOwnMove, IgnoreMove, NoticeMove, TakeMove
    <2>2. ASSUME NEW h \in mover[p], Recognise(p, h) \/ FailToDeclareWar(p, h)
          PROVE  [Fate(n)!Next]_(Fate(n)!vars)
        BY <1>1, <2>2 DEF Recognise, FailToDeclareWar, ledger
    <2> QED  BY <1>2, <2>1, <2>2, FateDeclare DEF MoveConsumer
<1>3. ASSUME NEW p \in Player, WarConsumer(p) PROVE [Fate(n)!Next]_(Fate(n)!vars)
    <2>1. CASE \/ IgnoreWar(p) \/ RejectWar(p)
               \/ \E loc \in Location : FightWar(p, loc)
               \/ \E h \in warrior[p] : FailToPublishGameLog(p, h)
        BY <1>1, <2>1 DEF IgnoreWar, RejectWar, FightWar, TakeWar, FailToPublishGameLog, ledger
    <2> QED  BY <1>3, <2>1, FatePublish DEF WarConsumer
<1>4. ASSUME NEW p \in Player, NewCommand(p) \/ Command(p) \/ PauseConsumer(p)
      PROVE  UNCHANGED <<wars, gameLogs>>
    BY <1>4, PauseSteps
       DEF NewCommand, SpawnId, BeginMove, Command, AddUnit, GetUnit, UpdateUnit,
           SnapMove, PublishMove, FailToPublishMove, ledger
<1>5. ASSUME NEW p \in Player, Session(p) PROVE UNCHANGED <<wars, gameLogs>>
    BY <1>5 DEF Session, Join, Exit, Disconnect, Redial, Resubscribe, ledger
<1>6. ASSUME NEW pause \in BOOLEAN, ServerPause(pause) \/ FailToPublishPause
      PROVE  UNCHANGED <<wars, gameLogs>>
    BY <1>6, OrderSteps
<1>7. CASE UNCHANGED vars
    BY <1>1, <1>7 DEF vars, ledger
<1> QED  BY <1>1, <1>2, <1>3, <1>4, <1>5, <1>6, <1>7 DEF Next

(* No life has begun.                                                        *)
LEMMA FateInit == ASSUME Init, NEW n PROVE Fate(n)!Init
<1>1. n \notin WarIds /\ DOMAIN gameLogs = {}  BY DEF Init, WarIds
<1> QED  BY <1>1, FS_EmptySet DEF Stage, LogsOf, Fate!Init

(* The report of every war lives by the rules of WarReport, with any number  *)
(* of players, failures, lost connections and restarts (handlerWar).         *)
THEOREM WarImplementsReport ==
    ASSUME NEW n
    PROVE  Spec => Fate(n)!Spec
<1>1. Init => LogInv  BY LogInit
<1>2. LogInv /\ [Next]_vars => LogInv'  BY LogNext
<1>3. Init => Fate(n)!Init  BY FateInit
<1>4. LogInv /\ LogInv' /\ [Next]_vars => [Fate(n)!Next]_(Fate(n)!vars)
    BY FateNext
<1> QED  BY <1>1, <1>2, <1>3, <1>4, PTL DEF Spec, Fate!Spec

(* The same as the property that is checked, for all the wars there can be.  *)
THEOREM EachWarByRule == Spec => EachWarIsReportedByRule
<1>1. Init => LogInv  BY LogInit
<1>2. LogInv /\ [Next]_vars => LogInv'  BY LogNext
<1>3. Init => \A n \in WarNumbers : Fate(n)!Init  BY FateInit
<1>4. LogInv /\ LogInv' /\ [Next]_vars
        => [\A n \in WarNumbers : [Fate(n)!Next]_(Fate(n)!vars)]_vars
    BY FateNext
<1> QED  BY <1>1, <1>2, <1>3, <1>4, PTL DEF Spec, EachWarIsReportedByRule
-----------------------------------------------------------------------------
(* DeadLettersAreAccounted, moves first. A move command ends as at most one  *)
(* dead letter: while it runs, and while the copy its player sent itself is  *)
(* in the queue, it has none yet. Other players' moves are never rejected    *)
(* and only those are handled, so a requeue brings back no own move.         *)
Own == {x \in Player \X Moves : x[2].player = x[1]}

(* The players with a move command under way.                                *)
Announcing == {p \in Player : repl[p].pc \in {"get", "update", "snap", "publish"}}

ForeignInv == \A p \in Player : \A h \in mover[p] : h.move.player # p

OwnInv ==
    /\ IsFiniteSet(Copies(moveq, Own)) /\ IsFiniteSet(Announcing)
    /\ dlq.moves + Cardinality(Copies(moveq, Own)) + Cardinality(Announcing) <= used.moves

MoveLettersInv == TypeOK /\ ForeignInv /\ OwnInv

(* A player's own moves, among the messages of the queues.                   *)
LEMMA OwnIs ==
    ASSUME NEW p \in Player, NEW move \in Moves
    PROVE  <<p, move>> \in Own <=> move.player = p
BY DEF Own

(* The numbers of OwnInv are numbers.                                        *)
LEMMA OwnType ==
    ASSUME TypeOK, OwnInv
    PROVE  /\ Cardinality(Copies(moveq, Own)) \in Nat
           /\ Cardinality(Announcing) \in Nat
           /\ dlq.moves \in Nat /\ used.moves \in Nat
<1>1. Cardinality(Copies(moveq, Own)) \in Nat /\ Cardinality(Announcing) \in Nat
    BY FS_CardinalityType DEF OwnInv
<1>2. dlq.moves \in Nat /\ used.moves \in Nat  BY DEF TypeOK
<1> QED  BY <1>1, <1>2

(* What ends, or is only passed on, adds no letter.                          *)
LEMMA OwnFewer ==
    ASSUME TypeOK, OwnInv, Announcing' \subseteq Announcing,
           \A p \in Player : moveq'[p] = moveq[p] \/ moveq'[p] = <<>>,
           dlq'.moves = dlq.moves, used'.moves = used.moves
    PROVE  OwnInv'
<1>1. Own' = Own  BY DEF Own
<1>2. /\ IsFiniteSet(Copies(moveq', Own))
      /\ Cardinality(Copies(moveq', Own)) <= Cardinality(Copies(moveq, Own))
    BY CopiesEmpty DEF OwnInv
<1>3. IsFiniteSet(Announcing') /\ Cardinality(Announcing') <= Cardinality(Announcing)
    BY FS_Subset DEF OwnInv
<1>4. Cardinality(Announcing') \in Nat /\ Cardinality(Copies(moveq', Own)) \in Nat
    BY <1>2, <1>3, FS_CardinalityType
<1>5. dlq.moves + Cardinality(Copies(moveq', Own)) + Cardinality(Announcing') <= used.moves
    BY <1>2, <1>3, <1>4, OwnType DEF OwnInv
<1> QED  BY <1>1, <1>2, <1>3, <1>5 DEF OwnInv

(* A handler only ever has another player's move.                            *)
LEMMA ForeignNext == ASSUME TypeOK, ForeignInv, [Next]_vars PROVE ForeignInv'
<1> USE DEF ForeignInv
<1>1. ASSUME NEW a \in Player, Session(a) PROVE ForeignInv'
    <2>1. CASE Exit(a)  BY <2>1 DEF Exit, TypeOK
    <2>2. CASE Redial(a)
        <3>1. ASSUME NEW h \in mover'[a] PROVE \E g \in mover[a] : h.move = g.move
            <4>1. PICK g \in mover[a] : h = [g EXCEPT !.live = FALSE]
                BY <2>2 DEF Redial, TypeOK
            <4>2. g \in Handlers  BY DEF TypeOK
            <4> QED  BY <4>1, <4>2 DEF Handlers
        <3>2. \A p \in Player : p # a => mover'[p] = mover[p]  BY <2>2 DEF Redial, TypeOK
        <3> QED  BY <3>1, <3>2
    <2> QED  BY <1>1, <2>1, <2>2 DEF Session, Join, Disconnect, Resubscribe, client
<1>2. ASSUME NEW a \in Player, MoveConsumer(a) PROVE ForeignInv'
    <2>1. CASE RejectOwnMove(a) \/ IgnoreMove(a)  BY <2>1 DEF RejectOwnMove, IgnoreMove
    <2>2. CASE NoticeMove(a)
        <3> DEFINE g == [pc |-> "noticed", move |-> Head(moveq[a]), live |-> TRUE]
        <3>1. mover' = [mover EXCEPT ![a] = @ \cup {g}] /\ g.move.player # a
            BY <2>2 DEF NoticeMove
        <3> HIDE DEF g
        <3> QED  BY <3>1 DEF TypeOK
    <2>3. ASSUME NEW h \in mover[a], Recognise(a, h) PROVE ForeignInv'
        <3> DEFINE g == [pc |-> "declare", move |-> h.move, live |-> h.live,
                         war |-> [attacker |-> h.move.player, attackerUnits |-> h.move.units,
                                  defender |-> a, defenderUnits |-> army[a]]]
        <3>1. mover' = [mover EXCEPT ![a] = (mover[a] \ {h}) \cup {g}]
            BY <2>3 DEF Recognise
        <3>2. g.move = h.move  OBVIOUS
        <3> HIDE DEF g
        <3> QED  BY <3>1, <3>2 DEF TypeOK
    <2>4. ASSUME NEW h \in mover[a], DeclareWar(a, h) \/ FailToDeclareWar(a, h)
          PROVE  ForeignInv'
        <3>1. mover' = [mover EXCEPT ![a] = mover[a] \ {h}]
            BY <2>4 DEF DeclareWar, FailToDeclareWar
        <3> QED  BY <3>1 DEF TypeOK
    <2> QED  BY <1>2, <2>1, <2>2, <2>3, <2>4 DEF MoveConsumer
<1>3. ASSUME NEW a \in Player,
             NewCommand(a) \/ Command(a) \/ WarConsumer(a) \/ PauseConsumer(a)
      PROVE  UNCHANGED mover
    BY <1>3, PauseSteps
       DEF NewCommand, Command, SpawnId, BeginMove, AddUnit, GetUnit, UpdateUnit, SnapMove,
           PublishMove, FailToPublishMove, WarConsumer, IgnoreWar, RejectWar, FightWar,
           TakeWar, PublishGameLog, FailToPublishGameLog
<1>4. ASSUME NEW pause \in BOOLEAN, ServerPause(pause) \/ FailToPublishPause PROVE UNCHANGED mover
    BY <1>4, OrderSteps
<1>5. ASSUME UNCHANGED vars PROVE UNCHANGED mover
    BY <1>5 DEF vars, client
<1> QED  BY <1>1, <1>2, <1>3, <1>4, <1>5 DEF Next

(* The REPL: a command begins and is counted as used; it ends with nothing,  *)
(* or with the copy the player sends itself.                                 *)
LEMMA OwnCommand ==
    ASSUME MoveLettersInv, NEW a \in Player, NewCommand(a) \/ Command(a)
    PROVE  OwnInv'
<1> USE DEF MoveLettersInv
<1>0. repl \in [Player -> Commands] /\ used' \in [spawns : Nat, moves : Nat, pauses : Nat,
                                                  losses : Nat, failures : Nat]
    BY TypeNext DEF TypeOK, Next
<1>1. ASSUME NEW to \in Location, NEW ids \in Batches, BeginMove(a, to, ids) PROVE OwnInv'
    <2>1. /\ repl[a].pc = "idle"
          /\ repl' = [repl EXCEPT ![a] = [pc |-> "get", to |-> to, todo |-> ids]]
          /\ UNCHANGED <<moveq, dlq>>
          /\ used' = [used EXCEPT !.moves = @ + 1]
        BY <1>1 DEF BeginMove, queues, ledger, Spend
    <2>2. used'.moves = used.moves + 1  BY <2>1 DEF TypeOK
    <2>3. Announcing' = Announcing \cup {a} /\ a \notin Announcing
        BY <1>0, <2>1 DEF Announcing
    <2>4. /\ IsFiniteSet(Announcing')
          /\ Cardinality(Announcing') = Cardinality(Announcing) + 1
        BY <2>3, FS_AddElement DEF OwnInv
    <2>5. Own' = Own  BY DEF Own
    <2>6. dlq.moves + Cardinality(Copies(moveq, Own)) + Cardinality(Announcing')
            <= used'.moves
        BY <2>2, <2>4, OwnType DEF OwnInv
    <2> QED  BY <2>1, <2>4, <2>5, <2>6 DEF OwnInv
<1>2. CASE PublishMove(a)
    <2> DEFINE move == [player |-> a, units |-> repl[a].units]
    <2>1. /\ repl[a].pc = "publish" /\ repl' = [repl EXCEPT ![a] = Idle]
          /\ moveq' = Deliver(moveq, "moves", move)
          /\ UNCHANGED <<dlq, used>>
        BY <1>2 DEF PublishMove, ledger
    <2>2. move \in Moves  BY <2>1, ReplType DEF Moves
    <2>3. \A p \in Player : <<p, move>> \in Own => p \in {a}  BY <2>2, OwnIs
    <2>4. Own' = Own  BY DEF Own
    <2>5. /\ IsFiniteSet(Copies(moveq', Own))
          /\ Cardinality(Copies(moveq', Own)) <= Cardinality(Copies(moveq, Own)) + 1
        <3> HIDE DEF move
        <3>1. moveq \in [Player -> Seq(Moves)]  BY DEF TypeOK
        <3>2. \A p \in Player : moveq'[p] = moveq[p] \/ moveq'[p] = Append(moveq[p], move)
            BY <2>1 DEF Deliver
        <3>3. IsFiniteSet({a}) /\ Cardinality({a}) = 1  BY FS_Singleton
        <3>4. IsFiniteSet(Copies(moveq, Own))  BY DEF OwnInv
        <3>5. /\ IsFiniteSet(Copies(moveq', Own))
              /\ Cardinality(Copies(moveq', Own))
                    <= Cardinality(Copies(moveq, Own)) + Cardinality({a})
            BY <2>2, <2>3, <3>1, <3>2, <3>3, <3>4, CopiesDeliver
        <3> QED  BY <3>3, <3>5
    <2>6. Announcing' = Announcing \ {a} /\ a \in Announcing
        BY <1>0, <2>1 DEF Announcing, Idle
    <2>7. /\ IsFiniteSet(Announcing')
          /\ Cardinality(Announcing') = Cardinality(Announcing) - 1
        BY <2>6, FS_RemoveElement DEF OwnInv
    <2>8. Cardinality(Copies(moveq', Own)) \in Nat  BY <2>5, FS_CardinalityType
    <2>9. dlq.moves + Cardinality(Copies(moveq', Own)) + Cardinality(Announcing')
            <= used.moves
        BY <2>5, <2>7, <2>8, OwnType DEF OwnInv
    <2> QED  BY <2>1, <2>4, <2>5, <2>7, <2>9 DEF OwnInv
<1>3. ASSUME NEW unit \in Unit, SpawnId(a, unit) PROVE OwnInv'
    <2>1. Announcing' \subseteq Announcing  BY <1>0, <1>3 DEF SpawnId, Announcing
    <2>2. /\ UNCHANGED <<moveq, dlq>>
          /\ used' = [used EXCEPT !.spawns = @ + 1]
        BY <1>3 DEF SpawnId, queues, ledger, Spend
    <2>3. used'.moves = used.moves  BY <2>2 DEF TypeOK
    <2> QED  BY <2>1, <2>2, <2>3, OwnFewer
<1>4. ASSUME AddUnit(a) \/ GetUnit(a) \/ UpdateUnit(a) \/ SnapMove(a) PROVE OwnInv'
    <2>1. UNCHANGED <<moveq, dlq, used>>
        BY <1>4 DEF AddUnit, GetUnit, UpdateUnit, SnapMove, queues, ledger
    <2>2. Announcing' \subseteq Announcing
        BY <1>0, <1>4 DEF AddUnit, GetUnit, UpdateUnit, SnapMove, Announcing, Idle
    <2> QED  BY <2>1, <2>2, OwnFewer
<1>5. CASE FailToPublishMove(a)
    <2>1. /\ UNCHANGED <<moveq, dlq>>
          /\ used' = used \/ used' = [used EXCEPT !.failures = @ + 1]
        BY <1>5 DEF FailToPublishMove, queues, ledger, Spend
    <2>2. used'.moves = used.moves  BY <2>1 DEF TypeOK
    <2>3. Announcing' \subseteq Announcing
        BY <1>0, <1>5 DEF FailToPublishMove, Announcing, Idle
    <2> QED  BY <2>1, <2>2, <2>3, OwnFewer
<1> QED  BY <1>1, <1>2, <1>3, <1>4, <1>5 DEF NewCommand, Command

(* The consumer of moves: an own copy becomes a dead letter, once.           *)
LEMMA OwnConsumer ==
    ASSUME MoveLettersInv, NEW a \in Player, MoveConsumer(a)
    PROVE  OwnInv'
<1> USE DEF MoveLettersInv
<1>0. Own' = Own  BY DEF Own
<1>1. ASSUME RejectOwnMove(a) \/ IgnoreMove(a) \/ NoticeMove(a) PROVE OwnInv'
    <2> DEFINE mine == <<a, Head(moveq[a])>> \in Own
    <2>1. TakeMove(a)  BY <1>1 DEF RejectOwnMove, IgnoreMove, NoticeMove
    <2>2. /\ moveq[a] # <<>> /\ moveq' = [moveq EXCEPT ![a] = Tail(moveq[a])]
          /\ UNCHANGED <<repl, used>>
        BY <2>1 DEF TakeMove
    <2>3. moveq \in [Player -> Seq(Moves)]  BY DEF TypeOK
    <2>4. Head(moveq[a]) \in Moves
        <3>1. moveq[a] \in Seq(Moves)  BY <2>3
        <3> QED  BY <2>2, <3>1
    <2>5. mine <=> Head(moveq[a]).player = a  BY <2>4, OwnIs
    <2>6. /\ IsFiniteSet(Copies(moveq', Own))
          /\ Cardinality(Copies(moveq', Own))
                <= Cardinality(Copies(moveq, Own)) - (IF mine THEN 1 ELSE 0)
        BY <2>2, <2>3, CopiesTail DEF OwnInv
    <2> HIDE DEF mine
    <2>7. dlq'.moves <= dlq.moves + (IF mine THEN 1 ELSE 0) /\ dlq'.moves \in Nat
        <3>1. CASE RejectOwnMove(a)
            <4>1. mine /\ (dlq' = dlq \/ dlq' = [dlq EXCEPT !.moves = @ + 1])
                BY <2>5, <3>1 DEF RejectOwnMove, DeadLetter
            <4>2. dlq'.moves \in {dlq.moves, dlq.moves + 1}  BY <4>1 DEF TypeOK
            <4> QED  BY <4>1, <4>2, OwnType
        <3>2. CASE IgnoreMove(a) \/ NoticeMove(a)
            <4>1. UNCHANGED dlq  BY <3>2 DEF IgnoreMove, NoticeMove
            <4> QED  BY <4>1, OwnType
        <3> QED  BY <1>1, <3>1, <3>2
    <2>8. Announcing' = Announcing  BY <2>2 DEF Announcing
    <2>9. Cardinality(Copies(moveq', Own)) \in Nat  BY <2>6, FS_CardinalityType
    <2>10. dlq'.moves + Cardinality(Copies(moveq', Own)) + Cardinality(Announcing)
             <= used.moves
        BY <2>6, <2>7, <2>9, OwnType DEF OwnInv
    <2> QED  BY <1>0, <2>2, <2>6, <2>8, <2>10 DEF OwnInv
<1>2. ASSUME NEW h \in mover[a], FailToDeclareWar(a, h) PROVE OwnInv'
    <2>1. /\ UNCHANGED <<repl, dlq>>
          /\ used' = used \/ used' = [used EXCEPT !.failures = @ + 1]
          /\ \/ moveq' = moveq
             \/ \E k \in 1..Len(moveq[a]) + 1 :
                    moveq' = [moveq EXCEPT ![a] = InsertAt(moveq[a], k, h.move)]
        BY <1>2 DEF FailToDeclareWar, Requeue, ledger, Spend
    <2>2. used'.moves = used.moves  BY <2>1 DEF TypeOK
    <2>3. h.move \in Moves  BY MoverType
    <2>4. <<a, h.move>> \notin Own  BY <2>3, OwnIs DEF ForeignInv
    <2>5. /\ IsFiniteSet(Copies(moveq', Own))
          /\ Cardinality(Copies(moveq', Own)) <= Cardinality(Copies(moveq, Own)) + 0
        <3>1. moveq \in [Player -> Seq(Moves)]  BY DEF TypeOK
        <3>2. /\ IsFiniteSet(Copies(moveq', Own))
              /\ Cardinality(Copies(moveq', Own)) <= Cardinality(Copies(moveq, Own))
                    + (IF <<a, h.move>> \in Own THEN 1 ELSE 0)
            BY <2>1, <2>3, <3>1, CopiesInsert DEF OwnInv
        <3> QED  BY <2>4, <3>2
    <2>6. Announcing' = Announcing  BY <2>1 DEF Announcing
    <2>7. Cardinality(Copies(moveq', Own)) \in Nat  BY <2>5, FS_CardinalityType
    <2>8. dlq.moves + Cardinality(Copies(moveq', Own)) + Cardinality(Announcing)
            <= used'.moves
        BY <2>2, <2>5, <2>7, OwnType DEF OwnInv
    <2> QED  BY <1>0, <2>1, <2>5, <2>6, <2>8 DEF OwnInv
<1>3. ASSUME NEW h \in mover[a], Recognise(a, h) \/ DeclareWar(a, h) PROVE OwnInv'
    <2>1. UNCHANGED <<repl, moveq, dlq, used>>
        BY <1>3 DEF Recognise, DeclareWar, queues, ledger
    <2> QED  BY <2>1, OwnFewer DEF Announcing
<1> QED  BY <1>1, <1>2, <1>3 DEF MoveConsumer

(* Every step keeps the count of own moves.                                  *)
LEMMA OwnNext == ASSUME MoveLettersInv, [Next]_vars PROVE MoveLettersInv'
<1> USE DEF MoveLettersInv
<1>1. ASSUME NEW a \in Player, Session(a) PROVE OwnInv'
    <2>1. UNCHANGED dlq /\ (used' = used \/ used' = [used EXCEPT !.losses = @ + 1])
        BY <1>1 DEF Session, Join, Exit, Disconnect, Redial, Resubscribe, ledger, Spend
    <2>2. used'.moves = used.moves  BY <2>1 DEF TypeOK
    <2>3. \A p \in Player : moveq'[p] = moveq[p] \/ moveq'[p] = <<>>
        BY <1>1 DEF Session, Join, Exit, Disconnect, Redial, Resubscribe, queues, TypeOK
    <2>4. repl' = repl \/ repl' = [repl EXCEPT ![a] = Idle]
        BY <1>1 DEF Session, Join, Exit, Disconnect, Redial, Resubscribe, client
    <2>5. Announcing' \subseteq Announcing
        <3>1. repl \in [Player -> Commands]  BY DEF TypeOK
        <3> QED  BY <2>4, <3>1 DEF Announcing, Idle
    <2> QED  BY <2>1, <2>2, <2>3, <2>5, OwnFewer
<1>2. ASSUME NEW a \in Player, WarConsumer(a) \/ PauseConsumer(a) PROVE OwnInv'
    <2>1. UNCHANGED <<repl, moveq>>
        BY <1>2, PauseSteps
           DEF WarConsumer, IgnoreWar, RejectWar, FightWar, TakeWar, PublishGameLog,
               FailToPublishGameLog, queues
    <2>2. dlq' = dlq \/ dlq' = [dlq EXCEPT !.wars = @ + 1]
        BY <1>2, PauseSteps
           DEF WarConsumer, IgnoreWar, RejectWar, DeadLetter, FightWar, PublishGameLog,
               FailToPublishGameLog, ledger
    <2>3. used' = used \/ used' = [used EXCEPT !.failures = @ + 1]
        BY <1>2, PauseSteps
           DEF WarConsumer, IgnoreWar, RejectWar, FightWar, TakeWar, PublishGameLog,
               FailToPublishGameLog, Spend
    <2>4. dlq'.moves = dlq.moves /\ used'.moves = used.moves  BY <2>2, <2>3 DEF TypeOK
    <2> QED  BY <2>1, <2>4, OwnFewer DEF Announcing
<1>3. ASSUME NEW pause \in BOOLEAN, ServerPause(pause) \/ FailToPublishPause PROVE OwnInv'
    <2>1. /\ UNCHANGED <<repl, moveq, dlq>>
          /\ \/ used' = [used EXCEPT !.pauses = @ + 1]
             \/ used' = [used EXCEPT !.failures = @ + 1]
        BY <1>3, OrderSteps DEF ServerPause, FailToPublishPause, Spend
    <2>2. used'.moves = used.moves  BY <2>1 DEF TypeOK
    <2> QED  BY <2>1, <2>2, OwnFewer DEF Announcing
<1>4. ASSUME UNCHANGED vars PROVE OwnInv'
    BY <1>4, OwnFewer DEF vars, client, queues, ledger, Announcing
<1>5. OwnInv'  BY <1>1, <1>2, <1>3, <1>4, OwnCommand, OwnConsumer DEF Next
<1> QED  BY <1>5, TypeNext, ForeignNext
-----------------------------------------------------------------------------
(* Wars: only a war whose overlap was gone is rejected, by each party, once; *)
(* those that are requeued were fought, so they are not among these.         *)
Hopeless == {n \in WarIds : Contested(wars[n]) = {}}

Letters == {x \in Player \X WarIds : /\ Contested(wars[x[2]]) = {}
                                     /\ x[1] \in Parties(wars[x[2]])}

HopelessInv ==
    /\ IsFiniteSet(Copies(warq, Letters))
    /\ dlq.wars + Cardinality(Copies(warq, Letters)) <= 2 * Cardinality(Hopeless)

WarLettersInv == LogInv /\ HopelessInv

(* A party's copies of the hopeless wars, among the messages of the queues.  *)
LEMMA LetterIs ==
    ASSUME NEW p \in Player, NEW n \in WarIds
    PROVE  <<p, n>> \in Letters <=> Contested(wars[n]) = {} /\ p \in Parties(wars[n])
BY DEF Letters

(* The numbers of HopelessInv are numbers.                                   *)
LEMMA LettersType ==
    ASSUME TypeOK, HopelessInv
    PROVE  /\ Cardinality(Copies(warq, Letters)) \in Nat
           /\ IsFiniteSet(Hopeless) /\ Cardinality(Hopeless) \in Nat
           /\ dlq.wars \in Nat
<1>1. Cardinality(Copies(warq, Letters)) \in Nat  BY FS_CardinalityType DEF HopelessInv
<1>2. IsFiniteSet(WarIds)
    <2>1. Len(wars) \in Nat  BY DEF TypeOK
    <2> QED  BY <2>1, FS_Interval DEF WarIds
<1>3. IsFiniteSet(Hopeless)  BY <1>2, FS_Subset DEF Hopeless
<1>4. Cardinality(Hopeless) \in Nat  BY <1>3, FS_CardinalityType
<1>5. dlq.wars \in Nat  BY DEF TypeOK
<1> QED  BY <1>1, <1>3, <1>4, <1>5

(* Queues that are emptied or left alone add no letter.                      *)
LEMMA LettersFewer ==
    ASSUME TypeOK, HopelessInv, UNCHANGED wars, dlq'.wars = dlq.wars,
           \A p \in Player : warq'[p] = warq[p] \/ warq'[p] = <<>>
    PROVE  HopelessInv'
<1>1. Letters' = Letters /\ Hopeless' = Hopeless  BY DEF Letters, Hopeless, WarIds
<1>2. /\ IsFiniteSet(Copies(warq', Letters))
      /\ Cardinality(Copies(warq', Letters)) <= Cardinality(Copies(warq, Letters))
    BY CopiesEmpty DEF HopelessInv
<1>3. Cardinality(Copies(warq', Letters)) \in Nat  BY <1>2, FS_CardinalityType
<1>4. dlq.wars + Cardinality(Copies(warq', Letters)) <= 2 * Cardinality(Hopeless)
    BY <1>2, <1>3, LettersType DEF HopelessInv
<1> QED  BY <1>1, <1>2, <1>4 DEF HopelessInv

(* A hopeless war comes with at most two letters.                            *)
LEMMA LettersDeclare ==
    ASSUME WarLettersInv, NEW a \in Player, NEW h \in mover[a], DeclareWar(a, h)
    PROVE  HopelessInv'
<1> USE DEF WarLettersInv, LogInv
<1> DEFINE new == Len(wars) + 1
           hopeless == Contested(h.war) = {}
           X == IF hopeless THEN Parties(h.war) ELSE {}
<1>1. /\ h.war \in Recognition
      /\ Len(wars) \in Nat /\ WarIds = 1..Len(wars)
      /\ WarIds' = 1..Len(wars) + 1
      /\ \A n \in WarIds : wars'[n] = wars[n]
      /\ wars'[new] = h.war
    BY WarsAppend
<1>2. new \in WarIds' /\ new \notin WarIds /\ WarIds \subseteq WarIds'
      /\ \A n \in WarIds' : n \in WarIds \/ n = new
    BY <1>1
<1>3. UNCHANGED dlq  BY DEF DeclareWar
<1>4. /\ warq \in [Player -> Seq(WarIds')]
      /\ \A p \in Player : warq'[p] = warq[p] \/ warq'[p] = Append(warq[p], new)
    <2>1. \A p \in Player : warq[p] \in Seq(WarIds')  BY <1>2 DEF TypeOK
    <2> QED  BY <1>1, <2>1 DEF DeclareWar, Deliver, TypeOK
<1> HIDE DEF new
<1>5. /\ \A p \in Player, n \in WarIds : <<p, n>> \in Letters' <=> <<p, n>> \in Letters
      /\ \A p \in Player : <<p, new>> \in Letters' <=> hopeless /\ p \in Parties(h.war)
    BY <1>1, <1>2 DEF Letters
<1>6. Copies(warq, Letters') = Copies(warq, Letters)
    <2>1. ASSUME NEW p \in Player, NEW i \in DOMAIN warq[p]
          PROVE  <<p, warq[p][i]>> \in Letters' <=> <<p, warq[p][i]>> \in Letters
        BY <1>5, IdsAreWars
    <2>2. ASSUME NEW x \in Player \X Nat, x[2] \in DOMAIN warq[x[1]]
          PROVE  <<x[1], warq[x[1]][x[2]]>> \in Letters'
                    <=> <<x[1], warq[x[1]][x[2]]>> \in Letters
        <3>1. x[1] \in Player  OBVIOUS
        <3> QED  BY <2>1, <2>2, <3>1
    <2> HIDE DEF Letters
    <2> QED  BY <2>2, Zenon DEF Copies
<1>7. IsFiniteSet(X) /\ Cardinality(X) <= IF hopeless THEN 2 ELSE 0
    <2>1. CASE hopeless
        <3>1. IsFiniteSet({h.war.attacker}) /\ Cardinality({h.war.attacker}) = 1
            BY FS_Singleton
        <3> DEFINE both == {h.war.attacker} \cup {h.war.defender}
        <3>2. IsFiniteSet(both) /\ Cardinality(both) <= 2
            <4>1. /\ IsFiniteSet(both)
                  /\ Cardinality(both) = IF h.war.defender \in {h.war.attacker}
                                         THEN Cardinality({h.war.attacker})
                                         ELSE Cardinality({h.war.attacker}) + 1
                BY <3>1, FS_AddElement
            <4> QED  BY <3>1, <4>1
        <3>3. X = both  BY <2>1 DEF Parties
        <3> QED  BY <2>1, <3>2, <3>3
    <2>2. CASE ~hopeless  BY <2>2, FS_EmptySet
    <2> QED  BY <2>1, <2>2
<1>8. \A p \in Player : <<p, new>> \in Letters' => p \in X  BY <1>5
<1> HIDE DEF X
<1>9. /\ IsFiniteSet(Copies(warq', Letters'))
      /\ Cardinality(Copies(warq', Letters'))
            <= Cardinality(Copies(warq, Letters)) + Cardinality(X)
    <2>1. IsFiniteSet(Copies(warq, Letters'))  BY <1>6 DEF HopelessInv
    <2>2. /\ IsFiniteSet(Copies(warq', Letters'))
          /\ Cardinality(Copies(warq', Letters'))
                <= Cardinality(Copies(warq, Letters')) + Cardinality(X)
        <3> HIDE DEF Letters, WarIds
        <3> QED  BY <1>2, <1>4, <1>7, <1>8, <2>1, CopiesDeliver
    <2> QED  BY <1>6, <2>2
<1>10. Hopeless' = IF hopeless THEN Hopeless \cup {new} ELSE Hopeless
    BY <1>1, <1>2 DEF Hopeless
<1>11. new \notin Hopeless  BY <1>2 DEF Hopeless
<1>12. Cardinality(Hopeless') = Cardinality(Hopeless) + (IF hopeless THEN 1 ELSE 0)
    <2>1. CASE hopeless  BY <1>10, <1>11, <2>1, LettersType, FS_AddElement
    <2>2. CASE ~hopeless  BY <1>10, <2>2, LettersType
    <2> QED  BY <2>1, <2>2
<1>13. Cardinality(Copies(warq', Letters')) \in Nat /\ Cardinality(X) \in Nat
    BY <1>7, <1>9, FS_CardinalityType
<1> HIDE DEF hopeless
<1>14. dlq.wars + Cardinality(Copies(warq', Letters')) <= 2 * Cardinality(Hopeless')
    BY <1>7, <1>9, <1>12, <1>13, LettersType DEF HopelessInv
<1> QED  BY <1>3, <1>9, <1>14 DEF HopelessInv

(* A party rejects a hopeless war and its copy is gone.                      *)
LEMMA LettersTake ==
    ASSUME WarLettersInv, NEW a \in Player,
           \/ IgnoreWar(a)
           \/ RejectWar(a)
           \/ \E loc \in Location : FightWar(a, loc)
    PROVE  HopelessInv'
<1> USE DEF WarLettersInv, LogInv
<1> DEFINE n == Head(warq[a])
           mine == <<a, n>> \in Letters
<1>1. TakeWar(a)  BY DEF IgnoreWar, RejectWar, FightWar
<1>2. /\ UNCHANGED wars
      /\ warq[a] # <<>> /\ warq' = [warq EXCEPT ![a] = Tail(warq[a])]
    BY <1>1 DEF TakeWar
<1>3. warq \in [Player -> Seq(WarIds)]  BY DEF TypeOK
<1>4. n \in WarIds
    <2>1. warq[a] \in Seq(WarIds)  BY <1>3
    <2> QED  BY <1>2, <2>1
<1>5. mine <=> Contested(wars[n]) = {} /\ a \in Parties(wars[n])  BY <1>4, LetterIs
<1>6. /\ IsFiniteSet(Copies(warq', Letters))
      /\ Cardinality(Copies(warq', Letters))
            <= Cardinality(Copies(warq, Letters)) - (IF mine THEN 1 ELSE 0)
    BY <1>2, <1>3, CopiesTail DEF HopelessInv
<1> HIDE DEF mine
<1>7. dlq'.wars <= dlq.wars + (IF mine THEN 1 ELSE 0) /\ dlq'.wars \in Nat
    <2>1. CASE RejectWar(a)
        <3>1. mine /\ (dlq' = dlq \/ dlq' = [dlq EXCEPT !.wars = @ + 1])
            BY <1>5, <2>1 DEF RejectWar, DeadLetter
        <3>2. dlq'.wars \in {dlq.wars, dlq.wars + 1}  BY <3>1 DEF TypeOK
        <3> QED  BY <3>1, <3>2, LettersType
    <2>2. ASSUME IgnoreWar(a) \/ \E loc \in Location : FightWar(a, loc)
          PROVE  dlq'.wars <= dlq.wars + (IF mine THEN 1 ELSE 0) /\ dlq'.wars \in Nat
        <3>1. UNCHANGED dlq  BY <2>2 DEF IgnoreWar, FightWar
        <3> QED  BY <3>1, LettersType
    <2> QED  BY <2>1, <2>2
<1>8. Letters' = Letters /\ Hopeless' = Hopeless  BY <1>2 DEF Letters, Hopeless, WarIds
<1>9. Cardinality(Copies(warq', Letters)) \in Nat  BY <1>6, FS_CardinalityType
<1>10. dlq'.wars + Cardinality(Copies(warq', Letters)) <= 2 * Cardinality(Hopeless)
    BY <1>6, <1>7, <1>9, LettersType DEF HopelessInv
<1> QED  BY <1>6, <1>8, <1>10 DEF HopelessInv

(* What a failed report gives back is no hopeless war.                       *)
LEMMA LettersReport ==
    ASSUME WarLettersInv, NEW a \in Player, NEW h \in warrior[a],
           PublishGameLog(a, h) \/ FailToPublishGameLog(a, h)
    PROVE  HopelessInv'
<1> USE DEF WarLettersInv, LogInv
<1>1. CASE PublishGameLog(a, h)
    BY <1>1, LettersFewer DEF PublishGameLog, queues
<1>2. CASE FailToPublishGameLog(a, h)
    <2>1. /\ UNCHANGED <<wars, dlq>>
          /\ \/ warq' = warq
             \/ \E k \in 1..Len(warq[a]) + 1 :
                    warq' = [warq EXCEPT ![a] = InsertAt(warq[a], k, h.war)]
        BY <1>2 DEF FailToPublishGameLog, Requeue, ledger
    <2>2. warq \in [Player -> Seq(WarIds)] /\ h.war \in WarIds
        BY IdsAreWars DEF TypeOK
    <2>3. <<a, h.war>> \notin Letters  BY <2>2, LetterIs DEF ReportInv
    <2>4. /\ IsFiniteSet(Copies(warq', Letters))
          /\ Cardinality(Copies(warq', Letters)) <= Cardinality(Copies(warq, Letters)) + 0
        <3>1. /\ IsFiniteSet(Copies(warq', Letters))
              /\ Cardinality(Copies(warq', Letters)) <= Cardinality(Copies(warq, Letters))
                    + (IF <<a, h.war>> \in Letters THEN 1 ELSE 0)
            BY <2>1, <2>2, CopiesInsert DEF HopelessInv
        <3> QED  BY <2>3, <3>1
    <2>5. Letters' = Letters /\ Hopeless' = Hopeless
        BY <2>1 DEF Letters, Hopeless, WarIds
    <2>6. Cardinality(Copies(warq', Letters)) \in Nat  BY <2>4, FS_CardinalityType
    <2>7. dlq.wars + Cardinality(Copies(warq', Letters)) <= 2 * Cardinality(Hopeless)
        BY <2>4, <2>6, LettersType DEF HopelessInv
    <2> QED  BY <2>1, <2>4, <2>5, <2>7 DEF HopelessInv
<1> QED  BY <1>1, <1>2

(* Every step keeps the count of rejected wars.                              *)
LEMMA LettersNext == ASSUME WarLettersInv, [Next]_vars PROVE WarLettersInv'
<1> USE DEF WarLettersInv
<1>1. ASSUME NEW a \in Player, Session(a) PROVE HopelessInv'
    <2>1. UNCHANGED <<wars, dlq>>
        BY <1>1 DEF Session, Join, Exit, Disconnect, Redial, Resubscribe, ledger
    <2>2. \A p \in Player : warq'[p] = warq[p] \/ warq'[p] = <<>>
        BY <1>1 DEF Session, Join, Exit, Disconnect, Redial, Resubscribe, queues, LogInv,
                    TypeOK
    <2> QED  BY <2>1, <2>2, LettersFewer DEF LogInv
<1>2. ASSUME NEW a \in Player, NewCommand(a) \/ Command(a) \/ PauseConsumer(a)
      PROVE  HopelessInv'
    <2>1. UNCHANGED <<warq, wars, dlq>>
        BY <1>2, PauseSteps
           DEF NewCommand, SpawnId, BeginMove, Command, AddUnit, GetUnit, UpdateUnit,
               SnapMove, PublishMove, FailToPublishMove, queues, ledger
    <2> QED  BY <2>1, LettersFewer DEF LogInv
<1>3. ASSUME NEW a \in Player, MoveConsumer(a) PROVE HopelessInv'
    <2>1. CASE RejectOwnMove(a) \/ IgnoreMove(a) \/ NoticeMove(a)
        <3>1. UNCHANGED <<warq, wars>> /\ (dlq' = dlq \/ dlq' = [dlq EXCEPT !.moves = @ + 1])
            BY <2>1 DEF RejectOwnMove, IgnoreMove, NoticeMove, DeadLetter, TakeMove
        <3>2. dlq'.wars = dlq.wars  BY <3>1 DEF LogInv, TypeOK
        <3> QED  BY <3>1, <3>2, LettersFewer DEF LogInv
    <2>2. ASSUME NEW h \in mover[a], Recognise(a, h) \/ FailToDeclareWar(a, h)
          PROVE  HopelessInv'
        BY <2>2, LettersFewer DEF Recognise, FailToDeclareWar, queues, ledger, LogInv
    <2> QED  BY <1>3, <2>1, <2>2, LettersDeclare DEF MoveConsumer
<1>4. ASSUME NEW a \in Player, WarConsumer(a) PROVE HopelessInv'
    BY <1>4, LettersTake, LettersReport DEF WarConsumer
<1>5. ASSUME NEW pause \in BOOLEAN, ServerPause(pause) \/ FailToPublishPause PROVE HopelessInv'
    BY <1>5, LettersFewer, OrderSteps DEF LogInv
<1>6. ASSUME UNCHANGED vars PROVE HopelessInv'
    BY <1>6, LettersFewer DEF vars, client, queues, ledger, LogInv
<1>7. HopelessInv'  BY <1>1, <1>2, <1>3, <1>4, <1>5, <1>6 DEF Next
<1> QED  BY <1>7, LogNext

(* With empty queues there are no copies of anything.                        *)
LEMMA CopiesNone ==
    ASSUME NEW queue, NEW those, \A p \in Player : queue[p] = <<>>
    PROVE  Copies(queue, those) = {}
<1>1. \A i : i \notin DOMAIN <<>>  OBVIOUS
<1>2. ASSUME NEW x \in Copies(queue, those) PROVE FALSE
    <2>1. x[1] \in Player /\ x[2] \in DOMAIN queue[x[1]]  BY CopyIs
    <2>2. queue[x[1]] = <<>>  BY <2>1
    <2> QED  BY <1>1, <2>1, <2>2
<1> QED  BY <1>2

(* Both counts begin at nothing.                                             *)
LEMMA LettersInit == ASSUME Init PROVE MoveLettersInv /\ WarLettersInv
<1>1. TypeOK /\ LogInv  BY TypeInit, LogInit
<1>2. Copies(moveq, Own) = {} /\ Copies(warq, Letters) = {}
    BY CopiesNone DEF Init
<1>3. Announcing = {}  BY DEF Init, Announcing, Idle
<1>4. IsFiniteSet({}) /\ Cardinality({}) = 0  BY FS_EmptySet
<1>5. dlq.moves = 0 /\ used.moves = 0 /\ dlq.wars = 0  BY DEF Init
<1>6. Hopeless = {}  BY DEF Init, Hopeless, WarIds
<1>7. ForeignInv  BY DEF Init, ForeignInv
<1>8. OwnInv  BY <1>2, <1>3, <1>4, <1>5 DEF OwnInv
<1>9. HopelessInv  BY <1>2, <1>4, <1>5, <1>6 DEF HopelessInv
<1> QED  BY <1>1, <1>7, <1>8, <1>9 DEF MoveLettersInv, WarLettersInv

(* What the counts say of the dead letters alone.                            *)
LEMMA LettersAccounted ==
    ASSUME MoveLettersInv, WarLettersInv PROVE DeadLettersAreAccounted
<1> USE DEF MoveLettersInv, WarLettersInv, LogInv
<1>1. dlq.moves <= used.moves  BY OwnType DEF OwnInv
<1>2. dlq.wars <= 2 * Cardinality(Hopeless)  BY LettersType DEF HopelessInv
<1>3. Hopeless = {n \in DOMAIN wars : Contested(wars[n]) = {}}
    BY DEF Hopeless, WarIds, TypeOK
<1> QED  BY <1>1, <1>2, <1>3 DEF DeadLettersAreAccounted

(* No message is dead-lettered twice: every dead letter is the sender's own  *)
(* copy of a move, or one party's copy of a war that had no place left.      *)
THEOREM DeadLettersAccounted == Spec => []DeadLettersAreAccounted
<1>1. MoveLettersInv /\ WarLettersInv /\ [Next]_vars => (MoveLettersInv /\ WarLettersInv)'
    BY OwnNext, LettersNext
<1> QED  BY <1>1, LettersInit, LettersAccounted, PTL DEF Spec
-----------------------------------------------------------------------------
(* When both parties announce the same outcome. Over two places they may     *)
(* settle different fights; nothing else can set the parties apart. What a   *)
(* party decides is a function of the snapshots the war carries and of the   *)
(* place it picked: not of its own army, and not of how often it fights.     *)
VerdictInv ==
    \A v \in verdicts :
        /\ v.war \in WarIds
        /\ v.result.location \in Contested(wars[v.war])
        /\ v.result = ResolveWar(wars[v.war], v.result.location)

(* A step keeps what was decided, and a new decision is made by the rules.   *)
LEMMA VerdictNext == ASSUME TypeOK, VerdictInv, [Next]_vars PROVE VerdictInv'
<1>1. CASE UNCHANGED <<verdicts, wars>>
    BY <1>1 DEF VerdictInv, WarIds
<1>2. ASSUME NEW p \in Player, NEW h \in mover[p], DeclareWar(p, h) PROVE VerdictInv'
    <2>1. UNCHANGED verdicts  BY <1>2 DEF DeclareWar
    <2>2. /\ Len(wars) \in Nat /\ WarIds = 1..Len(wars) /\ WarIds' = 1..Len(wars) + 1
          /\ \A n \in WarIds : wars'[n] = wars[n]
        BY <1>2, WarsAppend
    <2>3. WarIds \subseteq WarIds'  BY <2>2
    <2>4. ASSUME NEW v \in verdicts
          PROVE  /\ v.war \in WarIds'
                 /\ v.result.location \in Contested(wars'[v.war])
                 /\ v.result = ResolveWar(wars'[v.war], v.result.location)
        <3>1. v.war \in WarIds /\ wars'[v.war] = wars[v.war]  BY <2>2 DEF VerdictInv
        <3> QED  BY <2>3, <3>1 DEF VerdictInv
    <2> QED  BY <2>1, <2>4 DEF VerdictInv
<1>3. ASSUME NEW p \in Player, NEW loc \in Location, FightWar(p, loc) PROVE VerdictInv'
    <2> DEFINE n == Head(warq[p])
               v == [war |-> n, by |-> p, result |-> ResolveWar(wars[n], loc)]
    <2>1. UNCHANGED wars /\ warq[p] # <<>>  BY <1>3 DEF FightWar, TakeWar
    <2>2. n \in WarIds
        <3>1. warq[p] \in Seq(WarIds)  BY DEF TypeOK
        <3> QED  BY <2>1, <3>1
    <2>3. loc \in Contested(wars[n]) /\ verdicts' = verdicts \cup {v}  BY <1>3 DEF FightWar
    <2>4. v.war = n /\ v.result = ResolveWar(wars[n], loc) /\ v.result.location = loc
        BY DEF ResolveWar
    <2>5. UNCHANGED WarIds  BY <2>1 DEF WarIds
    <2> HIDE DEF v, n
    <2> QED  BY <2>1, <2>2, <2>3, <2>4, <2>5 DEF VerdictInv
<1>4. ASSUME NEW p \in Player, WarConsumer(p) PROVE VerdictInv'
    <2>1. CASE IgnoreWar(p) \/ RejectWar(p)
        BY <1>1, <2>1 DEF IgnoreWar, RejectWar, TakeWar
    <2>2. ASSUME NEW h \in warrior[p], PublishGameLog(p, h) \/ FailToPublishGameLog(p, h)
          PROVE  VerdictInv'
        BY <1>1, <2>2 DEF PublishGameLog, FailToPublishGameLog, ledger, history
    <2> QED  BY <1>3, <1>4, <2>1, <2>2 DEF WarConsumer
<1>5. ASSUME NEW p \in Player, MoveConsumer(p) PROVE VerdictInv'
    <2>1. CASE RejectOwnMove(p) \/ IgnoreMove(p) \/ NoticeMove(p)
        BY <1>1, <2>1 DEF RejectOwnMove, IgnoreMove, NoticeMove, TakeMove, history
    <2>2. ASSUME NEW h \in mover[p], Recognise(p, h) \/ FailToDeclareWar(p, h)
          PROVE  VerdictInv'
        BY <1>1, <2>2 DEF Recognise, FailToDeclareWar, queues, ledger, history
    <2> QED  BY <1>2, <1>5, <2>1, <2>2 DEF MoveConsumer
<1>6. ASSUME NEW p \in Player, NewCommand(p) \/ Command(p) \/ PauseConsumer(p)
      PROVE  VerdictInv'
    BY <1>1, <1>6, PauseSteps
       DEF NewCommand, SpawnId, BeginMove, Command, AddUnit, GetUnit, UpdateUnit,
           SnapMove, PublishMove, FailToPublishMove, queues, ledger, history
<1>7. ASSUME NEW p \in Player, Session(p) PROVE VerdictInv'
    BY <1>1, <1>7 DEF Session, Join, Exit, Disconnect, Redial, Resubscribe, ledger,
                     history
<1>8. ASSUME NEW pause \in BOOLEAN, ServerPause(pause) \/ FailToPublishPause PROVE VerdictInv'
    BY <1>1, <1>8, OrderSteps
<1>9. CASE UNCHANGED vars
    BY <1>1, <1>9 DEF vars, ledger, history
<1> QED  BY <1>4, <1>5, <1>6, <1>7, <1>8, <1>9 DEF Next

(* Two verdicts about a war that name the same place are the same verdict,   *)
(* and every place they name was contested.                                  *)
PlaceDecides ==
    \A v, w \in verdicts :
        v.war = w.war =>
            /\ {v.result.location, w.result.location} \subseteq Contested(wars[v.war])
            /\ v.result.location = w.result.location => v.result = w.result

(* Parties, first fights and retries can disagree about a war only if it had *)
(* several places to choose from and they picked different ones (HandleWar). *)
THEOREM OnlyPlacesDivide == Spec => []PlaceDecides
<1>1. Init => TypeOK /\ VerdictInv  BY TypeInit DEF Init, VerdictInv
<1>2. TypeOK /\ VerdictInv /\ [Next]_vars => (TypeOK /\ VerdictInv)'
    BY TypeNext, VerdictNext
<1>3. VerdictInv => PlaceDecides
    <2>1. ASSUME VerdictInv, NEW v \in verdicts, NEW w \in verdicts, v.war = w.war
          PROVE  /\ {v.result.location, w.result.location} \subseteq Contested(wars[v.war])
                 /\ v.result.location = w.result.location => v.result = w.result
        <3>1. /\ v.result.location \in Contested(wars[v.war])
              /\ v.result = ResolveWar(wars[v.war], v.result.location)
            BY <2>1 DEF VerdictInv
        <3>2. /\ w.result.location \in Contested(wars[w.war])
              /\ w.result = ResolveWar(wars[w.war], w.result.location)
            BY <2>1 DEF VerdictInv
        <3> QED  BY <2>1, <3>1, <3>2
    <2> QED  BY <2>1 DEF PlaceDecides
<1> QED  BY <1>1, <1>2, <1>3, PTL DEF Spec
=============================================================================
