---------------------------- MODULE CommandProofs ----------------------------
(* The commands that come over the queue pause and those typed at the REPL:  *)
(* AtMostOneMoveSlips, PauseReaches and SpawnsAreFresh, for any number of    *)
(* players, commands, lost connections and failed publishes.                 *)
EXTENDS GameClientsProofs

(* The steps of a client's goroutines that can neither pause nor publish.    *)
Quiet(p) ==
    \/ \E kind \in Kinds : Resubscribe(p, kind)
    \/ Disconnect(p) \/ AddUnit(p) \/ GetUnit(p) \/ UpdateUnit(p) \/ SnapMove(p)
    \/ FailToPublishMove(p) \/ NewCommand(p) \/ MoveConsumer(p) \/ WarConsumer(p)

(* What the quiet steps leave alone.                                         *)
LEMMA QuietSteps ==
    ASSUME NEW p \in Player, Quiet(p)
    PROVE  UNCHANGED <<paused, pauser, pauseq, game, heeded, missed, leaked>>
    <1> USE DEF client, link, queues, ledger, arrival, history
    <1>1. CASE \/ \E kind \in Kinds : Resubscribe(p, kind)
               \/ Disconnect(p) \/ AddUnit(p) \/ GetUnit(p) \/ UpdateUnit(p)
               \/ SnapMove(p) \/ FailToPublishMove(p) \/ NewCommand(p)
        BY <1>1 DEF Resubscribe, Disconnect, AddUnit, GetUnit, UpdateUnit, SnapMove,
                    FailToPublishMove, NewCommand, SpawnId, BeginMove
    <1>2. CASE MoveConsumer(p)
        BY <1>2 DEF MoveConsumer, RejectOwnMove, IgnoreMove, NoticeMove, TakeMove,
                    Recognise, DeclareWar, FailToDeclareWar
    <1>3. CASE WarConsumer(p)
        BY <1>3 DEF WarConsumer, IgnoreWar, RejectWar, FightWar, TakeWar,
                    PublishGameLog, FailToPublishGameLog
    <1> QED
        BY <1>1, <1>2, <1>3 DEF Quiet

-----------------------------------------------------------------------------
(* AtMostOneMoveSlips. A move that was under way when the pause came is the  *)
(* only one that can still be published, so none was before it.              *)
Moving(p) == repl[p].pc \in {"get", "update", "snap", "publish"}

LeakInv ==
    \A p \in Player : /\ leaked[p] \in {0, 1}
                      /\ leaked[p] = 1 => paused[p] /\ ~Moving(p)

(* The quiet steps start no move while paused: BeginMove asks isPaused.      *)
LEMMA QuietMoving ==
    ASSUME TypeOK, NEW p \in Player, Quiet(p)
    PROVE  \A q \in Player : Moving(q)' => Moving(q) \/ ~paused[q]
    <1> USE DEF client, link, queues, ledger, arrival, history, Moving, Idle
    <1>0. repl \in [Player -> Commands]
        BY DEF TypeOK
    <1>1. CASE \/ \E kind \in Kinds : Resubscribe(p, kind)
               \/ Disconnect(p)
        BY <1>1 DEF Resubscribe, Disconnect
    <1>2. CASE AddUnit(p) \/ FailToPublishMove(p)
        BY <1>0, <1>2 DEF AddUnit, FailToPublishMove
    <1>3. CASE GetUnit(p) \/ UpdateUnit(p) \/ SnapMove(p)
        BY <1>0, <1>3 DEF GetUnit, UpdateUnit, SnapMove
    <1>4. CASE NewCommand(p)
        <2>1. ASSUME NEW unit \in Unit, SpawnId(p, unit)
              PROVE  \A q \in Player : Moving(q)' => Moving(q) \/ ~paused[q]
            BY <1>0, <2>1 DEF SpawnId
        <2>2. ASSUME NEW to \in Location, NEW ids \in Batches, BeginMove(p, to, ids)
              PROVE  \A q \in Player : Moving(q)' => Moving(q) \/ ~paused[q]
            BY <1>0, <2>2 DEF BeginMove, IsPaused
        <2> QED
            BY <1>4, <2>1, <2>2 DEF NewCommand
    <1>5. CASE MoveConsumer(p)
        BY <1>5 DEF MoveConsumer, RejectOwnMove, IgnoreMove, NoticeMove, TakeMove,
                    Recognise, DeclareWar, FailToDeclareWar
    <1>6. CASE WarConsumer(p)
        BY <1>6 DEF WarConsumer, IgnoreWar, RejectWar, FightWar, TakeWar,
                    PublishGameLog, FailToPublishGameLog
    <1> QED
        BY <1>1, <1>2, <1>3, <1>4, <1>5, <1>6 DEF Quiet

(* Every step keeps LeakInv.                                                 *)
LEMMA LeakNext ==
    ASSUME TypeOK, LeakInv, [Next]_vars PROVE LeakInv'
    <1> USE DEF LeakInv, Moving, client, link, queues, ledger, arrival, history
    <1>1. CASE UNCHANGED vars
        BY <1>1 DEF vars
    <1>2. ASSUME NEW p \in Player, Quiet(p) PROVE LeakInv'
        BY <1>2, QuietSteps, QuietMoving
    <1>3. ASSUME NEW p \in Player, Join(p) \/ Redial(p) PROVE LeakInv'
        BY <1>3 DEF Join, Redial
    <1>4. ASSUME NEW p \in Player, Exit(p) PROVE LeakInv'
        BY <1>4 DEF Exit, TypeOK
    <1>5. ASSUME NEW p \in Player, PublishMove(p) PROVE LeakInv'
        <2>1. /\ repl \in [Player -> Commands] /\ leaked \in [Player -> Nat]
              /\ repl[p].pc = "publish" /\ repl' = [repl EXCEPT ![p] = Idle]
              /\ leaked' = [leaked EXCEPT ![p] = IF paused[p] THEN @ + 1 ELSE @]
              /\ UNCHANGED paused
            BY <1>5 DEF PublishMove, TypeOK
        <2>2. leaked[p] = 0 /\ repl'[p] = Idle
            BY <2>1
        <2>3. \A q \in Player : q # p => repl'[q] = repl[q] /\ leaked'[q] = leaked[q]
            BY <2>1
        <2>4. leaked'[p] = IF paused[p] THEN 1 ELSE 0
            BY <2>1, <2>2
        <2> QED
            BY <2>1, <2>2, <2>3, <2>4 DEF Idle
    <1>6. ASSUME NEW p \in Player, PauseConsumer(p) PROVE LeakInv'
        <2>1. CASE TakePause(p)
            BY <2>1 DEF TakePause
        <2>2. ASSUME NEW h \in pauser[p], ApplyPause(p, h) PROVE LeakInv'
            <3>1. paused \in [Player -> BOOLEAN] /\ leaked \in [Player -> Nat]
                BY DEF TypeOK
            <3>2. leaked'[p] = IF paused'[p] THEN leaked[p] ELSE 0
                BY <2>2, <3>1 DEF ApplyPause
            <3>3. \A q \in Player : q # p => leaked'[q] = leaked[q] /\ paused'[q] = paused[q]
                BY <2>2, <3>1 DEF ApplyPause
            <3>4. UNCHANGED repl
                BY <2>2 DEF ApplyPause
            <3> QED
                BY <3>2, <3>3, <3>4
        <2> QED
            BY <1>6, <2>1, <2>2 DEF PauseConsumer
    <1>7. ASSUME NEW pause \in BOOLEAN, ServerPause(pause) \/ FailToPublishPause
          PROVE  LeakInv'
        BY <1>7, OrderSteps
    <1> QED
        BY <1>1, <1>2, <1>3, <1>4, <1>5, <1>6, <1>7
        DEF Next, Session, Command, Quiet

(* While a client is paused at most one move of its player is published: the *)
(* one whose isPaused was asked before the pause was handled.                *)
THEOREM OneMoveSlips == Spec => []AtMostOneMoveSlips
    <1>1. Init => TypeOK /\ LeakInv
        <2>1. Init => LeakInv
            BY DEF Init, LeakInv
        <2> QED
            BY <2>1, TypeInit
    <1>2. TypeOK /\ LeakInv /\ [Next]_vars => (TypeOK /\ LeakInv)'
        BY TypeNext, LeakNext
    <1>3. TypeOK /\ LeakInv => AtMostOneMoveSlips
        BY DEF LeakInv, AtMostOneMoveSlips
    <1> QED
        BY <1>1, <1>2, <1>3, PTL DEF Spec

-----------------------------------------------------------------------------
(* PauseReaches. The server's last order waits in the queue, is in a         *)
(* handler's hands, or is the newest that p has applied; p has missed it     *)
(* otherwise, and all others in circulation are older ones.                  *)
Awaited(p) == game \in ToSet(pauseq[p]) \/ \E h \in pauser[p] : h.order = game

Published(order) == order = game \/ order.n < game.n

PauseInv ==
    \A p \in Player :
        /\ phase[p] = "out" => /\ ~paused[p] /\ subs[p] = {}
                              /\ pauseq[p] = <<>> /\ pauser[p] = {}
        /\ \A order \in ToSet(pauseq[p]) : Published(order)
        /\ \A h \in pauser[p] : Published(h.order)
        /\ heeded[p] <= game.n
        /\ phase[p] # "out" /\ ~missed[p] =>
              Awaited(p) \/ (heeded[p] = game.n /\ paused[p] = game.pause)

(* What is in a queue after an order was appended or taken.                  *)
LEMMA QueueElements ==
    ASSUME NEW S, NEW s \in Seq(S), NEW e \in S
    PROVE  /\ ToSet(<<>>) = {}
           /\ ToSet(Append(s, e)) = ToSet(s) \cup {e}
           /\ s # <<>> => ToSet(s) = {Head(s)} \cup ToSet(Tail(s))
    <1>1. DOMAIN <<>> = {}
        OBVIOUS
    <1>2. ToSet(Append(s, e)) = ToSet(s) \cup {e}
        <2>1. /\ Len(s) \in Nat /\ DOMAIN s = 1..Len(s)
              /\ DOMAIN Append(s, e) = 1..(Len(s) + 1)
              /\ \A i \in 1..Len(s) : Append(s, e)[i] = s[i]
              /\ Append(s, e)[Len(s) + 1] = e
            OBVIOUS
        <2>2. 1..(Len(s) + 1) = 1..Len(s) \cup {Len(s) + 1}
            BY <2>1
        <2> QED
            BY <2>1, <2>2 DEF ToSet
    <1>3. ASSUME s # <<>> PROVE ToSet(s) = {Head(s)} \cup ToSet(Tail(s))
        <2>1. /\ Len(s) \in Nat \ {0} /\ DOMAIN s = 1..Len(s) /\ Head(s) = s[1]
              /\ DOMAIN Tail(s) = 1..(Len(s) - 1)
              /\ \A i \in 1..(Len(s) - 1) : Tail(s)[i] = s[i + 1]
            BY <1>3, HeadTailProperties, EmptySeq
        <2>2. ASSUME NEW i \in 1..Len(s) PROVE s[i] \in {Head(s)} \cup ToSet(Tail(s))
            <3>1. CASE i = 1
                BY <2>1, <3>1
            <3>2. CASE i # 1
                <4>1. i - 1 \in 1..(Len(s) - 1) /\ (i - 1) + 1 = i
                    BY <2>1, <3>2
                <4> QED
                    BY <2>1, <4>1 DEF ToSet
            <3> QED
                BY <3>1, <3>2
        <2>3. ASSUME NEW i \in 1..(Len(s) - 1) PROVE Tail(s)[i] \in ToSet(s)
            <3>1. i + 1 \in 1..Len(s)
                BY <2>1
            <3> QED
                BY <2>1, <3>1 DEF ToSet
        <2>4. Head(s) \in ToSet(s)
            <3>1. 1 \in 1..Len(s)
                BY <2>1
            <3> QED
                BY <2>1, <3>1 DEF ToSet
        <2> QED
            BY <2>1, <2>2, <2>3, <2>4 DEF ToSet
    <1> QED
        BY <1>1, <1>2, <1>3 DEF ToSet

(* The quiet steps neither start nor end a process.                          *)
LEMMA QuietPhase ==
    ASSUME TypeOK, NEW p \in Player, Quiet(p)
    PROVE  \A q \in Player : /\ phase'[q] = "out" <=> phase[q] = "out"
                             /\ phase[q] = "out" => subs'[q] = subs[q]
    <1> USE DEF client, link, queues, ledger, arrival, history, TypeOK
    <1>1. CASE \/ \E kind \in Kinds : Resubscribe(p, kind)
               \/ Disconnect(p)
        BY <1>1 DEF Resubscribe, Disconnect
    <1>2. CASE \/ AddUnit(p) \/ GetUnit(p) \/ UpdateUnit(p)
               \/ SnapMove(p) \/ FailToPublishMove(p) \/ NewCommand(p)
        BY <1>2 DEF AddUnit, GetUnit, UpdateUnit, SnapMove, FailToPublishMove,
                    NewCommand, SpawnId, BeginMove
    <1>3. CASE MoveConsumer(p)
        BY <1>3 DEF MoveConsumer, RejectOwnMove, IgnoreMove, NoticeMove, TakeMove,
                    Recognise, DeclareWar, FailToDeclareWar
    <1>4. CASE WarConsumer(p)
        BY <1>4 DEF WarConsumer, IgnoreWar, RejectWar, FightWar, TakeWar,
                    PublishGameLog, FailToPublishGameLog
    <1> QED
        BY <1>1, <1>2, <1>3, <1>4 DEF Quiet

(* A player keeps its part of PauseInv when a step leaves its queue and      *)
(* handlers and the server's last order alone.                               *)
LEMMA PauseFrame ==
    ASSUME PauseInv, NEW q \in Player, UNCHANGED game,
           phase'[q] = phase[q], subs'[q] = subs[q], paused'[q] = paused[q],
           pauseq'[q] = pauseq[q], pauser'[q] = pauser[q], heeded'[q] = heeded[q],
           missed'[q] = missed[q]
    PROVE  /\ phase'[q] = "out" => /\ ~paused'[q] /\ subs'[q] = {}
                                   /\ pauseq'[q] = <<>> /\ pauser'[q] = {}
           /\ \A order \in ToSet(pauseq'[q]) : Published(order)'
           /\ \A h \in pauser'[q] : Published(h.order)'
           /\ heeded'[q] <= game'.n
           /\ phase'[q] # "out" /\ ~missed'[q] =>
                 Awaited(q)' \/ (heeded'[q] = game'.n /\ paused'[q] = game'.pause)
    BY DEF PauseInv, Awaited, Published

(* A new order makes all others older ones. It is in the queues of those who *)
(* are subscribed; the others miss it or have not joined.                    *)
LEMMA PauseServer ==
    ASSUME TypeOK, PauseInv, NEW pause \in BOOLEAN, ServerPause(pause)
    PROVE  PauseInv'
    <1>0. game \in Orders /\ game' \in Orders /\ game'.n = game.n + 1
        BY DEF ServerPause, TypeOK, Orders
    <1>1. ASSUME NEW order, order \in Orders, Published(order)
          PROVE  order.n < game'.n
        BY <1>0, <1>1 DEF Published, Orders
    <1> SUFFICES ASSUME NEW p \in Player
                 PROVE  /\ phase'[p] = "out" => /\ ~paused'[p] /\ subs'[p] = {}
                                                /\ pauseq'[p] = <<>> /\ pauser'[p] = {}
                        /\ \A order \in ToSet(pauseq'[p]) : Published(order)'
                        /\ \A h \in pauser'[p] : Published(h.order)'
                        /\ heeded'[p] <= game'.n
                        /\ phase'[p] # "out" /\ ~missed'[p] =>
                              Awaited(p)' \/ (heeded'[p] = game'.n /\ paused'[p] = game'.pause)
        BY DEF PauseInv
    <1>2. /\ UNCHANGED <<phase, subs, paused, pauser, heeded>>
          /\ missed'[p] <=> (phase[p] # "out" /\ "pause" \notin subs[p])
          /\ pauseq'[p] = IF "pause" \in subs[p] THEN Append(pauseq[p], game')
                                                 ELSE pauseq[p]
        BY DEF ServerPause, Deliver, client, link
    <1>3. /\ pauseq[p] \in Seq(Orders) /\ heeded[p] \in Nat
          /\ \A order \in ToSet(pauseq[p]) : order \in Orders
          /\ \A h \in pauser[p] : h.order \in Orders
        BY DEF TypeOK, Pausers, ToSet
    <1>4. ToSet(Append(pauseq[p], game')) = ToSet(pauseq[p]) \cup {game'}
        BY <1>0, <1>3, QueueElements
    <1>5. \A order \in ToSet(pauseq'[p]) : Published(order)'
        BY <1>1, <1>2, <1>3, <1>4 DEF PauseInv, Published
    <1>6. \A h \in pauser'[p] : Published(h.order)'
        BY <1>1, <1>2, <1>3 DEF PauseInv, Published
    <1>7. heeded'[p] <= game'.n
        <2>1. heeded[p] <= game.n /\ game.n \in Nat
            BY <1>0 DEF PauseInv, Orders
        <2> QED
            BY <1>0, <1>2, <1>3, <2>1
    <1>8. phase'[p] # "out" /\ ~missed'[p] => Awaited(p)'
        BY <1>2, <1>4 DEF Awaited
    <1>9. phase'[p] = "out" => /\ ~paused'[p] /\ subs'[p] = {}
                               /\ pauseq'[p] = <<>> /\ pauser'[p] = {}
        BY <1>2 DEF PauseInv
    <1> QED
        BY <1>5, <1>6, <1>7, <1>8, <1>9

(* Taking an order keeps it in circulation.                                  *)
LEMMA PauseTake ==
    ASSUME TypeOK, PauseInv, NEW p \in Player, TakePause(p)
    PROVE  PauseInv'
    <1> DEFINE taken == [order |-> Head(pauseq[p]), live |-> TRUE]
    <1>1. /\ pauseq[p] \in Seq(Orders) /\ pauseq[p] # <<>> /\ game \in Orders
          /\ pauseq'[p] = Tail(pauseq[p]) /\ pauser'[p] = pauser[p] \cup {taken}
          /\ \A q \in Player \ {p} : pauseq'[q] = pauseq[q] /\ pauser'[q] = pauser[q]
          /\ UNCHANGED <<paused, phase, subs, heeded, missed, game>>
        BY DEF TakePause, TypeOK, link, history
    <1>2. ToSet(pauseq[p]) = {Head(pauseq[p])} \cup ToSet(pauseq'[p])
        BY <1>1, QueueElements
    <1>3. phase[p] # "out"
        BY <1>1 DEF PauseInv
    <1>4. /\ \A order \in ToSet(pauseq'[p]) : Published(order)'
          /\ \A h \in pauser'[p] : Published(h.order)'
        BY <1>1, <1>2 DEF PauseInv, Published
    <1>5. ASSUME Awaited(p) PROVE Awaited(p)'
        <2>1. taken \in pauser'[p] /\ taken.order = Head(pauseq[p])
            BY <1>1
        <2> HIDE DEF taken
        <2>2. CASE game = Head(pauseq[p])
            BY <1>1, <2>1, <2>2 DEF Awaited
        <2>3. CASE game # Head(pauseq[p])
            BY <1>1, <1>2, <1>5, <2>3 DEF Awaited
        <2> QED
            BY <2>2, <2>3
    <1>6. /\ heeded'[p] <= game'.n
          /\ ~missed'[p] =>
                Awaited(p)' \/ (heeded'[p] = game'.n /\ paused'[p] = game'.pause)
        BY <1>1, <1>3, <1>5 DEF PauseInv
    <1> QED
        BY <1>1, <1>3, <1>4, <1>6, PauseFrame DEF PauseInv

(* An order that is obeyed is the last, and then its number is the newest,   *)
(* or an older one: that undoes the last only if it was obeyed before, and   *)
(* the player counts as having missed it.                                    *)
LEMMA PauseApply ==
    ASSUME TypeOK, PauseInv, NEW p \in Player, NEW h \in pauser[p], ApplyPause(p, h)
    PROVE  PauseInv'
    <1>1. /\ paused \in [Player -> BOOLEAN] /\ pauser \in [Player -> SUBSET Pausers]
          /\ heeded \in [Player -> Nat] /\ missed \in [Player -> BOOLEAN]
          /\ game \in Orders
        BY DEF TypeOK
    <1>2. h.order \in Orders /\ h.order.n \in Nat /\ h.order.pause \in BOOLEAN
        BY <1>1 DEF Pausers, Orders
    <1>3. /\ pauser'[p] = pauser[p] \ {h} /\ paused'[p] = h.order.pause
          /\ heeded'[p] = IF h.order.n < heeded[p] THEN heeded[p] ELSE h.order.n
          /\ \A q \in Player \ {p} : /\ paused'[q] = paused[q] /\ pauser'[q] = pauser[q]
                                      /\ heeded'[q] = heeded[q]
        BY <1>1 DEF ApplyPause
    <1>4. /\ missed'[p] = (missed[p] \/ h.order.n < heeded[p])
          /\ \A q \in Player \ {p} : missed'[q] = missed[q]
        BY <1>1 DEF ApplyPause
    <1>5. /\ heeded[p] \in Nat
          /\ missed'[p] <=> (missed[p] \/ h.order.n < heeded[p])
          /\ UNCHANGED <<pauseq, phase, subs, game>>
        BY <1>1, <1>4 DEF ApplyPause, link, queues
    <1>6. phase[p] # "out"
        BY <1>2, <1>3, <1>5 DEF PauseInv
    <1>7. /\ \A order \in ToSet(pauseq'[p]) : Published(order)'
          /\ \A g \in pauser'[p] : Published(g.order)'
        BY <1>2, <1>3, <1>5 DEF PauseInv, Published
    <1>8. /\ h.order = game \/ h.order.n < game.n
          /\ heeded[p] <= game.n
          /\ game.n \in Nat /\ h.order.n \in Nat
        BY <1>1, <1>2 DEF PauseInv, Published, Orders
    <1>9. heeded'[p] <= game'.n
        BY <1>2, <1>3, <1>5, <1>8
    <1>10. ASSUME ~missed'[p]
          PROVE  Awaited(p)' \/ (heeded'[p] = game'.n /\ paused'[p] = game'.pause)
        <2>1. CASE h.order = game
            BY <1>2, <1>3, <1>4, <1>5, <1>8, <2>1
        <2>2. CASE h.order # game
            <3>1. ~missed[p] /\ heeded[p] # game.n
                BY <1>2, <1>3, <1>4, <1>5, <1>8, <1>10, <2>2
            <3>2. Awaited(p)
                BY <1>6, <3>1 DEF PauseInv
            <3> QED
                BY <1>3, <1>5, <2>2, <3>2 DEF Awaited
        <2> QED
            BY <2>1, <2>2
    <1> QED
        BY <1>3, <1>4, <1>5, <1>6, <1>7, <1>9, <1>10, PauseFrame DEF PauseInv

(* A new connection drops what was buffered; handlers keep their orders.     *)
LEMMA PauseRedial ==
    ASSUME TypeOK, PauseInv, NEW p \in Player, Redial(p)
    PROVE  PauseInv'
    <1>1. /\ phase[p] # "out" /\ phase'[p] # "out" /\ pauseq'[p] = <<>>
          /\ pauser'[p] = {[h EXCEPT !.live = FALSE] : h \in pauser[p]}
          /\ missed'[p] <=> (missed[p] \/ pauseq[p] # <<>>)
          /\ \A q \in Player \ {p} : /\ phase'[q] = phase[q] /\ pauseq'[q] = pauseq[q]
                                      /\ pauser'[q] = pauser[q] /\ missed'[q] = missed[q]
          /\ UNCHANGED <<paused, subs, heeded, game>>
        BY DEF Redial, TypeOK
    <1>2. \A h \in pauser[p] : [h EXCEPT !.live = FALSE].order = h.order
        BY DEF TypeOK, Pausers
    <1>3. ToSet(<<>>) = {}
        <2>1. DOMAIN <<>> = {}
            OBVIOUS
        <2> QED
            BY <2>1 DEF ToSet
    <1>4. ToSet(pauseq'[p]) = {}
        BY <1>1, <1>3
    <1>5. ASSUME NEW h \in pauser'[p] PROVE Published(h.order)'
        <2>1. PICK g \in pauser[p] : h = [g EXCEPT !.live = FALSE]
            BY <1>1
        <2>2. h.order = g.order /\ Published(g.order)
            BY <1>2, <2>1 DEF PauseInv
        <2> QED
            BY <1>1, <2>2 DEF Published
    <1>6. /\ \A order \in ToSet(pauseq'[p]) : Published(order)'
          /\ \A h \in pauser'[p] : Published(h.order)'
        BY <1>4, <1>5
    <1>7. ASSUME ~missed'[p]
          PROVE  Awaited(p)' \/ (heeded'[p] = game'.n /\ paused'[p] = game'.pause)
        <2>1. ~missed[p] /\ pauseq[p] = <<>>
            BY <1>1, <1>7
        <2>2. Awaited(p) => Awaited(p)'
            BY <1>1, <1>2, <1>3, <2>1 DEF Awaited
        <2> QED
            BY <1>1, <2>1, <2>2 DEF PauseInv
    <1>8. heeded'[p] <= game'.n
        BY <1>1 DEF PauseInv
    <1> QED
        BY <1>1, <1>6, <1>7, <1>8, PauseFrame DEF PauseInv

(* A process starts unpaused with nothing in hand, and ends with nothing.    *)
LEMMA PauseProcess ==
    ASSUME TypeOK, PauseInv, NEW p \in Player, Join(p) \/ Exit(p)
    PROVE  PauseInv'
    <1>1. ToSet(<<>>) = {}
        <2>1. DOMAIN <<>> = {}
            OBVIOUS
        <2> QED
            BY <2>1 DEF ToSet
    <1>2. game \in Orders /\ game.n \in Nat /\ game.pause \in BOOLEAN
        BY DEF TypeOK, Orders
    <1>3. \A q \in Player \ {p} :
             /\ phase'[q] = phase[q] /\ subs'[q] = subs[q] /\ paused'[q] = paused[q]
             /\ pauseq'[q] = pauseq[q] /\ pauser'[q] = pauser[q]
             /\ heeded'[q] = heeded[q] /\ missed'[q] = missed[q]
        <2>1. /\ subs \in [Player -> SUBSET Kinds] /\ paused \in [Player -> BOOLEAN]
              /\ pauseq \in [Player -> Seq(Orders)] /\ pauser \in [Player -> SUBSET Pausers]
              /\ phase \in [Player -> {"out", "up", "down"}]
              /\ heeded \in [Player -> Nat] /\ missed \in [Player -> BOOLEAN]
            BY DEF TypeOK
        <2>2. CASE Join(p)
            BY <2>1, <2>2 DEF Join, client, queues
        <2>3. CASE Exit(p)
            BY <2>1, <2>3 DEF Exit
        <2> QED
            BY <2>2, <2>3
    <1>4. UNCHANGED game
        BY DEF Join, Exit
    <1>5. CASE Join(p)
        <2>1. /\ phase[p] = "out" /\ phase'[p] # "out" /\ heeded'[p] = game.n
              /\ missed'[p] = game.pause
              /\ UNCHANGED <<paused, pauseq, pauser>>
            BY <1>5 DEF Join, TypeOK, client, queues
        <2>2. ~paused'[p] /\ pauseq'[p] = <<>> /\ pauser'[p] = {}
            BY <2>1 DEF PauseInv
        <2>3. heeded'[p] = game'.n /\ heeded'[p] <= game'.n
            BY <1>2, <1>4, <2>1
        <2>4. ~missed'[p] => paused'[p] = game'.pause
            <3>1. paused[p] \in BOOLEAN
                BY DEF TypeOK
            <3> QED
                BY <1>2, <1>4, <2>1, <2>2, <3>1
        <2>5. ToSet(pauseq'[p]) = {}
            BY <1>1, <2>2
        <2> QED
            BY <1>3, <1>4, <2>1, <2>2, <2>3, <2>4, <2>5, PauseFrame DEF PauseInv
    <1>6. CASE Exit(p)
        <2>1. /\ phase'[p] = "out" /\ ~paused'[p] /\ subs'[p] = {} /\ pauseq'[p] = <<>>
              /\ pauser'[p] = {} /\ heeded'[p] = 0
            BY <1>6 DEF Exit, TypeOK
        <2> QED
            BY <1>1, <1>2, <1>3, <1>4, <2>1, PauseFrame DEF PauseInv
    <1> QED
        BY <1>5, <1>6

(* Every step keeps PauseInv.                                                *)
LEMMA PauseNext ==
    ASSUME TypeOK, PauseInv, [Next]_vars PROVE PauseInv'
    <1>1. CASE UNCHANGED vars
        BY <1>1 DEF vars, client, link, queues, history, PauseInv, Awaited, Published
    <1>2. ASSUME NEW p \in Player, Quiet(p) PROVE PauseInv'
        BY <1>2, QuietSteps, QuietPhase DEF PauseInv, Awaited, Published
    <1>3. ASSUME NEW p \in Player, Join(p) \/ Exit(p) PROVE PauseInv'
        BY <1>3, PauseProcess
    <1>4. ASSUME NEW p \in Player, Redial(p) PROVE PauseInv'
        BY <1>4, PauseRedial
    <1>5. ASSUME NEW p \in Player, PublishMove(p) PROVE PauseInv'
        <2>1. UNCHANGED <<paused, pauser, phase, subs, pauseq, game, heeded, missed>>
            BY <1>5 DEF PublishMove, link
        <2> QED
            BY <2>1 DEF PauseInv, Awaited, Published
    <1>6. ASSUME NEW p \in Player, PauseConsumer(p) PROVE PauseInv'
        BY <1>6, PauseTake, PauseApply DEF PauseConsumer
    <1>7. ASSUME NEW pause \in BOOLEAN, ServerPause(pause) PROVE PauseInv'
        BY <1>7, PauseServer
    <1>8. ASSUME FailToPublishPause PROVE PauseInv'
        BY <1>8 DEF FailToPublishPause, client, link, queues, history, PauseInv, Awaited,
                    Published
    <1> QED
        BY <1>1, <1>2, <1>3, <1>4, <1>5, <1>6, <1>7, <1>8
        DEF Next, Session, Command, Quiet

(* A client that has handled all it received agrees with the server, unless *)
(* it missed the last order or an old consumer obeyed an older one after it. *)
THEOREM PauseArrives == Spec => []PauseReaches
    <1>1. Init => TypeOK /\ PauseInv
        <2>1. DOMAIN <<>> = {}
            OBVIOUS
        <2>2. ToSet(<<>>) = {}
            BY <2>1 DEF ToSet
        <2>3. Init => PauseInv
            BY <2>2 DEF Init, PauseInv
        <2> QED
            BY <2>3, TypeInit
    <1>2. TypeOK /\ PauseInv /\ [Next]_vars => (TypeOK /\ PauseInv)'
        BY TypeNext, PauseNext
    <1>3. PauseInv => PauseReaches
        <2>1. DOMAIN <<>> = {}
            OBVIOUS
        <2>2. ToSet(<<>>) = {}
            BY <2>1 DEF ToSet
        <2> QED
            BY <2>2 DEF PauseInv, PauseReaches, Awaited
    <1> QED
        BY <1>1, <1>2, <1>3, PTL DEF Spec
-----------------------------------------------------------------------------
(* SpawnsAreFresh. Until a war takes a unit of p away, its ids are 1..k for  *)
(* some k: a spawn adds k+1 and UpdateUnit writes back an id that is there,  *)
(* since only the REPL that is now writing could have changed the army.      *)
IdsOf(p) ==
    /\ \E k \in Nat : DOMAIN army[p] = 1..k
    /\ repl[p].pc = "spawn" => repl[p].id = NextId(army[p])
    /\ repl[p].pc = "update" => Head(repl[p].todo) \in DOMAIN army[p]

IdsInv == \A p \in Player : ~lost[p] => IdsOf(p)

(* len+1 is the next number as long as the ids are 1..len.                   *)
LEMMA NextIdFresh ==
    ASSUME NEW units, NEW k \in Nat, DOMAIN units = 1..k
    PROVE  /\ NextId(units) = k + 1
           /\ NextId(units) \notin DOMAIN units
    <1>1. Cardinality(1..k) = k
        BY FS_Interval
    <1>2. NextId(units) = k + 1
        BY <1>1 DEF NextId
    <1> QED
        BY <1>2

(* A player keeps its ids when a step leaves its REPL and army alone.        *)
LEMMA IdsFrame ==
    ASSUME IdsInv, NEW p \in Player,
           \A q \in Player \ {p} : /\ repl'[q] = repl[q] /\ army'[q] = army[q]
                                  /\ lost'[q] = lost[q],
           ~lost'[p] => IdsOf(p)'
    PROVE  IdsInv'
    <1> SUFFICES ASSUME NEW q \in Player, ~lost'[q]
                 PROVE  IdsOf(q)'
        BY DEF IdsInv
    <1>1. CASE q = p
        BY <1>1
    <1>2. CASE q # p
        BY <1>2 DEF IdsInv, IdsOf
    <1> QED
        BY <1>1, <1>2

(* The REPL adds k+1 to ids that are 1..k.                                   *)
LEMMA IdsAddUnit ==
    ASSUME TypeOK, IdsInv, NEW p \in Player, AddUnit(p)
    PROVE  IdsInv'
    <1>1. /\ repl[p].pc = "spawn" /\ repl'[p] = Idle
          /\ army'[p] = PutUnit(army[p], repl[p].id, repl[p].unit)
          /\ lost' = lost
          /\ \A q \in Player \ {p} : repl'[q] = repl[q] /\ army'[q] = army[q]
        BY DEF AddUnit, TypeOK
    <1>2. ASSUME ~lost[p] PROVE IdsOf(p)'
        <2>1. PICK k \in Nat : DOMAIN army[p] = 1..k
            BY <1>2 DEF IdsInv, IdsOf
        <2>2. repl[p].id = k + 1
            BY <1>1, <1>2, <2>1, NextIdFresh DEF IdsInv, IdsOf
        <2>3. DOMAIN army'[p] = 1..(k + 1)
            BY <1>1, <2>1, <2>2 DEF PutUnit
        <2>4. \E j \in Nat : DOMAIN army'[p] = 1..j
            BY <2>3
        <2> QED
            BY <1>1, <2>4 DEF IdsOf, Idle
    <1> QED
        BY <1>1, <1>2, IdsFrame

(* A unit is read only if it is there, and put back where it was.            *)
LEMMA IdsMove ==
    ASSUME TypeOK, IdsInv, NEW p \in Player, GetUnit(p) \/ UpdateUnit(p)
    PROVE  IdsInv'
    <1>1. CASE GetUnit(p)
        <2>1. /\ UNCHANGED <<army, lost>>
              /\ \A q \in Player \ {p} : repl'[q] = repl[q]
              /\ \/ /\ Head(repl[p].todo) \in DOMAIN army[p]
                    /\ repl'[p].pc = "update" /\ repl'[p].todo = repl[p].todo
                 \/ repl'[p] = Idle
            BY <1>1 DEF GetUnit, TypeOK, history
        <2>2. ~lost[p] => IdsOf(p)'
            BY <2>1 DEF IdsInv, IdsOf, Idle
        <2> QED
            BY <2>1, <2>2, IdsFrame
    <1>2. CASE UpdateUnit(p)
        <2>1. /\ repl[p].pc = "update" /\ repl'[p].pc \in {"snap", "get"}
              /\ army'[p] = PutUnit(army[p], Head(repl[p].todo), repl[p].unit)
              /\ lost' = lost
              /\ \A q \in Player \ {p} : repl'[q] = repl[q] /\ army'[q] = army[q]
            BY <1>2 DEF UpdateUnit, TypeOK
        <2>2. ASSUME ~lost[p] PROVE IdsOf(p)'
            <3>1. Head(repl[p].todo) \in DOMAIN army[p]
                BY <2>1, <2>2 DEF IdsInv, IdsOf
            <3>2. DOMAIN army'[p] = DOMAIN army[p]
                BY <2>1, <3>1 DEF PutUnit
            <3> QED
                BY <2>1, <2>2, <3>2 DEF IdsInv, IdsOf
        <2> QED
            BY <2>1, <2>2, IdsFrame
    <1> QED
        BY <1>1, <1>2

(* The REPL's other steps leave the army as it is.                           *)
LEMMA IdsRest ==
    ASSUME TypeOK, IdsInv, NEW p \in Player,
           NewCommand(p) \/ SnapMove(p) \/ PublishMove(p) \/ FailToPublishMove(p)
    PROVE  IdsInv'
    <1>1. /\ UNCHANGED <<army, lost>>
          /\ \A q \in Player \ {p} : repl'[q] = repl[q]
        BY DEF NewCommand, SpawnId, BeginMove, SnapMove, PublishMove, FailToPublishMove,
               TypeOK, history
    <1>2. \/ repl'[p].pc = "spawn" /\ repl'[p].id = NextId(army[p])
          \/ repl'[p].pc \in {"get", "publish", "idle"}
        BY DEF NewCommand, SpawnId, BeginMove, SnapMove, PublishMove, FailToPublishMove,
               TypeOK, Idle
    <1>3. ~lost[p] => IdsOf(p)'
        BY <1>1, <1>2 DEF IdsInv, IdsOf
    <1> QED
        BY <1>1, <1>3, IdsFrame

(* A war that takes units away sets lost; the others leave the army alone.   *)
LEMMA IdsFight ==
    ASSUME TypeOK, IdsInv, NEW p \in Player, NEW loc \in Location, FightWar(p, loc)
    PROVE  IdsInv'
    <1>1. UNCHANGED repl
        BY DEF FightWar, TakeWar
    <1>2. /\ \A q \in Player \ {p} : army'[q] = army[q] /\ lost'[q] = lost[q]
          /\ lost'[p] \/ (lost'[p] = lost[p] /\ army' = army)
        BY DEF FightWar, TypeOK
    <1>3. ~lost'[p] => IdsOf(p)'
        BY <1>1, <1>2 DEF IdsInv, IdsOf
    <1> QED
        BY <1>1, <1>2, <1>3, IdsFrame

(* Every step keeps IdsInv.                                                  *)
LEMMA IdsNext ==
    ASSUME TypeOK, IdsInv, [Next]_vars PROVE IdsInv'
    <1>1. ASSUME NEW p \in Player, Exit(p) PROVE IdsInv'
        <2>1. /\ repl'[p] = Idle /\ army'[p] = NoUnits
              /\ \A q \in Player \ {p} : /\ repl'[q] = repl[q] /\ army'[q] = army[q]
                                         /\ lost'[q] = lost[q]
            BY <1>1 DEF Exit, TypeOK
        <2>2. DOMAIN NoUnits = 1..0
            BY DEF NoUnits
        <2>3. \E k \in Nat : DOMAIN army'[p] = 1..k
            BY <2>1, <2>2
        <2> QED
            BY <2>1, <2>3, IdsFrame DEF IdsOf, Idle
    <1>2. ASSUME NEW p \in Player, NewCommand(p) \/ Command(p) PROVE IdsInv'
        BY <1>2, IdsAddUnit, IdsMove, IdsRest DEF Command
    <1>3. ASSUME NEW p \in Player, NEW loc \in Location, FightWar(p, loc) PROVE IdsInv'
        BY <1>3, IdsFight
    <1>4. ASSUME UNCHANGED <<army, repl, lost>> PROVE IdsInv'
        BY <1>4 DEF IdsInv, IdsOf
    <1> USE DEF client, link, queues, ledger, arrival, history
    <1>5. ASSUME NEW p \in Player, Session(p), ~Exit(p) PROVE UNCHANGED <<army, repl, lost>>
        BY <1>5 DEF Session, Join, Disconnect, Redial, Resubscribe
    <1>6. ASSUME NEW p \in Player, MoveConsumer(p) PROVE UNCHANGED <<army, repl, lost>>
        BY <1>6 DEF MoveConsumer, RejectOwnMove, IgnoreMove, NoticeMove, TakeMove,
                    Recognise, DeclareWar, FailToDeclareWar
    <1>7. ASSUME NEW p \in Player, WarConsumer(p), \A loc \in Location : ~FightWar(p, loc)
          PROVE  UNCHANGED <<army, repl, lost>>
        BY <1>7 DEF WarConsumer, IgnoreWar, RejectWar, TakeWar, PublishGameLog,
                    FailToPublishGameLog
    <1>8. ASSUME NEW p \in Player, PauseConsumer(p) PROVE UNCHANGED <<army, repl, lost>>
        BY <1>8, PauseSteps
    <1>9. ASSUME NEW pause \in BOOLEAN, ServerPause(pause) \/ FailToPublishPause
          PROVE  UNCHANGED <<army, repl, lost>>
        BY <1>9, OrderSteps
    <1>10. ASSUME UNCHANGED vars PROVE UNCHANGED <<army, repl, lost>>
        BY <1>10 DEF vars
    <1> QED
        BY <1>1, <1>2, <1>3, <1>4, <1>5, <1>6, <1>7, <1>8, <1>9, <1>10 DEF Next

(* As long as no war has taken units from a player, a spawn between whose    *)
(* two locked steps anything may have happened still gets a free id.         *)
THEOREM SpawnsFresh == Spec => []SpawnsAreFresh
    <1>1. Init => TypeOK /\ IdsInv
        <2>1. \E k \in Nat : DOMAIN NoUnits = 1..k
            <3>1. DOMAIN NoUnits = 1..0
                BY DEF NoUnits
            <3> QED
                BY <3>1
        <2>2. ASSUME Init, NEW p \in Player PROVE IdsOf(p)
            <3>1. army[p] = NoUnits /\ repl[p].pc = "idle"
                BY <2>2 DEF Init, Idle
            <3> QED
                BY <2>1, <3>1 DEF IdsOf
        <2> QED
            BY <2>2, TypeInit DEF IdsInv
    <1>2. TypeOK /\ IdsInv /\ [Next]_vars => (TypeOK /\ IdsInv)'
        BY TypeNext, IdsNext
    <1>3. IdsInv => SpawnsAreFresh
        BY NextIdFresh DEF IdsInv, IdsOf, SpawnsAreFresh
    <1> QED
        BY <1>1, <1>2, <1>3, PTL DEF Spec
=============================================================================
