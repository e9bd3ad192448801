------------------------------ MODULE Supervisor ------------------------------
(* One process of the game and its broker connections: run() of cmd/client,  *)
(* cmd/server and cmd/gateway, which share the boot and the shutdown; the    *)
(* goroutine Client.Supervise starts; and one goroutine per consumer.        *)
(*                                                                           *)
(* Connections are numbered in the order they are made, across restarts of   *)
(* the process. A connection breaks, and the amqp library and the broker     *)
(* each notice that in their own time.                                       *)
EXTENDS Integers, Sequences, FiniteSets

CONSTANTS
    Queues,                  \* how many queues the process subscribes to
    MaxStarts,               \* bounds: times the process is started,
    MaxLosses,               \* connections that break and crashes,
    MaxFailures              \* steps that fail over a sound connection

ASSUME SupervisorAssumption ==
    /\ Queues \in Nat \ {0}
    /\ {MaxStarts, MaxLosses, MaxFailures} \subseteq Nat

Kinds == 1..Queues

VARIABLES
    main,        \* where run() is
    sup,         \* where Supervise's goroutine is, and the starters it has left
    stopped,     \* the context is done
    wg,          \* the counter of the WaitGroup
    conn,        \* the last connection, which is c.conn; 0 before the first
    broken,      \* connections that no longer carry anything
    closed,      \* those of them the amqp library has shut down
    starters,    \* c.subs, as the queues they consume
    consumers,   \* <<i, n>>: starters[i] has a goroutine on connection n
    owner,       \* at the broker: the connection of each exclusive queue, or 0
    used         \* how much of each bound is spent

program == <<main, sup, stopped, wg, starters, consumers>>
network == <<conn, broken, closed, owner>>
vars    == <<program, network, used>>

Connections == 1..(MaxStarts + MaxLosses)

(* Supervise's goroutine: not started, in the loop, or returned.             *)
Off      == [pc |-> "off"]
Gone     == [pc |-> "gone"]
At(step) == [pc |-> step]

TypeOK ==
    /\ main \in {"out", "welcome", "declare", "subscribe", "ready", "run", "wait"}
    /\ sup \in [pc : {"off", "notify", "listen", "redial", "redeclare", "gone"}]
          \cup [pc : {"start"}, todo : Seq(Kinds) \ {<<>>}]
    /\ stopped \in BOOLEAN
    /\ wg \in Nat
    /\ conn \in {0} \cup Connections
    /\ broken \subseteq Connections /\ closed \subseteq broken
    /\ starters \in Seq(Kinds)
    /\ consumers \subseteq Kinds \X Connections
    /\ owner \in [Kinds -> {0} \cup Connections]
    /\ used \in [starts : Nat, losses : Nat, failures : Nat]

Init ==
    /\ main = "out"
    /\ sup = Off
    /\ stopped = FALSE
    /\ wg = 0
    /\ conn = 0
    /\ broken = {}
    /\ closed = {}
    /\ starters = <<>>
    /\ consumers = {}
    /\ owner = [q \in Kinds |-> 0]
    /\ used = [starts |-> 0, losses |-> 0, failures |-> 0]

Spend(what, bound) ==
    /\ used[what] < bound
    /\ used' = [used EXCEPT ![what] = @ + 1]

Sound == conn \notin broken

(* An operation on the current connection returns an error: the connection   *)
(* is gone, which is an error once the library knows, or the broker refuses. *)
Refused == \/ conn \in closed /\ UNCHANGED used
           \/ Sound /\ Spend("failures", MaxFailures)

Release(n) == [q \in Kinds |-> IF owner[q] = n THEN 0 ELSE owner[q]]
-----------------------------------------------------------------------------
(* startConsumer.                                                            *)

(* Declare, bind, set the prefetch, consume; then the goroutine.             *)
Start(i) ==
    /\ Sound
    /\ owner[starters'[i]] \in {0, conn}
    /\ owner' = [owner EXCEPT ![starters'[i]] = conn]
    /\ consumers' = consumers \cup {<<i, conn>>}
    /\ wg' = wg + 1
    /\ UNCHANGED <<conn, broken, closed, used>>

(* A queue that an earlier connection still holds is locked. A refusal after *)
(* the declaration leaves the queue behind, without a consumer.              *)
StartFails(i) ==
    /\ LET q == starters'[i]
       IN  \/ Sound /\ owner[q] \notin {0, conn} /\ UNCHANGED <<owner, used>>
           \/ /\ Refused
              /\ owner' \in {owner} \cup
                    IF Sound /\ owner[q] = 0 THEN {[owner EXCEPT ![q] = conn]} ELSE {}
    /\ UNCHANGED <<conn, broken, closed, consumers, wg>>

(* Mutant of ConsumerEnds: the goroutine does not watch the context.         *)
ConsumerEndsDeaf(c) ==
    /\ c[2] \in closed
    /\ consumers' = consumers \ {c}
    /\ wg' = wg - 1
    /\ UNCHANGED <<main, sup, stopped, starters, network, used>>

(* The goroutine returns when the context is done or its deliveries end.     *)
(* Closing the channel cancels the consumer, and the queue deletes itself.   *)
ConsumerEnds(c) ==
    /\ stopped \/ c[2] \in closed
    /\ consumers' = consumers \ {c}
    /\ wg' = wg - 1
    /\ owner' = IF c[2] \notin broken
                THEN [owner EXCEPT ![starters[c[1]]] = 0] ELSE owner
    /\ UNCHANGED <<main, sup, stopped, starters, conn, broken, closed, used>>
-----------------------------------------------------------------------------
(* run().                                                                    *)

(* Whatever the process was, none of it is left.                             *)
Vanish ==
    /\ main' = "out"
    /\ sup' = Off
    /\ stopped' = FALSE
    /\ wg' = 0
    /\ starters' = <<>>
    /\ consumers' = {}

(* The deferred client.Close, then the end of the process.                   *)
Return ==
    /\ Vanish
    /\ broken' = broken \cup {conn}
    /\ closed' = closed \cup {conn}
    /\ owner' = IF Sound THEN Release(conn) ELSE owner
    /\ UNCHANGED conn

(* A connection and its publishing channel. The client then asks for a name, *)
(* the server and the gateway declare the topology.                          *)
Dial ==
    /\ main = "out"
    /\ Spend("starts", MaxStarts)
    /\ conn' = conn + 1
    /\ main' \in {"welcome", "declare"}
    /\ UNCHANGED <<sup, stopped, wg, starters, consumers, broken, closed, owner>>

(* Reading the name does not heed the context.                               *)
Welcome ==
    /\ main = "welcome"
    /\ main' = "subscribe"
    /\ UNCHANGED <<sup, stopped, wg, starters, consumers, network, used>>

NoName == main = "welcome" /\ Return /\ UNCHANGED used

DeclareAtBoot ==
    /\ main = "declare"
    /\ Sound
    /\ main' = "subscribe"
    /\ UNCHANGED <<sup, stopped, wg, starters, consumers, network, used>>

DeclareAtBootFails == main = "declare" /\ Refused /\ Return

Register == starters' = Append(starters, Len(starters) + 1)

Subscribe ==
    /\ main = "subscribe"
    /\ Register
    /\ Start(Len(starters'))
    /\ main' = IF Len(starters') = Queues THEN "ready" ELSE main
    /\ UNCHANGED <<sup, stopped>>

(* Mutant of SubscribeFails: the error is logged and the boot goes on.       *)
SubscribeFailsLogged ==
    /\ main = "subscribe"
    /\ Register
    /\ StartFails(Len(starters'))
    /\ main' = IF Len(starters') = Queues THEN "ready" ELSE main
    /\ UNCHANGED <<sup, stopped>>

(* The first subscription to fail ends the process.                          *)
SubscribeFails ==
    /\ main = "subscribe"
    /\ \/ Sound /\ owner[Len(starters) + 1] \notin {0, conn} /\ UNCHANGED used
       \/ Refused
    /\ Return

(* Mutant of Supervise: the goroutine is not counted.                        *)
SuperviseUncounted ==
    /\ main = "ready"
    /\ main' = "run"
    /\ sup' = At("notify")
    /\ UNCHANGED <<stopped, wg, starters, consumers, network, used>>

Supervise ==
    /\ main = "ready"
    /\ main' = "run"
    /\ sup' = At("notify")
    /\ wg' = wg + 1
    /\ UNCHANGED <<stopped, starters, consumers, network, used>>

(* The gateway's listener cannot be opened: run() returns, waiting for nobody. *)
ServeFails == main = "run" /\ Spend("failures", MaxFailures) /\ Return

(* SIGINT or SIGTERM, at any time.                                           *)
Signal ==
    /\ main # "out"
    /\ ~stopped
    /\ stopped' = TRUE
    /\ UNCHANGED <<main, sup, wg, starters, consumers, network, used>>

(* "quit", or the REPL sees that the context is done. The gateway has no     *)
(* REPL and only waits for the context.                                      *)
EndREPL ==
    /\ main = "run"
    /\ stopped' = TRUE
    /\ main' = "wait"
    /\ UNCHANGED <<sup, wg, starters, consumers, network, used>>

Wait == main = "wait" /\ wg = 0 /\ Return /\ UNCHANGED used

Crash ==
    /\ main # "out"
    /\ Spend("losses", MaxLosses)
    /\ Vanish
    /\ broken' = broken \cup {conn}
    /\ closed' = closed \cup {conn}
    /\ UNCHANGED <<conn, owner>>
-----------------------------------------------------------------------------
(* Supervise's goroutine.                                                    *)

Leave == sup' = Gone /\ wg' = wg - 1 /\ UNCHANGED <<main, stopped, starters, consumers,
                                                    network, used>>

(* A connection the library has already shut down closes the channel at      *)
(* once, which looks like an orderly close: the goroutine returns.           *)
NotifyClosed == sup.pc = "notify" /\ conn \in closed /\ Leave

Notify ==
    /\ sup.pc = "notify"
    /\ conn \notin closed
    /\ sup' = At("listen")
    /\ UNCHANGED <<main, stopped, wg, starters, consumers, network, used>>

(* Mutant of ConnectionLost: every end of the connection is taken for an     *)
(* orderly one.                                                              *)
ConnectionLostIgnored == sup.pc = "listen" /\ conn \in closed /\ Leave

ConnectionLost ==
    /\ sup.pc = "listen"
    /\ conn \in closed
    /\ sup' = At("redial")
    /\ UNCHANGED <<main, stopped, wg, starters, consumers, network, used>>

ContextDone == sup.pc \in {"listen", "redial"} /\ stopped /\ Leave

(* An attempt that succeeds; those that fail change nothing but the delay.   *)
Redial ==
    /\ sup.pc = "redial"
    /\ conn' = conn + 1
    /\ sup' = At("redeclare")
    /\ UNCHANGED <<main, stopped, wg, starters, consumers, broken, closed, owner, used>>

Redeclare ==
    /\ sup.pc = "redeclare"
    /\ Sound
    /\ sup' = [pc |-> "start", todo |-> [i \in DOMAIN starters |-> i]]
    /\ UNCHANGED <<main, stopped, wg, starters, consumers, network, used>>

(* continue: no starter runs until the next loss.                            *)
RedeclareFails ==
    /\ sup.pc = "redeclare"
    /\ Refused
    /\ sup' = At("notify")
    /\ UNCHANGED <<main, stopped, wg, starters, consumers, network>>

(* Mutant of NextStarter: the end of the list is missed.                     *)
NextStarterTail == sup' = [sup EXCEPT !.todo = Tail(@)]

NextStarter ==
    sup' = IF Len(sup.todo) = 1 THEN At("notify") ELSE [sup EXCEPT !.todo = Tail(@)]

(* Mutant of Restart: a new subscription, which registers its starter too.   *)
RestartRegistered ==
    /\ sup.pc = "start"
    /\ starters' = Append(starters, starters[Head(sup.todo)])
    /\ Start(Head(sup.todo))
    /\ NextStarter
    /\ UNCHANGED <<main, stopped>>

Restart ==
    /\ sup.pc = "start"
    /\ UNCHANGED starters
    /\ Start(Head(sup.todo))
    /\ NextStarter
    /\ UNCHANGED <<main, stopped>>

(* The error is logged and the next starter runs.                            *)
RestartFails ==
    /\ sup.pc = "start"
    /\ UNCHANGED starters
    /\ StartFails(Head(sup.todo))
    /\ NextStarter
    /\ UNCHANGED <<main, stopped>>
-----------------------------------------------------------------------------
(* The network.                                                              *)

Break ==
    /\ main # "out"
    /\ Sound
    /\ Spend("losses", MaxLosses)
    /\ broken' = broken \cup {conn}
    /\ UNCHANGED <<program, conn, closed, owner>>

(* The library reads an error or misses the broker's heartbeats.             *)
LibraryNotices ==
    /\ \E n \in broken \ closed : closed' = closed \cup {n}
    /\ UNCHANGED <<program, conn, broken, owner, used>>

(* The broker gives a dead connection's exclusive queues up.                 *)
BrokerNotices ==
    /\ \E n \in broken : Release(n) # owner /\ owner' = Release(n)
    /\ UNCHANGED <<program, conn, broken, closed, used>>
-----------------------------------------------------------------------------
Boot == \/ DeclareAtBoot \/ DeclareAtBootFails
        \/ Subscribe \/ SubscribeFails \/ Supervise

Supervising == \/ NotifyClosed \/ Notify \/ ConnectionLost \/ ContextDone
               \/ Redial \/ Redeclare \/ RedeclareFails
               \/ Restart \/ RestartFails

Next ==
    \/ Dial \/ Welcome \/ NoName \/ Boot
    \/ ServeFails \/ Signal \/ EndREPL \/ Wait \/ Crash
    \/ Supervising
    \/ \E c \in consumers : ConsumerEnds(c)
    \/ Break \/ LibraryNotices \/ BrokerNotices

Spec == Init /\ [][Next]_vars

(* Goroutines run, a broker that is dialled often enough answers, and both   *)
(* ends find out about a dead connection. Nobody has to start the process,   *)
(* type a name or quit, and nothing has to break or fail.                    *)
Fairness ==
    /\ WF_vars(Boot)
    /\ WF_vars(stopped /\ EndREPL)
    /\ WF_vars(Wait)
    /\ WF_vars(Supervising)
    /\ \A c \in Kinds \X Connections : WF_vars(c \in consumers /\ ConsumerEnds(c))
    /\ WF_vars(LibraryNotices)
    /\ WF_vars(BrokerNotices)

LiveSpec == Spec /\ Fairness
-----------------------------------------------------------------------------
Consumed(q) == \E c \in consumers : starters[c[1]] = q /\ c[2] = conn

Serving == main \in {"ready", "run"} /\ ~stopped

(* From outside the process is a Session: it joins with all its queues, a    *)
(* lost connection takes them away, and they come back one by one.           *)
Outside == INSTANCE Session WITH
    phase <- IF ~Serving THEN "out" ELSE IF Sound THEN "up" ELSE "down",
    subs  <- IF Serving /\ Sound THEN {q \in Kinds : Consumed(q)} ELSE {}

ImplementsSession == Outside!Spec

(* However often it reconnects, no queue has two goroutines taking messages  *)
(* from it over one connection: handlers of a queue run one at a time.       *)
OneConsumerPerQueue ==
    \A c, d \in consumers :
        c[2] = d[2] /\ starters[c[1]] = starters[d[1]] => c = d

(* When the WaitGroup lets run() go no goroutine is left that could still    *)
(* use the connection, not even one Supervise was about to start.            *)
NothingLeftBehind ==
    main = "wait" /\ wg = 0 => consumers = {} /\ sup = Gone

(* A stopped process ends, whatever its connection is doing; except that     *)
(* nothing wakes a client that waits for its user's name.                    *)
ShutdownEnds == (stopped /\ main # "welcome") ~> main = "out"

(* A connection that breaks while the supervisor listens is replaced.        *)
LossIsRepaired == (sup.pc = "listen" /\ ~Sound) ~> (Sound \/ stopped \/ main = "out")

(* What the code is expected to do and does not.                             *)

(* Every client consumes its queues (README): a client that has lost its     *)
(* connection ends up consuming all of them again.                           *)
EveryQueueIsConsumed ==
    main = "run" ~> \/ Sound /\ \A q \in Kinds : Consumed(q)
                    \/ stopped \/ main = "out"
=============================================================================
