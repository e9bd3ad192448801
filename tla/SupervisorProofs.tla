--------------------------- MODULE SupervisorProofs ---------------------------
(* What a process and its supervisor promise, for any number of queues,      *)
(* restarts, losses and failures: no queue is consumed twice over a          *)
(* connection, shutdown leaves no goroutine behind, a process is given up    *)
(* only over a closed connection, and it is a Session from outside.          *)
EXTENDS Supervisor, FiniteSetTheorems, SequenceTheorems, TLAPS

Alive == sup.pc \notin {"off", "gone"}

(* The WaitGroup counts the goroutines.                                      *)
CountInv ==
    /\ IsFiniteSet(consumers)
    /\ wg = Cardinality(consumers) + (IF Alive THEN 1 ELSE 0)

(* Every connection was made by a start or repaired a loss.                  *)
ConnInv ==
    /\ used.starts <= MaxStarts /\ used.losses <= MaxLosses
    /\ conn <= used.starts + used.losses
    /\ main # "out" /\ conn \in broken => conn + 1 <= used.starts + used.losses
    /\ main # "out" => conn > 0
    /\ \A n \in broken : n <= conn
    /\ Alive => main \in {"run", "wait"}
    /\ sup.pc = "redial" => conn \in closed

(* The starters are those of the queues in order, all of them once the boot  *)
(* is over, and every consumer is one of theirs.                             *)
StarterInv ==
    /\ Len(starters) <= Queues
    /\ \A i \in DOMAIN starters : starters[i] = i
    /\ main \in {"out", "welcome", "declare"} => starters = <<>>
    /\ main = "subscribe" => Len(starters) < Queues
    /\ main \in {"ready", "run", "wait"} => Len(starters) = Queues
    /\ \A c \in consumers : c[1] \in DOMAIN starters /\ c[2] <= conn
    /\ main \in {"run", "wait"} <=> sup.pc # "off"

(* A starter that has yet to run has no consumer on the new connection.      *)
RestartInv ==
    /\ sup.pc = "redeclare" => \A c \in consumers : c[2] # conn
    /\ sup.pc = "start" =>
          /\ \A i, j \in DOMAIN sup.todo : sup.todo[i] = sup.todo[j] => i = j
          /\ \A i \in DOMAIN sup.todo : /\ sup.todo[i] \in DOMAIN starters
                                        /\ <<sup.todo[i], conn>> \notin consumers

(* During the boot a consumer stops for a signal or a lost connection only.  *)
BootInv ==
    main = "subscribe" /\ ~stopped /\ conn \notin closed =>
        \A i \in DOMAIN starters : <<i, conn>> \in consumers

ProcessInv ==
    TypeOK /\ CountInv /\ ConnInv /\ StarterInv /\ RestartInv /\ BootInv
-----------------------------------------------------------------------------
(* Spending some of a bound.                                                 *)
LEMMA SpendFacts ==
    ASSUME TypeOK, NEW what \in {"starts", "losses", "failures"}, NEW bound \in Nat,
           Spend(what, bound)
    PROVE  /\ used[what] < bound
           /\ used' \in [starts : Nat, losses : Nat, failures : Nat]
           /\ used'[what] = used[what] + 1
           /\ \A w \in {"starts", "losses", "failures"} \ {what} : used'[w] = used[w]
BY DEF TypeOK, Spend

(* An error of an operation changes at most the failures.                    *)
LEMMA RefusedFacts ==
    ASSUME TypeOK, Refused
    PROVE  /\ used' \in [starts : Nat, losses : Nat, failures : Nat]
           /\ used'.starts = used.starts /\ used'.losses = used.losses
           /\ conn \in closed \/ Sound
<1>1. CASE conn \in closed /\ UNCHANGED used  BY <1>1 DEF TypeOK
<1>2. CASE Sound /\ Spend("failures", MaxFailures)
  <2>1. MaxFailures \in Nat  BY SupervisorAssumption
  <2> QED  BY <1>2, <2>1, SpendFacts
<1> QED  BY <1>1, <1>2 DEF Refused

(* The end of the process.                                                   *)
LEMMA VanishFacts ==
    ASSUME Vanish
    PROVE  /\ main' = "out" /\ sup' = Off /\ sup'.pc = "off" /\ stopped' = FALSE /\ wg' = 0
           /\ starters' = <<>> /\ consumers' = {}
           /\ ~Alive'
           /\ Cardinality(consumers') = 0 /\ IsFiniteSet(consumers')
BY FS_EmptySet DEF Vanish, Off, Alive

(* What the states of the supervising goroutine are.                         *)
LEMMA SupFacts ==
    /\ Off.pc = "off" /\ Gone.pc = "gone"
    /\ \A step : At(step).pc = step
BY DEF Off, Gone, At

(* The steps of the environment and of the goroutines, by what they leave.   *)
LEMMA NetworkSteps ==
    ASSUME TypeOK, Break \/ LibraryNotices \/ BrokerNotices
    PROVE  /\ UNCHANGED <<main, sup, stopped, wg, starters, consumers, conn>>
           /\ broken \subseteq broken' /\ closed \subseteq closed' /\ closed' \subseteq broken'
           /\ broken' \subseteq broken \cup {conn}
           /\ owner' \in [Kinds -> {0} \cup Connections]
           /\ used' \in [starts : Nat, losses : Nat, failures : Nat]
           /\ used'.starts = used.starts
           /\ \/ used' = used /\ broken' = broken
              \/ /\ main # "out" /\ Sound
                 /\ used.losses < MaxLosses /\ used'.losses = used.losses + 1
<1>1. CASE Break
  <2>1. Spend("losses", MaxLosses) /\ MaxLosses \in Nat
    BY <1>1, SupervisorAssumption DEF Break
  <2>2. /\ used.losses < MaxLosses /\ used'.losses = used.losses + 1
        /\ used'.starts = used.starts
        /\ used' \in [starts : Nat, losses : Nat, failures : Nat]
    BY <2>1, SpendFacts
  <2> QED  BY <1>1, <2>2 DEF Break, program, TypeOK
<1>2. CASE LibraryNotices
  BY <1>2 DEF LibraryNotices, program, TypeOK
<1>3. CASE BrokerNotices
  BY <1>3 DEF BrokerNotices, program, TypeOK, Release
<1> QED  BY <1>1, <1>2, <1>3
-----------------------------------------------------------------------------
(* The steps of run() that end the process.                                  *)
Ending == \/ NoName \/ DeclareAtBootFails \/ SubscribeFails \/ ServeFails \/ Wait \/ Crash

(* A process that ends takes its goroutines and its connection along.        *)
LEMMA EndingFacts ==
    ASSUME TypeOK, Ending
    PROVE  /\ Vanish /\ main # "out" /\ conn' = conn
           /\ broken' = broken \cup {conn} /\ closed' = closed \cup {conn}
           /\ owner' \in [Kinds -> {0} \cup Connections]
           /\ used' \in [starts : Nat, losses : Nat, failures : Nat]
           /\ used'.starts = used.starts
           /\ used'.losses >= used.losses
           /\ used.losses <= MaxLosses => used'.losses <= MaxLosses
<1>0. {MaxStarts, MaxLosses, MaxFailures} \subseteq Nat  BY SupervisorAssumption
<1>u. used \in [starts : Nat, losses : Nat, failures : Nat] /\ owner \in [Kinds -> {0} \cup Connections]
  BY DEF TypeOK
<1>r. Release(conn) \in [Kinds -> {0} \cup Connections]  BY <1>u DEF Release
<1>1. CASE NoName \/ Wait
  BY <1>1, <1>u, <1>r DEF NoName, Wait, Return
<1>2. CASE DeclareAtBootFails \/ SubscribeFails
  <2>1. Return /\ (Refused \/ UNCHANGED used) /\ main # "out"
    BY <1>2 DEF DeclareAtBootFails, SubscribeFails
  <2>2. /\ used' \in [starts : Nat, losses : Nat, failures : Nat]
        /\ used'.starts = used.starts /\ used'.losses = used.losses
    BY <1>u, <2>1, RefusedFacts
  <2> QED  BY <1>u, <1>r, <2>1, <2>2 DEF Return
<1>3. CASE ServeFails
  <2>1. Return /\ Spend("failures", MaxFailures) /\ main # "out"  BY <1>3 DEF ServeFails
  <2>2. /\ used' \in [starts : Nat, losses : Nat, failures : Nat]
        /\ used'.starts = used.starts /\ used'.losses = used.losses
    BY <1>0, <2>1, SpendFacts
  <2> QED  BY <1>u, <1>r, <2>1, <2>2 DEF Return
<1>4. CASE Crash
  <2>1. Spend("losses", MaxLosses)  BY <1>4 DEF Crash
  <2>2. /\ used' \in [starts : Nat, losses : Nat, failures : Nat]
        /\ used'.starts = used.starts /\ used'.losses = used.losses + 1
        /\ used.losses < MaxLosses
    BY <1>0, <2>1, SpendFacts
  <2> QED  BY <1>0, <1>4, <1>u, <2>2 DEF Crash
<1> QED  BY <1>1, <1>2, <1>3, <1>4 DEF Ending

(* The steps that start a consumer, and those that fail to.                  *)
LEMMA StartFacts ==
    ASSUME TypeOK, NEW i, starters'[i] \in Kinds, conn \in Connections,
           Start(i) \/ StartFails(i)
    PROVE  /\ UNCHANGED <<conn, broken, closed>>
           /\ owner' \in [Kinds -> {0} \cup Connections]
           /\ used' \in [starts : Nat, losses : Nat, failures : Nat]
           /\ used'.starts = used.starts /\ used'.losses = used.losses
           /\ \/ Sound /\ consumers' = consumers \cup {<<i, conn>>} /\ wg' = wg + 1
              \/ UNCHANGED <<consumers, wg>>
<1>u. used \in [starts : Nat, losses : Nat, failures : Nat] /\ owner \in [Kinds -> {0} \cup Connections]
  BY DEF TypeOK
<1>1. CASE Start(i)
  BY <1>1, <1>u DEF Start
<1>2. CASE StartFails(i)
  <2> DEFINE q == starters'[i]
  <2>1. Refused \/ UNCHANGED used  BY <1>2 DEF StartFails
  <2>2. owner' = owner \/ owner' = [owner EXCEPT ![q] = conn]  BY <1>2 DEF StartFails
  <2>3. owner' \in [Kinds -> {0} \cup Connections]  BY <1>u, <2>2
  <2>4. /\ used' \in [starts : Nat, losses : Nat, failures : Nat]
        /\ used'.starts = used.starts /\ used'.losses = used.losses
    BY <1>u, <2>1, RefusedFacts
  <2> QED  BY <1>2, <2>3, <2>4 DEF StartFails
<1> QED  BY <1>1, <1>2

(* The steps of the supervising goroutine that only change where it is.      *)
LEMMA LeaveFacts ==
    ASSUME NotifyClosed \/ ContextDone
    PROVE  /\ Alive /\ sup' = Gone /\ ~Alive' /\ wg' = wg - 1
           /\ UNCHANGED <<main, stopped, starters, consumers, network, used>>
BY SupFacts DEF NotifyClosed, ContextDone, Leave, Alive

(* The supervisor's own walk to a redial starts and ends nobody.             *)
LEMMA WalkFacts ==
    ASSUME TypeOK, Notify \/ ConnectionLost \/ Redeclare \/ RedeclareFails
    PROVE  /\ Alive /\ Alive' /\ sup'.pc # "redeclare"
           /\ sup'.pc = "redial" => conn \in closed
           /\ UNCHANGED <<main, stopped, wg, starters, consumers, network>>
           /\ used' \in [starts : Nat, losses : Nat, failures : Nat]
           /\ used'.starts = used.starts /\ used'.losses = used.losses
<1>1. CASE Notify \/ ConnectionLost \/ Redeclare
  BY <1>1, SupFacts DEF Notify, ConnectionLost, Redeclare, Alive, TypeOK
<1>2. CASE RedeclareFails
  BY <1>2, SupFacts, RefusedFacts DEF RedeclareFails, Alive
<1> QED  BY <1>1, <1>2

(* A redial makes a new connection and no consumer.                          *)
LEMMA RedialFacts ==
    ASSUME Redial
    PROVE  /\ Alive /\ Alive' /\ sup.pc = "redial" /\ sup'.pc = "redeclare" /\ conn' = conn + 1
           /\ UNCHANGED <<main, stopped, wg, starters, consumers, broken, closed, owner, used>>
BY SupFacts DEF Redial, Alive

(* The rest of the steps: one more starter.                                  *)
Restarting == Restart \/ RestartFails

(* The supervisor goes on to the next starter, or back to wait for the next  *)
(* loss.                                                                     *)
LEMMA NextStarterFacts ==
    ASSUME TypeOK, sup.pc = "start", NextStarter
    PROVE  /\ sup \in [pc : {"start"}, todo : Seq(Kinds) \ {<<>>}]
           /\ Head(sup.todo) \in Kinds /\ Head(sup.todo) = sup.todo[1] /\ 1 \in DOMAIN sup.todo
           /\ Alive /\ Alive'
           /\ \/ sup' = At("notify") /\ sup'.pc = "notify"
              \/ /\ sup' \in [pc : {"start"}, todo : Seq(Kinds) \ {<<>>}]
                 /\ sup'.pc = "start" /\ sup'.todo = Tail(sup.todo)
<1>1. sup \in [pc : {"start"}, todo : Seq(Kinds) \ {<<>>}]  BY DEF TypeOK
<1>2. sup.todo \in Seq(Kinds) /\ sup.todo # <<>>  BY <1>1
<1>3. /\ Head(sup.todo) \in Kinds /\ Head(sup.todo) = sup.todo[1] /\ 1 \in DOMAIN sup.todo
      /\ Len(sup.todo) \in Nat /\ Len(sup.todo) > 0
      /\ Tail(sup.todo) \in Seq(Kinds) /\ Len(Tail(sup.todo)) = Len(sup.todo) - 1
  BY <1>2
<1>4. CASE Len(sup.todo) = 1
  BY <1>1, <1>3, <1>4, SupFacts DEF NextStarter, Alive
<1>5. CASE Len(sup.todo) # 1
  <2>1. Len(Tail(sup.todo)) # 0  BY <1>3, <1>5
  <2>2. Tail(sup.todo) # <<>>
    <3>1. Len(<<>>) = 0  OBVIOUS
    <3> QED  BY <2>1, <3>1, Zenon
  <2>3. sup' = [sup EXCEPT !.todo = Tail(sup.todo)]  BY <1>5 DEF NextStarter
  <2> QED  BY <1>1, <1>3, <2>2, <2>3 DEF Alive
<1> QED  BY <1>4, <1>5

(* A starter that is run again has no consumer on this connection yet.       *)
LEMMA RestartFacts ==
    ASSUME ProcessInv, Restarting
    PROVE  /\ sup.pc = "start" /\ NextStarter
           /\ Head(sup.todo) \in DOMAIN starters /\ Head(sup.todo) \in Kinds
           /\ <<Head(sup.todo), conn>> \notin consumers
           /\ conn \in Connections
           /\ UNCHANGED <<main, stopped, starters, conn, broken, closed>>
           /\ owner' \in [Kinds -> {0} \cup Connections]
           /\ used' \in [starts : Nat, losses : Nat, failures : Nat]
           /\ used'.starts = used.starts /\ used'.losses = used.losses
           /\ \/ /\ Sound /\ consumers' = consumers \cup {<<Head(sup.todo), conn>>}
                 /\ wg' = wg + 1
              \/ UNCHANGED <<consumers, wg>>
<1> DEFINE h == Head(sup.todo)
<1>1. /\ TypeOK /\ sup.pc = "start" /\ NextStarter /\ UNCHANGED <<starters, main, stopped>>
      /\ Start(h) \/ StartFails(h)
  BY DEF ProcessInv, Restarting, Restart, RestartFails
<1>2. h \in Kinds /\ h = sup.todo[1] /\ 1 \in DOMAIN sup.todo /\ Alive
  BY <1>1, NextStarterFacts
<1>3. h \in DOMAIN starters /\ <<h, conn>> \notin consumers
  BY <1>1, <1>2 DEF ProcessInv, RestartInv
<1>4. conn \in Connections
  BY <1>2, SupervisorAssumption DEF ProcessInv, ConnInv, TypeOK
<1>5. starters'[h] \in Kinds
  BY <1>1, <1>2, <1>3 DEF ProcessInv, StarterInv
<1> HIDE DEF h
<1>6. /\ UNCHANGED <<conn, broken, closed>>
      /\ owner' \in [Kinds -> {0} \cup Connections]
      /\ used' \in [starts : Nat, losses : Nat, failures : Nat]
      /\ used'.starts = used.starts /\ used'.losses = used.losses
      /\ \/ Sound /\ consumers' = consumers \cup {<<h, conn>>} /\ wg' = wg + 1
         \/ UNCHANGED <<consumers, wg>>
  BY <1>1, <1>4, <1>5, StartFacts
<1> QED  BY <1>1, <1>2, <1>3, <1>4, <1>6 DEF h

(* The boot subscribes to the next queue.                                    *)
LEMMA SubscribeFacts ==
    ASSUME ProcessInv, Subscribe
    PROVE  /\ main = "subscribe" /\ sup.pc = "off" /\ Sound /\ conn \in Connections
           /\ Len(starters) + 1 \in Kinds /\ starters' \in Seq(Kinds)
           /\ starters' = Append(starters, Len(starters) + 1)
           /\ Len(starters') = Len(starters) + 1 /\ DOMAIN starters' = 1..(Len(starters) + 1)
           /\ \A i \in DOMAIN starters : starters'[i] = starters[i]
           /\ starters'[Len(starters) + 1] = Len(starters) + 1
           /\ consumers' = consumers \cup {<<Len(starters) + 1, conn>>}
           /\ <<Len(starters) + 1, conn>> \notin consumers
           /\ wg' = wg + 1
           /\ main' = IF Len(starters') = Queues THEN "ready" ELSE "subscribe"
           /\ owner' \in [Kinds -> {0} \cup Connections]
           /\ UNCHANGED <<sup, stopped, conn, broken, closed, used>>
<1>1. /\ TypeOK /\ main = "subscribe" /\ starters \in Seq(Kinds) /\ Len(starters) < Queues
      /\ starters' = Append(starters, Len(starters) + 1)
  BY DEF ProcessInv, Subscribe, Register, StarterInv, TypeOK
<1>2. Len(starters) + 1 \in Kinds /\ Len(starters) \in Nat /\ DOMAIN starters = 1..Len(starters)
  BY <1>1, SupervisorAssumption DEF Kinds
<1>3. /\ starters' \in Seq(Kinds)
      /\ Len(starters') = Len(starters) + 1 /\ DOMAIN starters' = 1..(Len(starters) + 1)
      /\ \A i \in DOMAIN starters : starters'[i] = starters[i]
      /\ starters'[Len(starters) + 1] = Len(starters) + 1
  BY <1>1, <1>2
<1>4. Start(Len(starters) + 1)  BY <1>3 DEF Subscribe
<1>5. /\ Sound /\ consumers' = consumers \cup {<<Len(starters) + 1, conn>>} /\ wg' = wg + 1
      /\ UNCHANGED <<conn, broken, closed, used>>
      /\ \E q \in Kinds : owner' = [owner EXCEPT ![q] = conn]
  BY <1>2, <1>3, <1>4 DEF Start
<1>6. conn \in Connections
  BY <1>1, SupervisorAssumption DEF ProcessInv, ConnInv, TypeOK, Connections
<1>7. owner' \in [Kinds -> {0} \cup Connections]
  BY <1>1, <1>5, <1>6 DEF TypeOK
<1>8. <<Len(starters) + 1, conn>> \notin consumers
  BY <1>2 DEF ProcessInv, StarterInv
<1>9. sup.pc = "off"  BY <1>1 DEF ProcessInv, StarterInv
<1> QED  BY <1>1, <1>2, <1>3, <1>5, <1>6, <1>7, <1>8, <1>9 DEF Subscribe

(* A consumer's goroutine returns.                                           *)
LEMMA ConsumerEndsFacts ==
    ASSUME TypeOK, NEW c \in consumers, ConsumerEnds(c)
    PROVE  /\ consumers' = consumers \ {c} /\ wg' = wg - 1
           /\ stopped \/ c[2] \in closed
           /\ owner' \in [Kinds -> {0} \cup Connections]
           /\ UNCHANGED <<main, sup, stopped, starters, conn, broken, closed, used>>
BY DEF ConsumerEnds, TypeOK

(* Every step is one of these.                                               *)
LEMMA Cases ==
    ASSUME [Next]_vars
    PROVE  \/ Dial \/ Welcome \/ DeclareAtBoot \/ Subscribe \/ Supervise
           \/ Signal \/ EndREPL \/ Ending
           \/ NotifyClosed \/ ContextDone
           \/ Notify \/ ConnectionLost \/ Redeclare \/ RedeclareFails
           \/ Redial \/ Restarting
           \/ \E c \in consumers : ConsumerEnds(c)
           \/ Break \/ LibraryNotices \/ BrokerNotices
           \/ UNCHANGED vars
BY DEF Next, Boot, Supervising, Ending, Restarting
-----------------------------------------------------------------------------
(* Every step keeps the WaitGroup's count right.                             *)
LEMMA CountStep ==
    ASSUME ProcessInv, [Next]_vars
    PROVE  CountInv'
<1> USE DEF CountInv
<1>0. /\ TypeOK /\ IsFiniteSet(consumers) /\ Cardinality(consumers) \in Nat
      /\ wg = Cardinality(consumers) + (IF Alive THEN 1 ELSE 0)
  BY FS_CardinalityType DEF ProcessInv
<1>a. ASSUME NEW c, c \notin consumers
      PROVE  /\ IsFiniteSet(consumers \cup {c})
             /\ Cardinality(consumers \cup {c}) = Cardinality(consumers) + 1
  BY <1>0, <1>a, FS_AddElement
<1>1. CASE Dial \/ Welcome \/ DeclareAtBoot \/ Signal \/ EndREPL \/ UNCHANGED vars
  BY <1>0, <1>1 DEF Dial, Welcome, DeclareAtBoot, Signal, EndREPL, vars, program, Alive
<1>2. CASE Subscribe
  <2>1. UNCHANGED Alive  BY <1>2, SubscribeFacts DEF Alive
  <2>2. PICK c : c \notin consumers /\ consumers' = consumers \cup {c} /\ wg' = wg + 1
    BY <1>2, SubscribeFacts
  <2>3. /\ IsFiniteSet(consumers \cup {c})
        /\ Cardinality(consumers \cup {c}) = Cardinality(consumers) + 1
    BY <1>a, <2>2
  <2> QED  BY <1>0, <2>1, <2>2, <2>3
<1>3. CASE Supervise
  <2>1. sup.pc = "off"  BY <1>3 DEF ProcessInv, StarterInv, Supervise
  <2> QED  BY <1>0, <1>3, <2>1, SupFacts DEF Supervise, Alive
<1>4. CASE Ending
  BY <1>0, <1>4, EndingFacts, VanishFacts
<1>5. CASE NotifyClosed \/ ContextDone
  BY <1>0, <1>5, LeaveFacts
<1>6. CASE Notify \/ ConnectionLost \/ Redeclare \/ RedeclareFails
  BY <1>0, <1>6, WalkFacts
<1>7. CASE Redial
  BY <1>0, <1>7, RedialFacts
<1>8. CASE Restarting
  <2>1. Alive /\ Alive'  BY <1>0, <1>8, RestartFacts, NextStarterFacts
  <2> QED  BY <1>0, <1>a, <1>8, <2>1, RestartFacts
<1>9. CASE \E c \in consumers : ConsumerEnds(c)
  <2>1. PICK c \in consumers : ConsumerEnds(c)  BY <1>9
  <2>2. consumers' = consumers \ {c} /\ wg' = wg - 1 /\ UNCHANGED sup
    BY <1>0, <2>1, ConsumerEndsFacts
  <2>3. IsFiniteSet(consumers \ {c}) /\ Cardinality(consumers \ {c}) = Cardinality(consumers) - 1
    BY <1>0, <2>1, FS_RemoveElement
  <2>4. UNCHANGED Alive  BY <2>2 DEF Alive
  <2> QED  BY <1>0, <2>2, <2>3, <2>4
<1>10. CASE Break \/ LibraryNotices \/ BrokerNotices
  <2>1. UNCHANGED Alive  BY <1>0, <1>10, NetworkSteps DEF Alive
  <2> QED  BY <1>0, <1>10, <2>1, NetworkSteps
<1> QED  BY <1>1, <1>2, <1>3, <1>4, <1>5, <1>6, <1>7, <1>8, <1>9, <1>10, Cases

(* Every step keeps the connections accounted for by starts and losses.      *)
LEMMA ConnStep ==
    ASSUME ProcessInv, [Next]_vars
    PROVE  ConnInv'
<1> USE DEF ConnInv
<1>0. TypeOK /\ ConnInv /\ MaxStarts \in Nat /\ MaxLosses \in Nat
  BY SupervisorAssumption DEF ProcessInv
<1>t. /\ conn \in Nat /\ used.starts \in Nat /\ used.losses \in Nat
      /\ broken \subseteq Connections /\ Connections \subseteq Nat /\ closed \subseteq broken
  BY <1>0 DEF TypeOK, Connections
<1>l. sup.pc # "off" <=> main \in {"run", "wait"}
  BY DEF ProcessInv, StarterInv
<1>1. CASE Dial
  <2>1. Spend("starts", MaxStarts)  BY <1>1 DEF Dial
  <2>2. /\ used.starts < MaxStarts /\ used'.starts = used.starts + 1
        /\ used'.losses = used.losses
    BY <1>0, <2>1, SpendFacts
  <2>3. ~Alive  BY <1>1, <1>l DEF Dial, Alive
  <2> QED  BY <1>0, <1>t, <1>1, <2>2, <2>3 DEF Dial, Alive
<1>2. CASE Welcome \/ DeclareAtBoot \/ Signal \/ EndREPL \/ UNCHANGED vars
  BY <1>0, <1>t, <1>2, <1>l
  DEF Welcome, DeclareAtBoot, Signal, EndREPL, vars, program, network, Alive
<1>3. CASE Subscribe
  BY <1>0, <1>t, <1>3, SubscribeFacts DEF Alive
<1>4. CASE Supervise
  BY <1>0, <1>t, <1>4, SupFacts DEF Supervise, Alive, network
<1>5. CASE Ending
  <2>1. /\ main' = "out" /\ sup'.pc = "off" /\ ~Alive' /\ UNCHANGED conn
        /\ broken' = broken \cup {conn}
        /\ used'.starts = used.starts /\ used'.losses >= used.losses
        /\ used'.losses <= MaxLosses /\ used'.losses \in Nat
    BY <1>0, <1>5, EndingFacts, VanishFacts
  <2> QED  BY <1>0, <1>t, <2>1
<1>6. CASE NotifyClosed \/ ContextDone
  BY <1>0, <1>t, <1>6, LeaveFacts, SupFacts DEF network
<1>7. CASE Notify \/ ConnectionLost \/ Redeclare \/ RedeclareFails
  BY <1>0, <1>t, <1>7, WalkFacts DEF network
<1>8. CASE Redial
  <2>1. conn \in broken /\ main # "out"  BY <1>0, <1>t, <1>8, RedialFacts
  <2>2. conn + 1 \notin broken  BY <1>0, <1>t
  <2>3. /\ UNCHANGED <<main, broken, closed, used>> /\ conn' = conn + 1
        /\ sup'.pc = "redeclare" /\ Alive
    BY <1>8, RedialFacts
  <2> QED  BY <1>0, <1>t, <2>1, <2>2, <2>3
<1>9. CASE Restarting
  <2>1. Alive /\ Alive' /\ sup'.pc # "redial"
    BY <1>0, <1>9, RestartFacts, NextStarterFacts
  <2> QED  BY <1>0, <1>t, <1>9, <2>1, RestartFacts
<1>10. CASE \E c \in consumers : ConsumerEnds(c)
  <2>1. UNCHANGED <<main, sup, conn, broken, closed, used>>
    BY <1>0, <1>10, ConsumerEndsFacts
  <2> QED  BY <1>0, <2>1 DEF Alive
<1>11. CASE Break \/ LibraryNotices \/ BrokerNotices
  <2>1. UNCHANGED <<main, sup, conn>> /\ UNCHANGED Alive
    BY <1>0, <1>11, NetworkSteps DEF Alive
  <2>2. used'.starts = used.starts /\ broken' \subseteq broken \cup {conn}
        /\ closed \subseteq closed'
    BY <1>0, <1>11, NetworkSteps
  <2>3. CASE used' = used /\ broken' = broken
    BY <1>0, <1>t, <2>1, <2>2, <2>3
  <2>4. CASE used.losses < MaxLosses /\ used'.losses = used.losses + 1
    BY <1>0, <1>t, <2>1, <2>2, <2>4
  <2> QED  BY <1>0, <1>11, <2>3, <2>4, NetworkSteps
<1> QED  BY <1>1, <1>2, <1>3, <1>4, <1>5, <1>6, <1>7, <1>8, <1>9, <1>10, <1>11, Cases

(* Every step keeps the starters in order and the consumers theirs.          *)
LEMMA StarterStep ==
    ASSUME ProcessInv, [Next]_vars
    PROVE  StarterInv'
<1> USE DEF StarterInv
<1>0. /\ TypeOK /\ StarterInv /\ Queues \in Nat \ {0} /\ conn \in Nat /\ starters \in Seq(Kinds)
      /\ consumers \subseteq Kinds \X Connections /\ Connections \subseteq Nat
  BY SupervisorAssumption DEF ProcessInv, TypeOK, Connections
<1>1. CASE Dial
  BY <1>0, <1>1 DEF Dial
<1>2. CASE Welcome \/ DeclareAtBoot \/ Signal \/ EndREPL \/ UNCHANGED vars
  BY <1>0, <1>2 DEF Welcome, DeclareAtBoot, Signal, EndREPL, vars, program, network
<1>3. CASE Subscribe
  <2>1. Len(starters) \in Nat /\ DOMAIN starters = 1..Len(starters)  BY <1>0
  <2>2. /\ main = "subscribe" /\ sup'.pc = "off" /\ conn' = conn
        /\ Len(starters') = Len(starters) + 1 /\ DOMAIN starters' = 1..(Len(starters) + 1)
        /\ \A i \in DOMAIN starters : starters'[i] = starters[i]
        /\ starters'[Len(starters) + 1] = Len(starters) + 1
        /\ consumers' = consumers \cup {<<Len(starters) + 1, conn>>}
        /\ main' = IF Len(starters') = Queues THEN "ready" ELSE "subscribe"
    BY <1>3, SubscribeFacts
  <2>3. \A i \in DOMAIN starters' : starters'[i] = i  BY <1>0, <2>1, <2>2
  <2>4. \A c \in consumers' : c[1] \in DOMAIN starters' /\ c[2] <= conn
    BY <1>0, <2>1, <2>2
  <2>5. Len(starters') <= Queues /\ (main' = "subscribe" => Len(starters') < Queues)
    BY <1>0, <2>1, <2>2
  <2> QED  BY <2>2, <2>3, <2>4, <2>5
<1>4. CASE Supervise
  BY <1>0, <1>4, SupFacts DEF Supervise, network
<1>5. CASE Ending
  <2>1. Len(<<>>) = 0 /\ DOMAIN <<>> = {}  OBVIOUS
  <2> QED  BY <1>0, <1>5, <2>1, EndingFacts, VanishFacts
<1>6. CASE NotifyClosed \/ ContextDone
  BY <1>0, <1>6, LeaveFacts, SupFacts DEF network, Alive
<1>7. CASE Notify \/ ConnectionLost \/ Redeclare \/ RedeclareFails
  BY <1>0, <1>7, WalkFacts DEF network, Alive
<1>8. CASE Redial
  <2>1. /\ UNCHANGED <<main, starters, consumers>> /\ conn' = conn + 1
        /\ Alive /\ Alive'
    BY <1>8, RedialFacts
  <2>2. \A c \in consumers : c[2] \in Nat /\ c[2] <= conn  BY <1>0
  <2>3. \A c \in consumers : c[2] <= conn + 1  BY <1>0, <2>2
  <2> QED  BY <1>0, <2>1, <2>3 DEF Alive
<1>9. CASE Restarting
  <2>1. Alive /\ Alive'
    BY <1>0, <1>9, RestartFacts, NextStarterFacts
  <2> QED  BY <1>0, <1>9, <2>1, RestartFacts DEF Alive
<1>10. CASE \E c \in consumers : ConsumerEnds(c)
  BY <1>0, <1>10, ConsumerEndsFacts
<1>11. CASE Break \/ LibraryNotices \/ BrokerNotices
  BY <1>0, <1>11, NetworkSteps
<1> QED  BY <1>1, <1>2, <1>3, <1>4, <1>5, <1>6, <1>7, <1>8, <1>9, <1>10, <1>11, Cases

(* Every step keeps the types; the count and the connections give the        *)
(* bounds.                                                                   *)
LEMMA TypeStep ==
    ASSUME ProcessInv, [Next]_vars, CountInv', ConnInv'
    PROVE  TypeOK'
<1>0. TypeOK /\ {MaxStarts, MaxLosses, MaxFailures} \subseteq Nat
  BY SupervisorAssumption DEF ProcessInv
<1>w. wg' \in Nat
  BY FS_CardinalityType DEF CountInv
<1>1. CASE Dial
  <2>1. Spend("starts", MaxStarts)  BY <1>1 DEF Dial
  <2>2. used' \in [starts : Nat, losses : Nat, failures : Nat]  BY <1>0, <2>1, SpendFacts
  <2>3. conn + 1 \in Connections
    BY <1>0, <1>1, <2>2 DEF Dial, TypeOK, ConnInv, Connections
  <2> QED  BY <1>0, <1>1, <2>2, <2>3 DEF Dial, TypeOK
<1>2. CASE Welcome \/ DeclareAtBoot \/ Signal \/ EndREPL \/ UNCHANGED vars
  BY <1>0, <1>2 DEF Welcome, DeclareAtBoot, Signal, EndREPL, vars, program, network, TypeOK
<1>3. CASE Subscribe
  BY <1>0, <1>w, <1>3, SubscribeFacts DEF TypeOK
<1>4. CASE Supervise
  BY <1>0, <1>w, <1>4 DEF Supervise, TypeOK, network, At
<1>5. CASE Ending
  <2>1. conn \in Connections
    BY <1>0, <1>5, EndingFacts DEF ProcessInv, ConnInv, TypeOK
  <2>2. /\ main' = "out" /\ sup' \in [pc : {"off"}] /\ stopped' = FALSE
        /\ starters' \in Seq(Kinds) /\ consumers' = {} /\ UNCHANGED conn
        /\ broken' = broken \cup {conn} /\ closed' = closed \cup {conn}
        /\ owner' \in [Kinds -> {0} \cup Connections]
        /\ used' \in [starts : Nat, losses : Nat, failures : Nat]
    BY <1>0, <1>5, EndingFacts, VanishFacts DEF Off
  <2> QED  BY <1>0, <1>w, <2>1, <2>2 DEF TypeOK
<1>6. CASE NotifyClosed \/ ContextDone
  BY <1>0, <1>w, <1>6, LeaveFacts DEF TypeOK, network, Gone
<1>7. CASE Notify \/ ConnectionLost \/ RedeclareFails
  <2>1. sup' \in [pc : {"off", "notify", "listen", "redial", "redeclare", "gone"}]
    BY <1>7 DEF Notify, ConnectionLost, RedeclareFails, At
  <2> QED  BY <1>0, <1>7, <2>1, WalkFacts DEF TypeOK, network
<1>8. CASE Redeclare
  <2>1. sup' = [pc |-> "start", todo |-> [i \in DOMAIN starters |-> i]]  BY <1>8 DEF Redeclare
  <2>2. /\ starters \in Seq(Kinds) /\ Len(starters) = Queues /\ Queues \in Nat \ {0}
    BY <1>0, <1>8, WalkFacts, SupervisorAssumption
    DEF ProcessInv, TypeOK, StarterInv, ConnInv
  <2>3. DOMAIN starters = 1..Queues  BY <2>2
  <2> DEFINE todo == [i \in 1..Queues |-> i]
  <2>4. todo \in Seq(Kinds)  BY <2>2 DEF Kinds
  <2>5. todo # <<>>
    <3>1. 1 \in DOMAIN todo  BY <2>2
    <3>2. DOMAIN <<>> = {}  OBVIOUS
    <3> HIDE DEF todo
    <3> QED  BY <3>1, <3>2
  <2>6. sup' \in [pc : {"start"}, todo : Seq(Kinds) \ {<<>>}]  BY <2>1, <2>3, <2>4, <2>5
  <2> QED  BY <1>0, <1>8, <2>6, WalkFacts DEF TypeOK, network
<1>9. CASE Redial
  <2>1. conn + 1 \in Connections
    BY <1>0, <1>9, RedialFacts DEF TypeOK, ConnInv, Connections
  <2>2. sup' \in [pc : {"redeclare"}]  BY <1>9 DEF Redial, At
  <2> QED  BY <1>0, <1>9, <2>1, <2>2, RedialFacts DEF TypeOK
<1>10. CASE Restarting
  <2>1. \/ sup' = At("notify")
        \/ sup' \in [pc : {"start"}, todo : Seq(Kinds) \ {<<>>}]
    BY <1>0, <1>10, RestartFacts, NextStarterFacts
  <2>2. \/ sup' \in [pc : {"notify"}]
        \/ sup' \in [pc : {"start"}, todo : Seq(Kinds) \ {<<>>}]
    BY <2>1 DEF At
  <2> QED  BY <1>0, <1>w, <1>10, <2>2, RestartFacts DEF TypeOK
<1>11. CASE \E c \in consumers : ConsumerEnds(c)
  BY <1>0, <1>w, <1>11, ConsumerEndsFacts DEF TypeOK
<1>12. CASE Break \/ LibraryNotices \/ BrokerNotices
  <2>1. broken' \subseteq Connections
    <3>1. CASE broken' = broken  BY <1>0, <3>1 DEF TypeOK
    <3>2. CASE main # "out"
      BY <1>0, <1>12, <3>2, NetworkSteps DEF ProcessInv, ConnInv, TypeOK
    <3> QED  BY <1>0, <1>12, <3>1, <3>2, NetworkSteps
  <2> QED  BY <1>0, <1>12, <2>1, NetworkSteps DEF TypeOK
<1> QED  BY <1>1, <1>2, <1>3, <1>4, <1>5, <1>6, <1>7, <1>8, <1>9, <1>10, <1>11, <1>12, Cases

(* Every step keeps the new connection free of those yet to be restarted.    *)
LEMMA RestartStep ==
    ASSUME ProcessInv, [Next]_vars
    PROVE  RestartInv'
<1> USE DEF RestartInv
<1>0. /\ TypeOK /\ RestartInv /\ conn \in Nat
      /\ \A c \in consumers : c[1] \in DOMAIN starters /\ c[2] \in Nat /\ c[2] <= conn
      /\ main \in {"run", "wait"} <=> sup.pc # "off"
  BY DEF ProcessInv, TypeOK, Connections, StarterInv
<1>1. CASE Dial \/ Subscribe
  <2>1. sup'.pc = "off"
    BY <1>0, <1>1, SubscribeFacts DEF Dial
  <2> QED  BY <2>1
<1>2. CASE Welcome \/ DeclareAtBoot \/ Signal \/ EndREPL \/ UNCHANGED vars
  BY <1>0, <1>2 DEF Welcome, DeclareAtBoot, Signal, EndREPL, vars, program, network
<1>3. CASE Supervise \/ Ending \/ NotifyClosed \/ ContextDone
           \/ Notify \/ ConnectionLost \/ RedeclareFails
  <2>1. sup'.pc \in {"off", "gone", "notify", "listen", "redial"}
    BY <1>0, <1>3, EndingFacts, VanishFacts, LeaveFacts, SupFacts
    DEF Supervise, Notify, ConnectionLost, RedeclareFails
  <2> QED  BY <2>1
<1>4. CASE Redeclare
  <2>1. /\ sup' = [pc |-> "start", todo |-> [i \in DOMAIN starters |-> i]]
        /\ sup.pc = "redeclare" /\ UNCHANGED <<starters, consumers, conn>>
    BY <1>4 DEF Redeclare, network
  <2>2. \A i : <<i, conn>> \notin consumers  BY <1>0, <2>1
  <2> QED  BY <1>0, <2>1, <2>2
<1>5. CASE Redial
  <2>1. /\ UNCHANGED consumers /\ conn' = conn + 1 /\ sup'.pc = "redeclare"
    BY <1>5, RedialFacts
  <2> QED  BY <1>0, <2>1
<1>6. CASE Restarting
  <2>0. TypeOK /\ sup.pc = "start" /\ NextStarter
    BY <1>0, <1>6, RestartFacts
  <2>1. \/ sup'.pc = "notify"
        \/ sup'.pc = "start" /\ sup'.todo = Tail(sup.todo)
    BY <2>0, NextStarterFacts
  <2>2. /\ sup.todo \in Seq(Kinds) /\ sup.todo # <<>> /\ Head(sup.todo) = sup.todo[1]
        /\ 1 \in DOMAIN sup.todo
    <3>1. /\ sup \in [pc : {"start"}, todo : Seq(Kinds) \ {<<>>}]
          /\ Head(sup.todo) = sup.todo[1] /\ 1 \in DOMAIN sup.todo
      BY <2>0, NextStarterFacts
    <3> QED  BY <3>1
  <2>3. UNCHANGED <<starters, conn>> /\ consumers' \subseteq consumers \cup {<<Head(sup.todo), conn>>}
    BY <1>0, <1>6, RestartFacts
  <2>4. CASE sup'.todo = Tail(sup.todo)
    <3>1. \A i \in DOMAIN Tail(sup.todo) :
              i + 1 \in DOMAIN sup.todo /\ Tail(sup.todo)[i] = sup.todo[i + 1] /\ i \in Nat \ {0}
      BY <2>2
    <3>d. \A i, j \in DOMAIN sup.todo : sup.todo[i] = sup.todo[j] => i = j
      BY <1>0, <2>0
    <3>e. \A i \in DOMAIN sup.todo : /\ sup.todo[i] \in DOMAIN starters
                                    /\ <<sup.todo[i], conn>> \notin consumers
      BY <1>0, <2>0
    <3>2. ASSUME NEW i \in DOMAIN sup'.todo, NEW j \in DOMAIN sup'.todo,
                 sup'.todo[i] = sup'.todo[j]
          PROVE  i = j
      <4>1. /\ i + 1 \in DOMAIN sup.todo /\ j + 1 \in DOMAIN sup.todo
            /\ sup.todo[i + 1] = sup.todo[j + 1] /\ i \in Nat /\ j \in Nat
        BY <2>4, <3>1, <3>2
      <4>2. i + 1 = j + 1  BY <3>d, <4>1
      <4> QED  BY <4>1, <4>2
    <3>3. ASSUME NEW i \in DOMAIN sup'.todo
          PROVE  /\ sup'.todo[i] \in DOMAIN starters /\ sup'.todo[i] # Head(sup.todo)
                 /\ <<sup'.todo[i], conn>> \notin consumers
      <4>1. /\ i + 1 \in DOMAIN sup.todo /\ sup'.todo[i] = sup.todo[i + 1] /\ i + 1 # 1
        BY <2>4, <3>1
      <4>2. sup.todo[i + 1] # sup.todo[1]  BY <2>2, <3>d, <4>1
      <4> QED  BY <2>2, <3>e, <4>1, <4>2
    <3> QED  BY <1>0, <2>1, <2>3, <3>2, <3>3
  <2> QED  BY <2>1, <2>4
<1>7. CASE \E c \in consumers : ConsumerEnds(c)
  <2>1. UNCHANGED <<sup, starters, conn>> /\ consumers' \subseteq consumers
    BY <1>0, <1>7, ConsumerEndsFacts
  <2> QED  BY <1>0, <2>1
<1>8. CASE Break \/ LibraryNotices \/ BrokerNotices
  BY <1>0, <1>8, NetworkSteps
<1> QED  BY <1>1, <1>2, <1>3, <1>4, <1>5, <1>6, <1>7, <1>8, Cases

(* Every step keeps a reason for each consumer that ended during the boot.   *)
LEMMA BootStep ==
    ASSUME ProcessInv, [Next]_vars
    PROVE  BootInv'
<1> USE DEF BootInv
<1>0. /\ TypeOK /\ BootInv /\ StarterInv /\ closed \subseteq broken
      /\ Alive => main \in {"run", "wait"}
  BY DEF ProcessInv, TypeOK, ConnInv
<1>1. CASE Dial \/ Supervise \/ EndREPL \/ Ending
  BY <1>0, <1>1, EndingFacts, VanishFacts DEF Dial, Supervise, EndREPL
<1>2. CASE Welcome \/ DeclareAtBoot
  <2>1. starters' = <<>>  BY <1>2 DEF Welcome, DeclareAtBoot, ProcessInv, StarterInv
  <2> QED  BY <2>1
<1>3. CASE Signal \/ UNCHANGED vars
  BY <1>0, <1>3 DEF Signal, vars, program, network
<1>4. CASE Subscribe
  <2>1. \A i \in DOMAIN starters' : i = Len(starters) + 1 \/ i \in DOMAIN starters
    BY <1>0, <1>4, SubscribeFacts DEF TypeOK
  <2>2. stopped' \/ \A i \in DOMAIN starters : <<i, conn>> \in consumers
    BY <1>0, <1>4, SubscribeFacts DEF Sound
  <2> QED  BY <1>4, <2>1, <2>2, SubscribeFacts
<1>5. CASE NotifyClosed \/ ContextDone
  BY <1>0, <1>5, LeaveFacts
<1>6. CASE Notify \/ ConnectionLost \/ Redeclare \/ RedeclareFails
  BY <1>0, <1>6, WalkFacts
<1>7. CASE Redial
  BY <1>0, <1>7, RedialFacts
<1>8. CASE Restarting
  BY <1>0, <1>8, RestartFacts, NextStarterFacts
<1>9. CASE \E c \in consumers : ConsumerEnds(c)
  <2>1. PICK c \in consumers : ConsumerEnds(c)  BY <1>9
  <2>2. /\ consumers' = consumers \ {c}
        /\ stopped \/ c[2] \in closed
        /\ UNCHANGED <<main, stopped, starters, conn, closed>>
    BY <1>0, <2>1, ConsumerEndsFacts
  <2> QED  BY <1>0, <2>2
<1>10. CASE Break \/ LibraryNotices \/ BrokerNotices
  BY <1>0, <1>10, NetworkSteps
<1> QED  BY <1>1, <1>2, <1>3, <1>4, <1>5, <1>6, <1>7, <1>8, <1>9, <1>10, Cases
-----------------------------------------------------------------------------
(* The six parts hold of every reachable state.                              *)
LEMMA Invariance == Spec => []ProcessInv
<1>1. Init => ProcessInv
  <2> SUFFICES ASSUME Init PROVE ProcessInv
    OBVIOUS
  <2>1. MaxStarts \in Nat /\ MaxLosses \in Nat /\ Queues \in Nat \ {0}  BY SupervisorAssumption
  <2>2. sup.pc = "off" /\ sup \in [pc : {"off"}]  BY DEF Init, Off
  <2>3. TypeOK
    <3>1. /\ main = "out" /\ stopped = FALSE /\ wg = 0 /\ conn = 0 /\ broken = {} /\ closed = {}
          /\ starters = <<>> /\ consumers = {} /\ owner = [q \in Kinds |-> 0]
          /\ used = [starts |-> 0, losses |-> 0, failures |-> 0]
      BY DEF Init
    <3>2. starters \in Seq(Kinds) /\ owner \in [Kinds -> {0} \cup Connections]
      BY <3>1
    <3>3. used \in [starts : Nat, losses : Nat, failures : Nat]  BY <3>1
    <3> QED  BY <2>2, <3>1, <3>2, <3>3 DEF TypeOK
  <2>4. CountInv  BY <2>2, FS_EmptySet DEF Init, CountInv, Alive
  <2>5. ConnInv  BY <2>1, <2>2 DEF Init, ConnInv, Alive
  <2>6. StarterInv
    <3>1. Len(<<>>) = 0 /\ DOMAIN <<>> = {}  OBVIOUS
    <3> QED  BY <2>1, <2>2, <3>1 DEF Init, StarterInv
  <2>7. RestartInv /\ BootInv  BY <2>2 DEF Init, RestartInv, BootInv
  <2> QED  BY <2>3, <2>4, <2>5, <2>6, <2>7 DEF ProcessInv
<1>2. ProcessInv /\ [Next]_vars => ProcessInv'
  <2> SUFFICES ASSUME ProcessInv, [Next]_vars PROVE ProcessInv'
    OBVIOUS
  <2>1. CountInv' /\ ConnInv'  BY CountStep, ConnStep
  <2>2. TypeOK'  BY <2>1, TypeStep
  <2> QED  BY <2>1, <2>2, StarterStep, RestartStep, BootStep DEF ProcessInv
<1> QED  BY <1>1, <1>2, PTL DEF Spec

(* Every variable keeps its type, and the number of connections its bound.   *)
THEOREM TypeCorrect == Spec => []TypeOK
<1>1. ProcessInv => TypeOK  BY DEF ProcessInv
<1> QED  BY <1>1, Invariance, PTL

(* No queue is consumed by two goroutines of one connection, however often   *)
(* the supervisor restarts the consumers.                                    *)
THEOREM OneConsumer == Spec => []OneConsumerPerQueue
<1>1. ProcessInv => OneConsumerPerQueue
  BY DEF ProcessInv, TypeOK, StarterInv, OneConsumerPerQueue
<1> QED  BY <1>1, Invariance, PTL

(* The WaitGroup lets run() return when no goroutine is left, not before.    *)
THEOREM NothingLeft == Spec => []NothingLeftBehind
<1>1. ProcessInv => NothingLeftBehind
  <2> SUFFICES ASSUME ProcessInv, main = "wait", wg = 0 PROVE consumers = {} /\ sup = Gone
    BY DEF NothingLeftBehind
  <2>1. IsFiniteSet(consumers) /\ Cardinality(consumers) = 0 /\ ~Alive
    BY FS_CardinalityType DEF ProcessInv, CountInv
  <2>2. consumers = {}  BY <2>1, FS_EmptySet
  <2>3. sup.pc = "gone"  BY <2>1 DEF Alive, ProcessInv, StarterInv
  <2>4. sup = Gone
    <3>1. \/ sup \in [pc : {"off", "notify", "listen", "redial", "redeclare", "gone"}]
          \/ sup \in [pc : {"start"}, todo : Seq(Kinds) \ {<<>>}]
      BY DEF ProcessInv, TypeOK
    <3>2. sup \in [pc : {"off", "notify", "listen", "redial", "redeclare", "gone"}]
      BY <2>3, <3>1
    <3> QED  BY <2>3, <3>2 DEF Gone
  <2> QED  BY <2>2, <2>4
<1> QED  BY <1>1, Invariance, PTL
-----------------------------------------------------------------------------
(* What supervisor_gives_up shows is the only way to be left alone: without  *)
(* a shutdown, the supervising goroutine has returned only if the library    *)
(* has shut down the connection it returned with, which is still the one in  *)
(* use. A refused declaration, a starter that fails or a dial that takes     *)
(* long never ends it.                                                       *)
GivesUpOnlyWhenClosed == sup.pc = "gone" => stopped \/ conn \in closed

(* Every step keeps a supervisor that has returned at one of the two ends.   *)
LEMMA GivesUpStep ==
    ASSUME ProcessInv, GivesUpOnlyWhenClosed, [Next]_vars
    PROVE  GivesUpOnlyWhenClosed'
<1> USE DEF GivesUpOnlyWhenClosed
<1>0. TypeOK  BY DEF ProcessInv
<1>1. CASE Dial
  <2>1. sup.pc = "off"  BY <1>0, <1>1 DEF Dial, ProcessInv, StarterInv
  <2> QED  BY <1>1, <2>1 DEF Dial
<1>2. CASE Welcome \/ DeclareAtBoot \/ Signal \/ EndREPL \/ UNCHANGED vars
  BY <1>2 DEF Welcome, DeclareAtBoot, Signal, EndREPL, vars, program, network
<1>3. CASE Subscribe
  BY <1>3 DEF Subscribe, Start
<1>4. CASE Supervise
  BY <1>4, SupFacts DEF Supervise
<1>5. CASE Ending
  BY <1>0, <1>5, EndingFacts, VanishFacts
<1>6. CASE NotifyClosed \/ ContextDone
  BY <1>6 DEF NotifyClosed, ContextDone, Leave, network
<1>7. CASE Notify \/ ConnectionLost \/ Redeclare \/ RedeclareFails
  BY <1>0, <1>7, WalkFacts DEF Alive
<1>8. CASE Redial
  BY <1>8, RedialFacts
<1>9. CASE Restarting
  BY <1>0, <1>9, RestartFacts, NextStarterFacts DEF Alive
<1>10. CASE \E c \in consumers : ConsumerEnds(c)
  BY <1>0, <1>10, ConsumerEndsFacts
<1>11. CASE Break \/ LibraryNotices \/ BrokerNotices
  <2>1. UNCHANGED <<sup, stopped, conn>> /\ closed \subseteq closed'
    BY <1>0, <1>11, NetworkSteps
  <2> QED  BY <2>1
<1> QED  BY <1>1, <1>2, <1>3, <1>4, <1>5, <1>6, <1>7, <1>8, <1>9, <1>10, <1>11, Cases

(* A process that was not told to stop is given up by its supervisor only    *)
(* over a connection the library has shut down.                              *)
THEOREM OnlyClosedIsGivenUp == Spec => []GivesUpOnlyWhenClosed
<1>1. Init => GivesUpOnlyWhenClosed  BY SupFacts DEF Init, GivesUpOnlyWhenClosed
<1>2. /\ ProcessInv /\ GivesUpOnlyWhenClosed /\ [Next]_vars
      => GivesUpOnlyWhenClosed'
  BY GivesUpStep
<1> QED  BY <1>1, <1>2, Invariance, PTL DEF Spec
-----------------------------------------------------------------------------
(* The refinement: what an observer of the process sees of its state.        *)
Phase == IF ~Serving THEN "out" ELSE IF Sound THEN "up" ELSE "down"
Subs  == IF Serving /\ Sound THEN {q \in Kinds : Consumed(q)} ELSE {}

(* The steps of a Session, in terms of what the observer sees.               *)
LEMMA Observed ==
    /\ Outside!Init <=> Phase = "out" /\ Subs = {}
    /\ UNCHANGED <<Phase, Subs>> => UNCHANGED Outside!vars
    /\ Phase = "out" /\ Phase' = "up" /\ Subs' = Kinds => Outside!Next
    /\ Phase # "out" /\ Phase' = "out" /\ Subs' = {} => Outside!Next
    /\ Phase = "up" /\ Phase' = "down" /\ Subs' = {} => Outside!Next
    /\ Phase = "down" /\ Phase' = "up" /\ Subs' = {} => Outside!Next
    /\ \A q \in Kinds : Phase = "up" /\ Phase' = Phase /\ q \notin Subs /\ Subs' = Subs \cup {q}
                           => Outside!Next
<1> USE DEF Phase, Subs
<1>1. Outside!Init <=> Phase = "out" /\ Subs = {}
  BY Zenon DEF Outside!Init
<1>2. UNCHANGED <<Phase, Subs>> => UNCHANGED Outside!vars
  BY Zenon DEF Outside!vars
<1>3. Outside!Join <=> Phase = "out" /\ Phase' = "up" /\ Subs' = Kinds
  BY Zenon DEF Outside!Join
<1>4. Outside!Exit <=> Phase # "out" /\ Phase' = "out" /\ Subs' = {}
  BY Zenon DEF Outside!Exit
<1>5. Outside!Disconnect <=> Phase = "up" /\ Phase' = "down" /\ Subs' = {}
  BY Zenon DEF Outside!Disconnect
<1>6. Outside!Redial <=> Phase = "down" /\ Phase' = "up" /\ Subs' = {}
  BY Zenon DEF Outside!Redial
<1>7. ASSUME NEW q
      PROVE  Outside!Resubscribe(q) <=> /\ Phase = "up" /\ Phase' = Phase
                                        /\ q \notin Subs /\ Subs' = Subs \cup {q}
  BY Zenon DEF Outside!Resubscribe
<1> HIDE DEF Phase, Subs
<1>8. Outside!Join \/ Outside!Exit \/ Outside!Disconnect \/ Outside!Redial => Outside!Next
  BY DEF Outside!Next
<1>9. ASSUME NEW q \in Kinds, Outside!Resubscribe(q)
      PROVE  Outside!Next
  BY <1>9 DEF Outside!Next
<1> QED  BY <1>1, <1>2, <1>3, <1>4, <1>5, <1>6, <1>7, <1>8, <1>9

(* What the observer sees is a function of five variables.                   *)
LEMMA Unseen ==
    ASSUME UNCHANGED <<Serving, Sound, consumers, starters, conn>>
    PROVE  UNCHANGED <<Phase, Subs>>
BY DEF Phase, Subs, Consumed

(* Every step of the process is one of its session or a stutter.             *)
LEMMA SessionStep ==
    ASSUME ProcessInv, [Next]_vars
    PROVE  Outside!Next \/ UNCHANGED Outside!vars
<1>0. /\ TypeOK /\ closed \subseteq broken /\ conn \in Nat /\ broken \subseteq Nat
      /\ consumers \subseteq Kinds \X Connections /\ Connections \subseteq Nat
      /\ \A i \in DOMAIN starters : starters[i] = i
      /\ \A c \in consumers : c[1] \in DOMAIN starters /\ c[2] <= conn
      /\ Alive => main \in {"run", "wait"}
      /\ main \in {"run", "wait"} <=> sup.pc # "off"
      /\ sup.pc = "redial" => conn \in closed
  BY DEF ProcessInv, TypeOK, Connections, ConnInv, StarterInv
<1>q. \A q \in Kinds : Consumed(q) <=> <<q, conn>> \in consumers
  BY <1>0 DEF Consumed
<1>1. CASE Dial \/ Welcome \/ DeclareAtBoot
  <2>1. ~Serving /\ ~Serving'
    BY <1>1 DEF Dial, Welcome, DeclareAtBoot, Serving
  <2>2. UNCHANGED <<Phase, Subs>>  BY <2>1 DEF Phase, Subs
  <2> QED  BY <2>2, Observed
<1>2. CASE Subscribe
  <2>1. ~Serving  BY <1>2 DEF Subscribe, Serving
  <2>2. CASE ~Serving'
    <3>1. UNCHANGED <<Phase, Subs>>  BY <2>1, <2>2 DEF Phase, Subs
    <3> QED  BY <3>1, Observed
  <2>3. CASE Serving'
    <3>1. /\ ~stopped /\ Sound /\ Sound' /\ Len(starters) + 1 = Queues /\ Len(starters) \in Nat
          /\ main = "subscribe" /\ UNCHANGED conn
          /\ consumers' = consumers \cup {<<Queues, conn>>}
          /\ starters' \in Seq(Kinds) /\ DOMAIN starters' = Kinds
          /\ \A i \in DOMAIN starters : starters'[i] = starters[i]
          /\ starters'[Queues] = Queues
      <4>1. Len(starters) \in Nat  BY <1>0 DEF TypeOK
      <4> QED  BY <1>0, <1>2, <2>3, <4>1, SubscribeFacts DEF Serving, Sound, Kinds
    <3>2. DOMAIN starters = 1..(Queues - 1)  BY <1>0, <3>1 DEF TypeOK
    <3>3. \A i \in DOMAIN starters : <<i, conn>> \in consumers
      BY <1>0, <3>1 DEF ProcessInv, BootInv, Sound
    <3>4. ASSUME NEW q \in Kinds
          PROVE  Consumed(q)'
      <4>1. starters'[q] = q /\ <<q, conn>> \in consumers'
        <5>1. CASE q = Queues  BY <3>1, <5>1
        <5>2. CASE q # Queues
          <6>1. q \in DOMAIN starters  BY <3>2, <5>2, SupervisorAssumption DEF Kinds
          <6> QED  BY <1>0, <3>1, <3>3, <6>1
        <5> QED  BY <5>1, <5>2
      <4> QED  BY <3>1, <4>1 DEF Consumed
    <3>5. Phase = "out" /\ Phase' = "up" /\ Subs' = Kinds
      BY <2>1, <2>3, <3>1, <3>4 DEF Phase, Subs
    <3> QED  BY <3>5, Observed
  <2> QED  BY <2>2, <2>3
<1>3. CASE Signal \/ EndREPL \/ Ending
  <2>1. ~Serving'
    BY <1>0, <1>3, EndingFacts, VanishFacts DEF Signal, EndREPL, Serving
  <2>2. Phase' = "out" /\ Subs' = {}  BY <2>1 DEF Phase, Subs
  <2>3. Phase = "out" => Subs = {}  BY DEF Phase, Subs
  <2> QED  BY <2>2, <2>3, Observed
<1>4. CASE Supervise \/ NotifyClosed \/ ContextDone
           \/ Notify \/ ConnectionLost \/ Redeclare \/ RedeclareFails \/ UNCHANGED vars
  <2>1. UNCHANGED <<Serving, Sound, consumers, starters, conn>>
    <3>1. CASE Supervise
      BY <3>1 DEF Supervise, Serving, Sound, network
    <3>2. CASE NotifyClosed \/ ContextDone
      BY <3>2, LeaveFacts DEF Serving, Sound, network
    <3>3. CASE Notify \/ ConnectionLost \/ Redeclare \/ RedeclareFails
      BY <1>0, <3>3, WalkFacts DEF Serving, Sound, network
    <3>4. CASE UNCHANGED vars
      BY <3>4 DEF Serving, Sound, network, program, vars
    <3> QED  BY <1>4, <3>1, <3>2, <3>3, <3>4
  <2> QED  BY <2>1, Unseen, Observed
<1>5. CASE Redial
  <2>1. /\ sup.pc = "redial" /\ conn' = conn + 1
        /\ UNCHANGED <<main, stopped, starters, consumers, broken>>
    BY <1>5, RedialFacts
  <2>2. UNCHANGED Serving /\ ~Sound  BY <1>0, <2>1 DEF Serving, Sound
  <2>3. conn + 1 \notin broken
    BY <1>0 DEF ProcessInv, ConnInv
  <2>4. Sound'  BY <2>1, <2>3 DEF Sound
  <2>5. \A q \in Kinds : ~Consumed(q)'
    <3>1. \A c \in consumers : c[2] \in Nat /\ c[2] <= conn  BY <1>0
    <3>2. \A c \in consumers : c[2] # conn + 1  BY <1>0, <3>1
    <3> QED  BY <2>1, <3>2 DEF Consumed
  <2>6. CASE Serving
    <3>1. Phase = "down" /\ Phase' = "up" /\ Subs' = {}
      BY <2>2, <2>4, <2>5, <2>6 DEF Phase, Subs
    <3> QED  BY <3>1, Observed
  <2>7. CASE ~Serving
    <3>1. UNCHANGED <<Phase, Subs>>  BY <2>2, <2>7 DEF Phase, Subs
    <3> QED  BY <3>1, Observed
  <2> QED  BY <2>6, <2>7
<1>6. CASE Restarting
  <2> DEFINE h == Head(sup.todo)
  <2>1. /\ h \in DOMAIN starters /\ h \in Kinds /\ <<h, conn>> \notin consumers
        /\ UNCHANGED <<main, stopped, starters, conn, broken>>
        /\ \/ Sound /\ consumers' = consumers \cup {<<h, conn>>}
           \/ UNCHANGED consumers
    BY <1>6, RestartFacts
  <2> HIDE DEF h
  <2>2. UNCHANGED <<Serving, Sound>>  BY <2>1 DEF Serving, Sound
  <2>3. CASE UNCHANGED consumers
    BY <2>1, <2>2, <2>3, Unseen, Observed
  <2>4. CASE ~Serving
    <3>1. UNCHANGED <<Phase, Subs>>  BY <2>2, <2>4 DEF Phase, Subs
    <3> QED  BY <3>1, Observed
  <2>5. CASE Serving /\ Sound /\ consumers' = consumers \cup {<<h, conn>>}
    <3>1. \A q \in Kinds : Consumed(q)' <=> Consumed(q) \/ q = h
      <4>1. \A q \in Kinds : Consumed(q)' <=> <<q, conn>> \in consumers'
        BY <1>0, <2>1, <2>5 DEF Consumed
      <4> QED  BY <1>q, <2>5, <4>1
    <3>2. ~Consumed(h)  BY <1>q, <2>1
    <3>3. Phase = "up" /\ Phase' = Phase /\ h \notin Subs /\ Subs' = Subs \cup {h}
      BY <2>1, <2>2, <2>5, <3>1, <3>2 DEF Phase, Subs
    <3> QED  BY <2>1, <3>3, Observed
  <2> QED  BY <2>1, <2>3, <2>4, <2>5
<1>7. CASE \E c \in consumers : ConsumerEnds(c)
  <2>1. PICK c \in consumers : ConsumerEnds(c)  BY <1>7
  <2>2. /\ consumers' = consumers \ {c}
        /\ stopped \/ c[2] \in closed
        /\ UNCHANGED <<main, stopped, starters, conn, broken>>
    BY <1>0, <2>1, ConsumerEndsFacts
  <2>3. UNCHANGED <<Serving, Sound>>  BY <2>2 DEF Serving, Sound
  <2>4. CASE ~Serving \/ ~Sound
    <3>1. UNCHANGED <<Phase, Subs>>  BY <2>3, <2>4 DEF Phase, Subs
    <3> QED  BY <3>1, Observed
  <2>5. CASE Serving /\ Sound
    <3>1. c[2] # conn  BY <1>0, <2>2, <2>5 DEF Serving, Sound
    <3>2. \A q \in Kinds : Consumed(q)' <=> Consumed(q)
      BY <2>2, <3>1 DEF Consumed
    <3>3. UNCHANGED <<Phase, Subs>>  BY <2>3, <3>2 DEF Phase, Subs
    <3> QED  BY <3>3, Observed
  <2> QED  BY <2>4, <2>5
<1>8. CASE Break \/ LibraryNotices \/ BrokerNotices
  <2>1. /\ UNCHANGED <<main, stopped, starters, consumers, conn>>
        /\ broken \subseteq broken'
    BY <1>0, <1>8, NetworkSteps
  <2>2. UNCHANGED Serving  BY <2>1 DEF Serving
  <2>3. CASE Sound' = Sound
    BY <2>1, <2>2, <2>3, Unseen, Observed
  <2>4. CASE Sound /\ ~Sound'
    <3>1. CASE Serving
      <4>1. Phase = "up" /\ Phase' = "down" /\ Subs' = {}
        BY <2>2, <2>4, <3>1 DEF Phase, Subs
      <4> QED  BY <4>1, Observed
    <3>2. CASE ~Serving
      <4>1. UNCHANGED <<Phase, Subs>>  BY <2>2, <3>2 DEF Phase, Subs
      <4> QED  BY <4>1, Observed
    <3> QED  BY <3>1, <3>2
  <2> QED  BY <2>1, <2>3, <2>4 DEF Sound
<1> QED  BY <1>1, <1>2, <1>3, <1>4, <1>5, <1>6, <1>7, <1>8, Cases

(* A process with its supervisor is a Session: it joins with all its queues, *)
(* a lost connection takes them all away, and they come back one by one.     *)
THEOREM SupervisorImplementsSession == Spec => ImplementsSession
<1>1. Init => Outside!Init
  <2>1. Init => ~Serving  BY DEF Init, Serving
  <2>2. Init => Phase = "out" /\ Subs = {}  BY <2>1 DEF Phase, Subs
  <2> QED  BY <2>2, Observed
<1>2. ProcessInv /\ [Next]_vars => [Outside!Next]_(Outside!vars)
  BY SessionStep
<1> QED  BY <1>1, <1>2, Invariance, PTL DEF Spec, ImplementsSession, Outside!Spec
=============================================================================
