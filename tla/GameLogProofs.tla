---------------------------- MODULE GameLogProofs ----------------------------
(* What becomes of a game log, for any number of servers, logs, faults and   *)
(* any prefetch and limit: none is lost, the web shows the newest, a line is *)
(* repeated only for a delivery that was lost, and the life of each log is   *)
(* the one Delivery describes.                                               *)
EXTENDS GameLog, FiniteSetTheorems, SequenceTheorems, TLAPS

(* The elements of a sequence that grows or loses its head.                  *)
LEMMA ToSetFacts ==
    ASSUME NEW S, NEW q \in Seq(S)
    PROVE  /\ \A x \in S : ToSet(Append(q, x)) = ToSet(q) \cup {x}
           /\ q # <<>> => ToSet(q) = {Head(q)} \cup ToSet(Tail(q))
           /\ ToSet(q) \subseteq S
<1>1. ASSUME NEW x \in S
      PROVE  ToSet(Append(q, x)) = ToSet(q) \cup {x}
  <2>1. /\ DOMAIN Append(q, x) = DOMAIN q \cup {Len(q) + 1}
        /\ \A i \in DOMAIN q : Append(q, x)[i] = q[i]
        /\ Append(q, x)[Len(q) + 1] = x
    OBVIOUS
  <2> QED  BY <2>1, Zenon DEF ToSet
<1>2. ASSUME q # <<>>
      PROVE  ToSet(q) = {Head(q)} \cup ToSet(Tail(q))
  <2>1. /\ Head(q) = q[1] /\ 1 \in DOMAIN q
        /\ \A i \in DOMAIN Tail(q) : i + 1 \in DOMAIN q /\ Tail(q)[i] = q[i + 1]
        /\ \A i \in DOMAIN q : i = 1 \/ (i - 1 \in DOMAIN Tail(q) /\ Tail(q)[i - 1] = q[i])
    BY <1>2
  <2>2. ASSUME NEW x \in ToSet(q)
        PROVE  x \in {Head(q)} \cup ToSet(Tail(q))
    <3>1. PICK i \in DOMAIN q : x = q[i]  BY DEF ToSet
    <3>2. CASE i = 1  BY <2>1, <3>1, <3>2
    <3>3. CASE i - 1 \in DOMAIN Tail(q) /\ Tail(q)[i - 1] = q[i]
      BY <3>1, <3>3, Zenon DEF ToSet
    <3> QED  BY <2>1, <3>2, <3>3
  <2>3. Head(q) \in ToSet(q)  BY <2>1, Zenon DEF ToSet
  <2>4. ASSUME NEW x \in ToSet(Tail(q))
        PROVE  x \in ToSet(q)
    <3>1. PICK i \in DOMAIN Tail(q) : x = Tail(q)[i]  BY DEF ToSet
    <3>2. i + 1 \in DOMAIN q /\ x = q[i + 1]  BY <2>1, <3>1
    <3> QED  BY <3>2, Zenon DEF ToSet
  <2> QED  BY <2>2, <2>3, <2>4
<1>3. ToSet(q) \subseteq S  BY DEF ToSet
<1> QED  BY <1>1, <1>2, <1>3

(* A handler that moves on, or loses its connection, is the handler of the   *)
(* same log.                                                                 *)
LEMMA WriterFacts ==
    ASSUME NEW h \in Writers
    PROVE  /\ h.log \in Log
           /\ [h EXCEPT !.pc = "ack"] \in Writers /\ [h EXCEPT !.live = FALSE] \in Writers
           /\ [h EXCEPT !.pc = "ack"].log = h.log /\ [h EXCEPT !.pc = "ack"].live = h.live
           /\ [h EXCEPT !.pc = "ack"].pc = "ack"
           /\ [h EXCEPT !.live = FALSE].log = h.log /\ [h EXCEPT !.live = FALSE].pc = h.pc
           /\ [h EXCEPT !.live = FALSE].live = FALSE
BY DEF Writers

(* The same for the gateway's handlers.                                      *)
LEMMA ShowerFacts ==
    ASSUME NEW h \in Showers
    PROVE  /\ h.log \in Log /\ [h EXCEPT !.live = FALSE] \in Showers
           /\ [h EXCEPT !.live = FALSE].log = h.log /\ [h EXCEPT !.live = FALSE].live = FALSE
BY DEF Showers

(* The kinds of steps, by what they have in common.                          *)
TakesBack(s) == LoseConnection(s) \/ StopServer(s) \/ CrashServer(s)

(* Every step is one of these.                                               *)
LEMMA Cases ==
    ASSUME [Next]_vars
    PROVE  \/ Publish
           \/ \E s \in Server : \/ StartServer(s) \/ Send(s) \/ TakeLog(s)
                                \/ \E h \in writer[s] : WriteLog(s, h)
                                \/ \E h \in writer[s] : AckLog(s, h)
                                \/ \E h \in writer[s] : NackLog(s, h)
                                \/ Reconnect(s) \/ TakesBack(s)
           \/ Gateway
           \/ UNCHANGED vars
BY DEF Next, Handler, TakesBack

(* The gateway and the servers do not touch each other.                      *)
LEMMA GatewayFacts == ASSUME Gateway PROVE UNCHANGED server
BY DEF Gateway, StartGateway, TakeWebLog, ApplyLog, GatewayLosesConnection, GatewayReconnects,
       StopGateway

LEMMA ServerFacts ==
    ASSUME NEW s \in Server,
           \/ StartServer(s) \/ Send(s) \/ TakeLog(s) \/ Reconnect(s) \/ TakesBack(s)
           \/ \E h \in writer[s] : WriteLog(s, h) \/ AckLog(s, h) \/ NackLog(s, h)
    PROVE  UNCHANGED <<published, web>>
BY DEF StartServer, Send, TakeLog, Reconnect, WriteLog, AckLog, NackLog,
       TakesBack, LoseConnection, StopServer, CrashServer, TakeBack

(* The broker takes a server's messages back when it loses its connection or *)
(* ends.                                                                     *)
LEMMA TakesBackFacts ==
    ASSUME TypeOK, NEW s \in Server, TakesBack(s)
    PROVE  /\ phase[s] # "out" /\ phase' \in [Server -> {"out", "up", "down"}] /\ phase'[s] # "up"
           /\ StopServer(s) \/ CrashServer(s) \/ phase[s] = "up"
           /\ \A t \in Server \ {s} : /\ phase'[t] = phase[t] /\ buffer'[t] = buffer[t]
                                      /\ writer'[t] = writer[t]
           /\ \/ UNCHANGED <<buffer, writer>>
              \/ /\ buffer' = [buffer EXCEPT ![s] = <<>>]
                 /\ writer' = [writer EXCEPT ![s] = {}]
           /\ faults < MaxFaults /\ faults' = faults + 1
           /\ TakeBack(s)
BY DEF TypeOK, TakesBack, LoseConnection, StopServer, CrashServer, End, Fault

(* What a server has is logs.                                                *)
LEMMA HandledFacts ==
    ASSUME TypeOK, NEW s \in Server
    PROVE  /\ Handled(s) \subseteq Log /\ Unacked(s) \subseteq Log
           /\ ToSet(buffer[s]) \subseteq Log
<1>1. buffer[s] \in Seq(Log) /\ writer[s] \subseteq Writers  BY DEF TypeOK
<1>2. ToSet(buffer[s]) \subseteq Log  BY <1>1, ToSetFacts
<1>3. Handled(s) \subseteq Log  BY <1>1 DEF Handled, Writers
<1> QED  BY <1>2, <1>3 DEF Unacked
-----------------------------------------------------------------------------
(* Newest drops the oldest log, and only when there is one too many.         *)
LEMMA NewestFacts ==
    ASSUME NEW log \in Seq(Log), Len(log) <= LogLimit + 1
    PROVE  /\ Newest(log) \in Seq(Log) /\ Len(Newest(log)) <= LogLimit
           /\ Len(log) <= LogLimit => Newest(log) = log
           /\ Len(log) = LogLimit + 1 => Newest(log) = Tail(log)
<1>1. LogLimit \in Nat \ {0} /\ Len(log) \in Nat  BY GameLogAssumption
<1>2. CASE Len(log) <= LogLimit
  BY <1>1, <1>2 DEF Newest
<1>3. CASE Len(log) = LogLimit + 1
  <2>1. Newest(log) = SubSeq(log, 2, Len(log))  BY <1>1, <1>3 DEF Newest
  <2>2. Tail(log) = SubSeq(log, 2, Len(log))  BY <1>1, <1>3
  <2>3. Tail(log) \in Seq(Log) /\ Len(Tail(log)) = LogLimit  BY <1>1, <1>3
  <2> QED  BY <1>1, <1>3, <2>1, <2>2, <2>3
<1> QED  BY <1>1, <1>2, <1>3

(* Every step keeps the types.                                               *)
LEMMA TypeStep ==
    ASSUME TypeOK, [Next]_vars
    PROVE  TypeOK'
<1>0. MaxLogs \in Nat /\ MaxFaults \in Nat /\ LogLimit \in Nat \ {0}  BY GameLogAssumption
<1>1. CASE Publish
  <2>1. published' \in Log /\ published' \in 0..MaxLogs  BY <1>0, <1>1 DEF Publish, TypeOK, Log
  <2> QED  BY <1>0, <1>1, <2>1 DEF Publish, TypeOK, file
<1>2. ASSUME NEW s \in Server, StartServer(s) \/ Reconnect(s)
      PROVE  TypeOK'
  <2>1. CASE StartServer(s)  BY <2>1 DEF StartServer, TypeOK, web
  <2>2. CASE Reconnect(s)
    <3>1. {[h EXCEPT !.live = FALSE] : h \in writer[s]} \subseteq Writers
      <4>1. writer[s] \subseteq Writers  BY DEF TypeOK
      <4>2. \A h \in writer[s] : [h EXCEPT !.live = FALSE] \in Writers  BY <4>1, WriterFacts
      <4> QED  BY <4>2, Zenon
    <3> QED  BY <2>2, <3>1 DEF Reconnect, TypeOK, web
  <2> QED  BY <1>2, <2>1, <2>2
<1>3. ASSUME NEW s \in Server, Send(s)
      PROVE  TypeOK'
  BY <1>3 DEF Send, TypeOK, web
<1>4. ASSUME NEW s \in Server, TakeLog(s)
      PROVE  TypeOK'
  <2>1. Head(buffer[s]) \in Log /\ Tail(buffer[s]) \in Seq(Log)  BY <1>4 DEF TakeLog, TypeOK
  <2>2. [log |-> Head(buffer[s]), pc |-> "write", live |-> TRUE] \in Writers
    BY <2>1 DEF Writers
  <2>3. lapsed' \in [Log -> Nat]  BY <1>4, <2>1 DEF TakeLog, TypeOK
  <2> QED  BY <1>4, <2>1, <2>2, <2>3 DEF TakeLog, TypeOK, web
<1>5. ASSUME NEW s \in Server, NEW h \in writer[s], WriteLog(s, h)
      PROVE  TypeOK'
  <2>1. h \in Writers  BY DEF TypeOK
  <2>2. h.log \in Log /\ [h EXCEPT !.pc = "ack"] \in Writers  BY <2>1, WriterFacts
  <2>3. lines' \in [Log -> Nat]  BY <1>5, <2>2 DEF WriteLog, TypeOK
  <2>4. writer' \in [Server -> SUBSET Writers]  BY <1>5, <2>2 DEF WriteLog, TypeOK
  <2> QED  BY <1>5, <2>3, <2>4 DEF WriteLog, TypeOK, web
<1>6. ASSUME NEW s \in Server, NEW h \in writer[s], AckLog(s, h) \/ NackLog(s, h)
      PROVE  TypeOK'
  <2>1. h.log \in Log  BY DEF TypeOK, Writers
  <2>2. writer' = [writer EXCEPT ![s] = @ \ {h}]  BY <1>6 DEF AckLog, NackLog
  <2>3. writer' \in [Server -> SUBSET Writers]  BY <2>2 DEF TypeOK
  <2>4. ready' \subseteq Log  BY <1>6, <2>1 DEF AckLog, NackLog, TypeOK
  <2> QED  BY <1>6, <2>3, <2>4 DEF AckLog, NackLog, TypeOK, web
<1>7. ASSUME NEW s \in Server, TakesBack(s)
      PROVE  TypeOK'
  <2>1. buffer' \in [Server -> Seq(Log)] /\ writer' \in [Server -> SUBSET Writers]
    <3>1. CASE UNCHANGED <<buffer, writer>>  BY <3>1 DEF TypeOK
    <3>2. CASE /\ buffer' = [buffer EXCEPT ![s] = <<>>]
               /\ writer' = [writer EXCEPT ![s] = {}]
      BY <3>2 DEF TypeOK
    <3> QED  BY <1>7, <3>1, <3>2, TakesBackFacts
  <2>2. ready' \subseteq Log /\ lapsed' \in [Log -> Nat]
    <3>1. TakeBack(s)  BY <1>7, TakesBackFacts
    <3>2. Unacked(s) \subseteq Log  BY HandledFacts
    <3>3. ready' \subseteq Log  BY <3>1, <3>2 DEF TakeBack, TypeOK
    <3>4. lapsed' \in [Log -> Nat]  BY <3>1 DEF TakeBack, TypeOK
    <3> QED  BY <3>3, <3>4
  <2>3. faults' \in 0..MaxFaults /\ phase' \in [Server -> {"out", "up", "down"}]
    BY <1>0, <1>7, TakesBackFacts DEF TypeOK
  <2>4. UNCHANGED <<published, bound, lines, web, accepted>>
    BY <1>7, TakesBackFacts DEF TakeBack
  <2> QED  BY <2>1, <2>2, <2>3, <2>4 DEF TypeOK, web
<1>8. CASE TakeWebLog
  <2>1. Head(webq) \in Log /\ Tail(webq) \in Seq(Log)  BY <1>8 DEF TakeWebLog, TypeOK
  <2>2. [log |-> Head(webq), live |-> TRUE] \in Showers  BY <2>1 DEF Showers
  <2> QED  BY <1>8, <2>1, <2>2 DEF TakeWebLog, TypeOK, server, file
<1>9. ASSUME NEW h \in shower, ApplyLog(h)
      PROVE  TypeOK'
  <2>1. h \in Showers /\ h.log \in Log  BY ShowerFacts DEF TypeOK
  <2>2. /\ Append(webLog, h.log) \in Seq(Log)
        /\ Len(Append(webLog, h.log)) <= LogLimit + 1
    BY <1>0, <2>1 DEF TypeOK
  <2>3. webLog' \in Seq(Log) /\ Len(webLog') <= LogLimit
    BY <1>9, <2>2, NewestFacts DEF ApplyLog
  <2>4. late' \subseteq Log /\ heard' \subseteq Log  BY <1>9, <2>1 DEF ApplyLog, TypeOK
  <2> QED  BY <1>9, <2>3, <2>4 DEF ApplyLog, TypeOK, server, file
<1>10. CASE StartGateway \/ GatewayLosesConnection \/ GatewayReconnects \/ StopGateway
  <2>1. UNCHANGED server /\ faults' \in 0..MaxFaults /\ gateway' \in {"out", "up", "down"}
    BY <1>0, <1>10
    DEF StartGateway, GatewayLosesConnection, GatewayReconnects, StopGateway, Fault, TypeOK
  <2>2. /\ webq' \in {webq, <<>>} /\ webLog' \in {webLog, <<>>}
        /\ heard' \in {heard, {}} /\ late' \in {late, {}}
        /\ shower' \in {shower, {}, {[h EXCEPT !.live = FALSE] : h \in shower}}
    BY <1>10 DEF StartGateway, GatewayLosesConnection, GatewayReconnects, StopGateway
  <2>3. <<>> \in Seq(Log) /\ Len(<<>>) <= LogLimit  BY <1>0
  <2>4. shower' \subseteq Showers
    <3>1. shower \subseteq Showers  BY DEF TypeOK
    <3>2. {[h EXCEPT !.live = FALSE] : h \in shower} \subseteq Showers
      <4>1. \A h \in shower : [h EXCEPT !.live = FALSE] \in Showers  BY <3>1, ShowerFacts
      <4> QED  BY <4>1, Zenon
    <3> QED  BY <2>2, <3>1, <3>2
  <2>5. webq' \in Seq(Log) /\ webLog' \in Seq(Log) /\ Len(webLog') <= LogLimit
    BY <2>2, <2>3 DEF TypeOK
  <2>6. heard' \subseteq Log /\ late' \subseteq Log  BY <2>2 DEF TypeOK
  <2> QED  BY <2>1, <2>4, <2>5, <2>6 DEF TypeOK, server, file
<1>11. CASE UNCHANGED vars
  BY <1>11 DEF vars, file, web, TypeOK
<1> QED
  BY <1>1, <1>2, <1>3, <1>4, <1>5, <1>6, <1>7, <1>8, <1>9, <1>10, <1>11, Cases DEF Gateway

(* The types hold before anything is published.                              *)
LEMMA TypeInit == Init => TypeOK
<1> SUFFICES ASSUME Init PROVE TypeOK
  OBVIOUS
<1>1. MaxLogs \in Nat /\ MaxFaults \in Nat /\ LogLimit \in Nat \ {0}  BY GameLogAssumption
<1>2. published \in 0..MaxLogs /\ faults \in 0..MaxFaults  BY <1>1 DEF Init
<1>3. lines \in [Log -> Nat] /\ lapsed \in [Log -> Nat]  BY DEF Init
<1>4. /\ phase \in [Server -> {"out", "up", "down"}]
      /\ buffer \in [Server -> Seq(Log)] /\ writer \in [Server -> SUBSET Writers]
  BY DEF Init
<1>5. webq \in Seq(Log) /\ webLog \in Seq(Log) /\ Len(webLog) <= LogLimit  BY <1>1 DEF Init
<1> QED  BY <1>2, <1>3, <1>4, <1>5 DEF Init, TypeOK

(* Every variable keeps its type, and the web's log its limit.               *)
THEOREM TypeCorrect == Spec => []TypeOK
BY TypeInit, TypeStep, PTL DEF Spec

(* A handler that has written a log still has it.                            *)
LEMMA WriteKeeps ==
    ASSUME TypeOK, NEW s \in Server, NEW h \in writer[s], WriteLog(s, h)
    PROVE  \A r \in Server : Unacked(r)' = Unacked(r)
<1> DEFINE g == [h EXCEPT !.pc = "ack"]
<1>1. h \in Writers  BY DEF TypeOK
<1>2. g.log = h.log /\ g.live = h.live  BY <1>1, WriterFacts
<1>3. /\ UNCHANGED <<phase, buffer>>
      /\ writer'[s] = (writer[s] \ {h}) \cup {g}
      /\ \A r \in Server \ {s} : writer'[r] = writer[r]
  BY DEF WriteLog, TypeOK
<1> HIDE DEF g
<1>4. Handled(s)' = Handled(s)
  <2>1. \A n : n \in Handled(s)' <=> \E k \in writer'[s] : k.live /\ n = k.log
    BY DEF Handled
  <2>2. \A n : n \in Handled(s) <=> \E k \in writer[s] : k.live /\ n = k.log
    BY DEF Handled
  <2>3. \A n : n \in Handled(s) => n \in Handled(s)'
    <3>1. \A k \in writer[s] : k = h \/ k \in writer'[s]  BY <1>3
    <3>2. g \in writer'[s]  BY <1>3
    <3> QED  BY <1>2, <2>1, <2>2, <3>1, <3>2
  <2>4. \A n : n \in Handled(s)' => n \in Handled(s)
    <3>1. \A k \in writer'[s] : k = g \/ k \in writer[s]  BY <1>3
    <3> QED  BY <1>2, <2>1, <2>2, <3>1
  <2> QED  BY <2>3, <2>4
<1> QED  BY <1>3, <1>4 DEF Unacked, Handled
-----------------------------------------------------------------------------
(* A handler that is about to acknowledge has written.                       *)
WroteInv == \A s \in Server : \A h \in writer[s] : h.pc = "ack" => lines[h.log] > 0

LostInv == TypeOK /\ WroteInv /\ NoLogIsLost

(* Every step keeps each log in the file or kept: what is acknowledged was   *)
(* written.                                                                  *)
LEMMA LostStep ==
    ASSUME LostInv, [Next]_vars
    PROVE  WroteInv' /\ NoLogIsLost'
<1>0. TypeOK /\ WroteInv /\ \A n \in accepted : lines[n] > 0 \/ Kept(n)
  BY DEF LostInv, NoLogIsLost, Kept
<1>g. SUFFICES WroteInv' /\ \A n \in accepted' : lines'[n] > 0 \/ Kept(n)'
  BY DEF NoLogIsLost, Kept
<1>t. lines \in [Log -> Nat] /\ accepted \subseteq Log
      /\ \A s \in Server : writer[s] \subseteq Writers /\ buffer[s] \in Seq(Log)
  BY <1>0 DEF TypeOK
<1>1. CASE Publish
  <2>1. UNCHANGED file /\ ready \subseteq ready'
        /\ \A n \in accepted' : n \in accepted \/ n \in ready'
    BY <1>1 DEF Publish
  <2>2. \A s : Unacked(s)' = Unacked(s)  BY <2>1 DEF Unacked, Handled, file
  <2> QED  BY <1>0, <2>1, <2>2 DEF Kept, WroteInv, file
<1>2. ASSUME NEW s \in Server, StartServer(s) \/ Reconnect(s)
      PROVE  WroteInv' /\ \A n \in accepted' : lines'[n] > 0 \/ Kept(n)'
  <2>1. /\ UNCHANGED <<ready, lines, accepted>> /\ phase[s] # "up"
        /\ \A r \in Server \ {s} : /\ phase'[r] = phase[r] /\ buffer'[r] = buffer[r]
                                   /\ writer'[r] = writer[r]
    BY <1>0, <1>2 DEF StartServer, Reconnect, TypeOK
  <2>2. \A r \in Server \ {s} : Unacked(r)' = Unacked(r)  BY <2>1 DEF Unacked, Handled
  <2>3. Unacked(s) = {}  BY <2>1 DEF Unacked
  <2>4. \A h \in writer'[s] : \E g \in writer[s] : h.log = g.log /\ h.pc = g.pc
    <3>1. CASE StartServer(s)  BY <3>1 DEF StartServer
    <3>2. CASE Reconnect(s)
      <4>1. writer'[s] = {[h EXCEPT !.live = FALSE] : h \in writer[s]}
        BY <1>0, <3>2 DEF Reconnect, TypeOK
      <4>2. ASSUME NEW h \in writer'[s]
            PROVE  \E g \in writer[s] : h.log = g.log /\ h.pc = g.pc
        <5>1. PICK g \in writer[s] : h = [g EXCEPT !.live = FALSE]  BY <4>1
        <5>2. h.log = g.log /\ h.pc = g.pc  BY <1>t, <5>1, WriterFacts
        <5> QED  BY <5>2
      <4> QED  BY <4>2
    <3> QED  BY <1>2, <3>1, <3>2
  <2>5. WroteInv'  BY <1>0, <2>1, <2>4 DEF WroteInv
  <2> QED  BY <1>0, <2>1, <2>2, <2>3, <2>5 DEF Kept
<1>3. ASSUME NEW s \in Server, Send(s)
      PROVE  WroteInv' /\ \A n \in accepted' : lines'[n] > 0 \/ Kept(n)'
  <2>1. PICK m \in ready : buffer' = [buffer EXCEPT ![s] = Append(@, m)] /\ ready' = ready \ {m}
    BY <1>3 DEF Send
  <2>2. UNCHANGED <<phase, writer, lines, accepted>> /\ phase[s] = "up"  BY <1>3 DEF Send
  <2>3. m \in Log  BY <1>0 DEF TypeOK
  <2>4. ToSet(buffer'[s]) = ToSet(buffer[s]) \cup {m}
    BY <1>0, <1>t, <2>1, <2>3, ToSetFacts DEF TypeOK
  <2>5. Unacked(s)' = Unacked(s) \cup {m}  BY <2>2, <2>4 DEF Unacked, Handled
  <2>6. \A r \in Server \ {s} : Unacked(r)' = Unacked(r)
    BY <1>0, <2>1, <2>2 DEF Unacked, Handled, TypeOK
  <2> QED  BY <1>0, <2>1, <2>2, <2>5, <2>6 DEF Kept, WroteInv
<1>4. ASSUME NEW s \in Server, TakeLog(s)
      PROVE  WroteInv' /\ \A n \in accepted' : lines'[n] > 0 \/ Kept(n)'
  <2> DEFINE g == [log |-> Head(buffer[s]), pc |-> "write", live |-> TRUE]
  <2>1. /\ UNCHANGED <<ready, phase, lines, accepted>> /\ buffer[s] # <<>>
        /\ writer'[s] = writer[s] \cup {g} /\ buffer'[s] = Tail(buffer[s])
        /\ \A r \in Server \ {s} : writer'[r] = writer[r] /\ buffer'[r] = buffer[r]
    BY <1>0, <1>4 DEF TakeLog, TypeOK
  <2>2. ToSet(buffer[s]) = {Head(buffer[s])} \cup ToSet(buffer'[s])
    BY <1>t, <2>1, ToSetFacts
  <2>3. g.log = Head(buffer[s]) /\ g.live /\ g.pc = "write"  OBVIOUS
  <2> HIDE DEF g
  <2>4. Handled(s)' = Handled(s) \cup {Head(buffer[s])}
    BY <2>1, <2>3 DEF Handled
  <2>5. Unacked(s)' = Unacked(s)  BY <2>1, <2>2, <2>4 DEF Unacked
  <2>6. \A r \in Server \ {s} : Unacked(r)' = Unacked(r)  BY <2>1 DEF Unacked, Handled
  <2>7. WroteInv'  BY <1>0, <2>1, <2>3 DEF WroteInv
  <2> QED  BY <1>0, <2>1, <2>5, <2>6, <2>7 DEF Kept
<1>5. ASSUME NEW s \in Server, NEW h \in writer[s], WriteLog(s, h)
      PROVE  WroteInv' /\ \A n \in accepted' : lines'[n] > 0 \/ Kept(n)'
  <2> DEFINE g == [h EXCEPT !.pc = "ack"]
  <2>1. h \in Writers /\ h.log \in Log  BY <1>t, WriterFacts
  <2>2. g.log = h.log /\ g.live = h.live  BY <2>1, WriterFacts
  <2>3. /\ UNCHANGED <<ready, phase, buffer, accepted>>
        /\ writer'[s] = (writer[s] \ {h}) \cup {g}
        /\ \A r \in Server \ {s} : writer'[r] = writer[r]
        /\ lines'[h.log] = lines[h.log] + 1
        /\ \A n \in Log \ {h.log} : lines'[n] = lines[n]
    BY <1>0, <1>5, <2>1 DEF WriteLog, TypeOK
  <2> HIDE DEF g
  <2>5. \A r \in Server : Unacked(r)' = Unacked(r)  BY <1>0, <1>5, WriteKeeps
  <2>6. \A n \in Log : lines[n] > 0 => lines'[n] > 0  BY <1>t, <2>1, <2>3
  <2>7. lines'[h.log] > 0  BY <1>t, <2>1, <2>3
  <2>8. WroteInv'
    <3>1. ASSUME NEW r \in Server, NEW k \in writer'[r], k.pc = "ack"
          PROVE  lines'[k.log] > 0
      <4>1. CASE k \in writer[r]
        <5>1. k \in Writers /\ k.log \in Log  BY <1>t, <4>1, WriterFacts
        <5> QED  BY <1>0, <2>6, <3>1, <4>1, <5>1 DEF WroteInv
      <4>2. CASE k = g  BY <2>2, <2>7, <4>2
      <4> QED  BY <2>3, <4>1, <4>2
    <3> QED  BY <3>1 DEF WroteInv
  <2> QED  BY <1>0, <1>t, <2>3, <2>5, <2>6, <2>8 DEF Kept
<1>6. ASSUME NEW s \in Server, NEW h \in writer[s], AckLog(s, h) \/ NackLog(s, h)
      PROVE  WroteInv' /\ \A n \in accepted' : lines'[n] > 0 \/ Kept(n)'
  <2>1. /\ UNCHANGED <<phase, buffer, lines, accepted>> /\ ready \subseteq ready'
        /\ writer'[s] = writer[s] \ {h}
        /\ \A r \in Server \ {s} : writer'[r] = writer[r]
        /\ h.pc = "ack" \/ (Answers(s, h) => h.log \in ready')
    BY <1>0, <1>6 DEF AckLog, NackLog, TypeOK
  <2>2. WroteInv'  BY <1>0, <2>1 DEF WroteInv
  <2>3. \A r \in Server \ {s} : Unacked(r)' = Unacked(r)  BY <2>1 DEF Unacked, Handled
  <2>4. \A n \in Handled(s) : n \in Handled(s)' \/ (n = h.log /\ h.live)
    <3>1. \A n : n \in Handled(s)' <=> \E k \in writer'[s] : k.live /\ n = k.log
      BY DEF Handled
    <3>2. \A n : n \in Handled(s) <=> \E k \in writer[s] : k.live /\ n = k.log
      BY DEF Handled
    <3> QED  BY <2>1, <3>1, <3>2
  <2>5. \A n \in Unacked(s) : n \in Unacked(s)' \/ (n = h.log /\ Answers(s, h))
    BY <2>1, <2>4 DEF Unacked, Answers
  <2>6. h.pc = "ack" => lines'[h.log] > 0  BY <1>0, <2>1 DEF WroteInv
  <2> QED  BY <1>0, <2>1, <2>2, <2>3, <2>5, <2>6 DEF Kept
<1>7. ASSUME NEW s \in Server, TakesBack(s)
      PROVE  WroteInv' /\ \A n \in accepted' : lines'[n] > 0 \/ Kept(n)'
  <2>1. /\ UNCHANGED <<lines, accepted>> /\ ready' = ready \cup Unacked(s)
        /\ \A r \in Server \ {s} : /\ phase'[r] = phase[r] /\ buffer'[r] = buffer[r]
                                   /\ writer'[r] = writer[r]
        /\ writer'[s] \subseteq writer[s]
    BY <1>0, <1>7, TakesBackFacts DEF TakeBack, TypeOK
  <2>2. WroteInv'  BY <1>0, <2>1 DEF WroteInv
  <2>3. \A r \in Server \ {s} : Unacked(r)' = Unacked(r)  BY <2>1 DEF Unacked, Handled
  <2> QED  BY <1>0, <2>1, <2>2, <2>3 DEF Kept
<1>8. CASE Gateway \/ UNCHANGED vars
  <2>1. UNCHANGED <<ready, phase, buffer, writer, lines, accepted>>
    BY <1>8, GatewayFacts DEF vars, server, file
  <2>2. \A s : Unacked(s)' = Unacked(s)  BY <2>1 DEF Unacked, Handled
  <2> QED  BY <1>0, <2>1, <2>2 DEF Kept, WroteInv
<1> QED  BY <1>1, <1>2, <1>3, <1>4, <1>5, <1>6, <1>7, <1>8, Cases

(* A log that reached the durable queue is in the file, in the queue or with *)
(* a server that has yet to answer for it, whatever fails.                   *)
THEOREM NothingIsLost == Spec => []NoLogIsLost
<1>1. Init => LostInv
  BY TypeInit DEF Init, LostInv, WroteInv, NoLogIsLost
<1>2. LostInv /\ [Next]_vars => LostInv'
  BY LostStep, TypeStep DEF LostInv
<1>3. LostInv => NoLogIsLost  BY DEF LostInv
<1> QED  BY <1>1, <1>2, <1>3, PTL DEF Spec
-----------------------------------------------------------------------------
(* The gateway: what is in its queue is newer than what its handlers have in *)
(* hand, no two of which have the same log, and that of the new consumer is  *)
(* newer than that of an old one and than all that was heard.                *)
QueueInv ==
    /\ \A m \in heard : m <= published
    /\ \A i \in DOMAIN webq : /\ webq[i] <= published
                              /\ \A m \in heard : m < webq[i]
                              /\ \A h \in shower : h.log < webq[i]
    /\ \A i, j \in DOMAIN webq : i < j => webq[i] < webq[j]

HandInv ==
    /\ \A h \in shower : h.log <= published /\ h.log \notin heard
    /\ \A g, h \in shower : g.log = h.log => g = h
    /\ \A h \in shower : h.live => /\ \A m \in heard : m < h.log
                                   /\ \A g \in shower : g = h \/ g.log < h.log

ShownInv == TypeOK /\ QueueInv /\ HandInv /\ WebLogIsNewest

(* The logs, wherever the gateway has them, are numbers.                     *)
LEMMA WebTypes ==
    ASSUME TypeOK
    PROVE  /\ published \in Nat /\ Log \subseteq Nat
           /\ webq \in Seq(Log) /\ webLog \in Seq(Log)
           /\ shower \subseteq Showers /\ heard \subseteq Log
           /\ \A i \in DOMAIN webq : webq[i] \in Nat
           /\ \A m \in heard : m \in Nat
           /\ \A h \in shower : h.log \in Log /\ h.log \in Nat
<1>1. Log \subseteq Nat  BY DEF Log
<1>2. published \in Nat  BY GameLogAssumption DEF TypeOK
<1>3. /\ webq \in Seq(Log) /\ webLog \in Seq(Log) /\ shower \subseteq Showers
      /\ heard \subseteq Log
  BY DEF TypeOK
<1>4. \A i \in DOMAIN webq : webq[i] \in Log  BY <1>3
<1>5. \A h \in shower : h.log \in Log  BY <1>3, ShowerFacts
<1> QED  BY <1>1, <1>2, <1>3, <1>4, <1>5

(* A log is published: the newest of all.                                    *)
LEMMA WebPublish ==
    ASSUME ShownInv, Publish
    PROVE  QueueInv' /\ HandInv'
<1>0. TypeOK /\ QueueInv /\ HandInv  BY DEF ShownInv
<1>1. published' = published + 1 /\ UNCHANGED <<heard, shower>>  BY DEF Publish
<1>2. /\ \A m \in heard : m <= published /\ m < published + 1
      /\ \A h \in shower : h.log <= published /\ h.log < published + 1
      /\ \A i \in DOMAIN webq : webq[i] <= published /\ webq[i] < published + 1
  <2>1. \A n \in Nat : n <= published => n < published + 1  BY <1>0, WebTypes
  <2> QED  BY <1>0, <2>1, WebTypes DEF QueueInv, HandInv
<1>3. \A n \in Nat : n < published + 1 => n <= published + 1  BY <1>0, WebTypes
<1>4. HandInv'
  <2>1. \A h \in shower : h.log <= published + 1 /\ h.log \notin heard
    BY <1>0, <1>2, <1>3, WebTypes DEF HandInv
  <2> QED  BY <1>0, <1>1, <2>1 DEF HandInv
<1>5. CASE UNCHANGED webq
  <2>1. /\ \A m \in heard : m <= published + 1
        /\ \A i \in DOMAIN webq : webq[i] <= published + 1
    BY <1>0, <1>2, <1>3, WebTypes
  <2> QED  BY <1>0, <1>1, <1>4, <1>5, <2>1 DEF QueueInv
<1>6. CASE webq' = Append(webq, published')
  <2>1. /\ DOMAIN webq' = 1..(Len(webq) + 1) /\ DOMAIN webq = 1..Len(webq) /\ Len(webq) \in Nat
        /\ \A i \in DOMAIN webq : webq'[i] = webq[i] /\ webq[i] \in Nat
        /\ webq'[Len(webq) + 1] = published + 1
    <3>1. webq \in Seq(Nat) /\ published + 1 \in Nat /\ webq' = Append(webq, published + 1)
      BY <1>0, <1>1, <1>6, WebTypes
    <3> QED  BY <3>1
  <2>2. \A i \in DOMAIN webq' : i \in DOMAIN webq \/ i = Len(webq) + 1  BY <2>1
  <2>3. \A i \in DOMAIN webq' : /\ webq'[i] <= published + 1
                                /\ \A m \in heard : m < webq'[i]
                                /\ \A h \in shower : h.log < webq'[i]
    <3>1. ASSUME NEW i \in DOMAIN webq
          PROVE  /\ webq'[i] <= published + 1
                 /\ \A m \in heard : m < webq'[i]
                 /\ \A h \in shower : h.log < webq'[i]
      BY <1>0, <1>2, <1>3, <2>1 DEF QueueInv
    <3>2. ASSUME NEW i, i = Len(webq) + 1
          PROVE  /\ webq'[i] <= published + 1
                 /\ \A m \in heard : m < webq'[i]
                 /\ \A h \in shower : h.log < webq'[i]
      BY <1>0, <1>2, <2>1, <3>2, WebTypes
    <3> QED  BY <2>2, <3>1, <3>2
  <2>4. \A i, j \in DOMAIN webq' : i < j => webq'[i] < webq'[j]
    <3> SUFFICES ASSUME NEW i \in DOMAIN webq', NEW j \in DOMAIN webq', i < j
                 PROVE  webq'[i] < webq'[j]
      OBVIOUS
    <3>1. i \in DOMAIN webq  BY <2>1
    <3>2. CASE j \in DOMAIN webq  BY <1>0, <2>1, <3>1, <3>2 DEF QueueInv
    <3>3. CASE j = Len(webq) + 1  BY <1>2, <2>1, <3>1, <3>3
    <3> QED  BY <2>2, <3>2, <3>3
  <2>5. \A m \in heard : m <= published + 1  BY <1>0, <1>2, <1>3, WebTypes
  <2> QED  BY <1>1, <1>4, <2>3, <2>4, <2>5 DEF QueueInv
<1> QED  BY <1>4, <1>5, <1>6 DEF Publish

(* The head of the queue goes to the new consumer's handler.                 *)
LEMMA WebTake ==
    ASSUME ShownInv, TakeWebLog
    PROVE  QueueInv' /\ HandInv'
<1>0. TypeOK /\ QueueInv /\ HandInv  BY DEF ShownInv
<1> DEFINE x == Head(webq)
           g == [log |-> x, live |-> TRUE]
<1>1. /\ UNCHANGED <<published, heard>> /\ webq # <<>> /\ webq' = Tail(webq)
      /\ shower' = shower \cup {g} /\ \A h \in shower : ~h.live
  BY DEF TakeWebLog, server
<1>2. g.log = x /\ g.live  OBVIOUS
<1>3. /\ x = webq[1] /\ 1 \in DOMAIN webq /\ x \in Nat
      /\ \A i \in DOMAIN webq' : i + 1 \in DOMAIN webq /\ webq'[i] = webq[i + 1] /\ i \in Nat \ {0}
  BY <1>0, <1>1, WebTypes
<1> HIDE DEF x, g
<1>4. /\ x <= published
      /\ \A m \in heard : m < x
      /\ \A h \in shower : h.log < x
  BY <1>0, <1>3 DEF QueueInv
<1>5. \A i \in DOMAIN webq' : /\ webq'[i] <= published /\ x < webq'[i]
                              /\ \A m \in heard : m < webq'[i]
                              /\ \A h \in shower : h.log < webq'[i]
  BY <1>0, <1>3 DEF QueueInv
<1>6. \A i, j \in DOMAIN webq' : i < j => webq'[i] < webq'[j]
  <2> SUFFICES ASSUME NEW i \in DOMAIN webq', NEW j \in DOMAIN webq', i < j
               PROVE  webq'[i] < webq'[j]
    OBVIOUS
  <2>1. i + 1 < j + 1 /\ i + 1 \in DOMAIN webq /\ j + 1 \in DOMAIN webq  BY <1>3
  <2>2. webq[i + 1] < webq[j + 1]  BY <1>0, <2>1 DEF QueueInv
  <2> QED  BY <1>3, <2>2
<1>7. QueueInv'  BY <1>0, <1>1, <1>2, <1>5, <1>6 DEF QueueInv
<1>8. x \notin heard /\ \A h \in shower : h.log # x
  <2>1. \A n \in Nat : n < x => n # x  BY <1>3
  <2> QED  BY <1>0, <1>4, <2>1, WebTypes
<1>9. HandInv'
  <2>1. \A h \in shower' : h.log <= published /\ h.log \notin heard
    BY <1>0, <1>1, <1>2, <1>4, <1>8 DEF HandInv
  <2>2. \A k, h \in shower' : k.log = h.log => k = h
    BY <1>0, <1>1, <1>2, <1>8 DEF HandInv
  <2>3. \A h \in shower' : h.live => h = g  BY <1>1
  <2>4. (\A m \in heard : m < g.log) /\ \A k \in shower' : k = g \/ k.log < g.log
    BY <1>1, <1>2, <1>4
  <2> QED  BY <1>1, <2>1, <2>2, <2>3, <2>4 DEF HandInv
<1> QED  BY <1>7, <1>9

(* A handler appends its log. That of the new consumer is newer than all     *)
(* heard; that of an old one was not heard before.                           *)
LEMMA WebApply ==
    ASSUME ShownInv, NEW h \in shower, ApplyLog(h)
    PROVE  QueueInv' /\ HandInv' /\ WebLogIsNewest'
<1>0. TypeOK /\ QueueInv /\ HandInv /\ WebLogIsNewest  BY DEF ShownInv
<1> DEFINE x == h.log
           a == Append(webLog, x)
<1>1. /\ UNCHANGED <<published, webq>> /\ shower' = shower \ {h}
      /\ heard' = heard \cup {x} /\ webLog' = Newest(a)
      /\ late' = IF h.live THEN late ELSE late \cup {x}
  BY DEF ApplyLog, server
<1>2. x \in Log /\ x \notin heard /\ x <= published /\ (h.live => \A m \in heard : m < x)
  BY <1>0, WebTypes DEF HandInv
<1>3. x \in late' \/ \A m \in heard : m < x  BY <1>1, <1>2
<1>4. /\ a \in Seq(Log) /\ Len(a) = Len(webLog) + 1 /\ DOMAIN a = 1..(Len(webLog) + 1)
      /\ \A i \in DOMAIN webLog : a[i] = webLog[i]
      /\ a[Len(webLog) + 1] = x
      /\ Len(webLog) \in Nat /\ DOMAIN webLog = 1..Len(webLog) /\ Len(webLog) <= LogLimit
      /\ LogLimit \in Nat \ {0}
  <2>1. webLog \in Seq(Log) /\ x \in Log  BY <1>0, <1>2, WebTypes
  <2>2. Len(webLog) <= LogLimit /\ LogLimit \in Nat \ {0}
    BY <1>0, GameLogAssumption DEF TypeOK
  <2> HIDE DEF x
  <2> QED  BY <2>1, <2>2
<1>5. ToSet(a) = ToSet(webLog) \cup {x}  BY <1>0, <1>2, WebTypes, ToSetFacts
<1>6. QueueInv'
  BY <1>0, <1>1, <1>2 DEF QueueInv
<1>7. HandInv'
  <2>1. \A g \in shower' : g \in shower /\ g # h /\ g.log # x  BY <1>0, <1>1 DEF HandInv
  <2>2. \A g \in shower' : g.log <= published' /\ g.log \notin heard'
    BY <1>0, <1>1, <2>1 DEF HandInv
  <2>3. \A g \in shower' : g.live => x < g.log  BY <1>0, <2>1 DEF HandInv
  <2> QED  BY <1>0, <1>1, <2>1, <2>2, <2>3 DEF HandInv
<1> HIDE DEF x, a
<1>8. late \subseteq late' /\ heard \subseteq heard'  BY <1>1
<1>9. \A i, j \in DOMAIN a : i < j => a[i] < a[j] \/ (a[j] \in late' /\ a[i] # a[j])
  <2> SUFFICES ASSUME NEW i \in DOMAIN a, NEW j \in DOMAIN a, i < j
               PROVE  a[i] < a[j] \/ (a[j] \in late' /\ a[i] # a[j])
    OBVIOUS
  <2>1. i \in DOMAIN webLog /\ (j \in DOMAIN webLog \/ j = Len(webLog) + 1)  BY <1>4
  <2>2. CASE j \in DOMAIN webLog
    BY <1>0, <1>4, <1>8, <2>1, <2>2 DEF WebLogIsNewest
  <2>3. CASE j = Len(webLog) + 1
    <3>1. a[i] \in heard  BY <1>0, <1>4, <2>1 DEF WebLogIsNewest, ToSet
    <3> QED  BY <1>2, <1>3, <1>4, <2>3, <3>1
  <2> QED  BY <2>1, <2>2, <2>3
<1>10. CASE Len(webLog) < LogLimit
  <2>1. webLog' = a  BY <1>1, <1>4, <1>10, NewestFacts
  <2>2. heard' \subseteq ToSet(webLog')
    <3>0. Len(webLog) \in Nat /\ LogLimit \in Nat  BY <1>4
    <3>1. Len(webLog) # LogLimit  BY <1>10, <3>0
    <3>2. heard \subseteq ToSet(webLog)  BY <1>0, <3>1 DEF WebLogIsNewest
    <3> QED  BY <1>1, <1>5, <2>1, <3>2
  <2>3. ToSet(webLog') \subseteq heard'  BY <1>0, <1>1, <1>5, <2>1 DEF WebLogIsNewest
  <2>4. WebLogIsNewest'  BY <1>9, <2>1, <2>2, <2>3 DEF WebLogIsNewest
  <2> QED  BY <1>6, <1>7, <2>4
<1>11. CASE Len(webLog) = LogLimit
  <2>1. webLog' = Tail(a) /\ a # <<>>  BY <1>1, <1>4, <1>11, NewestFacts
  <2>2. /\ Len(webLog') = LogLimit /\ DOMAIN webLog' = 1..LogLimit
        /\ \A i \in 1..LogLimit : i + 1 \in DOMAIN a /\ webLog'[i] = a[i + 1]
        /\ Head(a) = a[1] /\ a[1] = webLog[1] /\ 1 \in DOMAIN webLog
    BY <1>4, <1>11, <2>1
  <2>3. ToSet(a) = {webLog[1]} \cup ToSet(webLog')
    BY <1>4, <2>1, <2>2, ToSetFacts
  <2>4. ToSet(webLog') \subseteq heard'
    BY <1>0, <1>1, <1>5, <2>3 DEF WebLogIsNewest
  <2>5. \A i, j \in DOMAIN webLog' :
           i < j => webLog'[i] < webLog'[j] \/ (webLog'[j] \in late' /\ webLog'[i] # webLog'[j])
    <3> SUFFICES ASSUME NEW i \in DOMAIN webLog', NEW j \in DOMAIN webLog', i < j
                 PROVE  \/ webLog'[i] < webLog'[j]
                        \/ webLog'[j] \in late' /\ webLog'[i] # webLog'[j]
      OBVIOUS
    <3>1. i + 1 < j + 1 /\ i + 1 \in DOMAIN a /\ j + 1 \in DOMAIN a  BY <1>4, <2>2
    <3> QED  BY <1>9, <2>2, <3>1
  <2>6. ASSUME NEW n \in heard' \ ToSet(webLog'), NEW m \in ToSet(webLog')
        PROVE  n < m \/ m \in late'
    <3>1. n \in heard  BY <1>1, <1>5, <2>1, <2>2, <2>3, <2>6, <1>4 DEF ToSet
    <3>2. CASE m = x  BY <1>3, <3>1, <3>2
    <3>3. CASE m # x
      <4>1. m \in ToSet(webLog) /\ m \in ToSet(a)  BY <1>5, <2>3, <3>3
      <4>2. CASE n \in ToSet(webLog)
        <5>1. n = webLog[1]  BY <1>5, <2>3, <2>6, <4>2
        <5>2. PICK i \in DOMAIN webLog : m = webLog[i]  BY <4>1, Zenon DEF ToSet
        <5>3. i # 1  BY <2>6, <5>1, <5>2
        <5>4. 1 < i  BY <1>4, <5>2, <5>3
        <5> QED  BY <1>0, <1>8, <2>2, <5>1, <5>2, <5>4 DEF WebLogIsNewest
      <4>3. CASE n \notin ToSet(webLog)
        BY <1>0, <1>8, <3>1, <4>1, <4>3 DEF WebLogIsNewest
      <4> QED  BY <4>2, <4>3
    <3> QED  BY <3>2, <3>3
  <2>7. WebLogIsNewest'  BY <2>2, <2>4, <2>5, <2>6 DEF WebLogIsNewest
  <2> QED  BY <1>6, <1>7, <2>7
<1>12. Len(webLog) < LogLimit \/ Len(webLog) = LogLimit
  <2>1. Len(webLog) \in Nat /\ LogLimit \in Nat /\ Len(webLog) <= LogLimit  BY <1>4
  <2> QED  BY <2>1
<1> QED  BY <1>10, <1>11, <1>12

(* A new connection has a new queue and a new consumer; the old handlers are *)
(* not live any more.                                                        *)
LEMMA WebReconnect ==
    ASSUME ShownInv, GatewayReconnects
    PROVE  QueueInv' /\ HandInv'
<1>0. TypeOK /\ QueueInv /\ HandInv  BY DEF ShownInv
<1>1. /\ UNCHANGED <<published, heard>> /\ webq' = <<>>
      /\ shower' = {[h EXCEPT !.live = FALSE] : h \in shower}
  BY DEF GatewayReconnects, server
<1>2. \A g \in shower' : \E h \in shower : g = [h EXCEPT !.live = FALSE] /\ g.log = h.log /\ ~g.live
  <2>1. ASSUME NEW g \in shower'
        PROVE  \E h \in shower : g = [h EXCEPT !.live = FALSE] /\ g.log = h.log /\ ~g.live
    <3>1. PICK h \in shower : g = [h EXCEPT !.live = FALSE]  BY <1>1
    <3>2. g.log = h.log /\ g.live = FALSE  BY <1>0, <3>1, WebTypes, ShowerFacts
    <3> QED  BY <3>1, <3>2
  <2> QED  BY <2>1
<1>3. DOMAIN <<>> = {}  OBVIOUS
<1>4. QueueInv'  BY <1>0, <1>1, <1>3 DEF QueueInv
<1>5. ASSUME NEW g \in shower', NEW k \in shower', g.log = k.log
      PROVE  g = k
  <2>1. PICK h \in shower : g = [h EXCEPT !.live = FALSE] /\ g.log = h.log  BY <1>2
  <2>2. PICK m \in shower : k = [m EXCEPT !.live = FALSE] /\ k.log = m.log  BY <1>2
  <2>3. h.log = m.log  BY <1>5, <2>1, <2>2
  <2>4. h = m  BY <1>0, <2>3 DEF HandInv
  <2> QED  BY <2>1, <2>2, <2>4
<1>6. \A g \in shower' : g.log <= published /\ g.log \notin heard /\ ~g.live
  BY <1>0, <1>2 DEF HandInv
<1> QED  BY <1>1, <1>4, <1>5, <1>6 DEF HandInv

(* Every step keeps the order.                                               *)
LEMMA WebStep ==
    ASSUME ShownInv, [Next]_vars
    PROVE  QueueInv' /\ HandInv' /\ WebLogIsNewest'
<1>0. TypeOK /\ QueueInv /\ HandInv /\ WebLogIsNewest  BY DEF ShownInv
<1>1. CASE Publish
  <2>1. UNCHANGED <<webLog, heard, late>>  BY <1>1 DEF Publish
  <2>2. WebLogIsNewest'  BY <1>0, <2>1 DEF WebLogIsNewest
  <2> QED  BY <1>1, <2>2, WebPublish
<1>2. CASE TakeWebLog
  <2>1. UNCHANGED <<webLog, heard, late>>  BY <1>2 DEF TakeWebLog
  <2>2. WebLogIsNewest'  BY <1>0, <2>1 DEF WebLogIsNewest
  <2> QED  BY <1>2, <2>2, WebTake
<1>3. ASSUME NEW h \in shower, ApplyLog(h)
      PROVE  QueueInv' /\ HandInv' /\ WebLogIsNewest'
  BY <1>3, WebApply
<1>4. CASE GatewayReconnects
  <2>1. UNCHANGED <<webLog, heard, late>>  BY <1>4 DEF GatewayReconnects
  <2>2. WebLogIsNewest'  BY <1>0, <2>1 DEF WebLogIsNewest
  <2> QED  BY <1>4, <2>2, WebReconnect
<1>5. CASE StopGateway
  <2>1. /\ UNCHANGED published /\ webq' = <<>> /\ shower' = {}
        /\ webLog' = <<>> /\ heard' = {} /\ late' = {}
    BY <1>5 DEF StopGateway, server
  <2>2. DOMAIN <<>> = {}  OBVIOUS
  <2>3. ToSet(<<>>) = {}  BY <2>2 DEF ToSet
  <2> QED  BY <2>1, <2>2, <2>3 DEF QueueInv, HandInv, WebLogIsNewest
<1>6. CASE UNCHANGED <<published, web>>
  BY <1>0, <1>6 DEF web, QueueInv, HandInv, WebLogIsNewest
<1>7. ASSUME StartGateway \/ GatewayLosesConnection
      PROVE  QueueInv' /\ HandInv' /\ WebLogIsNewest'
  <2>1. UNCHANGED <<published, webq, shower, webLog, heard, late>>
    BY <1>7 DEF StartGateway, GatewayLosesConnection, server
  <2> QED  BY <1>0, <2>1 DEF QueueInv, HandInv, WebLogIsNewest
<1>8. ASSUME NEW s \in Server,
             \/ StartServer(s) \/ Send(s) \/ TakeLog(s) \/ Reconnect(s) \/ TakesBack(s)
             \/ \E h \in writer[s] : WriteLog(s, h) \/ AckLog(s, h) \/ NackLog(s, h)
      PROVE  UNCHANGED <<published, web>>
  BY <1>8, ServerFacts
<1>9. CASE UNCHANGED vars
  <2>1. UNCHANGED <<published, web>>  BY <1>9 DEF vars
  <2> QED  BY <1>6, <2>1
<1> QED  BY <1>1, <1>2, <1>3, <1>4, <1>5, <1>6, <1>7, <1>8, <1>9, Cases DEF Gateway

(* The web shows the newest logs the gateway has heard of, each once and in  *)
(* the order of publication, but for those that an old consumer brings late: *)
(* only at a reconnect, and only the one it had in hand.                     *)
THEOREM WebIsNewest == Spec => []WebLogIsNewest
<1>1. Init => ShownInv
  <2>1. DOMAIN <<>> = {}  OBVIOUS
  <2>2. ToSet(<<>>) = {}  BY <2>1 DEF ToSet
  <2> QED  BY <2>1, <2>2, TypeInit DEF Init, ShownInv, QueueInv, HandInv, WebLogIsNewest
<1>2. ShownInv /\ [Next]_vars => ShownInv'
  BY TypeStep, WebStep DEF ShownInv
<1>3. ShownInv => WebLogIsNewest  BY DEF ShownInv
<1> QED  BY <1>1, <1>2, <1>3, PTL DEF Spec
-----------------------------------------------------------------------------
(* Repeated lines. The broker has each log in one place only: in the queue,  *)
(* or with one server, buffered once or in the hands of its one live handler *)
(* (PlaceInv).                                                               *)
Placed(s) ==
    /\ phase[s] = "out" => buffer[s] = <<>> /\ writer[s] = {}
    /\ \A g, h \in writer[s] : g.live /\ h.live => g = h
    /\ phase[s] = "up" =>
          /\ \A i, j \in DOMAIN buffer[s] : buffer[s][i] = buffer[s][j] => i = j
          /\ ToSet(buffer[s]) \cap Handled(s) = {}

PlaceInv ==
    /\ \A s \in Server : /\ Placed(s)
                         /\ Unacked(s) \cap ready = {}
                         /\ Unacked(s) \cup ready \subseteq 1..published
    /\ \A s, r \in Server : s # r => Unacked(s) \cap Unacked(r) = {}

(* What the broker has given up it does not have again.                      *)
GivenUpStays == \A n \in 1..published : Kept(n)' => Kept(n)

(* A log moves between the queue and one server, and is never in both.       *)
LEMMA PlaceServer ==
    ASSUME TypeOK, PlaceInv, NEW s \in Server, UNCHANGED published, Placed(s)',
           \A r \in Server \ {s} : /\ phase'[r] = phase[r] /\ buffer'[r] = buffer[r]
                                   /\ writer'[r] = writer[r],
           ready' \subseteq ready \cup Unacked(s),
           Unacked(s)' \subseteq Unacked(s) \cup ready,
           Unacked(s)' \cap ready' = {}
    PROVE  PlaceInv' /\ GivenUpStays
<1>1. \A r \in Server \ {s} : Handled(r)' = Handled(r) /\ Unacked(r)' = Unacked(r)
  BY DEF Unacked, Handled
<1>2. ASSUME NEW r \in Server \ {s}
      PROVE  /\ Placed(r)'
             /\ Unacked(r)' \cap ready' = {}
             /\ Unacked(r)' \cup ready' \subseteq 1..published'
             /\ Unacked(r)' \cap Unacked(s)' = {}
  <2>1. Placed(r)'
    <3>1. Placed(r)  BY DEF PlaceInv
    <3> QED  BY <1>1, <3>1 DEF Placed
  <2>2. /\ Unacked(r) \cap ready = {} /\ Unacked(r) \cap Unacked(s) = {}
        /\ Unacked(r) \cup ready \subseteq 1..published
        /\ Unacked(s) \cup ready \subseteq 1..published
    BY DEF PlaceInv
  <2> HIDE DEF Unacked, PlaceInv
  <2> QED  BY <1>1, <2>1, <2>2
<1>3. Unacked(s)' \cup ready' \subseteq 1..published'
  BY DEF PlaceInv
<1>4. ASSUME NEW r \in Server, NEW t \in Server, r # t
      PROVE  Unacked(r)' \cap Unacked(t)' = {}
  <2>1. CASE r = s  BY <1>2, <1>4, <2>1
  <2>2. CASE t = s  BY <1>2, <1>4, <2>2
  <2>3. CASE r # s /\ t # s  BY <1>1, <1>4, <2>3 DEF PlaceInv
  <2> QED  BY <2>1, <2>2, <2>3
<1>5. ASSUME NEW n, Kept(n)' PROVE Kept(n)
  <2> HIDE DEF Unacked
  <2>1. n \in ready' \/ n \in Unacked(s)' => n \in ready \/ n \in Unacked(s)
    OBVIOUS
  <2> QED  BY <1>1, <1>5, <2>1 DEF Kept
<1> QED  BY <1>2, <1>3, <1>4, <1>5 DEF PlaceInv, GivenUpStays

(* Every step keeps a log's one place, and gives back none that was done.    *)
LEMMA PlaceStep ==
    ASSUME TypeOK, PlaceInv, [Next]_vars
    PROVE  PlaceInv' /\ GivenUpStays
<1>t. /\ \A s \in Server : writer[s] \subseteq Writers /\ buffer[s] \in Seq(Log)
      /\ published \in Nat /\ MaxLogs \in Nat
  BY GameLogAssumption DEF TypeOK
<1>1. CASE Publish
  <2>1. UNCHANGED file /\ published' = published + 1 /\ ready' \subseteq ready \cup {published'}
    BY <1>1 DEF Publish
  <2>2. \A s : Unacked(s)' = Unacked(s) /\ Handled(s)' = Handled(s)
    BY <2>1 DEF Unacked, Handled, file
  <2>3. \A s \in Server : Placed(s)'  BY <2>1, <2>2 DEF PlaceInv, Placed, file
  <2>4. published' \notin 1..published /\ 1..published \cup {published'} \subseteq 1..published'
    BY <1>t, <2>1
  <2>5. ASSUME NEW s \in Server
        PROVE  /\ Unacked(s)' \cap ready' = {}
               /\ Unacked(s)' \cup ready' \subseteq 1..published'
    <3>1. Unacked(s) \cap ready = {} /\ Unacked(s) \cup ready \subseteq 1..published
      BY DEF PlaceInv
    <3> HIDE DEF Unacked
    <3> QED  BY <2>1, <2>2, <2>4, <3>1
  <2>6. GivenUpStays  BY <2>1, <2>2, <2>4 DEF GivenUpStays, Kept
  <2> QED  BY <2>2, <2>3, <2>5, <2>6 DEF PlaceInv
<1>2. ASSUME NEW s \in Server, StartServer(s) \/ Reconnect(s)
      PROVE  PlaceInv' /\ GivenUpStays
  <2>1. /\ UNCHANGED <<published, ready>> /\ phase'[s] = "up"
        /\ \A r \in Server \ {s} : /\ phase'[r] = phase[r] /\ buffer'[r] = buffer[r]
                                   /\ writer'[r] = writer[r]
    BY <1>2 DEF StartServer, Reconnect, TypeOK
  <2>2. buffer'[s] = <<>> /\ \A h \in writer'[s] : ~h.live
    <3>1. CASE StartServer(s)
      <4>1. buffer[s] = <<>> /\ writer[s] = {}  BY <3>1 DEF StartServer, PlaceInv, Placed
      <4> QED  BY <3>1, <4>1 DEF StartServer
    <3>2. CASE Reconnect(s)
      <4>1. writer'[s] = {[h EXCEPT !.live = FALSE] : h \in writer[s]} /\ buffer'[s] = <<>>
        BY <3>2 DEF Reconnect, TypeOK
      <4>2. \A h \in writer[s] : [h EXCEPT !.live = FALSE].live = FALSE  BY <1>t, WriterFacts
      <4> QED  BY <4>1, <4>2
    <3> QED  BY <1>2, <3>1, <3>2
  <2>3. Handled(s)' = {} /\ ToSet(buffer'[s]) = {}
    <3>1. DOMAIN <<>> = {}  OBVIOUS
    <3> QED  BY <2>2, <3>1 DEF Handled, ToSet
  <2>4. Unacked(s)' = {}  BY <2>3 DEF Unacked
  <2>5. Placed(s)'  BY <2>1, <2>2, <2>3 DEF Placed
  <2> QED  BY <2>1, <2>4, <2>5, PlaceServer
<1>3. ASSUME NEW s \in Server, Send(s)
      PROVE  PlaceInv' /\ GivenUpStays
  <2>1. PICK m \in ready : buffer' = [buffer EXCEPT ![s] = Append(@, m)] /\ ready' = ready \ {m}
    BY <1>3 DEF Send
  <2>2. UNCHANGED <<phase, writer, published>> /\ phase[s] = "up"  BY <1>3 DEF Send
  <2>3. m \in Log  BY DEF TypeOK
  <2>4. /\ buffer'[s] = Append(buffer[s], m)
        /\ \A r \in Server \ {s} : buffer'[r] = buffer[r]
    BY <2>1 DEF TypeOK
  <2>5. ToSet(buffer'[s]) = ToSet(buffer[s]) \cup {m}  BY <1>t, <2>3, <2>4, ToSetFacts
  <2>6. Handled(s)' = Handled(s) /\ Unacked(s)' = Unacked(s) \cup {m}
    BY <2>2, <2>5 DEF Unacked, Handled
  <2>7. m \notin Unacked(s) /\ Unacked(s) \cap ready = {}  BY DEF PlaceInv
  <2>8. m \notin ToSet(buffer[s]) /\ m \notin Handled(s)  BY <2>2, <2>7 DEF Unacked
  <2>9. Placed(s)'
    <3>1. /\ \A i, j \in DOMAIN buffer[s] : buffer[s][i] = buffer[s][j] => i = j
          /\ ToSet(buffer[s]) \cap Handled(s) = {}
          /\ \A g, h \in writer[s] : g.live /\ h.live => g = h
      BY <2>2 DEF PlaceInv, Placed
    <3>2. /\ DOMAIN buffer'[s] = DOMAIN buffer[s] \cup {Len(buffer[s]) + 1}
          /\ \A i \in DOMAIN buffer[s] : buffer'[s][i] = buffer[s][i]
          /\ buffer'[s][Len(buffer[s]) + 1] = m
      BY <1>t, <2>3, <2>4
    <3>3. \A i \in DOMAIN buffer[s] : buffer[s][i] # m  BY <2>8, Zenon DEF ToSet
    <3>4. \A i, j \in DOMAIN buffer'[s] : buffer'[s][i] = buffer'[s][j] => i = j
      BY <3>1, <3>2, <3>3
    <3> QED  BY <2>2, <2>5, <2>6, <2>8, <3>1, <3>4 DEF Placed
  <2> HIDE DEF Unacked
  <2> QED  BY <2>1, <2>2, <2>4, <2>6, <2>7, <2>9, PlaceServer
<1>4. ASSUME NEW s \in Server, TakeLog(s)
      PROVE  PlaceInv' /\ GivenUpStays
  <2> DEFINE g == [log |-> Head(buffer[s]), pc |-> "write", live |-> TRUE]
  <2>1. /\ UNCHANGED <<published, ready, phase>> /\ buffer[s] # <<>> /\ Handled(s) = {}
        /\ writer'[s] = writer[s] \cup {g} /\ buffer'[s] = Tail(buffer[s])
        /\ \A r \in Server \ {s} : writer'[r] = writer[r] /\ buffer'[r] = buffer[r]
    BY <1>4 DEF TakeLog, TypeOK
  <2>2. ToSet(buffer[s]) = {Head(buffer[s])} \cup ToSet(buffer'[s])
    BY <1>t, <2>1, ToSetFacts
  <2>3. g.log = Head(buffer[s]) /\ g.live /\ g.pc = "write"  OBVIOUS
  <2> HIDE DEF g
  <2>4. \A h \in writer[s] : ~h.live  BY <2>1 DEF Handled
  <2>5. Handled(s)' = {Head(buffer[s])}
    <3>1. \A h \in writer'[s] : h.live <=> h = g  BY <2>1, <2>3, <2>4
    <3>2. g \in writer'[s]  BY <2>1
    <3> QED  BY <2>3, <3>1, <3>2 DEF Handled
  <2>6. Unacked(s)' = Unacked(s)  BY <2>1, <2>2, <2>5 DEF Unacked
  <2>7. Placed(s)'
    <3>1. phase[s] # "out"  BY <2>1 DEF PlaceInv, Placed
    <3>2. ASSUME phase[s] = "up"
          PROVE  /\ \A i, j \in DOMAIN buffer'[s] : buffer'[s][i] = buffer'[s][j] => i = j
                 /\ ToSet(buffer'[s]) \cap {Head(buffer[s])} = {}
      <4>1. \A i, j \in DOMAIN buffer[s] : buffer[s][i] = buffer[s][j] => i = j
        BY <3>2 DEF PlaceInv, Placed
      <4>2. /\ Head(buffer[s]) = buffer[s][1] /\ 1 \in DOMAIN buffer[s]
            /\ \A i \in DOMAIN buffer'[s] : /\ i \in Nat \ {0} /\ i + 1 \in DOMAIN buffer[s]
                                            /\ buffer'[s][i] = buffer[s][i + 1]
        BY <1>t, <2>1
      <4>3. ASSUME NEW i \in DOMAIN buffer'[s], NEW j \in DOMAIN buffer'[s],
                   buffer'[s][i] = buffer'[s][j]
            PROVE  i = j
        <5>1. i + 1 = j + 1  BY <4>1, <4>2, <4>3
        <5> QED  BY <4>2, <5>1
      <4>4. \A i \in DOMAIN buffer'[s] : buffer'[s][i] # Head(buffer[s])
        <5>1. ASSUME NEW i \in DOMAIN buffer'[s], buffer'[s][i] = Head(buffer[s]) PROVE FALSE
          <6>1. i + 1 = 1  BY <4>1, <4>2, <5>1
          <6> QED  BY <4>2, <6>1
        <5> QED  BY <5>1
      <4> QED  BY <4>3, <4>4, Zenon DEF ToSet
    <3> QED  BY <2>1, <2>5, <2>4, <3>1, <3>2 DEF Placed
  <2>8. Unacked(s) \cap ready = {}  BY DEF PlaceInv
  <2> HIDE DEF Unacked
  <2> QED  BY <2>1, <2>6, <2>7, <2>8, PlaceServer
<1>5. ASSUME NEW s \in Server, NEW h \in writer[s], WriteLog(s, h)
      PROVE  PlaceInv' /\ GivenUpStays
  <2> DEFINE g == [h EXCEPT !.pc = "ack"]
  <2>1. h \in Writers  BY <1>t
  <2>2. g.log = h.log /\ g.live = h.live  BY <2>1, WriterFacts
  <2>3. /\ UNCHANGED <<published, ready, phase, buffer>>
        /\ writer'[s] = (writer[s] \ {h}) \cup {g}
        /\ \A r \in Server \ {s} : writer'[r] = writer[r]
    BY <1>5 DEF WriteLog, TypeOK
  <2> HIDE DEF g
  <2>4. Handled(s)' \subseteq Handled(s)
    <3>1. \A k \in writer'[s] : k = g \/ k \in writer[s]  BY <2>3
    <3> QED  BY <2>2, <3>1 DEF Handled
  <2>5. Unacked(s)' \subseteq Unacked(s)  BY <2>3, <2>4 DEF Unacked
  <2>6. Placed(s)'
    <3>1. Placed(s)  BY DEF PlaceInv
    <3>2. phase[s] # "out"  BY <3>1 DEF Placed
    <3>3. \A k, l \in writer'[s] : k.live /\ l.live => k = l
      BY <2>2, <2>3, <3>1 DEF Placed
    <3> QED  BY <2>3, <2>4, <3>1, <3>2, <3>3 DEF Placed
  <2>7. Unacked(s) \cap ready = {}  BY DEF PlaceInv
  <2> HIDE DEF Unacked
  <2> QED  BY <2>3, <2>5, <2>6, <2>7, PlaceServer
<1>6. ASSUME NEW s \in Server, NEW h \in writer[s], AckLog(s, h) \/ NackLog(s, h)
      PROVE  PlaceInv' /\ GivenUpStays
  <2>1. /\ UNCHANGED <<published, phase, buffer>>
        /\ writer'[s] = writer[s] \ {h}
        /\ \A r \in Server \ {s} : writer'[r] = writer[r]
        /\ ready' = ready \/ (Answers(s, h) /\ ready' = ready \cup {h.log})
    <3>1. /\ UNCHANGED <<published, phase, buffer>>
          /\ writer' = [writer EXCEPT ![s] = writer[s] \ {h}]
          /\ ready' = ready \/ (Answers(s, h) /\ ready' = ready \cup {h.log})
      BY <1>6 DEF AckLog, NackLog
    <3> QED  BY <3>1 DEF TypeOK
  <2>2. Handled(s)' \subseteq Handled(s)  BY <2>1 DEF Handled
  <2>3. Unacked(s)' \subseteq Unacked(s)  BY <2>1, <2>2 DEF Unacked
  <2>4. Placed(s)  BY DEF PlaceInv
  <2>5. Placed(s)'  BY <2>1, <2>2, <2>4 DEF Placed
  <2>6. Unacked(s) \cap ready = {}  BY DEF PlaceInv
  <2>7. CASE ready' = ready
    <3> HIDE DEF Unacked
    <3> QED  BY <2>1, <2>3, <2>5, <2>6, <2>7, PlaceServer
  <2>8. CASE Answers(s, h) /\ ready' = ready \cup {h.log}
    <3>1. h.live /\ phase[s] = "up"  BY <2>8 DEF Answers
    <3>2. Handled(s)' = {}
      <4>1. \A k \in writer'[s] : ~k.live  BY <2>1, <2>4, <3>1 DEF Placed
      <4> QED  BY <4>1 DEF Handled
    <3>3. h.log \in Handled(s)  BY <3>1 DEF Handled
    <3>4. h.log \in Unacked(s) /\ h.log \notin Unacked(s)'
      BY <2>1, <2>4, <3>1, <3>2, <3>3 DEF Unacked, Placed
    <3> HIDE DEF Unacked
    <3>5. Unacked(s)' \cap ready' = {}  BY <2>3, <2>6, <2>8, <3>4
    <3>6. ready' \subseteq ready \cup Unacked(s)  BY <2>8, <3>4
    <3> QED  BY <2>1, <2>3, <2>5, <3>5, <3>6, PlaceServer
  <2> QED  BY <2>1, <2>7, <2>8
<1>7. ASSUME NEW s \in Server, TakesBack(s)
      PROVE  PlaceInv' /\ GivenUpStays
  <2>1. /\ UNCHANGED published /\ ready' = ready \cup Unacked(s) /\ phase'[s] # "up"
        /\ \A r \in Server \ {s} : /\ phase'[r] = phase[r] /\ buffer'[r] = buffer[r]
                                   /\ writer'[r] = writer[r]
    BY <1>7, TakesBackFacts DEF TakeBack
  <2>2. Unacked(s)' = {}  BY <2>1 DEF Unacked
  <2>3. Placed(s)'
    <3>1. CASE LoseConnection(s)
      <4>1. phase'[s] = "down" /\ UNCHANGED writer  BY <3>1 DEF LoseConnection, TypeOK
      <4> QED  BY <4>1 DEF PlaceInv, Placed
    <3>2. CASE StopServer(s) \/ CrashServer(s)
      <4>1. writer'[s] = {} /\ buffer'[s] = <<>>
        BY <3>2 DEF StopServer, CrashServer, End, TypeOK
      <4> QED  BY <2>1, <4>1 DEF Placed
    <3> QED  BY <1>7, <3>1, <3>2 DEF TakesBack
  <2> HIDE DEF Unacked
  <2> QED  BY <2>1, <2>2, <2>3, PlaceServer
<1>8. CASE Gateway \/ UNCHANGED vars
  <2>1. UNCHANGED <<published, ready, phase, buffer, writer>>
    BY <1>8, GatewayFacts DEF vars, server, file
  <2>2. \A s : Unacked(s)' = Unacked(s) /\ Handled(s)' = Handled(s)
    BY <2>1 DEF Unacked, Handled
  <2> QED  BY <2>1, <2>2 DEF PlaceInv, Placed, GivenUpStays, Kept
<1> QED  BY <1>1, <1>2, <1>3, <1>4, <1>5, <1>6, <1>7, <1>8, Cases
-----------------------------------------------------------------------------
(* A line of a log is paid for: the first by its publication, each other by  *)
(* a delivery that lapsed. Not yet spent are the handlers that will write    *)
(* but not answer (Late), and one line if the broker still has the log to    *)
(* give, or a handler that will answer has yet to write it (Due).            *)
Writing(s)   == {h.log : h \in {g \in writer[s] : g.live /\ g.pc = "write"}}
Unwritten(s) == IF phase[s] = "up" THEN ToSet(buffer[s]) \cup Writing(s) ELSE {}

Due(n) == \/ n > published
          \/ n \in ready
          \/ \E s \in Server : n \in Unwritten(s)

Late(n) ==
    {x \in Server \X Writers : /\ x[2] \in writer[x[1]]
                               /\ x[2].log = n /\ x[2].pc = "write"
                               /\ ~Answers(x[1], x[2])}

Credit(n) ==
    /\ IsFiniteSet(Late(n))
    /\ lines[n] + Cardinality(Late(n)) + (IF Due(n) THEN 1 ELSE 0) <= 1 + lapsed[n]

CreditInv == \A n \in Log : Credit(n)

(* Who is late with a log.                                                   *)
LEMMA LateIs ==
    ASSUME TypeOK, NEW n
    PROVE  /\ \A x \in Late(n) : /\ x[1] \in Server /\ x[2] \in writer[x[1]]
                                 /\ x[2] \in Writers /\ x = <<x[1], x[2]>>
                                 /\ x[2].log = n /\ x[2].pc = "write"
                                 /\ ~Answers(x[1], x[2])
           /\ \A s \in Server : \A h \in writer[s] :
                 h.log = n /\ h.pc = "write" /\ ~Answers(s, h) => <<s, h>> \in Late(n)
<1>1. ASSUME NEW x \in Server \X Writers
      PROVE  x[1] \in Server /\ x[2] \in Writers /\ x = <<x[1], x[2]>>
  OBVIOUS
<1>2. \A s \in Server : writer[s] \subseteq Writers  BY DEF TypeOK
<1> QED  BY <1>1, <1>2, Zenon DEF Late

(* What is due is published some day, or the broker has it.                  *)
LEMMA UnwrittenFacts ==
    ASSUME NEW s
    PROVE  /\ Unwritten(s) \subseteq Unacked(s)
           /\ phase[s] # "up" => Unwritten(s) = {}
BY DEF Unwritten, Unacked, Writing, Handled

(* The numbers of a credit are numbers.                                      *)
LEMMA CreditType ==
    ASSUME TypeOK, NEW n \in Log, Credit(n)
    PROVE  /\ Cardinality(Late(n)) \in Nat
           /\ lines[n] \in Nat /\ lapsed[n] \in Nat
BY FS_CardinalityType DEF Credit, TypeOK

(* A step that writes nothing, makes nobody late and gives the broker        *)
(* nothing back keeps the credit.                                            *)
LEMMA CreditFrame ==
    ASSUME TypeOK, NEW n \in Log, Credit(n),
           lines'[n] = lines[n], lapsed'[n] = lapsed[n],
           Late(n)' \subseteq Late(n), Due(n)' => Due(n)
    PROVE  Credit(n)'
<1>1. IsFiniteSet(Late(n)') /\ Cardinality(Late(n)') <= Cardinality(Late(n))
  BY FS_Subset DEF Credit
<1>2. Cardinality(Late(n)') \in Nat  BY <1>1, FS_CardinalityType
<1> HIDE DEF Late, Due
<1> QED  BY <1>1, <1>2, CreditType DEF Credit

(* The late handlers of a server after a step of that server.                *)
LEMMA LateServer ==
    ASSUME TypeOK, TypeOK', NEW s \in Server, NEW n,
           \A r \in Server \ {s} : phase'[r] = phase[r] /\ writer'[r] = writer[r],
           NEW M,
           \A h \in writer'[s] :
              h.log = n /\ h.pc = "write" /\ ~Answers(s, h)' =>
                 \/ h \in writer[s] /\ ~Answers(s, h)
                 \/ <<s, h>> \in M
    PROVE  Late(n)' \subseteq Late(n) \cup M
<1>1. ASSUME NEW x \in Late(n)'
      PROVE  x \in Late(n) \cup M
  <2>1. /\ x[1] \in Server /\ x[2] \in writer'[x[1]] /\ x = <<x[1], x[2]>>
        /\ x[2].log = n /\ x[2].pc = "write"
        /\ ~(x[2].live /\ phase'[x[1]] = "up")
    BY DEF Late, Answers
  <2>2. CASE x[1] = s
    <3>1. ~Answers(s, x[2])'  BY <2>1, <2>2 DEF Answers
    <3>2. (x[2] \in writer[s] /\ ~Answers(s, x[2])) \/ <<s, x[2]>> \in M
      BY <2>1, <2>2, <3>1
    <3> QED  BY <2>1, <2>2, <3>2, LateIs
  <2>3. CASE x[1] # s
    <3>1. x[2] \in writer[x[1]] /\ ~Answers(x[1], x[2])
      BY <2>1, <2>3 DEF Answers
    <3> QED  BY <2>1, <3>1, LateIs
  <2> QED  BY <2>2, <2>3
<1> QED  BY <1>1

(* The server takes a log: it will write it, late if the connection is gone. *)
LEMMA CreditTake ==
    ASSUME TypeOK, TypeOK', PlaceInv, CreditInv, NEW s \in Server, TakeLog(s),
           NEW n \in Log
    PROVE  Credit(n)'
<1> DEFINE g == [log |-> Head(buffer[s]), pc |-> "write", live |-> TRUE]
<1>t. /\ writer[s] \subseteq Writers /\ buffer[s] \in Seq(Log)
      /\ lapsed \in [Log -> Nat] /\ Credit(n)
  BY DEF TypeOK, CreditInv
<1>1. /\ UNCHANGED <<published, ready, phase, lines>> /\ buffer[s] # <<>>
      /\ writer'[s] = writer[s] \cup {g} /\ buffer'[s] = Tail(buffer[s])
      /\ \A r \in Server \ {s} : writer'[r] = writer[r] /\ buffer'[r] = buffer[r]
      /\ \A h \in writer[s] : ~h.live
  <2>1. /\ UNCHANGED <<published, ready, phase, lines>> /\ buffer[s] # <<>>
        /\ writer'[s] = writer[s] \cup {g} /\ buffer'[s] = Tail(buffer[s])
        /\ \A r \in Server \ {s} : writer'[r] = writer[r] /\ buffer'[r] = buffer[r]
    BY DEF TakeLog, TypeOK
  <2>2. \A h \in writer[s] : ~h.live  BY DEF TakeLog, Handled
  <2> QED  BY <2>1, <2>2
<1>2. ToSet(buffer[s]) = {Head(buffer[s])} \cup ToSet(buffer'[s])
  BY <1>t, <1>1, ToSetFacts
<1>3. g.log = Head(buffer[s]) /\ g.live /\ g.pc = "write"  OBVIOUS
<1> HIDE DEF g
<1>4. Writing(s)' = {Head(buffer[s])}
  <2>1. \A h \in writer'[s] : h.live <=> h = g  BY <1>1, <1>3
  <2>2. g \in writer'[s]  BY <1>1
  <2> QED  BY <1>3, <2>1, <2>2 DEF Writing
<1>5. Unwritten(s)' \subseteq Unwritten(s)  BY <1>1, <1>2, <1>4 DEF Unwritten
<1>6. \A r \in Server \ {s} : Unwritten(r)' = Unwritten(r)
  BY <1>1 DEF Unwritten, Writing
<1>7. Due(n)' => Due(n)
  <2>1. Due(n)' => n > published \/ n \in ready \/ \E r \in Server : n \in Unwritten(r)'
    BY <1>1 DEF Due
  <2> HIDE DEF Unwritten
  <2> QED  BY <1>5, <1>6, <2>1 DEF Due
<1>8. CASE n = Head(buffer[s]) /\ phase[s] # "up"
  <2>1. lapsed' = [lapsed EXCEPT ![n] = @ + 1]  BY <1>8 DEF TakeLog
  <2>2. lapsed'[n] = lapsed[n] + 1  BY <1>t, <2>1
  <2>3. Late(n)' \subseteq Late(n) \cup {<<s, g>>}
    <3>1. \A h \in writer'[s] : h \in writer[s] \/ h = g  BY <1>1
    <3>2. \A h : Answers(s, h)' <=> Answers(s, h)  BY <1>1 DEF Answers
    <3> QED  BY <1>1, <3>1, <3>2, LateServer
  <2>4. /\ IsFiniteSet(Late(n) \cup {<<s, g>>})
        /\ Cardinality(Late(n) \cup {<<s, g>>}) <= Cardinality(Late(n)) + 1
    <3> DEFINE L == Late(n)
    <3>1. IsFiniteSet(L) /\ Cardinality(L) \in Nat  BY <1>t, CreditType DEF Credit
    <3> HIDE DEF L
    <3>2. /\ IsFiniteSet(L \cup {<<s, g>>})
          /\ Cardinality(L \cup {<<s, g>>}) =
                IF <<s, g>> \in L THEN Cardinality(L) ELSE Cardinality(L) + 1
      BY <3>1, FS_AddElement
    <3>3. Cardinality(L \cup {<<s, g>>}) <= Cardinality(L) + 1  BY <3>1, <3>2
    <3> QED  BY <3>2, <3>3 DEF L
  <2>5. /\ IsFiniteSet(Late(n)')
        /\ Cardinality(Late(n)') <= Cardinality(Late(n) \cup {<<s, g>>})
    BY <2>3, <2>4, FS_Subset
  <2>6. Cardinality(Late(n)') \in Nat /\ Cardinality(Late(n) \cup {<<s, g>>}) \in Nat
    BY <2>4, <2>5, FS_CardinalityType
  <2>7. lines'[n] = lines[n]  BY <1>1
  <2> HIDE DEF Late, Due
  <2> QED  BY <1>t, <1>7, <2>2, <2>4, <2>5, <2>6, <2>7, CreditType DEF Credit
<1>9. CASE ~(n = Head(buffer[s]) /\ phase[s] # "up")
  <2>1. lapsed'[n] = lapsed[n]  BY <1>t, <1>9 DEF TakeLog
  <2>2. Late(n)' \subseteq Late(n) \cup {}
    <3>1. \A h \in writer'[s] : h \in writer[s] \/ h = g  BY <1>1
    <3>2. \A h : Answers(s, h)' <=> Answers(s, h)  BY <1>1 DEF Answers
    <3>3. g.log = n => Answers(s, g)  BY <1>3, <1>9 DEF Answers
    <3> QED  BY <1>1, <3>1, <3>2, <3>3, LateServer
  <2>3. lines'[n] = lines[n]  BY <1>1
  <2> QED  BY <1>t, <1>7, <2>1, <2>2, <2>3, CreditFrame
<1> QED  BY <1>8, <1>9

(* A line is written: by a late handler, or by one that will answer, and     *)
(* then nothing is due any more.                                             *)
LEMMA CreditWrite ==
    ASSUME TypeOK, TypeOK', PlaceInv, CreditInv, NEW s \in Server, NEW h \in writer[s],
           WriteLog(s, h), NEW n \in Log
    PROVE  Credit(n)'
<1> DEFINE g == [h EXCEPT !.pc = "ack"]
<1>t. /\ h \in Writers /\ h.log \in Log /\ Credit(n) /\ writer[s] \subseteq Writers
      /\ lines \in [Log -> Nat] /\ n \in Nat /\ published \in Nat
  <2>1. MaxLogs \in Nat /\ published \in 0..MaxLogs  BY GameLogAssumption DEF TypeOK
  <2>2. n \in Nat /\ published \in Nat  BY <2>1 DEF Log
  <2>3. writer[s] \subseteq Writers /\ lines \in [Log -> Nat]  BY DEF TypeOK
  <2> QED  BY <2>2, <2>3, WriterFacts DEF CreditInv
<1>1. g.log = h.log /\ g.live = h.live /\ g.pc = "ack"  BY <1>t, WriterFacts
<1>2. /\ UNCHANGED <<published, ready, phase, buffer, lapsed>> /\ h.pc = "write"
      /\ writer'[s] = (writer[s] \ {h}) \cup {g}
      /\ \A r \in Server \ {s} : writer'[r] = writer[r]
      /\ lines'[h.log] = lines[h.log] + 1
      /\ \A m \in Log \ {h.log} : lines'[m] = lines[m]
  BY <1>t DEF WriteLog, TypeOK
<1> HIDE DEF g
<1>3. Writing(s)' \subseteq Writing(s)
  <2>1. \A k \in writer'[s] : k.pc = "write" => k \in writer[s]  BY <1>1, <1>2
  <2> QED  BY <2>1 DEF Writing
<1>4. Unwritten(s)' \subseteq Unwritten(s)  BY <1>2, <1>3 DEF Unwritten
<1>5. \A r \in Server \ {s} : Unwritten(r)' = Unwritten(r)
  BY <1>2 DEF Unwritten, Writing
<1>6. Due(n)' => Due(n)
  <2>1. Due(n)' => n > published \/ n \in ready \/ \E r \in Server : n \in Unwritten(r)'
    BY <1>2 DEF Due
  <2> HIDE DEF Unwritten
  <2> QED  BY <1>4, <1>5, <2>1 DEF Due
<1>7. Late(n)' \subseteq Late(n) \cup {}
  <2>1. \A k \in writer'[s] : k.pc = "write" => k \in writer[s]  BY <1>1, <1>2
  <2>2. \A k : Answers(s, k)' <=> Answers(s, k)  BY <1>2 DEF Answers
  <2> QED  BY <1>2, <2>1, <2>2, LateServer
<1>8. CASE n # h.log
  <2>1. lines'[n] = lines[n] /\ lapsed'[n] = lapsed[n]  BY <1>2, <1>8
  <2> QED  BY <1>t, <1>6, <1>7, <2>1, CreditFrame
<1>9. CASE n = h.log /\ ~Answers(s, h)
  <2>1. <<s, h>> \in Late(n)  BY <1>2, <1>9, LateIs
  <2>2. <<s, h>> \notin Late(n)'
    <3>1. h \notin writer'[s]  BY <1>1, <1>2
    <3> QED  BY <3>1 DEF Late
  <2>3. Late(n)' \subseteq Late(n) \ {<<s, h>>}  BY <1>7, <2>2
  <2>4. /\ IsFiniteSet(Late(n) \ {<<s, h>>})
        /\ Cardinality(Late(n) \ {<<s, h>>}) = Cardinality(Late(n)) - 1
    BY <1>t, <2>1, FS_RemoveElement DEF Credit
  <2>5. /\ IsFiniteSet(Late(n)')
        /\ Cardinality(Late(n)') <= Cardinality(Late(n)) - 1
    BY <2>3, <2>4, FS_Subset
  <2>6. Cardinality(Late(n)') \in Nat  BY <2>5, FS_CardinalityType
  <2>7. lines'[n] = lines[n] + 1 /\ lapsed'[n] = lapsed[n]  BY <1>2, <1>9
  <2> HIDE DEF Late, Due
  <2> QED  BY <1>t, <1>6, <2>5, <2>6, <2>7, CreditType DEF Credit
<1>10. CASE n = h.log /\ Answers(s, h)
  <2>1. h.live /\ phase[s] = "up"  BY <1>10 DEF Answers
  <2>2. n \in Writing(s)  BY <1>2, <1>10, <2>1 DEF Writing
  <2>3. n \in Unwritten(s)  BY <2>1, <2>2 DEF Unwritten
  <2>4. n \in Unacked(s) /\ n \in Handled(s)
    BY <2>2, <2>3, UnwrittenFacts DEF Writing, Handled
  <2>5. ~Due(n)'
    <3>1. n \notin ready' /\ ~(n > published')
      <4>1. n \in 1..published /\ n \notin ready  BY <2>4 DEF PlaceInv
      <4> QED  BY <1>t, <1>2, <4>1
    <3>2. \A r \in Server \ {s} : n \notin Unwritten(r)'
      <4>1. \A r \in Server \ {s} : n \notin Unacked(r)  BY <2>4 DEF PlaceInv
      <4> QED  BY <1>5, <4>1, UnwrittenFacts
    <3>3. n \notin Unwritten(s)'
      <4>1. /\ \A k, l \in writer[s] : k.live /\ l.live => k = l
            /\ ToSet(buffer[s]) \cap Handled(s) = {}
        BY <2>1 DEF PlaceInv, Placed
      <4>2. n \notin ToSet(buffer'[s])  BY <1>2, <2>4, <4>1
      <4>3. \A k \in writer'[s] : k.live => k.pc = "ack"  BY <1>1, <1>2, <2>1, <4>1
      <4>4. n \notin Writing(s)'  BY <4>3 DEF Writing
      <4> QED  BY <4>2, <4>4 DEF Unwritten
    <3> QED  BY <3>1, <3>2, <3>3 DEF Due
  <2>6. Due(n)  BY <2>3 DEF Due
  <2>7. /\ IsFiniteSet(Late(n)')
        /\ Cardinality(Late(n)') <= Cardinality(Late(n))
    BY <1>t, <1>7, FS_Subset DEF Credit
  <2>8. Cardinality(Late(n)') \in Nat  BY <2>7, FS_CardinalityType
  <2>9. lines'[n] = lines[n] + 1 /\ lapsed'[n] = lapsed[n]  BY <1>2, <1>10
  <2> HIDE DEF Late, Due
  <2> QED  BY <1>t, <2>5, <2>6, <2>7, <2>8, <2>9, CreditType DEF Credit
<1> QED  BY <1>8, <1>9, <1>10

(* The answer: what is given back was due before, and nobody gets late.      *)
LEMMA CreditAnswer ==
    ASSUME TypeOK, TypeOK', CreditInv, NEW s \in Server, NEW h \in writer[s],
           AckLog(s, h) \/ NackLog(s, h), NEW n \in Log
    PROVE  Credit(n)'
<1>1. /\ UNCHANGED <<published, phase, buffer, lines, lapsed>>
      /\ writer' = [writer EXCEPT ![s] = writer[s] \ {h}]
      /\ \/ ready' = ready
         \/ h.pc = "write" /\ Answers(s, h) /\ ready' = ready \cup {h.log}
  BY DEF AckLog, NackLog
<1>2. writer'[s] = writer[s] \ {h} /\ \A r \in Server \ {s} : writer'[r] = writer[r]
  BY <1>1 DEF TypeOK
<1>3. Writing(s)' \subseteq Writing(s)  BY <1>2 DEF Writing
<1>4. Unwritten(s)' \subseteq Unwritten(s)  BY <1>1, <1>3 DEF Unwritten
<1>5. \A r \in Server \ {s} : Unwritten(r)' = Unwritten(r)
  BY <1>1, <1>2 DEF Unwritten, Writing
<1>6. n \in ready' => n \in ready \/ n \in Unwritten(s)
  <2>1. ASSUME h.pc = "write", Answers(s, h) PROVE h.log \in Unwritten(s)
    <3>1. h.live /\ phase[s] = "up"  BY <2>1 DEF Answers
    <3>2. h.log \in Writing(s)  BY <2>1, <3>1 DEF Writing
    <3> QED  BY <3>1, <3>2 DEF Unwritten
  <2> QED  BY <1>1, <2>1
<1>7. Due(n)' => Due(n)
  <2>1. Due(n)' => n > published \/ n \in ready' \/ \E r \in Server : n \in Unwritten(r)'
    BY <1>1 DEF Due
  <2> HIDE DEF Unwritten
  <2> QED  BY <1>4, <1>5, <1>6, <2>1 DEF Due
<1>8. Late(n)' \subseteq Late(n) \cup {}
  <2>1. \A k : Answers(s, k)' <=> Answers(s, k)  BY <1>1 DEF Answers
  <2> QED  BY <1>1, <1>2, <2>1, LateServer
<1> QED  BY <1>1, <1>7, <1>8, CreditFrame DEF CreditInv

(* The broker takes everything back. A log a handler was still to write has  *)
(* now a late handler, one that was written is due again: the delivery has   *)
(* lapsed in either case.                                                    *)
LEMMA CreditTakesBack ==
    ASSUME TypeOK, TypeOK', PlaceInv, CreditInv, NEW s \in Server, TakesBack(s),
           NEW n \in Log
    PROVE  Credit(n)'
<1>t. /\ writer[s] \subseteq Writers /\ Credit(n) /\ lapsed \in [Log -> Nat]
  BY DEF TypeOK, CreditInv
<1>1. /\ UNCHANGED <<published, lines>> /\ ready' = ready \cup Unacked(s) /\ phase'[s] # "up"
      /\ \A r \in Server \ {s} : /\ phase'[r] = phase[r] /\ buffer'[r] = buffer[r]
                                 /\ writer'[r] = writer[r]
      /\ lapsed'[n] = IF phase[s] = "up" /\ n \in Handled(s) THEN lapsed[n] + 1 ELSE lapsed[n]
  BY TakesBackFacts DEF TakeBack
<1>2. writer'[s] \subseteq writer[s]
  BY TakesBackFacts DEF TypeOK
<1>3. \A r \in Server : Unwritten(r)' \subseteq Unwritten(r)
  <2>1. \A r \in Server \ {s} : Unwritten(r)' = Unwritten(r)
    BY <1>1 DEF Unwritten, Writing
  <2>2. Unwritten(s)' = {}  BY <1>1 DEF Unwritten
  <2> QED  BY <2>1, <2>2
<1>4. Due(n)' => Due(n) \/ n \in Unacked(s)
  <2>1. Due(n)' => n > published \/ n \in ready' \/ \E r \in Server : n \in Unwritten(r)'
    BY <1>1 DEF Due
  <2> HIDE DEF Unwritten, Unacked
  <2> QED  BY <1>1, <1>3, <2>1 DEF Due
<1>5. CASE phase[s] = "up" /\ n \in Handled(s)
  <2>1. PICK h \in writer[s] : h.live /\ h.log = n  BY <1>5 DEF Handled
  <2>2. \A k \in writer[s] : k.live => k = h  BY <2>1 DEF PlaceInv, Placed
  <2>3. lapsed'[n] = lapsed[n] + 1 /\ lines'[n] = lines[n]  BY <1>1, <1>5
  <2>4. CASE h.pc = "write"
    <3>1. n \in Writing(s)  BY <2>1, <2>4 DEF Writing
    <3>2. n \in Unwritten(s)  BY <1>5, <3>1 DEF Unwritten
    <3>3. Due(n)  BY <3>2 DEF Due
    <3>4. Late(n)' \subseteq Late(n) \cup {<<s, h>>}
      <4>1. \A k \in writer'[s] : k \in writer[s] /\ (~Answers(s, k) \/ k = h)
        BY <1>2, <2>2 DEF Answers
      <4> QED  BY <1>1, <4>1, LateServer
    <3>5. /\ IsFiniteSet(Late(n)')
          /\ Cardinality(Late(n)') <= Cardinality(Late(n)) + 1
      <4> DEFINE L == Late(n)
                 L2 == Late(n)'
      <4>1. IsFiniteSet(L) /\ Cardinality(L) \in Nat  BY <1>t, CreditType DEF Credit
      <4>2. L2 \subseteq L \cup {<<s, h>>}  BY <3>4
      <4> HIDE DEF L, L2
      <4>3. /\ IsFiniteSet(L \cup {<<s, h>>})
            /\ Cardinality(L \cup {<<s, h>>}) =
                  IF <<s, h>> \in L THEN Cardinality(L) ELSE Cardinality(L) + 1
        BY <4>1, FS_AddElement
      <4>4. IsFiniteSet(L2) /\ Cardinality(L2) <= Cardinality(L \cup {<<s, h>>})
        BY <4>2, <4>3, FS_Subset
      <4>5. Cardinality(L2) \in Nat  BY <4>4, FS_CardinalityType
      <4>6. Cardinality(L2) <= Cardinality(L) + 1  BY <4>1, <4>3, <4>4, <4>5
      <4> QED  BY <4>4, <4>6 DEF L, L2
    <3>6. Cardinality(Late(n)') \in Nat  BY <3>5, FS_CardinalityType
    <3> HIDE DEF Late, Due
    <3> QED  BY <1>t, <2>3, <3>3, <3>5, <3>6, CreditType DEF Credit
  <2>5. CASE h.pc # "write"
    <3>1. Late(n)' \subseteq Late(n) \cup {}
      <4>1. \A k \in writer'[s] : k \in writer[s] /\ (~Answers(s, k) \/ k.pc # "write")
        BY <1>2, <2>2, <2>5 DEF Answers
      <4> QED  BY <1>1, <4>1, LateServer
    <3>2. IsFiniteSet(Late(n)') /\ Cardinality(Late(n)') <= Cardinality(Late(n))
      BY <1>t, <3>1, FS_Subset DEF Credit
    <3>3. Cardinality(Late(n)') \in Nat  BY <3>2, FS_CardinalityType
    <3> HIDE DEF Late, Due
    <3> QED  BY <1>t, <2>3, <3>2, <3>3, CreditType DEF Credit
  <2> QED  BY <2>4, <2>5
<1>6. CASE ~(phase[s] = "up" /\ n \in Handled(s))
  <2>1. lapsed'[n] = lapsed[n] /\ lines'[n] = lines[n]  BY <1>1, <1>6
  <2>2. n \in Unacked(s) => Due(n)
    <3>1. n \in Unacked(s) => n \in Unwritten(s)  BY <1>6 DEF Unacked, Unwritten
    <3> QED  BY <3>1 DEF Due
  <2>3. Late(n)' \subseteq Late(n) \cup {}
    <3>1. ASSUME NEW k \in writer'[s], k.log = n PROVE k \in writer[s] /\ ~Answers(s, k)
      <4>1. k.live => n \in Handled(s)  BY <1>2, <3>1 DEF Handled
      <4> QED  BY <1>2, <1>6, <4>1 DEF Answers
    <3> QED  BY <1>1, <3>1, LateServer
  <2> QED  BY <1>t, <1>4, <2>1, <2>2, <2>3, CreditFrame
<1> QED  BY <1>5, <1>6

(* A new connection: the handlers of the one before are late, still or now.  *)
LEMMA CreditReconnect ==
    ASSUME TypeOK, TypeOK', PlaceInv, CreditInv, NEW s \in Server, Reconnect(s),
           NEW n \in Log
    PROVE  Credit(n)'
<1>t. /\ writer[s] \subseteq Writers /\ Credit(n)
  BY DEF TypeOK, CreditInv
<1>1. /\ UNCHANGED <<published, ready, lines, lapsed>> /\ phase[s] = "down"
      /\ buffer'[s] = <<>>
      /\ writer'[s] = {[h EXCEPT !.live = FALSE] : h \in writer[s]}
      /\ \A r \in Server \ {s} : /\ phase'[r] = phase[r] /\ buffer'[r] = buffer[r]
                                 /\ writer'[r] = writer[r]
  BY DEF Reconnect, TypeOK
<1>2. ASSUME NEW h \in writer[s]
      PROVE  LET g == [h EXCEPT !.live = FALSE]
             IN  g.log = h.log /\ g.pc = h.pc /\ g.live = FALSE
  BY <1>t, WriterFacts
<1>3. Unwritten(s)' = {}
  <2>1. Writing(s)' = {}
    <3>1. \A g \in writer'[s] : ~g.live  BY <1>1, <1>2
    <3> QED  BY <3>1 DEF Writing
  <2>2. ToSet(buffer'[s]) = {}
    <3>1. DOMAIN <<>> = {}  OBVIOUS
    <3> QED  BY <1>1, <3>1 DEF ToSet
  <2> QED  BY <2>1, <2>2 DEF Unwritten
<1>4. \A r \in Server \ {s} : Unwritten(r)' = Unwritten(r)
  BY <1>1 DEF Unwritten, Writing
<1>5. Due(n)' => Due(n)
  <2>1. Due(n)' => n > published \/ n \in ready \/ \E r \in Server : n \in Unwritten(r)'
    BY <1>1 DEF Due
  <2> HIDE DEF Unwritten
  <2> QED  BY <1>3, <1>4, <2>1 DEF Due
<1> DEFINE L == Late(n)
           L2 == Late(n)'
           f == [x \in L |-> IF x[1] = s THEN <<s, [x[2] EXCEPT !.live = FALSE]>> ELSE x]
<1>6. ASSUME NEW x \in L PROVE f[x] \in L2
  <2>1. /\ x[1] \in Server /\ x[2] \in writer[x[1]] /\ x = <<x[1], x[2]>>
        /\ x[2].log = n /\ x[2].pc = "write" /\ ~Answers(x[1], x[2])
    BY LateIs
  <2>2. CASE x[1] = s
    <3> DEFINE h == [x[2] EXCEPT !.live = FALSE]
    <3>1. h \in writer'[s] /\ h.log = n /\ h.pc = "write" /\ h.live = FALSE
      BY <1>1, <1>2, <2>1, <2>2
    <3>2. f[x] = <<s, h>>  BY <2>2
    <3> HIDE DEF h
    <3>3. h \in Writers  BY <3>1 DEF TypeOK
    <3>4. ~Answers(s, h)'  BY <3>1 DEF Answers
    <3>5. <<s, h>> \in Late(n)'  BY <3>1, <3>3, <3>4 DEF Late
    <3> QED  BY <3>2, <3>5
  <2>3. CASE x[1] # s
    <3>1. f[x] = x  BY <2>3
    <3>2. x[2] \in Writers  BY LateIs
    <3> QED  BY <1>1, <2>1, <2>3, <3>1, <3>2 DEF Late, Answers
  <2> QED  BY <2>2, <2>3
<1>7. ASSUME NEW y \in L2 PROVE \E x \in L : f[x] = y
  <2>1. /\ y[1] \in Server /\ y[2] \in writer'[y[1]] /\ y = <<y[1], y[2]>>
        /\ y[2].log = n /\ y[2].pc = "write"
        /\ ~(y[2].live /\ phase'[y[1]] = "up")
    BY DEF Late, Answers
  <2>2. CASE y[1] = s
    <3>1. PICK h \in writer[s] : y[2] = [h EXCEPT !.live = FALSE]  BY <1>1, <2>1, <2>2
    <3>2. h.log = n /\ h.pc = "write"  BY <1>2, <2>1, <3>1
    <3>3. ~Answers(s, h)  BY <1>1 DEF Answers
    <3>4. <<s, h>> \in L  BY <3>2, <3>3, LateIs
    <3>5. f[<<s, h>>] = <<s, [h EXCEPT !.live = FALSE]>>  BY <3>4
    <3> QED  BY <2>1, <2>2, <3>1, <3>4, <3>5
  <2>3. CASE y[1] # s
    <3>1. y[2] \in writer[y[1]] /\ ~Answers(y[1], y[2])  BY <1>1, <2>1, <2>3 DEF Answers
    <3>2. y \in L  BY <2>1, <3>1, LateIs
    <3>3. f[y] = y  BY <2>3, <3>2
    <3> QED  BY <3>2, <3>3
  <2> QED  BY <2>2, <2>3
<1>8. IsFiniteSet(L2) /\ Cardinality(L2) <= Cardinality(L)
  <2>1. IsFiniteSet(L)  BY <1>t DEF Credit
  <2> HIDE DEF L, L2
  <2>2. f \in [L -> L2]  BY <1>6, Zenon
  <2> HIDE DEF f
  <2>3. f \in Surjection(L, L2)  BY <1>7, <2>2 DEF Surjection
  <2> QED  BY <2>1, <2>3, FS_Surjection
<1>9. Cardinality(L2) \in Nat  BY <1>8, FS_CardinalityType
<1> HIDE DEF Late, Due
<1> QED  BY <1>t, <1>1, <1>5, <1>8, <1>9, CreditType DEF Credit

(* Every step keeps the credit.                                              *)
LEMMA CreditStep ==
    ASSUME TypeOK, PlaceInv, CreditInv, [Next]_vars
    PROVE  CreditInv'
<1>t. TypeOK'  BY TypeStep
<1>1. CASE Publish
  <2>1. /\ UNCHANGED <<file, lapsed>> /\ published' = published + 1
        /\ ready' \subseteq ready \cup {published'}
    BY <1>1 DEF Publish
  <2>2. ASSUME NEW n \in Log PROVE Credit(n)'
    <3>1. \A r : Unwritten(r)' = Unwritten(r)  BY <2>1 DEF Unwritten, Writing, file
    <3>2. n \in Nat /\ published \in Nat
      <4>1. MaxLogs \in Nat /\ published \in 0..MaxLogs  BY GameLogAssumption DEF TypeOK
      <4> QED  BY <4>1 DEF Log
    <3>3. n > published' \/ n \in ready' => n > published \/ n \in ready
      BY <2>1, <3>2
    <3>4. Due(n)' => Due(n)
      <4> HIDE DEF Unwritten
      <4> QED  BY <3>1, <3>3 DEF Due
    <3>5. Late(n)' = Late(n)  BY <2>1 DEF Late, Answers, file
    <3> QED  BY <2>1, <3>4, <3>5, CreditFrame DEF CreditInv, file
  <2> QED  BY <2>2 DEF CreditInv
<1>2. ASSUME NEW s \in Server, StartServer(s) PROVE CreditInv'
  <2>1. /\ UNCHANGED <<published, ready, buffer, writer, lines, lapsed>>
        /\ \A r \in Server \ {s} : phase'[r] = phase[r]
        /\ buffer[s] = <<>> /\ writer[s] = {}
    BY <1>2 DEF StartServer, TypeOK, PlaceInv, Placed
  <2>2. ASSUME NEW n \in Log PROVE Credit(n)'
    <3>1. Unwritten(s)' = {}
      <4>1. DOMAIN <<>> = {}  OBVIOUS
      <4> QED  BY <2>1, <4>1 DEF Unwritten, Writing, ToSet
    <3>2. \A r \in Server \ {s} : Unwritten(r)' = Unwritten(r)
      BY <2>1 DEF Unwritten, Writing
    <3>3. Due(n)' => Due(n)
      <4> HIDE DEF Unwritten
      <4> QED  BY <2>1, <3>1, <3>2 DEF Due
    <3>4. Late(n)' \subseteq Late(n) \cup {}
      <4>1. \A h \in writer'[s] : FALSE  BY <2>1
      <4> QED  BY <1>t, <2>1, <4>1, LateServer
    <3> QED  BY <2>1, <3>3, <3>4, CreditFrame DEF CreditInv
  <2> QED  BY <2>2 DEF CreditInv
<1>3. ASSUME NEW s \in Server, Send(s) PROVE CreditInv'
  <2>1. PICK m \in ready : buffer' = [buffer EXCEPT ![s] = Append(@, m)] /\ ready' = ready \ {m}
    BY <1>3 DEF Send
  <2>2. UNCHANGED <<published, phase, writer, lines, lapsed>>  BY <1>3 DEF Send
  <2>3. /\ buffer'[s] = Append(buffer[s], m) /\ m \in Log /\ buffer[s] \in Seq(Log)
        /\ \A r \in Server \ {s} : buffer'[r] = buffer[r]
    BY <2>1 DEF TypeOK
  <2>4. ToSet(buffer'[s]) = ToSet(buffer[s]) \cup {m}  BY <2>3, ToSetFacts
  <2>5. Unwritten(s)' \subseteq Unwritten(s) \cup {m}
    BY <2>2, <2>4 DEF Unwritten, Writing
  <2>6. \A r \in Server \ {s} : Unwritten(r)' = Unwritten(r)
    BY <2>2, <2>3 DEF Unwritten, Writing
  <2>7. ASSUME NEW n \in Log PROVE Credit(n)'
    <3>1. Due(n)' => Due(n)
      <4>1. Due(n)' => n > published \/ n \in ready' \/ \E r \in Server : n \in Unwritten(r)'
        BY <2>2 DEF Due
      <4> HIDE DEF Unwritten
      <4> QED  BY <2>1, <2>5, <2>6, <4>1 DEF Due
    <3>2. Late(n)' = Late(n)  BY <2>2 DEF Late, Answers
    <3> QED  BY <2>2, <3>1, <3>2, CreditFrame DEF CreditInv
  <2> QED  BY <2>7 DEF CreditInv
<1>4. ASSUME NEW s \in Server, TakeLog(s) PROVE CreditInv'
  BY <1>t, <1>4, CreditTake DEF CreditInv
<1>5. ASSUME NEW s \in Server, NEW h \in writer[s], WriteLog(s, h) PROVE CreditInv'
  BY <1>t, <1>5, CreditWrite DEF CreditInv
<1>6. ASSUME NEW s \in Server, NEW h \in writer[s], AckLog(s, h) \/ NackLog(s, h)
      PROVE  CreditInv'
  BY <1>t, <1>6, CreditAnswer DEF CreditInv
<1>7. ASSUME NEW s \in Server, TakesBack(s) PROVE CreditInv'
  BY <1>t, <1>7, CreditTakesBack DEF CreditInv
<1>8. ASSUME NEW s \in Server, Reconnect(s) PROVE CreditInv'
  BY <1>t, <1>8, CreditReconnect DEF CreditInv
<1>9. CASE Gateway \/ UNCHANGED vars
  <2>1. UNCHANGED <<published, ready, phase, buffer, writer, lines, lapsed>>
    BY <1>9, GatewayFacts DEF vars, server, file
  <2>2. ASSUME NEW n \in Log PROVE Credit(n)'
    <3>1. Late(n)' = Late(n)  BY <2>1 DEF Late, Answers
    <3>2. Due(n)' <=> Due(n)  BY <2>1 DEF Due, Unwritten, Writing
    <3> QED  BY <2>1, <3>1, <3>2, CreditFrame DEF CreditInv
  <2> QED  BY <2>2 DEF CreditInv
<1> QED  BY <1>1, <1>2, <1>3, <1>4, <1>5, <1>6, <1>7, <1>8, <1>9, Cases

(* A log is written once, and once more for each delivery that was lost      *)
(* while a handler had it: whatever is retried, whoever competes for it.     *)
THEOREM OnlyFaultsRepeat == Spec => []OnlyFaultsRepeatLines
<1> DEFINE Inv == TypeOK /\ PlaceInv /\ CreditInv
<1>1. ASSUME Init PROVE Inv
  <2>1. TypeOK  BY <1>1, TypeInit
  <2>2. /\ \A s \in Server : phase[s] = "out" /\ buffer[s] = <<>> /\ writer[s] = {}
        /\ published = 0 /\ ready = {}
        /\ \A n \in Log : lines[n] = 0 /\ lapsed[n] = 0
    BY <1>1 DEF Init
  <2>3. \A s \in Server : Unacked(s) = {} /\ Unwritten(s) = {}
    BY <2>2 DEF Unacked, Unwritten
  <2>4. PlaceInv  BY <2>2, <2>3 DEF PlaceInv, Placed
  <2>5. ASSUME NEW n \in Log PROVE Credit(n)
    <3>1. Late(n) = {}  BY <2>2 DEF Late
    <3> QED  BY <2>2, <3>1, FS_EmptySet DEF Credit
  <2> QED  BY <2>1, <2>4, <2>5 DEF CreditInv
<1>2. ASSUME Inv, [Next]_vars PROVE Inv'
  BY <1>2, TypeStep, PlaceStep, CreditStep
<1>3. ASSUME Inv PROVE OnlyFaultsRepeatLines
  <2>1. ASSUME NEW n \in Log PROVE lines[n] <= 1 + lapsed[n]
    <3>1. Credit(n)  BY <1>3 DEF CreditInv
    <3> QED  BY <1>3, <3>1, CreditType DEF Credit
  <2> QED  BY <2>1 DEF OnlyFaultsRepeatLines
<1> HIDE DEF Inv
<1> QED  BY <1>1, <1>2, <1>3, PTL DEF Spec
-----------------------------------------------------------------------------
(* EachLogIsDelivered. Servers have to do only with logs that reached the    *)
(* queue; with that, and the two invariants above, every step is one in the  *)
(* life of each log as Delivery describes it.                                *)
AcceptInv ==
    /\ ready \subseteq accepted /\ accepted \subseteq 1..published
    /\ \A s \in Server : /\ ToSet(buffer[s]) \subseteq accepted
                         /\ \A h \in writer[s] : h.log \in accepted

(* Every step keeps the logs the servers have among those in the queue.      *)
LEMMA AcceptStep ==
    ASSUME TypeOK, AcceptInv, [Next]_vars
    PROVE  AcceptInv'
<1>t. /\ \A s \in Server : writer[s] \subseteq Writers /\ buffer[s] \in Seq(Log)
      /\ published \in Nat /\ MaxLogs \in Nat
  BY GameLogAssumption DEF TypeOK
<1>s. \A s \in Server : Unacked(s) \subseteq accepted
  BY DEF AcceptInv, Unacked, Handled
<1>1. CASE Publish
  <2>1. UNCHANGED file /\ published' = published + 1
        /\ (\/ accepted' = accepted /\ ready' = ready
            \/ accepted' = accepted \cup {published'} /\ ready' = ready \cup {published'})
    BY <1>1 DEF Publish
  <2>2. 1..published \cup {published'} \subseteq 1..published'  BY <1>t, <2>1
  <2> QED  BY <2>1, <2>2 DEF AcceptInv, file
<1>2. ASSUME NEW s \in Server, UNCHANGED <<published, accepted>>,
             ready' \subseteq ready \cup Unacked(s),
             \A r \in Server \ {s} : buffer'[r] = buffer[r] /\ writer'[r] = writer[r],
             ToSet(buffer'[s]) \subseteq accepted,
             \A h \in writer'[s] : h.log \in accepted
      PROVE  AcceptInv'
  BY <1>s, <1>2 DEF AcceptInv
<1>e. ToSet(<<>>) = {}
  <2>1. DOMAIN <<>> = {}  OBVIOUS
  <2> QED  BY <2>1 DEF ToSet
<1>3. ASSUME NEW s \in Server, StartServer(s) PROVE AcceptInv'
  BY <1>3 DEF StartServer, AcceptInv
<1>4. ASSUME NEW s \in Server, Reconnect(s) PROVE AcceptInv'
  <2>1. /\ UNCHANGED <<published, accepted, ready>> /\ buffer'[s] = <<>>
        /\ writer'[s] = {[h EXCEPT !.live = FALSE] : h \in writer[s]}
        /\ \A r \in Server \ {s} : buffer'[r] = buffer[r] /\ writer'[r] = writer[r]
    BY <1>4 DEF Reconnect, TypeOK
  <2>2. \A h \in writer'[s] : h.log \in accepted
    <3>1. \A h \in writer[s] : [h EXCEPT !.live = FALSE].log = h.log  BY <1>t, WriterFacts
    <3> QED  BY <2>1, <3>1 DEF AcceptInv
  <2> QED  BY <1>2, <1>e, <2>1, <2>2
<1>5. ASSUME NEW s \in Server, Send(s) PROVE AcceptInv'
  <2>1. PICK m \in ready : buffer' = [buffer EXCEPT ![s] = Append(@, m)] /\ ready' = ready \ {m}
    BY <1>5 DEF Send
  <2>2. UNCHANGED <<writer, published, accepted>>  BY <1>5 DEF Send
  <2>3. m \in Log  BY DEF TypeOK
  <2>4. /\ buffer'[s] = Append(buffer[s], m)
        /\ \A r \in Server \ {s} : buffer'[r] = buffer[r]
    BY <2>1 DEF TypeOK
  <2>5. ToSet(buffer'[s]) = ToSet(buffer[s]) \cup {m}  BY <1>t, <2>3, <2>4, ToSetFacts
  <2>6. ToSet(buffer'[s]) \subseteq accepted /\ \A h \in writer'[s] : h.log \in accepted
    BY <2>1, <2>2, <2>5 DEF AcceptInv
  <2> QED  BY <1>2, <2>1, <2>2, <2>4, <2>6
<1>6. ASSUME NEW s \in Server, TakeLog(s) PROVE AcceptInv'
  <2> DEFINE g == [log |-> Head(buffer[s]), pc |-> "write", live |-> TRUE]
  <2>1. /\ UNCHANGED <<published, accepted, ready>> /\ buffer[s] # <<>>
        /\ writer'[s] = writer[s] \cup {g} /\ buffer'[s] = Tail(buffer[s])
        /\ \A r \in Server \ {s} : writer'[r] = writer[r] /\ buffer'[r] = buffer[r]
    BY <1>6 DEF TakeLog, TypeOK
  <2>2. ToSet(buffer[s]) = {Head(buffer[s])} \cup ToSet(buffer'[s])
    BY <1>t, <2>1, ToSetFacts
  <2>3. g.log = Head(buffer[s])  OBVIOUS
  <2> HIDE DEF g
  <2>4. ToSet(buffer'[s]) \subseteq accepted /\ \A h \in writer'[s] : h.log \in accepted
    BY <2>1, <2>2, <2>3 DEF AcceptInv
  <2> QED  BY <1>2, <2>1, <2>4
<1>7. ASSUME NEW s \in Server, NEW h \in writer[s], WriteLog(s, h) PROVE AcceptInv'
  <2>1. h \in Writers /\ [h EXCEPT !.pc = "ack"].log = h.log  BY <1>t, WriterFacts
  <2>2. /\ UNCHANGED <<published, accepted, ready, buffer>>
        /\ writer'[s] = (writer[s] \ {h}) \cup {[h EXCEPT !.pc = "ack"]}
        /\ \A r \in Server \ {s} : writer'[r] = writer[r]
    BY <1>7 DEF WriteLog, TypeOK
  <2>3. ToSet(buffer'[s]) \subseteq accepted /\ \A g \in writer'[s] : g.log \in accepted
    BY <2>1, <2>2 DEF AcceptInv
  <2> QED  BY <1>2, <2>2, <2>3
<1>8. ASSUME NEW s \in Server, NEW h \in writer[s], AckLog(s, h) \/ NackLog(s, h)
      PROVE  AcceptInv'
  <2>1. /\ UNCHANGED <<published, accepted, buffer>>
        /\ writer' = [writer EXCEPT ![s] = writer[s] \ {h}]
        /\ ready' \subseteq ready \cup {h.log}
    BY <1>8 DEF AckLog, NackLog
  <2>2. \A r \in Server : writer'[r] \subseteq writer[r]  BY <2>1 DEF TypeOK
  <2> QED  BY <2>1, <2>2 DEF AcceptInv
<1>9. ASSUME NEW s \in Server, TakesBack(s) PROVE AcceptInv'
  <2>1. /\ UNCHANGED <<published, accepted>> /\ ready' = ready \cup Unacked(s)
        /\ \A r \in Server \ {s} : buffer'[r] = buffer[r] /\ writer'[r] = writer[r]
    BY <1>9, TakesBackFacts DEF TakeBack
  <2>2. \/ UNCHANGED <<buffer, writer>>
        \/ buffer'[s] = <<>> /\ writer'[s] = {}
    BY <1>9, TakesBackFacts DEF TypeOK
  <2>3. ToSet(buffer'[s]) \subseteq accepted /\ \A h \in writer'[s] : h.log \in accepted
    BY <1>e, <2>2 DEF AcceptInv
  <2> QED  BY <1>2, <2>1, <2>3
<1>10. CASE Gateway \/ UNCHANGED vars
  BY <1>10, GatewayFacts DEF vars, server, file, AcceptInv
<1> QED  BY <1>1, <1>3, <1>4, <1>5, <1>6, <1>7, <1>8, <1>9, <1>10, Cases

DeliveryInv == LostInv /\ PlaceInv /\ AcceptInv

(* A publication starts one life: kept, or missed if there is no queue yet.  *)
LEMMA FatePublish ==
    ASSUME DeliveryInv, Publish, NEW n \in Log
    PROVE  [Fate(n)!Next]_(Fate(n)!vars)
<1>t. /\ published \in Nat /\ n \in Nat \ {0} /\ accepted \subseteq 1..published
      /\ MaxLogs \in Nat
  BY GameLogAssumption DEF DeliveryInv, LostInv, TypeOK, AcceptInv, Log
<1>1. UNCHANGED <<file, lines>> /\ published' = published + 1
      /\ (\/ accepted' = accepted /\ ready' = ready
          \/ accepted' = accepted \cup {published'} /\ ready' = ready \cup {published'})
  BY DEF Publish, file
<1>2. \A s : Unacked(s)' = Unacked(s)  BY <1>1 DEF Unacked, Handled, file
<1>3. CASE n = published'
  <2>1. n > published /\ ~(n > published') /\ n \notin accepted  BY <1>t, <1>1, <1>3
  <2>2. Place(n) = "none"  BY <2>1 DEF Place
  <2>3. n \in accepted' => n \in ready'  BY <1>1, <1>3, <2>1
  <2>4. Place(n)' \in {"missed", "kept"}  BY <2>1, <2>3 DEF Place, Kept
  <2> QED  BY <1>1, <2>2, <2>4 DEF Fate!Next, Fate!Publish, file
<1>4. CASE n # published'
  <2>1. /\ n > published <=> n > published'
        /\ n \in accepted <=> n \in accepted'
        /\ n \in ready <=> n \in ready'
    BY <1>t, <1>1, <1>4
  <2>2. Kept(n)' <=> Kept(n)  BY <1>2, <2>1 DEF Kept
  <2>3. UNCHANGED Place(n)  BY <2>1, <2>2 DEF Place
  <2> QED  BY <1>1, <2>3 DEF Fate!vars, file
<1> QED  BY <1>3, <1>4

(* A line is written by a handler of a log that was kept, and moves none.    *)
LEMMA FateWrite ==
    ASSUME DeliveryInv, NEW s \in Server, NEW h \in writer[s], WriteLog(s, h), NEW n \in Log
    PROVE  [Fate(n)!Next]_(Fate(n)!vars)
<1>0. TypeOK /\ AcceptInv  BY DEF DeliveryInv, LostInv
<1>t. /\ published \in Nat /\ n \in Nat /\ lines \in [Log -> Nat]
      /\ h.log \in Log /\ accepted \subseteq 1..published /\ h.log \in accepted
  <2>1. h \in Writers /\ published \in 0..MaxLogs /\ lines \in [Log -> Nat]
    BY <1>0 DEF TypeOK
  <2>2. MaxLogs \in Nat  BY GameLogAssumption
  <2> QED  BY <1>0, <2>1, <2>2, WriterFacts DEF AcceptInv, Log
<1>1. UNCHANGED <<published, accepted, ready>>
      /\ lines' = [lines EXCEPT ![h.log] = lines[h.log] + 1]
  BY DEF WriteLog
<1>2. Kept(n)' <=> Kept(n)  BY <1>0, <1>1, WriteKeeps DEF Kept
<1>3. UNCHANGED Place(n)  BY <1>1, <1>2 DEF Place
<1>4. CASE n = h.log
  <2>1. ~(n > published)  BY <1>t, <1>4
  <2>2. Place(n) \in {"kept", "gone"}  BY <1>t, <1>4, <2>1 DEF Place
  <2>3. lines'[n] = lines[n] + 1  BY <1>t, <1>1, <1>4
  <2> QED  BY <1>3, <2>2, <2>3 DEF Fate!Next, Fate!Write
<1>5. CASE n # h.log
  <2>1. lines'[n] = lines[n]  BY <1>t, <1>1, <1>5
  <2> QED  BY <1>3, <2>1 DEF Fate!vars
<1> QED  BY <1>4, <1>5

(* What is left can only give a log up, and only one that is written.        *)
LEMMA FateSettle ==
    ASSUME DeliveryInv, NoLogIsLost', GivenUpStays,
           UNCHANGED <<published, accepted, lines>>, NEW n \in Log
    PROVE  [Fate(n)!Next]_(Fate(n)!vars)
<1>1. CASE n > published \/ n \notin accepted
  <2>1. UNCHANGED Place(n)  BY <1>1 DEF Place
  <2> QED  BY <2>1 DEF Fate!vars
<1>2. CASE ~(n > published) /\ n \in accepted
  <2>1. n \in 1..published  BY <1>2 DEF DeliveryInv, AcceptInv
  <2>2. Kept(n)' => Kept(n)  BY <2>1 DEF GivenUpStays
  <2>3. /\ Place(n) = IF Kept(n) THEN "kept" ELSE "gone"
        /\ Place(n)' = IF Kept(n)' THEN "kept" ELSE "gone"
    BY <1>2 DEF Place
  <2>4. lines[n] > 0 \/ Kept(n)'  BY <1>2 DEF NoLogIsLost
  <2> QED  BY <2>2, <2>3, <2>4 DEF Fate!Next, Fate!Settle, Fate!vars
<1> QED  BY <1>1, <1>2

(* Every step is a step in the life of each log, or leaves it.               *)
LEMMA FateStep ==
    ASSUME DeliveryInv, NoLogIsLost', [Next]_vars, NEW n \in Log
    PROVE  [Fate(n)!Next]_(Fate(n)!vars)
<1>1. TypeOK /\ PlaceInv  BY DEF DeliveryInv, LostInv
<1>2. GivenUpStays  BY <1>1, PlaceStep
<1>3. \/ Publish
      \/ \E s \in Server : \E h \in writer[s] : WriteLog(s, h)
      \/ UNCHANGED <<published, accepted, lines>>
  BY Cases, GatewayFacts, Zenon
  DEF StartServer, Send, TakeLog, AckLog, NackLog, Reconnect, TakesBack,
      LoseConnection, StopServer, CrashServer, TakeBack, vars, server, file
<1> QED  BY <1>2, <1>3, FatePublish, FateWrite, FateSettle

(* No life has begun.                                                        *)
LEMMA FateInit == ASSUME Init, NEW n \in Log PROVE Fate(n)!Init
<1>1. n > published
  <2>1. MaxLogs \in Nat  BY GameLogAssumption
  <2> QED  BY <2>1 DEF Init, Log
<1> QED  BY <1>1 DEF Init, Place, Fate!Init

(* What the three invariants need to begin with.                             *)
LEMMA DeliveryInit == ASSUME Init PROVE DeliveryInv
<1>1. TypeOK  BY TypeInit
<1>2. /\ \A s \in Server : phase[s] = "out" /\ buffer[s] = <<>> /\ writer[s] = {}
      /\ published = 0 /\ ready = {} /\ accepted = {}
  BY DEF Init
<1>3. WroteInv /\ NoLogIsLost  BY <1>2 DEF WroteInv, NoLogIsLost
<1>4. \A s \in Server : Unacked(s) = {}  BY <1>2 DEF Unacked
<1>5. PlaceInv  BY <1>2, <1>4 DEF PlaceInv, Placed
<1>6. AcceptInv
  <2>1. DOMAIN <<>> = {}  OBVIOUS
  <2>2. ToSet(<<>>) = {}  BY <2>1 DEF ToSet
  <2> QED  BY <1>2, <2>2 DEF AcceptInv
<1> QED  BY <1>1, <1>3, <1>5, <1>6 DEF DeliveryInv, LostInv

(* Every step keeps the three invariants.                                    *)
LEMMA DeliveryStep == DeliveryInv /\ [Next]_vars => DeliveryInv'
<1> SUFFICES ASSUME DeliveryInv, [Next]_vars PROVE DeliveryInv'
  OBVIOUS
<1>1. TypeOK /\ LostInv /\ PlaceInv /\ AcceptInv  BY DEF DeliveryInv, LostInv
<1> QED  BY <1>1, TypeStep, LostStep, PlaceStep, AcceptStep DEF DeliveryInv, LostInv

(* GameLog implements Delivery for each log: however many servers compete,   *)
(* crash and reconnect, the broker gives a log up only after it was written, *)
(* and for good.                                                             *)
THEOREM LogImplementsDelivery == ASSUME NEW n \in Log PROVE Spec => Fate(n)!Spec
<1>1. Init => DeliveryInv /\ Fate(n)!Init  BY DeliveryInit, FateInit
<1>2. DeliveryInv /\ DeliveryInv' /\ [Next]_vars => [Fate(n)!Next]_(Fate(n)!vars)
  BY FateStep DEF DeliveryInv, LostInv
<1> QED  BY <1>1, <1>2, DeliveryStep, PTL DEF Spec, Fate!Spec

(* The same of all logs at once, as the run checks it.                       *)
THEOREM EachLogByRule == Spec => EachLogIsDelivered
<1>1. Init => DeliveryInv /\ \A n \in Log : Fate(n)!Init  BY DeliveryInit, FateInit
<1>2. /\ DeliveryInv /\ DeliveryInv' /\ [Next]_vars
      => [\A n \in Log : [Fate(n)!Next]_(Fate(n)!vars)]_vars
  BY FateStep DEF DeliveryInv, LostInv
<1> QED  BY <1>1, <1>2, DeliveryStep, PTL DEF Spec, EachLogIsDelivered
=============================================================================
