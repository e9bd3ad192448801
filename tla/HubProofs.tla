------------------------------ MODULE HubProofs ------------------------------
(* What TLAPS proves about Hub, for any number of connections, any buffer    *)
(* and any number of changes and errors.                                     *)
EXTENDS Hub, SequenceTheorems, TLAPS

(* The state the gateway starts in has these types.                          *)
LEMMA TypeInit == Init => TypeOK
    <1> SUFFICES ASSUME Init PROVE TypeOK
        OBVIOUS
    <1>1. buf \in [Conn -> Seq(Versions)] /\ \A c \in Conn : Len(buf[c]) <= SendBuffer
        BY HubAssumption DEF Init
    <1>2. hub \in Hubs /\ handler \in [Conn -> Handlers]
        BY DEF Init, Hubs, Select, Handlers
    <1>3. /\ since \in [Conn -> Versions] /\ seen \in [Conn -> {-1} \cup Versions]
          /\ failed \in {-1} \cup Versions
        BY DEF Init, Versions
    <1>4. /\ version \in Nat /\ errors \in Nat
          /\ source \in [Source -> {"idle", "applied"}]
          /\ {notify, dirty, stopping, panicked} \subseteq BOOLEAN
          /\ clients \subseteq Conn
          /\ open \in [Conn -> BOOLEAN] /\ alive \in [Conn -> BOOLEAN]
        BY DEF Init
    <1> QED
        BY <1>1, <1>2, <1>3, <1>4 DEF TypeOK

(* The steps of the goroutines that change the world keep the types.         *)
LEMMA TypeWorld ==
    ASSUME TypeOK, NEW s \in Source, Apply(s) \/ Notify(s) PROVE TypeOK'
    <1>1. CASE Apply(s)
        <2>1. version \in Nat /\ version' = version + 1 /\ version' \in Nat
            BY <1>1 DEF Apply, TypeOK
        <2>2. Versions \subseteq Versions'
            BY <2>1 DEF Versions
        <2>3. hub' \in Hubs'
            BY <1>1, <2>2 DEF Apply, run, TypeOK, Hubs, Select
        <2>4. handler' \in [Conn -> Handlers']
            BY <1>1, <2>2 DEF Apply, peer, TypeOK, Handlers
        <2>5. buf' \in [Conn -> Seq(Versions')] /\ \A c \in Conn : Len(buf'[c]) <= SendBuffer
            <3>1. Seq(Versions) \subseteq Seq(Versions')
                BY <2>2
            <3> QED
                BY <3>1, <1>1 DEF Apply, channel, TypeOK
        <2>6. /\ since' \in [Conn -> Versions'] /\ seen' \in [Conn -> {-1} \cup Versions']
              /\ failed' \in {-1} \cup Versions'
            BY <1>1, <2>2 DEF Apply, history, TypeOK
        <2> QED
            BY <1>1, <2>1, <2>3, <2>4, <2>5, <2>6
            DEF Apply, run, channel, peer, history, TypeOK
    <1>2. CASE Notify(s)
        BY <1>2 DEF Notify, run, channel, peer, history, TypeOK, Hubs, Handlers,
                    Versions, Select
    <1> QED
        BY <1>1, <1>2

(* What Send does to a channel with room for the payload.                    *)
LEMMA TypeSend ==
    ASSUME TypeOK, NEW c \in Conn, NEW v \in Versions, Room(c), Send(c, v)
    PROVE  /\ buf' \in [Conn -> Seq(Versions)]
           /\ \A d \in Conn : Len(buf'[d]) <= SendBuffer
           /\ panicked' \in BOOLEAN
    <1>1. buf[c] \in Seq(Versions) /\ Len(buf[c]) \in Nat
        BY DEF TypeOK
    <1>2. Append(buf[c], v) \in Seq(Versions) /\ Len(Append(buf[c], v)) = Len(buf[c]) + 1
        BY <1>1
    <1>3. SendBuffer \in Nat
        BY HubAssumption
    <1>4. Len(Append(buf[c], v)) <= SendBuffer
        BY <1>1, <1>2, <1>3 DEF Room
    <1> QED
        BY <1>2, <1>4 DEF Send, TypeOK

(* The cases of the hub's select keep the types.                             *)
LEMMA TypeSelect ==
    ASSUME TypeOK,
           \/ Stop \/ Shutdown \/ HearNotify \/ Tick
           \/ \E c \in Conn : Register(c) \/ Unregister(c)
    PROVE  TypeOK'
    <1> USE DEF world, run, channel, peer, history, Versions, Hubs, Handlers, Select
    <1>1. CASE Stop
        BY <1>1 DEF Stop, TypeOK
    <1>2. CASE Shutdown
        BY <1>2 DEF Shutdown, TypeOK
    <1>3. CASE HearNotify
        BY <1>3 DEF HearNotify, TypeOK
    <1>4. CASE Tick
        BY <1>4 DEF Tick, TypeOK
    <1>5. ASSUME NEW c \in Conn, Register(c) PROVE TypeOK'
        BY <1>5 DEF Register, TypeOK
    <1>6. ASSUME NEW c \in Conn, Unregister(c) PROVE TypeOK'
        <2>1. /\ handler' \in [Conn -> Handlers] /\ clients' \subseteq Conn
              /\ UNCHANGED <<world, dirty, hub, alive, stopping, errors>>
            BY <1>6 DEF Unregister, TypeOK
        <2>2. CASE c \in clients
            <3>1. Close(c)
                BY <1>6, <2>2 DEF Unregister
            <3>2. open' \in [Conn -> BOOLEAN] /\ panicked' \in BOOLEAN
                BY <3>1 DEF Close, TypeOK
            <3>3. UNCHANGED <<buf, since, seen, failed>>
                BY <3>1 DEF Close
            <3> QED
                BY <2>1, <3>2, <3>3 DEF TypeOK
        <2>3. CASE c \notin clients
            <3>1. UNCHANGED <<channel, history>>
                BY <1>6, <2>3 DEF Unregister
            <3> QED
                BY <2>1, <3>1 DEF TypeOK
        <2> QED
            BY <2>2, <2>3
    <1> QED
        BY <1>1, <1>2, <1>3, <1>4, <1>5, <1>6

(* The steps of the hub between two selects keep the types.                  *)
LEMMA TypeHubStep ==
    ASSUME TypeOK, HubStep PROVE TypeOK'
    <1> USE DEF world, run, channel, peer, history, Hubs, Handlers, Select
    <1>1. CASE EncodeFirst
        BY <1>1 DEF EncodeFirst, TypeOK, Versions
    <1>2. CASE SendFirst
        <2>1. hub.to \in Conn /\ hub.payload \in Versions /\ version' = version
            BY <1>2 DEF SendFirst, TypeOK
        <2> QED
            BY <1>2, <2>1, TypeSend DEF SendFirst, Send, TypeOK, Versions
    <1>3. CASE Encode
        BY <1>3 DEF Encode, TypeOK, Versions
    <1>4. CASE EncodeFails
        BY <1>4 DEF EncodeFails, TypeOK, Versions
    <1>5. CASE Offer
        <2>1. /\ hub \in [pc : {"offer"}, rest : SUBSET Conn, payload : Versions]
            BY <1>5 DEF Offer, TypeOK
        <2>2. PICK c \in hub.rest : Deliver(c) \/ Drop(c)
            BY <1>5 DEF Offer
        <2>3. c \in Conn /\ hub.payload \in Versions
            BY <2>1, <2>2
        <2>4. Offered(c) \in Hubs
            BY <2>1, <2>2 DEF Offered
        <2>5. CASE Deliver(c)
            BY <2>3, <2>4, <2>5, TypeSend DEF Deliver, Send, TypeOK, Versions
        <2>6. CASE Drop(c)
            BY <2>3, <2>4, <2>6 DEF Drop, Close, TypeOK, Versions
        <2> QED
            BY <2>2, <2>5, <2>6
    <1>6. ASSUME NEW c \in Conn, CloseClient(c) PROVE TypeOK'
        BY <1>6 DEF CloseClient, Close, TypeOK, Versions
    <1>7. CASE CloseDone
        BY <1>7 DEF CloseDone, TypeOK, Versions
    <1> QED
        BY <1>1, <1>2, <1>3, <1>4, <1>5, <1>6, <1>7 DEF HubStep

(* The handlers of the connections, and the browsers, keep the types.        *)
LEMMA TypePeer ==
    ASSUME TypeOK, NEW c \in Conn, Accept(c) \/ Hangup(c) \/ ServeWS(c) PROVE TypeOK'
    <1> USE DEF world, run, channel, peer, history, Hubs, Handlers, Select, Versions, Goto
    <1>1. CASE Accept(c)
        BY <1>1 DEF Accept, TypeOK
    <1>2. CASE Hangup(c)
        BY <1>2 DEF Hangup, TypeOK
    <1>3. CASE GiveUp(c)
        BY <1>3 DEF GiveUp, TypeOK
    <1>4. CASE StopServing(c)
        BY <1>4 DEF StopServing, TypeOK
    <1>5. CASE Receive(c)
        <2>1. buf[c] \in Seq(0..version) /\ buf[c] # <<>> /\ Len(buf[c]) <= SendBuffer
            BY <1>5 DEF Receive, TypeOK
        <2>2. /\ Head(buf[c]) \in 0..version
              /\ Tail(buf[c]) \in Seq(0..version)
              /\ Len(Tail(buf[c])) = Len(buf[c]) - 1
            BY <2>1, HeadTailProperties
        <2>3. Len(Tail(buf[c])) <= SendBuffer
            BY <2>1, <2>2, HubAssumption
        <2> QED
            BY <1>5, <2>2, <2>3 DEF Receive, TypeOK
    <1>6. CASE ReceiveClosed(c)
        BY <1>6 DEF ReceiveClosed, TypeOK
    <1>7. CASE Write(c)
        BY <1>7 DEF Write, TypeOK
    <1>8. CASE WriteFails(c)
        BY <1>8 DEF WriteFails, TypeOK
    <1>9. CASE LeaveAfterDone(c)
        BY <1>9 DEF LeaveAfterDone, TypeOK
    <1> QED
        BY <1>1, <1>2, <1>3, <1>4, <1>5, <1>6, <1>7, <1>8, <1>9 DEF ServeWS

(* Every step keeps the types.                                               *)
LEMMA TypeNext == TypeOK /\ [Next]_vars => TypeOK'
    <1> SUFFICES ASSUME TypeOK, [Next]_vars PROVE TypeOK'
        OBVIOUS
    <1>1. CASE UNCHANGED vars
        BY <1>1 DEF vars, world, run, channel, peer, history, TypeOK, Hubs, Handlers,
                    Versions, Select
    <1>2. CASE Next
        BY <1>2, TypeWorld, TypeSelect, TypeHubStep, TypePeer DEF Next
    <1> QED
        BY <1>1, <1>2

(* The state of hub, channels and handlers keeps its types; in particular no *)
(* channel ever holds more than SendBuffer snapshots.                        *)
THEOREM TypeCorrect == Spec => []TypeOK
    <1>1. Init => TypeOK
        BY TypeInit
    <1>2. TypeOK /\ [Next]_vars => TypeOK'
        BY TypeNext
    <1> QED
        BY <1>1, <1>2, PTL DEF Spec
-----------------------------------------------------------------------------
(* Who owns which channel. NeverPanics alone is not inductive: a step may    *)
(* only send to, or close, a channel that is known to be open, and that is   *)
(* known because the hub keeps exactly the open ones among its clients and a *)
(* handler that has not registered yet still has its fresh channel.          *)

(* Until it shuts down the hub only touches channels of its clients.         *)
ClientInv ==
    /\ hub.pc \notin {"close", "done"} => \A c \in clients : open[c]
    /\ hub.pc \in {"greet", "first"} => hub.to \in clients
    /\ hub.pc = "offer" => hub.rest \subseteq clients
    /\ hub.pc = "close" => hub.rest \subseteq clients /\ \A c \in hub.rest : open[c]

(* A channel is empty and open when its handler registers, and empty until   *)
(* the first snapshot is sent.                                               *)
FreshInv ==
    /\ \A c \in Conn :
          handler[c].pc \in {"new", "registering"} =>
              open[c] /\ c \notin clients /\ buf[c] = <<>>
    /\ hub.pc \in {"greet", "first"} => buf[hub.to] = <<>>

ChannelInv == TypeOK /\ ClientInv /\ FreshInv /\ ~panicked

(* It holds when the gateway starts.                                         *)
LEMMA ChannelInit == Init => ChannelInv
    BY TypeInit DEF Init, ChannelInv, ClientInv, FreshInv, Select

(* Steps that touch neither the hub's variables nor a channel.               *)
LEMMA ChannelOthers ==
    ASSUME ChannelInv, TypeOK',
           \/ \E s \in Source : Apply(s) \/ Notify(s)
           \/ Stop
           \/ \E c \in Conn : Accept(c) \/ Hangup(c) \/ ServeWS(c)
    PROVE  ChannelInv'
    <1> USE DEF ChannelInv, ClientInv, FreshInv, world, run, channel, peer, history
    <1>1. ASSUME NEW s \in Source, Apply(s) \/ Notify(s) PROVE ChannelInv'
        BY <1>1 DEF Apply, Notify
    <1>2. CASE Stop
        BY <1>2 DEF Stop
    <1>3. ASSUME NEW c \in Conn, Accept(c) PROVE ChannelInv'
        BY <1>3 DEF Accept, Goto, TypeOK
    <1>4. ASSUME NEW c \in Conn, Hangup(c) PROVE ChannelInv'
        BY <1>4 DEF Hangup
    <1>5. ASSUME NEW c \in Conn, Receive(c) PROVE ChannelInv'
        <2>1. handler' = [handler EXCEPT ![c] =
                    [pc |-> "writing", payload |-> Head(buf[c])]]
            BY <1>5 DEF Receive
        <2>2. \A d \in Conn : handler'[d].pc \in {"new", "registering"} =>
                    d # c /\ handler'[d] = handler[d]
            BY <2>1 DEF TypeOK
        <2>3. \A d \in Conn \ {c} : buf'[d] = buf[d]
            BY <1>5 DEF Receive, TypeOK
        <2>4. buf[c] # <<>>
            BY <1>5 DEF Receive
        <2>5. hub.pc \in {"greet", "first"} => hub.to \in Conn \ {c}
            BY <2>4 DEF TypeOK
        <2> QED
            BY <1>5, <2>2, <2>3, <2>5 DEF Receive
    <1>6. ASSUME NEW c \in Conn,
                 \/ GiveUp(c) \/ StopServing(c) \/ ReceiveClosed(c)
                 \/ Write(c) \/ WriteFails(c) \/ LeaveAfterDone(c)
          PROVE  ChannelInv'
        <2>1. PICK pc \in {"serving", "leaving", "gone"} :
                    handler' = [handler EXCEPT ![c] = [pc |-> pc]]
            BY <1>6 DEF GiveUp, StopServing, ReceiveClosed, Write, WriteFails,
                        LeaveAfterDone, Goto
        <2>2. \A d \in Conn : handler'[d].pc \in {"new", "registering"} =>
                    handler'[d] = handler[d]
            BY <2>1 DEF TypeOK
        <2>3. UNCHANGED <<hub, clients, open, buf, panicked>>
            BY <1>6 DEF GiveUp, StopServing, ReceiveClosed, Write, WriteFails, LeaveAfterDone
        <2> QED
            BY <2>2, <2>3
    <1> QED
        BY <1>1, <1>2, <1>3, <1>4, <1>5, <1>6 DEF ServeWS

(* The cases of the hub's select: a new client is open, one that leaves is   *)
(* closed only if it still is a client.                                      *)
LEMMA ChannelSelect ==
    ASSUME ChannelInv, TypeOK',
           \/ Shutdown \/ HearNotify \/ Tick
           \/ \E c \in Conn : Register(c) \/ Unregister(c)
    PROVE  ChannelInv'
    <1> USE DEF ChannelInv, ClientInv, FreshInv, Select, world, run, channel, peer, history
    <1>1. CASE Shutdown
        BY <1>1 DEF Shutdown
    <1>2. CASE HearNotify
        BY <1>2 DEF HearNotify
    <1>3. CASE Tick
        BY <1>3 DEF Tick
    <1>4. ASSUME NEW c \in Conn, Register(c) PROVE ChannelInv'
        BY <1>4 DEF Register, TypeOK
    <1>5. ASSUME NEW c \in Conn, Unregister(c) PROVE ChannelInv'
        BY <1>5 DEF Unregister, Close, TypeOK
    <1> QED
        BY <1>1, <1>2, <1>3, <1>4, <1>5

(* What the hub does away from its select: it sends to clients and closes    *)
(* the channel of each one once.                                             *)
LEMMA ChannelHubStep ==
    ASSUME ChannelInv, TypeOK', HubStep PROVE ChannelInv'
    <1> USE DEF ChannelInv, ClientInv, FreshInv, Select, world, run, channel, peer, history
    <1>1. CASE EncodeFirst
        BY <1>1 DEF EncodeFirst
    <1>2. CASE SendFirst
        BY <1>2 DEF SendFirst, Send, TypeOK
    <1>3. CASE Encode
        BY <1>3 DEF Encode
    <1>4. CASE EncodeFails
        BY <1>4 DEF EncodeFails
    <1>5. CASE Offer
        <2>1. PICK c \in hub.rest : Deliver(c) \/ Drop(c)
            BY <1>5 DEF Offer
        <2>2. c \in clients /\ c \in Conn /\ open[c] /\ hub.pc = "offer"
            BY <1>5, <2>1 DEF Offer, TypeOK
        <2>3. /\ Offered(c).pc \in {"select", "offer"}
              /\ Offered(c).pc = "offer" => Offered(c).rest \subseteq clients \ {c}
            BY <2>2, <1>5 DEF Offered, Offer, TypeOK, Hubs
        <2>4. CASE Deliver(c)
            BY <2>2, <2>3, <2>4 DEF Deliver, Send, TypeOK
        <2>5. CASE Drop(c)
            BY <2>2, <2>3, <2>5 DEF Drop, Close, TypeOK
        <2> QED
            BY <2>1, <2>4, <2>5
    <1>6. ASSUME NEW c \in Conn, CloseClient(c) PROVE ChannelInv'
        <2>1. hub' = [hub EXCEPT !.rest = @ \ {c}] /\ hub.pc = "close" /\ c \in hub.rest
            BY <1>6 DEF CloseClient
        <2>2. hub'.pc = "close" /\ hub'.rest = hub.rest \ {c}
            BY <2>1 DEF TypeOK, Hubs
        <2> QED
            BY <1>6, <2>1, <2>2 DEF CloseClient, Close, TypeOK
    <1>7. CASE CloseDone
        BY <1>7 DEF CloseDone
    <1> QED
        BY <1>1, <1>2, <1>3, <1>4, <1>5, <1>6, <1>7 DEF HubStep

(* Every step keeps the invariant.                                           *)
LEMMA ChannelNext == ChannelInv /\ [Next]_vars => ChannelInv'
    <1> SUFFICES ASSUME ChannelInv, [Next]_vars PROVE ChannelInv'
        OBVIOUS
    <1>1. TypeOK'
        BY TypeNext DEF ChannelInv
    <1>2. CASE UNCHANGED vars
        BY <1>1, <1>2 DEF vars, world, run, channel, peer, history,
                          ChannelInv, ClientInv, FreshInv
    <1>3. CASE Next
        BY <1>1, <1>3, ChannelOthers, ChannelSelect, ChannelHubStep DEF Next
    <1> QED
        BY <1>2, <1>3

(* Together: the invariant holds of every reachable state.                   *)
LEMMA ChannelCorrect == Spec => []ChannelInv
    BY ChannelInit, ChannelNext, PTL DEF Spec

(* The gateway never sends on a closed channel and never closes one twice.   *)
THEOREM HubNeverPanics == Spec => []NeverPanics
    <1>1. ChannelInv => NeverPanics
        BY DEF ChannelInv, NeverPanics
    <1> QED
        BY <1>1, ChannelCorrect, PTL

(* The first snapshot finds room in the channel (hub.go 77).                 *)
FirstSendHasRoom == hub.pc = "first" => Room(hub.to)

(* The one send of the hub that could wait, that of the first snapshot, does *)
(* not: sendBuffer is at least 1 and nobody else has sent to the client.     *)
THEOREM FirstSendNeverWaits == Spec => []FirstSendHasRoom
    <1>1. ChannelInv => FirstSendHasRoom
        BY HubAssumption DEF ChannelInv, FreshInv, FirstSendHasRoom, Room
    <1> QED
        BY <1>1, ChannelCorrect, PTL

(* Who a snapshot is for: after a tick with clients, somebody; and the hub   *)
(* is back at its select when nobody is left of them.                        *)
SomebodyInv == /\ hub.pc = "encode" => clients # {}
               /\ hub.pc = "offer" => hub.rest # {}

(* Clients come and go while the hub selects, or by its own hand.            *)
LEMMA SomebodyNext == ASSUME ChannelInv, SomebodyInv, [Next]_vars PROVE SomebodyInv'
    <1> USE DEF SomebodyInv, Select, world, run, channel, peer, history
    <1>1. CASE UNCHANGED <<hub, clients>>
        BY <1>1
    <1>2. CASE hub'.pc \notin {"encode", "offer"}
        BY <1>2
    <1>3. CASE Tick
        BY <1>3 DEF Tick
    <1>4. CASE Encode
        BY <1>4 DEF Encode
    <1>5. CASE Offer
        <2>1. PICK c \in hub.rest : hub' = Offered(c)
            BY <1>5 DEF Offer, Deliver, Drop
        <2>2. CASE hub.rest = {c}
            BY <1>2, <2>1, <2>2 DEF Offered
        <2>3. CASE hub.rest # {c}
            <3>1. hub' = [hub EXCEPT !.rest = @ \ {c}] /\ hub.pc = "offer"
                BY <1>5, <2>1, <2>3 DEF Offered, Offer
            <3>2. hub'.pc = "offer" /\ hub'.rest = hub.rest \ {c}
                BY <3>1 DEF ChannelInv, TypeOK, Hubs
            <3> QED
                BY <2>3, <3>2
        <2> QED
            BY <2>2, <2>3
    <1>6. ASSUME NEW c \in Conn, Register(c) \/ Unregister(c) PROVE SomebodyInv'
        BY <1>6 DEF Register, Unregister
    <1>7. ASSUME NEW c \in Conn, CloseClient(c) PROVE SomebodyInv'
        <2>1. hub' = [hub EXCEPT !.rest = @ \ {c}] /\ hub.pc = "close"
            BY <1>7 DEF CloseClient
        <2>2. hub'.pc = "close"
            BY <2>1 DEF ChannelInv, TypeOK, Hubs
        <2> QED
            BY <2>2
    <1>8. CASE EncodeFirst \/ SendFirst \/ EncodeFails \/ CloseDone \/ Shutdown
        BY <1>2, <1>8 DEF EncodeFirst, SendFirst, EncodeFails, CloseDone, Shutdown
    <1>9. ASSUME NEW c \in Conn, Accept(c) \/ Hangup(c) \/ ServeWS(c)
          PROVE  UNCHANGED <<hub, clients>>
        BY <1>9 DEF Accept, Hangup, ServeWS, GiveUp, StopServing, Receive, ReceiveClosed,
                    Write, WriteFails, LeaveAfterDone
    <1>a. CASE \/ Stop \/ HearNotify \/ \E s \in Source : Apply(s) \/ Notify(s)
               \/ UNCHANGED vars
        BY <1>1, <1>a DEF Stop, HearNotify, Apply, Notify, vars
    <1> QED
        BY <1>1, <1>3, <1>4, <1>5, <1>6, <1>7, <1>8, <1>9, <1>a DEF Next, HubStep

(* Away from its select, the guards of one of HubStep's actions hold: what   *)
(* HubNeverBlocks says by ENABLED. Offer delivers to a client with room and  *)
(* drops one without, so it only needs a client; close needs one or none.    *)
HubCanGoOn ==
    \/ hub.pc \in {"select", "done"}
    \/ hub.pc \in {"greet", "encode"}
    \/ hub.pc = "first" /\ Room(hub.to)
    \/ hub.pc = "offer" /\ hub.rest # {}
    \/ hub.pc = "close" /\ (hub.rest = {} \/ hub.rest \cap Conn # {})

(* Whatever browsers stop reading and however connections come and go, the   *)
(* hub is never held up between two selects (hub.go 77, 101).                *)
THEOREM HubGoesOn == Spec => []HubCanGoOn
    <1>1. Init => SomebodyInv
        BY DEF Init, Select, SomebodyInv
    <1>2. ChannelInv /\ SomebodyInv => HubCanGoOn
        <2>1. SUFFICES ASSUME ChannelInv, SomebodyInv PROVE HubCanGoOn
            OBVIOUS
        <2>2. hub.pc = "first" => Room(hub.to)
            BY <2>1, HubAssumption DEF ChannelInv, FreshInv, Room
        <2>3. hub.pc = "offer" => hub.rest # {} /\ hub.rest \subseteq clients
            BY <2>1 DEF ChannelInv, ClientInv, SomebodyInv
        <2>4. hub.pc = "close" => hub.rest \subseteq Conn
            BY <2>1 DEF ChannelInv, ClientInv, TypeOK
        <2>5. hub.pc \in {"select", "done", "greet", "encode", "first", "offer", "close"}
            BY <2>1 DEF ChannelInv, TypeOK, Hubs, Select
        <2> QED
            BY <2>2, <2>3, <2>4, <2>5 DEF HubCanGoOn
    <1>3. ChannelInv /\ SomebodyInv /\ [Next]_vars => SomebodyInv'
        BY SomebodyNext
    <1> QED
        BY <1>1, <1>2, <1>3, ChannelCorrect, PTL DEF Spec
-----------------------------------------------------------------------------
(* Hub implements the safety part of Broadcast. What a page sees is what     *)
(* leaves a pipeline: the snapshot in the hub's hands, the channel's buffer, *)
(* the one the handler writes, the last one written. Versions only decrease  *)
(* along it, and none is older than the connection.                          *)

(* The hub still has its snapshot to give to c.                              *)
Pending(c) == \/ hub.pc = "first" /\ hub.to = c
              \/ hub.pc = "offer" /\ c \in hub.rest

Writing(c) == handler[c].pc = "writing"

FlowInv ==
    \A c \in Conn :
        /\ \A i \in 1..Len(buf[c]) : since[c] <= buf[c][i] /\ seen[c] <= buf[c][i]
        /\ \A i, j \in 1..Len(buf[c]) : i < j => buf[c][i] <= buf[c][j]
        /\ Writing(c) =>
              /\ since[c] <= handler[c].payload /\ seen[c] <= handler[c].payload
              /\ \A i \in 1..Len(buf[c]) : handler[c].payload <= buf[c][i]
        /\ Pending(c) =>
              /\ since[c] <= hub.payload /\ seen[c] <= hub.payload
              /\ Writing(c) => handler[c].payload <= hub.payload
              /\ \A i \in 1..Len(buf[c]) : buf[c][i] <= hub.payload

PipelineInv == ChannelInv /\ FlowInv

(* It holds when the gateway starts.                                         *)
LEMMA FlowInit == Init => FlowInv
    BY DEF Init, FlowInv, Pending, Writing, Select

(* Steps that move no snapshot.                                              *)
LEMMA FlowOthers ==
    ASSUME PipelineInv,
           UNCHANGED <<buf, since, seen>>,
           \A c \in Conn : Writing(c)' => handler'[c] = handler[c],
           \A c \in Conn : Pending(c)' => Pending(c) /\ hub'.payload = hub.payload
    PROVE  FlowInv'
    BY DEF PipelineInv, FlowInv, Writing

(* A snapshot just encoded is the newest there is.                           *)
LEMMA FlowEncode ==
    ASSUME PipelineInv, EncodeFirst \/ Encode PROVE FlowInv'
    <1>1. hub'.payload = version /\ version \in Nat
        BY DEF EncodeFirst, Encode, PipelineInv, ChannelInv, TypeOK
    <1>2. UNCHANGED <<buf, since, seen, handler>>
        BY DEF EncodeFirst, Encode, channel, peer, history
    <1>3. ASSUME NEW c \in Conn
          PROVE  /\ since[c] <= version /\ seen[c] <= version
                 /\ Writing(c) => handler[c].payload <= version
                 /\ \A i \in 1..Len(buf[c]) : buf[c][i] <= version
        <2>1. since[c] \in 0..version
            BY DEF PipelineInv, ChannelInv, TypeOK, Versions
        <2>2. seen[c] \in {-1} \cup 0..version
            BY DEF PipelineInv, ChannelInv, TypeOK, Versions
        <2>3. Writing(c) => handler[c].payload \in 0..version
            BY DEF PipelineInv, ChannelInv, TypeOK, Versions, Writing, Handlers
        <2>4. buf[c] \in Seq(0..version)
            BY DEF PipelineInv, ChannelInv, TypeOK, Versions
        <2>5. \A i \in 1..Len(buf[c]) : buf[c][i] \in 0..version
            BY <2>4, ElementOfSeq
        <2> QED
            BY <1>1, <2>1, <2>2, <2>3, <2>5
    <1>4. ASSUME NEW c \in Conn
          PROVE  /\ \A i \in 1..Len(buf[c]) : since[c] <= buf[c][i] /\ seen[c] <= buf[c][i]
                 /\ \A i, j \in 1..Len(buf[c]) : i < j => buf[c][i] <= buf[c][j]
                 /\ Writing(c) =>
                      /\ since[c] <= handler[c].payload /\ seen[c] <= handler[c].payload
                      /\ \A i \in 1..Len(buf[c]) : handler[c].payload <= buf[c][i]
        BY DEF PipelineInv, FlowInv
    <1>5. \A c \in Conn : Writing(c)' <=> Writing(c)
        BY <1>2 DEF Writing
    <1> QED
        BY <1>1, <1>2, <1>3, <1>4, <1>5, Zenon DEF FlowInv

(* A snapshot sent goes behind those already in the channel.                 *)
LEMMA FlowSend ==
    ASSUME PipelineInv, NEW c \in Conn, Pending(c), Send(c, hub.payload),
           UNCHANGED handler,
           ~Pending(c)',
           \A d \in Conn : Pending(d)' => Pending(d) /\ hub'.payload = hub.payload
    PROVE  FlowInv'
    <1>1. buf'[c] = Append(buf[c], hub.payload) /\ buf[c] \in Seq(Versions)
        BY DEF Send, PipelineInv, ChannelInv, TypeOK
    <1>2. \A d \in Conn \ {c} : buf'[d] = buf[d]
        BY DEF Send, PipelineInv, ChannelInv, TypeOK
    <1>3. /\ Len(buf'[c]) = Len(buf[c]) + 1 /\ Len(buf[c]) \in Nat
          /\ buf'[c][Len(buf[c]) + 1] = hub.payload
          /\ \A i \in 1..Len(buf[c]) : buf'[c][i] = buf[c][i]
        BY <1>1, AppendProperties
    <1>4. \A i \in 1..Len(buf'[c]) : i \in 1..Len(buf[c]) \/ i = Len(buf[c]) + 1
        BY <1>3
    <1>5. UNCHANGED <<since, seen>>
        BY DEF Send
    <1>6. ASSUME NEW d \in Conn \ {c}
          PROVE  /\ \A i \in 1..Len(buf'[d]) : since'[d] <= buf'[d][i] /\ seen'[d] <= buf'[d][i]
                 /\ \A i, j \in 1..Len(buf'[d]) : i < j => buf'[d][i] <= buf'[d][j]
        BY <1>2, <1>5 DEF PipelineInv, FlowInv
    <1>7. \A i \in 1..Len(buf'[c]) : since[c] <= buf'[c][i] /\ seen[c] <= buf'[c][i]
        BY <1>3, <1>4 DEF PipelineInv, FlowInv
    <1>8. \A i, j \in 1..Len(buf'[c]) : i < j => buf'[c][i] <= buf'[c][j]
        <2> SUFFICES ASSUME NEW i \in 1..Len(buf'[c]), NEW j \in 1..Len(buf'[c]), i < j
                     PROVE  buf'[c][i] <= buf'[c][j]
            OBVIOUS
        <2>1. i \in 1..Len(buf[c])
            BY <1>3
        <2>2. CASE j \in 1..Len(buf[c])
            BY <1>3, <2>1, <2>2 DEF PipelineInv, FlowInv
        <2>3. CASE j = Len(buf[c]) + 1
            BY <1>3, <2>1, <2>3 DEF PipelineInv, FlowInv
        <2> QED
            BY <1>4, <2>2, <2>3
    <1>9. Writing(c) => \A i \in 1..Len(buf'[c]) : handler[c].payload <= buf'[c][i]
        BY <1>3, <1>4 DEF PipelineInv, FlowInv
    <1>10. \A d \in Conn :
              Writing(d)' =>
                /\ since'[d] <= handler'[d].payload /\ seen'[d] <= handler'[d].payload
                /\ \A i \in 1..Len(buf'[d]) : handler'[d].payload <= buf'[d][i]
        BY <1>2, <1>5, <1>9 DEF PipelineInv, FlowInv, Writing
    <1>11. \A d \in Conn :
              Pending(d)' =>
                /\ since'[d] <= hub'.payload /\ seen'[d] <= hub'.payload
                /\ Writing(d)' => handler'[d].payload <= hub'.payload
                /\ \A i \in 1..Len(buf'[d]) : buf'[d][i] <= hub'.payload
        BY <1>2, <1>5 DEF PipelineInv, FlowInv, Writing
    <1> QED
        BY <1>5, <1>6, <1>7, <1>8, <1>10, <1>11 DEF FlowInv

(* The handler takes the oldest snapshot from the channel.                   *)
LEMMA FlowReceive ==
    ASSUME PipelineInv, NEW c \in Conn, Receive(c) PROVE FlowInv'
    <1>1. /\ buf[c] \in Seq(Versions) /\ buf[c] # <<>>
          /\ buf' = [buf EXCEPT ![c] = Tail(@)]
          /\ handler' = [handler EXCEPT ![c] =
                    [pc |-> "writing", payload |-> Head(buf[c])]]
          /\ UNCHANGED <<hub, since, seen>>
        BY DEF Receive, run, history, PipelineInv, ChannelInv, TypeOK
    <1>2. /\ Len(buf[c]) \in Nat \ {0} /\ Head(buf[c]) = buf[c][1]
          /\ Len(Tail(buf[c])) = Len(buf[c]) - 1
          /\ \A i \in 1..Len(Tail(buf[c])) : Tail(buf[c])[i] = buf[c][i + 1]
        BY <1>1, HeadTailProperties, EmptySeq
    <1>3. buf'[c] = Tail(buf[c]) /\ \A d \in Conn \ {c} : buf'[d] = buf[d]
        BY <1>1 DEF PipelineInv, ChannelInv, TypeOK
    <1>4. /\ handler'[c] = [pc |-> "writing", payload |-> buf[c][1]]
          /\ \A d \in Conn \ {c} : handler'[d] = handler[d]
        BY <1>1, <1>2 DEF PipelineInv, ChannelInv, TypeOK
    <1>5. \A i \in 1..Len(buf'[c]) :
              i + 1 \in 1..Len(buf[c]) /\ 1 < i + 1 /\ buf'[c][i] = buf[c][i + 1]
        BY <1>2, <1>3
    <1>6. 1 \in 1..Len(buf[c])
        BY <1>2
    <1>7. /\ \A i \in 1..Len(buf'[c]) :
                since[c] <= buf'[c][i] /\ seen[c] <= buf'[c][i] /\ buf[c][1] <= buf'[c][i]
          /\ since[c] <= buf[c][1] /\ seen[c] <= buf[c][1]
        BY <1>5, <1>6 DEF PipelineInv, FlowInv
    <1>8. \A i, j \in 1..Len(buf'[c]) : i < j => buf'[c][i] <= buf'[c][j]
        <2> SUFFICES ASSUME NEW i \in 1..Len(buf'[c]), NEW j \in 1..Len(buf'[c]), i < j
                     PROVE  buf'[c][i] <= buf'[c][j]
            OBVIOUS
        <2>1. i + 1 < j + 1
            OBVIOUS
        <2> QED
            BY <1>5, <2>1 DEF PipelineInv, FlowInv
    <1>9. Pending(c) => /\ buf[c][1] <= hub.payload
                        /\ \A i \in 1..Len(buf'[c]) : buf'[c][i] <= hub.payload
        BY <1>5, <1>6 DEF PipelineInv, FlowInv
    <1>10. \A d \in Conn : Pending(d)' <=> Pending(d)
        BY <1>1 DEF Pending
    <1> QED
        BY <1>1, <1>3, <1>4, <1>7, <1>8, <1>9, <1>10 DEF PipelineInv, FlowInv, Writing

(* A write makes the snapshot the last one seen.                             *)
LEMMA FlowWrite ==
    ASSUME PipelineInv, NEW c \in Conn, Write(c) PROVE FlowInv'
    <1>1. /\ Writing(c) /\ UNCHANGED <<buf, hub, since>>
          /\ seen'[c] = handler[c].payload /\ handler'[c] = [pc |-> "serving"]
          /\ \A d \in Conn \ {c} : seen'[d] = seen[d] /\ handler'[d] = handler[d]
        BY DEF Write, Goto, Writing, run, channel, PipelineInv, ChannelInv, TypeOK
    <1>2. \A d \in Conn : Pending(d)' <=> Pending(d)
        BY <1>1 DEF Pending
    <1> QED
        BY <1>1, <1>2 DEF PipelineInv, FlowInv, Writing

(* A connection starts with nothing under way to it.                         *)
LEMMA FlowAccept ==
    ASSUME PipelineInv, NEW c \in Conn, Accept(c) PROVE FlowInv'
    <1>1. /\ handler[c].pc = "new" /\ UNCHANGED <<buf, hub, seen>>
          /\ handler'[c] = [pc |-> "registering"]
          /\ \A d \in Conn \ {c} : since'[d] = since[d] /\ handler'[d] = handler[d]
        BY DEF Accept, Goto, run, channel, PipelineInv, ChannelInv, TypeOK
    <1>2. buf[c] = <<>> /\ ~Pending(c)
        BY <1>1 DEF PipelineInv, ChannelInv, FreshInv, ClientInv, Pending
    <1>3. \A d \in Conn : Pending(d)' <=> Pending(d)
        BY <1>1 DEF Pending
    <1>4. Len(buf[c]) = 0
        BY <1>2
    <1> QED
        BY <1>1, <1>2, <1>3, <1>4 DEF PipelineInv, FlowInv, Writing

(* Every step keeps the order of the pipeline.                               *)
LEMMA FlowNext == PipelineInv /\ [Next]_vars => FlowInv'
    <1> SUFFICES ASSUME PipelineInv, [Next]_vars PROVE FlowInv'
        OBVIOUS
    <1> USE DEF world, run, channel, peer, history, Select
    <1>1. CASE UNCHANGED vars
        BY <1>1, FlowOthers DEF vars, Pending
    <1>2. ASSUME \/ \E s \in Source : Apply(s) \/ Notify(s)
                 \/ Stop \/ Shutdown \/ HearNotify \/ Tick \/ EncodeFails \/ CloseDone
          PROVE  FlowInv'
        BY <1>2, FlowOthers DEF Apply, Notify, Stop, Shutdown, HearNotify, Tick,
                                EncodeFails, CloseDone, Pending
    <1>3. CASE EncodeFirst \/ Encode
        BY <1>3, FlowEncode
    <1>4. CASE SendFirst
        <2>1. hub.to \in Conn /\ Pending(hub.to)
            BY <1>4 DEF SendFirst, Pending, PipelineInv, ChannelInv, ClientInv, TypeOK
        <2>2. Send(hub.to, hub.payload) /\ UNCHANGED handler /\ hub'.pc = "select"
            BY <1>4 DEF SendFirst
        <2> QED
            BY <2>1, <2>2, FlowSend DEF Pending
    <1>5. CASE Offer
        <2>1. PICK c \in hub.rest : Deliver(c) \/ Drop(c)
            BY <1>5 DEF Offer
        <2>2. c \in Conn /\ hub.pc = "offer" /\ Pending(c)
            BY <1>5, <2>1 DEF Offer, Pending, PipelineInv, ChannelInv, ClientInv, TypeOK
        <2>3. /\ Offered(c).pc \in {"select", "offer"}
              /\ Offered(c).pc = "offer" => /\ Offered(c).rest = hub.rest \ {c}
                                            /\ Offered(c).payload = hub.payload
            BY <2>2 DEF Offered, PipelineInv, ChannelInv, TypeOK, Hubs
        <2>4. hub' = Offered(c) /\ UNCHANGED <<handler, since, seen>>
            BY <2>1 DEF Deliver, Drop, Send, Close
        <2>5. /\ ~Pending(c)'
              /\ \A d \in Conn : Pending(d)' => Pending(d) /\ hub'.payload = hub.payload
            BY <2>2, <2>3, <2>4 DEF Pending
        <2>6. CASE Deliver(c)
            BY <2>2, <2>4, <2>5, <2>6, FlowSend DEF Deliver
        <2>7. CASE Drop(c)
            BY <2>4, <2>5, <2>7, FlowOthers DEF Drop, Close
        <2> QED
            BY <2>1, <2>6, <2>7
    <1>6. ASSUME NEW c \in Conn, CloseClient(c) PROVE FlowInv'
        <2>1. hub' = [hub EXCEPT !.rest = @ \ {c}] /\ hub.pc = "close"
            BY <1>6 DEF CloseClient
        <2>2. hub'.pc = "close"
            BY <2>1 DEF PipelineInv, ChannelInv, TypeOK, Hubs
        <2> QED
            BY <1>6, <2>2, FlowOthers DEF CloseClient, Close, Pending
    <1>7. ASSUME NEW c \in Conn, Register(c) PROVE FlowInv'
        BY <1>7, FlowOthers DEF Register, Pending, Writing, PipelineInv, ChannelInv, TypeOK
    <1>8. ASSUME NEW c \in Conn, Unregister(c) PROVE FlowInv'
        BY <1>8, FlowOthers DEF Unregister, Close, Pending, Writing, PipelineInv,
                                ChannelInv, TypeOK
    <1>9. ASSUME NEW c \in Conn, Hangup(c) PROVE FlowInv'
        BY <1>9, FlowOthers DEF Hangup, Pending
    <1>10. ASSUME NEW c \in Conn,
                  \/ GiveUp(c) \/ StopServing(c) \/ ReceiveClosed(c)
                  \/ WriteFails(c) \/ LeaveAfterDone(c)
           PROVE  FlowInv'
        <2>1. PICK pc \in {"leaving", "gone"} :
                    handler' = [handler EXCEPT ![c] = [pc |-> pc]]
            BY <1>10 DEF GiveUp, StopServing, ReceiveClosed, WriteFails, LeaveAfterDone, Goto
        <2>2. \A d \in Conn : Writing(d)' => handler'[d] = handler[d]
            BY <2>1 DEF Writing, PipelineInv, ChannelInv, TypeOK
        <2>3. UNCHANGED <<hub, buf, since, seen>>
            BY <1>10 DEF GiveUp, StopServing, ReceiveClosed, WriteFails, LeaveAfterDone
        <2> QED
            BY <2>2, <2>3, FlowOthers DEF Pending
    <1>11. ASSUME NEW c \in Conn, Accept(c) \/ Receive(c) \/ Write(c) PROVE FlowInv'
        BY <1>11, FlowAccept, FlowReceive, FlowWrite
    <1> QED
        BY <1>1, <1>2, <1>3, <1>4, <1>5, <1>6, <1>7, <1>8, <1>9, <1>10, <1>11
        DEF Next, HubStep, ServeWS

(* The status of a connection for the page: the mapping used in Promise.     *)
Status(c) == CASE handler[c].pc = "new"  -> "away"
               [] handler[c].pc = "gone" -> "gone"
               [] OTHER -> "watching"

(* Where a connection's handler neither starts nor ends its status stays.    *)
LEMMA StatusStays ==
    ASSUME NEW c \in Conn,
           handler'[c].pc = "new" <=> handler[c].pc = "new",
           handler'[c].pc = "gone" <=> handler[c].pc = "gone"
    PROVE  Status(c)' = Status(c)
    BY DEF Status

(* A step that ends at most the one connection c and moves no snapshot.      *)
LEMMA PromiseLeave ==
    ASSUME PipelineInv, NEW c \in Conn, NEW h \in Handlers,
           handler[c].pc \notin {"new", "gone"}, h.pc # "new",
           handler' = [handler EXCEPT ![c] = h],
           UNCHANGED <<version, since, seen>>
    PROVE  [Promise!Next]_(Promise!vars)
    <1>1. \A d \in Conn \ {c} : handler'[d] = handler[d]
        BY DEF PipelineInv, ChannelInv, TypeOK
    <1>2. \A d \in Conn \ {c} : Status(d)' = Status(d)
        BY <1>1 DEF Status
    <1>3. handler'[c] = h
        BY DEF PipelineInv, ChannelInv, TypeOK
    <1>4. Status(c) = "watching"
        BY DEF Status
    <1>5. CASE h.pc = "gone"
        <2>1. Status(c)' = "gone"
            BY <1>3, <1>5 DEF Status
        <2>2. [d \in Conn |-> Status(d)]' =
                    [[d \in Conn |-> Status(d)] EXCEPT ![c] = "gone"]
            BY <1>2, <2>1
        <2>3. Promise!Leave(c)
            BY <1>4, <2>2 DEF Promise!Leave, Status
        <2> QED
            BY <2>3 DEF Promise!Next
    <1>6. CASE h.pc # "gone"
        <2>1. Status(c)' = "watching"
            BY <1>3, <1>6 DEF Status
        <2>2. [d \in Conn |-> Status(d)]' = [d \in Conn |-> Status(d)]
            BY <1>2, <1>4, <2>1
        <2> QED
            BY <2>2 DEF Promise!vars, Status
    <1> QED
        BY <1>5, <1>6

(* A step that neither changes a status nor moves a snapshot is a stutter.   *)
LEMMA PromiseStutter ==
    ASSUME UNCHANGED <<version, handler, since, seen>>
    PROVE  UNCHANGED Promise!vars
    BY DEF Promise!vars

(* Every step of the hub is a step of Broadcast or a stutter.                *)
LEMMA PromiseNext == PipelineInv /\ [Next]_vars => [Promise!Next]_(Promise!vars)
    <1> SUFFICES ASSUME PipelineInv, [Next]_vars PROVE [Promise!Next]_(Promise!vars)
        OBVIOUS
    <1> USE DEF world, run, channel, peer, history, Select
    <1>1. CASE UNCHANGED vars
        BY <1>1, PromiseStutter DEF vars
    <1>2. ASSUME NEW s \in Source, Apply(s) PROVE Promise!Change
        BY <1>2 DEF Apply, Promise!Change
    <1>3. ASSUME \/ \E s \in Source : Notify(s)
                 \/ Stop \/ Shutdown \/ HearNotify \/ Tick \/ HubStep
                 \/ \E c \in Conn : Hangup(c)
          PROVE  UNCHANGED Promise!vars
        BY <1>3, PromiseStutter
        DEF Notify, Stop, Shutdown, HearNotify, Tick, HubStep, EncodeFirst, SendFirst,
            Send, Encode, EncodeFails, Offer, Deliver, Drop, Close, CloseClient,
            CloseDone, Hangup
    <1>4. ASSUME NEW c \in Conn, Accept(c) PROVE Promise!Arrive(c)
        <2>1. /\ handler[c].pc = "new" /\ handler'[c].pc = "registering"
              /\ \A d \in Conn \ {c} : handler'[d] = handler[d]
              /\ since' = [since EXCEPT ![c] = version] /\ UNCHANGED <<version, seen>>
            BY <1>4 DEF Accept, Goto, PipelineInv, ChannelInv, TypeOK
        <2>2. Status(c) = "away" /\ Status(c)' = "watching"
            BY <2>1 DEF Status
        <2>3. \A d \in Conn \ {c} : Status(d)' = Status(d)
            BY <2>1 DEF Status
        <2>4. [d \in Conn |-> Status(d)]' =
                    [[d \in Conn |-> Status(d)] EXCEPT ![c] = "watching"]
            BY <2>2, <2>3
        <2> QED
            BY <2>1, <2>2, <2>4 DEF Promise!Arrive, Status
    <1>5. ASSUME NEW c \in Conn, Write(c) PROVE Promise!Show(c, handler[c].payload)
        <2>1. /\ Writing(c) /\ handler'[c].pc = "serving"
              /\ \A d \in Conn \ {c} : handler'[d] = handler[d]
              /\ seen' = [seen EXCEPT ![c] = handler[c].payload]
              /\ UNCHANGED <<version, since>>
            BY <1>5 DEF Write, Goto, Writing, PipelineInv, ChannelInv, TypeOK
        <2>2. /\ handler[c].payload \in 0..version
              /\ since[c] \in 0..version
            BY <2>1 DEF Writing, PipelineInv, ChannelInv, TypeOK, Handlers, Versions
        <2>3. since[c] <= handler[c].payload /\ seen[c] <= handler[c].payload
            BY <2>1 DEF PipelineInv, FlowInv
        <2>4. version \in Nat
            BY DEF PipelineInv, ChannelInv, TypeOK
        <2>5. handler[c].payload \in since[c]..version
            BY <2>2, <2>3, <2>4
        <2>6. \A d \in Conn : Status(d)' = Status(d)
            BY <2>1 DEF Status, Writing
        <2>7. [d \in Conn |-> Status(d)]' = [d \in Conn |-> Status(d)]
            BY <2>6
        <2>8. Status(c) = "watching"
            BY <2>1 DEF Status, Writing
        <2> QED
            BY <2>1, <2>3, <2>5, <2>7, <2>8 DEF Promise!Show, Status
    <1>6. ASSUME NEW c \in Conn,
                 \/ Register(c) \/ Unregister(c) \/ GiveUp(c) \/ StopServing(c)
                 \/ ReceiveClosed(c) \/ WriteFails(c) \/ LeaveAfterDone(c)
          PROVE  [Promise!Next]_(Promise!vars)
        <2>1. PICK pc \in {"serving", "leaving", "gone"} :
                    handler' = [handler EXCEPT ![c] = [pc |-> pc]]
            BY <1>6 DEF Register, Unregister, GiveUp, StopServing, ReceiveClosed,
                        WriteFails, LeaveAfterDone, Goto
        <2>2. /\ handler[c].pc \notin {"new", "gone"}
              /\ UNCHANGED <<version, since, seen>>
            BY <1>6 DEF Register, Unregister, Close, GiveUp, StopServing, ReceiveClosed,
                        WriteFails, LeaveAfterDone
        <2>3. [pc |-> pc] \in Handlers
            BY <2>1 DEF Handlers
        <2> QED
            BY <2>1, <2>2, <2>3, PromiseLeave
    <1>7. ASSUME NEW c \in Conn, Receive(c) PROVE [Promise!Next]_(Promise!vars)
        <2>1. /\ handler[c].pc = "serving" /\ buf[c] # <<>> /\ buf[c] \in Seq(Versions)
              /\ handler' = [handler EXCEPT ![c] =
                        [pc |-> "writing", payload |-> Head(buf[c])]]
              /\ UNCHANGED <<version, since, seen>>
            BY <1>7 DEF Receive, PipelineInv, ChannelInv, TypeOK
        <2>2. [pc |-> "writing", payload |-> Head(buf[c])] \in Handlers
            BY <2>1, HeadTailProperties DEF Handlers
        <2> QED
            BY <2>1, <2>2, PromiseLeave
    <1>8. ASSUME NEW c \in Conn, Write(c) PROVE Promise!Next
        <2>1. handler[c].payload \in since[c]..version
            BY <1>5, <1>8 DEF Promise!Show
        <2> QED
            BY <1>5, <1>8, <2>1 DEF Promise!Next
    <1> QED
        BY <1>1, <1>2, <1>3, <1>4, <1>6, <1>7, <1>8 DEF Next, ServeWS, Promise!Next

(* Every execution of the hub is one of Broadcast, its liveness apart: no    *)
(* page ever goes back to an older world, nor sees one older than its        *)
(* connection.                                                               *)
THEOREM HubImplementsBroadcast == Spec => Promise!Safety
    <1>1. Init => PipelineInv
        BY ChannelInit, FlowInit DEF PipelineInv
    <1>2. PipelineInv /\ [Next]_vars => PipelineInv'
        BY ChannelNext, FlowNext DEF PipelineInv
    <1>3. Init => Promise!Init
        BY DEF Init, Promise!Init, Promise!Nothing
    <1>4. PipelineInv /\ [Next]_vars => [Promise!Next]_(Promise!vars)
        BY PromiseNext
    <1> QED
        BY <1>1, <1>2, <1>3, <1>4, PTL DEF Spec, Promise!Safety
-----------------------------------------------------------------------------
(* No page is forgotten. The newest snapshot on its way to a page is that of *)
(* the world as it is, or a goroutine, the channel of notifications or the   *)
(* hub still knows that there is one to encode, or that failed.              *)

Serving(c) == handler[c].pc \in {"serving", "writing"}

Greeting(c) == hub.pc = "greet" /\ hub.to = c

Newest(c) == IF buf[c] # <<>> THEN buf[c][Len(buf[c])]
             ELSE IF Writing(c) THEN handler[c].payload ELSE seen[c]

(* A snapshot of the latest version is still to be encoded.                  *)
Owed == \/ dirty \/ notify \/ hub.pc = "encode"
        \/ \E s \in Source : source[s] = "applied"

Fresh(v) == v = version \/ failed = version \/ Owed

News(c) == Greeting(c) \/ Fresh(IF Pending(c) THEN hub.payload ELSE Newest(c))

NewsInv == \A c \in clients : Serving(c) => News(c)

(* Steps that move no snapshot and forget nothing.                           *)
LEMMA NewsOthers ==
    ASSUME ChannelInv, NewsInv,
           UNCHANGED <<version, failed, buf, seen>>, Owed => Owed',
           NEW c \in clients, Serving(c), handler'[c] = handler[c],
           Greeting(c) => Greeting(c)',
           Pending(c)' <=> Pending(c), Pending(c) => hub'.payload = hub.payload
    PROVE  News(c)'
    <1>1. Newest(c)' = Newest(c)
        BY DEF Newest, Writing
    <1>2. \A v : Fresh(v) => Fresh(v)'
        BY DEF Fresh
    <1>3. News(c)
        BY DEF NewsInv
    <1> QED
        BY <1>1, <1>2, <1>3 DEF News

(* A step of one connection's handler, which moves a snapshot along or ends  *)
(* its service.                                                              *)
LEMMA NewsPeer ==
    ASSUME ChannelInv, NewsInv,
           NEW c \in Conn, Accept(c) \/ Hangup(c) \/ ServeWS(c)
    PROVE  NewsInv'
    <1> USE DEF world, run, channel, peer, history, Goto
    <1>1. UNCHANGED <<world, run, failed>>
        BY DEF Accept, Hangup, ServeWS, GiveUp, StopServing, Receive, ReceiveClosed,
               Write, WriteFails, LeaveAfterDone
    <1>2. \A d \in Conn \ {c} : handler'[d] = handler[d] /\ buf'[d] = buf[d] /\ seen'[d] = seen[d]
        BY DEF Accept, Hangup, ServeWS, GiveUp, StopServing, Receive, ReceiveClosed,
               Write, WriteFails, LeaveAfterDone, ChannelInv, TypeOK
    <1>3. Serving(c)' => Serving(c) /\ Newest(c)' = Newest(c)
        <2>1. CASE Hangup(c)
            BY <2>1 DEF Hangup, Serving, Newest, Writing
        <2>2. CASE Receive(c)
            <3>1. /\ buf[c] \in Seq(Versions) /\ buf[c] # <<>>
                  /\ buf'[c] = Tail(buf[c])
                  /\ handler[c].pc = "serving"
                  /\ handler'[c] = [pc |-> "writing", payload |-> Head(buf[c])]
                BY <2>2 DEF Receive, ChannelInv, TypeOK
            <3>2. /\ Len(buf[c]) \in Nat \ {0} /\ Head(buf[c]) = buf[c][1]
                  /\ Len(Tail(buf[c])) = Len(buf[c]) - 1
                  /\ \A i \in 1..Len(Tail(buf[c])) : Tail(buf[c])[i] = buf[c][i + 1]
                  /\ Tail(buf[c]) \in Seq(Versions)
                BY <3>1, HeadTailProperties, EmptySeq
            <3>3. CASE Tail(buf[c]) = <<>>
                <4>1. Len(Tail(buf[c])) = 0
                    BY <3>2, <3>3, EmptySeq
                <4>2. Len(buf[c]) = 1
                    BY <3>2, <4>1
                <4> QED
                    BY <3>1, <3>2, <3>3, <4>2 DEF Newest, Serving, Writing
            <3>4. CASE Tail(buf[c]) # <<>>
                <4>1. Len(Tail(buf[c])) \in 1..Len(Tail(buf[c]))
                    BY <3>2, <3>4, EmptySeq
                <4>2. Tail(buf[c])[Len(Tail(buf[c]))] = buf[c][Len(buf[c])]
                    BY <3>2, <4>1
                <4> QED
                    BY <3>1, <3>4, <4>2 DEF Newest, Serving
            <3> QED
                BY <3>3, <3>4
        <2>3. CASE Write(c)
            <3>1. /\ handler[c].pc = "writing" /\ handler'[c].pc = "serving"
                  /\ buf' = buf /\ seen'[c] = handler[c].payload
                BY <2>3 DEF Write, ChannelInv, TypeOK
            <3> QED
                BY <3>1 DEF Newest, Serving, Writing
        <2>4. CASE \/ Accept(c) \/ GiveUp(c) \/ StopServing(c) \/ ReceiveClosed(c)
                   \/ WriteFails(c) \/ LeaveAfterDone(c)
            <3>1. handler'[c].pc \in {"registering", "leaving", "gone"}
                BY <2>4 DEF Accept, GiveUp, StopServing, ReceiveClosed, WriteFails,
                            LeaveAfterDone, ChannelInv, TypeOK
            <3> QED
                BY <3>1 DEF Serving
        <2> QED
            BY <2>1, <2>2, <2>3, <2>4 DEF ServeWS
    <1>4. ASSUME NEW d \in clients', Serving(d)' PROVE News(d)'
        <2>1. d \in clients /\ d \in Conn
            BY <1>1, <1>4 DEF ChannelInv, TypeOK
        <2>2. Serving(d) /\ Newest(d)' = Newest(d)
            BY <1>2, <1>3, <1>4, <2>1 DEF Serving, Newest, Writing
        <2>3. News(d)
            BY <2>1, <2>2 DEF NewsInv
        <2>4. /\ Greeting(d)' <=> Greeting(d)
              /\ Pending(d)' <=> Pending(d)
              /\ hub' = hub /\ \A v : Fresh(v)' <=> Fresh(v)
            BY <1>1 DEF Greeting, Pending, Fresh, Owed
        <2> QED
            BY <2>2, <2>3, <2>4 DEF News
    <1> QED
        BY <1>4 DEF NewsInv

(* What leads the hub out of its select, and the goroutines that change the  *)
(* world, pass on that a snapshot is owed.                                   *)
LEMMA NewsSelect ==
    ASSUME ChannelInv, NewsInv,
           \/ \E s \in Source : Apply(s) \/ Notify(s)
           \/ Stop \/ Shutdown \/ HearNotify \/ Tick
           \/ \E c \in Conn : Register(c) \/ Unregister(c)
    PROVE  NewsInv'
    <1> USE DEF world, run, channel, peer, history, Select
    <1>1. ASSUME NEW s \in Source, Apply(s) PROVE NewsInv'
        <2>1. source'[s] = "applied"
            BY <1>1 DEF Apply, ChannelInv, TypeOK
        <2>2. Owed'
            BY <2>1 DEF Owed
        <2> QED
            BY <2>2 DEF NewsInv, News, Fresh
    <1>2. ASSUME NEW s \in Source, Notify(s) PROVE NewsInv'
        BY <1>2 DEF Notify, NewsInv, News, Fresh, Owed
    <1>3. CASE Stop
        BY <1>3, NewsOthers DEF Stop, NewsInv, Owed, Greeting, Pending, Serving
    <1>4. CASE Shutdown
        BY <1>4, NewsOthers DEF Shutdown, NewsInv, Owed, Greeting, Pending, Serving
    <1>5. CASE HearNotify
        BY <1>5 DEF HearNotify, NewsInv, News, Fresh, Owed
    <1>6. CASE Tick
        BY <1>6 DEF Tick, NewsInv, News, Fresh, Owed
    <1>7. ASSUME NEW c \in Conn, Register(c), NEW d \in clients', Serving(d)' PROVE News(d)'
        <2>1. CASE d = c
            BY <1>7, <2>1 DEF Register, News, Greeting
        <2>2. CASE d # c
            <3>1. /\ d \in clients /\ d \in Conn /\ handler'[d] = handler[d]
                  /\ hub.pc = "select" /\ hub'.pc = "greet"
                BY <1>7, <2>2 DEF Register, ChannelInv, TypeOK
            <3>2. /\ Greeting(d) => Greeting(d)'
                  /\ Pending(d)' <=> Pending(d)
                  /\ Pending(d) => hub'.payload = hub.payload
                BY <3>1 DEF Greeting, Pending
            <3>4. UNCHANGED <<version, failed, buf, seen>> /\ (Owed => Owed')
                BY <1>7, <3>1 DEF Register, Owed
            <3>3. Serving(d)
                BY <1>7, <3>1 DEF Serving
            <3> QED
                BY <3>1, <3>2, <3>3, <3>4, NewsOthers
        <2> QED
            BY <2>1, <2>2
    <1>8. ASSUME NEW c \in Conn, Unregister(c), NEW d \in clients', Serving(d)' PROVE News(d)'
        <2>1. d \in clients /\ d # c /\ d \in Conn
            BY <1>8 DEF Unregister, ChannelInv, TypeOK
        <2>2. handler'[d] = handler[d] /\ UNCHANGED <<version, failed, buf, seen, hub, world, dirty>>
            BY <1>8, <2>1 DEF Unregister, Close, ChannelInv, TypeOK
        <2>3. Owed => Owed'
            BY <2>2 DEF Owed
        <2>4. Serving(d) /\ (Greeting(d) => Greeting(d)') /\ (Pending(d)' <=> Pending(d))
            BY <1>8, <2>2 DEF Serving, Greeting, Pending
        <2> QED
            BY <2>1, <2>2, <2>3, <2>4, NewsOthers
    <1>9. \A c \in Conn : Register(c) \/ Unregister(c) => NewsInv'
        BY <1>7, <1>8 DEF NewsInv
    <1> QED
        BY <1>1, <1>2, <1>3, <1>4, <1>5, <1>6, <1>9

(* What is owed is encoded for every client, and every client gets it or is  *)
(* none any more.                                                            *)
LEMMA NewsHubStep ==
    ASSUME ChannelInv, NewsInv, HubStep PROVE NewsInv'
    <1> USE DEF world, run, channel, peer, history, Select
    <1>1. CASE EncodeFirst
        <2>1. ASSUME NEW d \in clients', Serving(d)' PROVE News(d)'
            <3>1. CASE d = hub.to
                BY <1>1, <3>1 DEF EncodeFirst, News, Pending, Fresh
            <3>2. CASE d # hub.to
                BY <1>1, <2>1, <3>2, NewsOthers
                DEF EncodeFirst, Owed, Greeting, Pending, Serving
            <3> QED
                BY <3>1, <3>2
        <2> QED
            BY <2>1 DEF NewsInv
    <1>2. CASE Encode
        BY <1>2 DEF Encode, NewsInv, News, Pending, Fresh
    <1>3. CASE EncodeFails
        BY <1>3 DEF EncodeFails, NewsInv, News, Fresh
    <1>4. ASSUME NEW c \in clients, Pending(c), Send(c, hub.payload), ~Pending(c)', ~Greeting(c),
                 \A d \in clients \ {c} : /\ Pending(d)' <=> Pending(d)
                                          /\ Pending(d) => hub'.payload = hub.payload
                                          /\ ~Greeting(d),
                 hub.pc # "encode",
                 UNCHANGED <<world, dirty, clients, handler>>
          PROVE  NewsInv'
        <2>1. Owed => Owed'
            BY <1>4 DEF Owed
        <2>2. \A v : Fresh(v) => Fresh(v)'
            BY <1>4, <2>1 DEF Fresh, Send
        <2>3. c \in Conn /\ buf[c] \in Seq(Versions) /\ buf'[c] = Append(buf[c], hub.payload)
            BY <1>4 DEF Send, ChannelInv, TypeOK
        <2>4. buf'[c] # <<>> /\ buf'[c][Len(buf'[c])] = hub.payload
            BY <2>3, AppendProperties
        <2>5. Newest(c)' = hub.payload
            BY <2>4 DEF Newest
        <2>6. ASSUME NEW d \in clients, Serving(d)' PROVE News(d)'
            <3>1. Serving(d) /\ News(d)
                BY <1>4, <2>6 DEF Serving, NewsInv
            <3>2. CASE d = c
                BY <1>4, <2>2, <2>5, <3>1, <3>2 DEF News
            <3>3. CASE d # c
                <4>1. Newest(d)' = Newest(d)
                    <5>1. buf'[d] = buf[d]
                        BY <1>4, <3>3 DEF Send, ChannelInv, TypeOK
                    <5>2. seen' = seen /\ handler' = handler
                        BY <1>4 DEF Send
                    <5> QED
                        BY <5>1, <5>2 DEF Newest, Writing
                <4> QED
                    BY <1>4, <2>2, <3>1, <3>3, <4>1 DEF News
            <3> QED
                BY <3>2, <3>3
        <2> QED
            BY <1>4, <2>6 DEF NewsInv
    <1>5. CASE SendFirst
        <2>1. hub.to \in clients /\ Pending(hub.to) /\ hub.pc = "first" /\ hub'.pc = "select"
            BY <1>5 DEF SendFirst, Pending, ChannelInv, ClientInv
        <2>2. \A d \in clients : ~Greeting(d) /\ ~Pending(d)' /\ (Pending(d) => d = hub.to)
            BY <2>1 DEF Greeting, Pending
        <2> QED
            BY <1>4, <1>5, <2>1, <2>2 DEF SendFirst
    <1>6. CASE Offer
        <2>1. PICK c \in hub.rest : Deliver(c) \/ Drop(c)
            BY <1>6 DEF Offer
        <2>2. c \in clients /\ hub.pc = "offer" /\ Pending(c)
            BY <1>6, <2>1 DEF Offer, Pending, ChannelInv, ClientInv
        <2>3. /\ Offered(c).pc \in {"select", "offer"}
              /\ Offered(c).pc = "offer" => /\ Offered(c).rest = hub.rest \ {c}
                                            /\ Offered(c).payload = hub.payload
              /\ Offered(c).pc = "select" => hub.rest = {c}
            BY <2>2 DEF Offered, ChannelInv, TypeOK, Hubs
        <2>4. hub' = Offered(c)
            BY <2>1 DEF Deliver, Drop
        <2>5. /\ ~Pending(c)'
              /\ \A d \in clients : ~Greeting(d)
              /\ \A d \in clients \ {c} : /\ Pending(d)' <=> Pending(d)
                                          /\ Pending(d) => hub'.payload = hub.payload
            BY <2>2, <2>3, <2>4 DEF Pending, Greeting
        <2>6. CASE Deliver(c)
            BY <1>4, <2>2, <2>5, <2>6 DEF Deliver
        <2>7. CASE Drop(c)
            <3>1. /\ clients' = clients \ {c}
                  /\ UNCHANGED <<version, failed, buf, seen, handler>>
                  /\ Owed => Owed'
                BY <2>2, <2>7 DEF Drop, Close, Owed
            <3>2. ASSUME NEW d \in clients', Serving(d)' PROVE News(d)'
                BY <2>5, <3>1, <3>2, NewsOthers DEF Serving
            <3> QED
                BY <3>2 DEF NewsInv
        <2> QED
            BY <2>1, <2>6, <2>7
    <1>7. ASSUME NEW c \in Conn, CloseClient(c) PROVE NewsInv'
        <2>1. hub.pc = "close" /\ hub' = [hub EXCEPT !.rest = @ \ {c}]
            BY <1>7 DEF CloseClient
        <2>2. hub'.pc = "close"
            BY <2>1 DEF ChannelInv, TypeOK, Hubs
        <2> QED
            BY <1>7, <2>1, <2>2, NewsOthers
            DEF CloseClient, Close, NewsInv, Owed, Greeting, Pending, Serving
    <1>8. CASE CloseDone
        BY <1>8, NewsOthers DEF CloseDone, NewsInv, Owed, Greeting, Pending, Serving
    <1> QED
        BY <1>1, <1>2, <1>3, <1>5, <1>6, <1>7, <1>8 DEF HubStep

(* A page with nothing on the way to it shows the latest world, unless that  *)
(* very version could not be encoded.                                        *)
THEOREM NobodyForgotten == Spec => []NoPageIsForgotten
    <1>1. Init => NewsInv
        BY DEF Init, NewsInv
    <1>2. ChannelInv /\ NewsInv /\ [Next]_vars => NewsInv'
        <2> SUFFICES ASSUME ChannelInv, NewsInv, [Next]_vars PROVE NewsInv'
            OBVIOUS
        <2>1. CASE UNCHANGED vars
            BY <2>1, NewsOthers
            DEF vars, world, run, channel, peer, history, NewsInv, Owed, Greeting, Pending,
                Serving
        <2>2. CASE Next
            BY <2>2, NewsPeer, NewsSelect, NewsHubStep DEF Next
        <2> QED
            BY <2>1, <2>2
    <1>3. NewsInv => NoPageIsForgotten
        <2> SUFFICES ASSUME NewsInv, NEW c \in Conn, Waits(c) PROVE UpToDate(c)
            BY DEF NoPageIsForgotten
        <2>1. c \in clients /\ Serving(c) /\ ~Greeting(c) /\ ~Pending(c)
            BY DEF Waits, Serving, Greeting, Pending, Select
        <2>2. Newest(c) = seen[c]
            BY DEF Waits, Newest, Writing
        <2>3. ~Owed
            BY DEF Waits, Owed, Select
        <2> QED
            BY <2>1, <2>2, <2>3 DEF NewsInv, News, Fresh, UpToDate
    <1> QED
        BY <1>1, <1>2, <1>3, ChannelCorrect, PTL DEF Spec
=============================================================================
