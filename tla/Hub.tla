--------------------------------- MODULE Hub ---------------------------------
(* The gateway's hub (internal/gateway/hub.go): one goroutine that owns the  *)
(* set of connected browsers, one ServeWS handler per connection, and the    *)
(* goroutines that change the world and notify the hub of it.                *)
(*                                                                           *)
(* A snapshot is the version of the world it was encoded from. An action is  *)
(* one channel operation, one lock of the world or one websocket write.      *)
EXTENDS Integers, Sequences, FiniteSets

CONSTANTS
    Conn,            \* websocket connections; a page that reconnects is another
    Source,          \* goroutines that change the world: consumers, dropStale
    SendBuffer,      \* capacity of conn.send, sendBuffer in the code
    MaxChanges,      \* bound: changes of the world
    MaxErrors        \* bound: snapshots that cannot be encoded

ASSUME HubAssumption == /\ SendBuffer \in Nat \ {0}
                        /\ {MaxChanges, MaxErrors} \subseteq Nat

VARIABLES
    version,         \* changes of the world so far
    source,          \* "idle", or "applied" when the change is not notified yet
    notify,          \* TRUE when the channel of capacity 1 is full
    dirty,           \* Run's local variables: dirty and clients,
    clients,         \* where it stands, and in the middle of what
    hub,
    buf, open,       \* conn.send: what it holds, and FALSE once it is closed
    handler,         \* ServeWS of each connection
    alive,           \* FALSE once the connection's ctx is cancelled
    stopping,        \* the process's ctx is cancelled
    errors,          \* how much of MaxErrors is spent
    \* history, read by no action:
    since, seen,     \* version at Accept; version of the last snapshot written
    panicked,        \* a send on, or a close of, a closed channel
    failed           \* version that could not be encoded last, or -1

world   == <<version, source, notify>>
run     == <<dirty, clients, hub>>
channel == <<buf, open>>
peer    == <<handler, alive>>
history == <<since, seen, panicked, failed>>
vars    == <<world, run, channel, peer, stopping, errors, history>>

Versions == 0..version
Select   == [pc |-> "select"]
Hubs == {Select}
   \cup [pc : {"greet"}, to : Conn]
   \cup [pc : {"first"}, to : Conn, payload : Versions]
   \cup [pc : {"encode"}]
   \cup [pc : {"offer"}, rest : SUBSET Conn, payload : Versions]
   \cup [pc : {"close"}, rest : SUBSET Conn]
   \cup [pc : {"done"}]
Handlers == [pc : {"new", "registering", "serving", "leaving", "gone"}]
       \cup [pc : {"writing"}, payload : Versions]

TypeOK ==
    /\ version \in Nat
    /\ source \in [Source -> {"idle", "applied"}]
    /\ {notify, dirty, stopping, panicked} \subseteq BOOLEAN
    /\ clients \subseteq Conn
    /\ hub \in Hubs
    /\ buf \in [Conn -> Seq(Versions)]
    /\ \A c \in Conn : Len(buf[c]) <= SendBuffer
    /\ open \in [Conn -> BOOLEAN]
    /\ handler \in [Conn -> Handlers]
    /\ alive \in [Conn -> BOOLEAN]
    /\ errors \in Nat
    /\ since \in [Conn -> Versions]
    /\ seen \in [Conn -> {-1} \cup Versions]
    /\ failed \in {-1} \cup Versions

Init ==
    /\ version = 0
    /\ source = [s \in Source |-> "idle"]
    /\ notify = FALSE
    /\ dirty = FALSE
    /\ clients = {}
    /\ hub = Select
    /\ buf = [c \in Conn |-> <<>>]
    /\ open = [c \in Conn |-> TRUE]
    /\ handler = [c \in Conn |-> [pc |-> "new"]]
    /\ alive = [c \in Conn |-> TRUE]
    /\ stopping = FALSE
    /\ errors = 0
    /\ since = [c \in Conn |-> 0]
    /\ seen = [c \in Conn |-> -1]
    /\ panicked = FALSE
    /\ failed = -1
-----------------------------------------------------------------------------
(* The goroutines that change the world (cmd/gateway): Apply..., then Notify. *)

Apply(s) ==
    /\ source[s] = "idle"
    /\ version < MaxChanges
    /\ version' = version + 1
    /\ source' = [source EXCEPT ![s] = "applied"]
    /\ UNCHANGED <<notify, run, channel, peer, stopping, errors, history>>

(* Mutant of Notify: the channel has no buffer, so only a hub that is        *)
(* waiting in its select hears it.                                           *)
NotifyUnbuffered(s) ==
    /\ source[s] = "applied"
    /\ source' = [source EXCEPT ![s] = "idle"]
    /\ dirty' = (dirty \/ hub = Select)
    /\ UNCHANGED <<version, notify, clients, hub, channel, peer, stopping, errors, history>>

Notify(s) ==
    /\ source[s] = "applied"
    /\ source' = [source EXCEPT ![s] = "idle"]
    /\ notify' = TRUE
    /\ UNCHANGED <<version, run, channel, peer, stopping, errors, history>>

(* An interrupt or SIGTERM.                                                  *)
Stop ==
    /\ ~stopping
    /\ stopping' = TRUE
    /\ UNCHANGED <<world, run, channel, peer, errors, history>>
-----------------------------------------------------------------------------
(* Hub.Run. The cases of its select; each leads to the steps further down.   *)

(* Mutant of Room: the channel is made one larger than sendBuffer.           *)
RoomForOneMore(c) == Len(buf[c]) <= SendBuffer

Room(c) == Len(buf[c]) < SendBuffer

(* c.send <- payload, possible when there is room; close(c.send).            *)
Send(c, payload) ==
    /\ buf' = [buf EXCEPT ![c] = Append(@, payload)]
    /\ panicked' = (panicked \/ ~open[c])
    /\ UNCHANGED <<open, since, seen, failed>>

Close(c) ==
    /\ open' = [open EXCEPT ![c] = FALSE]
    /\ panicked' = (panicked \/ ~open[c])
    /\ UNCHANGED <<buf, since, seen, failed>>

(* case <-ctx.Done().                                                        *)
Shutdown ==
    /\ hub = Select
    /\ stopping
    /\ hub' = [pc |-> "close", rest |-> clients]
    /\ UNCHANGED <<world, dirty, clients, channel, peer, stopping, errors, history>>

(* case c := <-h.register meets h.register <- c.                             *)
Register(c) ==
    /\ hub = Select
    /\ handler[c].pc = "registering"
    /\ handler' = [handler EXCEPT ![c] = [pc |-> "serving"]]
    /\ clients' = clients \cup {c}
    /\ hub' = [pc |-> "greet", to |-> c]
    /\ UNCHANGED <<world, dirty, channel, alive, stopping, errors, history>>

(* Mutant of Unregister: whether c is still a client is not looked up.       *)
UnregisterUnchecked(c) ==
    /\ hub = Select
    /\ handler[c].pc = "leaving"
    /\ handler' = [handler EXCEPT ![c] = [pc |-> "gone"]]
    /\ clients' = clients \ {c}
    /\ Close(c)
    /\ UNCHANGED <<world, dirty, hub, alive, stopping, errors>>

(* case c := <-h.unregister. A client that was too slow is no client any     *)
(* more and its channel already closed.                                      *)
Unregister(c) ==
    /\ hub = Select
    /\ handler[c].pc = "leaving"
    /\ handler' = [handler EXCEPT ![c] = [pc |-> "gone"]]
    /\ clients' = clients \ {c}
    /\ IF c \in clients THEN Close(c) ELSE UNCHANGED <<channel, history>>
    /\ UNCHANGED <<world, dirty, hub, alive, stopping, errors>>

(* case <-h.notify.                                                          *)
HearNotify ==
    /\ hub = Select
    /\ notify
    /\ notify' = FALSE
    /\ dirty' = TRUE
    /\ UNCHANGED <<version, source, clients, hub, channel, peer, stopping, errors, history>>

(* case <-ticker.C: a tick may be due whenever the hub is in its select.     *)
Tick ==
    /\ hub = Select
    /\ dirty
    /\ dirty' = FALSE
    /\ hub' = IF clients = {} THEN Select ELSE [pc |-> "encode"]
    /\ UNCHANGED <<world, clients, channel, peer, stopping, errors, history>>
-----------------------------------------------------------------------------
(* Hub.Run between two selects.                                              *)

EncodeFirst ==
    /\ hub.pc = "greet"
    /\ hub' = [pc |-> "first", to |-> hub.to, payload |-> version]
    /\ UNCHANGED <<world, dirty, clients, channel, peer, stopping, errors, history>>

(* The first snapshot is sent without a default: the hub waits for room.     *)
SendFirst ==
    /\ hub.pc = "first"
    /\ Room(hub.to)
    /\ Send(hub.to, hub.payload)
    /\ hub' = Select
    /\ UNCHANGED <<world, dirty, clients, peer, stopping, errors>>

Encode ==
    /\ hub.pc = "encode"
    /\ hub' = [pc |-> "offer", rest |-> clients, payload |-> version]
    /\ UNCHANGED <<world, dirty, clients, channel, peer, stopping, errors, history>>

(* Neither the new client nor, after a tick, anybody gets this snapshot.     *)
EncodeFails ==
    /\ hub.pc \in {"greet", "encode"}
    /\ errors < MaxErrors
    /\ errors' = errors + 1
    /\ failed' = version
    /\ hub' = Select
    /\ UNCHANGED <<world, dirty, clients, channel, peer, stopping, since, seen, panicked>>

Offered(c) == IF hub.rest = {c} THEN Select ELSE [hub EXCEPT !.rest = @ \ {c}]

(* Mutant of Drop: no default case, the hub waits for the slow client.       *)
DropNever(c) == FALSE /\ UNCHANGED vars

(* Mutant of Drop: the slow client only misses this snapshot.                *)
DropSnapshot(c) ==
    /\ ~Room(c)
    /\ hub' = Offered(c)
    /\ UNCHANGED <<world, dirty, clients, channel, peer, stopping, errors, history>>

(* The default case: c is too slow.                                          *)
Drop(c) ==
    /\ ~Room(c)
    /\ Close(c)
    /\ clients' = clients \ {c}
    /\ hub' = Offered(c)
    /\ UNCHANGED <<world, dirty, peer, stopping, errors>>

Deliver(c) ==
    /\ Room(c)
    /\ Send(c, hub.payload)
    /\ hub' = Offered(c)
    /\ UNCHANGED <<world, dirty, clients, peer, stopping, errors>>

Offer == hub.pc = "offer" /\ \E c \in hub.rest : Deliver(c) \/ Drop(c)

CloseClient(c) ==
    /\ hub.pc = "close"
    /\ c \in hub.rest
    /\ Close(c)
    /\ hub' = [hub EXCEPT !.rest = @ \ {c}]
    /\ UNCHANGED <<world, dirty, clients, peer, stopping, errors>>

(* Run returns: the deferred close(h.done).                                  *)
CloseDone ==
    /\ hub.pc = "close"
    /\ hub.rest = {}
    /\ hub' = [pc |-> "done"]
    /\ UNCHANGED <<world, dirty, clients, channel, peer, stopping, errors, history>>

Done == hub.pc = "done"
-----------------------------------------------------------------------------
(* ServeWS.                                                                  *)

Goto(c, pc) == handler' = [handler EXCEPT ![c] = [pc |-> pc]]

Accept(c) ==
    /\ handler[c].pc = "new"
    /\ Goto(c, "registering")
    /\ since' = [since EXCEPT ![c] = version]
    /\ UNCHANGED <<world, run, channel, alive, stopping, errors, seen, panicked, failed>>

(* The browser closes the connection, or it breaks: CloseRead cancels ctx.   *)
(* A handler that is leaving does not look at ctx any more.                  *)
Hangup(c) ==
    /\ handler[c].pc \in {"registering", "serving", "writing"}
    /\ alive[c]
    /\ alive' = [alive EXCEPT ![c] = FALSE]
    /\ UNCHANGED <<world, run, channel, handler, stopping, errors, history>>

(* case <-ctx.Done() or <-h.done of the first select: no unregister.         *)
GiveUp(c) ==
    /\ handler[c].pc = "registering"
    /\ ~alive[c] \/ Done
    /\ Goto(c, "gone")
    /\ UNCHANGED <<world, run, channel, alive, stopping, errors, history>>

(* case <-ctx.Done() of the loop; the deferred function is next.             *)
StopServing(c) ==
    /\ handler[c].pc = "serving"
    /\ ~alive[c]
    /\ Goto(c, "leaving")
    /\ UNCHANGED <<world, run, channel, alive, stopping, errors, history>>

Receive(c) ==
    /\ handler[c].pc = "serving"
    /\ buf[c] # <<>>
    /\ handler' = [handler EXCEPT ![c] = [pc |-> "writing", payload |-> Head(buf[c])]]
    /\ buf' = [buf EXCEPT ![c] = Tail(@)]
    /\ UNCHANGED <<world, run, open, alive, stopping, errors, history>>

(* !ok: a closed channel is read to its end first.                           *)
ReceiveClosed(c) ==
    /\ handler[c].pc = "serving"
    /\ buf[c] = <<>>
    /\ ~open[c]
    /\ Goto(c, "leaving")
    /\ UNCHANGED <<world, run, channel, alive, stopping, errors, history>>

Write(c) ==
    /\ handler[c].pc = "writing"
    /\ alive[c]
    /\ seen' = [seen EXCEPT ![c] = handler[c].payload]
    /\ Goto(c, "serving")
    /\ UNCHANGED <<world, run, channel, alive, stopping, errors, since, panicked, failed>>

(* An error, or writeTimeout: the browser has stopped reading.               *)
WriteFails(c) ==
    /\ handler[c].pc = "writing"
    /\ Goto(c, "leaving")
    /\ UNCHANGED <<world, run, channel, alive, stopping, errors, history>>

(* Mutant of LeaveAfterDone: the deferred function only offers h.unregister. *)
LeaveAfterDoneNever(c) == FALSE /\ UNCHANGED vars

(* case <-h.done of the deferred function.                                   *)
LeaveAfterDone(c) ==
    /\ handler[c].pc = "leaving"
    /\ Done
    /\ Goto(c, "gone")
    /\ UNCHANGED <<world, run, channel, alive, stopping, errors, history>>
-----------------------------------------------------------------------------
(* What the hub does once it has left its select, waiting for nobody.        *)
HubStep == \/ EncodeFirst \/ SendFirst \/ Encode \/ EncodeFails \/ Offer
           \/ \E c \in Conn : CloseClient(c)
           \/ CloseDone

ServeWS(c) == \/ GiveUp(c) \/ StopServing(c) \/ Receive(c) \/ ReceiveClosed(c)
              \/ Write(c) \/ WriteFails(c) \/ LeaveAfterDone(c)

Next ==
    \/ \E s \in Source : Apply(s) \/ Notify(s)
    \/ Stop \/ Shutdown \/ HearNotify \/ Tick \/ HubStep
    \/ \E c \in Conn : \/ Register(c) \/ Unregister(c)
                       \/ Accept(c) \/ Hangup(c) \/ ServeWS(c)

Spec == Init /\ [][Next]_vars

(* Goroutines that can proceed do; a write ends within writeTimeout. select  *)
(* chooses at random among the cases that are ready and the ticker never     *)
(* stops, so a case ready again and again is chosen: strong fairness. Nobody *)
(* has to connect, hang up, stop the process or change the world.            *)
Fairness ==
    /\ \A s \in Source : WF_vars(Notify(s))
    /\ WF_vars(HubStep)
    /\ SF_vars(Shutdown) /\ SF_vars(HearNotify) /\ SF_vars(Tick)
    /\ \A c \in Conn : /\ SF_vars(Register(c)) /\ SF_vars(Unregister(c))
                       /\ WF_vars(ServeWS(c))

LiveSpec == Spec /\ Fairness
-----------------------------------------------------------------------------
(* No channel is closed twice or sent to once it is closed, although the hub *)
(* drops slow clients, handlers unregister on their own and shutdown closes  *)
(* what is left: Go would panic and the gateway with it (hub.go 66, 77, 82,  *)
(* 102, 105).                                                                *)
NeverPanics == ~panicked

(* Away from its select the hub can always go on: no browser that has        *)
(* stopped reading, and no handler, ever holds it up (hub.go 77, 101).       *)
HubNeverBlocks == hub.pc \notin {"select", "done"} => ENABLED HubStep

(* A page that waits for news, with nothing on the way to it, sees the       *)
(* world as it is. Only a snapshot of this very version that could not be    *)
(* encoded excuses the hub: the next change repairs it (hub.go 71, 96).      *)
UpToDate(c) == seen[c] = version \/ failed = version

Waits(c) ==
    /\ c \in clients
    /\ handler[c].pc = "serving" /\ buf[c] = <<>>
    /\ hub = Select /\ ~dirty /\ ~notify
    /\ \A s \in Source : source[s] = "idle"

NoPageIsForgotten == \A c \in Conn : Waits(c) => UpToDate(c)

(* Every handler ends once its browser is gone or the gateway is stopping,   *)
(* whatever it was waiting for (hub.go 126-139).                             *)
HandlersEnd ==
    \A c \in Conn :
        (handler[c].pc # "new" /\ (~alive[c] \/ stopping)) ~> (handler[c].pc = "gone")

(* Every page keeps up with the world (Broadcast): notifications that are    *)
(* dropped because one is pending, ticks skipped for want of a client or a   *)
(* change, and snapshots that wait in a buffer cost it no change and never   *)
(* show it an older world than before.                                       *)
Promise == INSTANCE Broadcast WITH
    status <- [c \in Conn |-> CASE handler[c].pc = "new"  -> "away"
                                [] handler[c].pc = "gone" -> "gone"
                                [] OTHER -> "watching"]

ImplementsBroadcast == Promise!Spec
=============================================================================
