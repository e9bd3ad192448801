# Peril, in TLA+

A model of Peril, the multiplayer game in this repository whose players are
separate processes that only share a RabbitMQ broker. The modules here describe
the players' processes and the queues between them, a process and the goroutine
that keeps it connected, the way of a game log into the servers' file and onto
the web, the gateway's projection of the game and its hub that streams the world
to browsers. TLC checks them on small instances and TLAPS proves the most
important results for every size.

Contents: the system and what is hard about it; the modules and how they
correspond to the code; the runs; the bounds; fairness; the proofs; the
findings; what is not modelled; the plan.

## The system

| component | code | state | operations |
|---|---|---|---|
| game rules and state | `internal/gamelogic` | per player: units by id, Paused | `CommandSpawn`, `CommandMove`, `HandleMove`, `HandleWar`, `ResolveWar`, `HandlePause`, each taking the lock of `GameState` one or more times |
| client process | `cmd/client` | the REPL's current command; one goroutine per queue in its handler; a heartbeat ticker | `spawn`, `move`, `status`, `spam`, `quit`; `handlerPause`, `handlerMove`, `handlerWar`, `publishGameLog`; heartbeats |
| queues | `internal/pubsub/pubsub.go` | exclusive auto-delete queues of each client and of the gateway, one durable queue `game_logs`, prefetch, unacknowledged deliveries | declare and bind, publish, consume; Ack, Nack with requeue, Nack without (dead letter) |
| supervision | `internal/pubsub/client.go` | connection, publishing channel, list of starters | `Dial`, `Supervise`, `redial`, `subscribe`, `Close` |
| topology | `internal/topology`, `internal/routing` | exchanges, `peril_dlx`, `peril_dlq` | `Declare`; routing keys |
| server | `cmd/server`, `gamelogic/logs.go` | the log file | `pause`, `resume`, consuming game logs into the file |
| projection | `internal/world`, `cmd/gateway` | players with last army and `lastSeen`; the last log entries | `ApplyPlayerState`, `ApplyMove`, `ApplyWar`, `ApplyLog`, `DropStale`, `Snapshot` |
| hub | `internal/gateway` | registered browsers, a pending notification, dirty, one buffered channel per browser | `Run`, `Notify`, `ServeWS`, `GET /api/state` |
| web client | `web/src` | last snapshot, colour slots, the retry count | reconnect with backoff, `assignSlots`, rendering |
| configuration, terminal, scripts | `internal/config`, `gamelogic/input.go`, `gamelogic.go`, `*.sh`, `Dockerfile` | none | |

**How they interact.** Nobody owns the game. A client that has moved publishes an
`ArmyMove` with its whole army to all clients; a client whose own army overlaps
with it publishes a `RecognitionOfWar` with both armies to all clients; each of
the two parties that receives it decides the war for itself and removes its own
units, and the attacker publishes a report to the servers' durable queue. The
server's `pause` and `resume` go to every client's pause queue. The gateway
listens to all of it, and to the clients' heartbeats, keeps its projection and
notifies the hub, which sends snapshots to the browsers. Inside a process
goroutines share `GameState`, `World`, the `Client` and channels.

**What is hard.**

- *Interleaving.* The lock of `GameState` is released between the steps of one
  command or handler: between counting units and adding one, between reading a
  unit and writing it back, between `isPaused` and the publish, between noticing
  an overlap and taking the snapshot that goes into the recognition.
- *Stale data.* A war is decided from two snapshots of the past and applied to
  the army of now. Two moves can cross each other on their way.
- *Failure.* A publish can fail after the army has moved, or make a handler hand
  its message back to be handled again against another army. A lost connection
  takes the queues with it; goroutines of the old connection finish their
  handlers next to the new ones; a starter that fails leaves a queue undeclared;
  the library, the broker and the process learn of a loss at different times.
  A restarted process has an empty army, and messages about the old one arrive.
- *Time.* Heartbeats, a time to live and a sweep that know nothing of each other
  decide who is on the map, from messages that arrive late.
- *Coalescing.* The hub drops notifications when one is pending and skips ticks;
  it drops slow browsers, which unregister on their own later; all of it while
  the gateway may be stopping.

What makes each component correct:

- clients: no two armies stand in one place with nobody having noticed; a war
  clears its place; it is reported once; messages do not circulate for ever;
  commands of the server get through; ids of units are not reused.
- hub: it never touches a closed channel, never waits for a browser, never loses
  the last change, never shows an older world; every handler ends.
- supervision: a queue has one consumer per connection, a shutdown leaves no
  goroutine behind and ends, a lost connection is replaced.
- game log: none that was accepted is lost, a line repeats only where a delivery
  was lost, the web shows the newest logs in order, but for what an old consumer
  still has in hand at a reconnect.
- projection: who is connected is shown, who left is dropped, and the map settles
  on the true armies however three queues interleave.

## Modules

| module | what it is |
|---|---|
| `Army` | pure part: armies as functions from unit ids to units, the outcome of a war (`ResolveWar`, `PowerLevel`, `Removed`) |
| `GameClients` | the clients, the queues between them, the server's pause; extends `Army` |
| `WarReport` | abstract: what becomes of the report of one war; implemented by `GameClients` |
| `Session` | abstract: a process seen from outside, running, connected, consuming |
| `Supervisor` | boot, shutdown and `Supervise` of one process; implements `Session` |
| `Delivery` | abstract: at-least-once delivery, of one message |
| `GameLog` | the durable queue, the servers and the file; the gateway's copy and the web's log; implements `Delivery` |
| `Gateway` | `World` with its consumers, heartbeats and `dropStale`, in time |
| `Broadcast` | abstract: what a browser is promised |
| `Hub` | the hub; implements `Broadcast` |
| `MCGameClients`, `MCGateway`, `MCHub`, `MCGameLog` | instances for TLC: symmetry sets, and for `MCGameLog` a smaller product of its two halves |
| `GameClientsProofs`, `MeetingProofs`, `WarProofs`, `CommandProofs`, `HubProofs`, `SupervisorProofs`, `GameLogProofs`, `GatewayProofs` | theorems; `MeetingProofs` and `CommandProofs` extend `GameClientsProofs`, `WarProofs` extends `MeetingProofs` |

`Session` says how `GameClients` abstracts a process: its session actions are
those of `Session`, by name and guard, with what they do to the game, so there
is nothing to check on that side. What needs checking is that a process with
its goroutines can do nothing else, and that is `Supervisor`'s `ImplementsSession`.

The abstract modules have two variables each, but for the four of `Broadcast`, and
say what is promised without the mechanism. `WarReport` has no players, retries
or queues, only the stage of a war's report: `pending` in the attacker's queue,
`fought` and in the hands of one of its handlers, `over`. `Delivery` has no servers:
a log is `missed`, `kept` by the broker or `gone` from it, and how often it has been
written. Their instances take the number of a war or a log as a parameter, so
that each is implemented many times over by one model.

Operators named as mutants, each placed before the definition it is a wrong
version of, are what `PROJECT.json` puts in place of that definition to see the
property named there fail.

### GameClients

One module for clients, queues and the server's pause, because what is hard lies
between them. An action is one critical section of `GameState`, one publish, or
one decision of the environment.

| model | code |
|---|---|
| `army`, `paused` | `GameState.Player.Units`, `GameState.Paused` |
| `repl[p]` | where the REPL stands: `idle`; `spawn` (id computed, unit not added); `get`, `update` (per unit of a move); `snap`, `publish` |
| `mover[p]`, `warrior[p]`, `pauser[p]` | handlers of moves, wars and orders that have not returned. More than one only after a lost connection, and then one of them `live` |
| `phase[p]` | `out` (no process), `up`, `down` (connection lost) |
| `subs[p]` | the queues that are declared and bound |
| `moveq`, `warq`, `pauseq` | what has been routed and not yet handed to a handler, prefetched deliveries included |
| `wars` | every recognition published; `warq` holds positions in it, so that one is told from another with the same contents |
| `gameLogs`, `dlq`, `game` | reports published; how many messages were dead-lettered; the last order the server published, numbered so that two like orders differ |

Actions: `Join`, `Exit`, `Disconnect`, `Redial`, `Resubscribe` (sessions);
`SpawnId`, `AddUnit`; `BeginMove`, `GetUnit`, `UpdateUnit`, `SnapMove`,
`PublishMove`, `FailToPublishMove`; `RejectOwnMove`, `IgnoreMove`, `NoticeMove`,
`Recognise`, `DeclareWar`, `FailToDeclareWar`; `IgnoreWar`, `RejectWar`,
`FightWar`, `PublishGameLog`, `FailToPublishGameLog`; `ServerPause`,
`FailToPublishPause`, `TakePause`, `ApplyPause`. `PROJECT.json` gives the lines of each.

Choices worth knowing:

- *The contested place.* `getOverlappingLocation` walks two Go maps; which common
  place it returns is a choice of `FightWar`, made anew by each party and by each
  retry.
- *Requeueing.* A message handed back goes to the front at the broker but behind
  what was already sent to this consumer: any position in the queue.
- *A lost connection.* Deliveries already received stay readable and handlers go
  on, but acknowledgements are void: until `Redial` the old queue can still be
  consumed, after it what was left is lost. A connection lost in the middle of
  a subscription is covered by `Resubscribe` being optional.
- *Taking and handling.* A consumer takes a delivery and then handles it. For
  orders these are two actions, since the one critical section of a handler is
  all it does and another consumer may come between. For moves and wars taking is
  one action with the handler's first critical section; what follows (the second
  snapshot, the publishes, the answer) is apart. Left out is a delivery that an
  old consumer has taken and not begun to handle when the new one begins: its
  first critical section counts as before the reconnect.
- *Dead letters.* A rejection over a connection that is gone reaches nobody, and
  counts as none.
- *Joining* is one action. Before its three subscriptions are complete a client
  has no units, so its handlers change nothing.
- Ids a player types are arbitrary: unknown and repeated ones included.

History variables are read by no action and say what properties need:
`quiet` and `deaf` (which pairs were told of each other and who missed
something), `met` (wars delivered to both parties), `lost` (a war took units),
`heeded` (the newest order applied), `missed` (the last order was missed, or an
older one applied after it), `leaked` (moves published while paused),
`verdicts` (what each party decided).

### Hub and Broadcast

A snapshot is the number of changes the world had when it was encoded.

| model | code |
|---|---|
| `version`, `source` | `World`; the consumers and `dropStale`, between changing it and calling `Notify` |
| `notify` | the channel of capacity 1 |
| `dirty`, `clients`, `hub` | locals of `Run`, and what it is in the middle of |
| `buf`, `open` | `conn.send` |
| `handler`, `alive` | `ServeWS` and its `ctx` |
| `stopping` | the process's `ctx` |
| `since`, `seen`, `panicked`, `failed` | history: version when connected, last version written, a closed channel was touched, the version that could not be encoded |

Each case of the hub's `select` is an action (`Shutdown`, `Register`,
`Unregister`, `HearNotify`, `Tick`), so are the steps between two selects
(`EncodeFirst`, `SendFirst`, `Encode`, `EncodeFails`, `Deliver`, `Drop`,
`CloseClient`, `CloseDone`), those of a handler, and of the browser (`Hangup`).
A rendezvous on an unbuffered channel is one action of both sides. The world
may change between any two of them.

`Broadcast` has four variables: the version, whether a page is away, watching or
gone, the version it connected at and the last it has seen. `Show` may only go
forward, and a page that lags behind catches up or leaves (weak fairness of
`Settle`). The mapping takes `handler` to the status of the page.

### Supervisor and Session

One process, client, server or gateway: they share `run()`'s shape. Connections
are numbered, across restarts too. Its `WaitGroup` counts the consumers and the
goroutine of `Supervise`, which share the connection. Left out are goroutines that
are added once during the boot and end when the context does: a client's
heartbeats, the gateway's hub and sweep, and its HTTP server, whose `Shutdown`
gives up after `shutdownTimeout`.

| model | code |
|---|---|
| `main` | where `run()` is: `out`; `welcome` (the name prompt) or `declare` (the topology); `subscribe`; `ready`; `run`; `wait` (`wg.Wait`) |
| `sup` | the goroutine of `Supervise`: `notify` (about to call `NotifyClose`), `listen`, `redial`, `redeclare`, `start` with the starters left, `gone` |
| `stopped`, `wg` | the context is done; the counter of the `WaitGroup` |
| `conn`, `broken`, `closed` | `c.conn`; connections that carry nothing any more; those of them the amqp library knows of |
| `starters`, `consumers` | `c.subs`; one goroutine per starter and connection |
| `owner` | the broker's: which connection holds each exclusive queue |

A connection breaks (`Break`), the library notices (`LibraryNotices`) and the
broker notices (`BrokerNotices`) in any order; in between a declaration over the
new connection finds the queue locked. `Start` and `StartFails` are the body of
`startConsumer`, used at boot (`Subscribe`, `SubscribeFails`) and after a redial
(`Restart`, `RestartFails`). Retry delays are left out: a failed attempt changes
nothing else. The mapping to `Session` shows a process from the moment it has
all its queues until it is told to stop.

### GameLog

Logs are numbers in the order the exchange gets them. `ready` is the durable
queue, `buffer[s]` what a server has been sent, up to `Prefetch`, `writer[s]` its
handler between taking a delivery, `WriteLog` and the answer; as in `GameClients`
a handler of an old connection may go on next to a new one. What the broker
waits for (`Unacked`) goes back to its old place when a connection or process
ends. The gateway has its own transient queue of the same logs (`webq`), takes from
it (`TakeWebLog`) and appends (`ApplyLog`) in two actions, with handlers (`shower`) of
an old connection next to one of the new, and keeps the newest `LogLimit` (`webLog`).

History: `accepted` (published when the queue existed: a publish is neither
mandatory nor confirmed, so logs before the first server are gone), `lapsed`
(handlers whose delivery was lost under them), `heard` (handled by this gateway),
`late` (handled by its old consumer after a reconnect).

### Gateway

Time is in ticks, of which every interval is a whole number; steps between two
ticks take no time, and `Tick` waits for what is due: a heartbeat, a sweep, a
message that has been under way for `Delay`. That is the one assumption about
speed: a message is handled within `Delay`.

| model | code |
|---|---|
| `client`, `army`, `beat` | a player's process and connection, its units, the heartbeat's ticker |
| `stateq`, `moveq`, `warq` | the gateway's three transient queues |
| `players`, `sweep` | `World.players` with the age of `lastSeen`; the ticker of `dropStale` |
| `linked`, `calm` | how long both have been connected; how long nothing has changed the army, named the player in a war or ended its process |

An army is one of a few values; what a war leaves in the projection of somebody
it beat is `Guess`, since the gateway resolves the war for itself. A war may name
anybody with any army at any time: recognitions carry armies of earlier moves.
A snapshot published right after a change may be of either side of it.

## Runs

| run | instance | states | shows |
|---|---|---|---|
| `clients_war` | 3 players, 2 places, 3 spawns, 2 moves | 970 000 | `TypeOK`; `MeetingsAreNoticed`: two armies in one place of which they were told, moves handled, have had a war declared; `WarsClearTheField`: whoever did not win has left when it has handled the war; `SpawnsAreFresh`; `DeadLettersAreAccounted` |
| `clients_sessions` | 2 players, 2 spawns, 2 moves; one connection lost or process ended, one failed publish | 270 000 | `NoStandoff`: with everything handled no shared place is left, except one a war had a second place to choose; `OneLogPerWar`; `EachWarIsReportedByRule`: the life of each war is one of `WarReport` |
| `clients_pause` | 1 player, 3 orders, 2 connections lost or processes ended, one failed publish, 1 spawn, 2 moves | 320 000 | `AtMostOneMoveSlips`; `PauseReaches`: a client with nothing left to handle agrees with the server unless it missed the last order or its old consumer obeyed an older one after it |
| `clients_live` | 2 players, moves of two ids, 1 failed publish, fair goroutines | 82 000 | `ClientsComeToRest`, `EveryWarIsLogged` |
| `hub_safety` | 2 browsers, buffer of 2, 2 changes, 1 failed encoding | 2.1 million | `TypeOK`, `NeverPanics`, `HubNeverBlocks`; `NoPageIsForgotten`: a page with nothing on the way to it is up to date, or this very version could not be encoded |
| `hub_live` | 1 browser, buffer of 1, 2 goroutines, 3 changes, fair | 48 000 | `HandlersEnd`, `ImplementsBroadcast` |
| `supervisor` | 2 queues, 2 starts, 3 losses or crashes, 1 refusal, fair | 94 000 | `TypeOK`, `OneConsumerPerQueue`, `NothingLeftBehind`, `ImplementsSession`, `ShutdownEnds`, `LossIsRepaired` |
| `game_log` | 2 servers with 2 logs, prefetch 2, and the gateway with 4 logs, limit 2; 2 faults, fair | 81 000 | `TypeOK`; `NoLogIsLost`; `OnlyFaultsRepeatLines`; `WebLogIsNewest`; `EachLogIsDelivered`: the life of each log is one of `Delivery`; `EveryLogIsWritten` as long as some server stays connected |
| `gateway` | 1 player, 2 armies, heartbeat 2, TTL 3, delay 1, queues of 2 | 2.8 million | `TypeOK`; `PlayersAreShown`, `GhostsAreDropped`, `MapSettles`, each at its exact deadline |
| `pause_latecomer`, `spawn_overwrites`, `supervisor_gives_up` | | | the findings below |

`MeetingsAreNoticed` is worth a word, since nothing in the code says it. Spawning
is not announced, clients compare a move with their own army only, and they
ignore each other's position otherwise; yet the last of two players to announce
its army, with both listening, shows up in the other's handler, because an
`ArmyMove` carries the whole army and is copied after the move. The property
leaves out pairs where nobody has announced anything since the later arrival
(`quiet`: a spawn, a move whose publish failed or that ended at an unknown id)
and players who missed messages and have not announced since (`deaf`). `Told` is
the name for neither being the case.

`NoStandoff` follows from it and `WarsClearTheField`, and is checked where
messages are lost and handled again. Its exception is real: a war over two
places settles one.

`PauseReaches` names one way for a client to differ from the server that is not
a lost message: after a reconnect the old consumer may still have a `pause` in hand
while the new one obeys the `resume` that came after it. Nothing in a command
says which is newer, so the client stays paused until the next order (`missed`).
That this is the only way, with however many old consumers, is what is checked
and proved; likewise for the order of the logs on the web.

**Bounds.** `MaxUnits` unit ids per player (a spawn that would exceed them is not
typed), `MaxBatch` ids per move command, `MaxSpawns` and `MaxMoves` commands over
all players, `MaxPauses`, `MaxLosses` (connections and processes), `MaxFailures`
(publishes); `MaxChanges` and `MaxErrors` in the hub; `MaxStarts`, `MaxLosses`,
`MaxFailures` in `Supervisor`; `MaxLogs` and `MaxFaults` in `GameLog`; `MaxQueue` in
`Gateway`, a full queue only delaying a publish or a `Join`.

- `GameClients`: two moves suffice for crossing announcements and a war that is
  fought while another move is under way; three players for a bystander who
  receives everything and a place contested by three; one failed publish repeats
  a handler, one loss gives a client that was deaf and has come back. Orders
  concern each client by itself, so one is enough for them: three orders and two
  losses let two old consumers each have an older order in hand than the newest.
- `Hub`: two changes after the first snapshot fill a buffer of two and drop its
  browser; one failed encoding leaves a page behind, another change repairs it.
  `hub_live` has one browser: others can only delay the hub, and
  `HubNeverBlocks` shows with two that they do not stop it.
- `Supervisor`: three losses hit a boot, a redial that was already repairing one,
  and the starters after that; two starts let a new process meet the queues of
  the old one; two starters give a partial restart.
- `GameLog`: two faults lose the delivery of a handler and then that of its
  successor, or leave two old consumers at the gateway; two logs with prefetch 2
  put one behind the other in a buffer; four logs overflow a web log of two,
  with one that comes late among them. The two servers are both needed for a log
  that changes hands. Servers and gateway share nothing but the exchange, so
  `MCGameLog` runs them at different times (`Apart`) and the servers for the first
  `ServerLogs` logs only: TLC visits the sum of the two state spaces, not the
  product. The proofs have all of them at once.
- `Gateway`: players meet only in `ApplyWar`, whose two halves are independent, so
  one player is enough (the proofs have any number). The three promises are
  tight: with `Settled` or `Dropped` one tick shorter TLC finds a counterexample.

All configurations turn deadlock checking off: players may stop typing, browsers
stay away, and the bounds get used up. That nobody is stuck before is what
`ClientsComeToRest`, `HubNeverBlocks`, `HandlersEnd`, `ShutdownEnds` and
`EveryLogIsWritten` say.

**Fairness.** `GameClients`: a goroutine with something to do does it (weak
fairness of the REPL's command under way and of each consumer). Nobody has to
type, join, leave, reconnect or pause; `Resubscribe` is not fair, since the code
logs a failing starter and goes on. `clients_live` has no lost connection, after
which nothing is promised. `Hub`: goroutines that can proceed do, and a write ends
because of `writeTimeout`. The cases of its `select` are strongly fair: Go picks
at random among the ready ones, so a case that is ready again and again is
picked. Browsers, changes and the stop of the gateway are not fair.
`Supervisor`: the boot, the goroutine of `Supervise` and the consumers go on, a
process that was told to stop leaves its REPL, and both the library and the
broker notice a dead connection (they exchange heartbeats); nobody has to start
the process, answer the name prompt or quit. `GameLog`: the broker sends, handlers
end, and a `WriteLog` that is tried again and again works some time (strong
fairness: each failure takes it from the handler and gives it back). `Gateway` has
deadlines in place of fairness.

## Proofs

`GameClientsProofs!TypeCorrect`: `Spec => []TypeOK`, by one lemma per action.

`MeetingProofs!MeetingsNoticed`: `Spec => []MeetingsAreNoticed`, for any number of
players, places, units, losses and failures. The property speaks of clients with
no move left to handle and says nothing before, so it is not inductive. What is:

- `CoverInv`: two players who share a place they were told of either have had
  a war delivered about it, or one of them still has the other's announcement
  in its queue or in a live handler;
- `PublishInv`: an army about to be announced shows every place its player is in
  (after the copy only wars change it, and they only remove);
- `HandlerInv`: a recognition about to be published is between the sender of the
  move and the handler's player;
- `LinkInv`: without a connection there are no queues, and a client that is not
  deaf has both.

A requeued move keeps `CoverInv` because its delivery is live; a dead delivery
belongs to a client that is deaf. A war over a place ends the obligation only
until one of the two comes there again (`Arrive`).

`WarProofs!WarsClear`: `Spec => []WarsClearTheField`. The property is inductive
together with `MetInv`: everybody in a war both parties received is subscribed to
wars. So no party can be redialling, which is the one step that empties a queue
and keeps the army. A delivery is taken only when the war is handled, the place
fought over is then the only one there is, and whoever is `Beaten` is among those
`HandleWar` removes; a failed game log puts the message back and removes none.

`WarProofs!NoStandoffs`: `Spec => []NoStandoff`, from `MeetingsNoticed` and `WarInv`
without induction: there is a war about the place, somebody is beaten in it, and
that party has nothing left in its queue.

`WarProofs!OneLogEachWar`: `Spec => []OneLogPerWar`, by `TokenInv`. A war is a token: the
copies of it in its attacker's queue, the attacker's handlers that have yet to
report it and its published logs are together at most one. A copy comes back to
the queue only for the handler that gives it up, and a queue that is lost with
its connection leaves the handler as the only token. `ReportInv` and `LogsInv` say
that only attackers report, and what they decided.

`WarProofs!WarImplementsReport`: `Spec => Fate(n)!Spec`, the abstract `WarReport`, for
every war, and `EachWarByRule` for all of them at once. More than `OneLogPerWar`: the
order of a report's life, and that it ends. `TokenOne` makes a token be in one
place, hence a stage a function of the state (`StageIs`); `ElementsChange` follows
it through the queues; `NothingComesBack` is the heart: a war that is neither in the
attacker's queue nor with its handlers returns to neither, since only a handler
requeues, and what is queued there otherwise is a new war. So a report that was
lost is never made up for.

`WarProofs!DeadLettersAccounted`: `Spec => []DeadLettersAreAccounted`. A count of letters
is not inductive, since it forgets what can still become one. `OwnInv` counts with
the dead moves the copies of own moves in queues and the moves being announced:
together they are no more than the moves made. `HopelessInv` counts with the dead
wars the copies of wars without a place at their parties: no more than two for each
such war. Both need that nothing of the kind is ever requeued (`ForeignInv`: a client
never handles its own move; `ReportInv`: a war being reported has a place). The
section *Counting messages* has the lemmas on how copies in all queues together
grow and shrink (`CopiesTail`, `CopiesInsert`, `CopiesDeliver`, `CopiesEmpty`).

`WarProofs!OnlyPlacesDivide`: two verdicts about the same war and the same place are
the same, however often it is fought again and whatever the parties' armies are
by then. Parties may differ only over a war with several places.

`CommandProofs!OneMoveSlips`: `Spec => []AtMostOneMoveSlips`, by `LeakInv`: a move that
is under way while the client is paused is one that began before, so none has
been published since the pause.

`CommandProofs!PauseArrives`: `Spec => []PauseReaches`, by `PauseInv`: the server's last
order waits in the client's queue, is in a handler's hands, or is the newest one
obeyed and in force, unless the client missed it; all other orders in circulation
are older. So an order that is applied after a newer one can only be an old
consumer's, and is noted as such.

`CommandProofs!SpawnsFresh`: `Spec => []SpawnsAreFresh`, by `IdsInv`: until a player loses a
unit its ids are exactly 1..k, the id a spawn has read is k + 1, and a move only
writes units that exist. A spawn under way is the only command of its player, so
nothing changes k between its two critical sections.

`HubProofs!TypeCorrect`, `HubNeverPanics`, `FirstSendNeverWaits`: by `ChannelInv`.
Until shutdown the channels of the hub's clients are open, what it is about to
send to or close is one of its clients, and a handler that has not registered
has a fresh, empty channel. `HubGoesOn` adds `SomebodyInv` (there is a client to
encode for and one left to offer to): the guards of one of the hub's steps hold
whenever it is away from its select. It is `HubNeverBlocks` with the guards written
out, since `ENABLED` is out of the prover's reach.

`HubProofs!NobodyForgotten`: `Spec => []NoPageIsForgotten`, by `NewsInv`: the newest
snapshot on its way to a client (in the hub's hands, the buffer, the handler, or
on the page) is of the latest version, or a goroutine, the notification, `dirty`
or the hub still knows that one is owed, or it failed.

`HubProofs!HubImplementsBroadcast`: `Spec => Promise!Safety`, every step of `Hub`
is one of `Broadcast` or a stutter. The invariant, `FlowInv`, is that versions
only decrease along the pipeline from the hub's hands through the buffer and the
handler to the page, and none is older than the connection.

`SupervisorProofs`, for any number of queues, starts, losses and failures:
`OneConsumer`, `NothingLeft` and `SupervisorImplementsSession` from one invariant of
six parts. `CountInv`: the `WaitGroup` is the number of goroutines there are, so
zero means none, although starters add to it while `run()` waits. `ConnInv`: each
redial answers a loss, so connections are bounded. `StarterInv`: `c.subs` are the
queues in order and grow only at boot. `RestartInv`: a starter yet to run has no
goroutine on the new connection, which is why none doubles. `BootInv`: a
consumer that ended during the boot met a signal or a lost connection, so that
the last `Subscribe` maps to `Join` with every queue. `OnlyClosedIsGivenUp` is the other
side of the finding `supervisor_gives_up`: without a shutdown the goroutine has
returned only if the library has shut the connection in use; no refused
declaration and no failing starter ends it.

`GameLogProofs`, for any number of servers, logs and faults: `NothingIsLost`, by
`WroteInv` (a handler that is to acknowledge has written the line), and
`WebIsNewest`. `QueueInv`: the gateway's queue is in order and newer than what it has
heard or has in hand. `HandInv`: no two handlers have the same log or one that was
heard, and the new consumer's is newer than those of old ones and than all heard.
So only a log from an old consumer can be appended out of order, and it is `late`.

`GameLogProofs!OnlyFaultsRepeat`: `Spec => []OnlyFaultsRepeatLines`. `PlaceInv`: the broker
has a log in one place, the queue or one server, and there buffered once or with its
one live handler. `CreditInv`: the lines of a log, the handlers that will write it
although their delivery has lapsed (`Late`), and one more if the log is still to be
written by somebody who will answer (`Due`) are at most one more than its lapsed
deliveries. A fault makes a handler late, or a log that is already written due
again; the delivery has lapsed in either case.

`GameLogProofs!LogImplementsDelivery`: `Spec => Fate(n)!Spec`, the abstract `Delivery`, for
every log, and `EachLogByRule` for all of them at once. `LostInv` gives that the broker
gives up only what is written (`Settle`). That it never has the log again is
`GivenUpStays`, proved with `PlaceInv`: whatever is requeued or taken back was
kept just before, and a handler of a lost connection returns nothing. `AcceptInv`,
that servers only have to do with logs that reached the queue, keeps logs from
before the queue out of the file.

`GatewayProofs`, for any number of players and any configuration that satisfies
`GatewayAssumption`: `Shows` by `BeatInv` (each stretch of a heartbeat interval has a
heartbeat that is on the map or in the queue; `HeartbeatInterval + Delay <= TTL`
keeps the sweep from it), `Drops` and `Settles` by `QueueInv` (no message about a
player is younger than its last change, or it tells the truth) and `MapInv`: what
the map knows fades (`Fading`), and what it learned long enough after the last
change is right (`Settling`). `LinkInv` says when queues exist at all.

Assumptions: `RankAssumption`, `MaxUnitsAssumption`, `BoundsAssumption` (bounds are
naturals, ranks those of the game), `HubAssumption` (`SendBuffer` is at least 1;
the code's is 8), `SupervisorAssumption` (at least one queue),
`GameLogAssumption` (`LOG_LIMIT` is at least 1, as `config.go` demands) and
`GatewayAssumption`. The last holds for the defaults (5 s and 15 s) unless a
message takes 10 s (`TTL` is a multiple of 3 ticks, as the sweep runs every third
of it); the code does not check it, and an operator who sets the TTL below the
heartbeat interval makes players flicker.

Each of these inductive invariants was first checked by TLC, on the instance of a
run, as an invariant. They are stated in the proof modules, next to the lemmas
that use them. Every safety invariant that a passing run checks is stated by a
theorem, but for `HubNeverBlocks`.

Only model-checked: all liveness properties (`ClientsComeToRest`, `EveryWarIsLogged`,
`HandlersEnd`, `ShutdownEnds`, `LossIsRepaired`, `EveryLogIsWritten`), the liveness part of
`ImplementsBroadcast`, and `HubNeverBlocks` as it stands: fairness and `ENABLED` are
what TLAPS cannot reason about. The safety part of `ImplementsBroadcast` and the
guards behind `HubNeverBlocks` are proved.

## Findings

- `pause_latecomer`: a client that joins a paused game plays on, although the
  server pauses "everyone" (README of the repository). The pause is a single
  message to the queues of that moment.
- `spawn_overwrites`: a new unit's id is the number of units plus one; after a war
  removed a unit with a lower id, that is a living unit, which is replaced.
- `supervisor_gives_up`: `Supervise` asks to be notified of a closed connection after
  the boot, and again after each repair. A connection that the library has shut
  down by then closes the channel at once, which the goroutine takes for an
  orderly close: it returns, and the process runs on without a connection.

Noted on the way, with nothing in the repository that says otherwise: a unit that a
war removes between `GetUnit` and `UpdateUnit` of a move comes back to life; with two
contested places attacker and defender each pick one, and may clear different
places for the same war; a `pause` in the hands of an old consumer may undo a later
`resume`, and a log there may appear behind newer ones on the web; a
server that has not started loses the logs published before; a client that waits
for its user's name does not heed a signal (`ShutdownEnds` leaves that wait out).

## Not modelled

- The web client (`web/src`). It renders what it is sent. A page that reconnects is
  another connection of `Hub`; its retry timer only decides when. Colour slots are
  one pure function whose value picks a colour. One hazard of it is listed
  without a property: a page whose connection dies without anybody noticing.
- Geography, texts, prompts and parsing (`input.go`, `gamelogic.go`), configuration
  and scripts keep no state that a property would be about; what configuration
  sets is a constant of the models, what a player types a choice of them.
- `World.Snapshot` and `GET /api/state` only read. In `Hub` a snapshot is a version,
  in `Gateway` the map is read as it is.
- Messages that cannot be decoded: nobody in this repository sends one. Channels
  the broker closes while the connection lives.
- Retry delays, and the time steps take, except in `Gateway`. There an old consumer
  that is still in its handler across a reconnect counts as having handled its
  message before it; for its logs `GameLog` has the overlap, as `GameClients` has
  for orders and, after their first critical section, for moves and wars.
- After it is told to stop, a process in `Supervisor` is no `Session` any more; what its
  consumers still do until they end is in `GameClients`, where `Exit` may come at any
  time.

The broker is modelled from how the code uses it: fan-out to bound queues, order
per queue, exclusive queues that end with their connection, a durable one that
takes back what is not acknowledged.

## Plan

1. `Army`, `GameClients`: done.
2. `MeetingProofs`, `WarProofs`, `CommandProofs`: done.
3. `Broadcast`, `Hub` and its refinement: done.
4. `HubProofs`: done.
5. `Session`, `Supervisor` and its refinement, `SupervisorProofs`: done.
6. `GameLog`, `GameLogProofs`: done.
7. `Gateway`, `GatewayProofs`: done.
8. `SpawnsFresh`, `OneLogEachWar`, `DeadLettersAccounted`, `OnlyPlacesDivide`,
   `OnlyFaultsRepeat`, `HubGoesOn`: done.
9. `WarReport` and `Delivery` implemented by `GameClients` and `GameLog`, proved: done.
10. Old consumers next to new ones for orders (`GameClients`) and for the web's log
    (`GameLog`), and `PauseArrives` and `WebIsNewest` with them: done.
11. A page over `Broadcast`: reconnection and colour slots.
