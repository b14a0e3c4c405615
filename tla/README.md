# AetherLens, specified in TLA+

AetherLens captures packets in a Rust process (`core-engine`), streams them over
gRPC to a .NET API server (`api-server`), which stores them, aggregates them and
pushes them over SignalR to a browser dashboard (`web-dashboard`). This directory
holds TLA+ modules translated from that code, TLC configurations that check them
on small instances, and proofs that TLAPS checks for every value of the
constants. Paths below are relative to the repository.

## 1. The system

```
 capture thread --mpsc--> packet processor --broadcast--> gRPC stream --.
 (or demo)      --mpsc--> alert processor  --broadcast--> gRPC stream --|
      ^                                                                 v
 process cache <-- refresh task            GrpcStreamService / SuspiciousGrpcStreamService
                                                |                     |
                                         packet channel          alert channel
                                                v                     v
                                     PacketConsumerService   SuspiciousConsumerService
                                      |     |       |                 |
                       persistence channel  |   MetricsSnapshot       |
                                      v     |       ^                 |
                 PacketPersistenceWorker    |   SystemMonitorService  |
                                      v     v       |                 v
                                  AetherDb  SignalR hub groups --> dashboard store
```

| Component | State | Operations | Hard behaviour | What makes it correct |
|---|---|---|---|---|
| **Producer, channels, streams** (`core-engine/src/main.rs`, `network/stream.rs`, `engine/processor.rs`) | two mpsc channels, two broadcast rings, a cursor per gRPC stream | capture, send packet, send alert, forward, subscribe, deliver, lag, disconnect | backpressure into a blocking capture thread, ring overruns, crash and restart | order and uniqueness per client, alerts after their packets, no blocking for ever |
| **Packet analysis** (`network/stream.rs`) | none | parse, label, score | ports read back from text, two address families | detection complete and limited to outbound watched ports |
| **Process cache** (`network/process_map.rs`) | port map, pid name cache | refresh, lookup | refresh, lookup and the system interleave; nothing is ever removed, version 6 sockets are never read | a label names an owner of the socket's port, or at least another process of that one's pid |
| **gRPC clients** (`Services/GrpcStreamService.cs`, `SuspiciousGrpcStreamService.cs`) | call, retry delay, connected flag | subscribe, read, catch, wait, cancel | core comes and goes, silent loss, other statuses, stop at any point | prompt recovery, honest flag, orderly end |
| **Packet consumer** (`Persistence/PacketConsumerService.cs`) | batch queue, counters per process | take, count, send batch; each second report and clear | two loops on one concurrent dictionary | no packet reported twice, batches ordered |
| **Persistence** (`PacketPersistenceWorker.cs`, `AetherDb.cs`) | bounded channel, batch buffer, connection, table | read, drain, two-attempt transaction, delay | failing batches, retries, stop, restart | each update a row at most once, none lost but by a known cause |
| **Metrics and monitor** (`MetricsSnapshot.cs`, `SystemMonitorService.cs`) | four counters, a flag | `RecordPacket`, `Snapshot` | lock-free interleaving | counts conserved, maximum not lost |
| **Alert consumer** (`SuspiciousConsumerService.cs`) | none | severity, send | thresholds must fit the core's scores | live alerts are never INFO |
| **Rate limiter** (`Middleware/RateLimitMiddleware.cs`) | window of requests per address | check and record | | not modelled, see section 5 |
| **Hub** (`Hubs/`) | sessions, three groups | join the groups one by one, send to a group | sessions and groups are lost with the server | every dashboard is in every group again |
| **Dashboard connection** (`lib/signalr.ts`) | one module-level connection, one per mounted page | start, stop, effect, clean-up, reconnect, receive | pending starts and stops race with remounts, late closes, outages | one live connection, an honest header, no message twice |
| **Dashboard store and console** (`store/aether-store.ts`, `components/LiveConsole.tsx`) | bounded lists, a flag, the console's lines | prepend, upsert, set, log | long histories against the limits | the lists are what their names promise |
| **Charts and panels** (`components/`) | a chart's points, slices, a displayed number, three timers | tick, restart a timer, draw | timers interleave with what arrives and with each other | all panels agree with the last report |
| **Launcher, containers** (`start_lab.bat`, compose files) | | kill, build, start | restart in mid-flight | |

Components interact through messages (gRPC streams, SignalR calls), bounded
drop-oldest channels inside the API server, bounded blocking channels inside the
core, and shared memory (process cache, process counters, metrics). `PROJECT.json`
lists every component with its status and every hazard with the line where it
bites.

## 2. The modules and the code

A module is a component; an action is an operation, a handler or, where threads
interleave inside one, a step of it. `PROJECT.json` maps every definition to its
lines.

**LossyFeed** is the abstract specification: what every stage promises the next.
Items are numbered as they are produced; a consumer may miss some, but gets them
in order, once, and not before they exist. Four modules are shown to implement
it: every gRPC stream of CoreEngine, the table of PersistenceWorker, the batches
of PacketConsumer, and what reaches the store in DashboardConnection. It is the contract
that lets them be chained. **Order** holds the few operators on sequences they share and
those on lists that are ordered by rank (`Rank`, `Lists`), **OrderLemmas** the lemmas about
them.

**CoreEngine** (`main.rs`, `stream.rs`, `processor.rs`). `producer` is the program
counter of the capture loop or the demo loop: `CapturePacket` takes a packet
through parsing and scoring, `SendPacket` and `SendAlert` are the two waiting
sends, `CaptureFails` every way the live capture returns. `Process(f)` is one turn
of a processor task: `recv` and the broadcast, which a `send` without receivers
discards. The broadcast ring is a log of which the last `RingCap` entries can be
read; a stream is a cursor into it. `SkipLagged` is the `Lagged` error that
`filter_map` drops. `EngineRestart` is the launcher's kill and restart, or a
crash. `grpc = "failed"` is the server task that panicked on a taken port while
`main` goes on. `delivered` survives a restart: it is what the outside saw.

**PacketAnalysis** (`parse_packet`, `transport_details`, `resolve_process_label`,
`score_suspicious`, and the severity of `SuspiciousConsumerService`). One action,
one turn of the capture loop, over every kind of frame; the algorithm is in the
operators. An endpoint's text is modelled by what the code reads back from it:
`PortInText` is `rsplit(':')` and `parse`, so a bare version 6 address yields the
last group of its text (`LastGroup`).

**ProcessCache** (`process_map.rs`, Windows build). The refresh task goes through
both tables (size query, fetch, then for each row the insert of the port and the
check, query and insert of the name), the capture thread looks up port and then
name and asks for a name that is missing, and the operating system starts and ends
processes and sockets, and gives pids out again, at any point between. A socket has
an IP version and the cache's key has none: the refresh reads the version 4 sockets
(`AF_INET` in all four calls), and a version 6 packet is looked up under the key of
the version 4 socket with its port. `called` and `owners` are histories for the
properties.

**StreamClients** (both client services, the host, the monitor). `at` is where
each `ExecuteAsync` is, `call` its call. `Unavailable`, `KeepAliveFails`,
`Rejected`, `CancelRead`, `CancelDelay` are the catch clauses and the exceptions
no clause catches. The stopping order and the host's reaction to a service that
throws are .NET's defaults, modelled from how `Program.cs` registers the services
and marked external.

**PacketConsumer**. The packet loop (`Take`, `Count`, `SendBatch`) and the process
loop (`Tick`, `Visit`, `Remove`, `SendStats`, `TickEnds`) interleave; each call on
the `ConcurrentDictionary` is one atomic step and the enumerator is what .NET
documents: every key, the value as it is when passed.

**PersistenceWorker**. `Write` is the consumer's `TryWrite` into the drop-oldest
channel. `Read`, `Drain`, `DrainEnds` are the loop of `ExecuteAsync`; `Connect`,
`Insert`, `Commit`, `FirstAttemptFails`, `BatchFails` are `BulkInsert`. `gone`
records what was lost and why, so that a property can say that nothing else is.

**MetricsSnapshot**. Each `Interlocked` operation is one step of its thread.

**DashboardStore** (`aether-store.ts`, `LiveConsole.tsx`, the drawing half of the
other panels). It has no `Next` of its own: a setter of the store runs to its end
in one turn of the browser's event loop and calls the console's listeners on the
way, so setter and listeners are one operator, which the two modules below use in
their actions. Messages are records with the `Fields` of `types/index.ts` that something depends
on; `camelize` renames them as `signalr.ts` does, and `null` is the absent health report.
`Others` is the `filter` of `upsertProcess`.

**DashboardConnection** (`signalr.ts`, the hub) extends it. `current` is the
module's `_connection`, `connectionRef` the component's, `state` what each
connection's `HubConnectionState` is, with two states split by what the client
knows beside them. `OpenPage`, `Remount`, `RenderError` and `Reset` run the effect
and its clean-up (`UseSignalR`, `Cleanup`); `StartSucceeds`, `StartFails`,
`StartAborted`, `CloseCompletes`, `ConnectionLost`, `TryReconnect`,
`ReconnectSucceeds` and `ReconnectFails` are what the SignalR client does with the
handlers of one connection; `Outage`, `HubReturns`, `Join` and `SendMessage` are the
server; `ReceivePackets` and its like put what arrives into the store. `wire` is
what is on the way on a connection, `feed` all that was sent, `received` all that
reached the store.

**DashboardPanels** (`NetworkTrafficChart`, `ProtocolPieChart`, `LatencyMonitor`)
extends DashboardStore too. Time passes in steps of half a second (`Pass`), and not
while a timer of the mounted page is due; `LatencyEffect` is React running the
effect of `LatencyMonitor` again because `avgLatencyMs` changed, `Remount` is React running
all three effects again.

## 3. What is checked

Every property has a mutant in `PROJECT.json`: a plausible bug in a mapped
definition that makes TLC find the property violated. The mutants stand beside
the definitions they change.

### Runs that pass

A run checks the safety and the liveness of one module together, under its
`FairSpec`; the fairness restricts no finite behaviour.

| Run | Questions | Instance, and why it is enough |
|---|---|---|
| `core` | Are client histories ordered and free of duplicates (each a `LossyFeed`), packets before alerts? Does backpressure resolve, does a capture that ended drain, does an overtaken stream catch up? | Three packets, mpsc channels of one, rings of two and one, one stream on either service: with one packet in the channel and one in hand the producer blocks, three broadcasts overrun either ring. Streams do not interact except through `Subscribed`; one per feed shows both cases. |
| `persistence` | Is every update accounted for once, is the buffer bounded, is the table a `LossyFeed`? Does a stop end the worker in whatever state it is? | Channel and batch of two, seven updates: a full channel, a full batch and its discarded update, and several failed batches fit in one behaviour. |
| `metrics` | Are counts, latencies and the maximum conserved in every interleaving? | Four packets, three latencies, zero among them. |
| `consumer` | Is a packet ever reported twice, are batches a `LossyFeed`, is every process with traffic reported, whenever it has some? | Two processes, four packets, a channel of two. |
| `clients` | Is the flag cleared, the retry prompt, no client dead alone? Do both streams recover, does a stop end both clients? | No bound: the module is finite. |
| `analysis` | Is detection complete, has every alert its cause, is none mere INFO? | Every kind of frame, a local and a remote address of either version and one whose text ends in 23, every watched port and an unwatched one that has an owner. |
| `process_cache` | Can a packet get a name that no process with the pid of an owner of its port has had? Do labels become right once the system is quiet? | A TCP and a UDP key, each with a version 4 and a version 6 socket; two pids, given out again at will; two executables, one of which may not be opened; six system events: two processes and two sockets, an end, and the pid or the socket in new hands. |
| `dashboard` | Is one connection alive at most, is the header honest, does the console agree with it? Is what reaches the store a `LossyFeed`, and are the lists what that feed demands? Are groups rejoined after an outage, do stopped connections end? | Four scenarios (`MCBounds`): three connections, an outage and two messages, which lets a mount overtake two pending stops; two connections, two outages, one message; and one connection with four messages of each kind, past limits of two and three. Two reconnect delays: the first that fails and the last. |
| `panels` | Do all panels show the last report within a period, and is the latency display never starved? | Timers of two steps, reports three steps apart, a chart of two points, batches of one and two packets, reports with zero, small and large averages. Unbounded in time. |

### Runs that find a violation

Each shows one statement of a document, comment or test that the code does not
keep; `PROJECT.json` "findings" quotes it.

| Run | What the counterexample shows |
|---|---|
| `persistence_discard` | The drain loop takes an update off the channel before it compares the buffer with 256: a full batch costs the next update. |
| `consumer_lost_window` | Packets counted between the enumeration's read and `TryRemove` are in no report. |
| `analysis_foreign_owner` | Incoming packets are labelled by the peer's port number. |

Other weaknesses of the code are part of what a passing property says, or is
careful not to say:

- `AlertStreamRecovers` excepts the silent loss: the alert client has no keep-alive
  pings (`SuspiciousGrpcStreamService.cs:27`) and stays on a dead call for ever.
- `ConnectedOnlyOnACall` says when the connected flag is cleared. It is set too early,
  when the call object exists and nothing has answered (`GrpcStreamService.cs:55`), so
  a health report may say connected although no core ever ran: `ConnectedMeansAStream`,
  which no run checks, is false.
- `AlertsExplained` admits alerts for packets without ports whose destination is a
  version 6 address that ends in a watched number, such as `2001:db8::23`.
- `LabelHasOrigin` does not say that a label is right. A pid Windows gives out again keeps
  the name of its first process for ever (`process_map.rs:111`), entries of closed sockets
  stay, and version 6 sockets are never read (`process_map.rs:81,94,129,142`), so a
  version 6 packet (`stream.rs:217`) gets the name of whoever owns its port in version 4, or
  `Unknown` when nobody does. The property says that nothing worse happens.
  `LabelsCatchUp` says which labels do become right: those of version 4 owners that are
  alone on their port, may be opened, and whose pid no other executable had that may be
  opened. It promises version 6 sockets nothing.
- The count, the sum and the maximum of a metrics report may cover different packets, so
  a report's average can exceed its maximum.
- `HeaderTellsConnection` says what SYSTEM ONLINE means. OFFLINE means less: the late
  `onclose` of a replaced connection (`signalr.ts:87`) leaves it standing over a
  connection that works, until that one is lost and restored.
- `RestoredAfterOutage` is about connections that were up. A first `start()` that fails is
  never tried again (`signalr.ts:94`).
- `ConsoleFollowsConnection` is about the lines on the connection. The lines on packets
  leave out a batch whose first packet has the millisecond of the last line's
  (`LiveConsole.tsx:29`), and that first packet is the oldest of its batch.
- `PanelsCurrent` compares the panels with the last report. When reports stop coming the
  chart goes on drawing the last one (`NetworkTrafficChart.tsx:24`).

### Fairness

Safety is checked and proved without fairness. The liveness runs assume:

- CoreEngine: weak fairness of the sends, the processors and the streams' reads:
  tokio runs every task that is ready, and an mpsc sender that waits is woken when
  there is room. Captures, failures, subscriptions, disconnections and restarts
  need never happen.
- PersistenceWorker: weak fairness of the worker as a whole: its task is
  scheduled and SQLite answers, with a result or an exception. It is never assumed
  to answer with a result.
- PacketConsumer: both loops run when they can. Packets need not come.
- StreamClients: each client runs when it can, a core that is up accepts pending
  calls, a stopping host cancels its services in turn. The core need not come
  back and the host need not be stopped; the properties are conditional on it.
- ProcessCache: the refresh is strongly fair because the capture thread, which
  holds a map reference during a lookup, may disable one insert again and again;
  a lookup that began completes (`FinishLookUp`). The map's lock is not unfair for ever.
- DashboardConnection: weak fairness of each connection's client, of its receiving and
  of its joining: the SignalR client answers a start, a stop and a reconnect attempt
  one way or the other, its timers fire, the hub finishes `OnConnectedAsync`, and what
  is on a wire arrives while the connection lasts. The page need not be opened, nothing
  need be sent, and an outage need not end.
- MetricsSnapshot, PacketAnalysis and DashboardPanels are checked for safety only. That a
  due timer fires before time goes on is a guard of `Pass`. Reports are at least
  `HealthGap` apart because the monitor sends one every 2000 ms
  (`SystemMonitorService.cs`) and the timers' period is 1000 ms; three steps against
  two leave half a second for a report that was delayed.

## 4. What is proved

TLAPS checks these for all values of the constants that the ASSUMEs admit
(capacities, limits and batch size at least one, latencies natural numbers, a feed for each
stream, messages with the fields of their method, reports further apart than the timers'
period). Every invariant that a run checks is the subject of a theorem.

- **CoreEngineProofs**: `TypeCorrect`, `DeliveryInOrderOnce`, `AlertsFollowPackets`,
  `NothingStranded`, `StreamsImplementLossyFeed`. That a client's history increases
  is not inductive: the next message it gets must be known to be newer. `IInv` adds
  that each feed is ordered end to end, from the log through the queue up to the
  packet in the producer's hand (`FeedsOrdered`, `Handed`), and that what a client
  has is older than all its cursor can still reach, or, when closed, than all that
  is still queued (`StreamsOrdered`, `CursorInLog`). `AlertAfterItsPacket` falls out
  of `Handed`. Refinement uses the same invariant: a delivery appends one newer item.
- **PersistenceProofs**: `TypeCorrect`, `NothingUnaccounted`, `BufferBounded`,
  `TableImplementsLossyFeed`. Rows, batch and channel are consecutive stretches of
  one ordered line (`InLine`), which makes them disjoint and a commit an append of
  newer rows. `RoomForOne` strengthens the buffer bound: between batches a failed
  batch leaves room for the update the next one reads.
- **HealthProofs**, of MetricsSnapshot: `TypeCorrect`, `Conservation`, `MaximumKept`.
  `Locals` adds that the parts of a snapshot not taken yet are zero and that the
  compare-and-swap loop only ever raises the maximum. Of DashboardPanels:
  `PanelsShowLastReport`. `PanelsInv` says of each panel that it is up to date or that its
  timer fires before a period is over; that the latency display is not starved by its
  restarts rests on `HealthGap > Period`, which keeps two restarts from falling into
  one period (`OneRestart`).
- **StreamClientsProofs**: `TypeCorrect`, `FlagCleared`, `PromptRetry`, `NoQuietDeath`.
  The delay is also known to be reset during a read (`DelayReset`), which is where a
  failure finds it, and only a stopping host cancels (`CancelledByHost`).
- **PacketConsumerProofs**: `TypeCorrect`, `ReportsBelowCounts`,
  `BatchesImplementLossyFeed`. What is reported of a process plus what is in its entry
  never exceeds what was counted, and the value the enumeration read is no larger than
  the one in the dictionary now (`ReadBelow`); batch, queue and channel are consecutive
  stretches of one ordered line.
- **CaptureProofs**, of ProcessCache: `LabelsOfOwners`, whatever pids are given out again.
  A row of the system's tables names the socket's owner (`RowsOwn`); every row fetched and
  every entry of the port map is a pid that owned the version 4 socket of its key
  (`EntriesOwn`); every cached name is one the pid has had (`NamesAgree`), and so is an answer
  of the system that a thread still holds (`AnswersAgree`). That the capture thread puts its
  answer under the pid it asked about needs that the entry it looked up stays while it looks
  (`LookedUp`): the map's lock keeps the refresh out. Of PacketAnalysis:
  `DetectionComplete`, `AlertsHaveCauses`, `AlertsUrgent`. Packet and alert are functions of the frame (`Analysed`), so these are
  lemmas on the operators: what a parsed packet looks like, and which port each rule reads
  back from its endpoint, whatever a version 6 address ends in.
- **DashboardConnectionProofs**: `TypeCorrect`, `OnlyCurrentLives`, `HeaderIsHonest`,
  `StoreImplementsLossyFeed`, `ConsoleFollows`, `StoreIsReference`, `KeysDistinct`. `OneRef`
  ties the component's reference to the module's, which is why a clean-up always stops the
  right connection. For the refinement, only connections that are connected have anything on
  the wire, and all of it is newer than what the store has (`OnlyConnectedServed`,
  `FeedInLine`). `Told` gives the console's agreement with the flag an inductive form: the
  lines on the connection alternate, only what the flag says can be the last of them, and the
  console is empty while nothing is mounted; a line dropped at the limit is the oldest and
  breaks none of that. `StoreMatchesReference` is inductive up to the lists' being finite
  (`StoreInv`): each list has the row of an arrival at its rank among all that arrived, an
  arrival takes the first place and moves every other by one (by the length of the batch, for
  packets), and an upsert takes its process out of the ranks before it puts it first. That
  the recursive `filter` does this is a least-counterexample argument (`OthersAre`). The keys
  of the rows are distinct because each row is some arrival's and no two arrivals share a
  place (`RankOnto`).
- **OrderLemmas**: what `Append`, `Tail` and `\o` keep of `Increasing`, `AllBefore`, `UpTo`
  and `Range`; what is left of a list that is cut at either end; and how ranks change when a
  set gains a greatest member or loses one (`RankAdded`, `RankRemoved`, `ListsAdded`,
  `ListsRemoved`).

Model-checked only: the liveness properties, which need ENABLED and stay with TLC
(`BackpressureResolves`, `CaptureEndDrains`, `StreamCatchesUp`, `StopEndsWorker`,
`EveryProcessReported`, `PacketStreamRecovers`, `AlertStreamRecovers`, `StopEndsClients`,
`LabelsCatchUp`, `RestoredAfterOutage`, `StoppedConnectionsEnd`). The library's induction
theorems take an operator as a parameter, which no prover here can instantiate; induction
over the natural numbers is done with `NatMin` instead, from a least counterexample. Two
theorems, `DeliveryInOrderOnce` and `NothingStranded`, state properties no run checks: the
first follows from the refinement, and both are used as invariants of the proofs.

## 5. What is abstracted, and what is not modelled

Abstractions:

- CoreEngine: a packet is its number. `Process` is dequeue and broadcast in one
  step; nobody else can see the item between them. A frame `parse_packet` rejects
  changes no state and is no step. An alert is the number of its packet.
- PersistenceWorker: a transaction commits whole or not at all. Power failure,
  which may undo commits under `synchronous=NORMAL`, is below the model. A failed
  batch is retried when one more update arrives, as in the code.
- PacketConsumer: cancellation, and what a resize of the dictionary does to a
  running enumeration, are left out. The write to the persistence channel is part
  of `Take`; what becomes of it is PersistenceWorker. A batch leaves only when the
  channel is empty; that traffic without a pause postpones it for ever needs an
  unbounded supply of packets and is not shown.
- MetricsSnapshot: the window's start time is left out.
- StreamClients: received messages leave a client where it was and are left out;
  the core never ends a stream by itself. Whether a cancelled read surfaces as
  `OperationCanceledException` or as an `RpcException` of status Cancelled is left
  open. The host's shutdown timeout is not modelled.
- PacketAnalysis: timestamps and byte counts are left out; the port numbers of a
  fragment that is not the first are whatever bytes are there; a version 6
  extension header counts as "other", as in the code.
- ProcessCache: the system's answer about a pid is one step, and so is each table it
  copies. A refused process (`Protected`) stands for every way the name may be missing.
  `MaxEvents` both bounds the run and makes the system quiet in the end.

- DashboardStore, DashboardConnection: React and the SignalR client are external and
  modelled by what `signalr.ts` sees of them. Whether an attempt succeeds is decided by
  whether the server is reachable when it is answered. Which transport was negotiated is
  chosen when it matters, at a stop: a WebSocket closes within the turn, long polling
  later. `Remount` is React's strict mode or a module the development server replaced.
  A packet keeps its protocol, timestamp and one field for all that tells it from another.
- DashboardPanels: the chart's labels, the latency's decimals and the throttling of
  timers in hidden tabs are left out. A process row keeps key, name and rate.

Bounds that the code does not have: `MaxPackets`, `MaxWrites`, `MaxEvents`,
`MaxConnections`, `Bounds`. They limit the source of events only. The theorems hold
for every value of them.

Not modelled: the data classes and the protocol file (no behaviour), layout, clock and
number formatting of the dashboard, CORS and swagger (configuration). Nor the **rate
limiter**: it acts on paths under `/api` only (`RateLimitMiddleware.cs:26`), and the
server maps no such path (`Program.cs:130-131`), so no request that would be
answered with anything but "not found" reaches its window. Three settings disagree
with the code and are outside any module: `docker-compose` sets
`CoreService__GrpcUrl` where the API server reads `Core:GrpcTarget`, and
`NEXT_PUBLIC_SIGNALR_URL` where the dashboard reads `NEXT_PUBLIC_HUB_URL`; the API
server's Dockerfile names `apex-backend.csproj`.

## 6. Plan

The order was: the contract (Order, LossyFeed), the path of a packet that
everything depends on (CoreEngine, PersistenceWorker), the shared-memory parts
(MetricsSnapshot, PacketConsumer), the connection between the processes
(StreamClients), the pure or platform parts (PacketAnalysis, ProcessCache), and the
dashboard (DashboardStore, DashboardConnection, DashboardPanels). What is left:

1. Core, client, channels and consumer composed: capture to dashboard is a
   `LossyFeed`. Each stage is shown to be one; that a chain of them is one is not
   stated yet.
2. Batches under traffic without a pause (`PacketConsumerService.cs:46`), which needs a
   supply of packets without bound.

## 7. Running it

```
tlasany CoreEngine.tla
tlc -workers 2 -config MCCoreEngine.cfg MCCoreEngine
tlapm CoreEngineProofs.tla
```
