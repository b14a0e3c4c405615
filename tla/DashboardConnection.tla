------------------------ MODULE DashboardConnection ------------------------
(***************************************************************************)
(* The dashboard's hub connections (lib/signalr.ts): the page is mounted   *)
(* and unmounted, each mount builds a connection, the SignalR client       *)
(* starts, loses, restores and stops it, the hub adds it to its groups,    *)
(* and what arrives on it goes into the store.                             *)
(*                                                                         *)
(* The SignalR client and React are external, modelled by what signalr.ts  *)
(* sees of them.  Whatever they do within one turn of the event loop, a    *)
(* start() that resolves and the setConnected(true) after it, say, is one  *)
(* step.  With a WebSocket, stop() closes a connection within the turn;    *)
(* with long polling, and while an answer of the hub is outstanding, it    *)
(* closes later.                                                           *)
(***************************************************************************)
EXTENDS DashboardStore, Order

CONSTANTS
  Retries,         \* Len(RECONNECT_DELAYS)
  Transports,      \* what negotiation may choose, of "WebSockets", "LongPolling"
  MaxConnections,  \* model bound: connections built
  Bounds           \* model bounds of one behaviour: how many connections, outages and
                   \* sends there are, and what messages may be sent

ASSUME RetriesAssumption == Retries \in Nat \ {0}
ASSUME BoundsAssumption ==
  /\ MaxConnections \in Nat
  /\ \A b \in Bounds : b.connections \in 0..MaxConnections
\* The server's types: what is sent has its fields, and packets come in batches.
ASSUME MessagesAssumption ==
  \A b \in Bounds : \A m \in b.messages :
    /\ m.method \in DOMAIN Fields
    /\ IF m.method = "ReceivePackets"
         THEN /\ Len(m.raw) \in Nat /\ DOMAIN m.raw = 1..Len(m.raw)
              /\ \A i \in DOMAIN m.raw : DOMAIN m.raw[i] = Fields[m.method]
         ELSE DOMAIN m.raw = Fields[m.method]

Connections == 1..MaxConnections
None == 0          \* a connection variable that is null

\* The groups the hub adds a connection to, in its order.
Groups == <<"network", "network:pro", "ops-seha">>

VARIABLES
  reachable,      \* the API server runs and the network carries
  sessions,       \* the connections the API server has
  joined,         \* connection -> how many of Groups it has been added to
  feed,           \* the messages sent, in order
  current,        \* the module's _connection
  connectionRef,  \* the component's connectionRef.current
  made,           \* connections built so far
  state,          \* connection -> its HubConnectionState
  attempts,       \* connection -> reconnect attempts since it was lost
  wire,           \* connection -> numbers of the messages on their way to it
  received,       \* history: numbers of the messages that reached the store
  bounds, outages

hubVars == <<reachable, sessions, joined, feed, bounds, outages>>
pageVars == <<page, current, connectionRef, made>>
clientVars == <<state, attempts>>
vars == <<hubVars, pageVars, clientVars, wire, received, storeVars>>

\* Two HubConnectionStates are split by what the client knows beside them: a
\* Reconnecting connection is "Waiting" between two attempts, and a Disconnecting
\* one that never was connected is "Aborting".
States == {"Disconnected", "Connecting", "Connected", "Waiting", "Reconnecting",
           "Disconnecting", "Aborting"}

\* Those in which the connection was connected and has not closed since.
Started == {"Connected", "Waiting", "Reconnecting", "Disconnecting"}

Init ==
  /\ reachable \in BOOLEAN
  /\ sessions = {}
  /\ joined = [c \in Connections |-> 0]
  /\ feed = <<>>
  /\ page = "none"
  /\ current = None
  /\ connectionRef = None
  /\ made = 0
  /\ state = [c \in Connections |-> "Disconnected"]
  /\ attempts = [c \in Connections |-> 0]
  /\ wire = [c \in Connections |-> <<>>]
  /\ received = <<>>
  /\ bounds \in Bounds
  /\ outages = 0
  /\ StoreInit

-----------------------------------------------------------------------------
(* The page: mounting and unmounting the hook useSignalR. *)

\* Mutant of Stopped: a start that is under way is left alone.
StoppedUnlessConnecting(c, transport) ==
  CASE state[c] \in {"Disconnected", "Waiting"} -> "Disconnected"
    [] state[c] = "Connected" /\ transport = "WebSockets" -> "Disconnected"
    [] state[c] \in {"Connecting", "Aborting"} -> state[c]
    [] OTHER -> "Disconnecting"

\* The state that connection.stop() leaves c in at the end of the turn.
Stopped(c, transport) ==
  CASE state[c] \in {"Disconnected", "Waiting"} -> "Disconnected"
    [] state[c] = "Connected" /\ transport = "WebSockets" -> "Disconnected"
    [] state[c] \in {"Connecting", "Aborting"} -> "Aborting"
    [] OTHER -> "Disconnecting"

\* The effect's clean-up: what it leaves of the connections, and of _connection.
Cleanup(transport) ==
  [c \in Connections |-> IF c = connectionRef THEN Stopped(c, transport) ELSE state[c]]
CurrentAfterCleanup == IF current = connectionRef THEN None ELSE current

\* A started connection that is closed within the turn calls onclose.
ClosesOne(after) == \E c \in Connections : state[c] \in Started /\ after[c] \notin Started

\* Nothing more is delivered on connection c; a new loss starts counting afresh.
HangUp(c) ==
  /\ sessions' = sessions \ {c}
  /\ joined' = [d \in Connections |-> IF d = c THEN 0 ELSE joined[d]]
  /\ wire' = [d \in Connections |-> IF d = c THEN <<>> ELSE wire[d]]
  /\ attempts' = [d \in Connections |-> IF d = c THEN 0 ELSE attempts[d]]
  /\ UNCHANGED <<reachable, feed, bounds, outages, received>>

\* The effect: a new connection and its start(), unless _connection is active.
UseSignalR(before, cur) ==
  IF cur # None /\ before[cur] # "Disconnected"
    THEN /\ state' = before
         /\ current' = cur
         /\ connectionRef' = None
         /\ UNCHANGED made
    ELSE /\ made < bounds.connections
         /\ made' = made + 1
         /\ state' = [before EXCEPT ![made + 1] = "Connecting"]
         /\ current' = made + 1
         /\ connectionRef' = made + 1

OpenPage ==
  /\ page = "none"
  /\ page' = "warRoom"
  /\ UseSignalR(state, current)
  /\ UNCHANGED <<hubVars, attempts, wire, received, storeVars>>

\* Strict mode, or the development server replaced a module: React cleans up the
\* effects of the mounted page and runs them again in one turn.
Remount ==
  /\ page = "warRoom"
  /\ \E transport \in Transports :
       /\ UseSignalR(Cleanup(transport), CurrentAfterCleanup)
       /\ IF ClosesOne(Cleanup(transport)) THEN setConnected(FALSE) ELSE UNCHANGED storeVars
  /\ HangUp(connectionRef)
  /\ UNCHANGED page

\* A component throws while rendering: error.tsx takes the page's place.
RenderError ==
  /\ page = "warRoom"
  /\ page' = "error"
  /\ \E transport \in Transports :
       /\ state' = Cleanup(transport)
       /\ connected' = (connected /\ ~ClosesOne(Cleanup(transport)))
  /\ current' = CurrentAfterCleanup
  /\ connectionRef' = None
  /\ HangUp(connectionRef)
  /\ ConsoleUnmounts
  /\ UNCHANGED <<made, packets, processStats, anomalies, health>>

\* "Try again".
Reset ==
  /\ page = "error"
  /\ page' = "warRoom"
  /\ UseSignalR(state, current)
  /\ UNCHANGED <<hubVars, attempts, wire, received, storeVars>>

-----------------------------------------------------------------------------
(* The SignalR client of connection c. *)

StartSucceeds(c) ==
  /\ state[c] = "Connecting"
  /\ reachable
  /\ state' = [state EXCEPT ![c] = "Connected"]
  /\ sessions' = sessions \cup {c}
  /\ setConnected(TRUE)
  /\ UNCHANGED <<reachable, joined, feed, bounds, outages, pageVars, attempts, wire, received>>

\* start() rejects; the effect logs that and tries no more.
StartFails(c) ==
  /\ state[c] = "Connecting"
  /\ ~reachable
  /\ state' = [state EXCEPT ![c] = "Disconnected"]
  /\ UNCHANGED <<hubVars, pageVars, attempts, wire, received, storeVars>>

\* A start() that was stopped rejects; onclose is not called.
StartAborted(c) ==
  /\ state[c] = "Aborting"
  /\ state' = [state EXCEPT ![c] = "Disconnected"]
  /\ UNCHANGED <<hubVars, pageVars, attempts, wire, received, storeVars>>

\* Mutant of CloseCompletes: stop() waits for the hub's answer.
CloseAnswered(c) ==
  /\ state[c] = "Disconnecting"
  /\ reachable
  /\ state' = [state EXCEPT ![c] = "Disconnected"]
  /\ setConnected(FALSE)
  /\ UNCHANGED <<hubVars, pageVars, attempts, wire, received>>

\* The stop() of an earlier turn is done: onclose.
CloseCompletes(c) ==
  /\ state[c] = "Disconnecting"
  /\ state' = [state EXCEPT ![c] = "Disconnected"]
  /\ setConnected(FALSE)
  /\ UNCHANGED <<hubVars, pageVars, attempts, wire, received>>

\* Mutant of ConnectionLost: no onreconnecting handler.
ConnectionLostQuietly(c) ==
  /\ state[c] = "Connected"
  /\ c \notin sessions
  /\ state' = [state EXCEPT ![c] = "Waiting"]
  /\ HangUp(c)
  /\ UNCHANGED <<pageVars, storeVars>>

\* The client notices that the hub is gone: onreconnecting.
ConnectionLost(c) ==
  /\ state[c] = "Connected"
  /\ c \notin sessions
  /\ state' = [state EXCEPT ![c] = "Waiting"]
  /\ HangUp(c)
  /\ setConnected(FALSE)
  /\ UNCHANGED pageVars

\* The next of RECONNECT_DELAYS is over.
TryReconnect(c) ==
  /\ state[c] = "Waiting"
  /\ state' = [state EXCEPT ![c] = "Reconnecting"]
  /\ attempts' = [attempts EXCEPT ![c] = attempts[c] + 1]
  /\ UNCHANGED <<hubVars, pageVars, wire, received, storeVars>>

\* onreconnected.
ReconnectSucceeds(c) ==
  /\ state[c] = "Reconnecting"
  /\ reachable
  /\ state' = [state EXCEPT ![c] = "Connected"]
  /\ attempts' = [attempts EXCEPT ![c] = 0]
  /\ sessions' = sessions \cup {c}
  /\ setConnected(TRUE)
  /\ UNCHANGED <<reachable, joined, feed, bounds, outages, pageVars, wire, received>>

\* Mutant of ReconnectFails: the last delay is used for ever.
ReconnectForEver(c) ==
  /\ state[c] = "Reconnecting"
  /\ ~reachable
  /\ state' = [state EXCEPT ![c] = "Waiting"]
  /\ UNCHANGED <<hubVars, pageVars, attempts, wire, received, storeVars>>

\* After the last delay the connection is closed for good: onclose.
ReconnectFails(c) ==
  /\ state[c] = "Reconnecting"
  /\ ~reachable
  /\ IF attempts[c] < Retries
       THEN /\ state' = [state EXCEPT ![c] = "Waiting"]
            /\ UNCHANGED <<attempts, storeVars>>
       ELSE /\ state' = [state EXCEPT ![c] = "Disconnected"]
            /\ attempts' = [attempts EXCEPT ![c] = 0]
            /\ setConnected(FALSE)
  /\ UNCHANGED <<hubVars, pageVars, wire, received>>

-----------------------------------------------------------------------------
(* The API server and the network. *)

Outage ==
  /\ reachable
  /\ outages < bounds.outages
  /\ outages' = outages + 1
  /\ reachable' = FALSE
  /\ sessions' = {}
  /\ joined' = [c \in Connections |-> 0]
  /\ UNCHANGED <<feed, bounds, pageVars, clientVars, wire, received, storeVars>>

HubReturns ==
  /\ ~reachable
  /\ reachable' = TRUE
  /\ UNCHANGED <<sessions, joined, feed, bounds, outages, pageVars, clientVars, wire, received, storeVars>>

\* Mutant of Join: the health group is forgotten.
JoinNetwork(c) ==
  /\ c \in sessions
  /\ joined[c] < Len(Groups) - 1
  /\ joined' = [joined EXCEPT ![c] = joined[c] + 1]
  /\ UNCHANGED <<reachable, sessions, feed, bounds, outages, pageVars, clientVars, wire, received, storeVars>>

\* OnConnectedAsync, which runs for every new session, adds c to the next group.
Join(c) ==
  /\ c \in sessions
  /\ joined[c] < Len(Groups)
  /\ joined' = [joined EXCEPT ![c] = joined[c] + 1]
  /\ UNCHANGED <<reachable, sessions, feed, bounds, outages, pageVars, clientVars, wire, received, storeVars>>

IsIn(c, group) == c \in sessions /\ \E i \in 1..joined[c] : Groups[i] = group

GroupOf(method) == IF method = "ReceiveHealth" THEN "ops-seha" ELSE "network"

\* Mutant of SendMessage: sent to both groups of the network.
SendToBothGroups(m) ==
  /\ Len(feed) < bounds.sends
  /\ feed' = Append(feed, m)
  /\ wire' = [c \in Connections |->
                (IF IsIn(c, GroupOf(m.method)) THEN Append(wire[c], Len(feed) + 1) ELSE wire[c])
                \o (IF IsIn(c, "network:pro") THEN <<Len(feed) + 1>> ELSE <<>>)]
  /\ UNCHANGED <<reachable, sessions, joined, bounds, outages, pageVars, clientVars, received, storeVars>>

\* A service of the API server sends m to the group of its method.
SendMessage(m) ==
  /\ Len(feed) < bounds.sends
  /\ feed' = Append(feed, m)
  /\ wire' = [c \in Connections |->
                IF IsIn(c, GroupOf(m.method)) THEN Append(wire[c], Len(feed) + 1) ELSE wire[c]]
  /\ UNCHANGED <<reachable, sessions, joined, bounds, outages, pageVars, clientVars, received, storeVars>>

-----------------------------------------------------------------------------
(* The handlers of connection c. *)

\* A message for method arrives on c.
Arrives(c, method) ==
  /\ state[c] = "Connected"
  /\ wire[c] # <<>>
  /\ feed[Head(wire[c])].method = method
  /\ wire' = [wire EXCEPT ![c] = Tail(wire[c])]
  /\ received' = Append(received, Head(wire[c]))
  /\ UNCHANGED <<hubVars, pageVars, clientVars>>

Raw(c) == feed[Head(wire[c])].raw

ReceivePackets(c) == Arrives(c, "ReceivePackets") /\ addPackets(camelizeAll(Raw(c)))

ReceiveProcessStats(c) == Arrives(c, "ReceiveProcessStats") /\ upsertProcess(camelize(Raw(c)))

ReceiveHealth(c) == Arrives(c, "ReceiveHealth") /\ setHealth(camelize(Raw(c)))

ReceiveAnomaly(c) == Arrives(c, "ReceiveAnomaly") /\ addAnomaly(camelize(Raw(c)))

-----------------------------------------------------------------------------
Page == OpenPage \/ Remount \/ RenderError \/ Reset

Client(c) ==
  \/ StartSucceeds(c)
  \/ StartFails(c)
  \/ StartAborted(c)
  \/ CloseCompletes(c)
  \/ ConnectionLost(c)
  \/ TryReconnect(c)
  \/ ReconnectSucceeds(c)
  \/ ReconnectFails(c)

Receive(c) ==
  \/ ReceivePackets(c)
  \/ ReceiveProcessStats(c)
  \/ ReceiveHealth(c)
  \/ ReceiveAnomaly(c)

Next ==
  \/ Page
  \/ Outage
  \/ HubReturns
  \/ \E c \in Connections : Client(c) \/ Join(c) \/ Receive(c)
  \/ \E m \in bounds.messages : SendMessage(m)

Spec == Init /\ [][Next]_vars

\* A start, stop or reconnect attempt is answered, with success or not; timers
\* fire; the hub finishes OnConnectedAsync; what is on a wire arrives while the
\* connection lasts.  The page need not be opened, nothing need be sent, and an
\* outage need not end.
FairSpec ==
  /\ Spec
  /\ \A c \in Connections : WF_vars(Client(c)) /\ WF_vars(Join(c)) /\ WF_vars(Receive(c))

-----------------------------------------------------------------------------
(* Properties. *)

\* The connections' bookkeeping is well formed, and no client tries to reconnect
\* more often than RECONNECT_DELAYS allows (signalr.ts:11 and 48).
TypeOK ==
  /\ page \in {"none", "warRoom", "error"}
  /\ reachable \in BOOLEAN
  /\ connected \in BOOLEAN
  /\ sessions \subseteq Connections
  /\ joined \in [Connections -> 0..Len(Groups)]
  /\ made \in 0..MaxConnections
  /\ current \in {None, made}
  /\ connectionRef \in {None, made}
  /\ bounds \in Bounds
  /\ state \in [Connections -> States]
  /\ attempts \in [Connections -> 0..Retries]

Live(c) == state[c] \in {"Connecting", "Connected", "Waiting", "Reconnecting"}

\* However mounts, unmounts and pending start() and stop() calls interleave
\* (signalr.ts:53-119), no connection but _connection is alive, and none is once
\* the page is gone: nothing else would ever stop it, and its handlers would put
\* every message into the store a second time.
OneLiveConnection ==
  /\ \A c \in Connections : Live(c) => c = current
  /\ page # "warRoom" => current = None

\* SYSTEM ONLINE is never shown without a connection that was started and of whose
\* end the client has not told yet (signalr.ts:79-95, page.tsx:45).  OFFLINE may be
\* shown over a working connection, when an earlier one closes after it started,
\* but never over the first.
HeaderTellsConnection ==
  /\ HeaderStatus = "SYSTEM ONLINE" =>
       \E c \in Connections : state[c] \in {"Connected", "Disconnecting"}
  /\ current = 1 /\ state[1] = "Connected" => HeaderStatus = "SYSTEM ONLINE"

\* What reaches the store is a lossy feed of what the API server sends: losses,
\* reconnections and several connections neither repeat nor reorder it.
StoreFeed == INSTANCE LossyFeed WITH produced <- Len(feed), received <- received
StoreIsLossyFeed == StoreFeed!Spec

\* Where in received the messages for a method are, and what was in them.
Arrivals(method) == {i \in DOMAIN received : feed[received[i]].method = method}
Content(i) == feed[received[i]].raw

\* The last update of each process.
LatestStats ==
  {i \in Arrivals("ReceiveProcessStats") :
     \A j \in Arrivals("ReceiveProcessStats") : Content(j).Process = Content(i).Process => j <= i}

\* Every packet that arrived: the batch, and the place in it; and how many are not
\* behind it in a list with the newest batch first.
PacketsArrived ==
  UNION {{i} \X DOMAIN Content(i) : i \in Arrivals("ReceivePackets")}
PacketRank(q) ==
  Cardinality({p \in PacketsArrived : p[1] > q[1] \/ (p[1] = q[1] /\ p[2] <= q[2])})

\* What the store should hold of a message (types/index.ts).
StatsRow(raw) ==
  [process |-> raw.Process, bytesPerSecond |-> raw.BytesPerSecond, timestamp |-> raw.Timestamp]
AnomalyRow(raw) ==
  [remoteAddress |-> raw.RemoteAddress, reason |-> raw.Reason,
   severity |-> raw.Severity, timestamp |-> raw.Timestamp]
PacketRow(raw) ==
  [remoteAddress |-> raw.RemoteAddress, protocol |-> raw.Protocol, timestamp |-> raw.Timestamp]

\* packets is the latest MAX_PACKETS, whole batches in order, newest batch first.
PacketsMatch ==
  /\ Len(packets) = AtMost(Cardinality(PacketsArrived), MAX_PACKETS)
  /\ \A q \in PacketsArrived :
       PacketRank(q) <= MAX_PACKETS => packets[PacketRank(q)] = PacketRow(Content(q[1])[q[2]])

\* processStats is the last update of each of the MAX_PROCESSES processes heard of
\* last, and in that order.
ProcessesMatch ==
  Lists(processStats, LatestStats, [i \in LatestStats |-> StatsRow(Content(i))], MAX_PROCESSES)

\* anomalies is the latest MAX_ANOMALIES, newest first.
AnomaliesMatch ==
  LET arrived == Arrivals("ReceiveAnomaly")
  IN  Lists(anomalies, arrived, [i \in arrived |-> AnomalyRow(Content(i))], MAX_ANOMALIES)

\* After any history of messages, outages and remounts the store's lists are what
\* their names promise (aether-store.ts:31-45), with the fields of types/index.ts:
\* the cut to MAX_PROCESSES after each upsert, above all, never forgets a process
\* that was heard of more recently than one it keeps.
StoreMatchesReference == PacketsMatch /\ ProcessesMatch /\ AnomaliesMatch

\* React needs keys that tell a list's rows apart: no process is listed twice with
\* one timestamp and no two alerts get one key (ProcessTracker.tsx:30,
\* AnomalyFeed.tsx:55), though alerts may agree in timestamp and reason.
RowKeysDistinct ==
  \A rows \in {ProcessTrackerRows, AnomalyFeedRows} :
    \A i, j \in DOMAIN rows : rows[i].key = rows[j].key => i = j

\* The console's lines about the connection alternate and the last one agrees with
\* the header (LiveConsole.tsx:62-67), across remounts, late closes and rendering
\* errors, after which it starts afresh.
ConsoleFollowsConnection ==
  LET About(i) == ConsoleRows[i].about
      lines == {i \in DOMAIN ConsoleRows : About(i)[1] = "connection"}
  IN  /\ \A i, j \in lines : i < j /\ About(i) = About(j) =>
           \E k \in lines : i < k /\ k < j /\ About(k) # About(i)
      /\ \A i \in lines : (\A j \in lines : j <= i) => About(i) = <<"connection", connected>>

Served(c) == state[c] = "Connected" /\ joined[c] = Len(Groups)

\* A connection that was up when the API server was lost is back in every group
\* once the server stays reachable, unless the client had given up before
\* (withAutomaticReconnect, signalr.ts:48; NetworkMonitorHub.cs:7-15).
RestoredAfterOutage ==
  \A c \in Connections :
    (state[c] \in Started /\ [](reachable /\ current = c)) ~> Served(c)

\* Every connection that is no longer _connection ends, also when it is stopped
\* in the middle of start() or of a reconnect attempt (signalr.ts:107-118).
StoppedConnectionsEnd ==
  \A c \in Connections : (c # current) ~> (state[c] = "Disconnected" \/ c = current)
=============================================================================
