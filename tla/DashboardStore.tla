--------------------------- MODULE DashboardStore ---------------------------
(***************************************************************************)
(* The dashboard's zustand store (aether-store.ts), the console that       *)
(* listens to it (LiveConsole.tsx) and what the other panels draw from it. *)
(*                                                                         *)
(* A setter of the store runs to its end within one turn of the browser's  *)
(* event loop and calls the listeners whose slice it changed before it     *)
(* returns, so setter and listeners are one action.  DashboardConnection   *)
(* and DashboardPanels call the setters; who sets page is theirs too.      *)
(*                                                                         *)
(* Messages keep the fields something depends on.  remoteAddress stands    *)
(* for all that only tells one packet or alert from another.               *)
(***************************************************************************)
EXTENDS Integers, Sequences

CONSTANTS
  MAX_PACKETS, MAX_PROCESSES, MAX_ANOMALIES,  \* the store's limits
  MAX_VISIBLE,   \* rows of the threat feed
  MAX_LOGS,      \* lines of the console
  null

ASSUME LimitsAssumption ==
  {MAX_PACKETS, MAX_PROCESSES, MAX_ANOMALIES, MAX_VISIBLE, MAX_LOGS} \subseteq Nat \ {0}

VARIABLES
  page,          \* "warRoom", where LiveConsole listens; "none" or "error" before and
                 \* after a rendering error, where nothing is mounted
  packets,       \* newest batch first
  processStats,  \* last update first, one per process
  anomalies,     \* newest first
  health,        \* the last report or null
  connected,     \* the flag the header shows
  logs,          \* LiveConsole's lines
  lastPacketRef  \* timestamp of the packet LiveConsole wrote about last

consoleVars == <<logs, lastPacketRef>>
storeVars == <<packets, processStats, anomalies, health, connected, consoleVars>>

StoreInit ==
  /\ packets = <<>>
  /\ processStats = <<>>
  /\ anomalies = <<>>
  /\ health = null
  /\ connected = FALSE
  /\ logs = <<>>
  /\ lastPacketRef = 0

\* JavaScript's s.slice(0, n).
Slice(s, n) == SubSeq(s, 1, IF Len(s) < n THEN Len(s) ELSE n)

-----------------------------------------------------------------------------
(* Incoming messages: .NET sends PascalCase keys, the store wants camelCase. *)

camelizeKey ==
  [Process |-> "process", RemoteAddress |-> "remoteAddress", Protocol |-> "protocol",
   Timestamp |-> "timestamp", BytesPerSecond |-> "bytesPerSecond", Reason |-> "reason",
   Severity |-> "severity", GrpcConnected |-> "grpcConnected",
   PacketsPerSecond |-> "packetsPerSecond", AvgLatencyMs |-> "avgLatencyMs"]

\* Of two keys that camelize alike the later would win; .NET sends no such pair.
camelize(obj) ==
  [f \in {camelizeKey[k] : k \in DOMAIN obj} |->
     obj[CHOOSE k \in DOMAIN obj : camelizeKey[k] = f]]

\* The fields of each kind of message that something depends on, as .NET sends them.
Fields ==
  [ReceivePackets |-> {"RemoteAddress", "Protocol", "Timestamp"},
   ReceiveProcessStats |-> {"Process", "BytesPerSecond", "Timestamp"},
   ReceiveAnomaly |-> {"RemoteAddress", "Reason", "Severity", "Timestamp"},
   ReceiveHealth |-> {"GrpcConnected", "PacketsPerSecond", "AvgLatencyMs"}]

camelizeAll(batch) == [i \in DOMAIN batch |-> camelize(batch[i])]

-----------------------------------------------------------------------------
(* LiveConsole: the console's lines. *)

\* The log with one more line, the oldest dropped beyond MAX_LOGS.
addLog(level, about) ==
  LET next == Append(logs, [level |-> level, about |-> about])
  IN  IF Len(next) > MAX_LOGS
        THEN SubSeq(next, Len(next) - MAX_LOGS + 1, Len(next))
        ELSE next

listening == page = "warRoom"

\* A line for the head of the list, unless it has the timestamp of the packet
\* the last line was about.
PacketListener(now) ==
  IF listening /\ now # <<>> /\ now[1].timestamp # lastPacketRef
    THEN /\ lastPacketRef' = now[1].timestamp
         /\ logs' = addLog("INFO", <<"packet", now[1].remoteAddress>>)
    ELSE UNCHANGED consoleVars

AnomalyListener(now) ==
  /\ logs' = IF listening /\ now # <<>>
               THEN addLog("WARN", <<"anomaly", now[1].reason>>)
               ELSE logs
  /\ UNCHANGED lastPacketRef

\* Mutant of ConnectionListener: called for every set, changed or not.
ListenToEverySet(now) ==
  /\ logs' = IF listening
               THEN addLog(IF now THEN "INFO" ELSE "ERROR", <<"connection", now>>)
               ELSE logs
  /\ UNCHANGED lastPacketRef

\* zustand calls a listener only if the selected value is not the one before.
ConnectionListener(now) ==
  /\ logs' = IF listening /\ now # connected
               THEN addLog(IF now THEN "INFO" ELSE "ERROR", <<"connection", now>>)
               ELSE logs
  /\ UNCHANGED lastPacketRef

\* The console's lines are the component's own state and go with it.
ConsoleUnmounts ==
  /\ logs' = <<>>
  /\ lastPacketRef' = 0

-----------------------------------------------------------------------------
(* The store's setters. *)

addPackets(batch) ==
  LET next == Slice(batch \o packets, MAX_PACKETS)
  IN  /\ packets' = next
      /\ PacketListener(next)
      /\ UNCHANGED <<processStats, anomalies, health, connected>>

\* Mutant of upsertProcess: an update of a known process stays where it was.
upsertInPlace(process) ==
  /\ processStats' =
       IF \E i \in DOMAIN processStats : processStats[i].process = process.process
         THEN [i \in DOMAIN processStats |->
                 IF processStats[i].process = process.process THEN process ELSE processStats[i]]
         ELSE Slice(<<process>> \o processStats, MAX_PROCESSES)
  /\ UNCHANGED <<packets, anomalies, health, connected, consoleVars>>

\* JavaScript's stats.filter((p) => p.process !== name).
Others(stats, name) ==
  LET others[i \in 0..Len(stats)] ==
        IF i = 0 THEN <<>>
        ELSE IF stats[i].process = name THEN others[i - 1]
        ELSE Append(others[i - 1], stats[i])
  IN  others[Len(stats)]

upsertProcess(process) ==
  /\ processStats' = Slice(<<process>> \o Others(processStats, process.process), MAX_PROCESSES)
  /\ UNCHANGED <<packets, anomalies, health, connected, consoleVars>>

addAnomaly(a) ==
  LET next == Slice(<<a>> \o anomalies, MAX_ANOMALIES)
  IN  /\ anomalies' = next
      /\ AnomalyListener(next)
      /\ UNCHANGED <<packets, processStats, health, connected>>

\* LiveConsole's listener for health writes nothing.
setHealth(h) ==
  /\ health' = h
  /\ UNCHANGED <<packets, processStats, anomalies, connected, consoleVars>>

setConnected(c) ==
  /\ connected' = c
  /\ ConnectionListener(c)
  /\ UNCHANGED <<packets, processStats, anomalies, health>>

-----------------------------------------------------------------------------
(* What the panels draw. *)

HeaderStatus == IF connected THEN "SYSTEM ONLINE" ELSE "OFFLINE"

ConsoleRows == IF logs = <<>> THEN <<[level |-> "none", about |-> <<"waiting">>]>> ELSE logs

ProcessTrackerRows ==
  [i \in DOMAIN processStats |->
     [key |-> <<processStats[i].process, processStats[i].timestamp>>,
      name |-> processStats[i].process,
      rate |-> processStats[i].bytesPerSecond]]

\* Mutant of AnomalyFeedRows: the index is not part of the key.
AnomalyFeedRowsByTime ==
  [i \in DOMAIN Slice(anomalies, MAX_VISIBLE) |->
     [key |-> <<anomalies[i].timestamp, anomalies[i].reason>>,
      label |-> IF anomalies[i].severity = "CRITICAL" THEN "CRIT" ELSE "WARN",
      address |-> anomalies[i].remoteAddress]]

AnomalyFeedRows ==
  [i \in DOMAIN Slice(anomalies, MAX_VISIBLE) |->
     [key |-> <<anomalies[i].timestamp, anomalies[i].reason, i>>,
      label |-> IF anomalies[i].severity = "CRITICAL" THEN "CRIT" ELSE "WARN",
      address |-> anomalies[i].remoteAddress]]

LatencyColor(avg) == IF avg <= 100 THEN "green" ELSE IF avg <= 200 THEN "amber" ELSE "red"

SystemHealthView ==
  LET avg == IF health = null THEN 0 ELSE health.avgLatencyMs
  IN  [signalR |-> connected,
       gRPC |-> health # null /\ health.grpcConnected,
       throughput |-> IF health = null THEN 0 ELSE health.packetsPerSecond,
       latency |-> avg,
       color |-> LatencyColor(avg),
       bar |-> IF avg < 200 THEN (avg * 100) \div 200 ELSE 100]
=============================================================================
