-------------------------- MODULE DashboardPanels --------------------------
(***************************************************************************)
(* The panels that redraw on timers of their own: NetworkTrafficChart,     *)
(* ProtocolPieChart and LatencyMonitor, beside the store they sample.      *)
(*                                                                         *)
(* Time is counted in steps of half a second.  A timer that is due fires   *)
(* before time goes on, in any order with the other timers and with what   *)
(* arrives.  React runs the effect of LatencyMonitor, which restarts its   *)
(* timer, within the turn in which health changes.                         *)
(***************************************************************************)
EXTENDS DashboardStore, FiniteSets

CONSTANTS
  WINDOW,        \* points of the chart
  Period,        \* setInterval's 1000 ms
  HealthGap,     \* least time between two health reports, one every 2000 ms
  Batches,       \* the batches of packets that may arrive
  Reports        \* the health reports that may arrive

ASSUME PanelsAssumption ==
  /\ WINDOW \in Nat \ {0}
  /\ Period \in Nat \ {0}
  /\ HealthGap \in Nat /\ HealthGap > Period
ASSUME BatchesAssumption == \A b \in Batches : b \in Seq({b[i] : i \in DOMAIN b})
ASSUME ReportsAssumption ==
  /\ Reports \subseteq [grpcConnected : BOOLEAN, packetsPerSecond : Nat, avgLatencyMs : Nat]
  /\ null \notin Reports

VARIABLES
  chart,           \* NetworkTrafficChart's data: packets per second
  slices,          \* ProtocolPieChart's data: protocol -> packets
  displayLatency,  \* LatencyMonitor's number
  baseLatency,     \* what its running effect adds jitter to
  due,             \* timer -> time until it fires
  sinceHealth,     \* time since the last report, up to HealthGap
  age,             \* time since store or page changed, up to Period + 1
  undrawn          \* time since displayLatency was last drawn, or its effect last begun anew

panelVars == <<chart, slices, displayLatency, baseLatency, due>>
timeVars == <<sinceHealth, age, undrawn>>
dashboardVars == <<page, storeVars, panelVars, timeVars>>

Timers == {"chart", "pie", "latency"}

\* Upper case, as p.protocol?.toUpperCase() makes them.
Protocols == {"TCP", "UDP", "ICMP", "OTHER"}
NoSlices == [p \in {} |-> 0]

\* health?.avgLatencyMs || 138: no report and a report of zero both give 138.
LatencyBase(h) == IF h = null THEN 138 ELSE IF h.avgLatencyMs = 0 THEN 138 ELSE h.avgLatencyMs

-----------------------------------------------------------------------------
PanelsInit ==
  /\ page = "none"
  /\ StoreInit
  /\ chart = <<>>
  /\ slices = NoSlices
  /\ displayLatency = 138
  /\ baseLatency = 138
  /\ due = [t \in Timers |-> Period]
  /\ sinceHealth = HealthGap
  /\ age = 0
  /\ undrawn = 0

\* The three panels mount with the page: empty data, fresh timers.
Mount ==
  /\ page # "warRoom"
  /\ page' = "warRoom"
  /\ chart' = [i \in 1..WINDOW |-> 0]
  /\ slices' = NoSlices
  /\ displayLatency' = 138
  /\ baseLatency' = LatencyBase(health)
  /\ due' = [t \in Timers |-> Period]
  /\ age' = 0
  /\ undrawn' = 0
  /\ UNCHANGED <<storeVars, sinceHealth>>

\* Strict mode, or the development server replaced a module: React cleans up the
\* effects of the mounted page and runs them again.  What they set is set anew, the
\* other data stay.
Remount ==
  /\ page = "warRoom"
  /\ chart' = [i \in 1..WINDOW |-> 0]
  /\ baseLatency' = LatencyBase(health)
  /\ due' = [t \in Timers |-> Period]
  /\ age' = 0
  /\ undrawn' = 0
  /\ UNCHANGED <<page, storeVars, slices, displayLatency, sinceHealth>>

\* They unmount with it: clearInterval.
Unmount ==
  /\ page = "warRoom"
  /\ page' = "error"
  /\ ConsoleUnmounts
  /\ UNCHANGED <<packets, processStats, anomalies, health, connected, panelVars, timeVars>>

-----------------------------------------------------------------------------
(* What arrives. *)

ReceivePackets(batch) ==
  /\ addPackets(batch)
  /\ age' = 0
  /\ UNCHANGED <<page, panelVars, sinceHealth, undrawn>>

\* Mutant of LatencyEffect: [] for [health?.avgLatencyMs].
LatencyEffectOnce(h) == UNCHANGED <<baseLatency, due>>

\* LatencyMonitor's effect runs again if avgLatencyMs is not what it was.
LatencyEffect(h) ==
  IF page = "warRoom" /\ (health = null \/ health.avgLatencyMs # h.avgLatencyMs)
    THEN /\ baseLatency' = LatencyBase(h)
         /\ due' = [due EXCEPT !["latency"] = Period]
    ELSE UNCHANGED <<baseLatency, due>>

ReceiveHealth(h) ==
  /\ sinceHealth = HealthGap
  /\ setHealth(h)
  /\ LatencyEffect(h)
  /\ sinceHealth' = 0
  /\ age' = 0
  /\ UNCHANGED <<page, chart, slices, displayLatency, undrawn>>

-----------------------------------------------------------------------------
(* The timers. *)

Fires(timer) ==
  /\ page = "warRoom"
  /\ due[timer] = 0
  /\ due' = [due EXCEPT ![timer] = Period]
  /\ UNCHANGED <<page, storeVars, baseLatency, sinceHealth, age>>

ChartFires ==
  /\ Fires("chart")
  /\ LET next == Append(chart, IF health = null THEN 0 ELSE health.packetsPerSecond)
     IN  chart' = IF Len(next) > WINDOW
                    THEN SubSeq(next, Len(next) - WINDOW + 1, Len(next))
                    ELSE next
  /\ UNCHANGED <<slices, displayLatency, undrawn>>

\* The slice a packet counts for, and the slices that are not empty.
SliceOf(packet) == IF packet.protocol \in Protocols THEN packet.protocol ELSE "OTHER"
Count(protocol) == Cardinality({i \in DOMAIN packets : SliceOf(packets[i]) = protocol})

PieFires ==
  /\ Fires("pie")
  /\ slices' = [p \in {p \in Protocols : Count(p) > 0} |-> Count(p)]
  /\ UNCHANGED <<chart, displayLatency, undrawn>>

LatencyFires ==
  /\ Fires("latency")
  /\ \E jitter \in -2..2 :
       displayLatency' = IF baseLatency + jitter > 10 THEN baseLatency + jitter ELSE 10
  /\ undrawn' = 0
  /\ UNCHANGED <<chart, slices>>

\* Half a second passes; only the timers of a mounted page run.
Pass ==
  /\ page = "warRoom" => \A t \in Timers : due[t] > 0
  /\ due' = [t \in Timers |-> IF page = "warRoom" THEN due[t] - 1 ELSE due[t]]
  /\ sinceHealth' = IF sinceHealth < HealthGap THEN sinceHealth + 1 ELSE sinceHealth
  /\ age' = IF age <= Period THEN age + 1 ELSE age
  /\ undrawn' = IF page = "warRoom" THEN undrawn + 1 ELSE undrawn
  /\ UNCHANGED <<page, storeVars, chart, slices, displayLatency, baseLatency>>

PanelsNext ==
  \/ Mount
  \/ Remount
  \/ Unmount
  \/ \E b \in Batches : ReceivePackets(b)
  \/ \E h \in Reports : ReceiveHealth(h)
  \/ ChartFires
  \/ PieFires
  \/ LatencyFires
  \/ Pass

PanelsSpec == PanelsInit /\ [][PanelsNext]_dashboardVars

-----------------------------------------------------------------------------
(* Properties. *)

\* Every packet of the store is in one slice, those of unknown protocols in OTHER.
SlicesCount ==
  \A p \in Protocols :
    LET InSlice(q) == IF p = "OTHER" THEN q.protocol \notin Protocols \ {"OTHER"}
                                     ELSE q.protocol = p
        n == Cardinality({i \in DOMAIN packets : InSlice(packets[i])})
    IN  IF n = 0 THEN p \notin DOMAIN slices ELSE p \in DOMAIN slices /\ slices[p] = n

\* One timer period after the last change, all panels show the same report: the
\* chart's last point is SystemHealth's throughput, the latency is SystemHealth's
\* up to the jitter (or the made-up 138 where that is zero), the pie counts the
\* store's packets (NetworkTrafficChart.tsx:23-35, ProtocolPieChart.tsx:24-47,
\* LatencyMonitor.tsx:12-20).  And however often the average changes, which restarts
\* the latency timer, reports come too seldom to starve it: the number is never
\* older than two periods.
PanelsCurrent ==
  page = "warRoom" =>
    /\ undrawn <= 2 * Period
    /\ age > Period =>
         /\ Len(chart) = WINDOW
         /\ chart[WINDOW] = SystemHealthView.throughput
         /\ SlicesCount
         /\ LET avg == SystemHealthView.latency
                base == IF avg = 0 THEN 138 ELSE avg
            IN  displayLatency \in (base - 2)..(base + 2) \/ (base < 12 /\ displayLatency = 10)
=============================================================================
