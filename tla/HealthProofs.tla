---------------------------- MODULE HealthProofs ----------------------------
(***************************************************************************)
(* The figures of a health report where they are made and where they are   *)
(* drawn.                                                                  *)
(*                                                                         *)
(* MetricsSnapshot conserves counts, latencies and the maximum, for every  *)
(* set of latencies and every interleaving of the two threads.             *)
(*                                                                         *)
(* DashboardPanels shows the last report within a period.  A panel that is *)
(* behind has its timer running: the time since the last change and the    *)
(* time until the timer fires together are at most a period (ChartFollows, *)
(* PieFollows, LatencyFollows).  The latency's timer, which reports        *)
(* restart, was restarted at most once since it last fired (OneRestart).   *)
(***************************************************************************)
EXTENDS MetricsSnapshot, DashboardPanels, OrderLemmas, FiniteSetTheorems, TLAPS

-----------------------------------------------------------------------------
(* MetricsSnapshot. *)

\* The snapshot's parts not taken yet are zero, and the CAS loop only tries to
\* raise the maximum.
Locals ==
  /\ monitor = "delay" => snap.count = 0
  /\ monitor \in {"delay", "sum"} => snap.sum = 0
  /\ monitor \in {"delay", "sum", "max"} => snap.max = 0
  /\ recorder = "exchange" => latency > current

IInv == TypeOK /\ Locals /\ CountersConserved /\ MaxNeverLost

\* Every step of the two threads keeps TypeOK.
LEMMA TypeStep == TypeOK /\ [Next]_vars => TypeOK'
<1> SUFFICES ASSUME TypeOK, [Next]_vars PROVE TypeOK'
  OBVIOUS
<1> USE LatenciesAssumption, BoundAssumption DEF TypeOK, Counts
<1>1. CASE IncrementTotal
  BY <1>1 DEF IncrementTotal, monitorVars
<1>2. CASE IncrementWindow
  BY <1>2 DEF IncrementWindow, monitorVars
<1>3. CASE AddLatency
  BY <1>3 DEF AddLatency, monitorVars
<1>4. CASE ReadMax
  BY <1>4 DEF ReadMax, Done, Larger, fields, monitorVars
<1>5. CASE CompareExchange
  BY <1>5 DEF CompareExchange, Done, Larger, monitorVars
<1>6. CASE TakeCount
  BY <1>6 DEF TakeCount, recorderVars
<1>7. CASE TakeSum
  BY <1>7 DEF TakeSum, recorderVars
<1>8. CASE TakeMax
  BY <1>8 DEF TakeMax, recorderVars
<1>9. CASE Report
  BY <1>9 DEF Report, Larger, fields, recorderVars
<1>10. CASE UNCHANGED vars
  BY <1>10 DEF vars, fields, recorderVars, monitorVars
<1> QED
  BY <1>1, <1>2, <1>3, <1>4, <1>5, <1>6, <1>7, <1>8, <1>9, <1>10
  DEF Next, RecordPacket, Snapshot

\* Every step of the two threads keeps IInv.
LEMMA StepIInv == IInv /\ [Next]_vars => IInv'
<1> SUFFICES ASSUME IInv, [Next]_vars PROVE IInv'
  OBVIOUS
<1>0. TypeOK /\ TypeOK' /\ Locals /\ CountersConserved /\ MaxNeverLost
  BY TypeStep DEF IInv
<1>a. /\ latency \in Nat /\ maxLatency \in Nat /\ current \in Nat
      /\ packetCount \in Nat /\ windowPacketCount \in Nat /\ latencySum \in Nat
      /\ snap \in Counts /\ reported \in Counts /\ recorded \in [sum : Nat, max : Nat]
  BY <1>0, LatenciesAssumption DEF TypeOK
<1> SUFFICES Locals' /\ CountersConserved' /\ MaxNeverLost'
  BY <1>0 DEF IInv
<1> USE <1>0, <1>a DEF Counts, Locals, CountersConserved, MaxNeverLost, Larger
<1>1. CASE IncrementTotal
  BY <1>1, LatenciesAssumption DEF IncrementTotal, monitorVars
<1>2. CASE IncrementWindow
  BY <1>2 DEF IncrementWindow, monitorVars
<1>3. CASE AddLatency
  BY <1>3 DEF AddLatency, monitorVars
<1>4. CASE ReadMax
  BY <1>4 DEF ReadMax, Done, fields, monitorVars
<1>5. CASE CompareExchange
  BY <1>5 DEF CompareExchange, Done, monitorVars
<1>6. CASE TakeCount
  BY <1>6 DEF TakeCount, recorderVars
<1>7. CASE TakeSum
  BY <1>7 DEF TakeSum, recorderVars
<1>8. CASE TakeMax
  BY <1>8 DEF TakeMax, recorderVars
<1>9. CASE Report
  BY <1>9 DEF Report, fields, recorderVars
<1>10. CASE UNCHANGED vars
  BY <1>10 DEF vars, fields, recorderVars, monitorVars
<1> QED
  BY <1>1, <1>2, <1>3, <1>4, <1>5, <1>6, <1>7, <1>8, <1>9, <1>10
  DEF Next, RecordPacket, Snapshot

\* The reachable states satisfy IInv.
THEOREM Invariance == Spec => []IInv
<1>1. Init => IInv
  BY BoundAssumption
  DEF Init, IInv, TypeOK, Counts, Locals, CountersConserved, MaxNeverLost, Larger
<1> QED
  BY <1>1, StepIInv, PTL DEF Spec

\* The fields always have their types.
THEOREM TypeCorrect == Spec => []TypeOK
<1>1. IInv => TypeOK
  BY DEF IInv
<1> QED
  BY <1>1, Invariance, PTL

\* No packet and no latency is lost or counted twice between RecordPacket and
\* Snapshot.
THEOREM Conservation == Spec => []CountersConserved
<1>1. IInv => CountersConserved
  BY DEF IInv
<1> QED
  BY <1>1, Invariance, PTL

\* The highest latency recorded is reported, or still to be.
THEOREM MaximumKept == Spec => []MaxNeverLost
<1>1. IInv => MaxNeverLost
  BY DEF IInv
<1> QED
  BY <1>1, Invariance, PTL

-----------------------------------------------------------------------------
(* DashboardPanels. *)

PacketRecords == UNION {{b[i] : i \in DOMAIN b} : b \in Batches}

PanelsTypeOK ==
  /\ page \in {"none", "warRoom", "error"}
  /\ packets \in Seq(PacketRecords)
  /\ health \in Reports \cup {null}
  /\ due \in [Timers -> 0..Period]
  /\ age \in 0..(Period + 1)
  /\ sinceHealth \in 0..HealthGap
  /\ undrawn \in Nat

Throughput == IF health = null THEN 0 ELSE health.packetsPerSecond

\* Each panel is up to date, or its timer fires before a period is over.
ChartFollows ==
  /\ chart \in Seq(Nat)
  /\ Len(chart) = WINDOW
  /\ age + due["chart"] > Period => chart[WINDOW] = Throughput

PieFollows == age + due["pie"] > Period => SlicesCount

LatencyFollows ==
  /\ baseLatency = LatencyBase(health)
  /\ age + due["latency"] > Period =>
       \/ displayLatency \in (baseLatency - 2)..(baseLatency + 2)
       \/ baseLatency < 12 /\ displayLatency = 10

\* The timer was not restarted since it last fired, or once, by the last report.
OneRestart ==
  \/ undrawn + due["latency"] <= Period
  \/ sinceHealth + due["latency"] = Period /\ undrawn <= Period + sinceHealth

Follows == ChartFollows /\ PieFollows /\ LatencyFollows /\ OneRestart

PanelsInv == PanelsTypeOK /\ (page = "warRoom" => Follows)

\* What is counted of the store's packets is a number.
LEMMA CountIsNat ==
  ASSUME packets \in Seq(PacketRecords), NEW I \in SUBSET (DOMAIN packets)
  PROVE  Cardinality(I) \in Nat
<1>1. IsFiniteSet(DOMAIN packets)
  BY LenProperties, FS_Interval
<1>2. QED
  BY <1>1, FS_Subset, FS_CardinalityType

\* A batch that arrives keeps the list a list of packets.
LEMMA PacketsStay ==
  ASSUME packets \in Seq(PacketRecords), NEW b \in Batches
  PROVE  Slice(b \o packets, MAX_PACKETS) \in Seq(PacketRecords)
<1>1. b \in Seq(PacketRecords)
  <2>1. b \in Seq({b[i] : i \in DOMAIN b})
    BY BatchesAssumption
  <2>2. {b[i] : i \in DOMAIN b} \subseteq PacketRecords
    BY DEF PacketRecords
  <2>3. QED
    BY <2>1, <2>2, SeqMonotonic
<1>2. b \o packets \in Seq(PacketRecords)
  BY <1>1, ConcatProperties
<1>3. MAX_PACKETS \in Nat
  BY LimitsAssumption
<1>4. QED
  <2>1. Leading(b \o packets, MAX_PACKETS) \in Seq(PacketRecords)
    BY <1>2, <1>3, KeepFirst
  <2>2. QED
    BY <2>1 DEF Slice, Leading

\* The latency display starts from a number, with a report or without.
LEMMA BaseIsNat == ASSUME NEW h \in Reports \cup {null} PROVE LatencyBase(h) \in Nat
<1>1. CASE h = null
  BY <1>1 DEF LatencyBase
<1>2. CASE h # null
  <2>1. h.avgLatencyMs \in Nat
    BY <1>2, ReportsAssumption
  <2>2. QED
    BY <2>1 DEF LatencyBase
<1>3. QED
  BY <1>1, <1>2

\* A timer that fires or is restarted, alone, and time that passes keep all
\* timers between zero and the period.
LEMMA DueStays ==
  ASSUME due \in [Timers -> 0..Period]
  PROVE  /\ [t \in Timers |-> Period] \in [Timers -> 0..Period]
         /\ \A timer \in Timers : [due EXCEPT ![timer] = Period] \in [Timers -> 0..Period]
         /\ (\A t \in Timers : due[t] > 0) =>
              [t \in Timers |-> due[t] - 1] \in [Timers -> 0..Period]
         /\ [t \in Timers |-> due[t]] = due
<1>1. Period \in 0..Period /\ Period \in Nat
  BY PanelsAssumption
<1>2. ASSUME \A t \in Timers : due[t] > 0
      PROVE  \A t \in Timers : due[t] - 1 \in 0..Period
  <2>1. \A t \in Timers : due[t] \in 0..Period
    OBVIOUS
  <2>2. QED
    BY <1>1, <1>2, <2>1
<1>3. QED
  BY <1>1, <1>2

\* Every step of the panels keeps PanelsTypeOK.
LEMMA PanelsTypeStep == PanelsTypeOK /\ [PanelsNext]_dashboardVars => PanelsTypeOK'
<1> SUFFICES ASSUME PanelsTypeOK, [PanelsNext]_dashboardVars PROVE PanelsTypeOK'
  OBVIOUS
<1>a. Period \in Nat /\ HealthGap \in Nat
  BY PanelsAssumption
<1>b. /\ page \in {"none", "warRoom", "error"}
      /\ packets \in Seq(PacketRecords)
      /\ health \in Reports \cup {null}
      /\ due \in [Timers -> 0..Period]
      /\ age \in 0..(Period + 1)
      /\ sinceHealth \in 0..HealthGap
      /\ undrawn \in Nat
  BY DEF PanelsTypeOK
<1>1. CASE Mount \/ Remount
  <2>1. /\ page' = "warRoom" /\ packets' = packets /\ health' = health
        /\ due' = [t \in Timers |-> Period]
        /\ age' = 0 /\ undrawn' = 0 /\ sinceHealth' = sinceHealth
    BY <1>1 DEF Mount, Remount, storeVars
  <2>2. QED
    BY <1>a, <1>b, <2>1, DueStays DEF PanelsTypeOK
<1>2. CASE Unmount
  <2>1. page' = "error" /\ UNCHANGED <<packets, health, due, age, undrawn, sinceHealth>>
    BY <1>2 DEF Unmount, panelVars, timeVars
  <2>2. QED
    BY <1>b, <2>1 DEF PanelsTypeOK
<1>3. ASSUME NEW b \in Batches, ReceivePackets(b) PROVE PanelsTypeOK'
  <2>1. /\ packets' = Slice(b \o packets, MAX_PACKETS)
        /\ age' = 0 /\ UNCHANGED <<page, health, due, undrawn, sinceHealth>>
    BY <1>3 DEF ReceivePackets, addPackets, panelVars
  <2>2. packets' \in Seq(PacketRecords)
    BY <1>b, <2>1, PacketsStay
  <2>3. QED
    BY <1>a, <1>b, <2>1, <2>2 DEF PanelsTypeOK
<1>4. ASSUME NEW h \in Reports, ReceiveHealth(h) PROVE PanelsTypeOK'
  <2>1. /\ health' = h
        /\ age' = 0 /\ sinceHealth' = 0 /\ UNCHANGED <<page, packets, undrawn>>
    BY <1>4 DEF ReceiveHealth, setHealth
  <2>2. due' = due \/ due' = [due EXCEPT !["latency"] = Period]
    BY <1>4 DEF ReceiveHealth, LatencyEffect
  <2>3. due' \in [Timers -> 0..Period]
    BY <1>b, <2>2, DueStays DEF Timers
  <2>4. QED
    BY <1>a, <1>b, <2>1, <2>3 DEF PanelsTypeOK
<1>5. ASSUME NEW timer \in Timers, Fires(timer), undrawn' \in {0, undrawn} PROVE PanelsTypeOK'
  <2>1. /\ due' = [due EXCEPT ![timer] = Period]
        /\ UNCHANGED <<page, packets, health, age, sinceHealth>>
    BY <1>5 DEF Fires, storeVars
  <2>2. due' \in [Timers -> 0..Period]
    BY <1>b, <2>1, DueStays
  <2>3. undrawn' \in Nat
    BY <1>b, <1>5
  <2>4. QED
    BY <1>b, <2>1, <2>2, <2>3 DEF PanelsTypeOK
<1>6. CASE Pass
  <2>1. /\ UNCHANGED <<page, packets, health>>
        /\ sinceHealth' = IF sinceHealth < HealthGap THEN sinceHealth + 1 ELSE sinceHealth
        /\ age' = IF age <= Period THEN age + 1 ELSE age
        /\ undrawn' = IF page = "warRoom" THEN undrawn + 1 ELSE undrawn
    BY <1>6 DEF Pass, storeVars
  <2>2. due' \in [Timers -> 0..Period]
    <3>1. CASE page = "warRoom"
      BY <1>6, <1>b, <3>1, DueStays DEF Pass
    <3>2. CASE page # "warRoom"
      BY <1>6, <1>b, <3>2, DueStays DEF Pass
    <3>3. QED
      BY <3>1, <3>2
  <2>3. sinceHealth' \in 0..HealthGap /\ age' \in 0..(Period + 1) /\ undrawn' \in Nat
    BY <1>a, <1>b, <2>1
  <2>4. QED
    BY <1>b, <2>1, <2>2, <2>3 DEF PanelsTypeOK
<1>7. CASE UNCHANGED dashboardVars
  BY <1>b, <1>7 DEF dashboardVars, storeVars, panelVars, timeVars, PanelsTypeOK
<1>8. CASE ChartFires
  BY <1>5, <1>8 DEF ChartFires, Timers
<1>9. CASE PieFires
  BY <1>5, <1>9 DEF PieFires, Timers
<1>10. CASE LatencyFires
  BY <1>5, <1>10 DEF LatencyFires, Timers
<1>11. QED
  BY <1>1, <1>2, <1>3, <1>4, <1>6, <1>7, <1>8, <1>9, <1>10 DEF PanelsNext

\* What happened at this moment asks nothing of a panel whose timer runs.
LEMMA JustChanged ==
  ASSUME PanelsTypeOK', age' = 0, NEW timer \in Timers
  PROVE  ~(age' + due'[timer] > Period)
BY PanelsAssumption DEF PanelsTypeOK

\* Right after the pie was drawn it counts the packets.
LEMMA PieDrawn == ASSUME PanelsTypeOK, PieFires PROVE SlicesCount'
<1>1. packets' = packets /\ slices' = [p \in {p \in Protocols : Count(p) > 0} |-> Count(p)]
  BY DEF PieFires, Fires, storeVars
<1>2. ASSUME NEW p \in Protocols
      PROVE  /\ Count(p) \in Nat
             /\ Count(p) = Cardinality({i \in DOMAIN packets :
                  IF p = "OTHER" THEN packets[i].protocol \notin Protocols \ {"OTHER"}
                                 ELSE packets[i].protocol = p})
  <2>1. {i \in DOMAIN packets : SliceOf(packets[i]) = p}
          = {i \in DOMAIN packets :
               IF p = "OTHER" THEN packets[i].protocol \notin Protocols \ {"OTHER"}
                              ELSE packets[i].protocol = p}
    BY DEF SliceOf, Protocols
  <2>2. Count(p) \in Nat
    BY CountIsNat DEF Count, PanelsTypeOK
  <2>3. QED
    BY <2>1, <2>2 DEF Count
<1>3. ASSUME NEW p \in Protocols
      PROVE  IF Count(p) = 0 THEN p \notin DOMAIN slices'
                             ELSE p \in DOMAIN slices' /\ slices'[p] = Count(p)
  <2> DEFINE drawn == {q \in Protocols : Count(q) > 0}
  <2>1. p \in drawn <=> Count(p) # 0
    <3>1. Count(p) \in Nat
      BY <1>2, Zenon
    <3>2. \A n \in Nat : n > 0 <=> n # 0
      OBVIOUS
    <3>3. QED
      BY <3>1, <3>2, Zenon
  <2>2. DOMAIN slices' = drawn /\ \A q \in drawn : slices'[q] = Count(q)
    BY <1>1, Zenon
  <2>3. QED
    BY <2>1, <2>2, Zenon
<1>4. QED
  BY <1>1, <1>2, <1>3 DEF SlicesCount

\* A report that does not restart the latency's timer brings no other base.
LEMMA EffectKeepsBase ==
  ASSUME page = "warRoom", baseLatency = LatencyBase(health), NEW h \in Reports, LatencyEffect(h)
  PROVE  baseLatency' = LatencyBase(h)
<1>1. h # null
  BY ReportsAssumption
<1>2. CASE health = null \/ health.avgLatencyMs # h.avgLatencyMs
  BY <1>2 DEF LatencyEffect
<1>3. CASE ~(health = null \/ health.avgLatencyMs # h.avgLatencyMs)
  BY <1>1, <1>3 DEF LatencyEffect, LatencyBase
<1>4. QED
  BY <1>2, <1>3

\* Every step of the panels keeps PanelsInv.
LEMMA PanelsStep == PanelsInv /\ [PanelsNext]_dashboardVars => PanelsInv'
<1> SUFFICES ASSUME PanelsInv, [PanelsNext]_dashboardVars, PanelsTypeOK', page' = "warRoom"
             PROVE  Follows'
  BY PanelsTypeStep DEF PanelsInv
<1>a. PanelsTypeOK /\ (page = "warRoom" => Follows)
  BY DEF PanelsInv
<1>b. Period \in Nat \ {0} /\ HealthGap \in Nat /\ HealthGap > Period /\ WINDOW \in Nat \ {0}
  BY PanelsAssumption
<1>c. /\ \A t \in Timers : due[t] \in 0..Period
      /\ \A t \in Timers : due'[t] \in 0..Period
      /\ age \in 0..(Period + 1) /\ sinceHealth \in 0..HealthGap /\ undrawn \in Nat
      /\ health \in Reports \cup {null}
      /\ due \in [Timers -> 0..Period]
  BY <1>a DEF PanelsTypeOK
<1>d. "chart" \in Timers /\ "pie" \in Timers /\ "latency" \in Timers
  BY DEF Timers
<1>1. CASE Mount \/ Remount
  <2>1. /\ chart' = [i \in 1..WINDOW |-> 0]
        /\ baseLatency' = LatencyBase(health) /\ health' = health
        /\ due'["latency"] = Period /\ age' = 0 /\ undrawn' = 0
    BY <1>1, <1>d DEF Mount, Remount, storeVars
  <2>2. chart' \in Seq(Nat) /\ Len(chart') = WINDOW
    BY <1>b, <2>1
  <2>3. ChartFollows' /\ PieFollows'
    BY <1>d, <2>1, <2>2, JustChanged DEF ChartFollows, PieFollows
  <2>4. LatencyFollows'
    BY <1>d, <2>1, JustChanged DEF LatencyFollows
  <2>5. OneRestart'
    BY <1>b, <2>1 DEF OneRestart
  <2>6. QED
    BY <2>3, <2>4, <2>5 DEF Follows
<1>2. CASE Unmount
  BY <1>2 DEF Unmount
<1>3. ASSUME NEW b \in Batches, ReceivePackets(b) PROVE Follows'
  <2>1. age' = 0 /\ UNCHANGED <<page, health, panelVars, sinceHealth, undrawn>>
    BY <1>3 DEF ReceivePackets, addPackets
  <2>2. ChartFollows' /\ PieFollows'
    BY <1>a, <1>d, <2>1, JustChanged DEF Follows, ChartFollows, PieFollows, panelVars
  <2>3. LatencyFollows' /\ OneRestart'
    BY <1>a, <1>d, <2>1, JustChanged DEF Follows, LatencyFollows, OneRestart, panelVars
  <2>4. QED
    BY <2>2, <2>3 DEF Follows
<1>4. ASSUME NEW h \in Reports, ReceiveHealth(h) PROVE Follows'
  <2>1. /\ age' = 0 /\ health' = h /\ sinceHealth = HealthGap /\ sinceHealth' = 0
        /\ UNCHANGED <<page, chart, undrawn>> /\ LatencyEffect(h)
    BY <1>4 DEF ReceiveHealth, setHealth
  <2>2. Follows
    BY <1>a, <2>1
  <2>3. ChartFollows' /\ PieFollows'
    BY <1>d, <2>1, <2>2, JustChanged DEF Follows, ChartFollows, PieFollows
  <2>4. LatencyFollows'
    BY <1>d, <2>1, <2>2, EffectKeepsBase, JustChanged DEF Follows, LatencyFollows
  <2>5. undrawn + due["latency"] <= Period
    BY <1>b, <1>c, <1>d, <2>1, <2>2 DEF Follows, OneRestart
  <2>6. due'["latency"] = Period \/ due'["latency"] = due["latency"]
    BY <1>c, <1>d, <2>1 DEF LatencyEffect
  <2>7. OneRestart'
    BY <1>b, <1>c, <1>d, <2>1, <2>5, <2>6 DEF OneRestart
  <2>8. QED
    BY <2>3, <2>4, <2>7 DEF Follows
<1>5. ASSUME NEW timer \in Timers, Fires(timer)
      PROVE  /\ Follows
             /\ UNCHANGED <<packets, health, baseLatency, sinceHealth, age>>
             /\ due'[timer] = Period
             /\ \A t \in Timers \ {timer} : due'[t] = due[t]
  BY <1>a, <1>c, <1>5 DEF Fires, storeVars
<1>6. CASE ChartFires
  <2>1. Fires("chart") /\ UNCHANGED <<slices, displayLatency, undrawn>>
    BY <1>6 DEF ChartFires
  <2>2. Throughput \in Nat
    BY <1>c, ReportsAssumption DEF Throughput
  <2>3. chart' = Newest(Append(chart, Throughput), WINDOW)
    BY <1>6 DEF ChartFires, Throughput, Newest
  <2>4. chart \in Seq(Nat) /\ Len(chart) = WINDOW
    BY <1>5, <1>d, <2>1 DEF Follows, ChartFollows
  <2>5. chart' \in Seq(Nat) /\ Len(chart') = WINDOW /\ chart'[WINDOW] = Throughput
    <3>1. /\ chart' \in Seq(Nat)
          /\ \E gone \in Nat : IsNewest(chart', chart, Throughput, WINDOW, gone)
      BY <1>b, <2>2, <2>3, <2>4, KeepLast
    <3>2. PICK gone \in Nat : IsNewest(chart', chart, Throughput, WINDOW, gone)
      BY <3>1
    <3>3. gone = 1 /\ Len(chart) + 1 - gone = WINDOW
      BY <1>b, <2>4, <3>2 DEF IsNewest
    <3>4. QED
      BY <3>1, <3>2, <3>3 DEF IsNewest
  <2>6. ChartFollows'
    BY <1>5, <1>d, <2>1, <2>5 DEF ChartFollows, Throughput
  <2>7. PieFollows'
    BY <1>5, <1>d, <2>1 DEF Follows, PieFollows, SlicesCount
  <2>8. LatencyFollows' /\ OneRestart'
    BY <1>5, <1>d, <2>1 DEF Follows, LatencyFollows, OneRestart
  <2>9. QED
    BY <2>6, <2>7, <2>8 DEF Follows
<1>7. CASE PieFires
  <2>1. Fires("pie") /\ UNCHANGED <<chart, displayLatency, undrawn>>
    BY <1>7 DEF PieFires
  <2>2. ChartFollows'
    BY <1>5, <1>d, <2>1 DEF Follows, ChartFollows, Throughput
  <2>3. PieFollows'
    BY <1>a, <1>7, PieDrawn DEF PieFollows
  <2>4. LatencyFollows' /\ OneRestart'
    BY <1>5, <1>d, <2>1 DEF Follows, LatencyFollows, OneRestart
  <2>5. QED
    BY <2>2, <2>3, <2>4 DEF Follows
<1>8. CASE LatencyFires
  <2>1. Fires("latency") /\ UNCHANGED <<chart, slices>> /\ undrawn' = 0
    BY <1>8 DEF LatencyFires
  <2>2. ChartFollows'
    BY <1>5, <1>d, <2>1 DEF Follows, ChartFollows, Throughput
  <2>3. PieFollows'
    BY <1>5, <1>d, <2>1 DEF Follows, PieFollows, SlicesCount
  <2>4. baseLatency = LatencyBase(health) /\ baseLatency \in Nat
    BY <1>5, <1>c, <1>d, <2>1, BaseIsNat DEF Follows, LatencyFollows
  <2>5. PICK jitter \in -2..2 :
          displayLatency' = IF baseLatency + jitter > 10 THEN baseLatency + jitter ELSE 10
    BY <1>8 DEF LatencyFires
  <2>6. \/ displayLatency' \in (baseLatency - 2)..(baseLatency + 2)
        \/ baseLatency < 12 /\ displayLatency' = 10
    BY <2>4, <2>5
  <2>7. LatencyFollows'
    BY <1>5, <1>d, <2>1, <2>4, <2>6 DEF LatencyFollows
  <2>8. OneRestart'
    BY <1>5, <1>b, <1>d, <2>1 DEF OneRestart
  <2>9. QED
    BY <2>2, <2>3, <2>7, <2>8 DEF Follows
<1>9. CASE Pass
  <2>1. /\ UNCHANGED <<page, packets, health, chart, slices, displayLatency, baseLatency>>
        /\ page = "warRoom"
        /\ \A t \in Timers : due[t] > 0 /\ due'[t] = due[t] - 1
        /\ sinceHealth' = IF sinceHealth < HealthGap THEN sinceHealth + 1 ELSE sinceHealth
        /\ age' = IF age <= Period THEN age + 1 ELSE age
        /\ undrawn' = undrawn + 1
    BY <1>9 DEF Pass, storeVars
  <2>2. Follows
    BY <1>a, <2>1
  <2>3. \A t \in Timers : age' + due'[t] > Period => age + due[t] > Period
    BY <1>b, <1>c, <2>1
  <2>4. ChartFollows'
    BY <1>d, <2>1, <2>2, <2>3 DEF Follows, ChartFollows, Throughput
  <2>5. PieFollows'
    BY <1>d, <2>1, <2>2, <2>3 DEF Follows, PieFollows, SlicesCount
  <2>6. LatencyFollows'
    BY <1>d, <2>1, <2>2, <2>3 DEF Follows, LatencyFollows
  <2>7. OneRestart'
    BY <1>b, <1>c, <1>d, <2>1, <2>2 DEF Follows, OneRestart
  <2>8. QED
    BY <2>4, <2>5, <2>6, <2>7 DEF Follows
<1>10. CASE UNCHANGED dashboardVars
  BY <1>a, <1>10 DEF dashboardVars, storeVars, panelVars, timeVars, Follows, ChartFollows,
    PieFollows, LatencyFollows, OneRestart, SlicesCount, Throughput
<1>11. QED
  BY <1>1, <1>2, <1>3, <1>4, <1>6, <1>7, <1>8, <1>9, <1>10 DEF PanelsNext

\* Every panel is right one period after the last change, and reports that keep
\* changing the average cannot starve the latency display, for any window, any
\* period, and reports that are further apart than a period.
THEOREM PanelsShowLastReport == PanelsSpec => []PanelsCurrent
<1>1. PanelsInit => PanelsInv
  <2> SUFFICES ASSUME PanelsInit PROVE PanelsTypeOK
    BY DEF PanelsInv, PanelsInit
  <2>1. Period \in Nat /\ HealthGap \in Nat
    BY PanelsAssumption
  <2>2. QED
    BY <2>1 DEF PanelsInit, StoreInit, PanelsTypeOK, Timers
<1>2. PanelsInv => PanelsCurrent
  <2> SUFFICES ASSUME PanelsInv, page = "warRoom"
               PROVE  /\ undrawn <= 2 * Period
                      /\ age > Period =>
                           /\ Len(chart) = WINDOW
                           /\ chart[WINDOW] = SystemHealthView.throughput
                           /\ SlicesCount
                           /\ LET avg == SystemHealthView.latency
                                  base == IF avg = 0 THEN 138 ELSE avg
                              IN  \/ displayLatency \in (base - 2)..(base + 2)
                                  \/ base < 12 /\ displayLatency = 10
    BY DEF PanelsCurrent
  <2>1. PanelsTypeOK /\ Follows
    BY DEF PanelsInv
  <2>2. \A t \in Timers : due[t] \in 0..Period
    BY <2>1 DEF PanelsTypeOK
  <2>3. /\ "chart" \in Timers /\ "pie" \in Timers /\ "latency" \in Timers
        /\ Period \in Nat /\ age \in 0..(Period + 1) /\ undrawn \in Nat /\ sinceHealth \in Nat
    BY <2>1, PanelsAssumption DEF Timers, PanelsTypeOK
  <2>4. undrawn <= 2 * Period
    BY <2>1, <2>2, <2>3 DEF Follows, OneRestart
  <2>5. ASSUME age > Period PROVE \A t \in Timers : age + due[t] > Period
    BY <2>2, <2>3, <2>5
  <2>6. SystemHealthView.throughput = Throughput
    BY DEF SystemHealthView, Throughput
  <2>7. LatencyBase(health) = IF SystemHealthView.latency = 0 THEN 138 ELSE SystemHealthView.latency
    BY DEF SystemHealthView, LatencyBase
  <2>8. QED
    BY <2>1, <2>3, <2>4, <2>5, <2>6, <2>7
    DEF Follows, ChartFollows, PieFollows, LatencyFollows
<1>3. QED
  BY <1>1, <1>2, PanelsStep, PTL DEF PanelsSpec

=============================================================================
