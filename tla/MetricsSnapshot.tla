-------------------------- MODULE MetricsSnapshot --------------------------
(***************************************************************************)
(* The lock-free counters between the packet loop, which calls             *)
(* RecordPacket, and SystemMonitorService, which calls Snapshot every two  *)
(* seconds.  Each Interlocked operation is one step; the two threads       *)
(* interleave between them.                                                *)
(*                                                                         *)
(* The window's start time is left out: no property speaks of the rate's   *)
(* denominator.                                                            *)
(***************************************************************************)
EXTENDS Naturals

CONSTANTS
  Latencies,  \* the latencies packets may have, in ticks
  MaxPackets  \* model bound: packets recorded

ASSUME LatenciesAssumption == Latencies \subseteq Nat
ASSUME BoundAssumption == MaxPackets \in Nat

VARIABLES
  packetCount, windowPacketCount, latencySum, maxLatency,  \* the fields
  recorder,   \* where RecordPacket is
  latency,    \* its argument
  current,    \* the maximum it read
  monitor,    \* where Snapshot is
  snap,       \* what Snapshot has taken so far
  reported,   \* history: counts and latencies of all reports, their maximum
  recorded    \* history: latencies of all packets, highest of those done

fields == <<packetCount, windowPacketCount, latencySum, maxLatency>>
recorderVars == <<recorder, latency, current, recorded>>
monitorVars == <<monitor, snap, reported>>
vars == <<fields, recorderVars, monitorVars>>

Larger(m, n) == IF m < n THEN n ELSE m

Init ==
  /\ packetCount = 0
  /\ windowPacketCount = 0
  /\ latencySum = 0
  /\ maxLatency = 0
  /\ recorder = "idle"
  /\ latency = 0
  /\ current = 0
  /\ monitor = "delay"
  /\ snap = [count |-> 0, sum |-> 0, max |-> 0]
  /\ reported = [count |-> 0, sum |-> 0, max |-> 0]
  /\ recorded = [sum |-> 0, max |-> 0]

-----------------------------------------------------------------------------
(* RecordPacket, called by the packet loop for one packet at a time. *)

IncrementTotal ==
  /\ recorder = "idle"
  /\ packetCount < MaxPackets
  /\ \E l \in Latencies :
       /\ latency' = l
       /\ recorded' = [recorded EXCEPT !.sum = @ + l]
  /\ packetCount' = packetCount + 1
  /\ recorder' = "window"
  /\ UNCHANGED <<windowPacketCount, latencySum, maxLatency, current, monitorVars>>

IncrementWindow ==
  /\ recorder = "window"
  /\ windowPacketCount' = windowPacketCount + 1
  /\ recorder' = "sum"
  /\ UNCHANGED <<packetCount, latencySum, maxLatency, latency, current, recorded,
                 monitorVars>>

\* Mutant of AddLatency: the latency is added to the wrong field.
AddLatencyToMax ==
  /\ recorder = "sum"
  /\ maxLatency' = maxLatency + latency
  /\ recorder' = "max"
  /\ UNCHANGED <<packetCount, windowPacketCount, latencySum, latency, current,
                 recorded, monitorVars>>

AddLatency ==
  /\ recorder = "sum"
  /\ latencySum' = latencySum + latency
  /\ recorder' = "max"
  /\ UNCHANGED <<packetCount, windowPacketCount, maxLatency, latency, current,
                 recorded, monitorVars>>

\* The packet is done: the next one may come.
Done ==
  /\ recorder' = "idle"
  /\ recorded' = [recorded EXCEPT !.max = Larger(@, latency)]

ReadMax ==
  /\ recorder = "max"
  /\ current' = maxLatency
  /\ IF latency > maxLatency
       THEN recorder' = "exchange" /\ UNCHANGED recorded
       ELSE Done
  /\ UNCHANGED <<fields, latency, monitorVars>>

\* Mutant of CompareExchange: give up when the maximum moved.
ExchangeOnce ==
  /\ recorder = "exchange"
  /\ maxLatency' = IF maxLatency = current THEN latency ELSE maxLatency
  /\ Done
  /\ UNCHANGED <<packetCount, windowPacketCount, latencySum, latency, current,
                 monitorVars>>

\* When the monitor moved the maximum since it was read, read it again.
CompareExchange ==
  /\ recorder = "exchange"
  /\ IF maxLatency = current
       THEN maxLatency' = latency /\ Done
       ELSE recorder' = "max" /\ UNCHANGED <<maxLatency, recorded>>
  /\ UNCHANGED <<packetCount, windowPacketCount, latencySum, latency, current,
                 monitorVars>>

-----------------------------------------------------------------------------
(* Snapshot, called by SystemMonitorService after each delay. *)

\* Mutant of TakeCount: the count is read, not exchanged.
TakeCountByRead ==
  /\ monitor = "delay"
  /\ snap' = [snap EXCEPT !.count = windowPacketCount]
  /\ reported.count <= MaxPackets
  /\ monitor' = "sum"
  /\ UNCHANGED <<fields, recorderVars, reported>>

TakeCount ==
  /\ monitor = "delay"
  /\ snap' = [snap EXCEPT !.count = windowPacketCount]
  /\ windowPacketCount' = 0
  /\ monitor' = "sum"
  /\ UNCHANGED <<packetCount, latencySum, maxLatency, recorderVars, reported>>

TakeSum ==
  /\ monitor = "sum"
  /\ snap' = [snap EXCEPT !.sum = latencySum]
  /\ latencySum' = 0
  /\ monitor' = "max"
  /\ UNCHANGED <<packetCount, windowPacketCount, maxLatency, recorderVars, reported>>

TakeMax ==
  /\ monitor = "max"
  /\ snap' = [snap EXCEPT !.max = maxLatency]
  /\ maxLatency' = 0
  /\ monitor' = "report"
  /\ UNCHANGED <<packetCount, windowPacketCount, latencySum, recorderVars, reported>>

\* Snapshot returns and ReceiveHealth is sent.
Report ==
  /\ monitor = "report"
  /\ reported' = [count |-> reported.count + snap.count,
                  sum |-> reported.sum + snap.sum,
                  max |-> Larger(reported.max, snap.max)]
  /\ snap' = [count |-> 0, sum |-> 0, max |-> 0]
  /\ monitor' = "delay"
  /\ UNCHANGED <<fields, recorderVars>>

-----------------------------------------------------------------------------
RecordPacket ==
  IncrementTotal \/ IncrementWindow \/ AddLatency \/ ReadMax \/ CompareExchange

Snapshot == TakeCount \/ TakeSum \/ TakeMax \/ Report

Next == RecordPacket \/ Snapshot

Spec == Init /\ [][Next]_vars

-----------------------------------------------------------------------------
Counts == [count : Nat, sum : Nat, max : Nat]

TypeOK ==
  /\ packetCount \in Nat /\ packetCount <= MaxPackets
  /\ windowPacketCount \in Nat
  /\ latencySum \in Nat
  /\ maxLatency \in Latencies \cup {0}
  /\ recorder \in {"idle", "window", "sum", "max", "exchange"}
  /\ latency \in Latencies \cup {0}
  /\ current \in Latencies \cup {0}
  /\ monitor \in {"delay", "sum", "max", "report"}
  /\ snap \in Counts
  /\ reported \in Counts
  /\ recorded \in [sum : Nat, max : Nat]

-----------------------------------------------------------------------------
(* Properties. *)

\* However the two threads interleave, every packet is in the window, in the
\* snapshot being taken or in exactly one report, and so is its latency.
CountersConserved ==
  /\ packetCount = windowPacketCount + snap.count + reported.count
                   + (IF recorder = "window" THEN 1 ELSE 0)
  /\ recorded.sum = latencySum + snap.sum + reported.sum
                    + (IF recorder \in {"window", "sum"} THEN latency ELSE 0)

\* The highest latency is never lost between the CAS loop and the reset: it is
\* in the field, in the snapshot being taken or in a report.
MaxNeverLost ==
  recorded.max <= Larger(maxLatency, Larger(snap.max, reported.max))
=============================================================================
