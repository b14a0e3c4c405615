---------------------------- MODULE MCDashboard ----------------------------
(* DashboardConnection on a small instance: several connections and outages with *)
(* few messages, or one connection with many.                                    *)
EXTENDS DashboardConnection

Batch(addresses, time) ==
  [method |-> "ReceivePackets",
   raw |-> [i \in DOMAIN addresses |->
              [RemoteAddress |-> addresses[i], Protocol |-> "TCP", Timestamp |-> time]]]
Stats(process, time) ==
  [method |-> "ReceiveProcessStats",
   raw |-> [Process |-> process, Timestamp |-> time, BytesPerSecond |-> time]]
Anomaly(address, time) ==
  [method |-> "ReceiveAnomaly",
   raw |-> [Reason |-> "r", Severity |-> "CRITICAL", Timestamp |-> time, RemoteAddress |-> address]]
Health ==
  [method |-> "ReceiveHealth",
   raw |-> [GrpcConnected |-> TRUE, PacketsPerSecond |-> 1, AvgLatencyMs |-> 150]]

MCBounds ==
  {[connections |-> 3, outages |-> 1, sends |-> 2, messages |-> {Batch(<<"a">>, 1), Health}],
   [connections |-> 2, outages |-> 2, sends |-> 1, messages |-> {Health}],
   [connections |-> 1, outages |-> 0, sends |-> 4,
    messages |-> {Stats("p", 1), Stats("q", 1), Stats("p", 2), Stats("r", 1)}],
   [connections |-> 1, outages |-> 0, sends |-> 4,
    messages |-> {Batch(<<"a">>, 1), Batch(<<"b", "a">>, 2), Anomaly("a", 1), Anomaly("b", 1), Health}]}
=============================================================================
