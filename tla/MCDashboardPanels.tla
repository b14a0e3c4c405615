------------------------- MODULE MCDashboardPanels -------------------------
(* DashboardPanels with batches of one and two packets and three reports. *)
EXTENDS DashboardPanels

Packet(protocol, time) == [protocol |-> protocol, timestamp |-> time, remoteAddress |-> "a"]
Report(pps, avg) == [grpcConnected |-> TRUE, packetsPerSecond |-> pps, avgLatencyMs |-> avg]

MCBatches == {<<Packet("TCP", 1)>>, <<Packet("UDP", 1), Packet("TCPV6", 1)>>}
MCReports == {Report(1, 0), Report(2, 9), Report(2, 150)}
=============================================================================
