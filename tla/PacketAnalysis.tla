--------------------------- MODULE PacketAnalysis ---------------------------
(***************************************************************************)
(* What the capture loop makes of one frame: parse_packet, the process     *)
(* label, score_suspicious, and the severity the API server later gives    *)
(* the alert.                                                              *)
(*                                                                         *)
(* A frame is described by what parsing can tell of it; sport and dport    *)
(* are the two numbers found where a transport header would be.  Addresses *)
(* travel as text: an endpoint is its address and a port, or the address   *)
(* alone.  Byte counts and timestamps are left out.                        *)
(***************************************************************************)
EXTENDS Naturals

CONSTANTS
  V4, V6,     \* addresses of either version
  LocalIps,   \* addresses of this machine's interfaces
  LastGroup,  \* the number after the last colon of a version 6 address's text,
              \* 0 when what stands there is not a decimal number of 16 bits
  Ports,      \* port numbers, 1..65535
  Owner,      \* the process cache: TCP or UDP and port -> name, or "none"
  Windows     \* is this the Windows build

Addresses == V4 \cup V6
OwnerNames == {Owner[k] : k \in DOMAIN Owner} \ {"none"}

ASSUME AddressAssumption ==
  /\ V4 \cap V6 = {}
  /\ LocalIps \subseteq Addresses
  /\ LastGroup \in [V6 -> 0..65535]
ASSUME PortAssumption == \A p \in Ports : p \in Nat /\ 0 < p /\ p < 65536
ASSUME OwnerAssumption == DOMAIN Owner = {"TCP", "UDP"} \X Ports
\* Only a Windows build ever fills the cache.
ASSUME WindowsAssumption == Windows \in BOOLEAN /\ (Windows \/ OwnerNames = {})

NoPort == 0
NoPacket == [process |-> "none"]
NoAlert == [reason |-> "none"]

\* The frames on the wire: too short, not IP, cut off in the IP header, or IP.
OtherFrames == [ether : {"short", "arp", "ipv4 cut off", "ipv6 cut off"}]
IpFrames(version, addrs) ==
  [ether : {version}, src : addrs, dst : addrs, next : {"tcp", "udp", "other"},
   header : BOOLEAN, sport : Ports, dport : Ports]
Frames == OtherFrames \cup IpFrames("ipv4", V4) \cup IpFrames("ipv6", V6)

-----------------------------------------------------------------------------
\* TcpPacket::new or UdpPacket::new found a whole header.
HasPorts(f) == f.next \in {"tcp", "udp"} /\ f.header

Protocol(f) ==
  CASE f.next = "tcp" -> "TCP"
    [] f.next = "udp" -> "UDP"
    [] f.next = "other" -> IF f.ether = "ipv4" THEN "IP" ELSE "IPV6"

Endpoint(addr, port) == [addr |-> addr, port |-> port]

ResolveProcessLabel(protocol, port) ==
  IF port # NoPort /\ Owner[protocol, port] # "none" THEN Owner[protocol, port]
  ELSE IF ~Windows THEN "system"
  ELSE IF port # NoPort THEN "Unknown" ELSE "System"

\* The source is taken for the local end, whichever way the packet goes.
ParsePacket(f) ==
  IF f.ether \notin {"ipv4", "ipv6"} THEN NoPacket
  ELSE LET port(p) == IF HasPorts(f) THEN p ELSE NoPort IN
    [process  |-> ResolveProcessLabel(Protocol(f), port(f.sport)),
     local    |-> Endpoint(f.src, port(f.sport)),
     remote   |-> Endpoint(f.dst, port(f.dport)),
     protocol |-> Protocol(f),
     outbound |-> f.src \in LocalIps]

\* Mutant of PortInText: only v4 endpoints are split at their colon.
PortInTextV4(e) == IF e.addr \in V4 THEN e.port ELSE 0

\* Format, then split at the last colon and parse: the port, or what the text
\* of a bare version 6 address ends in.
PortInText(e) ==
  IF e.port # NoPort THEN e.port
  ELSE IF e.addr \in V6 THEN LastGroup[e.addr] ELSE 0

Rules == [port : {23}, reason : {"Telnet"}, score : {96}]
    \cup [port : {445}, reason : {"SMB"}, score : {92}]
    \cup [port : {3389}, reason : {"RDP"}, score : {85}]
    \cup [port : {6667}, reason : {"IRC"}, score : {88}]

WatchedPorts == {r.port : r \in Rules}

\* Mutant of ScoreSuspicious: the direction is not looked at.
ScoreBothWays(p) ==
  IF p = NoPacket \/ PortInText(p.remote) \notin WatchedPorts THEN NoAlert
  ELSE LET rule == CHOOSE r \in Rules : r.port = PortInText(p.remote) IN
    [process |-> p.process, remote |-> p.remote, reason |-> rule.reason,
     score |-> rule.score]

\* Scores are in hundredths.
ScoreSuspicious(p) ==
  IF p = NoPacket \/ ~p.outbound \/ PortInText(p.remote) \notin WatchedPorts
  THEN NoAlert
  ELSE LET rule == CHOOSE r \in Rules : r.port = PortInText(p.remote) IN
    [process |-> p.process, remote |-> p.remote, reason |-> rule.reason,
     score |-> rule.score]

\* Mutant of Severity: the warning threshold is strict and five too high.
SeverityStrict(score) ==
  IF score >= 90 THEN "CRITICAL" ELSE IF score > 85 THEN "WARNING" ELSE "INFO"

Severity(score) ==
  IF score >= 90 THEN "CRITICAL" ELSE IF score >= 80 THEN "WARNING" ELSE "INFO"

-----------------------------------------------------------------------------
VARIABLES
  frame,  \* the last frame read
  packet, \* what was sent on for it, NoPacket if nothing
  alert   \* the alert sent after it, NoAlert if none

analysisVars == <<frame, packet, alert>>

AnalysisInit ==
  /\ frame \in OtherFrames
  /\ packet = NoPacket
  /\ alert = NoAlert

\* One turn of the capture loop.
Capture ==
  /\ frame' \in Frames
  /\ packet' = ParsePacket(frame')
  /\ alert' = ScoreSuspicious(packet')

AnalysisSpec == AnalysisInit /\ [][Capture]_analysisVars

-----------------------------------------------------------------------------
\* The frame is a TCP or UDP segment with a whole header.
IsSegment == frame.ether \in {"ipv4", "ipv6"} /\ HasPorts(frame)

\* Detection is complete over both address families, although the rule reads
\* the port back out of an address's text: a segment this machine sends to a
\* watched port raises the alert of that port, about that packet.
WatchedPortsAlert ==
  IsSegment /\ frame.src \in LocalIps /\ frame.dport \in WatchedPorts =>
    \E r \in Rules :
      /\ r.port = frame.dport
      /\ alert = [process |-> packet.process, remote |-> packet.remote,
                  reason |-> r.reason, score |-> r.score]

\* An alert is raised for an outbound segment to a watched port, or else for an
\* outbound packet without ports to a version 6 address whose text happens to
\* end in a watched number: replies, probes from outside and every other packet
\* raise nothing.
AlertsExplained ==
  alert # NoAlert =>
    /\ frame.src \in LocalIps
    /\ IF IsSegment
         THEN frame.dport \in WatchedPorts
         ELSE frame.dst \in V6 /\ LastGroup[frame.dst] \in WatchedPorts

\* The scores of stream.rs and the thresholds of SuspiciousConsumerService fit:
\* no alert of the live capture reaches the dashboards as mere INFO.
LiveAlertsAreUrgent == alert # NoAlert => Severity(alert.score) # "INFO"

\* README.md: "Live process-level bandwidth tracking": the process a packet is
\* counted for owns the packet's port on this machine.
ProcessOwnsItsPort ==
  IsSegment /\ packet.process \in OwnerNames =>
    \/ frame.src \in LocalIps /\ Owner[packet.protocol, frame.sport] = packet.process
    \/ frame.dst \in LocalIps /\ Owner[packet.protocol, frame.dport] = packet.process
=============================================================================
