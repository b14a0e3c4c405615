--------------------------- MODULE CaptureProofs ---------------------------
(***************************************************************************)
(* What the capture thread says of a packet, for any addresses, ports,     *)
(* sockets and processes.                                                  *)
(*                                                                         *)
(* PacketAnalysis: which packets raise an alert.  Packet and alert are     *)
(* functions of the frame, so the invariant is that link (Analysed), and   *)
(* the work is in the operators: what a parsed packet and an alert look    *)
(* like.                                                                   *)
(*                                                                         *)
(* ProcessCache: the cache puts no name on a packet but that of a process  *)
(* with the pid of the socket's version 4 owner.  LabelHasOrigin speaks of *)
(* the two maps only.  What makes it inductive is where their entries come *)
(* from: a row of the system's tables names the socket's owner (RowsOwn),  *)
(* an entry of the port map and a row fetched but not entered yet name a   *)
(* pid that owned the version 4 socket of the key (EntriesOwn), every name *)
(* beside a pid is one its processes have had (NamesAgree), and so is an   *)
(* answer of the system a thread still holds (AnswersAgree), for as long   *)
(* as it holds it the entry it is about stays (LookedUp).                  *)
(***************************************************************************)
EXTENDS PacketAnalysis, ProcessCache, FiniteSetTheorems, TLAPS

-----------------------------------------------------------------------------
(* PacketAnalysis. *)

\* Packet and alert belong to the frame.
Analysed ==
  /\ frame \in Frames
  /\ packet = ParsePacket(frame)
  /\ alert = ScoreSuspicious(packet)

\* A frame that parses is an IP frame, and its packet keeps the frame's
\* addresses, its ports if it is a segment, and whether it leaves this machine.
LEMMA ParsedPacket ==
  ASSUME NEW f \in Frames
  PROVE  /\ f.ether \notin {"ipv4", "ipv6"} => ParsePacket(f) = NoPacket
         /\ f.ether \in {"ipv4", "ipv6"} =>
              /\ ParsePacket(f) # NoPacket
              /\ ParsePacket(f).remote = Endpoint(f.dst, IF HasPorts(f) THEN f.dport ELSE NoPort)
              /\ ParsePacket(f).outbound = (f.src \in LocalIps)
              /\ f.src \in Addresses /\ f.dst \in Addresses /\ f.dport \in Ports
<1>1. ASSUME f.ether \notin {"ipv4", "ipv6"} PROVE ParsePacket(f) = NoPacket
  BY <1>1 DEF ParsePacket
<1>2. ASSUME f.ether \in {"ipv4", "ipv6"}
      PROVE  /\ ParsePacket(f) # NoPacket
             /\ ParsePacket(f).remote = Endpoint(f.dst, IF HasPorts(f) THEN f.dport ELSE NoPort)
             /\ ParsePacket(f).outbound = (f.src \in LocalIps)
  <2> DEFINE port(p) == IF HasPorts(f) THEN p ELSE NoPort
             packetOf ==
               [process  |-> ResolveProcessLabel(Protocol(f), port(f.sport)),
                local    |-> Endpoint(f.src, port(f.sport)),
                remote   |-> Endpoint(f.dst, port(f.dport)),
                protocol |-> Protocol(f),
                outbound |-> f.src \in LocalIps]
  <2>1. ParsePacket(f) = packetOf
    BY <1>2 DEF ParsePacket
  <2>2. packetOf # NoPacket
    <3>1. "remote" \in DOMAIN packetOf
      OBVIOUS
    <3>2. "remote" \notin DOMAIN NoPacket
      BY DEF NoPacket
    <3>3. QED
      BY <3>1, <3>2
  <2>3. QED
    BY <2>1, <2>2
<1>3. ASSUME f.ether \in {"ipv4", "ipv6"}
      PROVE  f.src \in Addresses /\ f.dst \in Addresses /\ f.dport \in Ports
  <2>1. f \notin OtherFrames
    BY <1>3 DEF OtherFrames
  <2>2. f \in IpFrames("ipv4", V4) \/ f \in IpFrames("ipv6", V6)
    BY <2>1 DEF Frames
  <2>3. QED
    BY <2>2 DEF IpFrames, Addresses
<1>4. QED
  BY <1>1, <1>2, <1>3

\* An alert is raised exactly for an outbound packet whose remote text ends in a
\* watched port, and it is that of the port's rule.
LEMMA ScoredPacket ==
  ASSUME NEW p
  PROVE  /\ p = NoPacket \/ ~p.outbound \/ PortInText(p.remote) \notin WatchedPorts
              => ScoreSuspicious(p) = NoAlert
         /\ p # NoPacket /\ p.outbound /\ PortInText(p.remote) \in WatchedPorts =>
              \E r \in Rules :
                /\ r.port = PortInText(p.remote)
                /\ ScoreSuspicious(p) = [process |-> p.process, remote |-> p.remote,
                                        reason |-> r.reason, score |-> r.score]
<1>1. ASSUME p = NoPacket \/ ~p.outbound \/ PortInText(p.remote) \notin WatchedPorts
      PROVE  ScoreSuspicious(p) = NoAlert
  BY <1>1 DEF ScoreSuspicious
<1>2. ASSUME p # NoPacket, p.outbound, PortInText(p.remote) \in WatchedPorts
      PROVE  \E r \in Rules :
                /\ r.port = PortInText(p.remote)
                /\ ScoreSuspicious(p) = [process |-> p.process, remote |-> p.remote,
                                        reason |-> r.reason, score |-> r.score]
  <2> DEFINE rule == CHOOSE r \in Rules : r.port = PortInText(p.remote)
  <2>1. \E r \in Rules : r.port = PortInText(p.remote)
    BY <1>2 DEF WatchedPorts
  <2>2. rule \in Rules /\ rule.port = PortInText(p.remote)
    BY <2>1, Zenon
  <2>3. ScoreSuspicious(p) = [process |-> p.process, remote |-> p.remote,
                              reason |-> rule.reason, score |-> rule.score]
    BY <1>2 DEF ScoreSuspicious
  <2>4. QED
    BY <2>2, <2>3, Zenon
<1>3. QED
  BY <1>1, <1>2

\* Analysed is an invariant.
LEMMA AnalysedAlways == AnalysisSpec => []Analysed
<1>1. AnalysisInit => Analysed
  <2> SUFFICES ASSUME AnalysisInit PROVE Analysed
    OBVIOUS
  <2>1. frame \in Frames /\ frame.ether \notin {"ipv4", "ipv6"}
    BY DEF AnalysisInit, Frames, OtherFrames
  <2>2. packet = ParsePacket(frame)
    BY <2>1, ParsedPacket DEF AnalysisInit
  <2>3. alert = ScoreSuspicious(packet)
    BY ScoredPacket DEF AnalysisInit
  <2>4. QED
    BY <2>1, <2>2, <2>3 DEF Analysed
<1>2. Analysed /\ [Capture]_analysisVars => Analysed'
  BY DEF Analysed, Capture, analysisVars
<1>3. QED
  BY <1>1, <1>2, PTL DEF AnalysisSpec

\* Detection misses nothing, whatever the addresses and whatever the text of a
\* version 6 address ends in: score_suspicious takes an endpoint apart at its last
\* colon (stream.rs:373-378), and where a port was written it finds that port.
THEOREM DetectionComplete == AnalysisSpec => []WatchedPortsAlert
<1>1. Analysed => WatchedPortsAlert
  <2> SUFFICES ASSUME Analysed, IsSegment, frame.src \in LocalIps, frame.dport \in WatchedPorts
               PROVE  \E r \in Rules :
                        /\ r.port = frame.dport
                        /\ alert = [process |-> packet.process, remote |-> packet.remote,
                                    reason |-> r.reason, score |-> r.score]
    BY DEF WatchedPortsAlert
  <2>1. /\ packet # NoPacket /\ packet.outbound
        /\ packet.remote = Endpoint(frame.dst, frame.dport)
        /\ frame.dport \in Ports
    BY ParsedPacket DEF Analysed, IsSegment
  <2>2. PortInText(packet.remote) = frame.dport
    <3>1. frame.dport # 0
      BY <2>1, PortAssumption
    <3>2. packet.remote.port = frame.dport
      BY <2>1 DEF Endpoint
    <3>3. QED
      BY <3>1, <3>2 DEF PortInText, NoPort
  <2>3. QED
    BY <2>1, <2>2, ScoredPacket DEF Analysed
<1>2. QED
  BY <1>1, AnalysedAlways, PTL

\* Nothing else raises an alert, but a packet without ports to a version 6 address
\* whose text ends in a watched number.
THEOREM AlertsHaveCauses == AnalysisSpec => []AlertsExplained
<1>1. Analysed => AlertsExplained
  <2> SUFFICES ASSUME Analysed, alert # NoAlert
               PROVE  /\ frame.src \in LocalIps
                      /\ IsSegment => frame.dport \in WatchedPorts
                      /\ ~IsSegment => frame.dst \in V6 /\ LastGroup[frame.dst] \in WatchedPorts
    BY DEF AlertsExplained
  <2>1. packet # NoPacket /\ packet.outbound /\ PortInText(packet.remote) \in WatchedPorts
    BY ScoredPacket DEF Analysed
  <2>2. frame.ether \in {"ipv4", "ipv6"}
    BY <2>1, ParsedPacket DEF Analysed
  <2>3. /\ packet.remote = Endpoint(frame.dst, IF HasPorts(frame) THEN frame.dport ELSE NoPort)
        /\ frame.src \in LocalIps
        /\ frame.dport \in Ports
    BY <2>1, <2>2, ParsedPacket DEF Analysed
  <2>4. ASSUME IsSegment PROVE frame.dport \in WatchedPorts
    BY <2>1, <2>3, <2>4, PortAssumption DEF IsSegment, PortInText, Endpoint, NoPort
  <2>5. ASSUME ~IsSegment PROVE frame.dst \in V6 /\ LastGroup[frame.dst] \in WatchedPorts
    <3>1. packet.remote = [addr |-> frame.dst, port |-> 0]
      BY <2>2, <2>3, <2>5 DEF IsSegment, Endpoint, NoPort
    <3>2. 0 \notin WatchedPorts
      BY DEF WatchedPorts, Rules
    <3>3. QED
      BY <2>1, <3>1, <3>2 DEF PortInText, NoPort
  <2>6. QED
    BY <2>3, <2>4, <2>5
<1>2. QED
  BY <1>1, AnalysedAlways, PTL

\* The scores of score_suspicious reach the thresholds of SuspiciousConsumerService.
THEOREM AlertsUrgent == AnalysisSpec => []LiveAlertsAreUrgent
<1>1. Analysed => LiveAlertsAreUrgent
  <2> SUFFICES ASSUME Analysed, alert # NoAlert PROVE Severity(alert.score) # "INFO"
    BY DEF LiveAlertsAreUrgent
  <2>1. \E r \in Rules : alert.score = r.score
    BY ScoredPacket DEF Analysed
  <2>2. alert.score \in {96, 92, 85, 88}
    BY <2>1 DEF Rules
  <2>3. QED
    BY <2>2 DEF Severity
<1>2. QED
  BY <1>1, AnalysedAlways, PTL

-----------------------------------------------------------------------------
(* ProcessCache. *)

RowsOwn ==
  /\ IsFiniteSet(table)
  /\ \A s \in Sockets, p \in Pids :
       <<s, p>> \in table => running[p] # "none" /\ <<p, running[p]>> \in owners[s]

\* The pid has owned the version 4 socket of the key.
Owned(k, p) == \E n \in Names : <<p, n>> \in owners[<<"ipv4", k>>]

EntriesOwn ==
  /\ \A k \in Keys : portMap[k] # "none" => Owned(k, portMap[k])
  /\ \A r \in rows : r[1][1] = "ipv4" /\ Owned(Key(r[1]), r[2])

NamesAgree ==
  \A p \in Pids :
    /\ running[p] # "none" => running[p] \in called[p]
    /\ nameCache[p] # "none" => nameCache[p] \in called[p]

\* The capture thread only looks up a port that the map has.
LookedUp == lookup # "idle" => looking \in Keys /\ portMap[looking] # "none"

AnswersAgree ==
  /\ refresh = "insert" => found \in called[naming]
  /\ lookup = "insert" => asked \in called[portMap[looking]]

IInv == TypeOK /\ RowsOwn /\ EntriesOwn /\ NamesAgree /\ LookedUp /\ AnswersAgree

-----------------------------------------------------------------------------
\* What the system says of a pid: the executable of its process, or nothing.
LEMMA NameByPidFact ==
  ASSUME IInv, NEW p \in Pids
  PROVE  /\ NameByPid(p) \in Names \cup {"none"}
         /\ NameByPid(p) # "none" => NameByPid(p) \in called[p]
BY DEF NameByPid, IInv, TypeOK, NamesAgree

\* What is entered under a pid, by either thread, agrees with everything else.
LEMMA NameStep ==
  ASSUME IInv, NEW p \in Pids, NEW n \in called[p],
         nameCache' = [nameCache EXCEPT ![p] = n],
         UNCHANGED <<systemVars, portMap, rows>>
  PROVE  /\ nameCache' \in [Pids -> Names \cup {"none"}]
         /\ RowsOwn' /\ EntriesOwn' /\ NamesAgree'
<1>1. /\ nameCache \in [Pids -> Names \cup {"none"}] /\ n \in Names
      /\ running' = running /\ called' = called /\ table' = table /\ owners' = owners
      /\ portMap' = portMap /\ rows' = rows
  BY DEF IInv, TypeOK, systemVars
<1>2. /\ nameCache' \in [Pids -> Names \cup {"none"}]
      /\ nameCache'[p] = n
      /\ \A q \in Pids : q # p => nameCache'[q] = nameCache[q]
  BY <1>1
<1>3. RowsOwn'
  BY <1>1 DEF IInv, RowsOwn
<1>4. EntriesOwn'
  BY <1>1 DEF IInv, EntriesOwn, Owned, Key
<1>5. NamesAgree'
  BY <1>1, <1>2 DEF IInv, NamesAgree
<1> QED
  BY <1>2, <1>3, <1>4, <1>5

\* The version 4 socket of a key.
LEMMA VersionFour ==
  /\ \A k \in Keys : <<"ipv4", k>> \in Sockets
  /\ \A s \in Sockets : Key(s) \in Keys /\ (s[1] = "ipv4" => s = <<"ipv4", Key(s)>>)
BY DEF Sockets, Key

\* Who has owned a socket once has owned it ever after.
LEMMA OwnedEver ==
  ASSUME EntriesOwn, UNCHANGED <<portMap, rows>>,
         rows \subseteq Sockets \X Pids,
         \A s \in Sockets : owners[s] \subseteq owners'[s]
  PROVE  EntriesOwn'
<1>1. \A p : \A k \in Keys : Owned(k, p) => Owned(k, p)'
  BY VersionFour DEF Owned
<1>2. \A r \in rows : Key(r[1]) \in Keys /\ Key(r[1])' = Key(r[1])
  BY VersionFour DEF Key
<1>3. portMap' = portMap /\ rows' = rows
  OBVIOUS
<1>4. ASSUME NEW k \in Keys, portMap'[k] # "none"
      PROVE  Owned(k, portMap[k])'
  BY <1>1, <1>3, <1>4 DEF EntriesOwn
<1>5. ASSUME NEW r \in rows
      PROVE  r[1][1] = "ipv4" /\ Owned(Key(r[1]), r[2])'
  BY <1>1, <1>2, <1>5 DEF EntriesOwn
<1> QED
  BY <1>3, <1>4, <1>5 DEF EntriesOwn, Owned, Key

\* Processes and sockets that come and go keep the invariant.
LEMMA SystemStep ==
  ASSUME IInv, System
  PROVE  IInv'
<1>0. /\ TypeOK /\ events \in Nat /\ MaxEvents \in Nat
  BY EventsAssumption DEF IInv, TypeOK
<1>1. /\ events' \in 0..MaxEvents
      /\ UNCHANGED <<portMap, nameCache, refreshVars, lookupVars>>
  <2>1. Event
    BY DEF System, ProcessStarts, ProcessExits, SocketOpens, SocketCloses
  <2> QED
    BY <1>0, <2>1 DEF Event
<1>2. /\ portMap' = portMap /\ nameCache' = nameCache
      /\ rows' = rows /\ refresh' = refresh /\ protocol' = protocol /\ size' = size
      /\ naming' = naming /\ found' = found
      /\ lookup' = lookup /\ looking' = looking /\ asked' = asked
  BY <1>1 DEF refreshVars, lookupVars
<1>3. /\ LookedUp'
      /\ (\A q \in Pids : called[q] \subseteq called'[q]) => AnswersAgree'
  <2>1. LookedUp'
    BY <1>2 DEF IInv, LookedUp
  <2>2. naming \in Pids /\ (lookup # "idle" => portMap[looking] \in Pids)
    BY <1>0 DEF IInv, TypeOK, LookedUp
  <2> QED
    BY <1>2, <2>1, <2>2 DEF IInv, AnswersAgree
<1>4. (\A s \in Sockets : owners[s] \subseteq owners'[s]) => EntriesOwn'
  BY <1>0, <1>2, OwnedEver DEF IInv, TypeOK
<1>5. ASSUME NEW p \in Pids, NEW n \in Names, ProcessStarts(p, n)
      PROVE  IInv'
  <2>1. /\ running[p] = "none"
        /\ running' = [running EXCEPT ![p] = n]
        /\ called' = [called EXCEPT ![p] = called[p] \cup {n}]
        /\ table' = table /\ owners' = owners
    BY <1>5 DEF ProcessStarts
  <2>2. /\ running'[p] = n /\ \A q \in Pids : q # p => running'[q] = running[q]
        /\ running' \in [Pids -> Names \cup {"none"}]
        /\ called' \in [Pids -> SUBSET Names]
        /\ \A q \in Pids : called[q] \subseteq called'[q]
        /\ n \in called'[p]
    BY <1>0, <2>1 DEF TypeOK
  <2>3. TypeOK'
    BY <1>0, <1>1, <1>2, <2>1, <2>2 DEF TypeOK
  <2>4. RowsOwn'
    BY <2>1, <2>2 DEF IInv, RowsOwn
  <2>5. EntriesOwn'
    BY <1>4, <2>1
  <2>6. NamesAgree'
    BY <1>2, <2>1, <2>2 DEF IInv, NamesAgree
  <2> QED
    BY <1>3, <2>2, <2>3, <2>4, <2>5, <2>6 DEF IInv
<1>6. ASSUME NEW p \in Pids, ProcessExits(p)
      PROVE  IInv'
  <2>1. /\ running' = [running EXCEPT ![p] = "none"]
        /\ table' = {r \in table : r[2] # p} /\ called' = called /\ owners' = owners
    BY <1>6 DEF ProcessExits
  <2>2. /\ running'[p] = "none" /\ \A q \in Pids : q # p => running'[q] = running[q]
        /\ running' \in [Pids -> Names \cup {"none"}]
    BY <1>0, <2>1 DEF TypeOK
  <2>3. TypeOK'
    BY <1>0, <1>1, <1>2, <2>1, <2>2 DEF TypeOK
  <2>4. RowsOwn'
    <3>1. IsFiniteSet(table')
      BY <2>1, FS_Subset DEF IInv, RowsOwn
    <3> QED
      BY <2>1, <2>2, <3>1 DEF IInv, RowsOwn
  <2>5. EntriesOwn'
    BY <1>4, <2>1
  <2>6. NamesAgree'
    BY <1>2, <2>1, <2>2 DEF IInv, NamesAgree
  <2> QED
    BY <1>3, <2>1, <2>3, <2>4, <2>5, <2>6 DEF IInv
<1>7. ASSUME NEW s \in Sockets, NEW p \in Pids, SocketOpens(s, p)
      PROVE  IInv'
  <2>1. /\ running[p] # "none"
        /\ table' = table \cup {<<s, p>>} /\ running' = running /\ called' = called
        /\ owners' = [owners EXCEPT ![s] = owners[s] \cup {<<p, running[p]>>}]
    BY <1>7 DEF SocketOpens
  <2>2. /\ owners \in [Sockets -> SUBSET (Pids \X Names)] /\ running[p] \in Names
    BY <1>0, <2>1 DEF TypeOK
  <2>3. /\ owners' \in [Sockets -> SUBSET (Pids \X Names)]
        /\ <<p, running[p]>> \in owners'[s]
        /\ \A t \in Sockets : owners[t] \subseteq owners'[t]
        /\ \A t \in Sockets : owners'[t] \subseteq owners[t] \cup {<<p, running[p]>>}
    BY <2>1, <2>2
  <2>4. TypeOK'
    BY <1>0, <1>1, <1>2, <2>1, <2>3 DEF TypeOK
  <2>5. RowsOwn'
    <3>1. IsFiniteSet(table')
      BY <2>1, FS_AddElement DEF IInv, RowsOwn
    <3> QED
      BY <2>1, <2>3, <3>1 DEF IInv, RowsOwn
  <2>6. EntriesOwn'
    BY <1>4, <2>3
  <2>7. NamesAgree'
    BY <1>2, <2>1, <2>3 DEF IInv, NamesAgree
  <2> QED
    BY <1>3, <2>1, <2>4, <2>5, <2>6, <2>7 DEF IInv
<1>8. ASSUME NEW s \in Sockets, NEW p \in Pids, SocketCloses(s, p)
      PROVE  IInv'
  <2>1. /\ table' = table \ {<<s, p>>}
        /\ running' = running /\ called' = called /\ owners' = owners
    BY <1>8 DEF SocketCloses
  <2>2. TypeOK'
    BY <1>0, <1>1, <1>2, <2>1 DEF TypeOK
  <2>3. RowsOwn'
    <3>1. IsFiniteSet(table')
      BY <2>1, FS_Subset DEF IInv, RowsOwn
    <3> QED
      BY <2>1, <3>1 DEF IInv, RowsOwn
  <2>4. EntriesOwn' /\ NamesAgree'
    BY <1>2, <1>4, <2>1 DEF IInv, NamesAgree
  <2> QED
    BY <1>3, <2>1, <2>2, <2>3, <2>4 DEF IInv
<1> QED
  BY <1>5, <1>6, <1>7, <1>8 DEF System

\* A step that leaves the two maps, the fetched rows and the system alone keeps what
\* is said of them.
LEMMA SameMaps ==
  ASSUME IInv, UNCHANGED <<systemVars, portMap, nameCache, rows>>
  PROVE  RowsOwn' /\ EntriesOwn' /\ NamesAgree'
<1>1. /\ running' = running /\ called' = called /\ table' = table /\ owners' = owners
      /\ portMap' = portMap /\ nameCache' = nameCache /\ rows' = rows
  BY DEF systemVars
<1>2. RowsOwn'
  BY <1>1 DEF IInv, RowsOwn
<1>3. EntriesOwn'
  BY <1>1 DEF IInv, EntriesOwn, Owned, Key
<1>4. NamesAgree'
  BY <1>1 DEF IInv, NamesAgree
<1> QED
  BY <1>2, <1>3, <1>4

\* The refresh task keeps the invariant.
LEMMA RefreshStep ==
  ASSUME IInv, Refresh
  PROVE  IInv'
<1>0. TypeOK
  BY DEF IInv
<1>1. CASE Wake \/ TableDone \/ CheckName
  <2>1. UNCHANGED <<systemVars, portMap, nameCache, size, rows, naming, found, lookupVars>>
    BY <1>1 DEF Wake, TableDone, CheckName
  <2>2. TypeOK'
    BY <1>0, <1>1, <2>1 DEF Wake, TableDone, CheckName, systemVars, lookupVars, TypeOK
  <2>3. RowsOwn' /\ EntriesOwn' /\ NamesAgree'
    BY <2>1, SameMaps
  <2>4. LookedUp' /\ AnswersAgree'
    BY <1>1, <2>1 DEF Wake, TableDone, CheckName, systemVars, lookupVars, IInv, LookedUp,
                      AnswersAgree
  <2> QED
    BY <2>2, <2>3, <2>4 DEF IInv
<1>2. CASE QuerySize
  <2>1. Cardinality(Table) \in Nat
    <3>1. IsFiniteSet(Table)
      BY FS_Subset DEF Table, IInv, RowsOwn
    <3> QED
      BY <3>1, FS_CardinalityType
  <2>2. TypeOK'
    BY <1>0, <1>2, <2>1 DEF QuerySize, systemVars, lookupVars, TypeOK
  <2>3. RowsOwn' /\ EntriesOwn' /\ NamesAgree'
    BY <1>2, SameMaps DEF QuerySize
  <2>4. LookedUp' /\ AnswersAgree'
    BY <1>2 DEF QuerySize, systemVars, lookupVars, IInv, LookedUp, AnswersAgree
  <2> QED
    BY <2>2, <2>3, <2>4 DEF IInv
<1>3. CASE Fetch
  <2>1. /\ rows' \subseteq table /\ \A r \in rows' : r[1][1] = "ipv4"
        /\ UNCHANGED <<running, called, table, owners, events, portMap, nameCache, protocol,
                       size, naming, found, lookup, looking, asked>>
        /\ refresh' = "rows"
    BY <1>3 DEF Fetch, Table, systemVars, lookupVars
  <2>2. TypeOK'
    BY <1>0, <2>1 DEF TypeOK
  <2>3. RowsOwn' /\ NamesAgree' /\ LookedUp' /\ AnswersAgree'
    BY <2>1 DEF IInv, RowsOwn, NamesAgree, LookedUp, AnswersAgree
  <2>4. ASSUME NEW r \in rows'
        PROVE  Owned(Key(r[1]), r[2])
    <3>1. PICK s \in Sockets, p \in Pids : r = <<s, p>>
      BY <1>0, <2>1 DEF TypeOK
    <3>2. s = <<"ipv4", Key(s)>>
      BY <2>1, <3>1, VersionFour
    <3>3. running[p] \in Names /\ <<p, running[p]>> \in owners[s]
      BY <1>0, <2>1, <3>1 DEF TypeOK, IInv, RowsOwn
    <3> QED
      BY <3>1, <3>2, <3>3 DEF Owned
  <2>5. EntriesOwn'
    BY <2>1, <2>4 DEF IInv, EntriesOwn, Owned, Key
  <2> QED
    BY <2>2, <2>3, <2>5 DEF IInv
<1>4. ASSUME NEW r \in rows, EnterPort(r)
      PROVE  IInv'
  <2>1. PICK k \in Keys, p \in Pids : Key(r[1]) = k /\ r[2] = p
    BY <1>0, <1>4, VersionFour DEF TypeOK
  <2>2. /\ portMap' = [portMap EXCEPT ![k] = p] /\ naming' = p /\ rows' \subseteq rows
        /\ Owned(k, p) /\ refresh' = "name" /\ looking # k
        /\ UNCHANGED <<running, called, table, owners, events, nameCache, protocol, size,
                       found, lookup, looking, asked>>
    BY <1>4, <2>1 DEF EnterPort, systemVars, lookupVars, IInv, EntriesOwn
  <2>3. /\ portMap' \in [Keys -> Pids \cup {"none"}]
        /\ \A t \in Keys : portMap'[t] = IF t = k THEN p ELSE portMap[t]
    BY <1>0, <2>2 DEF TypeOK
  <2>4. TypeOK'
    BY <1>0, <2>2, <2>3 DEF TypeOK
  <2>5. RowsOwn' /\ NamesAgree'
    BY <2>2 DEF IInv, RowsOwn, NamesAgree
  <2>6. EntriesOwn'
    BY <2>2, <2>3 DEF IInv, EntriesOwn, Owned, Key
  <2>7. LookedUp' /\ AnswersAgree'
    BY <1>0, <2>2, <2>3 DEF IInv, LookedUp, AnswersAgree
  <2> QED
    BY <2>4, <2>5, <2>6, <2>7 DEF IInv
<1>5. CASE QueryName
  <2>1. /\ found' = NameByPid(naming) /\ naming \in Pids
        /\ refresh' = IF found' = "none" THEN "rows" ELSE "insert"
        /\ UNCHANGED <<systemVars, portMap, nameCache, protocol, size, rows, naming, lookupVars>>
    BY <1>0, <1>5 DEF QueryName, TypeOK
  <2>2. /\ found' \in Names \cup {"none"}
        /\ found' # "none" => found' \in called[naming]
    BY <2>1, NameByPidFact
  <2>3. TypeOK'
    BY <1>0, <2>1, <2>2 DEF systemVars, lookupVars, TypeOK
  <2>4. RowsOwn' /\ EntriesOwn' /\ NamesAgree'
    BY <2>1, SameMaps
  <2>5. LookedUp' /\ AnswersAgree'
    BY <2>1, <2>2 DEF systemVars, lookupVars, IInv, LookedUp, AnswersAgree
  <2> QED
    BY <2>3, <2>4, <2>5 DEF IInv
<1>6. CASE EnterName
  <2>1. /\ nameCache' = [nameCache EXCEPT ![naming] = found]
        /\ naming \in Pids /\ found \in called[naming]
        /\ found' = "none" /\ refresh' = "rows"
        /\ UNCHANGED <<systemVars, portMap, protocol, size, rows, naming, lookupVars>>
    BY <1>0, <1>6 DEF EnterName, TypeOK, IInv, AnswersAgree
  <2>2. /\ nameCache' \in [Pids -> Names \cup {"none"}]
        /\ RowsOwn' /\ EntriesOwn' /\ NamesAgree'
    BY <2>1, NameStep
  <2>3. TypeOK'
    BY <1>0, <2>1, <2>2 DEF TypeOK, systemVars, lookupVars
  <2>4. LookedUp' /\ AnswersAgree'
    BY <2>1 DEF systemVars, lookupVars, IInv, LookedUp, AnswersAgree
  <2> QED
    BY <2>2, <2>3, <2>4 DEF IInv
<1> QED
  BY <1>1, <1>2, <1>3, <1>4, <1>5, <1>6 DEF Refresh

\* The capture thread keeps the invariant: while it looks a port up, the refresh does not
\* change the port's entry.
LEMMA LookUpStep ==
  ASSUME IInv, (\E k \in Keys : LookUpPort(k)) \/ FinishLookUp
  PROVE  IInv'
<1>0. TypeOK
  BY DEF IInv
<1>1. ASSUME NEW k \in Keys, LookUpPort(k)
      PROVE  IInv'
  <2>1. TypeOK' /\ LookedUp' /\ AnswersAgree'
    BY <1>0, <1>1 DEF LookUpPort, systemVars, refreshVars, TypeOK, IInv, LookedUp, AnswersAgree
  <2>2. RowsOwn' /\ EntriesOwn' /\ NamesAgree'
    BY <1>1, SameMaps DEF LookUpPort, refreshVars
  <2> QED
    BY <2>1, <2>2 DEF IInv
<1>2. CASE LookUpName
  <2>1. TypeOK' /\ LookedUp' /\ AnswersAgree'
    BY <1>0, <1>2 DEF LookUpName, systemVars, refreshVars, TypeOK, IInv, LookedUp, AnswersAgree
  <2>2. RowsOwn' /\ EntriesOwn' /\ NamesAgree'
    BY <1>2, SameMaps DEF LookUpName, refreshVars
  <2> QED
    BY <2>1, <2>2 DEF IInv
<1>3. CASE AskName
  <2> DEFINE pid == portMap[looking]
  <2>1. looking \in Keys /\ pid \in Pids
    BY <1>0, <1>3 DEF AskName, IInv, LookedUp, TypeOK
  <2>2. /\ asked' = NameByPid(pid)
        /\ IF asked' = "none"
             THEN lookup' = "idle" /\ looking' = "none"
             ELSE lookup' = "insert" /\ looking' = looking
        /\ UNCHANGED <<systemVars, portMap, nameCache, refreshVars>>
    BY <1>3 DEF AskName
  <2>3. /\ asked' \in Names \cup {"none"}
        /\ asked' # "none" => asked' \in called[pid]
    <3> HIDE DEF pid
    <3> QED
      BY <2>1, <2>2, NameByPidFact
  <2>4. TypeOK'
    BY <1>0, <2>2, <2>3 DEF systemVars, refreshVars, TypeOK
  <2>5. LookedUp' /\ AnswersAgree'
    BY <1>0, <2>1, <2>2, <2>3, NoneAssumption
       DEF systemVars, refreshVars, TypeOK, IInv, LookedUp, AnswersAgree
  <2>6. RowsOwn' /\ EntriesOwn' /\ NamesAgree'
    BY <2>2, SameMaps DEF refreshVars
  <2> QED
    BY <2>4, <2>5, <2>6 DEF IInv
<1>4. CASE KeepName
  <2> DEFINE pid == portMap[looking]
  <2>1. looking \in Keys /\ pid \in Pids /\ asked \in called[pid]
    BY <1>0, <1>4 DEF KeepName, IInv, LookedUp, AnswersAgree, TypeOK
  <2>2. /\ nameCache' = [nameCache EXCEPT ![pid] = asked]
        /\ asked' = "none" /\ lookup' = "idle" /\ looking' = "none"
        /\ UNCHANGED <<systemVars, portMap, refreshVars>>
    BY <1>4 DEF KeepName
  <2>3. /\ nameCache' \in [Pids -> Names \cup {"none"}]
        /\ RowsOwn' /\ EntriesOwn' /\ NamesAgree'
    <3> HIDE DEF pid
    <3> QED
      BY <2>1, <2>2, NameStep DEF refreshVars
  <2>4. TypeOK'
    BY <1>0, <2>2, <2>3 DEF TypeOK, systemVars, refreshVars
  <2>5. LookedUp' /\ AnswersAgree'
    BY <2>2 DEF systemVars, refreshVars, IInv, LookedUp, AnswersAgree
  <2> QED
    BY <2>3, <2>4, <2>5 DEF IInv
<1> QED
  BY <1>1, <1>2, <1>3, <1>4 DEF FinishLookUp

\* Every step of the refresh, of a lookup or of the system keeps IInv.
LEMMA StepIInv ==
  ASSUME IInv, [Next]_vars
  PROVE  IInv'
<1>1. CASE UNCHANGED vars
  <2>1. RowsOwn' /\ EntriesOwn' /\ NamesAgree'
    BY <1>1, SameMaps DEF vars, refreshVars
  <2>2. TypeOK' /\ LookedUp' /\ AnswersAgree'
    BY <1>1 DEF vars, systemVars, refreshVars, lookupVars, IInv, TypeOK, LookedUp, AnswersAgree
  <2> QED
    BY <2>1, <2>2 DEF IInv
<1> QED
  BY <1>1, SystemStep, RefreshStep, LookUpStep DEF Next

\* Nothing is cached at first.
LEMMA InitIInv == Init => IInv
<1> SUFFICES ASSUME Init PROVE IInv
  OBVIOUS
<1>1. TypeOK
  BY EventsAssumption DEF Init, TypeOK
<1>2. RowsOwn
  BY FS_EmptySet DEF Init, RowsOwn
<1>3. EntriesOwn /\ NamesAgree /\ LookedUp /\ AnswersAgree
  BY DEF Init, EntriesOwn, NamesAgree, LookedUp, AnswersAgree
<1> QED
  BY <1>1, <1>2, <1>3 DEF IInv

-----------------------------------------------------------------------------
\* The reachable states satisfy IInv.
THEOREM Invariance == Spec => []IInv
<1> QED
  BY InitIInv, StepIInv, PTL DEF Spec

\* However refresh, lookups and the system interleave, no packet is ever labelled with
\* another name than those the pid of its key's version 4 owner has had.
THEOREM LabelsOfOwners == Spec => []LabelHasOrigin
<1>1. IInv => LabelHasOrigin
  <2> SUFFICES ASSUME IInv, NEW s \in Sockets, Label(s) # "none"
               PROVE  \E owner \in owners[<<"ipv4", Key(s)>>] :
                        owner[1] = portMap[Key(s)] /\ Label(s) \in called[owner[1]]
    BY DEF LabelHasOrigin
  <2> DEFINE k == Key(s)
             pid == portMap[Key(s)]
  <2>1. k \in Keys /\ <<"ipv4", k>> \in Sockets
    BY VersionFour
  <2>2. pid # "none" /\ Label(s) = nameCache[pid]
    BY DEF Label
  <2>3. pid \in Pids
    BY <2>1, <2>2 DEF IInv, TypeOK
  <2>4. PICK n \in Names : <<pid, n>> \in owners[<<"ipv4", k>>]
    BY <2>1, <2>2 DEF IInv, EntriesOwn, Owned
  <2>5. Label(s) \in called[pid]
    BY <2>2, <2>3 DEF IInv, NamesAgree
  <2> QED
    BY <2>4, <2>5
<1> QED
  BY <1>1, Invariance, PTL
=============================================================================
