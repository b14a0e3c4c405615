------------------------ MODULE PacketConsumerProofs ------------------------
(***************************************************************************)
(* PacketConsumer's safety properties, for any processes, any capacity of  *)
(* the channel and any number of packets.                                  *)
(*                                                                         *)
(* Batches sent, the batch being built and the channel are one line        *)
(* (InLine).  The process loop's stale metric is never more than the entry *)
(* it is about to remove, since only that loop removes entries (ReadBelow).*)
(***************************************************************************)
EXTENDS PacketConsumer, OrderLemmas

InLine ==
  /\ Increasing(sent) /\ Increasing(queue) /\ Increasing(chan)
  /\ AllBefore(sent, queue) /\ AllBefore(sent, chan) /\ AllBefore(queue, chan)

ReadBelow == tick = "remove" => metric <= counters[process]

IInv == TypeOK /\ InLine /\ ReadBelow /\ NeverOverReported

-----------------------------------------------------------------------------
\* The sequences of packets are sequences of numbers up to received.
LEMMA SeqsOfNat ==
  ASSUME TypeOK, NEW s \in {chan, queue, sent}
  PROVE  /\ s \in Seq(Nat) /\ Len(s) \in Nat
         /\ \A i \in DOMAIN s : s[i] < received + 1
<1>1. s \in Seq(Packets) /\ Packets \subseteq Nat /\ received \in Nat
  BY LenProperties DEF TypeOK, Packets, received
<1>2. s \in Seq(Nat) /\ Len(s) \in Nat
  BY <1>1, SeqMonotonic, LenProperties
<1>3. \A i \in DOMAIN s : s[i] \in Packets
  BY <1>1, ElementOfSeq, LenProperties
<1> QED
  BY <1>1, <1>2, <1>3 DEF Packets

\* Types are kept by every step.
LEMMA TypeStep ==
  ASSUME TypeOK, [Next]_vars
  PROVE  TypeOK'
<1>0. /\ received \in Nat /\ Len(chan) \in Nat /\ ChanCap \in Nat \ {0}
      /\ origin \in Seq(Processes) /\ DOMAIN origin = Packets
  BY CapAssumption, LenProperties DEF TypeOK, received, Packets
<1>1. CASE Receive
  <2>1. PICK p \in Processes : origin' = Append(origin, p)
    BY <1>1 DEF Receive
  <2>2. /\ origin' \in Seq(Processes)
        /\ received' = received + 1
    BY <1>0, <2>1, AppendProperties DEF received
  <2>3. Packets \subseteq Packets' /\ received + 1 \in Packets'
    BY <1>0, <2>2 DEF Packets
  <2>4. sent \in Seq(Packets') /\ queue \in Seq(Packets') /\ chan \in Seq(Packets')
    BY <2>3, SeqMonotonic DEF TypeOK
  <2>5. chan' \in Seq(Packets') /\ Len(chan') <= ChanCap
    <3>1. CASE Len(chan) < ChanCap
      <4>1. chan' = Append(chan, received + 1)
        BY <1>1, <3>1 DEF Receive
      <4> QED
        BY <1>0, <2>3, <2>4, <3>1, <4>1, AppendProperties
    <3>2. CASE ~(Len(chan) < ChanCap)
      <4>0. Len(chan) <= ChanCap
        BY DEF TypeOK
      <4>1. chan' = Append(Tail(chan), received + 1) /\ Len(chan) = ChanCap
        BY <1>0, <1>1, <3>2, <4>0 DEF Receive
      <4>2. chan # <<>>
        BY <1>0, <4>1, EmptySeq
      <4>3. Tail(chan) \in Seq(Packets') /\ Len(Tail(chan)) = ChanCap - 1
        BY <2>4, <4>1, <4>2, HeadTailProperties
      <4> QED
        BY <1>0, <2>3, <4>1, <4>3, AppendProperties
    <3> QED
      BY <3>1, <3>2
  <2>6. packet' \in Packets' \cup {0}
    BY <1>1, <2>3 DEF Receive, TypeOK
  <2> QED
    BY <1>1, <2>2, <2>4, <2>5, <2>6 DEF Receive, TypeOK, tickVars
<1>2. CASE Take
  <2>1. /\ Head(chan) \in Packets /\ Tail(chan) \in Seq(Packets)
        /\ Len(Tail(chan)) = Len(chan) - 1
    BY <1>2, HeadTailProperties DEF Take, TypeOK
  <2>2. Append(queue, Head(chan)) \in Seq(Packets)
    BY <2>1, AppendProperties DEF TypeOK
  <2>3. Packets' = Packets
    BY <1>2 DEF Take, Packets, received
  <2>4. Len(chan') <= ChanCap
    <3>1. chan' = Tail(chan) /\ Len(chan) <= ChanCap
      BY <1>2 DEF Take, TypeOK
    <3> QED
      BY <1>0, <2>1, <3>1
  <2> QED
    BY <1>2, <2>1, <2>2, <2>3, <2>4 DEF Take, TypeOK, tickVars
<1>3. CASE Count
  <2>1. origin[packet] \in Processes
    BY <1>0, <1>3, ElementOfSeq DEF Count, TypeOK, Packets, received
  <2>2. Packets' = Packets
    BY <1>3 DEF Count, Packets, received
  <2>3. counters' \in [Processes -> Nat] /\ counted' \in [Processes -> Nat]
    <3> DEFINE q == origin[packet]
    <3>1. /\ q \in Processes
          /\ counters' = [counters EXCEPT ![q] = counters[q] + 1]
          /\ counted' = [counted EXCEPT ![q] = counted[q] + 1]
      BY <1>3, <2>1 DEF Count
    <3> HIDE DEF q
    <3> QED
      BY <3>1 DEF TypeOK
  <2>4. packet' \in Packets \cup {0}
    BY <1>3 DEF Count
  <2> QED
    BY <1>3, <2>2, <2>3, <2>4 DEF Count, TypeOK, tickVars
<1>4. CASE SendBatch
  <2>1. sent \o queue \in Seq(Packets) /\ <<>> \in Seq(Packets)
    BY ConcatProperties, EmptySeq DEF TypeOK
  <2>2. Packets' = Packets
    BY <1>4 DEF SendBatch, Packets, received
  <2> QED
    BY <1>4, <2>1, <2>2 DEF SendBatch, TypeOK, tickVars
<1>5. ASSUME UNCHANGED packetVars
      PROVE  Packets' = Packets /\ received' = received
  BY <1>5 DEF packetVars, Packets, received
<1>6. CASE Tick \/ TickEnds
  BY <1>5, <1>6 DEF Tick, TickEnds, TypeOK, packetVars
<1>7. ASSUME NEW p \in Processes, Visit(p)
      PROVE  TypeOK'
  BY <1>5, <1>7 DEF Visit, TypeOK, packetVars
<1>8. CASE Remove \/ SendStats
  <2>1. CASE Remove
    <3>1. counters' \in [Processes -> Nat]
      BY <2>1 DEF Remove, TypeOK
    <3> QED
      BY <1>5, <2>1, <3>1 DEF Remove, TypeOK, packetVars
  <2>2. CASE SendStats
    <3>1. reported' \in [Processes -> Nat]
      BY <2>2 DEF SendStats, TypeOK
    <3> QED
      BY <1>5, <2>2, <3>1 DEF SendStats, TypeOK, packetVars
  <2> QED
    BY <1>8, <2>1, <2>2
<1>9. CASE UNCHANGED vars
  BY <1>5, <1>9 DEF vars, TypeOK, packetVars, tickVars
<1> QED
  BY <1>1, <1>2, <1>3, <1>4, <1>6, <1>7, <1>8, <1>9 DEF Next, RunPacketLoop, RunProcessLoop

\* Packets move along the line and keep their order.
LEMMA LineStep ==
  ASSUME TypeOK, InLine, [Next]_vars
  PROVE  InLine'
<1>0. /\ sent \in Seq(Nat) /\ queue \in Seq(Nat) /\ chan \in Seq(Nat)
      /\ received + 1 \in Nat
      /\ \A i \in DOMAIN sent : sent[i] < received + 1
      /\ \A i \in DOMAIN queue : queue[i] < received + 1
      /\ \A i \in DOMAIN chan : chan[i] < received + 1
  BY SeqsOfNat, LenProperties DEF TypeOK, received
<1>1. ASSUME chan # <<>>
      PROVE  /\ Head(chan) \in Nat /\ Tail(chan) \in Seq(Nat)
             /\ Increasing(Tail(chan))
             /\ \A i \in DOMAIN Tail(chan) : Head(chan) < Tail(chan)[i]
             /\ \A i \in DOMAIN Tail(chan) : Tail(chan)[i] < received + 1
             /\ AllBefore(sent, Tail(chan)) /\ AllBefore(queue, Tail(chan))
             /\ \A i \in DOMAIN sent : sent[i] < Head(chan)
             /\ \A i \in DOMAIN queue : queue[i] < Head(chan)
  <2>1. received \in Nat /\ UpTo(chan, received)
    <3>1. received \in Nat
      BY LenProperties DEF TypeOK, received
    <3>2. \A i \in DOMAIN chan : chan[i] \in Nat
      BY <1>0, ElementOfSeq, LenProperties
    <3> QED
      BY <1>0, <3>1, <3>2 DEF UpTo
  <2>2. UpTo(Tail(chan), received) /\ Tail(chan) \in Seq(Nat)
    BY <1>0, <1>1, <2>1, TailOrdered
  <2>3. \A i \in DOMAIN Tail(chan) : Tail(chan)[i] \in Nat
    BY <2>2, ElementOfSeq, LenProperties
  <2>4. \A i \in DOMAIN Tail(chan) : Tail(chan)[i] < received + 1
    BY <2>1, <2>2, <2>3 DEF UpTo
  <2> QED
    BY <1>0, <1>1, <2>4, TailOrdered DEF InLine
<1>2. CASE Receive
  <2>1. CASE Len(chan) < ChanCap
    <3>1. /\ chan' = Append(chan, received + 1)
          /\ sent' = sent /\ queue' = queue
      BY <1>2, <2>1 DEF Receive
    <3>2. Increasing(chan')
      BY <1>0, <3>1, AppendOrdered DEF InLine
    <3>3. AllBefore(sent, chan') /\ AllBefore(queue, chan')
      BY <1>0, <3>1, AppendAllBefore DEF InLine
    <3> QED
      BY <3>1, <3>2, <3>3 DEF InLine
  <2>2. CASE ~(Len(chan) < ChanCap)
    <3>1. chan # <<>>
      BY <2>2, EmptySeq, CapAssumption
    <3>2. /\ chan' = Append(Tail(chan), received + 1)
          /\ sent' = sent /\ queue' = queue
      BY <1>2, <2>2 DEF Receive
    <3>3. Increasing(chan')
      BY <1>0, <1>1, <3>1, <3>2, AppendOrdered
    <3>4. AllBefore(sent, chan') /\ AllBefore(queue, chan')
      BY <1>0, <1>1, <3>1, <3>2, AppendAllBefore
    <3> QED
      BY <3>2, <3>3, <3>4 DEF InLine
  <2> QED
    BY <2>1, <2>2
<1>3. CASE Take
  <2>1. /\ chan # <<>> /\ chan' = Tail(chan) /\ sent' = sent
        /\ queue' = Append(queue, Head(chan))
    BY <1>3 DEF Take
  <2>2. Increasing(queue')
    BY <1>0, <1>1, <2>1, AppendOrdered DEF InLine
  <2>3. AllBefore(sent, queue') /\ AllBefore(queue', Tail(chan))
    BY <1>0, <1>1, <2>1, AppendAllBefore DEF InLine
  <2> QED
    BY <1>1, <2>1, <2>2, <2>3 DEF InLine
<1>4. CASE SendBatch
  <2>1. sent' = sent \o queue /\ queue' = <<>> /\ chan' = chan
    BY <1>4 DEF SendBatch
  <2> QED
    BY <1>0, <2>1, ConcatOrdered, EmptyOrdered DEF InLine
<1>5. CASE UNCHANGED <<chan, queue, sent>>
  BY <1>5 DEF InLine
<1> QED
  BY <1>2, <1>3, <1>4, <1>5
  DEF Next, RunPacketLoop, RunProcessLoop, Count, Tick, Visit, Remove, SendStats, TickEnds,
      packetVars, vars

\* The stale metric stays below its entry, and the reports below the counts.
LEMMA ReportStep ==
  ASSUME TypeOK, ReadBelow, NeverOverReported, [Next]_vars
  PROVE  ReadBelow' /\ NeverOverReported'
<1> USE DEF ReadBelow, NeverOverReported, InHand
<1>1. CASE Receive \/ Take \/ SendBatch
  BY <1>1 DEF Receive, Take, SendBatch, tickVars
<1>2. CASE Count
  <2>1. origin[packet] \in Processes
    BY <1>2, ElementOfSeq, LenProperties DEF Count, TypeOK, Packets, received
  <2> DEFINE q == origin[packet]
  <2>2. /\ counters' = [counters EXCEPT ![q] = counters[q] + 1]
        /\ counted' = [counted EXCEPT ![q] = counted[q] + 1]
        /\ UNCHANGED <<tick, process, metric, reported>>
    BY <1>2 DEF Count, tickVars
  <2> HIDE DEF q
  <2>3. q \in Processes
    BY <2>1 DEF q
  <2>4. ReadBelow'
    BY <2>2, <2>3 DEF TypeOK
  <2>5. ASSUME NEW r \in Processes
        PROVE  reported'[r] + InHand(r)' + counters'[r] <= counted'[r]
    <3>1. InHand(r)' = InHand(r) /\ reported'[r] = reported[r]
      BY <2>2
    <3> HIDE DEF InHand
    <3>2. \/ counters'[r] = counters[r] /\ counted'[r] = counted[r]
          \/ counters'[r] = counters[r] + 1 /\ counted'[r] = counted[r] + 1
      BY <2>2, <2>3 DEF TypeOK
    <3>3. /\ reported[r] \in Nat /\ counters[r] \in Nat /\ counted[r] \in Nat
          /\ InHand(r) \in Nat
      BY DEF TypeOK, InHand
    <3>4. reported[r] + InHand(r) + counters[r] <= counted[r]
      OBVIOUS
    <3> HIDE DEF NeverOverReported
    <3> QED
      BY <3>1, <3>2, <3>3, <3>4
  <2> QED
    BY <2>4, <2>5
<1>3. CASE Tick \/ TickEnds
  BY <1>3 DEF Tick, TickEnds, packetVars
<1>4. ASSUME NEW p \in Processes, Visit(p)
      PROVE  ReadBelow' /\ NeverOverReported'
  BY <1>4 DEF Visit, TypeOK, packetVars
<1>5. CASE Remove
  BY <1>5 DEF Remove, TypeOK, packetVars
<1>6. CASE SendStats
  BY <1>6 DEF SendStats, TypeOK, packetVars
<1>7. CASE UNCHANGED vars
  BY <1>7 DEF vars, packetVars, tickVars
<1> QED
  BY <1>1, <1>2, <1>3, <1>4, <1>5, <1>6, <1>7 DEF Next, RunPacketLoop, RunProcessLoop

\* Nothing is counted or queued at first.
LEMMA InitIInv == Init => IInv
<1> SUFFICES ASSUME Init PROVE IInv
  OBVIOUS
<1>1. TypeOK
  <2>1. \A S : <<>> \in Seq(S)
    BY EmptySeq
  <2>2. Len(chan) <= ChanCap
    BY CapAssumption, EmptySeq DEF Init
  <2> QED
    BY <2>1, <2>2 DEF Init, TypeOK
<1>2. InLine
  BY EmptyOrdered DEF Init, InLine
<1>3. ReadBelow /\ NeverOverReported
  BY DEF Init, ReadBelow, NeverOverReported, InHand
<1> QED
  BY <1>1, <1>2, <1>3 DEF IInv

\* Every step of the two loops keeps IInv.
LEMMA StepIInv == IInv /\ [Next]_vars => IInv'
BY TypeStep, LineStep, ReportStep DEF IInv

\* The reachable states of both loops satisfy IInv.
THEOREM Invariance == Spec => []IInv
BY InitIInv, StepIInv, PTL DEF Spec

\* Channel, queue, dictionary and both loops' registers are always well formed.
THEOREM TypeCorrect == Spec => []TypeOK
<1>1. IInv => TypeOK
  BY DEF IInv
<1> QED
  BY <1>1, Invariance, PTL

\* However the two loops interleave on the dictionary, no packet is reported twice.
THEOREM ReportsBelowCounts == Spec => []NeverOverReported
<1>1. IInv => NeverOverReported
  BY DEF IInv
<1> QED
  BY <1>1, Invariance, PTL

\* Each step is, for the batches sent, a step of LossyFeed or none.
LEMMA DashboardStep ==
  IInv /\ IInv' /\ [Next]_vars => [Dashboard!Next]_(Dashboard!vars)
<1> SUFFICES ASSUME IInv, IInv', [Next]_vars
             PROVE  [Dashboard!Next]_(Dashboard!vars)
  OBVIOUS
<1>0. /\ sent \in Seq(Packets) /\ queue \in Seq(Packets)
      /\ sent' \in Seq(Packets') /\ Increasing(sent')
      /\ Len(sent) \in Nat /\ Len(queue) \in Nat
      /\ origin \in Seq(Processes)
  BY LenProperties DEF IInv, TypeOK, InLine
<1>1. CASE Receive
  <2>1. PICK p \in Processes : origin' = Append(origin, p)
    BY <1>1 DEF Receive
  <2>2. received' = received + 1 /\ sent' = sent
    BY <1>0, <1>1, <2>1, AppendProperties DEF Receive, received
  <2>3. Dashboard!Produce
    BY <2>2 DEF Dashboard!Produce
  <2> QED
    BY <2>3 DEF Dashboard!Next
<1>2. CASE SendBatch
  <2>1. /\ sent' = sent \o queue /\ received' = received /\ Packets' = Packets
        /\ queue # <<>>
    BY <1>2 DEF SendBatch, received, Packets
  <2>2. Len(sent') = Len(sent) + Len(queue) /\ Len(queue) # 0
    BY <1>0, <2>1, ConcatProperties, EmptySeq
  <2>3. sent = SubSeq(sent', 1, Len(sent))
    BY <1>0, <2>1, PrefixOfConcat
  <2>4. Dashboard!Receive
    BY <1>0, <2>1, <2>2, <2>3
    DEF Dashboard!Receive, Dashboard!Increasing, Increasing, Packets
  <2> QED
    BY <2>4 DEF Dashboard!Next
<1>3. CASE UNCHANGED <<origin, sent>>
  BY <1>3 DEF Dashboard!vars, received
<1> QED
  BY <1>1, <1>2, <1>3
  DEF Next, RunPacketLoop, RunProcessLoop, Take, Count, Tick, Visit, Remove, SendStats,
      TickEnds, packetVars, vars

\* The dashboards' batches are a lossy, ordered, duplicate-free feed of the packets.
THEOREM BatchesImplementLossyFeed == Spec => DashboardIsLossyFeed
<1>1. Init => Dashboard!Init
  BY EmptySeq DEF Init, Dashboard!Init, received
<1> QED
  BY <1>1, DashboardStep, Invariance, PTL DEF Spec, DashboardIsLossyFeed, Dashboard!Spec
=============================================================================
