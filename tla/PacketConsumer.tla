--------------------------- MODULE PacketConsumer ---------------------------
(***************************************************************************)
(* PacketConsumerService: one loop takes packets off the bounded channel,  *)
(* batches them for the dashboards and counts them per process; another    *)
(* loop, once a second, reports and clears the counters.  The counters are *)
(* a ConcurrentDictionary both loops use without a common lock.            *)
(*                                                                         *)
(* A packet is its number; origin[n] is the process of packet n.  A        *)
(* counter holds the packets counted, 0 when the dictionary has no entry;  *)
(* the bytes counted beside them have the same fate.                       *)
(***************************************************************************)
EXTENDS Naturals, Sequences, Functions, Order

CONSTANTS
  Processes,  \* process names
  ChanCap,    \* capacity of the packet channel
  MaxPackets  \* model bound: packets received

ASSUME CapAssumption == ChanCap \in Nat \ {0}
ASSUME BoundAssumption == MaxPackets \in Nat
ASSUME ProcessesAssumption == Processes # {}

VARIABLES
  origin,     \* the processes of the packets the gRPC client has written
  chan,       \* the packet channel
  packet,     \* the packet the packet loop is counting; 0 when it reads
  queue,      \* packets waiting for the next ReceivePackets
  sent,       \* history: the packets sent in ReceivePackets
  counters,   \* process -> packets counted and not cleared
  counted,    \* history: process -> packets counted
  tick,       \* where the process loop is
  toVisit,    \* the keys its enumeration has still to pass
  process,    \* the entry it read
  metric,
  reported    \* history: process -> packets sent in ReceiveProcessStats

packetVars == <<origin, chan, packet, queue, sent, counted>>
tickVars == <<tick, toVisit, process, metric, reported>>
vars == <<packetVars, counters, tickVars>>

received == Len(origin)

Init ==
  /\ origin = <<>>
  /\ chan = <<>>
  /\ packet = 0
  /\ queue = <<>>
  /\ sent = <<>>
  /\ counters = [p \in Processes |-> 0]
  /\ counted = [p \in Processes |-> 0]
  /\ tick = "wait"
  /\ toVisit = {}
  /\ process \in Processes
  /\ metric = 0
  /\ reported = [p \in Processes |-> 0]

-----------------------------------------------------------------------------
\* Mutant of Receive: the channel is unbounded.
ReceiveUnbounded ==
  /\ received < MaxPackets
  /\ \E p \in Processes : origin' = Append(origin, p)
  /\ chan' = Append(chan, received + 1)
  /\ UNCHANGED <<packet, queue, sent, counted, counters, tickVars>>

\* The gRPC client's WriteAsync: a full channel drops its oldest packet.
Receive ==
  /\ received < MaxPackets
  /\ \E p \in Processes : origin' = Append(origin, p)
  /\ chan' = Append(IF Len(chan) < ChanCap THEN chan ELSE Tail(chan), received + 1)
  /\ UNCHANGED <<packet, queue, sent, counted, counters, tickVars>>

\* TryRead, the write to the persistence channel, and Enqueue.
Take ==
  /\ packet = 0
  /\ chan # <<>>
  /\ packet' = Head(chan)
  /\ chan' = Tail(chan)
  /\ queue' = Append(queue, Head(chan))
  /\ UNCHANGED <<origin, sent, counted, counters, tickVars>>

\* AddOrUpdate: one atomic update of the entry, which it creates if need be.
Count ==
  /\ packet # 0
  /\ counters' = [counters EXCEPT ![origin[packet]] = @ + 1]
  /\ counted' = [counted EXCEPT ![origin[packet]] = @ + 1]
  /\ packet' = 0
  /\ UNCHANGED <<origin, chan, queue, sent, tickVars>>

\* Mutant of SendBatch: the batch is copied, not dequeued.
SendCopy ==
  /\ packet = 0
  /\ chan = <<>>
  /\ queue # <<>>
  /\ Len(sent) <= MaxPackets
  /\ sent' = sent \o queue
  /\ UNCHANGED <<origin, chan, packet, queue, counted, counters, tickVars>>

\* Only a drained channel lets the batch go.
SendBatch ==
  /\ packet = 0
  /\ chan = <<>>
  /\ queue # <<>>
  /\ sent' = sent \o queue
  /\ queue' = <<>>
  /\ UNCHANGED <<origin, chan, packet, counted, counters, tickVars>>

-----------------------------------------------------------------------------
Tick ==
  /\ tick = "wait"
  /\ toVisit' = Processes
  /\ tick' = "visit"
  /\ UNCHANGED <<packetVars, counters, process, metric, reported>>

\* The enumerator passes every key once, in an order of its own, and yields the
\* entry as it is at that moment.
Visit(p) ==
  /\ tick = "visit"
  /\ p \in toVisit
  /\ toVisit' = toVisit \ {p}
  /\ IF counters[p] = 0
       THEN UNCHANGED <<tick, process, metric>>
       ELSE /\ process' = p
            /\ metric' = counters[p]
            /\ tick' = "remove"
  /\ UNCHANGED <<packetVars, counters, reported>>

\* Mutant of Remove: an entry updated since it was read is left for later.
RemoveIfUnchanged ==
  /\ tick = "remove"
  /\ counters' = [counters EXCEPT ![process] = IF @ = metric THEN 0 ELSE @]
  /\ tick' = "send"
  /\ UNCHANGED <<packetVars, toVisit, process, metric, reported>>

\* TryRemove takes the entry away whatever it holds by now.
Remove ==
  /\ tick = "remove"
  /\ counters' = [counters EXCEPT ![process] = 0]
  /\ tick' = "send"
  /\ UNCHANGED <<packetVars, toVisit, process, metric, reported>>

\* Mutant of SendStats: a process without enough traffic is passed over.
SendStatsOfBusy ==
  /\ tick = "send"
  /\ reported' = [reported EXCEPT ![process] = IF metric > 1 THEN @ + metric ELSE @]
  /\ tick' = "visit"
  /\ UNCHANGED <<packetVars, counters, toVisit, process, metric>>

SendStats ==
  /\ tick = "send"
  /\ reported' = [reported EXCEPT ![process] = @ + metric]
  /\ tick' = "visit"
  /\ UNCHANGED <<packetVars, counters, toVisit, process, metric>>

TickEnds ==
  /\ tick = "visit"
  /\ toVisit = {}
  /\ tick' = "wait"
  /\ UNCHANGED <<packetVars, counters, toVisit, process, metric, reported>>

-----------------------------------------------------------------------------
RunPacketLoop == Take \/ Count \/ SendBatch

RunProcessLoop ==
  \/ Tick
  \/ \E p \in Processes : Visit(p)
  \/ Remove \/ SendStats \/ TickEnds

Next == Receive \/ RunPacketLoop \/ RunProcessLoop

Spec == Init /\ [][Next]_vars

\* Both loops run whenever they can: the timer keeps ticking, the hub's sends
\* complete.  Packets need not come.
FairSpec == Spec /\ WF_vars(RunPacketLoop) /\ WF_vars(RunProcessLoop)

-----------------------------------------------------------------------------
Packets == 1..received

TypeOK ==
  /\ origin \in Seq(Processes)
  /\ chan \in Seq(Packets) /\ Len(chan) <= ChanCap
  /\ packet \in Packets \cup {0}
  /\ queue \in Seq(Packets)
  /\ sent \in Seq(Packets)
  /\ counters \in [Processes -> Nat]
  /\ counted \in [Processes -> Nat]
  /\ tick \in {"wait", "visit", "remove", "send"}
  /\ toVisit \subseteq Processes
  /\ process \in Processes
  /\ metric \in Nat
  /\ reported \in [Processes -> Nat]

-----------------------------------------------------------------------------
(* Properties. *)

\* What the entry being reported holds outside the dictionary.
InHand(p) == IF tick = "send" /\ process = p THEN metric ELSE 0

\* However the loops interleave on the dictionary, no packet is reported twice:
\* the reports of a process, with what is still to be reported, never exceed
\* the packets counted for it.
NeverOverReported ==
  \A p \in Processes : reported[p] + InHand(p) + counters[p] <= counted[p]

Dashboard == INSTANCE LossyFeed WITH produced <- received, received <- sent

\* The ReceivePackets batches are a lossy feed of the packets received: neither the
\* bounded channel's overflow nor the batching repeats or reorders a packet.
DashboardIsLossyFeed == Dashboard!Spec

\* As long as a process has traffic in the dictionary, one more ReceiveProcessStats with
\* packets of that process is still to be sent, also when packets are lost between the
\* enumeration's read and TryRemove (PacketConsumerService.cs:92-97).
EveryProcessReported ==
  \A p \in Processes, n \in 0..MaxPackets :
    counters[p] > 0 /\ reported[p] = n ~> reported[p] > n

\* ARCHITECTURE.md: "Backend aggregates metrics (e.g., packets/sec) over
\* 1-second windows": a packet counted is in a window, of this second or the
\* next.
EveryPacketInAWindow ==
  \A p \in Processes : reported[p] + InHand(p) + counters[p] = counted[p]
=============================================================================
