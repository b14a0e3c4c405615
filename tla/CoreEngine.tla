----------------------------- MODULE CoreEngine -----------------------------
(***************************************************************************)
(* The Rust process aether_core: one producer (live capture or the demo    *)
(* generator) feeds two bounded mpsc channels, one processor task per      *)
(* channel forwards into a tokio broadcast channel, and every open gRPC    *)
(* stream reads that broadcast with its own cursor.                        *)
(*                                                                         *)
(* A packet is its capture number; an alert is the number of the packet it *)
(* was raised for.  The broadcast channel is an ever growing log of which  *)
(* only the last RingCap entries are still readable, as in tokio.          *)
(***************************************************************************)
EXTENDS Naturals, Sequences, Order

CONSTANTS
  Streams,     \* the gRPC streams clients may open
  FeedOf,      \* which of the two services a stream subscribes to
  QueueCap,    \* capacity of each mpsc channel
  RingCap,     \* capacity of each broadcast channel
  MaxPackets   \* model bound: packets captured

Feeds == {"packets", "alerts"}
Modes == {"live", "demo", "disabled"}

ASSUME StreamsAssumption == FeedOf \in [Streams -> Feeds]
ASSUME CapsAssumption ==
  /\ QueueCap \in [Feeds -> Nat \ {0}]
  /\ RingCap \in [Feeds -> Nat \ {0}]
ASSUME BoundAssumption == MaxPackets \in Nat

VARIABLES
  mode,       \* which producer main() started
  grpc,       \* "serving", or "failed": the server task panicked, main goes on
  captured,   \* how many packets were captured so far
  producer,   \* where the producer task is
  flagged,    \* does the packet in hand raise an alert
  queue,      \* feed -> the mpsc channel
  processor,  \* feed -> is the processor task running
  log,        \* feed -> everything broadcast since the engine started
  cursor,     \* stream -> index in log of its next message; 0 when closed
  delivered   \* stream -> history of what its client received

engineVars == <<mode, grpc, flagged, processor>>
vars == <<mode, grpc, captured, producer, flagged, queue, processor, log,
          cursor, delivered>>

Open(s) == cursor[s] # 0

Subscribed(f) == \E s \in Streams : FeedOf[s] = f /\ Open(s)

\* The oldest log index the ring still holds.
Oldest(f) == IF Len(log[f]) > RingCap[f] THEN Len(log[f]) - RingCap[f] + 1 ELSE 1

Init ==
  /\ captured = 0
  /\ delivered = [s \in Streams |-> <<>>]
  /\ mode \in Modes
  /\ grpc \in {"serving", "failed"}
  /\ producer = "capture"
  /\ flagged = FALSE
  /\ queue = [f \in Feeds |-> <<>>]
  /\ processor = [f \in Feeds |-> "running"]
  /\ log = [f \in Feeds |-> <<>>]
  /\ cursor = [s \in Streams |-> 0]

-----------------------------------------------------------------------------
(* The producer: the capture thread or the demo generator. *)

\* Mutant of CapturePacket: a frame parse_packet rejects is sent on all the same.
CaptureUnparsed ==
  /\ producer = "capture"
  /\ mode # "disabled"
  /\ captured < MaxPackets
  /\ flagged' \in BOOLEAN
  /\ producer' = "sendPacket"
  /\ UNCHANGED <<mode, grpc, captured, queue, processor, log, cursor, delivered>>

\* Mutant of CapturePacket: the alert goes out before the packet is sent.
CaptureAlertFirst ==
  /\ producer = "capture"
  /\ mode # "disabled"
  /\ captured < MaxPackets
  /\ Len(queue["alerts"]) < QueueCap["alerts"]
  /\ captured' = captured + 1
  /\ flagged' = FALSE
  /\ queue' = [queue EXCEPT !["alerts"] = Append(@, captured + 1)]
  /\ producer' = "sendPacket"
  /\ UNCHANGED <<mode, grpc, processor, log, cursor, delivered>>

CapturePacket ==
  /\ producer = "capture"
  /\ mode # "disabled"
  /\ captured < MaxPackets
  /\ captured' = captured + 1
  /\ flagged' \in BOOLEAN
  /\ producer' = "sendPacket"
  /\ UNCHANGED <<mode, grpc, queue, processor, log, cursor, delivered>>

\* No usable interface, the channel does not open, or a read fails.
CaptureFails ==
  /\ producer = "capture"
  /\ mode = "live"
  /\ producer' = "done"
  /\ UNCHANGED <<engineVars, captured, queue, log, cursor, delivered>>

\* Both sends wait for room.  Their error branches need a dropped receiver,
\* and the processors outlive the producer (ProcessorsOutliveProducer).
SendPacket ==
  /\ producer = "sendPacket"
  /\ Len(queue["packets"]) < QueueCap["packets"]
  /\ queue' = [queue EXCEPT !["packets"] = Append(@, captured)]
  /\ producer' = IF flagged THEN "sendAlert" ELSE "capture"
  /\ UNCHANGED <<engineVars, captured, log, cursor, delivered>>

SendAlert ==
  /\ producer = "sendAlert"
  /\ Len(queue["alerts"]) < QueueCap["alerts"]
  /\ queue' = [queue EXCEPT !["alerts"] = Append(@, captured)]
  /\ producer' = "capture"
  /\ UNCHANGED <<engineVars, captured, log, cursor, delivered>>

-----------------------------------------------------------------------------
(* The processor tasks. *)

\* Mutant of Process: wait for a subscriber before forwarding.
ProcessForSubscribers(f) ==
  /\ processor[f] = "running"
  /\ queue[f] # <<>>
  /\ Subscribed(f)
  /\ queue' = [queue EXCEPT ![f] = Tail(@)]
  /\ log' = [log EXCEPT ![f] = Append(@, Head(queue[f]))]
  /\ UNCHANGED <<mode, grpc, captured, producer, flagged, processor, cursor,
                 delivered>>

\* A broadcast without receivers fails, and the error is ignored.
Process(f) ==
  /\ processor[f] = "running"
  /\ queue[f] # <<>>
  /\ queue' = [queue EXCEPT ![f] = Tail(@)]
  /\ log' = IF Subscribed(f)
              THEN [log EXCEPT ![f] = Append(@, Head(queue[f]))]
              ELSE log
  /\ UNCHANGED <<mode, grpc, captured, producer, flagged, processor, cursor,
                 delivered>>

\* Mutant of ProcessorEnds: main keeps a sender, so recv() never returns None.
ProcessorNeverEnds(f) == FALSE /\ UNCHANGED vars /\ f \in Feeds

\* recv() returns None once the producer has dropped its sender and the
\* channel is drained.
ProcessorEnds(f) ==
  /\ processor[f] = "running"
  /\ producer = "done"
  /\ queue[f] = <<>>
  /\ processor' = [processor EXCEPT ![f] = "done"]
  /\ UNCHANGED <<mode, grpc, captured, producer, flagged, queue, log, cursor,
                 delivered>>

-----------------------------------------------------------------------------
(* The gRPC streams. *)

Subscribe(s) ==
  /\ grpc = "serving"
  /\ ~Open(s)
  /\ cursor' = [cursor EXCEPT ![s] = Len(log[FeedOf[s]]) + 1]
  /\ UNCHANGED <<engineVars, captured, producer, queue, log, delivered>>

\* Mutant of Deliver: the cursor stays where it is.
DeliverAgain(s) ==
  LET f == FeedOf[s] IN
  /\ Open(s)
  /\ cursor[s] \in Oldest(f)..Len(log[f])
  /\ delivered' = [delivered EXCEPT ![s] = Append(@, log[f][cursor[s]])]
  /\ Len(delivered[s]) < MaxPackets
  /\ UNCHANGED <<engineVars, captured, producer, queue, log, cursor>>

Deliver(s) ==
  LET f == FeedOf[s] IN
  /\ Open(s)
  /\ cursor[s] \in Oldest(f)..Len(log[f])
  /\ delivered' = [delivered EXCEPT ![s] = Append(@, log[f][cursor[s]])]
  /\ cursor' = [cursor EXCEPT ![s] = @ + 1]
  /\ UNCHANGED <<engineVars, captured, producer, queue, log>>

\* Mutant of SkipLagged: the Lagged error is dropped, the cursor is not moved.
StayLagged(s) ==
  /\ Open(s)
  /\ cursor[s] < Oldest(FeedOf[s])
  /\ UNCHANGED vars

\* A reader overtaken by the ring gets a Lagged error, which filter_map drops;
\* its cursor moves to the oldest message still held.
SkipLagged(s) ==
  /\ Open(s)
  /\ cursor[s] < Oldest(FeedOf[s])
  /\ cursor' = [cursor EXCEPT ![s] = Oldest(FeedOf[s])]
  /\ UNCHANGED <<engineVars, captured, producer, queue, log, delivered>>

\* The client goes away, or the connection to it breaks.
Disconnect(s) ==
  /\ Open(s)
  /\ cursor' = [cursor EXCEPT ![s] = 0]
  /\ UNCHANGED <<engineVars, captured, producer, queue, log, delivered>>

\* The process is killed or crashes and the launcher starts it again: all of
\* its memory is gone, the streams break.
EngineRestart ==
  /\ mode' \in Modes
  /\ grpc' \in {"serving", "failed"}
  /\ producer' = "capture"
  /\ flagged' = FALSE
  /\ queue' = [f \in Feeds |-> <<>>]
  /\ processor' = [f \in Feeds |-> "running"]
  /\ log' = [f \in Feeds |-> <<>>]
  /\ cursor' = [s \in Streams |-> 0]
  /\ UNCHANGED <<captured, delivered>>

-----------------------------------------------------------------------------
Produce == CapturePacket \/ CaptureFails \/ SendPacket \/ SendAlert

Next ==
  \/ Produce
  \/ \E f \in Feeds : Process(f) \/ ProcessorEnds(f)
  \/ \E s \in Streams :
       Subscribe(s) \/ Deliver(s) \/ SkipLagged(s) \/ Disconnect(s)
  \/ EngineRestart

Spec == Init /\ [][Next]_vars

\* tokio runs every task that can run; a connected client keeps reading.
\* Nothing obliges packets to arrive, clients to come or go, or crashes.
Fairness ==
  /\ WF_vars(SendPacket)
  /\ WF_vars(SendAlert)
  /\ \A f \in Feeds : WF_vars(Process(f)) /\ WF_vars(ProcessorEnds(f))
  /\ \A s \in Streams : WF_vars(Deliver(s)) /\ WF_vars(SkipLagged(s))

FairSpec == Spec /\ Fairness

-----------------------------------------------------------------------------
Items == 1..captured

TypeOK ==
  /\ mode \in Modes
  /\ grpc \in {"serving", "failed"}
  /\ captured \in Nat
  /\ producer \in {"capture", "sendPacket", "sendAlert", "done"}
  /\ flagged \in BOOLEAN
  /\ queue \in [Feeds -> Seq(Items)]
  /\ processor \in [Feeds -> {"running", "done"}]
  /\ log \in [Feeds -> Seq(Items)]
  /\ cursor \in [Streams -> Nat]
  /\ delivered \in [Streams -> Seq(Items)]

-----------------------------------------------------------------------------
(* Properties. *)

\* No gRPC client ever receives a packet or an alert twice or out of capture
\* order, whatever its lag, its reconnections and the engine's restarts
\* (processor.rs: mpsc, broadcast and per-stream cursor together).
InOrderOnce == \A s \in Streams : Increasing(delivered[s])

\* stream.rs sends a packet before the alert raised for it: while the packet
\* waits for room, its alert is in no channel, no broadcast, no client.
AlertAfterItsPacket ==
  producer = "sendPacket" =>
    /\ UpTo(queue["alerts"], captured - 1)
    /\ UpTo(log["alerts"], captured - 1)
    /\ \A s \in Streams :
         FeedOf[s] = "alerts" => UpTo(delivered[s], captured - 1)

\* A processor task returns, dropping its receiver, only after the producer
\* ended and with nothing left behind: sends never fail, no packet accepted
\* before the capture stopped is stranded.
ProcessorsOutliveProducer ==
  \A f \in Feeds :
    processor[f] = "done" => producer = "done" /\ queue[f] = <<>>

\* A full channel never blocks the capture for good: with clients or without,
\* reading or stalled, the send completes (processors never wait for clients).
BackpressureResolves ==
  producer \in {"sendPacket", "sendAlert"} ~> producer = "capture"

\* When the capture ends both processors drain their channel and end too.
CaptureEndDrains ==
  producer = "done" ~>
    \/ \A f \in Feeds : processor[f] = "done" /\ queue[f] = <<>>
    \/ producer # "done"

\* A client that stays connected gets past every broadcast position, also when
\* the ring overtook it (the Lagged error does not end or wedge the stream).
StreamCatchesUp ==
  \A s \in Streams, i \in 1..MaxPackets :
    (cursor[s] = i /\ i <= Len(log[FeedOf[s]])) ~> (~Open(s) \/ cursor[s] > i)

Feed(s) == INSTANCE LossyFeed WITH produced <- captured, received <- delivered[s]

\* Every gRPC stream is a lossy but ordered, duplicate-free feed of the packets
\* captured: each step is a step of LossyFeed, or leaves the stream alone.
StreamsAreLossyFeeds ==
  /\ \A s \in Streams : Feed(s)!Init
  /\ [][\A s \in Streams : [Feed(s)!Next]_(Feed(s)!vars)]_vars
=============================================================================
