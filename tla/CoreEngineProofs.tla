-------------------------- MODULE CoreEngineProofs --------------------------
(***************************************************************************)
(* CoreEngine's safety properties, for every number of streams, every      *)
(* channel and ring capacity and every bound on the packets captured.      *)
(*                                                                         *)
(* InOrderOnce is not inductive by itself.  IInv adds what makes it so:    *)
(* each feed is ordered end to end (FeedsOrdered), what a client has is    *)
(* older than what its cursor can still reach (StreamsOrdered), and a      *)
(* cursor is at most one past the log.                                     *)
(***************************************************************************)
EXTENDS CoreEngine, OrderLemmas

\* The packets no processor can have seen yet are those still in the
\* producer's hand: everything in a feed is at most Handed(f).
Handed(f) ==
  IF \/ producer = "sendPacket"
     \/ producer = "sendAlert" /\ f = "alerts"
  THEN captured - 1
  ELSE captured

\* Each feed keeps capture order from the mpsc channel through the broadcast.
FeedsOrdered ==
  \A f \in Feeds :
    /\ Increasing(log[f])
    /\ Increasing(queue[f])
    /\ AllBefore(log[f], queue[f])
    /\ UpTo(log[f], Handed(f))
    /\ UpTo(queue[f], Handed(f))

\* What a stream was given is older than all it can still be given.
StreamsOrdered ==
  \A s \in Streams :
    LET f == FeedOf[s] IN
    /\ Increasing(delivered[s])
    /\ UpTo(delivered[s], Handed(f))
    /\ AllBefore(delivered[s], queue[f])
    /\ Open(s) => \A i \in DOMAIN delivered[s], j \in DOMAIN log[f] :
                    cursor[s] <= j => delivered[s][i] < log[f][j]

\* A packet in the producer's hand has a number.
HandPositive == producer \in {"sendPacket", "sendAlert"} => captured > 0

CursorInLog == \A s \in Streams : cursor[s] <= Len(log[FeedOf[s]]) + 1

TInv == TypeOK /\ HandPositive /\ CursorInLog

IInv ==
  /\ TInv
  /\ FeedsOrdered
  /\ StreamsOrdered
  /\ ProcessorsOutliveProducer

-----------------------------------------------------------------------------
\* The sequences of every feed and stream are sequences of natural numbers.
LEMMA SeqsOfNat ==
  ASSUME TypeOK
  PROVE  /\ \A f \in Feeds : queue[f] \in Seq(Nat) /\ log[f] \in Seq(Nat)
         /\ \A s \in Streams : delivered[s] \in Seq(Nat) /\ FeedOf[s] \in Feeds
<1>1. Items \subseteq Nat
  BY DEF Items, TypeOK
<1> QED
  BY <1>1, SeqMonotonic, StreamsAssumption DEF TypeOK

\* Types, and the cursors' bound, are kept by every step.
LEMMA TypeStep ==
  ASSUME TInv, [Next]_vars
  PROVE  TInv'
<1> USE StreamsAssumption, CapsAssumption DEF Feeds, Items
<1>0. /\ TypeOK /\ HandPositive /\ CursorInLog
      /\ \A s \in Streams : FeedOf[s] \in Feeds
  BY DEF TInv
<1>1. CASE CapturePacket
  <2>1. captured' \in Nat /\ Items \subseteq Items'
    BY <1>0, <1>1 DEF CapturePacket, TypeOK
  <2>2. \A f \in Feeds : queue[f] \in Seq(Items') /\ log[f] \in Seq(Items')
    BY <1>0, <2>1, SeqMonotonic DEF TypeOK
  <2>3. \A s \in Streams : delivered[s] \in Seq(Items')
    BY <1>0, <2>1, SeqMonotonic DEF TypeOK
  <2>4. TypeOK'
    BY <1>0, <1>1, <2>1, <2>2, <2>3 DEF CapturePacket, TypeOK
  <2> QED
    BY <1>0, <1>1, <2>4 DEF CapturePacket, TInv, TypeOK, HandPositive, CursorInLog
<1>2. CASE CaptureFails
  BY <1>0, <1>2 DEF CaptureFails, TInv, TypeOK, HandPositive, CursorInLog, engineVars
<1>3. CASE SendPacket
  <2>1. Append(queue["packets"], captured) \in Seq(Items)
    BY <1>0, <1>3, AppendProperties DEF SendPacket, TypeOK, HandPositive
  <2> QED
    BY <1>0, <1>3, <2>1
    DEF SendPacket, TInv, TypeOK, HandPositive, CursorInLog, engineVars
<1>4. CASE SendAlert
  <2>1. Append(queue["alerts"], captured) \in Seq(Items)
    BY <1>0, <1>4, AppendProperties DEF SendAlert, TypeOK, HandPositive
  <2> QED
    BY <1>0, <1>4, <2>1
    DEF SendAlert, TInv, TypeOK, HandPositive, CursorInLog, engineVars
<1>5. ASSUME NEW f \in Feeds, Process(f)
      PROVE  TInv'
  <2>1. Head(queue[f]) \in Items /\ Tail(queue[f]) \in Seq(Items)
    BY <1>0, <1>5, HeadTailProperties DEF Process, TypeOK
  <2>2. /\ Append(log[f], Head(queue[f])) \in Seq(Items)
        /\ Len(Append(log[f], Head(queue[f]))) = Len(log[f]) + 1
        /\ Len(log[f]) \in Nat
    BY <1>0, <2>1, AppendProperties, LenProperties DEF TypeOK
  <2>3. TypeOK'
    BY <1>0, <1>5, <2>1, <2>2 DEF Process, TypeOK
  <2>4. ASSUME NEW s \in Streams
        PROVE  cursor'[s] <= Len(log'[FeedOf[s]]) + 1
    <3>1. /\ cursor[s] \in Nat /\ cursor[s] <= Len(log[FeedOf[s]]) + 1
          /\ FeedOf[s] \in Feeds
      BY <1>0 DEF TypeOK, CursorInLog
    <3>2. /\ Len(log[FeedOf[s]]) \in Nat
          /\ \/ log'[FeedOf[s]] = log[FeedOf[s]]
             \/ Len(log'[FeedOf[s]]) = Len(log[FeedOf[s]]) + 1
      BY <1>0, <1>5, <2>2, <3>1, LenProperties DEF Process, TypeOK
    <3> QED
      BY <1>5, <3>1, <3>2 DEF Process
  <2> QED
    BY <1>0, <1>5, <2>3, <2>4 DEF Process, TInv, HandPositive, CursorInLog
<1>6. ASSUME NEW f \in Feeds, ProcessorEnds(f)
      PROVE  TInv'
  BY <1>0, <1>6 DEF ProcessorEnds, TInv, TypeOK, HandPositive, CursorInLog
<1>7. ASSUME NEW s \in Streams, Subscribe(s)
      PROVE  TInv'
  <2>1. Len(log[FeedOf[s]]) \in Nat
    BY <1>0, LenProperties DEF TypeOK
  <2>4. TypeOK'
    BY <1>0, <1>7, <2>1 DEF Subscribe, TypeOK, engineVars
  <2>5. CursorInLog'
    BY <1>0, <1>7, <2>1 DEF Subscribe, TypeOK, CursorInLog
  <2> QED
    BY <1>0, <1>7, <2>4, <2>5 DEF Subscribe, TInv, HandPositive, engineVars
<1>8. ASSUME NEW s \in Streams, Deliver(s)
      PROVE  TInv'
  <2>1. /\ Len(log[FeedOf[s]]) \in Nat
        /\ cursor[s] \in Nat /\ cursor[s] # 0 /\ cursor[s] <= Len(log[FeedOf[s]])
    BY <1>0, <1>8, LenProperties DEF Deliver, Open, Oldest, TypeOK
  <2>2. log[FeedOf[s]][cursor[s]] \in Items
    BY <1>0, <2>1, ElementOfSeq DEF TypeOK
  <2>3. Append(delivered[s], log[FeedOf[s]][cursor[s]]) \in Seq(Items)
    BY <1>0, <2>2, AppendProperties DEF TypeOK
  <2>5. /\ log' = log /\ captured' = captured
        /\ cursor' = [cursor EXCEPT ![s] = @ + 1]
        /\ delivered' = [delivered EXCEPT
                           ![s] = Append(@, log[FeedOf[s]][cursor[s]])]
    BY <1>8 DEF Deliver
  <2>7. cursor' \in [Streams -> Nat]
    <3>1. cursor \in [Streams -> Nat]
      BY <1>0 DEF TypeOK
    <3>2. cursor[s] + 1 \in Nat
      BY <2>1
    <3>3. cursor' = [cursor EXCEPT ![s] = cursor[s] + 1]
      BY <2>5
    <3> QED
      BY <3>1, <3>2, <3>3
  <2>8. delivered' \in [Streams -> Seq(Items)]
    <3>1. delivered \in [Streams -> Seq(Items)]
      BY <1>0 DEF TypeOK
    <3> QED
      BY <2>3, <2>5, <3>1
  <2>9. /\ mode' = mode /\ grpc' = grpc /\ flagged' = flagged
        /\ captured' = captured /\ producer' = producer
        /\ queue' = queue /\ processor' = processor /\ log' = log
    BY <1>8, Zenon DEF Deliver, engineVars
  <2>4. TypeOK'
    BY <1>0, <2>7, <2>8, <2>9, Zenon DEF TypeOK
  <2>6. CursorInLog'
    <3>1. ASSUME NEW t \in Streams
          PROVE  cursor'[t] <= Len(log'[FeedOf[t]]) + 1
      <4>1. /\ cursor \in [Streams -> Nat]
            /\ cursor[t] <= Len(log[FeedOf[t]]) + 1
        BY <1>0 DEF TypeOK, CursorInLog
      <4>2. cursor'[t] = IF t = s THEN cursor[s] + 1 ELSE cursor[t]
        BY <2>5, <4>1
      <4>3. log' = log
        BY <2>5
      <4> QED
        BY <2>1, <4>1, <4>2, <4>3
    <3> QED
      BY <3>1 DEF CursorInLog
  <2> QED
    BY <1>0, <1>8, <2>4, <2>6 DEF Deliver, TInv, HandPositive, engineVars
<1>9. ASSUME NEW s \in Streams, SkipLagged(s)
      PROVE  TInv'
  <2>1. Len(log[FeedOf[s]]) \in Nat
    BY <1>0, LenProperties DEF TypeOK
  <2>2. RingCap[FeedOf[s]] \in Nat \ {0}
    BY <1>0
  <2>3. Oldest(FeedOf[s]) \in Nat /\ Oldest(FeedOf[s]) <= Len(log[FeedOf[s]]) + 1
    BY <2>1, <2>2 DEF Oldest
  <2>4. TypeOK'
    BY <1>0, <1>9, <2>3 DEF SkipLagged, TypeOK, engineVars
  <2>5. CursorInLog'
    BY <1>0, <1>9, <2>3 DEF SkipLagged, TypeOK, CursorInLog
  <2> QED
    BY <1>0, <1>9, <2>4, <2>5 DEF SkipLagged, TInv, HandPositive, engineVars
<1>10. ASSUME NEW s \in Streams, Disconnect(s)
       PROVE  TInv'
  <2>1. Len(log[FeedOf[s]]) \in Nat
    BY <1>0, LenProperties DEF TypeOK
  <2>4. TypeOK'
    BY <1>0, <1>10, <2>1 DEF Disconnect, TypeOK, engineVars
  <2>5. CursorInLog'
    BY <1>0, <1>10, <2>1 DEF Disconnect, TypeOK, CursorInLog
  <2> QED
    BY <1>0, <1>10, <2>4, <2>5 DEF Disconnect, TInv, HandPositive, engineVars
<1>11. CASE EngineRestart
  <2>1. <<>> \in Seq(Items) /\ Len(<<>>) = 0
    BY EmptySeq
  <2>2. TypeOK'
    BY <1>0, <1>11, <2>1 DEF EngineRestart, TypeOK
  <2>3. ASSUME NEW s \in Streams
        PROVE  cursor'[s] <= Len(log'[FeedOf[s]]) + 1
    BY <1>0, <1>11, <2>1 DEF EngineRestart
  <2> QED
    BY <1>11, <2>2, <2>3 DEF EngineRestart, TInv, HandPositive, CursorInLog
<1>12. CASE UNCHANGED vars
  BY <1>0, <1>12 DEF vars, TInv, TypeOK, HandPositive, CursorInLog
<1> QED
  BY <1>1, <1>2, <1>3, <1>4, <1>5, <1>6, <1>7, <1>8, <1>9, <1>10, <1>11, <1>12
  DEF Next, Produce

-----------------------------------------------------------------------------
\* What left the producer's hand stays out of it.
LEMMA HandedGrows ==
  ASSUME TInv, [Next]_vars, NEW f \in Feeds
  PROVE  Handed(f) \in Nat /\ Handed(f)' \in Nat /\ Handed(f) <= Handed(f)'
<1>0. /\ captured \in Nat /\ (producer \in {"sendPacket", "sendAlert"} => captured > 0)
      /\ producer \in {"capture", "sendPacket", "sendAlert", "done"}
      /\ f \in {"packets", "alerts"}
  BY DEF TInv, TypeOK, HandPositive, Feeds
<1>1. CASE CapturePacket
  BY <1>0, <1>1 DEF CapturePacket, Handed
<1>2. CASE CaptureFails
  BY <1>0, <1>2 DEF CaptureFails, Handed
<1>3. CASE SendPacket
  BY <1>0, <1>3 DEF SendPacket, Handed
<1>4. CASE SendAlert
  BY <1>0, <1>4 DEF SendAlert, Handed
<1>5. CASE EngineRestart
  BY <1>0, <1>5 DEF EngineRestart, Handed
<1>6. CASE UNCHANGED <<captured, producer>>
  BY <1>0, <1>6 DEF Handed
<1> QED
  BY <1>1, <1>2, <1>3, <1>4, <1>5, <1>6
  DEF Next, Produce, Process, ProcessorEnds, Subscribe, Deliver, SkipLagged,
      Disconnect, vars

\* One feed, its order named so that the proofs can speak of one f.
FeedOrdered(f) ==
  /\ Increasing(log[f])
  /\ Increasing(queue[f])
  /\ AllBefore(log[f], queue[f])
  /\ UpTo(log[f], Handed(f))
  /\ UpTo(queue[f], Handed(f))

\* A feed whose channel and log a step leaves alone stays ordered.
LEMMA QuietFeed ==
  ASSUME TInv, TInv', [Next]_vars, NEW f \in Feeds, FeedOrdered(f),
         queue'[f] = queue[f], log'[f] = log[f]
  PROVE  FeedOrdered(f)'
<1>1. queue[f] \in Seq(Nat) /\ log[f] \in Seq(Nat)
  BY SeqsOfNat DEF TInv
<1>2. Handed(f) \in Nat /\ Handed(f)' \in Nat /\ Handed(f) <= Handed(f)'
  BY HandedGrows
<1>3. UpTo(log[f], Handed(f)') /\ UpTo(queue[f], Handed(f)')
  BY <1>1, <1>2, UpToWeaken DEF FeedOrdered
<1> QED
  BY <1>3 DEF FeedOrdered

\* The producer appends something newer than all of the feed.
LEMMA SendOrdered ==
  ASSUME TInv, TInv', NEW f \in Feeds, FeedOrdered(f),
         Handed(f) = captured - 1, captured > 0, Handed(f)' = captured,
         queue'[f] = Append(queue[f], captured), log'[f] = log[f]
  PROVE  FeedOrdered(f)'
<1>1. queue[f] \in Seq(Nat) /\ log[f] \in Seq(Nat) /\ captured \in Nat
  BY SeqsOfNat DEF TInv, TypeOK
<1>2. captured - 1 \in Nat
  BY <1>1
<1>3. /\ \A i \in DOMAIN queue[f] : queue[f][i] < captured
      /\ \A i \in DOMAIN log[f] : log[f][i] < captured
  <2>1. /\ \A i \in DOMAIN queue[f] : queue[f][i] \in Nat
        /\ \A i \in DOMAIN log[f] : log[f][i] \in Nat
    BY <1>1, ElementOfSeq, LenProperties
  <2> QED
    BY <1>1, <2>1 DEF FeedOrdered, UpTo
<1>4. Increasing(queue'[f]) /\ UpTo(queue'[f], captured)
  BY <1>1, <1>3, AppendOrdered DEF FeedOrdered
<1>5. AllBefore(log[f], queue'[f])
  BY <1>1, <1>3, AppendAllBefore DEF FeedOrdered
<1>6. UpTo(log[f], captured)
  BY <1>1, <1>2, UpToWeaken DEF FeedOrdered
<1> QED
  BY <1>4, <1>5, <1>6 DEF FeedOrdered

\* Every feed stays in capture order.
LEMMA FeedsStep ==
  ASSUME TInv, TInv', FeedsOrdered, [Next]_vars
  PROVE  FeedsOrdered'
<1> SUFFICES ASSUME NEW f \in Feeds PROVE FeedOrdered(f)'
  BY DEF FeedsOrdered, FeedOrdered
<1>0. /\ FeedOrdered(f)
      /\ queue[f] \in Seq(Nat) /\ log[f] \in Seq(Nat)
      /\ f \in {"packets", "alerts"}
      /\ queue \in [Feeds -> Seq(Items)] /\ log \in [Feeds -> Seq(Items)]
      /\ captured \in Nat
  BY SeqsOfNat DEF FeedsOrdered, FeedOrdered, TInv, TypeOK, Feeds
<1>1. CASE SendPacket
  <2>1. CASE f = "packets"
    <3>1. /\ Handed(f) = captured - 1 /\ captured > 0 /\ Handed(f)' = captured
          /\ queue'[f] = Append(queue[f], captured) /\ log'[f] = log[f]
      BY <1>0, <1>1, <2>1 DEF SendPacket, Handed, TInv, HandPositive
    <3> QED
      BY <1>0, <3>1, SendOrdered
  <2>2. CASE f = "alerts"
    <3>1. queue'[f] = queue[f] /\ log'[f] = log[f]
      BY <1>0, <1>1, <2>2 DEF SendPacket
    <3> QED
      BY <1>0, <3>1, QuietFeed
  <2> QED
    BY <1>0, <2>1, <2>2
<1>2. CASE SendAlert
  <2>1. CASE f = "alerts"
    <3>1. /\ Handed(f) = captured - 1 /\ captured > 0 /\ Handed(f)' = captured
          /\ queue'[f] = Append(queue[f], captured) /\ log'[f] = log[f]
      BY <1>0, <1>2, <2>1 DEF SendAlert, Handed, TInv, HandPositive
    <3> QED
      BY <1>0, <3>1, SendOrdered
  <2>2. CASE f = "packets"
    <3>1. queue'[f] = queue[f] /\ log'[f] = log[f]
      BY <1>0, <1>2, <2>2 DEF SendAlert
    <3> QED
      BY <1>0, <3>1, QuietFeed
  <2> QED
    BY <1>0, <2>1, <2>2
<1>3. ASSUME NEW g \in Feeds, Process(g)
      PROVE  FeedOrdered(f)'
  <2>1. CASE g # f
    <3>1. queue'[f] = queue[f] /\ log'[f] = log[f]
      BY <1>0, <1>3, <2>1 DEF Process
    <3> QED
      BY <1>0, <3>1, QuietFeed
  <2>2. CASE g = f
    <3>1. /\ queue[f] # <<>> /\ queue'[f] = Tail(queue[f])
          /\ \/ log'[f] = log[f]
             \/ log'[f] = Append(log[f], Head(queue[f]))
          /\ Handed(f)' = Handed(f)
      BY <1>0, <1>3, <2>2 DEF Process, Handed
    <3>2. /\ Head(queue[f]) \in Nat
          /\ Tail(queue[f]) \in Seq(Nat)
          /\ Increasing(Tail(queue[f]))
          /\ \A i \in DOMAIN Tail(queue[f]) : Head(queue[f]) < Tail(queue[f])[i]
          /\ UpTo(Tail(queue[f]), Handed(f)) /\ Head(queue[f]) <= Handed(f)
          /\ AllBefore(log[f], Tail(queue[f]))
          /\ \A i \in DOMAIN log[f] : log[f][i] < Head(queue[f])
      BY <1>0, <3>1, TailOrdered DEF FeedOrdered
    <3>3. Handed(f) \in Nat
      BY HandedGrows
    <3>4. LET l == Append(log[f], Head(queue[f])) IN
          Increasing(l) /\ AllBefore(l, Tail(queue[f])) /\ UpTo(l, Handed(f))
      BY <1>0, <3>2, <3>3, AppendOrdered, AppendAllBefore, AppendUpTo DEF FeedOrdered
    <3> QED
      BY <1>0, <3>1, <3>2, <3>4 DEF FeedOrdered
  <2> QED
    BY <2>1, <2>2
<1>4. CASE EngineRestart
  BY <1>0, <1>4, EmptyOrdered DEF EngineRestart, FeedOrdered
<1>5. CASE UNCHANGED <<queue, log>>
  BY <1>0, <1>5, QuietFeed
<1> QED
  BY <1>1, <1>2, <1>3, <1>4, <1>5
  DEF Next, Produce, CapturePacket, CaptureFails, ProcessorEnds, Subscribe,
      Deliver, SkipLagged, Disconnect, vars

-----------------------------------------------------------------------------
\* One stream, its order named.
StreamOrdered(s) ==
  LET f == FeedOf[s] IN
  /\ Increasing(delivered[s])
  /\ UpTo(delivered[s], Handed(f))
  /\ AllBefore(delivered[s], queue[f])
  /\ Open(s) => \A i \in DOMAIN delivered[s], j \in DOMAIN log[f] :
                  cursor[s] <= j => delivered[s][i] < log[f][j]

\* A stream whose feed and history a step leaves alone, and whose cursor it
\* closes or does not move back, stays ordered.
LEMMA QuietStream ==
  ASSUME TInv, TInv', [Next]_vars, NEW s \in Streams, StreamOrdered(s),
         queue'[FeedOf[s]] = queue[FeedOf[s]], log'[FeedOf[s]] = log[FeedOf[s]],
         delivered'[s] = delivered[s],
         Open(s)' => Open(s) /\ cursor[s] <= cursor'[s]
  PROVE  StreamOrdered(s)'
<1> DEFINE f == FeedOf[s]
<1>1. /\ f \in Feeds /\ delivered[s] \in Seq(Nat) /\ log[f] \in Seq(Nat)
      /\ cursor[s] \in Nat /\ cursor'[s] \in Nat
  BY SeqsOfNat DEF TInv, TypeOK
<1>2. Handed(f) \in Nat /\ Handed(f)' \in Nat /\ Handed(f) <= Handed(f)'
  BY <1>1, HandedGrows
<1>3. UpTo(delivered[s], Handed(f)')
  BY <1>1, <1>2, UpToWeaken DEF StreamOrdered
<1>4. DOMAIN log[f] \subseteq Nat
  BY <1>1, LenProperties
<1>5. ASSUME Open(s)', NEW i \in DOMAIN delivered[s], NEW j \in DOMAIN log[f],
             cursor'[s] <= j
      PROVE  delivered[s][i] < log[f][j]
  <2>1. cursor[s] <= j
    BY <1>1, <1>4, <1>5
  <2> QED
    BY <1>5, <2>1 DEF StreamOrdered
<1> QED
  BY <1>3, <1>5 DEF StreamOrdered

\* The producer appends something newer than all the stream has.
LEMMA SendBehindStream ==
  ASSUME TInv, TInv', NEW s \in Streams, StreamOrdered(s),
         Handed(FeedOf[s]) = captured - 1, captured > 0, Handed(FeedOf[s])' = captured,
         queue'[FeedOf[s]] = Append(queue[FeedOf[s]], captured),
         UNCHANGED <<log, delivered, cursor>>
  PROVE  StreamOrdered(s)'
<1> DEFINE f == FeedOf[s]
<1>1. /\ f \in Feeds /\ delivered[s] \in Seq(Nat) /\ queue[f] \in Seq(Nat)
      /\ captured \in Nat
  BY SeqsOfNat DEF TInv, TypeOK
<1>2. \A i \in DOMAIN delivered[s] : delivered[s][i] < captured
  <2>1. \A i \in DOMAIN delivered[s] : delivered[s][i] \in Nat
    BY <1>1, ElementOfSeq, LenProperties
  <2> QED
    BY <1>1, <2>1 DEF StreamOrdered, UpTo
<1>3. AllBefore(delivered[s], queue'[f])
  BY <1>1, <1>2, AppendAllBefore DEF StreamOrdered
<1>4. UpTo(delivered[s], captured)
  <2>1. captured - 1 \in Nat
    BY <1>1
  <2> QED
    BY <1>1, <2>1, UpToWeaken DEF StreamOrdered
<1> QED
  BY <1>3, <1>4 DEF StreamOrdered, Open

\* No step puts a stream's next message at or before one it already has.
LEMMA StreamsStep ==
  ASSUME TInv, TInv', FeedsOrdered, StreamsOrdered, [Next]_vars
  PROVE  StreamsOrdered'
<1> SUFFICES ASSUME NEW s \in Streams PROVE StreamOrdered(s)'
  BY DEF StreamsOrdered, StreamOrdered
<1> DEFINE f == FeedOf[s]
<1>0. /\ StreamOrdered(s) /\ FeedOrdered(f)
      /\ f \in Feeds /\ f \in {"packets", "alerts"}
      /\ delivered[s] \in Seq(Nat) /\ queue[f] \in Seq(Nat) /\ log[f] \in Seq(Nat)
      /\ queue \in [Feeds -> Seq(Items)] /\ log \in [Feeds -> Seq(Items)]
      /\ cursor \in [Streams -> Nat] /\ delivered \in [Streams -> Seq(Items)]
      /\ captured \in Nat
  BY SeqsOfNat
  DEF FeedsOrdered, FeedOrdered, StreamsOrdered, StreamOrdered, TInv, TypeOK, Feeds
<1>a. ASSUME cursor' = cursor
      PROVE  Open(s)' => Open(s) /\ cursor[s] <= cursor'[s]
  BY <1>0, <1>a DEF Open
<1>1. CASE SendPacket
  <2>1. CASE f = "packets"
    <3>1. /\ Handed(f) = captured - 1 /\ captured > 0 /\ Handed(f)' = captured
          /\ queue'[f] = Append(queue[f], captured)
          /\ UNCHANGED <<log, delivered, cursor>>
      BY <1>0, <1>1, <2>1 DEF SendPacket, Handed, TInv, HandPositive
    <3> QED
      BY <1>0, <3>1, SendBehindStream
  <2>2. CASE f = "alerts"
    <3>1. /\ queue'[f] = queue[f] /\ log' = log
          /\ delivered' = delivered /\ cursor' = cursor
      BY <1>0, <1>1, <2>2 DEF SendPacket
    <3> QED
      BY <1>0, <1>a, <3>1, QuietStream
  <2> QED
    BY <1>0, <2>1, <2>2
<1>2. CASE SendAlert
  <2>1. CASE f = "alerts"
    <3>1. /\ Handed(f) = captured - 1 /\ captured > 0 /\ Handed(f)' = captured
          /\ queue'[f] = Append(queue[f], captured)
          /\ UNCHANGED <<log, delivered, cursor>>
      BY <1>0, <1>2, <2>1 DEF SendAlert, Handed, TInv, HandPositive
    <3> QED
      BY <1>0, <3>1, SendBehindStream
  <2>2. CASE f = "packets"
    <3>1. /\ queue'[f] = queue[f] /\ log' = log
          /\ delivered' = delivered /\ cursor' = cursor
      BY <1>0, <1>2, <2>2 DEF SendAlert
    <3> QED
      BY <1>0, <1>a, <3>1, QuietStream
  <2> QED
    BY <1>0, <2>1, <2>2
<1>3. ASSUME NEW g \in Feeds, Process(g)
      PROVE  StreamOrdered(s)'
  <2>1. CASE g # f
    <3>1. /\ queue'[f] = queue[f] /\ log'[f] = log[f]
          /\ delivered' = delivered /\ cursor' = cursor
      BY <1>0, <1>3, <2>1 DEF Process
    <3> QED
      BY <1>0, <1>a, <3>1, QuietStream
  <2>2. CASE g = f
    <3>1. /\ queue[f] # <<>> /\ queue'[f] = Tail(queue[f])
          /\ \/ log'[f] = log[f]
             \/ log'[f] = Append(log[f], Head(queue[f]))
          /\ Handed(f)' = Handed(f)
          /\ UNCHANGED <<delivered, cursor>>
      BY <1>0, <1>3, <2>2 DEF Process, Handed
    <3>2. /\ Head(queue[f]) \in Nat
          /\ AllBefore(delivered[s], Tail(queue[f]))
          /\ \A i \in DOMAIN delivered[s] : delivered[s][i] < Head(queue[f])
      BY <1>0, <3>1, TailOrdered DEF StreamOrdered
    <3>3. ASSUME Open(s), NEW i \in DOMAIN delivered[s], NEW j \in DOMAIN log'[f],
                 cursor[s] <= j, log'[f] = Append(log[f], Head(queue[f]))
          PROVE  delivered[s][i] < log'[f][j]
      <4>1. /\ Len(log'[f]) = Len(log[f]) + 1
            /\ DOMAIN log'[f] = 1..(Len(log[f]) + 1)
            /\ \A k \in 1..Len(log[f]) : log'[f][k] = log[f][k]
            /\ log'[f][Len(log[f]) + 1] = Head(queue[f])
            /\ DOMAIN log[f] = 1..Len(log[f])
            /\ Len(log[f]) \in Nat
        BY <1>0, <3>2, <3>3, AppendProperties, LenProperties
      <4>2. CASE j = Len(log[f]) + 1
        BY <3>2, <4>1, <4>2
      <4>3. CASE j \in 1..Len(log[f])
        BY <1>0, <3>3, <4>1, <4>3 DEF StreamOrdered
      <4> QED
        BY <4>1, <4>2, <4>3
    <3> QED
      BY <1>0, <3>1, <3>2, <3>3 DEF StreamOrdered, Open
  <2> QED
    BY <2>1, <2>2
<1>4. ASSUME NEW t \in Streams, Subscribe(t)
      PROVE  StreamOrdered(s)'
  <2>1. UNCHANGED <<queue, log, delivered, captured, producer>>
    BY <1>4 DEF Subscribe
  <2>2. CASE t # s
    <3>1. cursor'[s] = cursor[s]
      BY <1>0, <1>4, <2>2 DEF Subscribe
    <3> QED
      BY <1>0, <2>1, <3>1, QuietStream DEF Open
  <2>3. CASE t = s
    <3>1. cursor'[s] = Len(log[f]) + 1
      BY <1>0, <1>4, <2>3 DEF Subscribe
    <3>2. DOMAIN log[f] = 1..Len(log[f]) /\ Len(log[f]) \in Nat
      BY <1>0, LenProperties
    <3>3. \A j \in DOMAIN log[f] : ~(cursor'[s] <= j)
      BY <3>1, <3>2
    <3> QED
      BY <1>0, <2>1, <3>3 DEF StreamOrdered, Handed
  <2> QED
    BY <2>2, <2>3
<1>5. ASSUME NEW t \in Streams, Deliver(t)
      PROVE  StreamOrdered(s)'
  <2>1. UNCHANGED <<queue, log, captured, producer>>
    BY <1>5 DEF Deliver
  <2>2. CASE t # s
    <3>1. cursor'[s] = cursor[s] /\ delivered'[s] = delivered[s]
      BY <1>0, <1>5, <2>2 DEF Deliver
    <3> QED
      BY <1>0, <2>1, <3>1, QuietStream DEF Open
  <2>3. CASE t = s
    <3> DEFINE c == cursor[s]
               x == log[f][c]
    <3>1. /\ Open(s) /\ c \in Nat /\ c # 0 /\ c <= Len(log[f])
          /\ cursor'[s] = c + 1
          /\ delivered'[s] = Append(delivered[s], x)
      <4>1. Len(log[f]) \in Nat
        BY <1>0, LenProperties
      <4> QED
        BY <1>0, <1>5, <2>3, <4>1 DEF Deliver, Open, Oldest
    <3>2. /\ DOMAIN log[f] = 1..Len(log[f]) /\ Len(log[f]) \in Nat
          /\ c \in DOMAIN log[f] /\ x \in Nat
      BY <1>0, <3>1, ElementOfSeq, LenProperties
    <3>3. \A i \in DOMAIN delivered[s] : delivered[s][i] < x
      BY <1>0, <3>1, <3>2 DEF StreamOrdered
    <3>4. Increasing(delivered'[s])
      BY <1>0, <3>1, <3>2, <3>3, AppendOrdered DEF StreamOrdered
    <3>5. Handed(f) \in Nat /\ Handed(f)' = Handed(f)
      BY <1>0, <2>1, HandedGrows DEF Handed
    <3>6. UpTo(delivered'[s], Handed(f))
      <4>1. x <= Handed(f)
        BY <1>0, <3>2 DEF FeedOrdered, UpTo
      <4> QED
        BY <1>0, <3>1, <3>2, <3>5, <4>1, AppendUpTo DEF StreamOrdered
    <3>7. AllBefore(delivered'[s], queue[f])
      <4>1. \A j \in DOMAIN queue[f] : x < queue[f][j]
        BY <1>0, <3>2 DEF FeedOrdered, AllBefore
      <4> QED
        BY <1>0, <3>1, <3>2, <4>1, AppendAllBefore DEF StreamOrdered
    <3>8. ASSUME NEW i \in DOMAIN delivered'[s], NEW j \in DOMAIN log[f], c + 1 <= j
          PROVE  delivered'[s][i] < log[f][j]
      <4>1. c < j /\ c <= j
        BY <3>1, <3>2, <3>8
      <4>5. x < log[f][j]
        BY <1>0, <3>2, <3>8, <4>1 DEF FeedOrdered, Increasing
      <4>2. /\ DOMAIN delivered[s] = 1..Len(delivered[s]) /\ Len(delivered[s]) \in Nat
            /\ DOMAIN delivered'[s] = 1..(Len(delivered[s]) + 1)
            /\ \A k \in 1..Len(delivered[s]) : delivered'[s][k] = delivered[s][k]
            /\ delivered'[s][Len(delivered[s]) + 1] = x
        BY <1>0, <3>1, <3>2, AppendProperties, LenProperties
      <4>3. CASE i = Len(delivered[s]) + 1
        BY <4>2, <4>3, <4>5
      <4>4. CASE i \in 1..Len(delivered[s])
        BY <1>0, <3>1, <4>1, <4>2, <4>4 DEF StreamOrdered
      <4> QED
        BY <4>2, <4>3, <4>4
    <3> QED
      BY <2>1, <3>1, <3>4, <3>5, <3>6, <3>7, <3>8 DEF StreamOrdered
  <2> QED
    BY <2>2, <2>3
<1>6. ASSUME NEW t \in Streams, SkipLagged(t)
      PROVE  StreamOrdered(s)'
  <2>1. /\ UNCHANGED <<queue, log, delivered>>
        /\ Open(s)' => Open(s) /\ cursor[s] <= cursor'[s]
    <3>1. CASE t # s
      BY <1>0, <1>6, <3>1 DEF SkipLagged, Open
    <3>2. CASE t = s
      <4>1. /\ cursor[s] \in Nat /\ Oldest(f) \in Nat
            /\ cursor[s] < Oldest(f) /\ cursor'[s] = Oldest(f) /\ Open(s)
        <5>1. Len(log[f]) \in Nat /\ RingCap[f] \in Nat
          BY <1>0, LenProperties, CapsAssumption
        <5> QED
          BY <1>0, <1>6, <3>2, <5>1 DEF SkipLagged, Oldest
      <4> QED
        BY <1>6, <4>1 DEF SkipLagged
    <3> QED
      BY <3>1, <3>2
  <2> QED
    BY <1>0, <2>1, QuietStream
<1>7. ASSUME NEW t \in Streams, Disconnect(t)
      PROVE  StreamOrdered(s)'
  <2>1. /\ UNCHANGED <<queue, log, delivered>>
        /\ Open(s)' => Open(s) /\ cursor[s] <= cursor'[s]
    BY <1>0, <1>7 DEF Disconnect, Open
  <2> QED
    BY <1>0, <2>1, QuietStream
<1>8. CASE EngineRestart
  <2>1. UpTo(delivered[s], Handed(f)')
    <3>1. Handed(f) \in Nat /\ Handed(f)' \in Nat /\ Handed(f) <= Handed(f)'
      BY <1>0, HandedGrows
    <3> QED
      BY <1>0, <3>1, UpToWeaken DEF StreamOrdered
  <2> QED
    BY <1>0, <1>8, <2>1, EmptyOrdered DEF EngineRestart, StreamOrdered, Open
<1>9. CASE UNCHANGED <<queue, log, cursor, delivered>>
  <2>1. Open(s)' => Open(s) /\ cursor[s] <= cursor'[s]
    BY <1>0, <1>9 DEF Open
  <2> QED
    BY <1>0, <1>9, <2>1, QuietStream
<1> QED
  BY <1>1, <1>2, <1>3, <1>4, <1>5, <1>6, <1>7, <1>8, <1>9
  DEF Next, Produce, CapturePacket, CaptureFails, ProcessorEnds, vars

-----------------------------------------------------------------------------
\* A processor that ended stays behind a producer that ended, and what it
\* drained stays empty: only the producer fills a channel.
LEMMA ProcessorsStep ==
  ASSUME TInv, ProcessorsOutliveProducer, [Next]_vars
  PROVE  ProcessorsOutliveProducer'
<1> SUFFICES ASSUME NEW f \in Feeds, processor'[f] = "done"
             PROVE  producer' = "done" /\ queue'[f] = <<>>
  BY DEF ProcessorsOutliveProducer
<1>0. /\ processor \in [Feeds -> {"running", "done"}]
      /\ queue \in [Feeds -> Seq(Items)]
      /\ processor[f] = "done" => producer = "done" /\ queue[f] = <<>>
  BY DEF TInv, TypeOK, ProcessorsOutliveProducer
<1>1. CASE Produce
  BY <1>0, <1>1
  DEF Produce, CapturePacket, CaptureFails, SendPacket, SendAlert, engineVars
<1>2. ASSUME NEW g \in Feeds, Process(g)
      PROVE  producer' = "done" /\ queue'[f] = <<>>
  BY <1>0, <1>2 DEF Process
<1>3. ASSUME NEW g \in Feeds, ProcessorEnds(g)
      PROVE  producer' = "done" /\ queue'[f] = <<>>
  BY <1>0, <1>3 DEF ProcessorEnds
<1>4. CASE EngineRestart
  BY <1>4 DEF EngineRestart
<1>5. CASE UNCHANGED <<processor, producer, queue>>
  BY <1>0, <1>5
<1> QED
  BY <1>1, <1>2, <1>3, <1>4, <1>5
  DEF Next, Subscribe, Deliver, SkipLagged, Disconnect, engineVars, vars

\* IInv holds initially.
LEMMA InitIInv == Init => IInv
<1> SUFFICES ASSUME Init PROVE IInv
  OBVIOUS
<1>1. /\ <<>> \in Seq(Items) /\ Len(<<>>) = 0
  BY EmptySeq
<1>2. TInv
  <2>1. TypeOK
    BY <1>1 DEF Init, TypeOK
  <2>2. CursorInLog
    BY <1>1, StreamsAssumption DEF Init, CursorInLog
  <2> QED
    BY <2>1, <2>2 DEF Init, TInv, HandPositive
<1>3. FeedsOrdered
  BY EmptyOrdered DEF Init, FeedsOrdered
<1>4. StreamsOrdered
  BY EmptyOrdered, StreamsAssumption DEF Init, StreamsOrdered, Open
<1>5. ProcessorsOutliveProducer
  BY DEF Init, ProcessorsOutliveProducer
<1> QED
  BY <1>2, <1>3, <1>4, <1>5 DEF IInv

\* IInv is inductive.
LEMMA StepIInv == IInv /\ [Next]_vars => IInv'
<1> SUFFICES ASSUME IInv, [Next]_vars PROVE IInv'
  OBVIOUS
<1>1. TInv'
  BY TypeStep DEF IInv
<1> QED
  BY <1>1, FeedsStep, StreamsStep, ProcessorsStep DEF IInv

\* The engine's reachable states satisfy IInv.
THEOREM Invariance == Spec => []IInv
BY InitIInv, StepIInv, PTL DEF Spec

\* The state always has its type: in particular nothing is broadcast or
\* delivered that was not captured, and no cursor is wild.
THEOREM TypeCorrect == Spec => []TypeOK
<1>1. IInv => TypeOK
  BY DEF IInv, TInv
<1> QED
  BY <1>1, Invariance, PTL

\* No gRPC client receives a packet or an alert twice or out of capture order,
\* however it lags or reconnects and however often the engine restarts.
THEOREM DeliveryInOrderOnce == Spec => []InOrderOnce
<1>1. IInv => InOrderOnce
  BY DEF IInv, StreamsOrdered, InOrderOnce
<1> QED
  BY <1>1, Invariance, PTL

\* While a packet waits for room in its channel, the alert raised for it is
\* nowhere downstream.
THEOREM AlertsFollowPackets == Spec => []AlertAfterItsPacket
<1>1. ASSUME IInv, producer = "sendPacket"
      PROVE  /\ UpTo(queue["alerts"], captured - 1)
             /\ UpTo(log["alerts"], captured - 1)
             /\ \A s \in Streams :
                  FeedOf[s] = "alerts" => UpTo(delivered[s], captured - 1)
  <2>1. "alerts" \in Feeds /\ Handed("alerts") = captured - 1
    BY <1>1 DEF Feeds, Handed
  <2>2. UpTo(queue["alerts"], captured - 1) /\ UpTo(log["alerts"], captured - 1)
    BY <1>1, <2>1 DEF IInv, FeedsOrdered
  <2>3. ASSUME NEW s \in Streams, FeedOf[s] = "alerts"
        PROVE  UpTo(delivered[s], captured - 1)
    BY <1>1, <2>1, <2>3 DEF IInv, StreamsOrdered
  <2> QED
    BY <2>2, <2>3
<1>2. IInv => AlertAfterItsPacket
  BY <1>1 DEF AlertAfterItsPacket
<1> QED
  BY <1>2, Invariance, PTL

\* The processors end after the producer, with their channel drained.
THEOREM NothingStranded == Spec => []ProcessorsOutliveProducer
<1>1. IInv => ProcessorsOutliveProducer
  BY DEF IInv
<1> QED
  BY <1>1, Invariance, PTL

-----------------------------------------------------------------------------
\* The streams implement LossyFeed: at the start,
LEMMA FeedInit == Init => \A s \in Streams : Feed(s)!Init
BY DEF Init, Feed!Init

\* and at every step.
LEMMA FeedStep ==
  IInv /\ IInv' /\ [Next]_vars => \A s \in Streams : [Feed(s)!Next]_(Feed(s)!vars)
<1> SUFFICES ASSUME IInv, IInv', [Next]_vars, NEW s \in Streams
             PROVE  [Feed(s)!Next]_(Feed(s)!vars)
  OBVIOUS
<1>0. /\ delivered \in [Streams -> Seq(Items)]
      /\ delivered'[s] \in Seq(Items)' /\ Increasing(delivered'[s])
      /\ FeedOf[s] \in Feeds /\ log \in [Feeds -> Seq(Items)]
      /\ cursor[s] \in Nat
  BY StreamsAssumption DEF IInv, TInv, TypeOK, StreamsOrdered
<1>1. CASE CapturePacket
  <2>1. Feed(s)!Produce
    BY <1>1 DEF CapturePacket, Feed!Produce
  <2> QED
    BY <2>1 DEF Feed!Next
<1>2. ASSUME NEW t \in Streams, Deliver(t)
      PROVE  [Feed(s)!Next]_(Feed(s)!vars)
  <2>1. CASE t # s
    <3>1. delivered'[s] = delivered[s] /\ captured' = captured
      BY <1>0, <1>2, <2>1 DEF Deliver
    <3> QED
      BY <3>1 DEF Feed!vars
  <2>2. CASE t = s
    <3> DEFINE x == log[FeedOf[s]][cursor[s]]
    <3>1. /\ delivered'[s] = Append(delivered[s], x) /\ captured' = captured
          /\ cursor[s] \in 1..Len(log[FeedOf[s]])
      <4>1. Len(log[FeedOf[s]]) \in Nat
        BY <1>0, LenProperties
      <4> QED
        BY <1>0, <1>2, <2>2, <4>1 DEF Deliver, Open, Oldest
    <3>2. x \in Items
      BY <1>0, <3>1, ElementOfSeq
    <3>3. /\ Len(delivered[s]) \in Nat
          /\ Len(delivered'[s]) = Len(delivered[s]) + 1
          /\ delivered[s] = SubSeq(delivered'[s], 1, Len(delivered[s]))
      <4>1. /\ delivered[s] \in Seq(Items)
            /\ Len(delivered[s]) \in Nat
            /\ Len(delivered'[s]) = Len(delivered[s]) + 1
            /\ \A i \in 1..Len(delivered[s]) : delivered'[s][i] = delivered[s][i]
        BY <1>0, <3>1, <3>2, AppendProperties, LenProperties
      <4>2. \A i \in 1..Len(delivered[s]) : delivered'[s][i] \in Items
        BY <4>1, ElementOfSeq
      <4> DEFINE u == SubSeq(delivered'[s], 1, Len(delivered[s]))
      <4>3. /\ u \in Seq(Items)
            /\ Len(u) = Len(delivered[s])
            /\ \A i \in 1..Len(delivered[s]) : u[i] = delivered[s][i]
        BY <4>1, <4>2, SubSeqProperties
      <4> QED
        BY <4>1, <4>3, SeqEqual
    <3>4. Feed(s)!Receive
      BY <1>0, <3>1, <3>3 DEF Feed!Receive, Feed!Increasing, Increasing, Items
    <3> QED
      BY <3>4 DEF Feed!Next
  <2> QED
    BY <2>1, <2>2
<1>3. CASE UNCHANGED <<captured, delivered>>
  BY <1>3 DEF Feed!vars
<1> QED
  BY <1>1, <1>2, <1>3
  DEF Next, Produce, CaptureFails, SendPacket, SendAlert, Process, ProcessorEnds,
      Subscribe, SkipLagged, Disconnect, EngineRestart, vars

\* Every gRPC stream is a lossy, ordered, duplicate-free feed of the capture.
THEOREM StreamsImplementLossyFeed == Spec => StreamsAreLossyFeeds
<1>1. IInv /\ IInv' /\ [Next]_vars
        => [\A s \in Streams : [Feed(s)!Next]_(Feed(s)!vars)]_vars
  BY FeedStep
<1> QED
  BY <1>1, FeedInit, Invariance, PTL DEF Spec, StreamsAreLossyFeeds
=============================================================================
