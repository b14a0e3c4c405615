------------------------- MODULE PersistenceProofs -------------------------
(***************************************************************************)
(* PersistenceWorker's safety properties, for every channel capacity,      *)
(* batch size and bound on the updates written.                            *)
(*                                                                         *)
(* The rows, the batch and the channel are three stretches of one line:    *)
(* each ordered, each before the next (InLine).  That is why an update is  *)
(* in at most one of them and why a commit appends newer rows only.        *)
(***************************************************************************)
EXTENDS PersistenceWorker, OrderLemmas

InLine ==
  /\ Increasing(rows) /\ Increasing(buffer) /\ Increasing(chan)
  /\ AllBefore(rows, buffer) /\ AllBefore(rows, chan) /\ AllBefore(buffer, chan)

\* Between batches a failed batch has room for the update the next one reads.
RoomForOne ==
  /\ BufferGrowsOnlyByRetry
  /\ worker \in {"read", "delay"} =>
       IF failed = 0 THEN buffer = <<>> ELSE Len(buffer) < Batch + failed

IInv == TypeOK /\ InLine /\ EveryUpdateAccounted /\ RoomForOne

-----------------------------------------------------------------------------
\* All sequences are sequences of numbers of updates written.
LEMMA SeqsOfNat ==
  ASSUME TypeOK, NEW s \in {chan, buffer, rows}
  PROVE  /\ s \in Seq(Nat) /\ Len(s) \in Nat
         /\ Range(s) \subseteq Updates
         /\ \A i \in DOMAIN s : s[i] < written + 1
<1>1. s \in Seq(Updates) /\ Updates \subseteq Nat /\ written \in Nat
  BY DEF TypeOK, Updates
<1>2. s \in Seq(Nat) /\ Len(s) \in Nat
  BY <1>1, SeqMonotonic, LenProperties
<1>3. \A i \in DOMAIN s : s[i] \in Updates
  BY <1>1, ElementOfSeq, LenProperties
<1> QED
  BY <1>1, <1>2, <1>3 DEF Range, Updates

\* What Lose does to the union of all losses.
LEMMA LoseAdds ==
  ASSUME NEW U, gone \in [Causes -> SUBSET U], NEW c \in Causes, NEW S \in SUBSET U,
         Lose(c, S)
  PROVE  gone' \in [Causes -> SUBSET U] /\ Lost' = Lost \cup S
BY DEF Causes, Lose, Lost

\* Types are kept by every step.
LEMMA TypeStep ==
  ASSUME TypeOK, [Next]_vars
  PROVE  TypeOK'
<1> USE CapsAssumption DEF Updates, Causes
<1>1. CASE Write
  <2>1. written + 1 \in Nat /\ written' = written + 1 /\ Updates \subseteq Updates'
    BY <1>1 DEF Write, TypeOK
  <2>2. /\ rows \in Seq(Updates') /\ buffer \in Seq(Updates') /\ chan \in Seq(Updates')
        /\ Len(chan) \in Nat
    BY <2>1, SeqMonotonic, LenProperties DEF TypeOK
  <2>3. written + 1 \in Updates'
    BY <2>1 DEF TypeOK
  <2>4. gone \in [Causes -> SUBSET Updates']
    BY <2>1 DEF TypeOK
  <2>5. CASE Len(chan) < ChanCap
    <3>0. chan' = Append(chan, written + 1)
      BY <1>1, <2>5 DEF Write
    <3>1. chan' \in Seq(Updates') /\ Len(chan') <= ChanCap
      <4>1. chan' \in Seq(Updates') /\ Len(chan') = Len(chan) + 1
        BY <2>2, <2>3, <3>0, AppendProperties
      <4> QED
        BY <2>2, <2>5, <4>1
    <3>2. gone' = gone
      BY <1>1, <2>5 DEF Write
    <3> QED
      BY <1>1, <2>1, <2>2, <2>4, <3>1, <3>2 DEF Write, TypeOK
  <2>6. CASE ~(Len(chan) < ChanCap)
    <3>1. Len(chan) = ChanCap /\ chan # <<>>
      BY <2>2, <2>6, EmptySeq DEF TypeOK
    <3>2. /\ Head(chan) \in Updates' /\ Tail(chan) \in Seq(Updates')
          /\ Len(Tail(chan)) = ChanCap - 1
      BY <2>2, <3>1, HeadTailProperties
    <3>3. chan' \in Seq(Updates') /\ Len(chan') <= ChanCap
      BY <1>1, <2>3, <2>6, <3>2, AppendProperties DEF Write
    <3>4. gone' \in [Causes -> SUBSET Updates']
      BY <1>1, <2>4, <2>6, <3>2 DEF Write, Lose
    <3> QED
      BY <1>1, <2>1, <2>2, <3>3, <3>4 DEF Write, TypeOK
  <2> QED
    BY <2>5, <2>6
<1>2. CASE Read \/ Drain \/ DrainEnds
  <2>1. CASE chan = <<>>
    BY <1>2, <2>1 DEF Read, Drain, DrainEnds, TypeOK
  <2>2. CASE chan # <<>>
    <3>1. /\ Head(chan) \in Updates /\ Tail(chan) \in Seq(Updates)
          /\ Len(Tail(chan)) <= ChanCap
      <4>1. Len(Tail(chan)) = Len(chan) - 1 /\ Len(chan) \in Nat
        BY <2>2, HeadTailProperties, LenProperties DEF TypeOK
      <4> QED
        BY <2>2, <4>1, HeadTailProperties DEF TypeOK
    <3>2. /\ Append(buffer, Head(chan)) \in Seq(Updates)
          /\ Len(Append(buffer, Head(chan))) = Len(buffer) + 1
          /\ Len(buffer) \in Nat
      BY <3>1, AppendProperties, LenProperties DEF TypeOK
    <3>3. CASE Read
      BY <3>1, <3>2, <3>3 DEF Read, TypeOK
    <3>4. CASE Drain
      BY <3>1, <3>2, <3>4 DEF Drain, TypeOK
    <3>5. CASE DrainEnds
      BY <2>2, <3>1, <3>5 DEF DrainEnds, Lose, TypeOK
    <3> QED
      BY <1>2, <3>3, <3>4, <3>5
  <2> QED
    BY <2>1, <2>2
<1>3. CASE Commit
  <2>1. rows \o buffer \in Seq(Updates) /\ <<>> \in Seq(Updates) /\ Len(<<>>) = 0
    BY ConcatProperties, EmptySeq DEF TypeOK
  <2> QED
    BY <1>3, <2>1 DEF Commit, TypeOK
<1>4. CASE Connect \/ Insert \/ FirstAttemptFails \/ BatchFails
  <2>1. Len(buffer) \in Nat
    BY LenProperties DEF TypeOK
  <2>2. CASE Connect
    BY <2>2 DEF Connect, TypeOK
  <2>3. CASE Insert
    BY <2>1, <2>3 DEF Insert, TypeOK
  <2>4. CASE FirstAttemptFails
    <3>1. connected' \in BOOLEAN
      BY <2>4 DEF FirstAttemptFails
    <3>2. /\ attempt' = 1 /\ inserted' = 0 /\ worker' = "connect"
          /\ UNCHANGED <<written, chan, buffer, rows, stopping, failed, gone>>
      BY <2>4 DEF FirstAttemptFails
    <3> QED
      BY <2>1, <3>1, <3>2 DEF TypeOK
  <2>5. CASE BatchFails
    <3>1. connected' \in BOOLEAN
      BY <2>5 DEF BatchFails, TypeOK
    <3> QED
      BY <2>1, <2>5, <3>1 DEF BatchFails, TypeOK
  <2> QED
    BY <1>4, <2>2, <2>3, <2>4, <2>5
<1>5. CASE DelayEnds \/ RequestStop \/ Stop
  BY <1>5 DEF DelayEnds, RequestStop, Stop, TypeOK
<1>6. CASE Restart
  <2>1. <<>> \in Seq(Updates) /\ Len(<<>>) = 0
    BY EmptySeq
  <2>2. Range(chan) \cup Range(buffer) \subseteq Updates
    BY SeqsOfNat
  <2>3. gone' \in [Causes -> SUBSET Updates]
    BY <1>6, <2>2, LoseAdds DEF Restart, TypeOK
  <2>4. /\ written' = written /\ written \in Nat /\ Updates' = Updates
        /\ rows' = rows /\ chan' = <<>> /\ buffer' = <<>> /\ inserted' = 0
        /\ worker' = "read" /\ attempt' = 0 /\ failed' = 0
    BY <1>6 DEF Restart, TypeOK
  <2>5. /\ chan' \in Seq(Updates') /\ buffer' \in Seq(Updates')
        /\ Len(chan') <= ChanCap /\ Len(buffer') = 0 /\ ChanCap \in Nat
    BY <2>1, <2>4
  <2>6. rows' \in Seq(Updates') /\ gone' \in [Causes -> SUBSET Updates']
    BY <2>3, <2>4 DEF TypeOK
  <2>7. connected' \in BOOLEAN /\ stopping' \in BOOLEAN
    BY <1>6 DEF Restart
  <2> QED
    BY <2>4, <2>5, <2>6, <2>7 DEF TypeOK
<1>7. CASE UNCHANGED vars
  BY <1>7 DEF vars, TypeOK
<1> QED
  BY <1>1, <1>2, <1>3, <1>4, <1>5, <1>6, <1>7 DEF Next, Worker, BulkInsert

\* The batch bound is kept by every step.
LEMMA RoomStep ==
  ASSUME TypeOK, RoomForOne, [Next]_vars
  PROVE  RoomForOne'
<1> USE CapsAssumption DEF RoomForOne, BufferGrowsOnlyByRetry
<1>0. Len(buffer) \in Nat /\ failed \in Nat /\ Len(<<>>) = 0
  BY LenProperties, EmptySeq DEF TypeOK
<1>1. ASSUME chan # <<>>, buffer' = Append(buffer, Head(chan))
      PROVE  Len(buffer') = Len(buffer) + 1
  BY <1>1, HeadTailProperties, AppendProperties DEF TypeOK
<1>2. CASE Write \/ DrainEnds \/ Connect \/ Insert \/ FirstAttemptFails
  BY <1>2 DEF Write, DrainEnds, Connect, Insert, FirstAttemptFails
<1>3. CASE Read
  BY <1>0, <1>1, <1>3 DEF Read
<1>4. CASE Drain
  BY <1>0, <1>1, <1>4 DEF Drain
<1>5. CASE Commit \/ Restart
  BY <1>0, <1>5 DEF Commit, Restart
<1>6. CASE BatchFails
  BY <1>0, <1>6 DEF BatchFails
<1>7. CASE DelayEnds \/ RequestStop \/ Stop
  BY <1>0, <1>7 DEF DelayEnds, RequestStop, Stop
<1>8. CASE UNCHANGED vars
  BY <1>8 DEF vars
<1> QED
  BY <1>2, <1>3, <1>4, <1>5, <1>6, <1>7, <1>8 DEF Next, Worker, BulkInsert

-----------------------------------------------------------------------------
\* Nothing moves from the channel to the batch or to the rows out of turn.
LEMMA LineStep ==
  ASSUME TypeOK, InLine, [Next]_vars
  PROVE  InLine'
<1>0. /\ rows \in Seq(Nat) /\ buffer \in Seq(Nat) /\ chan \in Seq(Nat)
      /\ written + 1 \in Nat
      /\ \A i \in DOMAIN rows : rows[i] < written + 1
      /\ \A i \in DOMAIN buffer : buffer[i] < written + 1
      /\ \A i \in DOMAIN chan : chan[i] < written + 1
  BY SeqsOfNat DEF TypeOK
<1>1. ASSUME chan # <<>>
      PROVE  /\ Head(chan) \in Nat /\ Tail(chan) \in Seq(Nat)
             /\ Increasing(Tail(chan))
             /\ \A i \in DOMAIN Tail(chan) : Head(chan) < Tail(chan)[i]
             /\ \A i \in DOMAIN Tail(chan) : Tail(chan)[i] < written + 1
             /\ AllBefore(rows, Tail(chan)) /\ AllBefore(buffer, Tail(chan))
             /\ \A i \in DOMAIN rows : rows[i] < Head(chan)
             /\ \A i \in DOMAIN buffer : buffer[i] < Head(chan)
  <2>1. UpTo(chan, written)
    BY <1>0, ElementOfSeq, LenProperties DEF TypeOK, UpTo, Updates
  <2>2. UpTo(Tail(chan), written) /\ Tail(chan) \in Seq(Nat)
    BY <1>0, <1>1, <2>1, TailOrdered
  <2>3. \A i \in DOMAIN Tail(chan) : Tail(chan)[i] \in Nat
    BY <2>2, ElementOfSeq, LenProperties
  <2>4. \A i \in DOMAIN Tail(chan) : Tail(chan)[i] < written + 1
    BY <2>2, <2>3 DEF UpTo, TypeOK
  <2> QED
    BY <1>0, <1>1, <2>4, TailOrdered DEF InLine
<1>2. CASE Write
  <2>1. CASE Len(chan) < ChanCap
    <3>1. /\ chan' = Append(chan, written + 1)
          /\ rows' = rows /\ buffer' = buffer
      BY <1>2, <2>1 DEF Write
    <3>2. Increasing(chan')
      BY <1>0, <3>1, AppendOrdered DEF InLine
    <3>3. AllBefore(rows, chan') /\ AllBefore(buffer, chan')
      BY <1>0, <3>1, AppendAllBefore DEF InLine
    <3> QED
      BY <3>1, <3>2, <3>3 DEF InLine
  <2>2. CASE ~(Len(chan) < ChanCap)
    <3>1. chan # <<>>
      BY <2>2, EmptySeq, CapsAssumption
    <3>2. /\ chan' = Append(Tail(chan), written + 1)
          /\ rows' = rows /\ buffer' = buffer
      BY <1>2, <2>2 DEF Write
    <3>3. Increasing(chan')
      BY <1>0, <1>1, <3>1, <3>2, AppendOrdered
    <3>4. AllBefore(rows, chan') /\ AllBefore(buffer, chan')
      BY <1>0, <1>1, <3>1, <3>2, AppendAllBefore
    <3> QED
      BY <3>2, <3>3, <3>4 DEF InLine
  <2> QED
    BY <2>1, <2>2
<1>3. CASE Read \/ Drain
  <2>1. /\ chan # <<>> /\ chan' = Tail(chan) /\ rows' = rows
        /\ buffer' = Append(buffer, Head(chan))
    BY <1>3 DEF Read, Drain
  <2>2. Increasing(buffer')
    BY <1>0, <1>1, <2>1, AppendOrdered DEF InLine
  <2>3. AllBefore(rows, buffer') /\ AllBefore(buffer', Tail(chan))
    BY <1>0, <1>1, <2>1, AppendAllBefore DEF InLine
  <2> QED
    BY <1>1, <2>1, <2>2, <2>3 DEF InLine
<1>4. CASE DrainEnds
  <2>1. rows' = rows /\ buffer' = buffer /\ chan' \in {chan, Tail(chan)}
        /\ (chan' # chan => chan # <<>>)
    BY <1>4 DEF DrainEnds
  <2> QED
    BY <1>1, <2>1 DEF InLine
<1>5. CASE Commit
  <2>1. rows' = rows \o buffer /\ buffer' = <<>> /\ chan' = chan
    BY <1>5 DEF Commit
  <2> QED
    BY <1>0, <2>1, ConcatOrdered, EmptyOrdered DEF InLine
<1>6. CASE Restart
  BY <1>6, EmptyOrdered DEF Restart, InLine
<1>7. CASE UNCHANGED <<chan, buffer, rows>>
  BY <1>7 DEF InLine
<1> QED
  BY <1>2, <1>3, <1>4, <1>5, <1>6, <1>7
  DEF Next, Worker, BulkInsert, Connect, Insert, FirstAttemptFails, BatchFails,
      DelayEnds, RequestStop, Stop, vars

\* Every step moves updates between places, or to one cause of loss.
LEMMA AccountedStep ==
  ASSUME TypeOK, InLine, EveryUpdateAccounted, [Next]_vars
  PROVE  EveryUpdateAccounted'
<1>0. /\ rows \in Seq(Nat) /\ buffer \in Seq(Nat) /\ chan \in Seq(Nat)
      /\ written \in Nat /\ written + 1 \in Nat
      /\ Range(rows) \subseteq Updates /\ Range(buffer) \subseteq Updates
      /\ Range(chan) \subseteq Updates /\ Lost \subseteq Updates
      /\ gone \in [Causes -> SUBSET Updates]
  <2>1. Lost \subseteq Updates
    BY DEF EveryUpdateAccounted
  <2> QED
    BY <2>1, SeqsOfNat DEF TypeOK
<1>1. ASSUME chan # <<>>
      PROVE  /\ Head(chan) \in Nat /\ Tail(chan) \in Seq(Nat)
             /\ Range(chan) = {Head(chan)} \cup Range(Tail(chan))
             /\ Head(chan) \notin Range(Tail(chan))
             /\ Head(chan) \in Updates
  <2>1. Head(chan) \in Nat /\ Tail(chan) \in Seq(Nat)
    BY <1>0, <1>1, TailOrdered
  <2>2. /\ Range(chan) = {Head(chan)} \cup Range(Tail(chan))
        /\ Head(chan) \notin Range(Tail(chan))
    BY <1>0, <1>1, RangeTail DEF InLine
  <2> QED
    BY <1>0, <2>1, <2>2
<1>2. CASE Write
  <2>1. Updates' = Updates \cup {written + 1} /\ written + 1 \notin Updates
    BY <1>0, <1>2 DEF Write, Updates
  <2>2. rows' = rows /\ buffer' = buffer
    BY <1>2 DEF Write
  <2>3. CASE Len(chan) < ChanCap
    <3>1. chan' = Append(chan, written + 1) /\ gone' = gone
      BY <1>2, <2>3 DEF Write
    <3>2. Range(chan') = Range(chan) \cup {written + 1} /\ Lost' = Lost
      BY <1>0, <3>1, RangeAppend DEF Lost
    <3> QED
      BY <1>0, <2>1, <2>2, <3>2 DEF EveryUpdateAccounted
  <2>4. CASE ~(Len(chan) < ChanCap)
    <3>1. chan # <<>>
      BY <2>4, EmptySeq, CapsAssumption
    <3>2. chan' = Append(Tail(chan), written + 1) /\ Lose("evicted", {Head(chan)})
      BY <1>2, <2>4 DEF Write
    <3>3. Range(chan') = Range(Tail(chan)) \cup {written + 1}
      BY <1>0, <1>1, <3>1, <3>2, RangeAppend
    <3>4. Lost' = Lost \cup {Head(chan)}
      BY <1>0, <1>1, <3>1, <3>2, LoseAdds DEF Causes
    <3> QED
      BY <1>0, <1>1, <2>1, <2>2, <3>1, <3>3, <3>4 DEF EveryUpdateAccounted
  <2> QED
    BY <2>3, <2>4
<1>3. CASE Read \/ Drain
  <2>1. /\ chan # <<>> /\ chan' = Tail(chan) /\ rows' = rows
        /\ buffer' = Append(buffer, Head(chan))
        /\ written' = written /\ gone' = gone
    BY <1>3 DEF Read, Drain
  <2>2. /\ Range(buffer') = Range(buffer) \cup {Head(chan)}
        /\ Updates' = Updates /\ Lost' = Lost
    BY <1>0, <1>1, <2>1, RangeAppend DEF Updates, Lost
  <2> QED
    BY <1>1, <2>1, <2>2 DEF EveryUpdateAccounted
<1>4. CASE DrainEnds
  <2>1. /\ rows' = rows /\ buffer' = buffer /\ written' = written
        /\ \/ chan' = chan /\ gone' = gone
           \/ chan # <<>> /\ chan' = Tail(chan) /\ Lose("discarded", {Head(chan)})
    BY <1>4 DEF DrainEnds
  <2>2. Updates' = Updates
    BY <2>1 DEF Updates
  <2>3. CASE chan' = chan /\ gone' = gone
    BY <2>1, <2>2, <2>3 DEF EveryUpdateAccounted, Lost
  <2>4. CASE chan # <<>> /\ chan' = Tail(chan) /\ Lose("discarded", {Head(chan)})
    <3>1. Lost' = Lost \cup {Head(chan)}
      BY <1>0, <1>1, <2>4, LoseAdds DEF Causes
    <3> QED
      BY <1>1, <2>1, <2>2, <2>4, <3>1 DEF EveryUpdateAccounted
  <2> QED
    BY <2>1, <2>3, <2>4
<1>5. CASE Commit
  <2>1. /\ rows' = rows \o buffer /\ buffer' = <<>> /\ chan' = chan
        /\ written' = written /\ gone' = gone
    BY <1>5 DEF Commit
  <2>2. Range(rows') = Range(rows) \cup Range(buffer)
    BY <1>0, <2>1, ConcatOrdered
  <2>3. Range(buffer') = {} /\ Updates' = Updates /\ Lost' = Lost
    BY <2>1 DEF Range, Updates, Lost
  <2> QED
    BY <2>1, <2>2, <2>3 DEF EveryUpdateAccounted
<1>6. CASE Restart
  <2>1. /\ rows' = rows /\ buffer' = <<>> /\ chan' = <<>> /\ written' = written
        /\ Lose("restart", Range(chan) \cup Range(buffer))
    BY <1>6 DEF Restart
  <2>2. Lost' = Lost \cup (Range(chan) \cup Range(buffer))
    BY <1>0, <2>1, LoseAdds DEF Causes
  <2>3. Range(buffer') = {} /\ Range(chan') = {} /\ Updates' = Updates
    BY <2>1 DEF Range, Updates
  <2> QED
    BY <2>1, <2>2, <2>3 DEF EveryUpdateAccounted
<1>7. CASE UNCHANGED <<written, chan, buffer, rows, gone>>
  BY <1>7 DEF EveryUpdateAccounted, Updates, Lost
<1> QED
  BY <1>2, <1>3, <1>4, <1>5, <1>6, <1>7
  DEF Next, Worker, BulkInsert, Connect, Insert, FirstAttemptFails, BatchFails,
      DelayEnds, RequestStop, Stop, vars

-----------------------------------------------------------------------------
\* IInv holds initially and is inductive.
LEMMA InitIInv == Init => IInv
<1> SUFFICES ASSUME Init PROVE IInv
  OBVIOUS
<1>1. <<>> \in Seq(Updates) /\ Len(<<>>) = 0
  BY EmptySeq
<1>2. TypeOK
  <2>1. connected \in BOOLEAN /\ stopping \in BOOLEAN
    BY DEF Init
  <2>2. /\ written = 0 /\ chan = <<>> /\ buffer = <<>> /\ rows = <<>>
        /\ worker = "read" /\ attempt = 0 /\ inserted = 0 /\ failed = 0
        /\ gone = [c \in Causes |-> {}]
    BY DEF Init
  <2> QED
    BY <1>1, <2>1, <2>2, CapsAssumption DEF TypeOK
<1>3. InLine
  BY EmptyOrdered DEF Init, InLine
<1>4. EveryUpdateAccounted
  BY DEF Init, EveryUpdateAccounted, Range, Updates, Lost
<1>5. RoomForOne
  BY <1>1, CapsAssumption DEF Init, RoomForOne, BufferGrowsOnlyByRetry
<1> QED
  BY <1>2, <1>3, <1>4, <1>5 DEF IInv

\* Every step of the worker, the consumer and the host keeps IInv.
LEMMA StepIInv == IInv /\ [Next]_vars => IInv'
BY TypeStep, LineStep, AccountedStep, RoomStep DEF IInv

\* The worker's reachable states satisfy IInv.
THEOREM Invariance == Spec => []IInv
BY InitIInv, StepIInv, PTL DEF Spec

\* The state always has its type; the channel never exceeds its capacity.
THEOREM TypeCorrect == Spec => []TypeOK
<1>1. IInv => TypeOK
  BY DEF IInv
<1> QED
  BY <1>1, Invariance, PTL

\* Every update written is in exactly one of the table, the batch, the channel
\* and the losses, through retries, failed batches, stops and restarts.
THEOREM NothingUnaccounted == Spec => []EveryUpdateAccounted
<1>1. IInv => EveryUpdateAccounted
  BY DEF IInv
<1> QED
  BY <1>1, Invariance, PTL

\* The retained batch is bounded by its size and the failures since the commit.
THEOREM BufferBounded == Spec => []BufferGrowsOnlyByRetry
<1>1. IInv => BufferGrowsOnlyByRetry
  BY DEF IInv, RoomForOne
<1> QED
  BY <1>1, Invariance, PTL

\* Each step of the worker is a step of LossyFeed on the table, or none.
LEMMA TableStep ==
  IInv /\ IInv' /\ [Next]_vars => [Table!Next]_(Table!vars)
<1> SUFFICES ASSUME IInv, IInv', [Next]_vars
             PROVE  [Table!Next]_(Table!vars)
  OBVIOUS
<1>0. /\ rows \in Seq(Updates) /\ buffer \in Seq(Updates)
      /\ rows' \in Seq(Updates') /\ Increasing(rows')
      /\ Len(rows) \in Nat /\ Len(buffer) \in Nat
  BY LenProperties DEF IInv, TypeOK, InLine
<1>1. CASE Write
  <2>1. Table!Produce
    BY <1>1 DEF Write, Table!Produce
  <2> QED
    BY <2>1 DEF Table!Next
<1>2. CASE Commit
  <2>1. rows' = rows \o buffer /\ written' = written
    BY <1>2 DEF Commit
  <2>2. CASE buffer = <<>>
    <3>1. rows' = rows
      BY <1>0, <2>1, <2>2, ConcatEmptySeq
    <3> QED
      BY <2>1, <3>1 DEF Table!vars
  <2>3. CASE buffer # <<>>
    <3>1. /\ Len(rows') = Len(rows) + Len(buffer)
          /\ \A i \in 1..Len(rows) : rows'[i] = rows[i]
      BY <1>0, <2>1, ConcatProperties
    <3>2. Len(buffer) # 0
      BY <1>0, <2>3, EmptySeq
    <3> DEFINE u == SubSeq(rows', 1, Len(rows))
    <3>3. \A i \in 1..Len(rows) : rows'[i] \in Updates
      BY <1>0, <3>1, ElementOfSeq
    <3>4. /\ u \in Seq(Updates)
          /\ Len(u) = Len(rows)
          /\ \A i \in 1..Len(rows) : u[i] = rows[i]
      BY <1>0, <3>1, <3>3, SubSeqProperties
    <3>5. rows = u
      BY <1>0, <3>4, SeqEqual
    <3>6. Table!Receive
      BY <1>0, <2>1, <3>1, <3>2, <3>5
      DEF Table!Receive, Table!Increasing, Increasing, Updates
    <3> QED
      BY <3>6 DEF Table!Next
  <2> QED
    BY <2>2, <2>3
<1>3. CASE UNCHANGED <<written, rows>>
  BY <1>3 DEF Table!vars
<1> QED
  BY <1>1, <1>2, <1>3
  DEF Next, Worker, Read, Drain, DrainEnds, BulkInsert, Connect, Insert,
      FirstAttemptFails, BatchFails, DelayEnds, RequestStop, Stop, Restart, vars

\* The table implements LossyFeed: rows only grow, by newer updates, each once.
THEOREM TableImplementsLossyFeed == Spec => TableIsLossyFeed
<1>1. Init => Table!Init
  BY DEF Init, Table!Init
<1> QED
  BY <1>1, TableStep, Invariance, PTL DEF Spec, TableIsLossyFeed, Table!Spec
=============================================================================
