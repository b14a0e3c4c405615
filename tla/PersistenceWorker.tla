------------------------- MODULE PersistenceWorker -------------------------
(***************************************************************************)
(* How a packet update reaches the packet_events table: the consumer's     *)
(* TryWrite into the bounded persistence channel (drop-oldest), the batch  *)
(* buffer of PacketPersistenceWorker, and AetherDb's transaction, tried at *)
(* most twice.                                                             *)
(*                                                                         *)
(* An update is the number of its TryWrite.  SQLite is taken to keep its   *)
(* promise: a transaction commits whole or is rolled back whole, and what  *)
(* is committed survives the end of the process.                           *)
(***************************************************************************)
EXTENDS Naturals, Sequences, Functions, Order

CONSTANTS
  ChanCap,    \* capacity of the persistence channel
  Batch,      \* the worker's batch size
  MaxWrites   \* model bound: updates written

ASSUME CapsAssumption == ChanCap \in Nat \ {0} /\ Batch \in Nat \ {0}
ASSUME BoundAssumption == MaxWrites \in Nat

VARIABLES
  written,    \* updates the consumer has written so far
  chan,       \* the persistence channel
  worker,     \* where ExecuteAsync is; connect and insert are in BulkInsert
  buffer,     \* the updates of the batch, a failed batch's included
  attempt,    \* BulkInsert's loop variable
  connected,  \* is AetherDb's connection open
  inserted,   \* rows inserted by the open transaction
  rows,       \* the committed rows of packet_events, in id order
  stopping,   \* is the stopping token cancelled
  failed,     \* history: batches failed since the last commit
  gone        \* history: cause -> the updates it lost

vars == <<written, chan, worker, buffer, attempt, connected, inserted, rows,
          stopping, failed, gone>>

Causes == {"evicted", "discarded", "restart"}

Lost == UNION {gone[c] : c \in Causes}

\* `set' joins what the cause has lost.
Lose(cause, set) == gone' = [gone EXCEPT ![cause] = @ \cup set]

Init ==
  /\ written = 0
  /\ chan = <<>>
  /\ worker = "read"
  /\ buffer = <<>>
  /\ attempt = 0
  /\ connected = TRUE
  /\ inserted = 0
  /\ rows = <<>>
  /\ stopping = FALSE
  /\ failed = 0
  /\ gone = [c \in Causes |-> {}]

-----------------------------------------------------------------------------
\* Mutant of Write: an unbounded channel.
WriteUnbounded ==
  /\ written < MaxWrites
  /\ written' = written + 1
  /\ chan' = Append(chan, written + 1)
  /\ UNCHANGED <<worker, buffer, attempt, connected, inserted, rows, stopping,
                 failed, gone>>

\* TryWrite never fails: a full channel drops its oldest update.
Write ==
  /\ written < MaxWrites
  /\ written' = written + 1
  /\ IF Len(chan) < ChanCap
       THEN /\ chan' = Append(chan, written + 1)
            /\ UNCHANGED gone
       ELSE /\ chan' = Append(Tail(chan), written + 1)
            /\ Lose("evicted", {Head(chan)})
  /\ UNCHANGED <<worker, buffer, attempt, connected, inserted, rows, stopping,
                 failed>>

\* ReadAsync: a batch begins, behind what a failed batch left in the buffer.
Read ==
  /\ worker = "read"
  /\ ~stopping
  /\ chan # <<>>
  /\ buffer' = Append(buffer, Head(chan))
  /\ chan' = Tail(chan)
  /\ worker' = "drain"
  /\ UNCHANGED <<written, attempt, connected, inserted, rows, stopping, failed,
                 gone>>

\* Mutant of Drain: the batch size is not looked at.
DrainAll ==
  /\ worker = "drain"
  /\ chan # <<>>
  /\ buffer' = Append(buffer, Head(chan))
  /\ chan' = Tail(chan)
  /\ UNCHANGED <<written, worker, attempt, connected, inserted, rows, stopping,
                 failed, gone>>

Drain ==
  /\ worker = "drain"
  /\ chan # <<>>
  /\ Len(buffer) < Batch
  /\ buffer' = Append(buffer, Head(chan))
  /\ chan' = Tail(chan)
  /\ UNCHANGED <<written, worker, attempt, connected, inserted, rows, stopping,
                 failed, gone>>

\* The loop condition takes an update off the channel before it looks at the
\* buffer; when the buffer is full that update goes nowhere.
DrainEnds ==
  /\ worker = "drain"
  /\ \/ /\ chan = <<>>
        /\ UNCHANGED <<chan, gone>>
     \/ /\ chan # <<>>
        /\ Len(buffer) >= Batch
        /\ chan' = Tail(chan)
        /\ Lose("discarded", {Head(chan)})
  /\ worker' = "connect"
  /\ UNCHANGED <<written, buffer, attempt, connected, inserted, rows, stopping,
                 failed>>

\* EnsureConnected and BeginTransaction succeed.
Connect ==
  /\ worker = "connect"
  /\ connected' = TRUE
  /\ worker' = "insert"
  /\ UNCHANGED <<written, chan, buffer, attempt, inserted, rows, stopping,
                 failed, gone>>

Insert ==
  /\ worker = "insert"
  /\ inserted < Len(buffer)
  /\ inserted' = inserted + 1
  /\ UNCHANGED <<written, chan, worker, buffer, attempt, connected, rows,
                 stopping, failed, gone>>

\* Mutant of Commit: buffer.Clear() is missing.
CommitUncleared ==
  /\ worker = "insert"
  /\ inserted = Len(buffer)
  /\ rows' = rows \o buffer
  /\ inserted' = 0
  /\ attempt' = 0
  /\ failed' = 0
  /\ worker' = "read"
  /\ UNCHANGED <<written, chan, buffer, connected, stopping, gone>>

\* Commit, return, and the worker's buffer.Clear().
Commit ==
  /\ worker = "insert"
  /\ inserted = Len(buffer)
  /\ rows' = rows \o buffer
  /\ buffer' = <<>>
  /\ inserted' = 0
  /\ attempt' = 0
  /\ failed' = 0
  /\ worker' = "read"
  /\ UNCHANGED <<written, chan, connected, stopping, gone>>

\* The first exception in BulkInsert rolls back, drops the connection and
\* tries again.
FirstAttemptFails ==
  /\ worker \in {"connect", "insert"}
  /\ attempt = 0
  /\ attempt' = 1
  /\ connected' = FALSE
  /\ inserted' = 0
  /\ worker' = "connect"
  /\ UNCHANGED <<written, chan, buffer, rows, stopping, failed, gone>>

\* Mutant of BatchFails: buffer.Clear() in a finally block.
BatchFailsCleared ==
  /\ worker \in {"connect", "insert"}
  /\ attempt = 1
  /\ attempt' = 0
  /\ connected' \in IF worker = "connect" THEN BOOLEAN ELSE {connected}
  /\ inserted' = 0
  /\ failed' = failed + 1
  /\ buffer' = <<>>
  /\ worker' = "delay"
  /\ UNCHANGED <<written, chan, rows, stopping, gone>>

\* The second reaches the worker, which logs it and keeps the buffer.
BatchFails ==
  /\ worker \in {"connect", "insert"}
  /\ attempt = 1
  /\ attempt' = 0
  /\ connected' \in IF worker = "connect" THEN BOOLEAN ELSE {connected}
  /\ inserted' = 0
  /\ failed' = failed + 1
  /\ worker' = "delay"
  /\ UNCHANGED <<written, chan, buffer, rows, stopping, gone>>

\* The 250 ms pass.
DelayEnds ==
  /\ worker = "delay"
  /\ ~stopping
  /\ worker' = "read"
  /\ UNCHANGED <<written, chan, buffer, attempt, connected, inserted, rows,
                 stopping, failed, gone>>

-----------------------------------------------------------------------------
\* The host asks its services to stop.
RequestStop ==
  /\ ~stopping
  /\ stopping' = TRUE
  /\ UNCHANGED <<written, chan, worker, buffer, attempt, connected, inserted,
                 rows, failed, gone>>

\* Mutant of Stop: ReadAsync is not given the token.
StopInDelay ==
  /\ stopping
  /\ worker = "delay"
  /\ worker' = "stopped"
  /\ UNCHANGED <<written, chan, buffer, attempt, connected, inserted, rows,
                 stopping, failed, gone>>

\* Only ReadAsync and the delay observe the token; an insert runs to its end.
Stop ==
  /\ stopping
  /\ worker \in {"read", "delay"}
  /\ worker' = "stopped"
  /\ UNCHANGED <<written, chan, buffer, attempt, connected, inserted, rows,
                 stopping, failed, gone>>

\* The process ends, stopped or killed, and starts again: InitializeAsync
\* opens the database with the rows committed before.
Restart ==
  /\ Lose("restart", Range(chan) \cup Range(buffer))
  /\ chan' = <<>>
  /\ worker' = "read"
  /\ buffer' = <<>>
  /\ attempt' = 0
  /\ connected' = TRUE
  /\ inserted' = 0
  /\ stopping' = FALSE
  /\ failed' = 0
  /\ UNCHANGED <<written, rows>>

-----------------------------------------------------------------------------
BulkInsert == Connect \/ Insert \/ Commit \/ FirstAttemptFails \/ BatchFails

Worker == Read \/ Drain \/ DrainEnds \/ BulkInsert \/ DelayEnds \/ Stop

Next == Write \/ Worker \/ RequestStop \/ Restart

Spec == Init /\ [][Next]_vars

\* The worker's task runs whenever it can; SQLite answers, with a result or an
\* exception.  Nothing obliges updates to come or a restart to happen.
FairSpec == Spec /\ WF_vars(Worker)

-----------------------------------------------------------------------------
Updates == 1..written

TypeOK ==
  /\ written \in Nat
  /\ chan \in Seq(Updates) /\ Len(chan) <= ChanCap
  /\ worker \in {"read", "drain", "connect", "insert", "delay", "stopped"}
  /\ buffer \in Seq(Updates)
  /\ attempt \in {0, 1}
  /\ connected \in BOOLEAN
  /\ inserted \in Nat /\ inserted <= Len(buffer)
  /\ rows \in Seq(Updates)
  /\ stopping \in BOOLEAN
  /\ failed \in Nat
  /\ gone \in [Causes -> SUBSET Updates]

-----------------------------------------------------------------------------
(* Properties. *)

\* Every update is in exactly one place: a row, the batch, the channel, or
\* known to be lost to one cause.  No retry, failed batch or restart makes one
\* vanish otherwise, or keeps one both as a row and to be inserted again.
EveryUpdateAccounted ==
  /\ Updates = Range(rows) \cup Range(buffer) \cup Range(chan) \cup Lost
  /\ Range(rows) \cap Range(buffer) = {}
  /\ (Range(rows) \cup Range(buffer)) \cap Range(chan) = {}
  /\ Lost \cap (Range(rows) \cup Range(buffer) \cup Range(chan)) = {}

\* The batch outgrows its size only by one update per failed batch: a long
\* database failure costs memory in proportion to the batches tried, not to the
\* traffic.
BufferGrowsOnlyByRetry == Len(buffer) <= Batch + failed

Table == INSTANCE LossyFeed WITH produced <- written, received <- rows

\* The table is a lossy feed of the updates written: rows only ever grow, by
\* newer updates, each at most once, across retries and restarts.
TableIsLossyFeed == Table!Spec

\* A stop request ends the worker, mid-batch and mid-failure too.
StopEndsWorker == stopping ~> (worker = "stopped" \/ ~stopping)

\* CHANGELOG.md promises "SQLite persistence for long-term data storage": an
\* update the worker takes off the channel is not thrown away.
TakenIsNotDiscarded == gone["discarded"] = {}
=============================================================================
