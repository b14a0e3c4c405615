--------------------------- MODULE StreamClients ---------------------------
(***************************************************************************)
(* The two gRPC clients of the API server, GrpcStreamService (packets) and *)
(* SuspiciousGrpcStreamService (alerts), between a core engine that comes  *)
(* and goes and a host that may be told to stop.  SystemMonitorService     *)
(* reports the connected flag the packet client keeps in MetricsSnapshot.  *)
(*                                                                         *)
(* A message that arrives is written to a channel that never blocks and    *)
(* leaves the client where it was, so messages are left out.  The core     *)
(* never ends a stream by itself, so a stream ends in an error only.       *)
(***************************************************************************)
EXTENDS Naturals

Clients == {"packets", "alerts"}

RetryDelay == 2
MaxDelay == 30

VARIABLES
  core,       \* the core engine: "up" or "down"
  call,       \* client -> its call: none, pending, open, broken, or lost
              \* (the connection is gone and nothing told the client)
  at,         \* client -> where its ExecuteAsync is
  delay,      \* seconds the packet client waits after its next failure
  connected,  \* MetricsSnapshot.GrpcConnected
  opened,     \* history: has a packet stream ever been open
  health,     \* the last flag SystemMonitorService sent, "none" before
  stopping,   \* the host has been told to stop
  cancelled   \* client -> its stopping token

clientVars == <<call, at, delay, connected, opened>>
hostVars == <<health, stopping, cancelled>>
vars == <<core, clientVars, hostVars>>

Init ==
  /\ core \in {"up", "down"}
  /\ call = [c \in Clients |-> "none"]
  /\ at = [c \in Clients |-> "loop"]
  /\ delay = RetryDelay
  /\ connected = FALSE
  /\ opened = FALSE
  /\ health = "none"
  /\ stopping = FALSE
  /\ cancelled = [c \in Clients |-> FALSE]

\* ExecuteAsync is over: it returned, or an exception left it.
Ended(c) == at[c] \in {"returned", "threw"}

\* The connected flag after client c set it; the alert client has none.
Flag(c, up) == IF c = "packets" THEN up ELSE connected

-----------------------------------------------------------------------------
(* The core engine and the network. *)

CoreStarts ==
  /\ core = "down"
  /\ core' = "up"
  /\ UNCHANGED <<clientVars, hostVars>>

\* The peer's kernel resets the connections of a process that died.
CoreDies ==
  /\ core = "up"
  /\ core' = "down"
  /\ call' = [c \in Clients |-> IF call[c] = "open" THEN "broken" ELSE call[c]]
  /\ UNCHANGED <<at, delay, connected, opened, hostVars>>

CoreAccepts(c) ==
  /\ core = "up"
  /\ call[c] = "pending"
  /\ call' = [call EXCEPT ![c] = "open"]
  /\ opened' = (opened \/ c = "packets")
  /\ UNCHANGED <<core, at, delay, connected, hostVars>>

\* A cable, a sleeping host, a restarted container: no reset gets through.
ConnectionLost(c) ==
  /\ call[c] = "open"
  /\ call' = [call EXCEPT ![c] = "lost"]
  /\ UNCHANGED <<core, at, delay, connected, opened, hostVars>>

-----------------------------------------------------------------------------
(* The clients. *)

\* Mutant of Subscribe: the delay is not reset.
SubscribeKeepsDelay(c) ==
  /\ at[c] = "loop"
  /\ ~cancelled[c]
  /\ call' = [call EXCEPT ![c] = "pending"]
  /\ connected' = Flag(c, TRUE)
  /\ at' = [at EXCEPT ![c] = "read"]
  /\ UNCHANGED <<core, delay, opened, hostVars>>

\* Mutant of Subscribe: the delay is reset to nothing.
SubscribeZeroDelay(c) ==
  /\ at[c] = "loop"
  /\ ~cancelled[c]
  /\ call' = [call EXCEPT ![c] = "pending"]
  /\ connected' = Flag(c, TRUE)
  /\ delay' = IF c = "packets" THEN 0 ELSE delay
  /\ at' = [at EXCEPT ![c] = "read"]
  /\ UNCHANGED <<core, opened, hostVars>>

\* The call only starts here; the flag is set and the delay reset at once.
Subscribe(c) ==
  /\ at[c] = "loop"
  /\ ~cancelled[c]
  /\ call' = [call EXCEPT ![c] = "pending"]
  /\ connected' = Flag(c, TRUE)
  /\ delay' = IF c = "packets" THEN RetryDelay ELSE delay
  /\ at' = [at EXCEPT ![c] = "read"]
  /\ UNCHANGED <<core, opened, hostVars>>

LoopEnds(c) ==
  /\ at[c] = "loop"
  /\ cancelled[c]
  /\ connected' = Flag(c, FALSE)
  /\ at' = [at EXCEPT ![c] = "returned"]
  /\ UNCHANGED <<core, call, delay, opened, hostVars>>

\* Mutant of Unavailable: the flag is left as it was.
UnavailableSilently(c) ==
  /\ at[c] = "read"
  /\ call[c] = "broken" \/ (call[c] = "pending" /\ core = "down")
  /\ call' = [call EXCEPT ![c] = "none"]
  /\ at' = [at EXCEPT ![c] = "delay"]
  /\ UNCHANGED <<core, connected, delay, opened, hostVars>>

\* Mutant of Unavailable: the alert client's catch clause leaves the loop.
UnavailableEnds(c) ==
  /\ at[c] = "read"
  /\ call[c] = "broken" \/ (call[c] = "pending" /\ core = "down")
  /\ call' = [call EXCEPT ![c] = "none"]
  /\ connected' = Flag(c, FALSE)
  /\ at' = [at EXCEPT ![c] = IF c = "packets" THEN "delay" ELSE "returned"]
  /\ UNCHANGED <<core, delay, opened, hostVars>>

\* Unavailable or Internal: nobody answers, or the connection was reset.
Unavailable(c) ==
  /\ at[c] = "read"
  /\ call[c] = "broken" \/ (call[c] = "pending" /\ core = "down")
  /\ call' = [call EXCEPT ![c] = "none"]
  /\ connected' = Flag(c, FALSE)
  /\ at' = [at EXCEPT ![c] = "delay"]
  /\ UNCHANGED <<core, delay, opened, hostVars>>

\* Mutant of KeepAliveFails: no keep-alive pings.
KeepAliveNever == FALSE /\ UNCHANGED vars

\* Only the packet client's handler pings, and so notices a lost connection.
KeepAliveFails ==
  /\ at["packets"] = "read"
  /\ call["packets"] = "lost"
  /\ call' = [call EXCEPT !["packets"] = "none"]
  /\ connected' = FALSE
  /\ at' = [at EXCEPT !["packets"] = "delay"]
  /\ UNCHANGED <<core, delay, opened, hostVars>>

\* Mutant of Rejected: the client swallows every other error and returns.
RejectedQuietly(c) ==
  /\ at[c] = "read"
  /\ call[c] \in {"pending", "open"}
  /\ core = "up"
  /\ call' = [call EXCEPT ![c] = "none"]
  /\ connected' = Flag(c, FALSE)
  /\ at' = [at EXCEPT ![c] = "returned"]
  /\ UNCHANGED <<core, delay, opened, hostVars>>

\* Any other status (a message above MaxReceiveMessageSize, a method the core
\* lacks) leaves ExecuteAsync, and the host stops when a service throws.
Rejected(c) ==
  /\ at[c] = "read"
  /\ call[c] \in {"pending", "open"}
  /\ core = "up"
  /\ call' = [call EXCEPT ![c] = "none"]
  /\ at' = [at EXCEPT ![c] = "threw"]
  /\ stopping' = TRUE
  /\ UNCHANGED <<core, delay, connected, opened, health, cancelled>>

DelayElapses(c) ==
  /\ at[c] = "delay"
  /\ delay' = IF c # "packets" THEN delay
              ELSE IF delay * 2 < MaxDelay THEN delay * 2 ELSE MaxDelay
  /\ at' = [at EXCEPT ![c] = "loop"]
  /\ UNCHANGED <<core, call, connected, opened, hostVars>>

\* The delay is awaited inside a catch block, out of reach of the other one.
CancelDelay(c) ==
  /\ at[c] = "delay"
  /\ cancelled[c]
  /\ at' = [at EXCEPT ![c] = "threw"]
  /\ UNCHANGED <<core, call, delay, connected, opened, hostVars>>

\* Mutant of CancelRead: the stream is read without the token.
CancelReadNever(c) == FALSE /\ UNCHANGED vars /\ c \in Clients

\* A cancelled read is an OperationCanceledException, which breaks the loop,
\* or an RpcException of status Cancelled, which no clause catches.
CancelRead(c) ==
  /\ at[c] = "read"
  /\ cancelled[c]
  /\ call' = [call EXCEPT ![c] = "none"]
  /\ \/ /\ at' = [at EXCEPT ![c] = "returned"]
        /\ connected' = Flag(c, FALSE)
     \/ /\ at' = [at EXCEPT ![c] = "threw"]
        /\ UNCHANGED connected
  /\ UNCHANGED <<core, delay, opened, hostVars>>

-----------------------------------------------------------------------------
(* The host. *)

StopRequested ==
  /\ ~stopping
  /\ stopping' = TRUE
  /\ UNCHANGED <<core, clientVars, health, cancelled>>

\* Services are stopped one at a time, the last one registered first.
StopService(c) ==
  /\ stopping
  /\ ~cancelled[c]
  /\ c = "packets" => cancelled["alerts"] /\ Ended("alerts")
  /\ cancelled' = [cancelled EXCEPT ![c] = TRUE]
  /\ UNCHANGED <<core, clientVars, health, stopping>>

ReportHealth ==
  /\ ~stopping
  /\ health' = IF connected THEN "connected" ELSE "disconnected"
  /\ UNCHANGED <<core, clientVars, stopping, cancelled>>

-----------------------------------------------------------------------------
Client(c) ==
  \/ Subscribe(c) \/ LoopEnds(c)
  \/ Unavailable(c) \/ (c = "packets" /\ KeepAliveFails)
  \/ DelayElapses(c) \/ CancelDelay(c) \/ CancelRead(c)

Next ==
  \/ CoreStarts \/ CoreDies
  \/ \E c \in Clients :
       CoreAccepts(c) \/ ConnectionLost(c) \/ Client(c) \/ Rejected(c)
  \/ StopRequested \/ (\E c \in Clients : StopService(c))
  \/ ReportHealth

Spec == Init /\ [][Next]_vars

\* The clients run whenever they can, a core that is up accepts calls, and the
\* host cancels what it has begun to stop.  Nothing obliges the core to come
\* back, the network to lose anything or anyone to stop the host.
FairSpec ==
  /\ Spec
  /\ \A c \in Clients :
       WF_vars(Client(c)) /\ WF_vars(CoreAccepts(c)) /\ WF_vars(StopService(c))
  /\ WF_vars(ReportHealth)

-----------------------------------------------------------------------------
TypeOK ==
  /\ core \in {"up", "down"}
  /\ call \in [Clients -> {"none", "pending", "open", "broken", "lost"}]
  /\ at \in [Clients -> {"loop", "read", "delay", "returned", "threw"}]
  /\ delay \in RetryDelay..MaxDelay
  /\ connected \in BOOLEAN
  /\ opened \in BOOLEAN
  /\ health \in {"none", "connected", "disconnected"}
  /\ stopping \in BOOLEAN
  /\ cancelled \in [Clients -> BOOLEAN]

-----------------------------------------------------------------------------
(* Properties. *)

\* GrpcConnected is never left set by a client that is not on a call: it is set
\* only while the packet client reads, or after an exception took it away.
ConnectedOnlyOnACall == connected => at["packets"] \in {"read", "threw"}

\* However often and however long the core is away, the packet client's next
\* attempt is one RetryDelay away (Subscribe undoes the doubled delay).
RetryIsPrompt == at["packets"] = "delay" => delay = RetryDelay

\* A client's ExecuteAsync ends only with the host: no error, of whatever
\* status, leaves an API server running that has quietly stopped consuming.
ClientsEndWithHost == \A c \in Clients : Ended(c) => stopping

\* While the core stays up and nobody stops the host, the packet client always
\* gets a stream again, whatever crashes and silent losses came before.
PacketStreamRecovers ==
  <>[](core = "up" /\ ~stopping) => []<>(call["packets"] = "open")

\* A host told to stop gets both clients to end, the alert client first,
\* wherever the stop finds them.
StopEndsClients == stopping ~> \A c \in Clients : Ended(c)

\* So does the alert client, but for the one case it cannot notice: it has no
\* keep-alive pings and only reads, so a silent loss may leave it on a dead call
\* for ever.  No crash, reset or refused call has that effect.
AlertStreamRecovers ==
  <>[](core = "up" /\ ~stopping) => []<>(call["alerts"] \in {"open", "lost"})

\* What the flag's name and LiveConsole.tsx:57 suggest and the code does not keep:
\* that the health report says connected only if there has been a gRPC stream.
\* GrpcStreamService.cs:55 sets the flag when the call object exists.  A statement
\* for the reader; no run checks it.
ConnectedMeansAStream == health = "connected" => opened
=============================================================================
