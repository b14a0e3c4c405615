------------------------ MODULE StreamClientsProofs ------------------------
(***************************************************************************)
(* Proofs about StreamClients: a client never ends before the host is told *)
(* to stop, always retries after RetryDelay, and clears the connected flag *)
(* whenever it is not on a call.                                           *)
(***************************************************************************)
EXTENDS StreamClients, TLAPS

\* The delay is also reset while the call is made, which is where a failure
\* finds it.
DelayReset == at["packets"] \in {"read", "delay"} => delay = RetryDelay

\* Only a stopping host cancels its services.
CancelledByHost == \A c \in Clients : cancelled[c] => stopping

IInv ==
  /\ TypeOK
  /\ ConnectedOnlyOnACall
  /\ DelayReset
  /\ ClientsEndWithHost
  /\ CancelledByHost

USE DEF Clients, RetryDelay, MaxDelay

\* The types alone are inductive.
LEMMA TypeStep == TypeOK /\ [Next]_vars => TypeOK'
<1> SUFFICES ASSUME TypeOK, [Next]_vars PROVE TypeOK'
  OBVIOUS
<1> USE DEF TypeOK
<1>1. CASE CoreStarts \/ CoreDies \/ StopRequested \/ ReportHealth
  BY <1>1 DEF CoreStarts, CoreDies, StopRequested, ReportHealth, clientVars,
     hostVars
<1>2. ASSUME NEW c \in Clients, Subscribe(c) \/ LoopEnds(c) PROVE TypeOK'
  <2>1. connected' \in BOOLEAN
    BY <1>2, Zenon DEF Subscribe, LoopEnds, Flag
  <2>2. CASE Subscribe(c)
    <3>1. delay' \in RetryDelay..MaxDelay
      BY <2>2 DEF Subscribe
    <3>2. /\ call' = [call EXCEPT ![c] = "pending"]
          /\ at' = [at EXCEPT ![c] = "read"]
          /\ UNCHANGED <<core, opened, health, stopping, cancelled>>
      BY <2>2 DEF Subscribe, hostVars
    <3> QED
      BY <2>1, <3>1, <3>2
  <2>3. CASE LoopEnds(c)
    BY <2>1, <2>3 DEF LoopEnds, hostVars
  <2> QED
    BY <1>2, <2>2, <2>3
<1>3. ASSUME NEW c \in Clients, CoreAccepts(c) \/ ConnectionLost(c)
      PROVE TypeOK'
  BY <1>3 DEF CoreAccepts, ConnectionLost, hostVars
<1>4. ASSUME NEW c \in Clients, Unavailable(c) \/ KeepAliveFails PROVE TypeOK'
  <2>1. connected' \in BOOLEAN
    BY <1>4, Zenon DEF Unavailable, KeepAliveFails, Flag
  <2>2. /\ \E d \in Clients : /\ call' = [call EXCEPT ![d] = "none"]
                             /\ at' = [at EXCEPT ![d] = "delay"]
        /\ UNCHANGED <<core, delay, opened, health, stopping, cancelled>>
    BY <1>4 DEF Unavailable, KeepAliveFails, hostVars
  <2> QED
    BY <2>1, <2>2
<1>5. ASSUME NEW c \in Clients, Rejected(c) PROVE TypeOK'
  BY <1>5 DEF Rejected
<1>6. ASSUME NEW c \in Clients, DelayElapses(c) PROVE TypeOK'
  BY <1>6 DEF DelayElapses, hostVars
<1>7. ASSUME NEW c \in Clients, CancelDelay(c) \/ CancelRead(c) PROVE TypeOK'
  <2>1. connected' \in BOOLEAN
    BY <1>7, Zenon DEF CancelDelay, CancelRead, Flag
  <2>2. CASE CancelDelay(c)
    BY <2>2 DEF CancelDelay, hostVars
  <2>3. CASE CancelRead(c)
    <3>1. /\ call' = [call EXCEPT ![c] = "none"]
          /\ \/ at' = [at EXCEPT ![c] = "returned"]
             \/ at' = [at EXCEPT ![c] = "threw"]
          /\ UNCHANGED <<core, delay, opened, health, stopping, cancelled>>
      BY <2>3 DEF CancelRead, hostVars
    <3> QED
      BY <2>1, <3>1
  <2> QED
    BY <1>7, <2>2, <2>3
<1>8. ASSUME NEW c \in Clients, StopService(c) PROVE TypeOK'
  BY <1>8 DEF StopService, clientVars
<1>9. CASE UNCHANGED vars
  BY <1>9 DEF vars, clientVars, hostVars
<1> QED
  BY <1>1, <1>2, <1>3, <1>4, <1>5, <1>6, <1>7, <1>8, <1>9 DEF Next, Client

\* What relates the clients to the flag, the delay and the host.
LEMMA RelationStep ==
  IInv /\ [Next]_vars =>
    ConnectedOnlyOnACall' /\ DelayReset' /\ ClientsEndWithHost' /\ CancelledByHost'
<1> DEFINE Goal ==
      ConnectedOnlyOnACall' /\ DelayReset' /\ ClientsEndWithHost' /\ CancelledByHost'
<1> SUFFICES ASSUME IInv, [Next]_vars PROVE Goal
  OBVIOUS
<1> USE DEF IInv, TypeOK, ConnectedOnlyOnACall, DelayReset, ClientsEndWithHost,
            CancelledByHost, Ended
<1>1. CASE CoreStarts \/ CoreDies \/ StopRequested \/ ReportHealth
  BY <1>1 DEF CoreStarts, CoreDies, StopRequested, ReportHealth, clientVars,
     hostVars
<1>2. ASSUME NEW c \in Clients, Subscribe(c) \/ LoopEnds(c) PROVE Goal
  BY <1>2 DEF Subscribe, LoopEnds, Flag, hostVars
<1>3. ASSUME NEW c \in Clients, CoreAccepts(c) \/ ConnectionLost(c) PROVE Goal
  BY <1>3 DEF CoreAccepts, ConnectionLost, hostVars
<1>4. ASSUME NEW c \in Clients, Unavailable(c) \/ KeepAliveFails PROVE Goal
  BY <1>4 DEF Unavailable, KeepAliveFails, Flag, hostVars
<1>5. ASSUME NEW c \in Clients, Rejected(c) PROVE Goal
  BY <1>5 DEF Rejected
<1>6. ASSUME NEW c \in Clients, DelayElapses(c) PROVE Goal
  BY <1>6 DEF DelayElapses, hostVars
<1>7. ASSUME NEW c \in Clients, CancelDelay(c) \/ CancelRead(c) PROVE Goal
  <2>1. /\ stopping /\ UNCHANGED <<stopping, cancelled, delay>>
        /\ at' \in {[at EXCEPT ![c] = "returned"], [at EXCEPT ![c] = "threw"]}
    BY <1>7 DEF CancelDelay, CancelRead, hostVars
  <2>2. DelayReset' /\ ClientsEndWithHost' /\ CancelledByHost'
    BY <2>1
  <2>3. CASE CancelDelay(c)
    BY <2>2, <2>3 DEF CancelDelay
  <2>4. CASE CancelRead(c) /\ c = "alerts"
    BY <2>2, <2>4 DEF CancelRead, Flag
  <2>5. CASE CancelRead(c) /\ c = "packets"
    BY <2>2, <2>5 DEF CancelRead, Flag
  <2> QED
    BY <1>7, <2>3, <2>4, <2>5
<1>8. ASSUME NEW c \in Clients, StopService(c) PROVE Goal
  BY <1>8 DEF StopService, clientVars
<1>9. CASE UNCHANGED vars
  BY <1>9 DEF vars, clientVars, hostVars
<1> QED
  BY <1>1, <1>2, <1>3, <1>4, <1>5, <1>6, <1>7, <1>8, <1>9 DEF Next, Client

\* The inductive invariant, from which the theorems below follow.
THEOREM Invariance == Spec => []IInv
<1>1. Init => IInv
  <2> SUFFICES ASSUME Init PROVE IInv
    OBVIOUS
  <2>1. TypeOK
    <3>1. connected \in BOOLEAN /\ opened \in BOOLEAN /\ stopping \in BOOLEAN
      BY Zenon DEF Init
    <3>2. /\ core \in {"up", "down"}
          /\ call \in [Clients -> {"none", "pending", "open", "broken", "lost"}]
          /\ at \in [Clients -> {"loop", "read", "delay", "returned", "threw"}]
          /\ delay \in RetryDelay..MaxDelay
          /\ health \in {"none", "connected", "disconnected"}
      BY DEF Init
    <3>3. cancelled \in [Clients -> BOOLEAN]
      BY Zenon DEF Init
    <3> QED
      BY <3>1, <3>2, <3>3 DEF TypeOK
  <2>2. ConnectedOnlyOnACall
    BY Zenon DEF Init, ConnectedOnlyOnACall
  <2>3. DelayReset
    BY DEF Init, DelayReset
  <2>4. ClientsEndWithHost
    <3>1. \A c \in Clients : at[c] = "loop"
      BY DEF Init
    <3> QED
      BY <3>1 DEF ClientsEndWithHost, Ended
  <2>5. \A c \in Clients : ~cancelled[c]
    BY DEF Init
  <2>6. CancelledByHost
    BY <2>5 DEF CancelledByHost
  <2> QED
    BY <2>1, <2>2, <2>3, <2>4, <2>6 DEF IInv
<1>2. IInv /\ [Next]_vars => IInv'
  BY TypeStep, RelationStep DEF IInv
<1> QED
  BY <1>1, <1>2, PTL DEF Spec

\* Every state of the clients is well formed; the delay stays between its
\* initial value and the cap of GrpcStreamService.
THEOREM TypeCorrect == Spec => []TypeOK
  BY Invariance, PTL DEF IInv

\* GrpcConnected is set only while the packet client is on a call, or after an
\* exception took the client away.
THEOREM FlagCleared == Spec => []ConnectedOnlyOnACall
  BY Invariance, PTL DEF IInv

\* The packet client's next attempt is always RetryDelay away.
THEOREM PromptRetry == Spec => []RetryIsPrompt
<1>1. IInv => RetryIsPrompt
  BY DEF IInv, DelayReset, RetryIsPrompt
<1> QED
  BY <1>1, Invariance, PTL

\* No error ends a client while the host runs on.
THEOREM NoQuietDeath == Spec => []ClientsEndWithHost
  BY Invariance, PTL DEF IInv
=============================================================================
