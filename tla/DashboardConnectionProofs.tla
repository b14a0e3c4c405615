--------------------- MODULE DashboardConnectionProofs ---------------------
(***************************************************************************)
(* DashboardConnection's safety properties, for any number of connections, *)
(* outages, retries and messages, and any transports.                      *)
(*                                                                         *)
(* The argument: _connection and the component's reference are always the  *)
(* same, the newest connection or none (OneRef), so every clean-up stops   *)
(* what _connection names and no other connection is alive.  Only an       *)
(* established connection is known to the hub or has anything on its wire  *)
(* (OnlyConnectedServed), and there is at most one: that makes what        *)
(* reaches the store ordered (FeedInLine).  The console is read off its    *)
(* last line (Told), and the store's lists are compared with the ranks of  *)
(* what arrived, which one arrival moves by one place (StoreInv).          *)
(***************************************************************************)
EXTENDS DashboardConnection, OrderLemmas

OneRef ==
  /\ current = connectionRef
  /\ \A c \in Connections : c > made => state[c] = "Disconnected"
  /\ \A c \in Connections : state[c] = "Waiting" => attempts[c] < Retries

IInv == TypeOK /\ OneRef /\ OneLiveConnection /\ HeaderTellsConnection

-----------------------------------------------------------------------------
\* What the states of the connections may become in a step of the page.
LEMMA CleanupStates ==
  ASSUME TypeOK, NEW transport
  PROVE  /\ Cleanup(transport) \in [Connections -> States]
         /\ \A c \in Connections :
              /\ c # connectionRef => Cleanup(transport)[c] = state[c]
              /\ c = connectionRef =>
                   Cleanup(transport)[c] \in {"Disconnected", "Aborting", "Disconnecting"}
              /\ state[c] = "Disconnected" => Cleanup(transport)[c] = "Disconnected"
<1>1. ASSUME NEW c \in Connections
      PROVE  /\ Stopped(c, transport) \in {"Disconnected", "Aborting", "Disconnecting"}
             /\ state[c] = "Disconnected" => Stopped(c, transport) = "Disconnected"
  BY DEF Stopped, TypeOK, States
<1>2. \A c \in Connections : state[c] \in States
  BY DEF TypeOK
<1> QED
  BY <1>1, <1>2 DEF Cleanup, States

\* The header's two words.
LEMMA Header ==
  /\ HeaderStatus = "SYSTEM ONLINE" <=> connected
  /\ (HeaderStatus = "SYSTEM ONLINE")' <=> connected'
<1>1. "SYSTEM ONLINE" # "OFFLINE"
  OBVIOUS
<1> QED
  BY <1>1, Zenon DEF HeaderStatus

\* What is left of HeaderTellsConnection without the header.
LEMMA HeaderTold ==
  /\ HeaderTellsConnection
       <=> /\ connected => \E c \in Connections : state[c] \in {"Connected", "Disconnecting"}
           /\ current = 1 /\ state[1] = "Connected" => connected
  /\ HeaderTellsConnection'
       <=> /\ connected' => \E c \in Connections : state'[c] \in {"Connected", "Disconnecting"}
           /\ current' = 1 /\ state'[1] = "Connected" => connected'
BY Header, Zenon DEF HeaderTellsConnection

\* A setConnected sets connected and nothing the hook looks at.
LEMMA SetConnected ==
  ASSUME NEW b \in BOOLEAN, setConnected(b)
  PROVE  connected' = b /\ connected' \in BOOLEAN
BY Zenon DEF setConnected

\* No connection is alive.
Quiet(before) ==
  \A c \in Connections : before[c] \in {"Disconnected", "Aborting", "Disconnecting"}

\* The hook mounts with nothing alive and no _connection: it builds the next one.
LEMMA MountStep ==
  ASSUME TypeOK, NEW before \in [Connections -> States], Quiet(before),
         \A c \in Connections : c > made => before[c] = "Disconnected",
         UseSignalR(before, None)
  PROVE  /\ made' = made + 1 /\ made + 1 \in Connections
         /\ current' = made + 1 /\ connectionRef' = made + 1
         /\ state' = [before EXCEPT ![made + 1] = "Connecting"]
         /\ state' \in [Connections -> States]
         /\ \A c \in Connections : c > made' => state'[c] = "Disconnected"
         /\ \A c \in Connections : state'[c] # "Waiting"
         /\ \A c \in Connections : Live(c)' => c = current'
         /\ \A c \in Connections : c # made + 1 => state'[c] = before[c]
<1>1. /\ made < bounds.connections
      /\ made' = made + 1
      /\ current' = made + 1 /\ connectionRef' = made + 1
      /\ state' = [before EXCEPT ![made + 1] = "Connecting"]
  BY DEF UseSignalR
<1>2. made \in Nat /\ bounds.connections \in 0..MaxConnections /\ MaxConnections \in Nat
  BY BoundsAssumption DEF TypeOK
<1>3. made + 1 \in Connections /\ made \in Nat
  BY <1>1, <1>2 DEF Connections
<1>4. state' \in [Connections -> States]
  BY <1>1, <1>3 DEF States
<1>5. \A c \in Connections : c # made + 1 => state'[c] = before[c]
  BY <1>1
<1>6. state'[made + 1] = "Connecting"
  BY <1>1, <1>3
<1>7. \A c \in Connections : c > made' => state'[c] = "Disconnected"
  BY <1>1, <1>3, <1>5 DEF Connections
<1> QED
  BY <1>1, <1>3, <1>4, <1>5, <1>6, <1>7 DEF Quiet, Live

\* Without a page there is no _connection, and nothing is alive.
LEMMA NoPageQuiet ==
  ASSUME IInv, page # "warRoom"
  PROVE  current = None /\ Quiet(state)
<1>1. current = None
  BY DEF IInv, OneLiveConnection
<1>2. \A c \in Connections : state[c] \in States /\ c # None
  BY DEF IInv, TypeOK, Connections, None
<1> QED
  BY <1>1, <1>2 DEF IInv, OneLiveConnection, Live, Quiet, States

\* After the clean-up nothing is alive either.
LEMMA CleanupQuiet ==
  ASSUME IInv, NEW transport
  PROVE  /\ Quiet(Cleanup(transport))
         /\ Cleanup(transport) \in [Connections -> States]
         /\ \A c \in Connections : c > made => Cleanup(transport)[c] = "Disconnected"
         /\ CurrentAfterCleanup = None
<1>1. current = connectionRef /\ TypeOK
  BY DEF IInv, OneRef
<1>2. CurrentAfterCleanup = None
  BY <1>1 DEF CurrentAfterCleanup
<1>3. \A c \in Connections : c # connectionRef => ~Live(c)
  BY <1>1 DEF IInv, OneLiveConnection
<1>4. \A c \in Connections : state[c] \in States
  BY <1>1 DEF TypeOK
<1>5. Quiet(Cleanup(transport))
  BY <1>1, <1>3, <1>4, CleanupStates DEF Quiet, Live, States
<1>6. \A c \in Connections : c > made => Cleanup(transport)[c] = "Disconnected"
  BY <1>1, CleanupStates DEF IInv, OneRef
<1> QED
  BY <1>1, <1>2, <1>5, <1>6, CleanupStates

\* If a clean-up closes nothing that had started, the connection behind the
\* header's flag is still there.
LEMMA CleanupHeader ==
  ASSUME IInv, NEW transport, connected, ~ClosesOne(Cleanup(transport))
  PROVE  \E c \in Connections :
           state[c] # "Disconnected" /\ Cleanup(transport)[c] \in {"Connected", "Disconnecting"}
<1>1. PICK c \in Connections : state[c] \in {"Connected", "Disconnecting"}
  BY HeaderTold DEF IInv
<1>2. Cleanup(transport)[c] \in Started
  BY <1>1 DEF ClosesOne, Started
<1>3. Cleanup(transport)[c] \in {"Disconnected", "Aborting", "Disconnecting"}
  BY CleanupQuiet DEF Quiet
<1> QED
  BY <1>1, <1>2, <1>3 DEF Started

\* What HangUp keeps of the types.
LEMMA HangUpTypes ==
  ASSUME TypeOK, NEW c, HangUp(c)
  PROVE  /\ reachable' \in BOOLEAN
         /\ sessions' \subseteq Connections
         /\ joined' \in [Connections -> 0..Len(Groups)]
         /\ attempts' \in [Connections -> 0..Retries]
         /\ bounds' \in Bounds
<1>1. reachable' \in BOOLEAN
  BY Zenon DEF TypeOK, HangUp
<1>2. Len(Groups) \in Nat /\ Retries \in Nat
  BY RetriesAssumption DEF Groups
<1> QED
  BY <1>1, <1>2 DEF TypeOK, HangUp

\* Mounting, remounting and unmounting keep the invariant.
LEMMA PageStep ==
  ASSUME IInv, Page
  PROVE  IInv'
<1>0. TypeOK /\ OneRef /\ made \in Nat
  BY DEF IInv, TypeOK
<1>1. ASSUME page # "warRoom", page' = "warRoom", UseSignalR(state, current),
             UNCHANGED <<hubVars, attempts, wire, received, storeVars>>
      PROVE  IInv'
  <2>1. current = None /\ Quiet(state)
    BY <1>1, NoPageQuiet
  <2>2. /\ made' = made + 1 /\ made + 1 \in Connections
        /\ current' = made + 1 /\ connectionRef' = made + 1
        /\ state' \in [Connections -> States]
        /\ state' = [state EXCEPT ![made + 1] = "Connecting"]
        /\ \A c \in Connections : c > made' => state'[c] = "Disconnected"
        /\ \A c \in Connections : state'[c] # "Waiting"
        /\ \A c \in Connections : Live(c)' => c = current'
        /\ \A c \in Connections : c # made + 1 => state'[c] = state[c]
    BY <1>0, <1>1, <2>1, MountStep DEF OneRef, TypeOK
  <2>3. connected' = connected /\ UNCHANGED <<reachable, sessions, joined, bounds, attempts>>
    BY <1>1 DEF hubVars, storeVars
  <2>4. connected' \in BOOLEAN /\ reachable' \in BOOLEAN
    BY <1>0, <2>3, Zenon DEF TypeOK
  <2>5. TypeOK'
    BY <1>0, <1>1, <2>2, <2>3, <2>4 DEF TypeOK, Connections
  <2>6. OneRef'
    BY <2>2 DEF OneRef
  <2>7. OneLiveConnection'
    BY <1>1, <2>2 DEF OneLiveConnection
  <2>8. HeaderTellsConnection'
    <3>1. ASSUME connected'
          PROVE  \E c \in Connections : state'[c] \in {"Connected", "Disconnecting"}
      <4>1. connected
        BY <2>3, <3>1, Zenon
      <4>2. PICK c \in Connections : state[c] \in {"Connected", "Disconnecting"}
        BY <4>1, HeaderTold DEF IInv
      <4>3. c # made + 1
        BY <1>0, <2>2, <4>2 DEF OneRef
      <4> QED
        BY <2>2, <4>2, <4>3
    <3>2. ~(current' = 1 /\ state'[1] = "Connected")
      BY <1>0, <2>2 DEF TypeOK
    <3> QED
      BY <3>1, <3>2, HeaderTold, Zenon
  <2> QED
    BY <2>5, <2>6, <2>7, <2>8 DEF IInv
<1>2. CASE OpenPage \/ Reset
  BY <1>1, <1>2 DEF OpenPage, Reset
<1>3. CASE Remount
  <2>1. PICK transport \in Transports :
          /\ UseSignalR(Cleanup(transport), CurrentAfterCleanup)
          /\ IF ClosesOne(Cleanup(transport)) THEN setConnected(FALSE) ELSE UNCHANGED storeVars
    BY <1>3 DEF Remount
  <2> DEFINE after == Cleanup(transport)
  <2>2. /\ Quiet(after) /\ after \in [Connections -> States]
        /\ \A c \in Connections : c > made => after[c] = "Disconnected"
        /\ CurrentAfterCleanup = None
    BY CleanupQuiet
  <2>3. /\ made' = made + 1 /\ made + 1 \in Connections
        /\ current' = made + 1 /\ connectionRef' = made + 1
        /\ state' \in [Connections -> States]
        /\ state' = [after EXCEPT ![made + 1] = "Connecting"]
        /\ \A c \in Connections : c > made' => state'[c] = "Disconnected"
        /\ \A c \in Connections : state'[c] # "Waiting"
        /\ \A c \in Connections : Live(c)' => c = current'
        /\ \A c \in Connections : c # made + 1 => state'[c] = after[c]
    <3> HIDE DEF after
    <3>1. UseSignalR(after, None)
      BY <2>1, <2>2 DEF after
    <3> QED
      BY <1>0, <2>2, <3>1, MountStep
  <2>4. /\ page = "warRoom" /\ page' = page /\ HangUp(connectionRef)
    BY <1>3 DEF Remount
  <2>5. connected' \in BOOLEAN /\ (ClosesOne(after) => ~connected')
        /\ (~ClosesOne(after) => (connected' <=> connected))
    <3>1. CASE ClosesOne(after)
      BY <2>1, <3>1, SetConnected, Zenon
    <3>2. CASE ~ClosesOne(after)
      <4>1. connected' = connected
        BY <2>1, <3>2, Zenon DEF storeVars
      <4> QED
        BY <1>0, <3>2, <4>1, Zenon DEF TypeOK
    <3> QED
      BY <3>1, <3>2
  <2>6. TypeOK'
    BY <1>0, <2>3, <2>4, <2>5, HangUpTypes DEF TypeOK, Connections
  <2>7. OneRef'
    BY <2>3 DEF OneRef
  <2>8. OneLiveConnection'
    BY <2>3, <2>4 DEF OneLiveConnection
  <2>9. HeaderTellsConnection'
    <3>1. ASSUME connected'
          PROVE  \E c \in Connections : state'[c] \in {"Connected", "Disconnecting"}
      <4>1. connected /\ ~ClosesOne(after)
        BY <2>5, <3>1, Zenon
      <4>2. PICK c \in Connections :
              state[c] # "Disconnected" /\ after[c] \in {"Connected", "Disconnecting"}
        BY <4>1, CleanupHeader
      <4>3. c # made + 1
        BY <1>0, <2>3, <4>2 DEF OneRef
      <4> QED
        BY <2>3, <4>2, <4>3
    <3>2. ~(current' = 1 /\ state'[1] = "Connected")
      <4>1. state'[made + 1] = "Connecting"
        BY <2>2, <2>3
      <4> QED
        BY <2>3, <4>1
    <3> QED
      BY <3>1, <3>2, HeaderTold, Zenon
  <2> QED
    BY <2>6, <2>7, <2>8, <2>9 DEF IInv
<1>4. CASE RenderError
  <2>1. PICK transport \in Transports :
          /\ state' = Cleanup(transport)
          /\ connected' = (connected /\ ~ClosesOne(Cleanup(transport)))
    BY <1>4 DEF RenderError
  <2> DEFINE after == Cleanup(transport)
  <2>2. /\ Quiet(after) /\ after \in [Connections -> States]
        /\ \A c \in Connections : c > made => after[c] = "Disconnected"
        /\ CurrentAfterCleanup = None
    BY CleanupQuiet
  <2>3. /\ page' = "error" /\ HangUp(connectionRef) /\ made' = made
        /\ current' = None /\ connectionRef' = None
    BY <1>4, <2>2 DEF RenderError
  <2>4. connected' \in BOOLEAN /\ (connected' => connected /\ ~ClosesOne(after))
    BY <2>1, Zenon
  <2>5. TypeOK'
    BY <1>0, <2>1, <2>2, <2>3, <2>4, HangUpTypes DEF TypeOK
  <2>6. Quiet(state')
    BY <2>1, <2>2
  <2>7. OneRef'
    BY <2>1, <2>2, <2>3, <2>6 DEF OneRef, Quiet
  <2>8. OneLiveConnection'
    BY <2>3, <2>6 DEF OneLiveConnection, Live, Quiet
  <2>9. HeaderTellsConnection'
    <3>1. ASSUME connected'
          PROVE  \E c \in Connections : state'[c] \in {"Connected", "Disconnecting"}
      <4>1. connected /\ ~ClosesOne(after)
        BY <2>4, <3>1, Zenon
      <4> QED
        BY <2>1, <4>1, CleanupHeader
    <3>2. ~(current' = 1 /\ state'[1] = "Connected")
      BY <2>3 DEF None
    <3> QED
      BY <3>1, <3>2, HeaderTold, Zenon
  <2> QED
    BY <2>5, <2>7, <2>8, <2>9 DEF IInv
<1> QED
  BY <1>2, <1>3, <1>4 DEF Page

\* A connection that is not dead goes to s, and does not come alive by that.
LEMMA ClientMove ==
  ASSUME IInv, NEW c \in Connections, NEW s \in States,
         state' = [state EXCEPT ![c] = s], state[c] # "Disconnected",
         s \in {"Connecting", "Connected", "Waiting", "Reconnecting"} => Live(c),
         UNCHANGED pageVars
  PROVE  /\ state' \in [Connections -> States]
         /\ state'[c] = s
         /\ \A d \in Connections : d # c => state'[d] = state[d]
         /\ \A d \in Connections : d > made' => state'[d] = "Disconnected"
         /\ current' = connectionRef'
         /\ OneLiveConnection'
         /\ c <= made
<1>1. state \in [Connections -> States] /\ made \in Nat
  BY DEF IInv, TypeOK
<1>2. /\ state' \in [Connections -> States]
      /\ state'[c] = s
      /\ \A d \in Connections : d # c => state'[d] = state[d]
  BY <1>1
<1>3. c <= made
  BY <1>1 DEF IInv, OneRef, Connections
<1>4. page' = page /\ current' = current /\ connectionRef' = connectionRef /\ made' = made
  BY DEF pageVars
<1>5. ASSUME NEW d \in Connections, d > made'
      PROVE  state'[d] = "Disconnected"
  BY <1>1, <1>2, <1>3, <1>4, <1>5 DEF IInv, OneRef, Connections
<1>6. ASSUME NEW d \in Connections, Live(d)'
      PROVE  d = current'
  <2>1. CASE d = c
    BY <1>2, <1>4, <1>6, <2>1 DEF IInv, OneLiveConnection, Live
  <2>2. CASE d # c
    BY <1>2, <1>4, <1>6, <2>2 DEF IInv, OneLiveConnection, Live
  <2> QED
    BY <2>1, <2>2
<1>7. OneLiveConnection'
  BY <1>4, <1>6 DEF IInv, OneLiveConnection
<1> QED
  BY <1>2, <1>3, <1>4, <1>5, <1>7 DEF IInv, OneRef

\* If connected and the state of all but a connection that was not behind the flag
\* stay, the header stays right.
LEMMA HeaderStays ==
  ASSUME IInv, NEW c \in Connections, state[c] \notin {"Connected", "Disconnecting"},
         state'[c] # "Connected", \A d \in Connections : d # c => state'[d] = state[d],
         connected' = connected, current' = current
  PROVE  HeaderTellsConnection'
<1>1. ASSUME connected'
      PROVE  \E d \in Connections : state'[d] \in {"Connected", "Disconnecting"}
  <2>1. connected
    BY <1>1, Zenon
  <2>2. PICK d \in Connections : state[d] \in {"Connected", "Disconnecting"}
    BY <2>1, HeaderTold DEF IInv
  <2> QED
    BY <2>2
<1>2. ASSUME current' = 1, state'[1] = "Connected"
      PROVE  connected'
  <2>1. 1 \in Connections
    BY <1>2, BoundsAssumption DEF IInv, TypeOK, Connections, None
  <2>2. state[1] = "Connected" /\ current = 1
    BY <1>2, <2>1
  <2>3. connected
    BY <2>2, HeaderTold, Zenon DEF IInv
  <2> QED
    BY <2>3, Zenon
<1> QED
  BY <1>1, <1>2, HeaderTold, Zenon

\* Every step of a SignalR client keeps the invariant.
LEMMA ClientStep ==
  ASSUME IInv, NEW c \in Connections, Client(c)
  PROVE  IInv'
<1>0. TypeOK /\ OneRef /\ Retries \in Nat \ {0}
  BY RetriesAssumption DEF IInv
<1>1. CASE StartSucceeds(c)
  <2>1. /\ state[c] = "Connecting" /\ state' = [state EXCEPT ![c] = "Connected"]
        /\ UNCHANGED <<joined, bounds, attempts>> /\ UNCHANGED pageVars
        /\ sessions' = sessions \cup {c} /\ setConnected(TRUE)
    BY <1>1 DEF StartSucceeds
  <2>2. /\ state' \in [Connections -> States] /\ state'[c] = "Connected"
        /\ \A d \in Connections : d # c => state'[d] = state[d]
        /\ \A d \in Connections : d > made' => state'[d] = "Disconnected"
        /\ current' = connectionRef' /\ OneLiveConnection'
    BY <2>1, ClientMove DEF States, Live
  <2>3. connected' = TRUE /\ connected' \in BOOLEAN
    BY <2>1, SetConnected
  <2>4. reachable' \in BOOLEAN
    BY <1>0, <1>1, Zenon DEF StartSucceeds, TypeOK
  <2>5. TypeOK'
    BY <1>0, <2>1, <2>2, <2>3, <2>4 DEF TypeOK, pageVars
  <2>6. OneRef'
    BY <1>0, <2>1, <2>2 DEF OneRef
  <2>7. HeaderTellsConnection'
    BY <2>2, <2>3, HeaderTold
  <2> QED
    BY <2>2, <2>5, <2>6, <2>7 DEF IInv
<1>2. CASE StartFails(c) \/ StartAborted(c)
  <2>1. /\ state[c] \in {"Connecting", "Aborting"}
        /\ state' = [state EXCEPT ![c] = "Disconnected"]
        /\ UNCHANGED hubVars /\ UNCHANGED pageVars /\ attempts' = attempts
        /\ UNCHANGED storeVars
    BY <1>2 DEF StartFails, StartAborted
  <2>2. /\ state' \in [Connections -> States] /\ state'[c] = "Disconnected"
        /\ \A d \in Connections : d # c => state'[d] = state[d]
        /\ \A d \in Connections : d > made' => state'[d] = "Disconnected"
        /\ current' = connectionRef' /\ OneLiveConnection'
    BY <2>1, ClientMove DEF States
  <2>3. connected' = connected
    BY <2>1 DEF storeVars
  <2>4. reachable' \in BOOLEAN /\ connected' \in BOOLEAN
    BY <1>0, <2>1, <2>3, Zenon DEF hubVars, TypeOK
  <2>5. TypeOK'
    BY <1>0, <2>1, <2>2, <2>4 DEF TypeOK, pageVars, hubVars
  <2>6. OneRef'
    BY <1>0, <2>1, <2>2 DEF OneRef
  <2>7. HeaderTellsConnection'
    <3>1. current' = current
      BY <2>1 DEF pageVars
    <3>2. state[c] \notin {"Connected", "Disconnecting"} /\ state'[c] # "Connected"
      BY <2>1, <2>2
    <3> QED
      BY <2>2, <2>3, <3>1, <3>2, HeaderStays
  <2> QED
    BY <2>2, <2>5, <2>6, <2>7 DEF IInv
<1>3. CASE CloseCompletes(c)
  <2>1. /\ state[c] = "Disconnecting" /\ state' = [state EXCEPT ![c] = "Disconnected"]
        /\ UNCHANGED hubVars /\ UNCHANGED pageVars /\ attempts' = attempts
        /\ setConnected(FALSE)
    BY <1>3 DEF CloseCompletes
  <2>2. /\ state' \in [Connections -> States] /\ state'[c] = "Disconnected"
        /\ \A d \in Connections : d # c => state'[d] = state[d]
        /\ \A d \in Connections : d > made' => state'[d] = "Disconnected"
        /\ current' = connectionRef' /\ OneLiveConnection' /\ c <= made
    BY <2>1, ClientMove DEF States
  <2>3. connected' = FALSE /\ connected' \in BOOLEAN
    BY <2>1, SetConnected
  <2>4. reachable' \in BOOLEAN
    BY <1>0, <2>1, Zenon DEF hubVars, TypeOK
  <2>5. TypeOK'
    BY <1>0, <2>1, <2>2, <2>3, <2>4 DEF TypeOK, pageVars, hubVars
  <2>6. OneRef'
    BY <1>0, <2>1, <2>2 DEF OneRef
  <2>7. ~(current' = 1 /\ state'[1] = "Connected")
    BY <1>0, <2>1, <2>2 DEF TypeOK, pageVars, Connections, None
  <2>8. HeaderTellsConnection'
    BY <2>3, <2>7, HeaderTold
  <2> QED
    BY <2>2, <2>5, <2>6, <2>8 DEF IInv
<1>4. CASE ConnectionLost(c)
  <2>1. /\ state[c] = "Connected" /\ state' = [state EXCEPT ![c] = "Waiting"]
        /\ HangUp(c) /\ setConnected(FALSE) /\ UNCHANGED pageVars
    BY <1>4 DEF ConnectionLost
  <2>2. /\ state' \in [Connections -> States] /\ state'[c] = "Waiting"
        /\ \A d \in Connections : d # c => state'[d] = state[d]
        /\ \A d \in Connections : d > made' => state'[d] = "Disconnected"
        /\ current' = connectionRef' /\ OneLiveConnection'
    BY <2>1, ClientMove DEF States, Live
  <2>3. connected' = FALSE /\ connected' \in BOOLEAN
    BY <2>1, SetConnected
  <2>4. TypeOK'
    BY <1>0, <2>1, <2>2, <2>3, HangUpTypes DEF TypeOK, pageVars
  <2>5. \A d \in Connections : attempts'[d] = IF d = c THEN 0 ELSE attempts[d]
    BY <2>1 DEF HangUp
  <2>6. OneRef'
    BY <1>0, <2>2, <2>5 DEF OneRef
  <2>7. c = current /\ current' = current
    BY <2>1 DEF IInv, OneLiveConnection, Live, pageVars
  <2>8. HeaderTellsConnection'
    BY <2>2, <2>3, <2>7, HeaderTold
  <2> QED
    BY <2>2, <2>4, <2>6, <2>8 DEF IInv
<1>5. CASE TryReconnect(c)
  <2>1. /\ state[c] = "Waiting" /\ state' = [state EXCEPT ![c] = "Reconnecting"]
        /\ attempts' = [attempts EXCEPT ![c] = attempts[c] + 1]
        /\ UNCHANGED hubVars /\ UNCHANGED pageVars /\ UNCHANGED storeVars
    BY <1>5 DEF TryReconnect
  <2>2. /\ state' \in [Connections -> States] /\ state'[c] = "Reconnecting"
        /\ \A d \in Connections : d # c => state'[d] = state[d]
        /\ \A d \in Connections : d > made' => state'[d] = "Disconnected"
        /\ current' = connectionRef' /\ OneLiveConnection'
    BY <2>1, ClientMove DEF States, Live
  <2>3. connected' = connected
    BY <2>1 DEF storeVars
  <2>4. reachable' \in BOOLEAN /\ connected' \in BOOLEAN
    BY <1>0, <2>1, <2>3, Zenon DEF hubVars, TypeOK
  <2>5. /\ attempts' \in [Connections -> 0..Retries]
        /\ \A d \in Connections : d # c => attempts'[d] = attempts[d]
    <3>1. attempts \in [Connections -> 0..Retries] /\ attempts[c] + 1 \in 0..Retries
      BY <1>0, <2>1 DEF OneRef, TypeOK
    <3> QED
      BY <2>1, <3>1
  <2>6. TypeOK'
    BY <1>0, <2>1, <2>2, <2>4, <2>5 DEF TypeOK, pageVars, hubVars
  <2>7. OneRef'
    BY <1>0, <2>2, <2>5 DEF OneRef
  <2>8. HeaderTellsConnection'
    <3>1. current' = current
      BY <2>1 DEF pageVars
    <3> QED
      BY <2>1, <2>2, <2>3, <3>1, HeaderStays
  <2> QED
    BY <2>2, <2>6, <2>7, <2>8 DEF IInv
<1>6. CASE ReconnectSucceeds(c)
  <2>1. /\ state[c] = "Reconnecting" /\ state' = [state EXCEPT ![c] = "Connected"]
        /\ attempts' = [attempts EXCEPT ![c] = 0]
        /\ UNCHANGED <<joined, bounds>> /\ UNCHANGED pageVars
        /\ sessions' = sessions \cup {c} /\ setConnected(TRUE)
    BY <1>6 DEF ReconnectSucceeds
  <2>2. /\ state' \in [Connections -> States] /\ state'[c] = "Connected"
        /\ \A d \in Connections : d # c => state'[d] = state[d]
        /\ \A d \in Connections : d > made' => state'[d] = "Disconnected"
        /\ current' = connectionRef' /\ OneLiveConnection'
    BY <2>1, ClientMove DEF States, Live
  <2>3. connected' = TRUE /\ connected' \in BOOLEAN
    BY <2>1, SetConnected
  <2>4. reachable' \in BOOLEAN
    BY <1>0, <1>6, Zenon DEF ReconnectSucceeds, TypeOK
  <2>5. /\ attempts' \in [Connections -> 0..Retries]
        /\ \A d \in Connections : d # c => attempts'[d] = attempts[d]
    <3>1. attempts \in [Connections -> 0..Retries] /\ 0 \in 0..Retries
      BY <1>0 DEF TypeOK
    <3> QED
      BY <2>1, <3>1
  <2>6. TypeOK'
    BY <1>0, <2>1, <2>2, <2>3, <2>4, <2>5 DEF TypeOK, pageVars
  <2>7. OneRef'
    BY <1>0, <2>2, <2>5 DEF OneRef
  <2>8. HeaderTellsConnection'
    BY <2>2, <2>3, HeaderTold
  <2> QED
    BY <2>2, <2>6, <2>7, <2>8 DEF IInv
<1>7. CASE ReconnectFails(c)
  <2>1. /\ state[c] = "Reconnecting"
        /\ UNCHANGED hubVars /\ UNCHANGED pageVars
    BY <1>7 DEF ReconnectFails
  <2>2. reachable' \in BOOLEAN
    BY <1>0, <2>1, Zenon DEF hubVars, TypeOK
  <2>3. CASE attempts[c] < Retries
    <3>1. /\ state' = [state EXCEPT ![c] = "Waiting"]
          /\ attempts' = attempts /\ UNCHANGED storeVars
      BY <1>7, <2>3 DEF ReconnectFails
    <3>2. /\ state' \in [Connections -> States] /\ state'[c] = "Waiting"
          /\ \A d \in Connections : d # c => state'[d] = state[d]
          /\ \A d \in Connections : d > made' => state'[d] = "Disconnected"
          /\ current' = connectionRef' /\ OneLiveConnection'
      BY <2>1, <3>1, ClientMove DEF States, Live
    <3>3. connected' = connected
      BY <3>1 DEF storeVars
    <3>4. connected' \in BOOLEAN
      BY <1>0, <3>3, Zenon DEF TypeOK
    <3>5. TypeOK'
      BY <1>0, <2>1, <2>2, <3>1, <3>2, <3>4 DEF TypeOK, pageVars, hubVars
    <3>6. OneRef'
      BY <1>0, <2>3, <3>1, <3>2 DEF OneRef
    <3>7. current' = current
      BY <2>1 DEF pageVars
    <3>8. HeaderTellsConnection'
      BY <2>1, <3>2, <3>3, <3>7, HeaderStays
    <3> QED
      BY <3>2, <3>5, <3>6, <3>8 DEF IInv
  <2>4. CASE ~(attempts[c] < Retries)
    <3>1. /\ state' = [state EXCEPT ![c] = "Disconnected"]
          /\ attempts' = [attempts EXCEPT ![c] = 0] /\ setConnected(FALSE)
      BY <1>7, <2>4 DEF ReconnectFails
    <3>2. /\ state' \in [Connections -> States] /\ state'[c] = "Disconnected"
          /\ \A d \in Connections : d # c => state'[d] = state[d]
          /\ \A d \in Connections : d > made' => state'[d] = "Disconnected"
          /\ current' = connectionRef' /\ OneLiveConnection'
      BY <2>1, <3>1, ClientMove DEF States
    <3>3. connected' = FALSE /\ connected' \in BOOLEAN
      BY <3>1, SetConnected
    <3>4. /\ attempts' \in [Connections -> 0..Retries]
          /\ \A d \in Connections : d # c => attempts'[d] = attempts[d]
      <4>1. attempts \in [Connections -> 0..Retries] /\ 0 \in 0..Retries
        BY <1>0 DEF TypeOK
      <4> QED
        BY <3>1, <4>1
    <3>5. TypeOK'
      BY <1>0, <2>1, <2>2, <3>1, <3>2, <3>3, <3>4 DEF TypeOK, pageVars, hubVars
    <3>6. OneRef'
      BY <1>0, <3>2, <3>4 DEF OneRef
    <3>7. c = current /\ current' = current
      BY <2>1 DEF IInv, OneLiveConnection, Live, pageVars
    <3>8. HeaderTellsConnection'
      BY <3>2, <3>3, <3>7, HeaderTold
    <3> QED
      BY <3>2, <3>5, <3>6, <3>8 DEF IInv
  <2> QED
    BY <2>3, <2>4
<1> QED
  BY <1>1, <1>2, <1>3, <1>4, <1>5, <1>6, <1>7 DEF Client

\* A step that leaves the page, the clients and the flag alone keeps the invariant.
LEMMA Undisturbed ==
  ASSUME IInv, UNCHANGED pageVars, UNCHANGED clientVars, connected' = connected,
         reachable' \in BOOLEAN, sessions' \subseteq Connections,
         joined' \in [Connections -> 0..Len(Groups)], bounds' = bounds
  PROVE  IInv'
<1>1. /\ page' = page /\ current' = current /\ connectionRef' = connectionRef
      /\ made' = made /\ state' = state /\ attempts' = attempts
  BY DEF pageVars, clientVars
<1>2. connected' \in BOOLEAN
  BY Zenon DEF IInv, TypeOK
<1>3. TypeOK'
  BY <1>1, <1>2 DEF IInv, TypeOK
<1>4. OneRef' /\ OneLiveConnection'
  BY <1>1 DEF IInv, OneRef, OneLiveConnection, Live
<1>5. HeaderTellsConnection'
  BY <1>1, HeaderTold, Zenon DEF IInv
<1> QED
  BY <1>3, <1>4, <1>5 DEF IInv

\* What arrives changes neither the page, nor the clients, nor the flag.
LEMMA ReceiveQuiet ==
  ASSUME NEW c \in Connections, Receive(c)
  PROVE  UNCHANGED hubVars /\ UNCHANGED pageVars /\ UNCHANGED clientVars
         /\ connected' = connected
<1>1. PICK method : Arrives(c, method)
  BY DEF Receive, ReceivePackets, ReceiveProcessStats, ReceiveHealth, ReceiveAnomaly
<1>2. connected' = connected
  BY Zenon DEF Receive, ReceivePackets, ReceiveProcessStats, ReceiveHealth, ReceiveAnomaly,
               addPackets, upsertProcess, setHealth, addAnomaly
<1> QED
  BY <1>1, <1>2 DEF Arrives

\* Every step keeps IInv.
LEMMA StepIInv ==
  ASSUME IInv, [Next]_vars
  PROVE  IInv'
<1>0. TypeOK /\ Len(Groups) \in Nat
  BY DEF IInv, Groups
<1>1. CASE Outage
  <2>1. joined' \in [Connections -> 0..Len(Groups)]
    BY <1>0, <1>1 DEF Outage
  <2>2. reachable' \in BOOLEAN
    BY <1>1, Zenon DEF Outage
  <2>3. connected' = connected
    BY <1>1 DEF Outage, storeVars
  <2> QED
    BY <1>1, <2>1, <2>2, <2>3, Undisturbed DEF Outage
<1>2. CASE HubReturns
  <2>1. reachable' \in BOOLEAN
    BY <1>2, Zenon DEF HubReturns
  <2>2. connected' = connected
    BY <1>2 DEF HubReturns, storeVars
  <2> QED
    BY <1>0, <1>2, <2>1, <2>2, Undisturbed DEF HubReturns, TypeOK
<1>3. ASSUME NEW c \in Connections, Join(c)
      PROVE  IInv'
  <2>1. /\ joined \in [Connections -> 0..Len(Groups)] /\ joined[c] + 1 \in 0..Len(Groups)
        /\ joined' = [joined EXCEPT ![c] = joined[c] + 1]
    BY <1>0, <1>3 DEF Join, TypeOK
  <2>2. joined' \in [Connections -> 0..Len(Groups)]
    BY <2>1
  <2>3. reachable' \in BOOLEAN
    BY <1>0, <1>3, Zenon DEF Join, TypeOK
  <2>4. connected' = connected
    BY <1>3 DEF Join, storeVars
  <2> QED
    BY <1>0, <1>3, <2>2, <2>3, <2>4, Undisturbed DEF Join, TypeOK
<1>4. ASSUME NEW m, SendMessage(m)
      PROVE  IInv'
  <2>1. reachable' \in BOOLEAN
    BY <1>0, <1>4, Zenon DEF SendMessage, TypeOK
  <2>2. connected' = connected
    BY <1>4 DEF SendMessage, storeVars
  <2> QED
    BY <1>0, <1>4, <2>1, <2>2, Undisturbed DEF SendMessage, TypeOK
<1>5. ASSUME UNCHANGED hubVars, UNCHANGED pageVars, UNCHANGED clientVars,
             connected' = connected
      PROVE  IInv'
  <2>1. reachable' \in BOOLEAN
    BY <1>0, <1>5, Zenon DEF hubVars, TypeOK
  <2>2. sessions' = sessions /\ joined' = joined /\ bounds' = bounds
    BY <1>5 DEF hubVars
  <2> QED
    BY <1>0, <1>5, <2>1, <2>2, Undisturbed DEF TypeOK
<1>6. ASSUME NEW c \in Connections, Receive(c)
      PROVE  IInv'
  BY <1>5, <1>6, ReceiveQuiet
<1>7. CASE UNCHANGED vars
  BY <1>5, <1>7 DEF vars, storeVars
<1> QED
  BY <1>1, <1>2, <1>3, <1>4, <1>6, <1>7, PageStep, ClientStep DEF Next

\* Nothing is mounted at first.
LEMMA InitIInv == Init => IInv
<1> SUFFICES ASSUME Init PROVE IInv
  OBVIOUS
<1>1. /\ page = "none" /\ current = None /\ connectionRef = None /\ made = 0 /\ sessions = {}
      /\ state = [c \in Connections |-> "Disconnected"]
      /\ attempts = [c \in Connections |-> 0]
      /\ joined = [c \in Connections |-> 0]
      /\ bounds \in Bounds
  BY DEF Init
<1>2. connected = FALSE /\ connected \in BOOLEAN /\ reachable \in BOOLEAN
  BY Zenon DEF Init, StoreInit
<1>3. Len(Groups) \in Nat /\ Retries \in Nat /\ MaxConnections \in Nat
  BY RetriesAssumption, BoundsAssumption DEF Groups
<1>4. TypeOK
  BY <1>1, <1>2, <1>3 DEF TypeOK, States, None
<1>5. OneRef /\ OneLiveConnection
  BY <1>1 DEF OneRef, OneLiveConnection, Live
<1>6. HeaderTellsConnection
  BY <1>1, <1>2, HeaderTold DEF None
<1> QED
  BY <1>4, <1>5, <1>6 DEF IInv

-----------------------------------------------------------------------------
\* The reachable states of the dashboard's connections satisfy IInv.
THEOREM Invariance == Spec => []IInv
BY InitIInv, StepIInv, PTL DEF Spec

\* The bookkeeping is always well formed, and no client tries more often than it may.
THEOREM TypeCorrect == Spec => []TypeOK
<1>1. IInv => TypeOK
  BY DEF IInv
<1> QED
  BY <1>1, Invariance, PTL

\* However often the page is mounted and unmounted, only _connection is alive.
THEOREM OnlyCurrentLives == Spec => []OneLiveConnection
<1>1. IInv => OneLiveConnection
  BY DEF IInv
<1> QED
  BY <1>1, Invariance, PTL

\* The header never says ONLINE without a connection that had started and not ended.
THEOREM HeaderIsHonest == Spec => []HeaderTellsConnection
<1>1. IInv => HeaderTellsConnection
  BY DEF IInv
<1> QED
  BY <1>1, Invariance, PTL

-----------------------------------------------------------------------------
(* What reaches the store. *)

\* The hub knows, and sends to, established connections only.
OnlyConnectedServed ==
  \A c \in Connections :
    /\ c \in sessions => state[c] = "Connected"
    /\ wire[c] # <<>> => state[c] = "Connected"

Sent == UNION {b.messages : b \in Bounds}

\* Messages are numbered in the order they are sent, and stay in it.
FeedInLine ==
  /\ feed \in Seq(Sent)
  /\ received \in Seq(1..Len(feed))
  /\ wire \in [Connections -> Seq(1..Len(feed))]
  /\ Increasing(received)
  /\ \A c \in Connections : Increasing(wire[c]) /\ AllBefore(received, wire[c])

FInv == IInv /\ OnlyConnectedServed /\ FeedInLine

\* Only one connection is established.
LEMMA OneConnected ==
  ASSUME IInv, NEW c \in Connections, NEW d \in Connections,
         state[c] = "Connected", state[d] = "Connected"
  PROVE  c = d
BY DEF IInv, OneLiveConnection, Live

\* Numbers of messages are numbers.
LEMMA FeedNumbers ==
  ASSUME NEW n \in Nat, NEW s \in Seq(1..n)
  PROVE  /\ s \in Seq(Nat) /\ s \in Seq(1..(n + 1))
         /\ \A i \in DOMAIN s : s[i] \in Nat /\ s[i] < n + 1
<1>1. Len(s) \in Nat /\ DOMAIN s = 1..Len(s) /\ \A i \in DOMAIN s : s[i] \in 1..n
  BY LenProperties, ElementOfSeq
<1>2. s = [i \in 1..Len(s) |-> s[i]]
  BY <1>1
<1>3. \A i \in 1..Len(s) : s[i] \in Nat /\ s[i] \in 1..(n + 1) /\ s[i] < n + 1
  BY <1>1
<1>4. s \in Seq(Nat) /\ s \in Seq(1..(n + 1))
  BY <1>1, <1>2, <1>3, IsASeq
<1> QED
  BY <1>1, <1>3, <1>4

\* Hanging up leaves what was received and the other wires as they are.
LEMMA HangUpFeed ==
  ASSUME FeedInLine, NEW c, HangUp(c)
  PROVE  FeedInLine'
<1>1. feed' = feed /\ received' = received
  BY DEF HangUp
<1>2. wire' = [d \in Connections |-> IF d = c THEN <<>> ELSE wire[d]]
  BY DEF HangUp
<1>3. <<>> \in Seq(1..Len(feed)) /\ Increasing(<<>>) /\ AllBefore(received, <<>>)
  BY EmptyOrdered, EmptySeq
<1> QED
  BY <1>1, <1>2, <1>3 DEF FeedInLine

\* A page that comes or goes hangs up the only established connection.
LEMMA PageFeed ==
  ASSUME FInv, Page
  PROVE  OnlyConnectedServed' /\ FeedInLine'
<1>0. TypeOK /\ OneRef
  BY DEF FInv, IInv
<1>1. CASE OpenPage \/ Reset
  <2>1. current = None /\ Quiet(state)
    BY <1>1, NoPageQuiet DEF OpenPage, Reset, FInv
  <2>2. UseSignalR(state, None) /\ UNCHANGED <<hubVars, wire, received>>
    BY <1>1, <2>1 DEF OpenPage, Reset
  <2>3. state \in [Connections -> States] /\ \A c \in Connections : c > made => state[c] = "Disconnected"
    BY <1>0 DEF TypeOK, OneRef
  <2>4. /\ made + 1 \in Connections
        /\ \A c \in Connections : c # made + 1 => state'[c] = state[c]
    BY <1>0, <2>1, <2>2, <2>3, MountStep
  <2>5. state[made + 1] = "Disconnected"
    BY <1>0, <2>3, <2>4 DEF TypeOK
  <2>6. OnlyConnectedServed'
    BY <2>2, <2>4, <2>5 DEF FInv, OnlyConnectedServed, hubVars
  <2>7. FeedInLine'
    BY <2>2 DEF FInv, FeedInLine, hubVars
  <2> QED
    BY <2>6, <2>7
<1>2. ASSUME NEW transport, HangUp(connectionRef),
             \A c \in Connections :
               state[c] # "Disconnected" => state'[c] = Cleanup(transport)[c]
      PROVE  OnlyConnectedServed' /\ FeedInLine'
  <2>1. \A c \in Connections : c # connectionRef => state[c] # "Connected"
    BY <1>0 DEF FInv, IInv, OneRef, OneLiveConnection, Live
  <2>2. \A c \in Connections : c \notin sessions' /\ wire'[c] = <<>>
    BY <1>2, <2>1 DEF HangUp, FInv, OnlyConnectedServed
  <2> QED
    BY <1>2, <2>2, HangUpFeed DEF FInv, OnlyConnectedServed
<1>3. CASE Remount
  <2>1. PICK transport \in Transports : UseSignalR(Cleanup(transport), CurrentAfterCleanup)
    BY <1>3 DEF Remount
  <2> DEFINE after == Cleanup(transport)
  <2>2. /\ Quiet(after) /\ after \in [Connections -> States]
        /\ \A c \in Connections : c > made => after[c] = "Disconnected"
        /\ CurrentAfterCleanup = None
    BY CleanupQuiet DEF FInv
  <2>3. \A c \in Connections : c # made + 1 => state'[c] = after[c]
    <3> HIDE DEF after
    <3>1. UseSignalR(after, None)
      BY <2>1, <2>2 DEF after
    <3> QED
      BY <1>0, <2>2, <3>1, MountStep
  <2>4. made \in Nat
    BY <1>0 DEF TypeOK
  <2>5. \A c \in Connections : c = made + 1 => state[c] = "Disconnected"
    BY <1>0, <2>4 DEF OneRef, Connections
  <2>6. HangUp(connectionRef)
    BY <1>3 DEF Remount
  <2> QED
    BY <1>2, <2>3, <2>5, <2>6
<1>4. CASE RenderError
  BY <1>2, <1>4 DEF RenderError
<1> QED
  BY <1>1, <1>3, <1>4 DEF Page

\* A client that loses or leaves its connection has nothing on its wire.
LEMMA ClientFeed ==
  ASSUME FInv, NEW c \in Connections, Client(c)
  PROVE  OnlyConnectedServed' /\ FeedInLine'
<1>0. state \in [Connections -> States]
  BY DEF FInv, IInv, TypeOK
<1>1. CASE ConnectionLost(c)
  <2>1. /\ HangUp(c) /\ state' = [state EXCEPT ![c] = "Waiting"]
    BY <1>1 DEF ConnectionLost
  <2>2. OnlyConnectedServed'
    BY <1>0, <2>1 DEF HangUp, FInv, OnlyConnectedServed
  <2> QED
    BY <2>1, <2>2, HangUpFeed DEF FInv
<1>2. CASE StartSucceeds(c) \/ ReconnectSucceeds(c)
  <2>1. /\ state' = [state EXCEPT ![c] = "Connected"]
        /\ sessions' = sessions \cup {c} /\ UNCHANGED <<feed, wire, received>>
    BY <1>2 DEF StartSucceeds, ReconnectSucceeds
  <2>2. OnlyConnectedServed'
    BY <1>0, <2>1 DEF FInv, OnlyConnectedServed
  <2>3. FeedInLine'
    BY <2>1 DEF FInv, FeedInLine
  <2> QED
    BY <2>2, <2>3
<1>3. CASE StartFails(c) \/ StartAborted(c) \/ CloseCompletes(c) \/ TryReconnect(c)
             \/ ReconnectFails(c)
  <2>1. /\ \E s : state' = [state EXCEPT ![c] = s]
        /\ state[c] # "Connected" /\ UNCHANGED hubVars /\ UNCHANGED <<wire, received>>
    BY <1>3 DEF StartFails, StartAborted, CloseCompletes, TryReconnect, ReconnectFails
  <2>2. OnlyConnectedServed'
    BY <1>0, <2>1 DEF FInv, OnlyConnectedServed, hubVars
  <2>3. FeedInLine'
    BY <2>1 DEF FInv, FeedInLine, hubVars
  <2> QED
    BY <2>2, <2>3
<1> QED
  BY <1>1, <1>2, <1>3 DEF Client

\* A message joins the end of the established connection's wire.
LEMMA SendFeed ==
  ASSUME FInv, NEW m \in bounds.messages, SendMessage(m)
  PROVE  OnlyConnectedServed' /\ FeedInLine'
<1>1. /\ feed \in Seq(Sent) /\ received \in Seq(1..Len(feed))
      /\ wire \in [Connections -> Seq(1..Len(feed))]
      /\ Len(feed) \in Nat
  BY LenProperties DEF FInv, FeedInLine
<1>2. m \in Sent
  BY DEF FInv, IInv, TypeOK, Sent
<1>3. /\ feed' = Append(feed, m) /\ received' = received /\ state' = state
      /\ sessions' = sessions
      /\ wire' = [c \in Connections |->
                    IF IsIn(c, GroupOf(m.method)) THEN Append(wire[c], Len(feed) + 1) ELSE wire[c]]
  BY DEF SendMessage, clientVars
<1>4. feed' \in Seq(Sent) /\ Len(feed') = Len(feed) + 1
  BY <1>1, <1>2, <1>3, AppendProperties
<1>5. received' \in Seq(1..Len(feed')) /\ Increasing(received')
  BY <1>1, <1>3, <1>4, FeedNumbers DEF FInv, FeedInLine
<1>6. ASSUME NEW c \in Connections
      PROVE  /\ wire'[c] \in Seq(1..Len(feed')) /\ Increasing(wire'[c])
             /\ AllBefore(received', wire'[c])
             /\ wire'[c] # <<>> => state[c] = "Connected"
  <2> DEFINE w == wire[c]
             n == Len(feed)
  <2>1. /\ w \in Seq(1..n) /\ w \in Seq(Nat) /\ w \in Seq(1..(n + 1)) /\ n + 1 \in Nat
        /\ received \in Seq(Nat)
        /\ \A i \in DOMAIN w : w[i] < n + 1
        /\ \A i \in DOMAIN received : received[i] < n + 1
    BY <1>1, FeedNumbers
  <2>2. Increasing(w) /\ AllBefore(received, w)
    BY DEF FInv, FeedInLine
  <2>3. CASE IsIn(c, GroupOf(m.method))
    <3>1. wire'[c] = Append(w, n + 1)
      BY <1>3, <2>3
    <3>2. Increasing(Append(w, n + 1)) /\ AllBefore(received, Append(w, n + 1))
      <4> HIDE DEF w, n
      <4> QED
        BY <2>1, <2>2, AppendOrdered, AppendAllBefore
    <3>3. Append(w, n + 1) \in Seq(1..(n + 1))
      <4>1. n + 1 \in 1..(n + 1)
        BY <1>1
      <4> QED
        BY <2>1, <4>1, AppendProperties
    <3>4. state[c] = "Connected"
      BY <2>3 DEF IsIn, FInv, OnlyConnectedServed
    <3> QED
      BY <1>3, <1>4, <3>1, <3>2, <3>3, <3>4
  <2>4. CASE ~IsIn(c, GroupOf(m.method))
    <3>1. wire'[c] = w
      BY <1>3, <2>4
    <3> QED
      BY <1>3, <1>4, <2>1, <2>2, <3>1 DEF FInv, OnlyConnectedServed
  <2> QED
    BY <2>3, <2>4
<1>7. OnlyConnectedServed'
  BY <1>3, <1>6 DEF FInv, OnlyConnectedServed
<1>8. wire' \in [Connections -> Seq(1..Len(feed'))]
  BY <1>3, <1>6
<1> QED
  BY <1>4, <1>5, <1>6, <1>7, <1>8 DEF FeedInLine

\* The head of the wire joins the end of what was received.
LEMMA ReceiveFeed ==
  ASSUME FInv, NEW c \in Connections, Receive(c)
  PROVE  OnlyConnectedServed' /\ FeedInLine'
<1>1. PICK method : Arrives(c, method)
  BY DEF Receive, ReceivePackets, ReceiveProcessStats, ReceiveHealth, ReceiveAnomaly
<1> DEFINE w == wire[c]
           n == Len(feed)
<1>2. /\ state[c] = "Connected" /\ w # <<>>
      /\ wire' = [wire EXCEPT ![c] = Tail(w)]
      /\ received' = Append(received, Head(w))
      /\ feed' = feed /\ state' = state /\ sessions' = sessions
  BY <1>1 DEF Arrives, hubVars, clientVars
<1>3. /\ n \in Nat /\ w \in Seq(1..n) /\ received \in Seq(1..n)
      /\ wire \in [Connections -> Seq(1..n)]
      /\ Increasing(w) /\ Increasing(received) /\ AllBefore(received, w)
  BY LenProperties DEF FInv, FeedInLine
<1>4. w \in Seq(Nat) /\ received \in Seq(Nat)
  BY <1>3, FeedNumbers
<1>5. Head(w) \in 1..n /\ Tail(w) \in Seq(1..n)
  BY <1>2, <1>3, HeadTailProperties
<1>6. /\ Increasing(Tail(w)) /\ AllBefore(received, Tail(w))
      /\ \A i \in DOMAIN received : received[i] < Head(w)
      /\ \A i \in DOMAIN Tail(w) : Head(w) < Tail(w)[i]
  <2> HIDE DEF w
  <2> QED
    BY <1>2, <1>3, <1>4, TailOrdered
<1>7. Head(w) \in Nat /\ Tail(w) \in Seq(Nat)
  BY <1>2, <1>4, TailOrdered
<1>8. /\ Increasing(Append(received, Head(w))) /\ AllBefore(Append(received, Head(w)), Tail(w))
      /\ Append(received, Head(w)) \in Seq(1..n)
  <2>1. Append(received, Head(w)) \in Seq(1..n)
    BY <1>3, <1>5, AppendProperties
  <2>2. Increasing(Append(received, Head(w)))
    BY <1>3, <1>4, <1>6, <1>7, AppendOrdered
  <2> QED
    BY <1>4, <1>6, <1>7, <2>1, <2>2, AppendAllBefore
<1>9. \A d \in Connections : d # c => wire[d] = <<>>
  BY <1>2, OneConnected DEF FInv, OnlyConnectedServed
<1>10. \A d \in Connections : wire'[d] = IF d = c THEN Tail(w) ELSE <<>>
  BY <1>2, <1>3, <1>9
<1>11. OnlyConnectedServed'
  BY <1>2, <1>10 DEF FInv, OnlyConnectedServed
<1>12. wire' \in [Connections -> Seq(1..n)]
  BY <1>2, <1>3, <1>5
<1>13. \A d \in Connections : Increasing(wire'[d]) /\ AllBefore(received', wire'[d])
  BY <1>2, <1>6, <1>8, <1>10, EmptyOrdered
<1> QED
  BY <1>2, <1>3, <1>8, <1>11, <1>12, <1>13 DEF FInv, FeedInLine

\* Every step keeps FInv.
LEMMA StepFInv ==
  ASSUME FInv, [Next]_vars
  PROVE  FInv'
<1>1. IInv'
  BY StepIInv DEF FInv
<1> SUFFICES OnlyConnectedServed' /\ FeedInLine'
  BY <1>1 DEF FInv
<1>2. ASSUME UNCHANGED <<feed, wire, received, state>>, sessions' \subseteq sessions
      PROVE  OnlyConnectedServed' /\ FeedInLine'
  BY <1>2 DEF FInv, OnlyConnectedServed, FeedInLine
<1>3. CASE Outage
  BY <1>2, <1>3 DEF Outage, clientVars
<1>4. CASE HubReturns
  BY <1>2, <1>4 DEF HubReturns, clientVars
<1>5. ASSUME NEW c \in Connections, Join(c)
      PROVE  OnlyConnectedServed' /\ FeedInLine'
  BY <1>2, <1>5 DEF Join, clientVars
<1>6. CASE UNCHANGED vars
  BY <1>2, <1>6 DEF vars, hubVars, clientVars
<1> QED
  BY <1>3, <1>4, <1>5, <1>6, PageFeed, ClientFeed, SendFeed, ReceiveFeed DEF Next

\* Nothing is sent at first.
LEMMA InitFInv == Init => FInv
<1> SUFFICES ASSUME Init PROVE FInv
  OBVIOUS
<1>1. /\ feed = <<>> /\ received = <<>> /\ sessions = {}
      /\ wire = [c \in Connections |-> <<>>]
  BY DEF Init
<1>2. \A S : <<>> \in Seq(S)
  BY EmptySeq
<1>3. OnlyConnectedServed /\ FeedInLine
  BY <1>1, <1>2, EmptyOrdered DEF OnlyConnectedServed, FeedInLine
<1> QED
  BY <1>3, InitIInv DEF FInv

\* Of the established connection and its wire the reachable states satisfy FInv.
THEOREM FeedInvariance == Spec => []FInv
BY InitFInv, StepFInv, PTL DEF Spec

\* Only what arrives changes what was received, and only a send the feed.
LEMMA OtherFeed ==
  ASSUME [Next]_vars,
         \A m \in bounds.messages : ~SendMessage(m), \A c \in Connections : ~Receive(c)
  PROVE  UNCHANGED <<feed, received>>
<1>1. CASE Page
  BY <1>1 DEF Page, OpenPage, Remount, RenderError, Reset, HangUp, hubVars
<1>2. ASSUME NEW c \in Connections, Client(c) \/ Join(c)
      PROVE  UNCHANGED <<feed, received>>
  BY <1>2 DEF Client, Join, StartSucceeds, StartFails, StartAborted, CloseCompletes,
              ConnectionLost, TryReconnect, ReconnectSucceeds, ReconnectFails, HangUp, hubVars
<1>3. CASE Outage \/ HubReturns
  BY <1>3 DEF Outage, HubReturns
<1>4. CASE UNCHANGED vars
  BY <1>4 DEF vars, hubVars
<1> QED
  BY <1>1, <1>2, <1>3, <1>4 DEF Next

\* Each step is, for what reaches the store, a step of LossyFeed or none.
LEMMA StoreStep ==
  FInv /\ FInv' /\ [Next]_vars => [StoreFeed!Next]_(StoreFeed!vars)
<1> SUFFICES ASSUME FInv, FInv', [Next]_vars
             PROVE  [StoreFeed!Next]_(StoreFeed!vars)
  OBVIOUS
<1>1. ASSUME NEW m, SendMessage(m), m \in bounds.messages
      PROVE  StoreFeed!Produce
  <2>1. feed \in Seq(Sent) /\ m \in Sent
    BY <1>1 DEF FInv, IInv, TypeOK, FeedInLine, Sent
  <2>2. Len(feed') = Len(feed) + 1 /\ received' = received
    BY <1>1, <2>1, AppendProperties DEF SendMessage
  <2> QED
    BY <2>2 DEF StoreFeed!Produce
<1>2. ASSUME NEW c \in Connections, Receive(c)
      PROVE  StoreFeed!Receive
  <2>1. PICK method : Arrives(c, method)
    BY <1>2 DEF Receive, ReceivePackets, ReceiveProcessStats, ReceiveHealth, ReceiveAnomaly
  <2>2. /\ wire[c] # <<>> /\ received' = Append(received, Head(wire[c])) /\ feed' = feed
    BY <2>1 DEF Arrives, hubVars
  <2>3. /\ received \in Seq(1..Len(feed)) /\ wire[c] \in Seq(1..Len(feed))
        /\ received' \in Seq(1..Len(feed)) /\ Increasing(received')
    BY <2>2 DEF FInv, FeedInLine
  <2>4. Head(wire[c]) \in 1..Len(feed)
    BY <2>2, <2>3, HeadTailProperties
  <2>5. received = SubSeq(received', 1, Len(received))
    BY <2>2, <2>3, <2>4, PrefixOfAppend
  <2>6. Len(received) < Len(received')
    BY <2>2, <2>3, <2>4, AppendProperties, LenProperties
  <2> QED
    BY <2>2, <2>3, <2>5, <2>6 DEF StoreFeed!Receive, StoreFeed!Increasing, Increasing
<1>3. CASE UNCHANGED <<feed, received>>
  BY <1>3 DEF StoreFeed!vars
<1> QED
  BY <1>1, <1>2, <1>3, OtherFeed DEF StoreFeed!Next

\* What reaches the store neither repeats nor reorders what the API server sends.
THEOREM StoreImplementsLossyFeed == Spec => StoreIsLossyFeed
<1>1. Init => StoreFeed!Init
  BY EmptySeq DEF Init, StoreFeed!Init
<1> QED
  BY <1>1, StoreStep, FeedInvariance, PTL DEF Spec, StoreIsLossyFeed, StoreFeed!Spec

-----------------------------------------------------------------------------
(* The console. *)

ConnectionLines(log) == {i \in DOMAIN log : log[i].about[1] = "connection"}

\* The lines about the connection alternate, and none but what says t is the last.
Tells(log, t) ==
  /\ \E S : log \in Seq(S)
  /\ \A i, j \in ConnectionLines(log) : i < j /\ log[i].about = log[j].about =>
       \E k \in ConnectionLines(log) : i < k /\ k < j /\ log[k].about # log[i].about
  /\ \A i \in ConnectionLines(log) : log[i].about # t =>
       \E k \in ConnectionLines(log) : i < k /\ log[k].about = t

\* A new line on something else, or one that tells another state than the last
\* did, and the loss of the oldest lines keep that.
LEMMA LineAdded ==
  ASSUME NEW log, NEW t, NEW u, NEW line, Tells(log, t),
         line.about[1] = "connection" => line.about = u /\ u # t,
         line.about[1] # "connection" => u = t
  PROVE  Tells(Newest(Append(log, line), MAX_LOGS), u)
<1> DEFINE kept == Newest(Append(log, line), MAX_LOGS)
<1>1. PICK S : log \in Seq(S) /\ line \in S
  <2>1. PICK T : log \in Seq(T)
    BY DEF Tells
  <2>2. log \in Seq(T \cup {line})
    BY <2>1, SeqMonotonic
  <2> QED
    BY <2>2
<1>2. MAX_LOGS \in Nat \ {0}
  BY LimitsAssumption
<1> HIDE DEF kept
<1>a. /\ kept \in Seq(S)
      /\ \E gone \in Nat : IsNewest(kept, log, line, MAX_LOGS, gone)
  BY <1>1, <1>2, KeepLast DEF kept
<1>b. PICK gone \in Nat : IsNewest(kept, log, line, MAX_LOGS, gone)
  BY <1>a
<1>3. /\ gone <= Len(log)
      /\ kept \in Seq(S)
      /\ Len(kept) = Len(log) + 1 - gone
      /\ kept[Len(log) + 1 - gone] = line
      /\ \A i \in 1..(Len(log) - gone) : kept[i] = log[i + gone]
  BY <1>a, <1>b DEF IsNewest
<1> DEFINE n == Len(kept)
<1>4. /\ DOMAIN log = 1..Len(log) /\ Len(log) \in Nat
      /\ DOMAIN kept = 1..n /\ n \in Nat \ {0}
  BY <1>1, <1>3, LenProperties
<1>5. /\ kept[n] = line /\ n + gone = Len(log) + 1 /\ gone \in Nat
      /\ \A i \in 1..(n - 1) : kept[i] = log[i + gone]
  BY <1>3, <1>4
<1> HIDE DEF n
\* Where the lines that are kept stood before.
<1>6. ASSUME NEW i \in ConnectionLines(kept), i # n
      PROVE  /\ i \in 1..(n - 1) /\ i + gone \in ConnectionLines(log)
             /\ kept[i].about = log[i + gone].about
  BY <1>4, <1>5, <1>6 DEF ConnectionLines
<1>7. ASSUME NEW k \in ConnectionLines(log), k > gone
      PROVE  /\ k - gone \in ConnectionLines(kept) /\ k - gone < n
             /\ kept[k - gone].about = log[k].about
  <2>1. k \in 1..Len(log) /\ k - gone \in 1..(n - 1) /\ (k - gone) + gone = k
    BY <1>4, <1>5, <1>7 DEF ConnectionLines
  <2>2. kept[k - gone] = log[k]
    BY <1>5, <2>1
  <2> QED
    BY <1>4, <2>1, <2>2 DEF ConnectionLines
<1>8. ASSUME NEW i \in ConnectionLines(kept), i # n, kept[i].about # t
      PROVE  \E k \in ConnectionLines(kept) : i < k /\ k < n /\ kept[k].about = t
  <2>1. PICK k \in ConnectionLines(log) : i + gone < k /\ log[k].about = t
    BY <1>6, <1>8 DEF Tells
  <2>2. k \in Nat /\ i \in Nat /\ k > gone /\ i < k - gone
    BY <1>4, <1>5, <1>6, <1>8, <2>1 DEF ConnectionLines
  <2> QED
    BY <1>7, <2>1, <2>2
<1>9. n \in ConnectionLines(kept) <=> line.about[1] = "connection"
  BY <1>4, <1>5 DEF ConnectionLines
<1>10. \A i \in ConnectionLines(kept) : i \in 1..n
  BY <1>4 DEF ConnectionLines
<1>11. ASSUME NEW i \in ConnectionLines(kept), NEW j \in ConnectionLines(kept),
              i < j, kept[i].about = kept[j].about
       PROVE  \E k \in ConnectionLines(kept) : i < k /\ k < j /\ kept[k].about # kept[i].about
  <2>0. i # n
    BY <1>4, <1>10, <1>11
  <2>1. CASE j = n
    <3>1. line.about = u /\ u # t /\ kept[i].about = u
      BY <1>5, <1>9, <1>11, <2>1
    <3> QED
      BY <1>8, <2>0, <2>1, <3>1
  <2>2. CASE j # n
    <3>1. PICK k \in ConnectionLines(log) :
            i + gone < k /\ k < j + gone /\ log[k].about # log[i + gone].about
      <4>1. /\ i + gone \in ConnectionLines(log) /\ j + gone \in ConnectionLines(log)
            /\ log[i + gone].about = log[j + gone].about
        BY <1>6, <1>11, <2>0, <2>2
      <4>2. i + gone < j + gone
        BY <1>4, <1>5, <1>10, <1>11
      <4> QED
        BY <4>1, <4>2 DEF Tells
    <3>2. k \in Nat /\ i \in Nat /\ j \in Nat /\ k > gone /\ i < k - gone /\ k - gone < j
      BY <1>4, <1>5, <1>10, <3>1 DEF ConnectionLines
    <3>3. kept[k - gone].about = log[k].about /\ kept[i].about = log[i + gone].about
      BY <1>6, <1>7, <2>0, <3>2
    <3> QED
      BY <1>7, <3>1, <3>2, <3>3
  <2> QED
    BY <2>1, <2>2
<1>12. ASSUME NEW i \in ConnectionLines(kept), kept[i].about # u
       PROVE  \E k \in ConnectionLines(kept) : i < k /\ kept[k].about = u
  <2>1. CASE line.about[1] = "connection"
    <3>1. i # n /\ n \in ConnectionLines(kept) /\ kept[n].about = u
      BY <1>5, <1>9, <1>12, <2>1
    <3>2. i < n
      <4>1. i \in 1..n
        BY <1>10
      <4> QED
        BY <1>4, <3>1, <4>1
    <3> QED
      BY <3>1, <3>2
  <2>2. CASE line.about[1] # "connection"
    <3>1. u = t /\ i # n
      BY <1>9, <2>2
    <3> QED
      BY <1>8, <1>12, <3>1
  <2> QED
    BY <2>1, <2>2
<1> QED
  BY <1>3, <1>11, <1>12 DEF Tells, kept

\* The console agrees with the flag, and is empty while nothing is mounted.
Told ==
  /\ Tells(logs, <<"connection", connected>>)
  /\ page # "warRoom" => logs = <<>>

\* An empty console tells nothing wrong.
LEMMA NothingTold ==
  ASSUME NEW t
  PROVE  Tells(<<>>, t)
<1>1. \A S : <<>> \in Seq(S)
  BY EmptySeq
<1>2. ConnectionLines(<<>>) = {}
  BY DEF ConnectionLines
<1> QED
  BY <1>1, <1>2 DEF Tells

\* addLog is what KeepLast speaks of.
LEMMA LogAdded ==
  ASSUME NEW level, NEW about
  PROVE  \E line : /\ line.about = about
                   /\ addLog(level, about) = Newest(Append(logs, line), MAX_LOGS)
<1> DEFINE line == [level |-> level, about |-> about]
<1>1. line.about = about
  OBVIOUS
<1>2. addLog(level, about) = Newest(Append(logs, line), MAX_LOGS)
  BY DEF addLog, Newest
<1> QED
  BY <1>1, <1>2

\* A line on something else tells nothing of the connection.
LEMMA OtherLine ==
  ASSUME Told, listening, UNCHANGED <<page, connected>>,
         NEW level, NEW about, about[1] # "connection", logs' = addLog(level, about)
  PROVE  Told'
<1> DEFINE t == <<"connection", connected>>
<1>1. PICK line : /\ line.about = about
                  /\ addLog(level, about) = Newest(Append(logs, line), MAX_LOGS)
  BY LogAdded
<1>2. Tells(logs, t)
  BY DEF Told
<1> HIDE DEF t
<1>3. Tells(Newest(Append(logs, line), MAX_LOGS), t)
  BY <1>1, <1>2, LineAdded
<1>4. Tells(logs', t)
  BY <1>1, <1>3
<1> QED
  BY <1>4 DEF Told, listening, t

\* setConnected adds a line exactly when the flag changes.
LEMMA ConnectionTold ==
  ASSUME Told, page' = page, NEW b \in BOOLEAN, setConnected(b)
  PROVE  Told'
<1> DEFINE t == <<"connection", connected>>
           u == <<"connection", b>>
<1>1. connected' = b
  BY Zenon DEF setConnected
<1>2. Tells(logs, t) /\ (page # "warRoom" => logs = <<>>)
  BY DEF Told
<1>3. CASE listening /\ b # connected
  <2>1. logs' = addLog(IF b THEN "INFO" ELSE "ERROR", u)
    BY <1>3, Zenon DEF setConnected, ConnectionListener
  <2>2. PICK line : line.about = u /\ logs' = Newest(Append(logs, line), MAX_LOGS)
    BY <2>1, LogAdded, Zenon
  <2>3. u # t /\ u[1] = "connection"
    BY <1>3
  <2> HIDE DEF t, u
  <2>4. Tells(logs', u)
    BY <1>2, <2>2, <2>3, LineAdded
  <2> QED
    BY <1>1, <1>3, <2>4 DEF Told, listening, u
<1>4. CASE ~(listening /\ b # connected)
  <2>1. logs' = logs
    BY <1>4, Zenon DEF setConnected, ConnectionListener
  <2>2. Tells(logs', u)
    BY <1>2, <1>4, <2>1, NothingTold DEF listening
  <2> QED
    BY <1>1, <1>2, <2>1, <2>2 DEF Told
<1> QED
  BY <1>3, <1>4

\* What leaves the console, the flag and the page alone changes nothing of that.
LEMMA ToldStays ==
  ASSUME Told, UNCHANGED <<logs, connected>>, page' = page \/ page' = "warRoom"
  PROVE  Told'
BY DEF Told

\* Every step keeps Told.
LEMMA StepTold ==
  ASSUME Told, [Next]_vars
  PROVE  Told'
<1>1. CASE OpenPage \/ Reset
  BY <1>1, ToldStays DEF OpenPage, Reset, storeVars, consoleVars
<1>2. CASE Remount
  <2>1. page' = page
    BY <1>2 DEF Remount
  <2>2. setConnected(FALSE) \/ UNCHANGED storeVars
    BY <1>2, Zenon DEF Remount
  <2>3. CASE setConnected(FALSE)
    BY <2>1, <2>3, ConnectionTold
  <2>4. CASE UNCHANGED storeVars
    BY <2>1, <2>4, ToldStays DEF storeVars, consoleVars
  <2> QED
    BY <2>2, <2>3, <2>4
<1>3. CASE RenderError
  <2>1. logs' = <<>>
    BY <1>3, Zenon DEF RenderError, ConsoleUnmounts
  <2> QED
    BY <2>1, NothingTold DEF Told
<1>4. ASSUME NEW c \in Connections, Client(c) \/ Join(c)
      PROVE  Told'
  <2>1. page' = page
    BY <1>4 DEF Client, Join, StartSucceeds, StartFails, StartAborted, CloseCompletes,
                ConnectionLost, TryReconnect, ReconnectSucceeds, ReconnectFails, pageVars
  <2>2. (\E b \in BOOLEAN : setConnected(b)) \/ UNCHANGED storeVars
    BY <1>4, Zenon DEF Client, Join, StartSucceeds, StartFails, StartAborted, CloseCompletes,
                ConnectionLost, TryReconnect, ReconnectSucceeds, ReconnectFails, storeVars
  <2>3. CASE \E b \in BOOLEAN : setConnected(b)
    BY <2>1, <2>3, ConnectionTold
  <2>4. CASE UNCHANGED storeVars
    BY <2>1, <2>4, ToldStays DEF storeVars, consoleVars
  <2> QED
    BY <2>2, <2>3, <2>4
<1>5. ASSUME NEW c \in Connections, Receive(c)
      PROVE  Told'
  <2>1. page' = page /\ connected' = connected
    BY <1>5, ReceiveQuiet DEF pageVars
  <2>2. ASSUME NEW now, PacketListener(now)
        PROVE  Told'
    <3>1. CASE UNCHANGED consoleVars
      BY <2>1, <3>1, ToldStays DEF consoleVars
    <3>2. CASE listening /\ logs' = addLog("INFO", <<"packet", now[1].remoteAddress>>)
      <4>1. <<"packet", now[1].remoteAddress>>[1] # "connection"
        OBVIOUS
      <4> QED
        BY <2>1, <3>2, <4>1, OtherLine
    <3> QED
      BY <2>2, <3>1, <3>2 DEF PacketListener
  <2>3. ASSUME NEW now, AnomalyListener(now)
        PROVE  Told'
    <3>1. CASE logs' = logs
      BY <2>1, <3>1, ToldStays
    <3>2. CASE listening /\ logs' = addLog("WARN", <<"anomaly", now[1].reason>>)
      <4>1. <<"anomaly", now[1].reason>>[1] # "connection"
        OBVIOUS
      <4> QED
        BY <2>1, <3>2, <4>1, OtherLine
    <3> QED
      BY <2>3, <3>1, <3>2 DEF AnomalyListener
  <2>4. \/ \E now : PacketListener(now)
        \/ \E now : AnomalyListener(now)
        \/ UNCHANGED consoleVars
    BY <1>5, Zenon DEF Receive, ReceivePackets, ReceiveProcessStats, ReceiveHealth,
      ReceiveAnomaly, addPackets, upsertProcess, setHealth, addAnomaly
  <2>5. CASE UNCHANGED consoleVars
    BY <2>1, <2>5, ToldStays DEF consoleVars
  <2> QED
    BY <2>2, <2>3, <2>4, <2>5
<1>6. CASE Outage \/ HubReturns \/ (\E m \in bounds.messages : SendMessage(m)) \/ UNCHANGED vars
  <2>1. page' = page /\ UNCHANGED storeVars
    BY <1>6 DEF Outage, HubReturns, SendMessage, vars, pageVars
  <2> QED
    BY <2>1, ToldStays DEF storeVars, consoleVars
<1> QED
  BY <1>1, <1>2, <1>3, <1>4, <1>5, <1>6 DEF Next, Page

\* The console is empty at first.
LEMMA InitTold == Init => Told
BY NothingTold DEF Init, StoreInit, Told

\* What Told says is what the property says.
LEMMA ToldIsShown == Told => ConsoleFollowsConnection
<1> SUFFICES ASSUME Told PROVE ConsoleFollowsConnection
  OBVIOUS
<1> DEFINE t == <<"connection", connected>>
           rows == ConsoleRows
           lines == {i \in DOMAIN rows : rows[i].about[1] = "connection"}
<1>1. CASE logs = <<>>
  <2>1. lines = {}
    <3>1. rows = <<[level |-> "none", about |-> <<"waiting">>]>>
      BY <1>1 DEF ConsoleRows
    <3>2. DOMAIN rows = {1} /\ rows[1].about = <<"waiting">>
      BY <3>1
    <3> QED
      BY <3>2
  <2> QED
    BY <2>1 DEF ConsoleFollowsConnection
<1>2. CASE logs # <<>>
  <2>1. rows = logs /\ lines = ConnectionLines(logs)
    BY <1>2 DEF ConsoleRows, ConnectionLines
  <2>2. Tells(rows, t) /\ lines = ConnectionLines(rows)
    BY <2>1 DEF Told
  <2>3. \A i \in lines : i \in Nat
    <3>1. PICK S : logs \in Seq(S)
      BY <2>1, <2>2 DEF Tells
    <3>2. DOMAIN logs = 1..Len(logs) /\ Len(logs) \in Nat
      BY <3>1, LenProperties
    <3> QED
      BY <2>1, <3>2 DEF ConnectionLines
  <2> HIDE DEF rows, lines, t
  <2>4. \A i, j \in lines : i < j /\ rows[i].about = rows[j].about =>
          \E k \in lines : i < k /\ k < j /\ rows[k].about # rows[i].about
    BY <2>2 DEF Tells
  <2>5. ASSUME NEW i \in lines, \A j \in lines : j <= i
        PROVE  rows[i].about = t
    <3>1. SUFFICES ASSUME rows[i].about # t PROVE FALSE
      OBVIOUS
    <3>2. PICK k \in lines : i < k
      BY <2>2, <3>1 DEF Tells
    <3> QED
      BY <2>3, <2>5, <3>2
  <2> QED
    BY <2>4, <2>5, Zenon DEF ConsoleFollowsConnection, rows, lines, t
<1> QED
  BY <1>1, <1>2

\* The console's lines about the connection alternate, and the last one agrees with
\* the header.
THEOREM ConsoleFollows == Spec => []ConsoleFollowsConnection
BY InitTold, StepTold, ToldIsShown, PTL DEF Spec

-----------------------------------------------------------------------------
(* The store's lists: filtering, and the fields of a message. *)

\* others is the list without the item at h, or the list if h is behind its end.
IsWithout(others, list, h) ==
  /\ Len(others) = IF h <= Len(list) THEN Len(list) - 1 ELSE Len(list)
  /\ \A k \in 1..Len(others) : others[k] = IF k < h THEN list[k] ELSE list[k + 1]

\* Others drops the one row of the process, at h, or nothing.
LEMMA OthersAre ==
  ASSUME NEW T, NEW stats \in Seq(T), NEW name, NEW h \in 1..(Len(stats) + 1),
         \A i \in 1..Len(stats) : stats[i].process = name <=> i = h
  PROVE  Others(stats, name) \in Seq(T) /\ IsWithout(Others(stats, name), stats, h)
<1> DEFINE n == Len(stats)
           size(i) == IF i < h THEN i ELSE i - 1
           Item(k) == IF k < h THEN stats[k] ELSE stats[k + 1]
           Part(i) == [k \in 1..size(i) |-> Item(k)]
           g == [i \in 0..n |-> Part(i)]
           Is(f) == f = [i \in 0..n |->
                      IF i = 0 THEN <<>>
                      ELSE IF stats[i].process = name THEN f[i - 1]
                      ELSE Append(f[i - 1], stats[i])]
           others == CHOOSE f : Is(f)
<1>1. n \in Nat /\ h \in Nat /\ 1 <= h /\ \A i \in 1..n : stats[i] \in T
  BY LenProperties, ElementOfSeq
<1>2. ASSUME NEW i \in 0..n
      PROVE  /\ size(i) \in Nat
             /\ Part(i) \in Seq(T) /\ Len(Part(i)) = size(i)
             /\ \A k \in 1..size(i) : Part(i)[k] = Item(k)
  <2>1. size(i) \in Nat
    BY <1>1
  <2>2. \A k \in 1..size(i) : Item(k) \in T
    BY <1>1
  <2> HIDE DEF size, Item
  <2> QED
    BY <2>1, <2>2, IsASeq, LenProperties
<1>3. Part(0) = <<>>
  <2>1. size(0) = 0 /\ 0 \in 0..n
    BY <1>1
  <2>2. Part(0) \in Seq(T) /\ Len(Part(0)) = 0
    BY <1>2, <2>1
  <2> QED
    BY <2>2, EmptySeq
<1>4. ASSUME NEW i \in 1..n, i = h
      PROVE  Part(i - 1) = Part(i)
  <2>1. size(i - 1) = size(i)
    BY <1>1, <1>4
  <2> QED
    BY <2>1
<1>5. ASSUME NEW i \in 1..n, i # h
      PROVE  Append(Part(i - 1), stats[i]) = Part(i)
  <2>1. i - 1 \in 0..n /\ i \in 0..n /\ stats[i] \in T
    BY <1>1
  <2>2. size(i) = size(i - 1) + 1 /\ Item(size(i)) = stats[i]
    BY <1>1, <1>5
  <2> DEFINE s == Part(i - 1)
             u == Part(i)
             a == Append(s, stats[i])
  <2>3. /\ s \in Seq(T) /\ Len(s) = size(i - 1) /\ size(i - 1) \in Nat
        /\ \A k \in 1..size(i - 1) : s[k] = Item(k)
    BY <1>2, <2>1
  <2>4. /\ u \in Seq(T) /\ Len(u) = size(i)
        /\ \A k \in 1..size(i) : u[k] = Item(k)
    BY <1>2, <2>1
  <2> HIDE DEF s, u, size, Item
  <2>5. /\ a \in Seq(T) /\ Len(a) = size(i)
        /\ \A k \in 1..Len(s) : a[k] = s[k]
        /\ a[Len(s) + 1] = stats[i]
    BY <2>1, <2>2, <2>3, AppendProperties
  <2>6. ASSUME NEW k \in 1..size(i) PROVE a[k] = u[k]
    <3>1. k \in 1..size(i - 1) \/ k = size(i)
      BY <2>2, <2>3
    <3> QED
      BY <2>2, <2>3, <2>4, <2>5, <3>1
  <2> HIDE DEF a
  <2>7. a = u
    BY <2>4, <2>5, <2>6, SeqEqual
  <2> QED
    BY <2>7 DEF a, s, u
<1>6. Is(g)
  <2>1. ASSUME NEW i \in 0..n
        PROVE  Part(i) = IF i = 0 THEN <<>>
                         ELSE IF stats[i].process = name THEN g[i - 1]
                         ELSE Append(g[i - 1], stats[i])
    <3>1. CASE i = 0
      BY <1>3, <3>1
    <3>2. CASE i # 0
      <4>1. i \in 1..n /\ g[i - 1] = Part(i - 1)
        BY <1>1, <3>2
      <4> HIDE DEF Part, g
      <4> QED
        BY <1>4, <1>5, <3>2, <4>1
    <3> QED
      BY <3>1, <3>2
  <2> HIDE DEF Part
  <2> QED
    BY <2>1
<1>7. Is(others)
  <2> HIDE DEF Is, g
  <2> QED
    BY <1>6
<1>8. others[n] = Part(n)
  <2> HIDE DEF others
  <2> DEFINE S == {i \in 0..n : others[i] # Part(i)}
  <2>1. n \in 0..n
    BY <1>1
  <2>2. SUFFICES ASSUME S # {} PROVE FALSE
    <3> HIDE DEF Part
    <3> QED
      BY <2>1
  <2>3. PICK m \in S : \A i \in S : m <= i
    <3>1. S \subseteq Nat
      BY <1>1
    <3> HIDE DEF S
    <3> QED
      BY <2>2, <3>1, NatMin
  <2>4. others[m] = IF m = 0 THEN <<>>
                    ELSE IF stats[m].process = name THEN others[m - 1]
                    ELSE Append(others[m - 1], stats[m])
    BY <1>7
  <2> HIDE DEF Part, Is
  <2>5. m # 0
    BY <1>3, <2>3, <2>4
  <2>6. m \in 1..n /\ others[m - 1] = Part(m - 1)
    <3>1. m \in 1..n /\ m - 1 \in 0..n /\ ~(m <= m - 1)
      BY <1>1, <2>5
    <3> QED
      BY <2>3, <3>1
  <2> QED
    BY <1>4, <1>5, <2>3, <2>4, <2>5, <2>6
<1>9. Others(stats, name) = others[n]
  BY DEF Others
<1>10. n \in 0..n /\ size(n) = IF h <= n THEN n - 1 ELSE n
  BY <1>1
<1> HIDE DEF others, size, Item, Part, g, Is
<1>11. /\ Others(stats, name) \in Seq(T)
       /\ Len(Others(stats, name)) = size(n)
       /\ \A k \in 1..size(n) : Others(stats, name)[k] = Item(k)
  BY <1>2, <1>8, <1>9, <1>10
<1> QED
  BY <1>10, <1>11 DEF IsWithout, Item

\* The rows of a message are what camelize makes of it.
LEMMA CamelizedStats ==
  ASSUME NEW raw, DOMAIN raw = Fields["ReceiveProcessStats"]
  PROVE  camelize(raw) = StatsRow(raw)
<1> DEFINE From(f) == CHOOSE k \in DOMAIN raw : camelizeKey[k] = f
           names == {camelizeKey[k] : k \in DOMAIN raw}
<1>1. DOMAIN raw = {"Process", "BytesPerSecond", "Timestamp"}
  BY DEF Fields
<1>2. /\ camelizeKey["Process"] = "process" /\ camelizeKey["Timestamp"] = "timestamp"
      /\ camelizeKey["BytesPerSecond"] = "bytesPerSecond"
  BY DEF camelizeKey
<1>3. names = {"process", "bytesPerSecond", "timestamp"}
  BY <1>1, <1>2
<1>4. From("process") = "Process" /\ From("bytesPerSecond") = "BytesPerSecond"
      /\ From("timestamp") = "Timestamp"
  BY <1>1, <1>2
<1> HIDE DEF From, names
<1>5. [f \in names |-> raw[From(f)]] = StatsRow(raw)
  BY <1>3, <1>4 DEF StatsRow
<1> QED
  BY <1>5 DEF camelize, From, names

\* An alert's row.
LEMMA CamelizedAnomaly ==
  ASSUME NEW raw, DOMAIN raw = Fields["ReceiveAnomaly"]
  PROVE  camelize(raw) = AnomalyRow(raw)
<1> DEFINE From(f) == CHOOSE k \in DOMAIN raw : camelizeKey[k] = f
           names == {camelizeKey[k] : k \in DOMAIN raw}
<1>1. DOMAIN raw = {"RemoteAddress", "Reason", "Severity", "Timestamp"}
  BY DEF Fields
<1>2. /\ camelizeKey["RemoteAddress"] = "remoteAddress" /\ camelizeKey["Timestamp"] = "timestamp"
      /\ camelizeKey["Reason"] = "reason" /\ camelizeKey["Severity"] = "severity"
  BY DEF camelizeKey
<1>3. names = {"remoteAddress", "reason", "severity", "timestamp"}
  BY <1>1, <1>2
<1>4. /\ From("remoteAddress") = "RemoteAddress" /\ From("reason") = "Reason"
      /\ From("severity") = "Severity" /\ From("timestamp") = "Timestamp"
  BY <1>1, <1>2
<1> HIDE DEF From, names
<1>5. [f \in names |-> raw[From(f)]] = AnomalyRow(raw)
  BY <1>3, <1>4 DEF AnomalyRow
<1> QED
  BY <1>5 DEF camelize, From, names

\* A packet's row.
LEMMA CamelizedPacket ==
  ASSUME NEW raw, DOMAIN raw = Fields["ReceivePackets"]
  PROVE  camelize(raw) = PacketRow(raw)
<1> DEFINE From(f) == CHOOSE k \in DOMAIN raw : camelizeKey[k] = f
           names == {camelizeKey[k] : k \in DOMAIN raw}
<1>1. DOMAIN raw = {"RemoteAddress", "Protocol", "Timestamp"}
  BY DEF Fields
<1>2. /\ camelizeKey["RemoteAddress"] = "remoteAddress" /\ camelizeKey["Timestamp"] = "timestamp"
      /\ camelizeKey["Protocol"] = "protocol"
  BY DEF camelizeKey
<1>3. names = {"remoteAddress", "protocol", "timestamp"}
  BY <1>1, <1>2
<1>4. /\ From("remoteAddress") = "RemoteAddress" /\ From("protocol") = "Protocol"
      /\ From("timestamp") = "Timestamp"
  BY <1>1, <1>2
<1> HIDE DEF From, names
<1>5. [f \in names |-> raw[From(f)]] = PacketRow(raw)
  BY <1>3, <1>4 DEF PacketRow
<1> QED
  BY <1>5 DEF camelize, From, names

\* Where the messages of a method arrived.
LEMMA ArrivalPlaces ==
  ASSUME FeedInLine
  PROVE  /\ Len(received) \in Nat
         /\ \A method : Arrivals(method) \in SUBSET (1..Len(received))
         /\ \A i \in 1..Len(received) : received[i] \in 1..Len(feed) /\ feed[received[i]] \in Sent
<1>1. /\ Len(received) \in Nat /\ DOMAIN received = 1..Len(received)
      /\ \A i \in 1..Len(received) : received[i] \in 1..Len(feed)
  BY LenProperties, ElementOfSeq DEF FeedInLine
<1>2. \A k \in 1..Len(feed) : feed[k] \in Sent
  BY ElementOfSeq DEF FeedInLine
<1> QED
  BY <1>1, <1>2 DEF Arrivals

\* While nothing arrives the arrivals are what they were, whatever is sent.
LEMMA ArrivalsKept ==
  ASSUME FeedInLine, received' = received, \A k \in 1..Len(feed) : feed'[k] = feed[k]
  PROVE  /\ \A method : Arrivals(method)' = Arrivals(method)
         /\ \A i \in 1..Len(received) : Content(i)' = Content(i)
<1>1. DOMAIN received = 1..Len(received)
  BY LenProperties DEF FeedInLine
<1>2. \A i \in 1..Len(received) : feed'[received'[i]] = feed[received[i]]
  BY ArrivalPlaces
<1>3. ASSUME NEW method PROVE Arrivals(method)' = Arrivals(method)
  BY <1>1, <1>2 DEF Arrivals
<1> QED
  BY <1>2, <1>3 DEF Content

\* What arrives for one method is the last of its arrivals, and nothing else changes.
LEMMA ArrivalsGrow ==
  ASSUME FeedInLine, NEW c \in Connections, NEW method, Arrives(c, method),
         NEW L, L = Len(received)
  PROVE  /\ Arrivals(method)' = Arrivals(method) \cup {L + 1}
         /\ \A other : other # method => Arrivals(other)' = Arrivals(other)
         /\ \A i \in 1..L : Content(i)' = Content(i)
         /\ Content(L + 1)' = Raw(c)
         /\ feed[Head(wire[c])] \in Sent /\ feed[Head(wire[c])].method = method
<1> DEFINE n == Head(wire[c])
<1>1. /\ received' = Append(received, n) /\ feed' = feed /\ wire[c] # <<>>
      /\ feed[n].method = method
  BY DEF Arrives, hubVars
<1>2. received \in Seq(1..Len(feed)) /\ wire[c] \in Seq(1..Len(feed))
  BY DEF FeedInLine
<1>3. n \in 1..Len(feed)
  BY <1>1, <1>2, HeadTailProperties
<1>4. feed[n] \in Sent
  BY <1>3, ElementOfSeq DEF FeedInLine
<1> HIDE DEF n
<1>5. /\ L \in Nat /\ DOMAIN received = 1..L /\ DOMAIN received' = 1..(L + 1)
      /\ \A i \in 1..L : received'[i] = received[i]
      /\ received'[L + 1] = n
  BY <1>1, <1>2, <1>3, AppendProperties, LenProperties
<1>6. DOMAIN received' = DOMAIN received \cup {L + 1} /\ L + 1 \notin DOMAIN received
  BY <1>5
<1>7. Arrivals(method)' = Arrivals(method) \cup {L + 1}
  BY <1>1, <1>5, <1>6 DEF Arrivals
<1>8. ASSUME NEW other, other # method PROVE Arrivals(other)' = Arrivals(other)
  BY <1>1, <1>5, <1>6, <1>8 DEF Arrivals
<1>9. /\ \A i \in 1..L : Content(i)' = Content(i)
      /\ Content(L + 1)' = Raw(c)
  <2>1. Raw(c) = feed[n].raw
    BY DEF Raw, n
  <2>2. \A i \in 1..L : feed'[received'[i]].raw = feed[received[i]].raw
    BY <1>1, <1>5
  <2>3. feed'[received'[L + 1]].raw = feed[n].raw
    BY <1>1, <1>5
  <2> QED
    BY <2>1, <2>2, <2>3 DEF Content
<1> QED
  BY <1>1, <1>4, <1>7, <1>8, <1>9 DEF n

\* What is sent has its type's fields.
LEMMA SentFields ==
  ASSUME NEW m \in Sent
  PROVE  IF m.method = "ReceivePackets"
           THEN /\ Len(m.raw) \in Nat /\ DOMAIN m.raw = 1..Len(m.raw)
                /\ \A i \in DOMAIN m.raw : DOMAIN m.raw[i] = Fields["ReceivePackets"]
           ELSE DOMAIN m.raw = Fields[m.method]
BY MessagesAssumption DEF Sent

\* A list depends on the rows of its members only.
LEMMA ListsSame ==
  ASSUME NEW list, NEW S, NEW row, NEW rowNow, NEW max,
         Lists(list, S, row, max), \A i \in S : rowNow[i] = row[i]
  PROVE  Lists(list, S, rowNow, max)
BY DEF Lists

IsSequence(list) == \E T : list \in Seq(T)

AnomalyRows == [i \in Arrivals("ReceiveAnomaly") |-> AnomalyRow(Content(i))]
StatsRows == [i \in LatestStats |-> StatsRow(Content(i))]

\* The list of anomalies while none arrives.
LEMMA AnomaliesKept ==
  ASSUME FeedInLine, AnomaliesMatch, anomalies' = anomalies,
         Arrivals("ReceiveAnomaly")' = Arrivals("ReceiveAnomaly"),
         \A i \in 1..Len(received) : Content(i)' = Content(i)
  PROVE  AnomaliesMatch'
<1> DEFINE S == Arrivals("ReceiveAnomaly")
<1>1. Lists(anomalies, S, AnomalyRows, MAX_ANOMALIES)
  BY DEF AnomaliesMatch, AnomalyRows
<1>2. \A i \in S : AnomalyRows'[i] = AnomalyRows[i]
  BY ArrivalPlaces DEF AnomalyRows
<1> HIDE DEF S
<1>3. Lists(anomalies, S, AnomalyRows', MAX_ANOMALIES)
  BY <1>1, <1>2, ListsSame
<1> QED
  BY <1>3 DEF AnomaliesMatch, AnomalyRows, S

\* An anomaly becomes the first of the list.
LEMMA AnomalyStep ==
  ASSUME FeedInLine, AnomaliesMatch, IsSequence(anomalies),
         NEW c \in Connections, ReceiveAnomaly(c)
  PROVE  AnomaliesMatch' /\ IsSequence(anomalies')
<1>0. PICK L : L = Len(received)
  OBVIOUS
<1> DEFINE S == Arrivals("ReceiveAnomaly")
           x == AnomalyRow(Raw(c))
<1>1. Arrives(c, "ReceiveAnomaly") /\ addAnomaly(camelize(Raw(c)))
  BY DEF ReceiveAnomaly
<1>2. /\ S' = S \cup {L + 1}
      /\ \A i \in 1..L : Content(i)' = Content(i)
      /\ Content(L + 1)' = Raw(c)
      /\ feed[Head(wire[c])] \in Sent /\ feed[Head(wire[c])].method = "ReceiveAnomaly"
  BY <1>0, <1>1, ArrivalsGrow
<1>3. L \in Nat /\ S \in SUBSET (1..L)
  BY <1>0, ArrivalPlaces
<1>4. camelize(Raw(c)) = x
  <2>1. DOMAIN Raw(c) = Fields["ReceiveAnomaly"]
    BY <1>2, SentFields DEF Raw
  <2> QED
    BY <2>1, CamelizedAnomaly
<1>5. anomalies' = Leading(<<x>> \o anomalies, MAX_ANOMALIES)
  BY <1>1, <1>4, Zenon DEF addAnomaly, Slice, Leading
<1>6. PICK T : anomalies \in Seq(T) /\ x \in T
  <2>1. PICK U : anomalies \in Seq(U)
    BY DEF IsSequence
  <2>2. anomalies \in Seq(U \cup {x})
    BY <2>1, SeqMonotonic
  <2> QED
    BY <2>2
<1>7. Lists(anomalies, S, AnomalyRows, MAX_ANOMALIES)
  BY DEF AnomaliesMatch, AnomalyRows
<1>8. AnomalyRows'[L + 1] = x /\ \A i \in S : AnomalyRows'[i] = AnomalyRows[i]
  <2>1. DOMAIN AnomalyRows' = S \cup {L + 1}
    BY <1>2 DEF AnomalyRows
  <2>2. \A i \in S \cup {L + 1} : AnomalyRows'[i] = AnomalyRow(Content(i)')
    BY <1>2 DEF AnomalyRows, AnomalyRow
  <2>3. \A i \in S : AnomalyRows[i] = AnomalyRow(Content(i))
    BY DEF AnomalyRows
  <2> HIDE DEF S
  <2> QED
    BY <1>2, <1>3, <2>2, <2>3
<1> HIDE DEF S, x
<1>9. MAX_ANOMALIES \in Nat \ {0}
  BY LimitsAssumption
<1>10. Lists(anomalies', S \cup {L + 1}, AnomalyRows', MAX_ANOMALIES)
  BY <1>3, <1>5, <1>6, <1>7, <1>8, <1>9, ListsAdded
<1>11. AnomaliesMatch'
  <2>1. Lists(anomalies', S', AnomalyRows', MAX_ANOMALIES)
    BY <1>2, <1>10
  <2> QED
    BY <2>1 DEF AnomaliesMatch, AnomalyRows, S
<1>12. anomalies' \in Seq(T)
  <2>1. <<x>> \in Seq(T)
    BY <1>6
  <2> QED
    BY <1>5, <1>6, <1>9, <2>1, PrependCut
<1> QED
  BY <1>11, <1>12 DEF IsSequence

-----------------------------------------------------------------------------
(* The list of processes. *)

\* The list of processes while no update arrives.
LEMMA ProcessesKept ==
  ASSUME FeedInLine, ProcessesMatch, processStats' = processStats,
         Arrivals("ReceiveProcessStats")' = Arrivals("ReceiveProcessStats"),
         \A i \in 1..Len(received) : Content(i)' = Content(i)
  PROVE  ProcessesMatch'
<1>1. LatestStats' = LatestStats
  BY ArrivalPlaces DEF LatestStats
<1>2. Lists(processStats, LatestStats, StatsRows, MAX_PROCESSES)
  BY DEF ProcessesMatch, StatsRows
<1>3. \A i \in LatestStats : i \in 1..Len(received)
  BY ArrivalPlaces DEF LatestStats
<1>4. \A i \in LatestStats : StatsRows'[i] = StatsRows[i]
  BY <1>1, <1>3 DEF StatsRows, StatsRow
<1>5. Lists(processStats, LatestStats, StatsRows', MAX_PROCESSES)
  BY <1>2, <1>4, ListsSame
<1> QED
  BY <1>1, <1>5 DEF ProcessesMatch, StatsRows

\* An update takes the place of the last one of its process among the latest.
LEMMA LatestStep ==
  ASSUME NEW L \in Nat, NEW name,
         Arrivals("ReceiveProcessStats") \in SUBSET (1..L),
         Arrivals("ReceiveProcessStats")' = Arrivals("ReceiveProcessStats") \cup {L + 1},
         \A i \in 1..L : Content(i)' = Content(i),
         Content(L + 1)'.Process = name
  PROVE  LatestStats' = {i \in LatestStats : Content(i).Process # name} \cup {L + 1}
<1> DEFINE A == Arrivals("ReceiveProcessStats")
           last == {i \in LatestStats : Content(i).Process # name}
<1>1. \A i \in A : i \in 1..L /\ i \in Nat /\ i <= L /\ ~(L + 1 <= i) /\ i <= L + 1 /\ i # L + 1
  OBVIOUS
<1>2. \A i \in A : Content(i)'.Process = Content(i).Process
  BY <1>1
<1> DEFINE now(i) == \A j \in A \cup {L + 1} : Content(j)'.Process = Content(i)'.Process => j <= i
           before(i) == \A j \in A : Content(j).Process = Content(i).Process => j <= i
<1>3. ASSUME NEW i \in A
      PROVE  now(i) <=> before(i) /\ Content(i).Process # name
  <2>1. Content(i)'.Process = Content(i).Process /\ ~(L + 1 <= i)
    BY <1>1, <1>2
  <2>2. now(i) <=> /\ \A j \in A : Content(j)'.Process = Content(i)'.Process => j <= i
                   /\ Content(L + 1)'.Process = Content(i)'.Process => L + 1 <= i
    OBVIOUS
  <2> QED
    BY <1>2, <2>1, <2>2
<1>4. now(L + 1)
  BY <1>1
<1>5. LatestStats' = {i \in A \cup {L + 1} : now(i)}
  BY DEF LatestStats
<1>6. LatestStats = {i \in A : before(i)}
  BY DEF LatestStats
<1> HIDE DEF now, before, A
<1> QED
  BY <1>3, <1>4, <1>5, <1>6

\* The one row of a process, if it has one, is at the rank of its last update.
LEMMA RowOfProcess ==
  ASSUME NEW L \in Nat, LatestStats \in SUBSET (1..L), NEW T, processStats \in Seq(T),
         ProcessesMatch, NEW name
  PROVE  \/ \E h \in LatestStats :
              /\ LatestStats \ {h} = {i \in LatestStats : Content(i).Process # name}
              /\ \A k \in 1..Len(processStats) :
                   processStats[k].process = name <=> k = Rank(LatestStats, h)
         \/ /\ LatestStats = {i \in LatestStats : Content(i).Process # name}
            /\ \A k \in 1..Len(processStats) : processStats[k].process # name
<1> DEFINE S == LatestStats
           C == Cardinality(S)
<1>1. C \in Nat /\ \A i \in S : i \in Nat /\ Rank(S, i) \in 1..C
  BY PlacesFinite, RankBounds
<1>2. ASSUME NEW i \in S, NEW j \in S, Content(i).Process = Content(j).Process
      PROVE  i = j
  <2>1. i <= j /\ j <= i
    BY <1>2 DEF LatestStats
  <2> QED
    BY <1>1, <2>1
<1>3. ASSUME NEW i \in S, NEW j \in S, Rank(S, i) = Rank(S, j)
      PROVE  i = j
  <2>1. ~(Rank(S, i) < Rank(S, j)) /\ ~(Rank(S, j) < Rank(S, i))
    <3>1. Rank(S, i) \in 1..C /\ Rank(S, j) \in 1..C
      BY <1>1
    <3> QED
      BY <1>1, <1>3, <3>1
  <2>2. ~(i < j) /\ ~(j < i)
    BY <2>1, RankOrder
  <2> QED
    BY <1>1, <2>2
<1>4. /\ MAX_PROCESSES \in Nat
      /\ Len(processStats) = AtMost(C, MAX_PROCESSES)
      /\ \A i \in S : Rank(S, i) <= MAX_PROCESSES =>
           processStats[Rank(S, i)].process = Content(i).Process
  <2>1. MAX_PROCESSES \in Nat
    BY LimitsAssumption
  <2>2. Lists(processStats, S, StatsRows, MAX_PROCESSES)
    BY DEF ProcessesMatch, StatsRows
  <2>3. \A i \in S : StatsRows[i].process = Content(i).Process
    BY DEF StatsRows, StatsRow
  <2> HIDE DEF S
  <2> QED
    BY <2>1, <2>2, <2>3 DEF Lists
<1> HIDE DEF C
<1>5. ASSUME NEW k \in 1..Len(processStats)
      PROVE  \E i \in S : Rank(S, i) = k /\ processStats[k].process = Content(i).Process
  <2>1. k \in 1..C /\ k <= MAX_PROCESSES
    BY <1>1, <1>4 DEF AtMost
  <2>2. PICK i \in S : Rank(S, i) = k
    BY <2>1, RankOnto DEF C
  <2> QED
    BY <1>4, <2>1, <2>2
<1> HIDE DEF S
<1>6. CASE \E h \in S : Content(h).Process = name
  <2>1. PICK h \in S : Content(h).Process = name
    BY <1>6
  <2>2. S \ {h} = {i \in S : Content(i).Process # name}
    BY <1>2, <2>1
  <2>3. ASSUME NEW k \in 1..Len(processStats)
        PROVE  processStats[k].process = name <=> k = Rank(S, h)
    <3>1. PICK i \in S : Rank(S, i) = k /\ processStats[k].process = Content(i).Process
      BY <1>5
    <3> QED
      BY <1>2, <1>3, <2>1, <3>1
  <2> QED
    BY <2>2, <2>3 DEF S
<1>7. CASE ~(\E h \in S : Content(h).Process = name)
  <2>1. S = {i \in S : Content(i).Process # name}
    BY <1>7
  <2>2. \A k \in 1..Len(processStats) : processStats[k].process # name
    BY <1>5, <1>7
  <2> QED
    BY <2>1, <2>2 DEF S
<1> QED
  BY <1>6, <1>7

\* The rows of the other processes, in their order.
LEMMA OtherRows ==
  ASSUME NEW L \in Nat, LatestStats \in SUBSET (1..L), NEW T, processStats \in Seq(T),
         ProcessesMatch, NEW name
  PROVE  /\ Others(processStats, name) \in Seq(T)
         /\ LET rest == {i \in LatestStats : Content(i).Process # name} IN
            \/ Lists(Others(processStats, name), rest, StatsRows, MAX_PROCESSES)
            \/ Lists(Others(processStats, name), rest, StatsRows, MAX_PROCESSES - 1)
<1> DEFINE S == LatestStats
           rest == {i \in S : Content(i).Process # name}
           others == Others(processStats, name)
           n == Len(processStats)
<1>1. /\ MAX_PROCESSES \in Nat \ {0} /\ n \in Nat
      /\ Lists(processStats, S, StatsRows, MAX_PROCESSES)
  BY LimitsAssumption, LenProperties DEF ProcessesMatch, StatsRows
<1>2. ASSUME \A k \in 1..n : processStats[k].process # name
      PROVE  others = processStats
  <2>1. n + 1 \in 1..(n + 1) /\ \A k \in 1..n : processStats[k].process = name <=> k = n + 1
    BY <1>1, <1>2
  <2>2. others \in Seq(T) /\ IsWithout(others, processStats, n + 1)
    BY <2>1, OthersAre
  <2>3. ~(n + 1 <= n) /\ \A k \in 1..n : k < n + 1
    BY <1>1
  <2>4. Len(others) = n /\ \A k \in 1..n : others[k] = processStats[k]
    BY <2>2, <2>3 DEF IsWithout
  <2> QED
    BY <2>2, <2>4, SeqEqual
<1> HIDE DEF S, rest, n, others
<1>3. CASE rest = S /\ \A k \in 1..n : processStats[k].process # name
  BY <1>1, <1>2, <1>3 DEF others, rest, S
<1>4. ASSUME NEW h \in S, rest = S \ {h},
             \A k \in 1..n : processStats[k].process = name <=> k = Rank(S, h)
      PROVE  /\ others \in Seq(T)
             /\ \/ Lists(others, rest, StatsRows, MAX_PROCESSES)
                \/ Lists(others, rest, StatsRows, MAX_PROCESSES - 1)
  <2> DEFINE r == Rank(S, h)
             C == Cardinality(S)
  <2>1. r \in 1..C /\ C \in Nat /\ n = AtMost(C, MAX_PROCESSES)
    BY <1>1, RankBounds DEF Lists, S, n
  <2>2. r <= MAX_PROCESSES <=> r \in 1..n
    BY <1>1, <2>1 DEF AtMost
  <2> HIDE DEF r
  <2>3. CASE r \in 1..n
    <3>1. r \in 1..(n + 1)
      BY <1>1, <2>3
    <3>2. others \in Seq(T) /\ IsWithout(others, processStats, r)
      BY <1>4, <3>1, OthersAre DEF others, n, r
    <3>3. r <= n
      BY <1>1, <2>3
    <3>4. /\ Len(others) = n - 1
          /\ \A k \in 1..Len(others) :
               others[k] = IF k < r THEN processStats[k] ELSE processStats[k + 1]
      BY <3>2, <3>3 DEF IsWithout, n
    <3>5. ~(r > MAX_PROCESSES)
      BY <1>1, <2>2, <2>3
    <3> QED
      BY <1>1, <1>4, <3>2, <3>4, <3>5, ListsRemoved DEF S, n, r
  <2>4. CASE ~(r \in 1..n)
    <3>1. others = processStats
      BY <1>2, <1>4, <2>4 DEF r
    <3>2. ~(r <= MAX_PROCESSES)
      BY <2>2, <2>4
    <3> QED
      BY <1>1, <1>4, <3>1, <3>2, ListsRemoved DEF S, n, r
  <2> QED
    BY <2>3, <2>4
<1>5. \/ \E h \in S : /\ S \ {h} = rest
                      /\ \A k \in 1..n : processStats[k].process = name <=> k = Rank(S, h)
      \/ S = rest /\ \A k \in 1..n : processStats[k].process # name
  BY RowOfProcess DEF S, rest, n
<1>6. /\ others \in Seq(T)
      /\ \/ Lists(others, rest, StatsRows, MAX_PROCESSES)
         \/ Lists(others, rest, StatsRows, MAX_PROCESSES - 1)
  BY <1>1, <1>2, <1>4, <1>5
<1> QED
  BY <1>6 DEF others, rest, S

\* An update becomes the first of the list, and the one before of its process goes.
LEMMA ProcessStep ==
  ASSUME FeedInLine, ProcessesMatch, IsSequence(processStats),
         NEW c \in Connections, ReceiveProcessStats(c)
  PROVE  ProcessesMatch' /\ IsSequence(processStats')
<1>0. PICK L : L = Len(received)
  OBVIOUS
<1> DEFINE x == StatsRow(Raw(c))
           name == Raw(c).Process
           rest == {i \in LatestStats : Content(i).Process # name}
           others == Others(processStats, name)
<1>1. Arrives(c, "ReceiveProcessStats") /\ upsertProcess(camelize(Raw(c)))
  BY DEF ReceiveProcessStats
<1>2. /\ Arrivals("ReceiveProcessStats")' = Arrivals("ReceiveProcessStats") \cup {L + 1}
      /\ \A i \in 1..L : Content(i)' = Content(i)
      /\ Content(L + 1)' = Raw(c)
      /\ feed[Head(wire[c])] \in Sent /\ feed[Head(wire[c])].method = "ReceiveProcessStats"
  BY <1>0, <1>1, ArrivalsGrow
<1>3. /\ L \in Nat /\ Arrivals("ReceiveProcessStats") \in SUBSET (1..L)
      /\ LatestStats \in SUBSET (1..L) /\ rest \in SUBSET (1..L)
  BY <1>0, ArrivalPlaces DEF LatestStats
<1>4. camelize(Raw(c)) = x /\ x.process = name
  <2>1. DOMAIN Raw(c) = Fields["ReceiveProcessStats"]
    BY <1>2, SentFields DEF Raw
  <2>2. camelize(Raw(c)) = x
    BY <2>1, CamelizedStats
  <2> QED
    BY <2>2 DEF StatsRow
<1>5. processStats' = Leading(<<x>> \o others, MAX_PROCESSES)
  BY <1>1, <1>4, Zenon DEF upsertProcess, Slice, Leading
<1>6. PICK T : processStats \in Seq(T) /\ x \in T
  <2>1. PICK U : processStats \in Seq(U)
    BY DEF IsSequence
  <2>2. processStats \in Seq(U \cup {x})
    BY <2>1, SeqMonotonic
  <2> QED
    BY <2>2
<1>7. /\ others \in Seq(T)
      /\ \/ Lists(others, rest, StatsRows, MAX_PROCESSES)
         \/ Lists(others, rest, StatsRows, MAX_PROCESSES - 1)
  BY <1>3, <1>6, OtherRows
<1>8. LatestStats' = rest \cup {L + 1}
  <2>1. Content(L + 1)'.Process = name
    BY <1>2
  <2> HIDE DEF name
  <2> QED
    BY <1>2, <1>3, <2>1, LatestStep
<1>9. StatsRows'[L + 1] = x /\ \A i \in rest : StatsRows'[i] = StatsRows[i]
  <2>1. \A i \in rest \cup {L + 1} : StatsRows'[i] = StatsRow(Content(i)')
    BY <1>8 DEF StatsRows, StatsRow
  <2>2. \A i \in rest : StatsRows[i] = StatsRow(Content(i))
    BY DEF StatsRows
  <2> HIDE DEF rest
  <2> QED
    BY <1>2, <1>3, <2>1, <2>2
<1> HIDE DEF x, name, rest, others
<1>10. MAX_PROCESSES \in Nat \ {0}
  BY LimitsAssumption
<1>11. Lists(processStats', rest \cup {L + 1}, StatsRows', MAX_PROCESSES)
  BY <1>3, <1>5, <1>6, <1>7, <1>9, <1>10, ListsAdded
<1>12. ProcessesMatch'
  BY <1>8, <1>11 DEF ProcessesMatch, StatsRows
<1>13. processStats' \in Seq(T)
  <2>1. <<x>> \in Seq(T)
    BY <1>6
  <2> QED
    BY <1>5, <1>7, <1>10, <2>1, PrependCut
<1> QED
  BY <1>12, <1>13 DEF IsSequence

-----------------------------------------------------------------------------
(* The list of packets. *)

\* The place of q in a list with the greatest first components first and among
\* those of one first component the least second components.
PairRank(P, q) == Cardinality({p \in P : p[1] > q[1] \/ (p[1] = q[1] /\ p[2] <= q[2])})

\* Q is P and b more pairs, which come first and move every other b places on.
GrowsBy(P, Q, n, b) ==
  /\ IsFiniteSet(Q) /\ Cardinality(P) \in Nat
  /\ Cardinality(Q) = Cardinality(P) + b
  /\ \A q \in P : /\ PairRank(P, q) \in 1..Cardinality(P)
                  /\ PairRank(Q, q) = PairRank(P, q) + b
  /\ \A j \in 1..b : PairRank(Q, <<n + 1, j>>) = j

\* One more batch moves every packet that came before it by its length.
LEMMA PairsAdded ==
  ASSUME NEW n \in Nat, NEW b \in Nat, NEW P, IsFiniteSet(P),
         \A q \in P : q[1] \in 1..n /\ q[2] \in Nat,
         NEW B, B = {n + 1} \X (1..b)
  PROVE  GrowsBy(P, P \cup B, n, b)
<1>1. ASSUME NEW j \in Nat
      PROVE  IsFiniteSet({n + 1} \X (1..j)) /\ Cardinality({n + 1} \X (1..j)) = j
  <2>1. IsFiniteSet(1..j) /\ Cardinality(1..j) = j
    <3>1. /\ IsFiniteSet(1..j)
          /\ Cardinality(1..j) = IF 1 > j THEN 0 ELSE j - 1 + 1
      <4>1. 1 \in Int /\ j \in Int
        OBVIOUS
      <4> QED
        BY <4>1, FS_Interval
    <3> QED
      BY <3>1
  <2>2. IsFiniteSet({n + 1}) /\ Cardinality({n + 1}) = 1
    BY FS_Singleton
  <2>3. /\ IsFiniteSet({n + 1} \X (1..j))
        /\ Cardinality({n + 1} \X (1..j)) = Cardinality({n + 1}) * Cardinality(1..j)
    BY <2>1, <2>2, FS_Product
  <2> QED
    BY <2>1, <2>2, <2>3
<1>2. IsFiniteSet(B) /\ Cardinality(B) = b
  BY <1>1
<1>3. \A q \in B : q[1] = n + 1 /\ q[2] \in 1..b /\ q = <<n + 1, q[2]>>
  OBVIOUS
<1>4. ASSUME NEW X, X \subseteq P
      PROVE  /\ IsFiniteSet(X) /\ IsFiniteSet(X \cup B)
             /\ Cardinality(X) \in Nat
             /\ Cardinality(X \cup B) = Cardinality(X) + b
  <2>1. IsFiniteSet(X)
    BY <1>4, FS_Subset
  <2>2. X \cap B = {}
    <3>1. \A q \in P : q[1] # n + 1
      OBVIOUS
    <3> QED
      BY <1>3, <1>4, <3>1
  <2>3. /\ IsFiniteSet(X \cup B)
        /\ Cardinality(X \cup B) = Cardinality(X) + Cardinality(B) - Cardinality(X \cap B)
    BY <1>2, <2>1, FS_Union
  <2>4. Cardinality(X \cap B) = 0 /\ Cardinality(X) \in Nat
    BY <2>1, <2>2, FS_EmptySet, FS_CardinalityType
  <2> QED
    BY <1>2, <2>1, <2>3, <2>4
<1>5. ASSUME NEW q \in P
      PROVE  /\ PairRank(P, q) \in 1..Cardinality(P)
             /\ PairRank(P \cup B, q) = PairRank(P, q) + b
  <2> DEFINE X == {p \in P : p[1] > q[1] \/ (p[1] = q[1] /\ p[2] <= q[2])}
  <2>1. q \in X /\ X \subseteq P
    OBVIOUS
  <2>2. \A p \in B : p[1] > q[1]
    BY <1>3
  <2>3. {p \in P \cup B : p[1] > q[1] \/ (p[1] = q[1] /\ p[2] <= q[2])} = X \cup B
    BY <2>2
  <2> HIDE DEF X
  <2>4. Cardinality(X) \in 1..Cardinality(P)
    <3>1. IsFiniteSet(X) /\ Cardinality(X) \in Nat /\ Cardinality(P) \in Nat
      BY <1>4, <2>1
    <3>2. Cardinality(X) # 0
      BY <2>1, <3>1, FS_EmptySet
    <3>3. Cardinality(X) <= Cardinality(P)
      BY <2>1, FS_Subset
    <3> QED
      BY <3>1, <3>2, <3>3
  <2>5. Cardinality(X \cup B) = Cardinality(X) + b
    BY <1>4, <2>1
  <2> QED
    BY <2>3, <2>4, <2>5 DEF PairRank, X
<1>6. ASSUME NEW j \in 1..b
      PROVE  PairRank(P \cup B, <<n + 1, j>>) = j
  <2> DEFINE q == <<n + 1, j>>
             X == {p \in P \cup B : p[1] > q[1] \/ (p[1] = q[1] /\ p[2] <= q[2])}
             J == {n + 1} \X (1..j)
  <2>1. q[1] = n + 1 /\ q[2] = j
    OBVIOUS
  <2>2. \A p \in P : ~(p[1] > n + 1) /\ p[1] # n + 1
    OBVIOUS
  <2>3. ASSUME NEW p
        PROVE  p \in J <=> p \in B /\ p[2] <= j
    <3>1. 1..j \subseteq 1..b
      OBVIOUS
    <3>2. \A k \in 1..b : k <= j <=> k \in 1..j
      OBVIOUS
    <3> QED
      BY <1>3, <3>1, <3>2
  <2>4. \A p \in B : ~(p[1] > n + 1) /\ p[1] = n + 1
    BY <1>3
  <2>5. X = J
    <3> HIDE DEF J
    <3> QED
      BY <2>1, <2>2, <2>3, <2>4
  <2>6. Cardinality(J) = j
    BY <1>1
  <2> QED
    BY <2>5, <2>6 DEF PairRank
<1> QED
  BY <1>4, <1>5, <1>6 DEF GrowsBy

\* What PacketsArrived is made of.
LEMMA PacketPlaces ==
  ASSUME FeedInLine
  PROVE  \A q \in PacketsArrived :
           /\ q[1] \in Arrivals("ReceivePackets") /\ q[2] \in DOMAIN Content(q[1])
           /\ q = <<q[1], q[2]>>
           /\ q[1] \in 1..Len(received) /\ q[2] \in Nat
<1> SUFFICES ASSUME NEW q \in PacketsArrived
             PROVE  /\ q[1] \in Arrivals("ReceivePackets") /\ q[2] \in DOMAIN Content(q[1])
                    /\ q = <<q[1], q[2]>>
                    /\ q[1] \in 1..Len(received) /\ q[2] \in Nat
  OBVIOUS
<1>1. PICK i \in Arrivals("ReceivePackets") : q \in {i} \X DOMAIN Content(i)
  BY DEF PacketsArrived
<1>2. q[1] = i /\ q[2] \in DOMAIN Content(i) /\ q = <<q[1], q[2]>>
  BY <1>1
<1>3. i \in 1..Len(received) /\ feed[received[i]] \in Sent
      /\ feed[received[i]].method = "ReceivePackets"
  BY ArrivalPlaces DEF Arrivals
<1>4. DOMAIN Content(i) = 1..Len(Content(i)) /\ Len(Content(i)) \in Nat
  BY <1>3, SentFields DEF Content
<1> QED
  BY <1>2, <1>3, <1>4

\* The list of packets while none arrives.
LEMMA PacketsKept ==
  ASSUME FeedInLine, PacketsMatch, packets' = packets,
         Arrivals("ReceivePackets")' = Arrivals("ReceivePackets"),
         \A i \in 1..Len(received) : Content(i)' = Content(i)
  PROVE  PacketsMatch' /\ PacketsArrived' = PacketsArrived
<1>1. \A i \in Arrivals("ReceivePackets") : Content(i)' = Content(i)
  BY ArrivalPlaces
<1>2. PacketsArrived' = PacketsArrived
  BY <1>1 DEF PacketsArrived
<1>3. \A q \in PacketsArrived : PacketRank(q)' = PacketRank(q)
  BY <1>2 DEF PacketRank
<1>4. \A q \in PacketsArrived : Content(q[1])' = Content(q[1])
  BY <1>1, PacketPlaces
<1>5. \A q \in PacketsArrived : PacketRow(Content(q[1])[q[2]])' = PacketRow(Content(q[1])[q[2]])
  BY <1>4 DEF PacketRow
<1> QED
  BY <1>2, <1>3, <1>5 DEF PacketsMatch

\* A batch goes to the head of the list, its packets in their order.
LEMMA PacketStep ==
  ASSUME FeedInLine, PacketsMatch, IsSequence(packets), IsFiniteSet(PacketsArrived),
         NEW c \in Connections, ReceivePackets(c)
  PROVE  PacketsMatch' /\ IsSequence(packets') /\ IsFiniteSet(PacketsArrived)'
<1>0. PICK L : L = Len(received)
  OBVIOUS
<1>1. Arrives(c, "ReceivePackets") /\ addPackets(camelizeAll(Raw(c)))
  BY DEF ReceivePackets
<1>2. /\ Arrivals("ReceivePackets")' = Arrivals("ReceivePackets") \cup {L + 1}
      /\ \A i \in 1..L : Content(i)' = Content(i)
      /\ Content(L + 1)' = Raw(c)
      /\ feed[Head(wire[c])] \in Sent /\ feed[Head(wire[c])].method = "ReceivePackets"
  BY <1>0, <1>1, ArrivalsGrow
<1>3. PICK raw : raw = Raw(c)
  OBVIOUS
<1>4. PICK b \in Nat : b = Len(raw) /\ DOMAIN raw = 1..b
                       /\ \A i \in 1..b : DOMAIN raw[i] = Fields["ReceivePackets"]
  BY <1>2, <1>3, SentFields DEF Raw
<1> DEFINE batch == camelizeAll(raw)
           P == PacketsArrived
           B == {L + 1} \X (1..b)
<1>5. L \in Nat /\ Arrivals("ReceivePackets") \in SUBSET (1..L)
  BY <1>0, ArrivalPlaces
\* The batch.
<1>6. batch = [i \in 1..b |-> PacketRow(raw[i])]
  <2>1. \A i \in 1..b : camelize(raw[i]) = PacketRow(raw[i])
    BY <1>4, CamelizedPacket
  <2> QED
    BY <1>4, <2>1 DEF camelizeAll
<1>7. PICK T : packets \in Seq(T) /\ batch \in Seq(T)
  <2>1. PICK U : packets \in Seq(U)
    BY DEF IsSequence
  <2> DEFINE V == {PacketRow(raw[i]) : i \in 1..b}
  <2>2. batch \in Seq(V)
    <3>1. \A i \in 1..b : PacketRow(raw[i]) \in V
      OBVIOUS
    <3> HIDE DEF V, batch
    <3> QED
      BY <1>6, <3>1, IsASeq
  <2> HIDE DEF V, batch
  <2>3. batch \in Seq(U \cup V) /\ packets \in Seq(U \cup V)
    BY <2>1, <2>2, SeqMonotonic
  <2> QED
    BY <2>3
<1>8. Len(batch) = b /\ \A j \in 1..b : batch[j] = PacketRow(raw[j])
  <2>1. \A j \in 1..b : batch[j] = PacketRow(raw[j])
    BY <1>6
  <2>2. DOMAIN batch = 1..b
    BY <1>6
  <2> HIDE DEF batch
  <2> QED
    BY <1>7, <2>1, <2>2, LenProperties
<1>9. packets' = Leading(batch \o packets, MAX_PACKETS)
  BY <1>1, <1>3, Zenon DEF addPackets, Slice, Leading
<1> HIDE DEF batch
\* The packets that arrived.
<1>10. P' = P \cup B
  <2>1. \A i \in Arrivals("ReceivePackets") : Content(i)' = Content(i)
    BY <1>2, <1>5
  <2>2. DOMAIN (Content(L + 1)') = 1..b
    BY <1>2, <1>3, <1>4
  <2>3. P' = UNION {{i} \X DOMAIN (Content(i)') : i \in Arrivals("ReceivePackets") \cup {L + 1}}
    BY <1>2 DEF PacketsArrived
  <2>4. P = UNION {{i} \X DOMAIN (Content(i)') : i \in Arrivals("ReceivePackets")}
    BY <2>1 DEF PacketsArrived
  <2> QED
    BY <2>2, <2>3, <2>4
<1>11. \A q \in P : q[1] \in 1..L /\ q[2] \in Nat
  BY <1>0, PacketPlaces
<1>12. /\ IsFiniteSet(P \cup B) /\ Cardinality(P) \in Nat
       /\ Cardinality(P \cup B) = Cardinality(P) + b
       /\ \A q \in P : /\ PairRank(P, q) \in 1..Cardinality(P)
                       /\ PairRank(P \cup B, q) = PairRank(P, q) + b
       /\ \A j \in 1..b : PairRank(P \cup B, <<L + 1, j>>) = j
  <2>1. IsFiniteSet(P) /\ B = {L + 1} \X (1..b) /\ b \in Nat /\ L \in Nat
    BY <1>5
  <2> HIDE DEF P, B
  <2> QED
    <3>1. GrowsBy(P, P \cup B, L, b)
      BY <1>11, <2>1, PairsAdded
    <3> QED
      BY <3>1 DEF GrowsBy
<1>13. /\ \A q : PacketRank(q) = PairRank(P, q)
       /\ \A q : PacketRank(q)' = PairRank(P', q)
  BY DEF PacketRank, PairRank
<1> DEFINE C == Cardinality(P)
<1>14. MAX_PACKETS \in Nat \ {0} /\ Len(packets) = AtMost(C, MAX_PACKETS)
  BY LimitsAssumption DEF PacketsMatch
\* The list.
<1>15. packets' \in Seq(T) /\ IsPrepended(packets', batch, packets, MAX_PACKETS)
  BY <1>7, <1>9, <1>14, PrependCut
<1>16. ASSUME NEW q \in P, PairRank(P, q) + b <= MAX_PACKETS
       PROVE  packets'[PairRank(P, q) + b] = PacketRow(Content(q[1])'[q[2]])
  <2>1. PICK r : r = PairRank(P, q)
    OBVIOUS
  <2>2. r \in 1..C /\ r + b <= MAX_PACKETS
    BY <1>12, <1>16, <2>1
  <2>3. packets[r] = PacketRow(Content(q[1])[q[2]])
    <3>1. r <= MAX_PACKETS
      BY <1>12, <1>14, <2>2
    <3> QED
      BY <1>13, <2>1, <3>1 DEF PacketsMatch
  <2>4. Content(q[1])' = Content(q[1])
    BY <1>2, <1>11
  <2> HIDE DEF P, C
  <2>5. r \in 1..Len(packets) /\ b + r <= MAX_PACKETS /\ b + r = r + b
    <3>1. C \in Nat
      BY <1>12 DEF C
    <3> QED
      BY <1>14, <2>2, <3>1 DEF AtMost
  <2>6. packets'[b + r] = packets[r]
    BY <1>8, <1>15, <2>5 DEF IsPrepended
  <2> QED
    BY <2>1, <2>3, <2>4, <2>5, <2>6
<1>17. ASSUME NEW j \in 1..b, j <= MAX_PACKETS
       PROVE  packets'[j] = PacketRow(Content(L + 1)'[j])
  BY <1>2, <1>3, <1>8, <1>15, <1>17 DEF IsPrepended
<1>18. ASSUME NEW q \in P', PacketRank(q)' <= MAX_PACKETS
       PROVE  packets'[PacketRank(q)'] = PacketRow(Content(q[1])'[q[2]])
  <2> HIDE DEF P
  <2>1. PacketRank(q)' = PairRank(P \cup B, q)
    BY <1>10, <1>13
  <2>2. CASE q \in P
    BY <1>12, <1>16, <1>18, <2>1, <2>2
  <2>3. CASE q \in B
    <3>1. PICK j \in 1..b : q = <<L + 1, j>>
      BY <2>3
    <3>2. PacketRank(q)' = j /\ q[1] = L + 1 /\ q[2] = j
      BY <1>12, <2>1, <3>1
    <3> QED
      BY <1>17, <1>18, <3>2
  <2> QED
    BY <1>10, <2>2, <2>3
<1>19. Len(packets') = AtMost(Cardinality(P'), MAX_PACKETS)
  <2>1. Len(packets') = AtMost(b + Len(packets), MAX_PACKETS)
    BY <1>8, <1>15 DEF IsPrepended
  <2>2. Cardinality(P') = C + b /\ C \in Nat
    BY <1>10, <1>12
  <2> HIDE DEF C, P
  <2> QED
    BY <1>14, <2>1, <2>2 DEF AtMost
<1>20. PacketsMatch'
  <2>1. \A q \in PacketsArrived' : PacketRank(q)' <= MAX_PACKETS =>
          packets'[PacketRank(q)'] = PacketRow(Content(q[1])'[q[2]])
    BY <1>18
  <2>2. \A q : PacketRow(Content(q[1])[q[2]])' = PacketRow(Content(q[1])'[q[2]])
    BY DEF PacketRow
  <2> QED
    BY <1>19, <2>1, <2>2 DEF PacketsMatch
<1> QED
  BY <1>10, <1>12, <1>15, <1>20 DEF IsSequence

-----------------------------------------------------------------------------
(* The store as a whole. *)

StoreInv ==
  /\ FInv
  /\ StoreMatchesReference
  /\ IsSequence(packets) /\ IsSequence(processStats) /\ IsSequence(anomalies)
  /\ IsFiniteSet(PacketsArrived)

\* Whoever does not deliver a message leaves the store's lists alone.
LEMMA ListsUndisturbed ==
  ASSUME [Next]_vars, \A c \in Connections : ~Receive(c)
  PROVE  UNCHANGED <<packets, processStats, anomalies>>
<1>1. CASE Page
  BY <1>1, Zenon DEF Page, OpenPage, Remount, RenderError, Reset, setConnected, storeVars
<1>2. ASSUME NEW c \in Connections, Client(c) \/ Join(c)
      PROVE  UNCHANGED <<packets, processStats, anomalies>>
  BY <1>2, Zenon DEF Client, Join, StartSucceeds, StartFails, StartAborted, CloseCompletes,
     ConnectionLost, TryReconnect, ReconnectSucceeds, ReconnectFails, setConnected, storeVars
<1>3. CASE Outage \/ HubReturns \/ (\E m \in bounds.messages : SendMessage(m)) \/ UNCHANGED vars
  BY <1>3 DEF Outage, HubReturns, SendMessage, vars, storeVars
<1> QED
  BY <1>1, <1>2, <1>3 DEF Next

\* And what was sent and received before is what it was.
LEMMA FeedUndisturbed ==
  ASSUME FInv, [Next]_vars, \A c \in Connections : ~Receive(c)
  PROVE  received' = received /\ \A k \in 1..Len(feed) : feed'[k] = feed[k]
<1>1. CASE \E m \in bounds.messages : SendMessage(m)
  <2>1. PICK m \in bounds.messages : SendMessage(m)
    BY <1>1
  <2>2. feed \in Seq(Sent) /\ m \in Sent
    BY <2>1 DEF FInv, IInv, TypeOK, FeedInLine, Sent
  <2> QED
    BY <2>1, <2>2, AppendProperties DEF SendMessage
<1>2. CASE ~(\E m \in bounds.messages : SendMessage(m))
  BY <1>2, OtherFeed
<1> QED
  BY <1>1, <1>2

\* Every step keeps StoreInv.
LEMMA StepStoreInv ==
  ASSUME StoreInv, [Next]_vars
  PROVE  StoreInv'
<1>1. FInv /\ FInv' /\ FeedInLine
  BY StepFInv DEF StoreInv, FInv
<1>2. PacketsMatch /\ ProcessesMatch /\ AnomaliesMatch
  BY DEF StoreInv, StoreMatchesReference
<1>3. IsSequence(packets) /\ IsSequence(processStats) /\ IsSequence(anomalies)
      /\ IsFiniteSet(PacketsArrived)
  BY DEF StoreInv
<1>4. CASE \A c \in Connections : ~Receive(c)
  <2>1. /\ UNCHANGED <<packets, processStats, anomalies>>
        /\ \A method : Arrivals(method)' = Arrivals(method)
        /\ \A i \in 1..Len(received) : Content(i)' = Content(i)
    BY <1>1, <1>4, ListsUndisturbed, FeedUndisturbed, ArrivalsKept
  <2>2. PacketsMatch' /\ PacketsArrived' = PacketsArrived
    BY <1>1, <1>2, <2>1, PacketsKept
  <2>3. ProcessesMatch' /\ AnomaliesMatch'
    BY <1>1, <1>2, <2>1, ProcessesKept, AnomaliesKept
  <2> QED
    BY <1>1, <1>3, <2>1, <2>2, <2>3 DEF StoreInv, StoreMatchesReference
\* What arrives for another method.
<1>5. ASSUME NEW c \in Connections, NEW method, Arrives(c, method)
      PROVE  /\ \A other : other # method => Arrivals(other)' = Arrivals(other)
             /\ \A i \in 1..Len(received) : Content(i)' = Content(i)
  BY <1>1, <1>5, ArrivalsGrow
<1>6. ASSUME NEW c \in Connections, ReceivePackets(c)
      PROVE  StoreInv'
  <2>1. Arrives(c, "ReceivePackets") /\ UNCHANGED <<processStats, anomalies>>
    BY <1>6, Zenon DEF ReceivePackets, addPackets
  <2>2. PacketsMatch' /\ IsSequence(packets') /\ IsFiniteSet(PacketsArrived)'
    BY <1>1, <1>2, <1>3, <1>6, PacketStep
  <2>3. /\ Arrivals("ReceiveProcessStats")' = Arrivals("ReceiveProcessStats")
        /\ Arrivals("ReceiveAnomaly")' = Arrivals("ReceiveAnomaly")
        /\ \A i \in 1..Len(received) : Content(i)' = Content(i)
    BY <1>5, <2>1
  <2>4. ProcessesMatch' /\ AnomaliesMatch'
    BY <1>1, <1>2, <2>1, <2>3, ProcessesKept, AnomaliesKept
  <2> QED
    BY <1>1, <1>3, <2>1, <2>2, <2>4 DEF StoreInv, StoreMatchesReference
<1>7. ASSUME NEW c \in Connections, ReceiveProcessStats(c)
      PROVE  StoreInv'
  <2>1. Arrives(c, "ReceiveProcessStats") /\ UNCHANGED <<packets, anomalies>>
    BY <1>7, Zenon DEF ReceiveProcessStats, upsertProcess
  <2>2. ProcessesMatch' /\ IsSequence(processStats')
    BY <1>1, <1>2, <1>3, <1>7, ProcessStep
  <2>3. /\ Arrivals("ReceivePackets")' = Arrivals("ReceivePackets")
        /\ Arrivals("ReceiveAnomaly")' = Arrivals("ReceiveAnomaly")
        /\ \A i \in 1..Len(received) : Content(i)' = Content(i)
    BY <1>5, <2>1
  <2>4. PacketsMatch' /\ PacketsArrived' = PacketsArrived /\ AnomaliesMatch'
    BY <1>1, <1>2, <2>1, <2>3, PacketsKept, AnomaliesKept
  <2> QED
    BY <1>1, <1>3, <2>1, <2>2, <2>4 DEF StoreInv, StoreMatchesReference
<1>8. ASSUME NEW c \in Connections, ReceiveAnomaly(c)
      PROVE  StoreInv'
  <2>1. Arrives(c, "ReceiveAnomaly") /\ UNCHANGED <<packets, processStats>>
    BY <1>8, Zenon DEF ReceiveAnomaly, addAnomaly
  <2>2. AnomaliesMatch' /\ IsSequence(anomalies')
    BY <1>1, <1>2, <1>3, <1>8, AnomalyStep
  <2>3. /\ Arrivals("ReceivePackets")' = Arrivals("ReceivePackets")
        /\ Arrivals("ReceiveProcessStats")' = Arrivals("ReceiveProcessStats")
        /\ \A i \in 1..Len(received) : Content(i)' = Content(i)
    BY <1>5, <2>1
  <2>4. PacketsMatch' /\ PacketsArrived' = PacketsArrived /\ ProcessesMatch'
    BY <1>1, <1>2, <2>1, <2>3, PacketsKept, ProcessesKept
  <2> QED
    BY <1>1, <1>3, <2>1, <2>2, <2>4 DEF StoreInv, StoreMatchesReference
<1>9. ASSUME NEW c \in Connections, ReceiveHealth(c)
      PROVE  StoreInv'
  <2>1. Arrives(c, "ReceiveHealth") /\ UNCHANGED <<packets, processStats, anomalies>>
    BY <1>9, Zenon DEF ReceiveHealth, setHealth
  <2>2. /\ Arrivals("ReceivePackets")' = Arrivals("ReceivePackets")
        /\ Arrivals("ReceiveProcessStats")' = Arrivals("ReceiveProcessStats")
        /\ Arrivals("ReceiveAnomaly")' = Arrivals("ReceiveAnomaly")
        /\ \A i \in 1..Len(received) : Content(i)' = Content(i)
    BY <1>5, <2>1
  <2>3. PacketsMatch' /\ PacketsArrived' = PacketsArrived /\ ProcessesMatch' /\ AnomaliesMatch'
    BY <1>1, <1>2, <2>1, <2>2, PacketsKept, ProcessesKept, AnomaliesKept
  <2> QED
    BY <1>1, <1>3, <2>1, <2>3 DEF StoreInv, StoreMatchesReference
<1> QED
  BY <1>4, <1>6, <1>7, <1>8, <1>9 DEF Receive

\* Nothing has arrived at first.
LEMMA InitStoreInv == Init => StoreInv
<1> SUFFICES ASSUME Init PROVE StoreInv
  OBVIOUS
<1>1. packets = <<>> /\ processStats = <<>> /\ anomalies = <<>> /\ received = <<>>
  BY Zenon DEF Init, StoreInit
<1>2. \A method : Arrivals(method) = {}
  BY <1>1 DEF Arrivals
<1>3. PacketsArrived = {} /\ LatestStats = {}
  BY <1>2 DEF PacketsArrived, LatestStats
<1>4. IsFiniteSet({}) /\ Cardinality({}) = 0
  BY FS_EmptySet
<1>5. \A row : \A max \in Nat : Lists(<<>>, {}, row, max)
  BY <1>4 DEF Lists, AtMost
<1>6. MAX_PACKETS \in Nat /\ MAX_PROCESSES \in Nat /\ MAX_ANOMALIES \in Nat
  BY LimitsAssumption
<1>7. PacketsMatch
  BY <1>1, <1>3, <1>4, <1>6 DEF PacketsMatch, AtMost
<1>8. ProcessesMatch /\ AnomaliesMatch
  BY <1>1, <1>2, <1>3, <1>5, <1>6 DEF ProcessesMatch, AnomaliesMatch
<1>9. IsSequence(<<>>)
  BY EmptySeq DEF IsSequence
<1> QED
  BY <1>1, <1>3, <1>4, <1>7, <1>8, <1>9, InitFInv DEF StoreInv, StoreMatchesReference

\* After any history of messages, outages and remounts the store's lists are what
\* their names promise.
THEOREM StoreIsReference == Spec => []StoreMatchesReference
<1>1. StoreInv => StoreMatchesReference
  BY DEF StoreInv
<1> QED
  BY <1>1, InitStoreInv, StepStoreInv, PTL DEF Spec

\* No two rows of the process tracker or of the threat feed have the same key.
THEOREM KeysDistinct == Spec => []RowKeysDistinct
<1>1. StoreInv => RowKeysDistinct
  <2> SUFFICES ASSUME StoreInv PROVE RowKeysDistinct
    OBVIOUS
  <2>1. ASSUME NEW i \in DOMAIN ProcessTrackerRows, NEW j \in DOMAIN ProcessTrackerRows,
               ProcessTrackerRows[i].key = ProcessTrackerRows[j].key
        PROVE  i = j
    <3>1. PICK T : processStats \in Seq(T)
      BY DEF StoreInv, IsSequence
    <3>2. i \in 1..Len(processStats) /\ j \in 1..Len(processStats)
      BY <3>1, LenProperties DEF ProcessTrackerRows
    <3>3. processStats[i].process = processStats[j].process
      BY <2>1 DEF ProcessTrackerRows
    <3>4. ProcessesMatch /\ FeedInLine
      BY DEF StoreInv, StoreMatchesReference, FInv
    <3>5. Len(received) \in Nat /\ LatestStats \in SUBSET (1..Len(received))
      BY <3>4, ArrivalPlaces DEF LatestStats
    <3>6. PICK name : name = processStats[i].process
      OBVIOUS
    <3>7. \/ \E h \in LatestStats :
               \A k \in 1..Len(processStats) :
                 processStats[k].process = name <=> k = Rank(LatestStats, h)
          \/ \A k \in 1..Len(processStats) : processStats[k].process # name
      BY <3>1, <3>4, <3>5, RowOfProcess
    <3> QED
      BY <3>2, <3>3, <3>6, <3>7
  <2>2. ASSUME NEW i \in DOMAIN AnomalyFeedRows, NEW j \in DOMAIN AnomalyFeedRows,
               AnomalyFeedRows[i].key = AnomalyFeedRows[j].key
        PROVE  i = j
    <3>1. AnomalyFeedRows[i].key[3] = i /\ AnomalyFeedRows[j].key[3] = j
      BY DEF AnomalyFeedRows
    <3> QED
      BY <2>2, <3>1
  <2> QED
    BY <2>1, <2>2 DEF RowKeysDistinct
<1> QED
  BY <1>1, InitStoreInv, StepStoreInv, PTL DEF Spec
=============================================================================
