---------------------------- MODULE ProcessCache ----------------------------
(***************************************************************************)
(* The process cache of the Windows capture: which process owns a local    *)
(* port.  A task refreshes it every two seconds from the system's TCP and  *)
(* UDP tables; the capture thread reads it, and fills in names, at the     *)
(* same time.  Processes and sockets come and go meanwhile, and pids are   *)
(* given out again.                                                        *)
(*                                                                         *)
(* A socket is an IP version and the cache's key, a protocol and a port.   *)
(* The refresh asks for version 4 sockets only (AF_INET), and the key has  *)
(* no version: packets of a version 6 socket are looked up under the key   *)
(* of the version 4 socket with the same port.                             *)
(*                                                                         *)
(* Two rows of the system's tables may name one socket (two local          *)
(* addresses); rows without a process are skipped by the refresh and left  *)
(* out.  The other builds have no refresh: there the cache stays as Init   *)
(* leaves it.                                                              *)
(***************************************************************************)
EXTENDS Naturals, FiniteSets

CONSTANTS
  TcpKeys, UdpKeys,  \* the keys (6, port) and (17, port)
  Pids,
  Names,      \* executables
  Protected,  \* executables whose process the engine may not open
  MaxEvents   \* model bound: processes and sockets that come or go

Keys == TcpKeys \cup UdpKeys

Sockets == {"ipv4", "ipv6"} \X Keys

Key(s) == s[2]

ASSUME KeysAssumption == TcpKeys \cap UdpKeys = {}
ASSUME ProtectedAssumption == Protected \subseteq Names
ASSUME EventsAssumption == MaxEvents \in Nat
\* "none" stands for no process and no entry.
ASSUME NoneAssumption == "none" \notin Pids \cup Names \cup Keys

VARIABLES
  running,    \* pid -> executable of its process, "none" if there is none
  called,     \* history: pid -> executables of the processes that have had it
  table,      \* rows <<socket, pid>> of the system's tables
  owners,     \* history: socket -> <<pid, executable>> of the processes that have owned it
  events,     \* model bound: events so far
  portMap,    \* key -> pid, "none" when the map has no entry
  nameCache,  \* pid -> executable, "none" when the cache has no entry
  refresh,    \* where the refresh task is
  protocol,   \* the table it is reading
  size,       \* rows the table had when its size was asked for
  rows,       \* fetched rows still to be entered
  naming,     \* the pid of the row just entered
  found,      \* the executable the task was told it has, "none" when it does not insert one
  lookup,     \* where the capture thread is in get_process_name
  looking,    \* the key it is looking up, or "none"
  asked       \* the executable it was told, "none" when it does not insert one

systemVars == <<running, called, table, owners, events>>
refreshVars == <<refresh, protocol, size, rows, naming, found>>
lookupVars == <<lookup, looking, asked>>
vars == <<systemVars, portMap, nameCache, refreshVars, lookupVars>>

Init ==
  /\ running = [p \in Pids |-> "none"]
  /\ called = [p \in Pids |-> {}]
  /\ table = {}
  /\ owners = [s \in Sockets |-> {}]
  /\ events = 0
  /\ portMap = [k \in Keys |-> "none"]
  /\ nameCache = [p \in Pids |-> "none"]
  /\ refresh = "sleep"
  /\ protocol = "tcp"
  /\ size = 0
  /\ rows = {}
  /\ naming \in Pids
  /\ found = "none"
  /\ lookup = "idle"
  /\ looking = "none"
  /\ asked = "none"

-----------------------------------------------------------------------------
(* The operating system. *)

Event ==
  /\ events < MaxEvents
  /\ events' = events + 1
  /\ UNCHANGED <<portMap, nameCache, refreshVars, lookupVars>>

ProcessStarts(p, n) ==
  /\ Event
  /\ running[p] = "none"
  /\ running' = [running EXCEPT ![p] = n]
  /\ called' = [called EXCEPT ![p] = @ \cup {n}]
  /\ UNCHANGED <<table, owners>>

\* Its sockets are closed with it.
ProcessExits(p) ==
  /\ Event
  /\ running[p] # "none"
  /\ running' = [running EXCEPT ![p] = "none"]
  /\ table' = {r \in table : r[2] # p}
  /\ UNCHANGED <<called, owners>>

SocketOpens(s, p) ==
  /\ Event
  /\ running[p] # "none"
  /\ <<s, p>> \notin table
  /\ table' = table \cup {<<s, p>>}
  /\ owners' = [owners EXCEPT ![s] = @ \cup {<<p, running[p]>>}]
  /\ UNCHANGED <<running, called>>

SocketCloses(s, p) ==
  /\ Event
  /\ <<s, p>> \in table
  /\ table' = table \ {<<s, p>>}
  /\ UNCHANGED <<running, called, owners>>

\* get_process_name_by_pid
NameByPid(p) == IF running[p] \in Protected THEN "none" ELSE running[p]

-----------------------------------------------------------------------------
(* The refresh task. *)

Wake ==
  /\ refresh = "sleep"
  /\ refresh' = "size"
  /\ protocol' = "tcp"
  /\ UNCHANGED <<systemVars, portMap, nameCache, size, rows, naming, found, lookupVars>>

\* The rows AF_INET selects of the table the task is reading.
Table ==
  {r \in table : r[1] \in {"ipv4"} \X (IF protocol = "tcp" THEN TcpKeys ELSE UdpKeys)}

QuerySize ==
  /\ refresh = "size"
  /\ size' = Cardinality(Table)
  /\ refresh' = "fetch"
  /\ UNCHANGED <<systemVars, portMap, nameCache, protocol, rows, naming, found,
                 lookupVars>>

\* A table that outgrew the buffer meanwhile is not read this time.
Fetch ==
  /\ refresh = "fetch"
  /\ rows' = IF Cardinality(Table) <= size THEN Table ELSE {}
  /\ refresh' = "rows"
  /\ UNCHANGED <<systemVars, portMap, nameCache, protocol, size, naming, found,
                 lookupVars>>

\* Mutant of EnterPort: an entry the map has already is kept.
EnterNewPort(r) ==
  /\ refresh = "rows"
  /\ r \in rows
  /\ looking # Key(r[1])
  /\ portMap' = [portMap EXCEPT ![Key(r[1])] = IF @ = "none" THEN r[2] ELSE @]
  /\ naming' = r[2]
  /\ rows' = rows \ {r}
  /\ refresh' = "name"
  /\ UNCHANGED <<systemVars, nameCache, protocol, size, found, lookupVars>>

\* The capture thread holds a reference into the map while it looks a name up,
\* and the insert waits for it.
EnterPort(r) ==
  /\ refresh = "rows"
  /\ r \in rows
  /\ looking # Key(r[1])
  /\ portMap' = [portMap EXCEPT ![Key(r[1])] = r[2]]
  /\ naming' = r[2]
  /\ rows' = rows \ {r}
  /\ refresh' = "name"
  /\ UNCHANGED <<systemVars, nameCache, protocol, size, found, lookupVars>>

\* Only a pid without an entry is asked for.  The system is asked, and the answer
\* entered, with no lock held: by then the capture thread may have entered another.
CheckName ==
  /\ refresh = "name"
  /\ refresh' = IF nameCache[naming] = "none" THEN "query" ELSE "rows"
  /\ UNCHANGED <<systemVars, portMap, nameCache, protocol, size, rows, naming, found,
                 lookupVars>>

QueryName ==
  /\ refresh = "query"
  /\ found' = NameByPid(naming)
  /\ refresh' = IF found' = "none" THEN "rows" ELSE "insert"
  /\ UNCHANGED <<systemVars, portMap, nameCache, protocol, size, rows, naming, lookupVars>>

EnterName ==
  /\ refresh = "insert"
  /\ nameCache' = [nameCache EXCEPT ![naming] = found]
  /\ found' = "none"
  /\ refresh' = "rows"
  /\ UNCHANGED <<systemVars, portMap, protocol, size, rows, naming, lookupVars>>

\* Entries whose row is gone stay in both maps.
TableDone ==
  /\ refresh = "rows"
  /\ rows = {}
  /\ refresh' = IF protocol = "tcp" THEN "size" ELSE "sleep"
  /\ protocol' = "udp"
  /\ UNCHANGED <<systemVars, portMap, nameCache, size, rows, naming, found, lookupVars>>

-----------------------------------------------------------------------------
(* The capture thread: get_process_name. *)

LookUpPort(k) ==
  /\ lookup = "idle"
  /\ portMap[k] # "none"
  /\ looking' = k
  /\ lookup' = "name"
  /\ UNCHANGED <<systemVars, portMap, nameCache, refreshVars, asked>>

LookUpName ==
  /\ lookup = "name"
  /\ IF nameCache[portMap[looking]] = "none"
       THEN lookup' = "query" /\ UNCHANGED looking
       ELSE lookup' = "idle" /\ looking' = "none"
  /\ UNCHANGED <<systemVars, portMap, nameCache, refreshVars, asked>>

\* Mutant of AskName: the owner of the port is read anew from the system's tables.
AskOwnersName ==
  /\ lookup = "query"
  /\ \E r \in table \cup {<<<<"ipv4", looking>>, portMap[looking]>>} :
       Key(r[1]) = looking /\ asked' = NameByPid(r[2])
  /\ IF asked' = "none"
       THEN lookup' = "idle" /\ looking' = "none"
       ELSE lookup' = "insert" /\ UNCHANGED looking
  /\ UNCHANGED <<systemVars, portMap, nameCache, refreshVars>>

AskName ==
  /\ lookup = "query"
  /\ asked' = NameByPid(portMap[looking])
  /\ IF asked' = "none"
       THEN lookup' = "idle" /\ looking' = "none"
       ELSE lookup' = "insert" /\ UNCHANGED looking
  /\ UNCHANGED <<systemVars, portMap, nameCache, refreshVars>>

KeepName ==
  /\ lookup = "insert"
  /\ nameCache' = [nameCache EXCEPT ![portMap[looking]] = asked]
  /\ asked' = "none"
  /\ lookup' = "idle"
  /\ looking' = "none"
  /\ UNCHANGED <<systemVars, portMap, refreshVars>>

-----------------------------------------------------------------------------
System ==
  \/ \E p \in Pids, n \in Names : ProcessStarts(p, n)
  \/ \E p \in Pids : ProcessExits(p)
  \/ \E s \in Sockets, p \in Pids : SocketOpens(s, p) \/ SocketCloses(s, p)

Refresh ==
  \/ Wake \/ QuerySize \/ Fetch
  \/ \E r \in rows : EnterPort(r)
  \/ CheckName \/ QueryName \/ EnterName
  \/ TableDone

FinishLookUp == LookUpName \/ AskName \/ KeepName

Next ==
  \/ System
  \/ Refresh
  \/ \E k \in Keys : LookUpPort(k)
  \/ FinishLookUp

Spec == Init /\ [][Next]_vars

\* The refresh task keeps running, a lookup once begun completes and lets the
\* refresh in.  Nothing obliges packets to come or processes to come and go.
FairSpec ==
  /\ Spec
  /\ WF_vars(FinishLookUp)
  /\ SF_vars(Refresh)

-----------------------------------------------------------------------------
TypeOK ==
  /\ running \in [Pids -> Names \cup {"none"}]
  /\ called \in [Pids -> SUBSET Names]
  /\ table \subseteq Sockets \X Pids
  /\ owners \in [Sockets -> SUBSET (Pids \X Names)]
  /\ events \in 0..MaxEvents
  /\ portMap \in [Keys -> Pids \cup {"none"}]
  /\ nameCache \in [Pids -> Names \cup {"none"}]
  /\ refresh \in {"sleep", "size", "fetch", "rows", "name", "query", "insert"}
  /\ protocol \in {"tcp", "udp"}
  /\ size \in Nat
  /\ rows \subseteq Sockets \X Pids
  /\ naming \in Pids
  /\ found \in Names \cup {"none"}
  /\ lookup \in {"idle", "name", "query", "insert"}
  /\ looking \in Keys \cup {"none"}
  /\ asked \in Names \cup {"none"}

-----------------------------------------------------------------------------
(* Properties. *)

\* What get_process_name answers for a packet of socket s from the two maps.
Label(s) ==
  LET pid == portMap[Key(s)] IN IF pid = "none" THEN "none" ELSE nameCache[pid]

\* A label is a name that a pid has had which has owned the version 4 socket of the
\* key, whatever the packet's version.  It may be that pid's earlier or later name, the
\* system gives pids out again, but however refresh, lookup and the system interleave
\* between the table, the port map and the name cache, no other gets on a packet.
LabelHasOrigin ==
  \A s \in Sockets : Label(s) # "none" =>
    \E owner \in owners[<<"ipv4", Key(s)>>] :
      owner[1] = portMap[Key(s)] /\ Label(s) \in called[owner[1]]

\* The labels of packets whose key only one process owns, one that may be opened,
\* under a pid that no other such executable has had; version 6 packets are
\* labelled with the owner of the version 4 socket.
LabelsRight ==
  \A s \in Sockets, p \in Pids :
    /\ {r \in table : r[1] = <<"ipv4", Key(s)>>} = {<<<<"ipv4", Key(s)>>, p>>}
    /\ called[p] \ Protected = {running[p]}
    => Label(s) = running[p]

\* README.md: "Live process-level bandwidth tracking": once processes and
\* sockets stop changing (MaxEvents), these labels become right and stay so.
LabelsCatchUp == <>[]LabelsRight
=============================================================================
