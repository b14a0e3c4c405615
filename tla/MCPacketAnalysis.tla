-------------------------- MODULE MCPacketAnalysis --------------------------
(* PacketAnalysis with a local and a remote address of either version, one  *)
(* more of version 6 whose text ends in a watched number, every watched     *)
(* port and one more.                                                       *)
EXTENDS PacketAnalysis

CONSTANTS here4, there4, here6, there6, ends23

MCLastGroup == [a \in {here6, there6, ends23} |-> IF a = ends23 THEN 23 ELSE 0]
MCPorts == {23, 443, 445, 3389, 6667}
MCOwner == [k \in {"TCP", "UDP"} \X MCPorts |->
              CASE k = <<"TCP", 443>> -> "browser"
                [] k = <<"UDP", 443>> -> "player"
                [] OTHER -> "none"]
=============================================================================
