----------------------------- MODULE LossyFeed -----------------------------
(***************************************************************************)
(* What every stage of AetherLens promises the stage after it.             *)
(*                                                                         *)
(* Packets are numbered in the order they are captured.  Between capture   *)
(* and any consumer (a gRPC stream, the rows of the packet_events table)   *)
(* stand bounded buffers that may drop packets and processes that may      *)
(* crash, so a consumer may miss packets; but what it gets it gets in      *)
(* capture order and at most once, and never before it was captured.       *)
(***************************************************************************)
EXTENDS Naturals, Sequences, Order

VARIABLES
  produced,  \* how many items the source has produced; item n is the n-th
  received   \* the items the consumer has received, in order of arrival

vars == <<produced, received>>

Init ==
  /\ produced = 0
  /\ received = <<>>

Produce ==
  /\ produced' = produced + 1
  /\ UNCHANGED received

\* The consumer gets one or more items that exist and are newer than all it has.
Receive ==
  /\ received' \in Seq(1..produced)
  /\ Len(received) < Len(received')
  /\ received = SubSeq(received', 1, Len(received))
  /\ Increasing(received')
  /\ UNCHANGED produced

Next == Produce \/ Receive

Spec == Init /\ [][Next]_vars
=============================================================================
