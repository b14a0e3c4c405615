---------------------------- MODULE MCCoreEngine ----------------------------
(* CoreEngine on a small instance: channels of one, rings of one and two. *)
EXTENDS CoreEngine

CONSTANTS p1, a1

MCStreams == {p1, a1}
MCFeedOf == [s \in MCStreams |-> IF s = p1 THEN "packets" ELSE "alerts"]
MCQueueCap == [f \in Feeds |-> 1]
MCRingCap == [f \in Feeds |-> IF f = "packets" THEN 2 ELSE 1]
=============================================================================
