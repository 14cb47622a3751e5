------------------------------- MODULE MCGossip -------------------------------
(***************************************************************************)
(* Instances of Gossip: three nodes in a line, where the second broadcast  *)
(* of one end overtakes or loses the first on its way to the other end,    *)
(* and a ring with a chord, where the origin has a second neighbour to     *)
(* retry and a peer that hears of it through another.                      *)
(***************************************************************************)
EXTENDS Gossip, TLC

CONSTANTS p1, p2, p3

Line == p1 :> {p2} @@ p2 :> {p3} @@ p3 :> {}
Ring == p1 :> {p2, p3} @@ p2 :> {p3} @@ p3 :> {p1}

OneBroadcast == p1 :> 1 @@ p2 :> 0 @@ p3 :> 0
TwoBroadcasts == p1 :> 2 @@ p2 :> 0 @@ p3 :> 0
===============================================================================
