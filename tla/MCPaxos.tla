-------------------------------- MODULE MCPaxos --------------------------------
(***************************************************************************)
(* Instances of PaxosTLC for TLC.  Two or three peers with the starting    *)
(* IDs 1, 2 and 3 of peer/mod.go ("distributed from 1 to peers") and two   *)
(* calls of Tag: on two peers, which compete, or both on peer p1, where    *)
(* the second waits for the first.                                         *)
(***************************************************************************)
EXTENDS PaxosTLC, TLC

CONSTANTS p1, p2, p3,   \* peers
          t1, t2,       \* calls
          x, y          \* names

HostAB == t1 :> p1 @@ t2 :> p2
HostAA == t1 :> p1 @@ t2 :> p1
NamesXY == t1 :> x @@ t2 :> y
IDs2 == p1 :> 1 @@ p2 :> 2
IDs3 == p1 :> 1 @@ p2 :> 2 @@ p3 :> 3
================================================================================
