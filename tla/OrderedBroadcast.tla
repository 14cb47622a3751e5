--------------------------- MODULE OrderedBroadcast ---------------------------
(***************************************************************************)
(* What the gossip layer of a node promises to the handlers above it: the  *)
(* rumors of an origin are accepted by every other peer in the order of    *)
(* their sequence numbers, each of them once, and none before it was       *)
(* broadcast.  The queue of what a peer has yet to accept of an origin is  *)
(* what PaxosTLC calls inbox[d][o].                                        *)
(***************************************************************************)
EXTENDS Naturals, Sequences

CONSTANT Nodes

VARIABLES
  sent,         \* sent[o]: the number of rumors that o has broadcast
  accepted      \* accepted[d][o]: the rumors of o that d has accepted, in order

Init ==
  /\ sent = [o \in Nodes |-> 0]
  /\ accepted = [d \in Nodes |-> [o \in Nodes |-> <<>>]]

Broadcast(o) ==
  /\ sent' = [sent EXCEPT ![o] = @ + 1]
  /\ UNCHANGED accepted

Accept(d, o) ==
  /\ d # o
  /\ Len(accepted[d][o]) < sent[o]
  /\ accepted' = [accepted EXCEPT ![d][o] = Append(@, Len(@) + 1)]
  /\ UNCHANGED sent

Next ==
  \/ \E o \in Nodes : Broadcast(o)
  \/ \E d, o \in Nodes : Accept(d, o)

Spec == Init /\ [][Next]_<<sent, accepted>>
===============================================================================
