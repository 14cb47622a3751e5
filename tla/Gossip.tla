-------------------------------- MODULE Gossip --------------------------------
(***************************************************************************)
(* The gossip layer of a Peerster node: rumors, their acks, the status     *)
(* messages of the acks and of the anti-entropy, and the routing table     *)
(* that the rumors update (src/peer/impl: rumorsHandler.go, messaging.go,  *)
(* mechanisms.go, nodeRT.go and the rumor, ack and status handlers of      *)
(* callbacks.go).                                                          *)
(*                                                                         *)
(* Goroutines.  Every node has one listener, which processes one packet at *)
(* a time, one goroutine per broadcast that waits for its ack (waitAck),   *)
(* and one for the anti-entropy.  The listener processes the rumors of a   *)
(* packet one by one and releases the lock between them.  A broadcast up   *)
(* to its first send, and the answer to a status, are one step each: what  *)
(* may happen between their sections only delays or ages what they send.   *)
(*                                                                         *)
(* Network.  net is the set of the packets on the way: they are received   *)
(* in any order, and some are lost.                                        *)
(***************************************************************************)
EXTENDS Naturals, Sequences, FiniteSets

CONSTANTS
  Nodes,        \* the peers
  None,         \* no packet, no route, the ID of a packet without ack channel
  Peers,        \* Peers[n]: the peers that n was given by AddPeer
  MaxSequence,  \* bound: MaxSequence[n] is the number of broadcasts of n
  MaxLoss,      \* bound: the number of packets that are lost
  Capacity,     \* bound: the number of packets on the way; what is sent when there
                \* is no room for it is lost
  MaxTraffic    \* bound: an anti-entropy status is sent only while at most this
                \* many packets are on the way

ASSUME GossipAssumption ==
  /\ None \notin Nodes
  /\ Peers \in [Nodes -> SUBSET Nodes]
  /\ MaxSequence \in [Nodes -> Nat]
  /\ MaxLoss \in Nat /\ Capacity \in Nat /\ MaxTraffic \in Nat

-----------------------------------------------------------------------------
(* Data *)

\* A rumor is known by its origin and its sequence number, which determine what it
\* carries.  The ID of the packet that a broadcast makes is that of its rumor; the
\* other packets have IDs that no ack channel has.
Rumor == [origin : Nodes, sequence : Nat \ {0}]
PacketID == Rumor \cup {None}

\* A status: the last sequence number of each origin, 0 for an origin not in the map
Status == [Nodes -> Nat]

RumorsPkt == [type : {"rumors"}, id : PacketID, source : Nodes, relay : Nodes,
              dest : Nodes, rumors : Seq(Rumor)]
StatusPkt == [type : {"status"}, source : Nodes, dest : Nodes, status : Status]
AckPkt == [type : {"ack"}, acked : PacketID, source : Nodes, dest : Nodes,
           status : Status]
Packet == RumorsPkt \cup StatusPkt \cup AckPkt

\* A goroutine in waitAck, before and after it has made its ack channel
Waiting == [id : Rumor, neighbours : SUBSET Nodes, tried : SUBSET Nodes,
            pc : {"new", "wait"}]

\* The listener in the loop of processRumors
Loop == [pkt : RumorsPkt, index : Nat, fresh : BOOLEAN]

VARIABLES
  net,          \* the packets on the way
  losses,       \* the number of packets lost so far
  sequenceMap,  \* sequenceMap[n][o]
  rumors,       \* rumors[n][o]: the rumors of o that n keeps
  processed,    \* processed[n][o]: the rumors of o whose handler n has run
  local,        \* local[n]: the broadcasts that n has yet to process itself
  loop,         \* loop[n]: the packet the listener is in, or None
  waiting,      \* waiting[n]: the goroutines in waitAck
  acks,         \* acks[n]: the packet IDs that have an ack channel (acksHandler)
  neighbours,   \* neighbours[n]
  routes        \* routes[n][o]: the routing table, None for no entry

rumorVars == <<sequenceMap, rumors, processed, local>>
ackVars == <<waiting, acks>>
routingVars == <<neighbours, routes>>
vars == <<net, losses, rumorVars, loop, ackVars, routingVars>>

Init ==
  /\ net = {}
  /\ losses = 0
  /\ sequenceMap = [n \in Nodes |-> [o \in Nodes |-> 0]]
  /\ rumors = [n \in Nodes |-> [o \in Nodes |-> <<>>]]
  /\ processed = [n \in Nodes |-> [o \in Nodes |-> <<>>]]
  /\ local = [n \in Nodes |-> {}]
  /\ loop = [n \in Nodes |-> None]
  /\ waiting = [n \in Nodes |-> {}]
  /\ acks = [n \in Nodes |-> {}]
  /\ neighbours = Peers
  /\ routes = [n \in Nodes |->
                 [o \in Nodes |-> IF o \in Peers[n] \cup {n} THEN o ELSE None]]

-----------------------------------------------------------------------------
(* Packets *)

RumorsPacket(id, n, m, R) ==
  [type |-> "rumors", id |-> id, source |-> n, relay |-> n, dest |-> m, rumors |-> R]
StatusPacket(n, m) ==
  [type |-> "status", source |-> n, dest |-> m, status |-> sequenceMap[n]]
AckPacket(id, n, m) ==
  [type |-> "ack", acked |-> id, source |-> n, dest |-> m, status |-> sequenceMap[n]]

\* Variant: without the look at whether a neighbour was found
SentAnyway(p, N, tried) ==
  {{[p EXCEPT !.dest = m]} : m \in IF N \subseteq tried THEN {None} ELSE N \ tried}

\* searchNeighbourAndSndPkt: the packet p for a neighbour out of N that is not yet in
\* tried, if there is one
SentTo(p, N, tried) ==
  IF N \subseteq tried THEN {{}} ELSE {{[p EXCEPT !.dest = m]} : m \in N \ tried}

\* The packets of S are sent while those of N are on the way
With(N, S) == IF Cardinality(N \cup S) <= Capacity THEN N \cup S ELSE N

-----------------------------------------------------------------------------
(* Broadcast *)

\* createRumorsMsg and the first send
Broadcast(n) ==
  LET s == sequenceMap[n][n] + 1
      r == [origin |-> n, sequence |-> s]
      p == RumorsPacket(r, n, n, <<r>>)
  IN /\ s <= MaxSequence[n]
     /\ sequenceMap' = [sequenceMap EXCEPT ![n][n] = s]
     /\ rumors' = [rumors EXCEPT ![n][n] = Append(@, r)]
     /\ local' = [local EXCEPT ![n] = @ \cup {r}]
     /\ IF neighbours[n] = {} THEN UNCHANGED <<net, waiting>>
        ELSE \E m \in neighbours[n] :
               /\ net' = With(net, {[p EXCEPT !.dest = m]})
               /\ waiting' = [waiting EXCEPT ![n] =
                                @ \cup {[id |-> r, neighbours |-> neighbours[n],
                                         tried |-> {m}, pc |-> "new"]}]
     /\ UNCHANGED <<losses, processed, loop, acks, routingVars>>

\* processRumorsMsgLocally, on the goroutine of the broadcast
ProcessLocally(n) ==
  \E r \in local[n] :
    /\ local' = [local EXCEPT ![n] = @ \ {r}]
    /\ processed' = [processed EXCEPT ![n][n] = Append(@, r.sequence)]
    /\ UNCHANGED <<net, losses, sequenceMap, rumors, loop, ackVars, routingVars>>

\* waitAck makes its channel after the packet has been sent
CreateAckChannel(n) ==
  \E w \in waiting[n] :
    /\ w.pc = "new"
    /\ acks' = [acks EXCEPT ![n] = @ \cup {w.id}]
    /\ waiting' = [waiting EXCEPT ![n] = (@ \ {w}) \cup {[w EXCEPT !.pc = "wait"]}]
    /\ UNCHANGED <<net, losses, rumorVars, loop, routingVars>>

\* The timeout of waitAck: the goroutine ends when its channel is closed or when it
\* has tried all neighbours, which leaves the channel in the table.
AckTimeout(n) ==
  \E w \in waiting[n] :
    /\ w.pc = "wait"
    /\ \/ /\ w.id \notin acks[n] \/ w.neighbours \subseteq w.tried
          /\ waiting' = [waiting EXCEPT ![n] = @ \ {w}]
          /\ UNCHANGED net
       \/ /\ w.id \in acks[n]
          /\ \E m \in w.neighbours \ w.tried :
               /\ net' = With(net, {RumorsPacket(w.id, n, m, <<w.id>>)})
               /\ waiting' = [waiting EXCEPT ![n] =
                                (@ \ {w}) \cup {[w EXCEPT !.tried = @ \cup {m}]}]
    /\ UNCHANGED <<losses, rumorVars, loop, acks, routingVars>>

-----------------------------------------------------------------------------
(* Rumors *)

\* The listener starts on a packet of rumors
ExecRumors(n, p) ==
  /\ p.type = "rumors"
  /\ net' = net \ {p}
  /\ loop' = [loop EXCEPT ![n] = [pkt |-> p, index |-> 1, fresh |-> FALSE]]
  /\ UNCHANGED <<losses, rumorVars, ackVars, routingVars>>

\* Variants: a rumor ahead of the next one is accepted; so is the last one, once more
NewOrAhead(n, r) == r.sequence > sequenceMap[n][r.origin]
NextOrLast(n, r) ==
  r.sequence \in {sequenceMap[n][r.origin], sequenceMap[n][r.origin] + 1}

IsNext(n, r) == r.sequence = sequenceMap[n][r.origin] + 1

\* Variant: updateRT without the look at the neighbours
AlwaysUpdated(n, origin, relay) ==
  /\ neighbours' = IF origin = relay THEN [neighbours EXCEPT ![n] = @ \cup {origin}]
                    ELSE neighbours
  /\ routes' = [routes EXCEPT ![n][origin] = relay]

\* updateRT: the route to a neighbour never changes
RouteUpdated(n, origin, relay) ==
  IF origin \in neighbours[n] THEN UNCHANGED routingVars
  ELSE /\ neighbours' = IF origin = relay THEN [neighbours EXCEPT ![n] = @ \cup {origin}]
                        ELSE neighbours
       /\ routes' = [routes EXCEPT ![n][origin] = relay]

\* One round of the loop of processRumors.  A packet whose source is its destination
\* is processed without a look at the sequence numbers.
ProcessRumor(n) ==
  LET l == loop[n]
      r == l.pkt.rumors[l.index]
      own == l.pkt.source = l.pkt.dest
      next == [l EXCEPT !.index = @ + 1]
  IN /\ l # None
     /\ l.index <= Len(l.pkt.rumors)
     /\ \/ /\ ~own /\ IsNext(n, r)
           /\ RouteUpdated(n, r.origin, l.pkt.relay)
           /\ sequenceMap' = [sequenceMap EXCEPT ![n][r.origin] = r.sequence]
           /\ rumors' = [rumors EXCEPT ![n][r.origin] = Append(@, r)]
           /\ processed' = [processed EXCEPT ![n][r.origin] = Append(@, r.sequence)]
           /\ loop' = [loop EXCEPT ![n] = [next EXCEPT !.fresh = TRUE]]
        \/ /\ own \/ ~IsNext(n, r)
           /\ processed' =
                IF own THEN [processed EXCEPT ![n][r.origin] = Append(@, r.sequence)]
                ELSE processed
           /\ loop' = [loop EXCEPT ![n] = next]
           /\ UNCHANGED <<routingVars, sequenceMap, rumors>>
     /\ UNCHANGED <<net, losses, local, ackVars>>

\* The end of ExecRumorsMessage: an ack for the source and, when a rumor was new, the
\* packet for a neighbour that neither made nor relayed it
EndRumors(n) ==
  LET l == loop[n]
      p == l.pkt
      ack == AckPacket(p.id, n, p.source)
  IN /\ l # None
     /\ l.index > Len(p.rumors)
     /\ IF p.source = p.dest THEN UNCHANGED net
        ELSE \E forward \in IF l.fresh THEN SentTo([p EXCEPT !.relay = n], neighbours[n],
                                                   {p.source, p.relay})
                            ELSE {{}} :
               net' = With(net, {ack} \cup forward)
     /\ loop' = [loop EXCEPT ![n] = None]
     /\ UNCHANGED <<losses, rumorVars, ackVars, routingVars>>

-----------------------------------------------------------------------------
(* Statuses *)

\* isLocalMissingRumors
LocalMissing(n, status) == \E o \in Nodes : status[o] > sequenceMap[n][o]

\* Variant: nothing is missing at a node that is one rumor behind
MissingMany(n, status) ==
  {SubSeq(rumors[n][o], status[o] + 1, Len(rumors[n][o])) :
     o \in {q \in Nodes : status[q] + 1 < sequenceMap[n][q]}}

\* getRemoteMissingRumors: those of one origin, in the order in which the map is
\* iterated over
RemoteMissing(n, status) ==
  {SubSeq(rumors[n][o], status[o] + 1, Len(rumors[n][o])) :
     o \in {q \in Nodes : status[q] < sequenceMap[n][q]}}

\* What ExecStatusMessage sends for the status of the peer m
Answers(n, m, status) ==
  LET missing == RemoteMissing(n, status)
      request == IF LocalMissing(n, status) THEN {StatusPacket(n, m)} ELSE {}
  IN IF missing # {} THEN {request \cup {RumorsPacket(None, n, m, R)} : R \in missing}
     ELSE IF request # {} THEN {request}
     ELSE {{}} \cup SentTo(StatusPacket(n, m), neighbours[n], {m})

ExecStatus(n, p) ==
  /\ p.type = "status"
  /\ \E answer \in Answers(n, p.source, p.status) : net' = With(net \ {p}, answer)
  /\ UNCHANGED <<losses, rumorVars, loop, ackVars, routingVars>>

\* The channel that ExecAckMessage deletes is that of the ID of the ack packet itself
ExecAck(n, p) ==
  /\ p.type = "ack"
  /\ \E answer \in Answers(n, p.source, p.status) : net' = With(net \ {p}, answer)
  /\ acks' = [acks EXCEPT ![n] = @ \ {None}]
  /\ UNCHANGED <<losses, rumorVars, loop, waiting, routingVars>>

AntiEntropy(n, m) ==
  /\ Cardinality(net) <= MaxTraffic
  /\ m \in neighbours[n]
  /\ net' = With(net, {StatusPacket(n, m)})
  /\ UNCHANGED <<losses, rumorVars, loop, ackVars, routingVars>>

-----------------------------------------------------------------------------
Lose ==
  /\ losses < MaxLoss
  /\ losses' = losses + 1
  /\ \E p \in net : net' = net \ {p}
  /\ UNCHANGED <<rumorVars, loop, ackVars, routingVars>>

\* The listener receives its next packet
Receive(n) ==
  /\ loop[n] = None
  /\ \E p \in {q \in net : q.dest = n} :
       ExecRumors(n, p) \/ ExecStatus(n, p) \/ ExecAck(n, p)

\* The steps of n that need no ticker of the anti-entropy
NodeStep(n) ==
  \/ ProcessLocally(n)
  \/ CreateAckChannel(n)
  \/ AckTimeout(n)
  \/ Receive(n)
  \/ ProcessRumor(n)
  \/ EndRumors(n)

Next ==
  \/ \E n \in Nodes : Broadcast(n) \/ NodeStep(n)
  \/ \E n, m \in Nodes : AntiEntropy(n, m)
  \/ Lose

Spec == Init /\ [][Next]_vars

\* The listener, waitAck and the local handling of broadcasts go on; the ticker of the
\* anti-entropy picks every neighbour again and again.
Fairness ==
  /\ \A n \in Nodes : WF_vars(NodeStep(n))
  /\ \A n \in Nodes : \A m \in Nodes \ {n} : SF_vars(AntiEntropy(n, m))

FairSpec == Spec /\ Fairness

-----------------------------------------------------------------------------
(* Properties *)

\* Every variable keeps its range; every packet on the way has a destination
\* (searchNeighbourAndSndPkt sends only when it has found one).
TypeOK ==
  /\ net \subseteq Packet
  /\ losses \in 0..MaxLoss
  /\ sequenceMap \in [Nodes -> Status]
  /\ rumors \in [Nodes -> [Nodes -> Seq(Rumor)]]
  /\ processed \in [Nodes -> [Nodes -> Seq(Nat)]]
  /\ local \in [Nodes -> SUBSET Rumor]
  /\ loop \in [Nodes -> Loop \cup {None}]
  /\ waiting \in [Nodes -> SUBSET Waiting]
  /\ acks \in [Nodes -> SUBSET PacketID]
  /\ neighbours \in [Nodes -> SUBSET Nodes]
  /\ routes \in [Nodes -> [Nodes -> Nodes \cup {None}]]

\* The gossip layer implements the ordered broadcast: what the handlers of a node get
\* of another one is its rumors in order, each once (processRumors).
Channel == INSTANCE OrderedBroadcast WITH
  sent <- [o \in Nodes |-> sequenceMap[o][o]],
  accepted <- [d \in Nodes |-> [o \in Nodes |-> IF d = o THEN <<>> ELSE processed[d][o]]]

ImplementsChannel == Channel!Spec

\* The list of the rumors of an origin is what its sequence number says: the slice
\* that answers a status starts in it and at the right rumor (getRemoteMissingRumors
\* against createRumorsMsg and processRumors).
RumorsComplete ==
  \A n, o \in Nodes :
    rumors[n][o] = [i \in 1..sequenceMap[n][o] |-> [origin |-> o, sequence |-> i]]

\* A node handles each of its own broadcasts once, whatever its peers send back.
OwnOnce ==
  \A n \in Nodes : \A i, j \in DOMAIN processed[n][n] :
    processed[n][n][i] = processed[n][n][j] => i = j

\* A neighbour is routed to directly, whatever relays its rumors (updateRT): neighbours
\* and routing table are two fields that only agree as long as each update checks both.
NeighboursDirect ==
  \A n \in Nodes : \A o \in neighbours[n] : routes[n][o] = o

\* The nodes agree on the rumors again and again: no rumor is missing at a node for
\* good, whatever is lost and whoever gives up on its acks (the anti-entropy,
\* ExecStatusMessage).
Agree == \A n, o \in Nodes : sequenceMap[n][o] = sequenceMap[o][o]
Delivered == []<>Agree
===============================================================================
