----------------------------- MODULE GossipProofs -----------------------------
(***************************************************************************)
(* The gossip layer keeps and hands on the rumors of every origin in order *)
(* (RumorsComplete), routes to its neighbours directly (NeighboursDirect)  *)
(* and, where no node is its own peer, handles every rumor once (OwnOnce)  *)
(* and implements OrderedBroadcast: for every set of nodes, peers and      *)
(* broadcasts, and whatever is lost.                                       *)
(*                                                                         *)
(* A rumor that is somewhere was broadcast (Told): its sequence number is  *)
(* at most that of its origin.  So no node takes a rumor of its own for a  *)
(* new one, and none becomes its own neighbour (Apart).                    *)
(***************************************************************************)
EXTENDS Gossip, SequenceTheorems, TLAPS

\* A rumor that its origin has broadcast
Announced(r) == r.sequence <= sequenceMap[r.origin][r.origin]

Tells(p) == p.type = "rumors" => \A i \in 1 .. Len(p.rumors) : Announced(p.rumors[i])

\* Wherever a rumor is, it was broadcast
Told ==
  /\ \A p \in net : Tells(p)
  /\ \A n \in Nodes : loop[n] # None => Tells(loop[n].pkt)
  /\ \A n \in Nodes : \A w \in waiting[n] : Announced(w.id)
  /\ \A n \in Nodes : \A r \in local[n] : Announced(r)

\* No node is ahead of an origin
Behind == \A n, o \in Nodes : sequenceMap[n][o] <= sequenceMap[o][o]

Indexed == \A n \in Nodes : loop[n] # None => loop[n].index \in Nat \ {0}

RumorInv == TypeOK /\ Indexed /\ RumorsComplete /\ Behind /\ Told

-----------------------------------------------------------------------------
(* Rumors and packets *)

\* One more rumor makes the list that its number says.
LEMMA OneMore ==
  ASSUME NEW o \in Nodes, NEW k \in Nat, NEW list \in Seq(Rumor),
         list = [i \in 1 .. k |-> [origin |-> o, sequence |-> i]]
  PROVE  Append(list, [origin |-> o, sequence |-> k + 1])
           = [i \in 1 .. k + 1 |-> [origin |-> o, sequence |-> i]]
<1> DEFINE r == [origin |-> o, sequence |-> k + 1]
           more == [i \in 1 .. k + 1 |-> [origin |-> o, sequence |-> i]]
<1>1. r \in Rumor BY DEF Rumor
<1>2. Len(list) = k BY LenProperties
<1>3. /\ Append(list, r) \in Seq(Rumor) /\ Len(Append(list, r)) = k + 1
      /\ \A i \in 1 .. k : Append(list, r)[i] = list[i]
      /\ Append(list, r)[k + 1] = r
  BY <1>1, <1>2, AppendProperties
<1>4. \A i \in 1 .. k + 1 : Append(list, r)[i] = more[i] BY <1>3
<1>5. DOMAIN Append(list, r) = 1 .. k + 1 /\ Append(list, r) = [i \in 1 .. k + 1 |-> Append(list, r)[i]]
  BY <1>3, LenProperties
<1> QED BY <1>4, <1>5

\* What was broadcast stays so.
LEMMA AnnouncedGrows ==
  ASSUME NEW r \in Rumor, Announced(r), TypeOK,
         \A o \in Nodes : sequenceMap'[o][o] \in Nat /\ sequenceMap[o][o] <= sequenceMap'[o][o]
  PROVE  Announced(r)'
<1>1. r.origin \in Nodes /\ r.sequence \in Nat BY DEF Rumor
<1>2. sequenceMap[r.origin][r.origin] \in Nat BY <1>1 DEF TypeOK, Status
<1> QED BY <1>1, <1>2 DEF Announced

\* What a packet tells stays so.
LEMMA TellsGrows ==
  ASSUME NEW p \in Packet, Tells(p), TypeOK,
         \A o \in Nodes : sequenceMap'[o][o] \in Nat /\ sequenceMap[o][o] <= sequenceMap'[o][o]
  PROVE  Tells(p)'
<1> SUFFICES ASSUME p.type = "rumors", NEW i \in 1 .. Len(p.rumors)
             PROVE  Announced(p.rumors[i])'
  BY DEF Tells
<1>1. p.rumors \in Seq(Rumor) BY DEF Packet, RumorsPkt, StatusPkt, AckPkt
<1>2. p.rumors[i] \in Rumor BY <1>1, ElementOfSeq
<1> QED BY <1>2, AnnouncedGrows DEF Tells

\* The packets that searchNeighbourAndSndPkt sends
LEMMA SentToNeighbour ==
  ASSUME NEW p \in Packet, NEW N \in SUBSET Nodes, NEW tried,
         NEW S \in SentTo(p, N, tried), NEW q \in S
  PROVE  /\ q \in Packet /\ q.type = p.type /\ q.source = p.source
         /\ q.dest \in N \ tried
         /\ p.type = "rumors" => q.rumors = p.rumors
<1>1. PICK m \in N \ tried : q = [p EXCEPT !.dest = m] BY DEF SentTo
<1>2. m \in Nodes OBVIOUS
<1>3. CASE p \in RumorsPkt BY <1>1, <1>2, <1>3 DEF Packet, RumorsPkt
<1>4. CASE p \in StatusPkt BY <1>1, <1>2, <1>4 DEF Packet, StatusPkt
<1>5. CASE p \in AckPkt BY <1>1, <1>2, <1>5 DEF Packet, AckPkt
<1> QED BY <1>3, <1>4, <1>5 DEF Packet

\* A slice of the rumors that a node keeps has rumors that were broadcast.
LEMMA SliceTells ==
  ASSUME RumorInv, NEW n \in Nodes, NEW o \in Nodes, NEW k \in Nat
  PROVE  LET R == SubSeq(rumors[n][o], k + 1, Len(rumors[n][o]))
         IN  R \in Seq(Rumor) /\ \A i \in 1 .. Len(R) : Announced(R[i])
<1> DEFINE list == rumors[n][o]
           R == SubSeq(list, k + 1, Len(list))
<1>1. list \in Seq(Rumor) /\ sequenceMap[n][o] \in Nat /\ sequenceMap[o][o] \in Nat
      /\ sequenceMap[n][o] <= sequenceMap[o][o]
  BY DEF RumorInv, TypeOK, Status, Behind
<1>2. list = [i \in 1 .. sequenceMap[n][o] |-> [origin |-> o, sequence |-> i]]
  BY DEF RumorInv, RumorsComplete
<1> HIDE DEF list
<1>3. Len(list) = sequenceMap[n][o]
  <2>1. DOMAIN list = 1 .. Len(list) /\ Len(list) \in Nat BY <1>1, LenProperties
  <2> QED BY <1>1, <1>2, <2>1
<1>4. \A i \in k + 1 .. Len(list) : list[i] \in Rumor
  <2> SUFFICES ASSUME NEW i \in k + 1 .. Len(list) PROVE list[i] \in Rumor OBVIOUS
  <2>1. i \in 1 .. Len(list) BY <1>1, <1>3
  <2> QED BY <1>1, <2>1, ElementOfSeq
<1>5. k + 1 \in Int /\ Len(list) \in Int BY <1>1, <1>3
<1>6. /\ R \in Seq(Rumor)
      /\ Len(R) = IF k + 1 <= Len(list) THEN Len(list) - (k + 1) + 1 ELSE 0
      /\ \A i \in 1 .. Len(list) - (k + 1) + 1 : R[i] = list[k + 1 + i - 1]
  BY <1>4, <1>5, SubSeqProperties
<1> HIDE DEF R
<1>7. ASSUME NEW i \in 1 .. Len(R) PROVE Announced(R[i])
  <2>1. i \in 1 .. Len(list) - (k + 1) + 1 /\ k + 1 + i - 1 \in 1 .. sequenceMap[n][o]
    BY <1>1, <1>3, <1>6
  <2>2. R[i] = list[k + 1 + i - 1] BY <1>6, <2>1
  <2>3. R[i] = [origin |-> o, sequence |-> k + 1 + i - 1] BY <1>2, <2>1, <2>2
  <2> QED BY <1>1, <2>1, <2>3 DEF Announced
<1> QED BY <1>6, <1>7 DEF R, list

\* The answers to a status go to its sender or to a neighbour.
LEMMA AnswersTell ==
  ASSUME RumorInv, NEW n \in Nodes, NEW m \in Nodes, NEW status \in Status,
         NEW answer \in Answers(n, m, status), NEW p \in answer
  PROVE  /\ p \in Packet /\ Tells(p) /\ p.source = n
         /\ p.dest = m \/ p.dest \in neighbours[n] \ {m}
<1>1. sequenceMap[n] \in Status /\ neighbours[n] \subseteq Nodes BY DEF RumorInv, TypeOK
<1>2. /\ StatusPacket(n, m) \in Packet /\ StatusPacket(n, m).type = "status"
      /\ StatusPacket(n, m).source = n /\ StatusPacket(n, m).dest = m
  BY <1>1 DEF StatusPacket, Packet, StatusPkt
<1>3. CASE p = StatusPacket(n, m) BY <1>2, <1>3 DEF Tells
<1>4. CASE \E R \in RemoteMissing(n, status) : p = RumorsPacket(None, n, m, R)
  <2>1. PICK o \in Nodes : p = RumorsPacket(None, n, m,
                                 SubSeq(rumors[n][o], status[o] + 1, Len(rumors[n][o])))
    BY <1>4 DEF RemoteMissing
  <2> DEFINE R == SubSeq(rumors[n][o], status[o] + 1, Len(rumors[n][o]))
  <2>2. status[o] \in Nat BY DEF Status
  <2>3. R \in Seq(Rumor) /\ \A i \in 1 .. Len(R) : Announced(R[i]) BY <2>2, SliceTells
  <2> HIDE DEF R
  <2>4. p = RumorsPacket(None, n, m, R) BY <2>1 DEF R
  <2> QED BY <2>3, <2>4 DEF RumorsPacket, Packet, RumorsPkt, PacketID, Tells
<1>5. CASE answer \in SentTo(StatusPacket(n, m), neighbours[n], {m})
  <2>1. /\ p \in Packet /\ p.type = "status" /\ p.source = n
        /\ p.dest \in neighbours[n] \ {m}
    BY <1>1, <1>2, <1>5, SentToNeighbour
  <2> QED BY <2>1 DEF Tells
<1> QED BY <1>3, <1>4, <1>5 DEF Answers

-----------------------------------------------------------------------------
(* RumorInv *)

\* What the variables but net and the counters of rumors have to be
Rest ==
  /\ losses \in 0 .. MaxLoss
  /\ processed \in [Nodes -> [Nodes -> Seq(Nat)]]
  /\ local \in [Nodes -> SUBSET Rumor]
  /\ loop \in [Nodes -> Loop \cup {None}]
  /\ \A n \in Nodes : loop[n] # None => loop[n].index \in Nat \ {0} /\ Tells(loop[n].pkt)
  /\ waiting \in [Nodes -> SUBSET Waiting]
  /\ \A n \in Nodes : \A w \in waiting[n] : Announced(w.id)
  /\ acks \in [Nodes -> SUBSET PacketID]
  /\ neighbours \in [Nodes -> SUBSET Nodes]
  /\ routes \in [Nodes -> [Nodes -> Nodes \cup {None}]]

\* The invariant says it of them now.
LEMMA RestNow ==
  ASSUME RumorInv PROVE Rest
BY DEF RumorInv, TypeOK, Indexed, Told, Rest

\* A step that tells no rumor of more than it knew of.
LEMMA SendKeeps ==
  ASSUME RumorInv, UNCHANGED <<sequenceMap, rumors>>,
         \A p \in net' : p \in net \/ (p \in Packet /\ Tells(p)),
         Rest', \A n \in Nodes : local'[n] \subseteq local[n]
  PROVE  RumorInv'
<1>1. TypeOK' BY DEF RumorInv, TypeOK, Rest
<1>2. Indexed' BY DEF Indexed, Rest
<1>3. RumorsComplete' /\ Behind' BY DEF RumorInv, RumorsComplete, Behind
<1>4. Told' BY DEF RumorInv, Told, Tells, Announced, Rest
<1> QED BY <1>1, <1>2, <1>3, <1>4 DEF RumorInv

\* A broadcast is announced as it is made.
LEMMA BroadcastKeeps ==
  ASSUME RumorInv, NEW n \in Nodes, Broadcast(n)
  PROVE  RumorInv'
<1>0. sequenceMap[n][n] \in Nat BY DEF RumorInv, TypeOK, Status
<1> PICK k \in Nat : k = sequenceMap[n][n] BY <1>0
<1>r. [origin |-> n, sequence |-> k + 1] \in Rumor BY DEF Rumor
<1> PICK r \in Rumor : r = [origin |-> n, sequence |-> k + 1] BY <1>r
<1> PICK p : p = RumorsPacket(r, n, n, <<r>>) OBVIOUS
<1>1. /\ k \in Nat /\ r \in Rumor /\ r.origin = n /\ r.sequence = k + 1
      /\ <<r>> \in Seq(Rumor) /\ Len(<<r>>) = 1 /\ <<r>>[1] = r
  OBVIOUS
<1>2. /\ sequenceMap' = [sequenceMap EXCEPT ![n][n] = k + 1]
      /\ rumors' = [rumors EXCEPT ![n][n] = Append(@, r)]
      /\ local' = [local EXCEPT ![n] = @ \cup {r}]
      /\ UNCHANGED <<losses, processed, loop, acks, neighbours, routes>>
  BY DEF Broadcast, routingVars
<1>3. /\ \A q \in net' : q \in net \/ \E m \in Nodes : q = [p EXCEPT !.dest = m]
      /\ waiting' \in [Nodes -> SUBSET Waiting]
      /\ \A m \in Nodes : \A w \in waiting'[m] : w \in waiting[m] \/ w.id = r
  <2>0. \/ UNCHANGED <<net, waiting>>
        \/ \E m \in neighbours[n] :
             /\ net' = With(net, {[p EXCEPT !.dest = m]})
             /\ waiting' = [waiting EXCEPT ![n] =
                             @ \cup {[id |-> r, neighbours |-> neighbours[n],
                                      tried |-> {m}, pc |-> "new"]}]
    BY DEF Broadcast
  <2>1. CASE UNCHANGED <<net, waiting>> BY <2>1 DEF RumorInv, TypeOK
  <2>2. ASSUME NEW m \in neighbours[n], net' = With(net, {[p EXCEPT !.dest = m]}),
               waiting' = [waiting EXCEPT ![n] =
                             @ \cup {[id |-> r, neighbours |-> neighbours[n],
                                      tried |-> {m}, pc |-> "new"]}]
        PROVE  /\ \A q \in net' : q \in net \/ \E o \in Nodes : q = [p EXCEPT !.dest = o]
               /\ waiting' \in [Nodes -> SUBSET Waiting]
               /\ \A o \in Nodes : \A w \in waiting'[o] : w \in waiting[o] \/ w.id = r
    <3> DEFINE v == [id |-> r, neighbours |-> neighbours[n], tried |-> {m}, pc |-> "new"]
    <3>1. neighbours[n] \subseteq Nodes /\ waiting \in [Nodes -> SUBSET Waiting]
      BY DEF RumorInv, TypeOK
    <3>2. v \in Waiting /\ v.id = r BY <1>1, <3>1 DEF Waiting
    <3>3. \A q \in net' : q \in net \/ \E o \in Nodes : q = [p EXCEPT !.dest = o]
      BY <2>2, <3>1 DEF With
    <3>4. waiting' = [waiting EXCEPT ![n] = @ \cup {v}] BY <2>2
    <3> HIDE DEF v
    <3>5. /\ waiting' \in [Nodes -> SUBSET Waiting]
          /\ \A o \in Nodes : \A w \in waiting'[o] : w \in waiting[o] \/ w.id = r
      BY <3>1, <3>2, <3>4
    <3> QED BY <3>3, <3>5
  <2> QED BY <2>0, <2>1, <2>2
<1>4. \A m, o \in Nodes : sequenceMap'[m][o] = IF m = n /\ o = n THEN k + 1 ELSE sequenceMap[m][o]
  BY <1>2 DEF RumorInv, TypeOK, Status
<1>5. \A m, o \in Nodes : sequenceMap[m][o] \in Nat BY DEF RumorInv, TypeOK, Status
<1>6. \A o \in Nodes : sequenceMap'[o][o] \in Nat /\ sequenceMap[o][o] <= sequenceMap'[o][o]
  BY <1>1, <1>4, <1>5
<1>7. Announced(r)'
  <2>1. Announced(r)' <=> r.sequence <= sequenceMap'[r.origin][r.origin] BY DEF Announced
  <2> QED BY <1>1, <1>4, <2>1
<1>8. ASSUME NEW q \in net' PROVE q \in Packet /\ Tells(q)'
  <2>1. CASE q \in net
    <3>1. q \in Packet /\ Tells(q) BY <2>1 DEF RumorInv, TypeOK, Told
    <3>2. TypeOK BY DEF RumorInv
    <3> QED BY <1>6, <3>1, <3>2, TellsGrows
  <2>2. ASSUME NEW m \in Nodes, q = [p EXCEPT !.dest = m] PROVE q \in Packet /\ Tells(q)'
    <3>1. /\ q = [type |-> "rumors", id |-> r, source |-> n, relay |-> n, dest |-> m,
                  rumors |-> <<r>>]
      BY <2>2 DEF RumorsPacket
    <3>2. q \in Packet BY <1>1, <3>1 DEF Packet, RumorsPkt, PacketID
    <3>3. \A i \in 1 .. Len(q.rumors) : q.rumors[i] = r BY <1>1, <3>1
    <3> QED BY <1>7, <3>2, <3>3 DEF Tells
  <2> QED BY <1>3, <2>1, <2>2
<1>9. RumorsComplete'
  <2> SUFFICES ASSUME NEW m \in Nodes, NEW o \in Nodes
               PROVE  rumors'[m][o] = [i \in 1 .. sequenceMap'[m][o] |->
                                         [origin |-> o, sequence |-> i]]
    BY DEF RumorsComplete
  <2>1. rumors[m][o] = [i \in 1 .. sequenceMap[m][o] |-> [origin |-> o, sequence |-> i]]
    BY DEF RumorInv, RumorsComplete
  <2>0. rumors[m][o] \in Seq(Rumor) BY DEF RumorInv, TypeOK
  <2>2. CASE m = n /\ o = n
    <3>1. rumors'[n][n] = Append(rumors[n][n], r) BY <1>2 DEF RumorInv, TypeOK
    <3>2. rumors[n][n] \in Seq(Rumor)
          /\ rumors[n][n] = [i \in 1 .. k |-> [origin |-> n, sequence |-> i]]
      BY <2>0, <2>1, <2>2
    <3>3. Append(rumors[n][n], r) = [i \in 1 .. k + 1 |-> [origin |-> n, sequence |-> i]]
      BY <3>2, OneMore
    <3>4. sequenceMap'[n][n] = k + 1 BY <1>4
    <3> QED BY <2>2, <3>1, <3>3, <3>4
  <2>3. CASE ~ (m = n /\ o = n)
    <3>1. rumors'[m][o] = rumors[m][o] BY <1>2, <2>3 DEF RumorInv, TypeOK
    <3> QED BY <1>4, <2>1, <2>3, <3>1
  <2> QED BY <2>2, <2>3
<1>10. Behind' BY <1>1, <1>4, <1>5 DEF RumorInv, Behind
<1>11. Told'
  <2>1. ASSUME NEW m \in Nodes, loop'[m] # None PROVE Tells(loop[m].pkt)'
    <3>1. loop[m] \in Loop /\ Tells(loop[m].pkt) BY <1>2, <2>1 DEF RumorInv, TypeOK, Told
    <3>2. PICK q \in Packet : q = loop[m].pkt BY <3>1 DEF Loop, Packet
    <3>3. TypeOK BY DEF RumorInv
    <3>4. Tells(q)' BY <1>6, <3>1, <3>2, <3>3, TellsGrows
    <3>5. loop'[m].pkt = q BY <1>2, <3>2
    <3> QED BY <3>4, <3>5 DEF Tells, Announced
  <2>2. ASSUME NEW m \in Nodes, NEW w \in waiting'[m] PROVE Announced(w.id)'
    <3>1. w \in waiting[m] => w.id \in Rumor /\ Announced(w.id)
      BY DEF RumorInv, TypeOK, Told, Waiting
    <3>2. TypeOK BY DEF RumorInv
    <3>3. w \in waiting[m] => Announced(w.id)' BY <1>6, <3>1, <3>2, AnnouncedGrows
    <3> QED BY <1>3, <1>7, <3>3
  <2>3. ASSUME NEW m \in Nodes, NEW q \in local'[m] PROVE Announced(q)'
    <3>1. q \in local[m] \/ q = r BY <1>2 DEF RumorInv, TypeOK
    <3>2. q \in local[m] => q \in Rumor /\ Announced(q) BY DEF RumorInv, TypeOK, Told
    <3>3. TypeOK BY DEF RumorInv
    <3>4. q \in local[m] => Announced(q)' BY <1>6, <3>2, <3>3, AnnouncedGrows
    <3> QED BY <1>7, <3>1, <3>4
  <2> QED BY <1>8, <2>1, <2>2, <2>3 DEF Told
<1>12. TypeOK'
  <2>1. sequenceMap' \in [Nodes -> Status] BY <1>1, <1>2 DEF RumorInv, TypeOK, Status
  <2>2. Append(rumors[n][n], r) \in Seq(Rumor)
    BY <1>1, AppendProperties DEF RumorInv, TypeOK
  <2>3. rumors' \in [Nodes -> [Nodes -> Seq(Rumor)]] BY <1>2, <2>2 DEF RumorInv, TypeOK
  <2>4. local' \in [Nodes -> SUBSET Rumor] BY <1>1, <1>2 DEF RumorInv, TypeOK
  <2> QED BY <1>2, <1>3, <1>8, <2>1, <2>3, <2>4 DEF RumorInv, TypeOK
<1>13. Indexed' BY <1>2 DEF RumorInv, Indexed
<1> QED BY <1>9, <1>10, <1>11, <1>12, <1>13 DEF RumorInv

\* waitAck resends what it sent.
LEMMA WaitAckKeeps ==
  ASSUME RumorInv, NEW n \in Nodes, CreateAckChannel(n) \/ AckTimeout(n)
  PROVE  RumorInv'
<1>1. PICK w \in waiting[n] :
        /\ \/ /\ acks' = [acks EXCEPT ![n] = @ \cup {w.id}]
              /\ waiting' = [waiting EXCEPT ![n] = (@ \ {w}) \cup {[w EXCEPT !.pc = "wait"]}]
              /\ UNCHANGED net
           \/ /\ waiting' = [waiting EXCEPT ![n] = @ \ {w}]
              /\ UNCHANGED <<acks, net>>
           \/ \E m \in w.neighbours \ w.tried :
                /\ net' = With(net, {RumorsPacket(w.id, n, m, <<w.id>>)})
                /\ waiting' = [waiting EXCEPT ![n] =
                                 (@ \ {w}) \cup {[w EXCEPT !.tried = @ \cup {m}]}]
                /\ UNCHANGED acks
        /\ UNCHANGED <<losses, sequenceMap, rumors, processed, local, loop, neighbours, routes>>
  BY DEF CreateAckChannel, AckTimeout, rumorVars, routingVars
<1>2. w \in Waiting /\ w.id \in Rumor /\ Announced(w.id)
  BY DEF RumorInv, TypeOK, Told, Waiting
<1> DEFINE S == {RumorsPacket(w.id, n, m, <<w.id>>) : m \in w.neighbours}
<1>3. net' \subseteq net \cup S BY <1>1 DEF With
<1>4. ASSUME NEW p \in S PROVE p \in Packet /\ Tells(p)
  <2>1. PICK m \in w.neighbours : p = RumorsPacket(w.id, n, m, <<w.id>>) OBVIOUS
  <2>2. m \in Nodes BY <1>2 DEF Waiting
  <2>3. <<w.id>> \in Seq(Rumor) /\ Len(<<w.id>>) = 1 /\ <<w.id>>[1] = w.id BY <1>2
  <2>4. p \in RumorsPkt BY <1>2, <2>1, <2>2, <2>3 DEF RumorsPacket, RumorsPkt, PacketID
  <2>5. \A i \in 1 .. Len(p.rumors) : p.rumors[i] = w.id BY <2>1, <2>3 DEF RumorsPacket
  <2> QED BY <1>2, <2>4, <2>5 DEF Packet, Tells
<1>5. /\ waiting' \in [Nodes -> SUBSET Waiting]
      /\ \A m \in Nodes : \A v \in waiting'[m] : v \in waiting[m] \/ v.id = w.id
  <2>1. [w EXCEPT !.pc = "wait"] \in Waiting BY <1>2 DEF Waiting
  <2>2. \A m \in w.neighbours : [w EXCEPT !.tried = @ \cup {m}] \in Waiting
    BY <1>2 DEF Waiting
  <2>3. [w EXCEPT !.pc = "wait"].id = w.id
        /\ \A m \in w.neighbours : [w EXCEPT !.tried = @ \cup {m}].id = w.id
    BY <1>2 DEF Waiting
  <2>4. waiting \in [Nodes -> SUBSET Waiting] BY DEF RumorInv, TypeOK
  <2>5. \E v : /\ v \in Waiting /\ v.id = w.id
               /\ \/ waiting' = [waiting EXCEPT ![n] = (@ \ {w}) \cup {v}]
                  \/ waiting' = [waiting EXCEPT ![n] = @ \ {w}]
    BY <1>1, <1>2, <2>1, <2>2, <2>3
  <2> QED BY <2>4, <2>5
<1>6. acks' \in [Nodes -> SUBSET PacketID]
  <2>1. acks \in [Nodes -> SUBSET PacketID] /\ w.id \in PacketID
    BY <1>2 DEF RumorInv, TypeOK, PacketID
  <2>2. acks' = acks \/ acks' = [acks EXCEPT ![n] = @ \cup {w.id}] BY <1>1
  <2> QED BY <2>1, <2>2
<1>7. \A m \in Nodes : \A v \in waiting'[m] : Announced(v.id)
  BY <1>2, <1>5 DEF RumorInv, Told
<1> HIDE DEF S
<1>8. Rest' BY <1>1, <1>5, <1>6, <1>7, RestNow DEF Rest, Tells, Announced
<1> QED BY <1>1, <1>3, <1>4, <1>8, SendKeeps

\* A broadcast is processed by its own node.
LEMMA LocallyKeeps ==
  ASSUME RumorInv, NEW n \in Nodes, ProcessLocally(n)
  PROVE  RumorInv'
<1>1. PICK r \in local[n] : /\ local' = [local EXCEPT ![n] = @ \ {r}]
                            /\ processed' = [processed EXCEPT ![n][n] = Append(@, r.sequence)]
  BY DEF ProcessLocally
<1>2. UNCHANGED <<net, losses, sequenceMap, rumors, loop, waiting, acks, neighbours, routes>>
  BY DEF ProcessLocally, ackVars, routingVars
<1>3. Append(processed[n][n], r.sequence) \in Seq(Nat)
  <2>1. processed[n][n] \in Seq(Nat) /\ r.sequence \in Nat
    BY DEF RumorInv, TypeOK, Rumor
  <2> QED BY <2>1, AppendProperties
<1>4. processed' \in [Nodes -> [Nodes -> Seq(Nat)]] BY <1>1, <1>3 DEF RumorInv, TypeOK
<1>5. local' \in [Nodes -> SUBSET Rumor] /\ \A m \in Nodes : local'[m] \subseteq local[m]
  BY <1>1 DEF RumorInv, TypeOK
<1>6. net' \subseteq net \cup {} BY <1>2
<1>7. Rest' BY <1>2, <1>4, <1>5, RestNow DEF Rest, Tells, Announced
<1> QED BY <1>2, <1>5, <1>6, <1>7, SendKeeps

\* The listener starts on a packet, and ends it with an ack and the packet itself.
LEMMA PacketKeeps ==
  ASSUME RumorInv, NEW n \in Nodes, EndRumors(n) \/ \E p \in net : ExecRumors(n, p)
  PROVE  RumorInv'
<1>1. CASE EndRumors(n)
  <2> PICK l : l = loop[n] OBVIOUS
  <2> PICK p : p = l.pkt OBVIOUS
  <2>1. l \in Loop /\ Tells(p) BY <1>1 DEF EndRumors, RumorInv, TypeOK, Told
  <2>2. p \in RumorsPkt /\ p \in Packet /\ p.type = "rumors"
    BY <2>1 DEF Loop, Packet, RumorsPkt
  <2> PICK ack : ack = AckPacket(p.id, n, p.source) OBVIOUS
  <2>3. ack \in Packet /\ Tells(ack)
    <3>1. sequenceMap[n] \in Status BY DEF RumorInv, TypeOK
    <3> QED BY <2>2, <3>1 DEF AckPacket, Packet, AckPkt, RumorsPkt, Tells
  <2> PICK q : q = [p EXCEPT !.relay = n] OBVIOUS
  <2>4. q \in Packet /\ Tells(q) BY <2>1, <2>2 DEF Packet, RumorsPkt, Tells
  <2>5. PICK forward \in SentTo(q, neighbours[n], {p.source, p.relay}) \cup {{}} :
          net' \subseteq net \cup {ack} \cup forward
    <3>1. \/ net' = net
          \/ \E f \in IF l.fresh THEN SentTo(q, neighbours[n], {p.source, p.relay}) ELSE {{}} :
               net' = With(net, {ack} \cup f)
      BY <1>1 DEF EndRumors
    <3>2. CASE net' = net BY <3>2
    <3>3. CASE \E f \in IF l.fresh THEN SentTo(q, neighbours[n], {p.source, p.relay}) ELSE {{}} :
                 net' = With(net, {ack} \cup f)
      <4>1. PICK f \in IF l.fresh THEN SentTo(q, neighbours[n], {p.source, p.relay}) ELSE {{}} :
                 net' = With(net, {ack} \cup f)
        BY <3>3
      <4>2. f \in SentTo(q, neighbours[n], {p.source, p.relay}) \cup {{}} BY <4>1
      <4>3. net' \subseteq net \cup {ack} \cup f BY <4>1 DEF With
      <4> QED BY <4>2, <4>3
    <3> QED BY <3>1, <3>2, <3>3
  <2>6. neighbours[n] \in SUBSET Nodes BY DEF RumorInv, TypeOK
  <2>7. ASSUME NEW f \in forward PROVE f \in Packet /\ Tells(f)
    <3>1. forward \in SentTo(q, neighbours[n], {p.source, p.relay}) BY <2>7
    <3>0. q \in RumorsPkt BY <2>2 DEF RumorsPkt
    <3>2. PICK m \in neighbours[n] : f = [q EXCEPT !.dest = m] BY <2>7, <3>1 DEF SentTo
    <3>3. f \in RumorsPkt /\ f.type = q.type /\ f.rumors = q.rumors
      BY <2>6, <3>0, <3>2 DEF RumorsPkt
    <3> QED BY <2>4, <3>3 DEF Tells, Packet
  <2>8. /\ loop' = [loop EXCEPT ![n] = None]
        /\ UNCHANGED <<losses, sequenceMap, rumors, processed, local, waiting, acks,
                       neighbours, routes>>
    BY <1>1 DEF EndRumors, rumorVars, ackVars, routingVars
  <2>9. loop' \in [Nodes -> Loop \cup {None}] /\ \A m \in Nodes : loop'[m] \in {loop[m], None}
    BY <2>8 DEF RumorInv, TypeOK
  <2>10. net' \subseteq net \cup ({ack} \cup forward) BY <2>5
  <2>11. \A m \in Nodes : loop'[m] # None =>
           loop'[m].index \in Nat \ {0} /\ Tells(loop'[m].pkt)
    BY <2>9 DEF RumorInv, Indexed, Told
  <2>12. Rest' BY <2>8, <2>9, <2>11, RestNow DEF Rest, Tells, Announced
  <2>13. \A f \in {ack} \cup forward : f \in Packet /\ Tells(f) BY <2>3, <2>7
  <2> QED BY <2>8, <2>10, <2>12, <2>13, SendKeeps
<1>2. ASSUME NEW p \in net, ExecRumors(n, p) PROVE RumorInv'
  <2> PICK l : l = [pkt |-> p, index |-> 1, fresh |-> FALSE] OBVIOUS
  <2>1. p \in RumorsPkt /\ Tells(p)
    BY <1>2 DEF ExecRumors, RumorInv, TypeOK, Told, Packet, StatusPkt, AckPkt
  <2>2. l \in Loop /\ l.index = 1 /\ l.pkt = p BY <2>1 DEF Loop
  <2>3. /\ loop' = [loop EXCEPT ![n] = l] /\ net' \subseteq net \cup {}
        /\ UNCHANGED <<losses, sequenceMap, rumors, processed, local, waiting, acks,
                       neighbours, routes>>
    BY <1>2 DEF ExecRumors, rumorVars, ackVars, routingVars
  <2>4. loop' \in [Nodes -> Loop \cup {None}] /\ \A m \in Nodes : loop'[m] \in {loop[m], l}
    BY <2>2, <2>3 DEF RumorInv, TypeOK
  <2>5. \A m \in Nodes : loop'[m] # None =>
           loop'[m].index \in Nat \ {0} /\ Tells(loop'[m].pkt)
    BY <2>1, <2>2, <2>4 DEF RumorInv, Indexed, Told
  <2>6. Rest' BY <2>3, <2>4, <2>5, RestNow DEF Rest, Tells, Announced
  <2> QED BY <2>3, <2>6, SendKeeps
<1> QED BY <1>1, <1>2

\* Statuses are answered, sent and, like all packets, lost.
LEMMA StatusKeeps ==
  ASSUME RumorInv,
         \/ \E n \in Nodes : \E p \in net : ExecStatus(n, p) \/ ExecAck(n, p)
         \/ \E n, m \in Nodes : AntiEntropy(n, m)
         \/ Lose
  PROVE  RumorInv'
<1>1. ASSUME NEW n \in Nodes, NEW p \in net, ExecStatus(n, p) \/ ExecAck(n, p) PROVE RumorInv'
  <2>1. p.source \in Nodes /\ p.status \in Status
    BY <1>1 DEF ExecStatus, ExecAck, RumorInv, TypeOK, Packet, RumorsPkt, StatusPkt, AckPkt
  <2>2. PICK answer \in Answers(n, p.source, p.status) : net' \subseteq net \cup answer
    BY <1>1 DEF ExecStatus, ExecAck, With
  <2>3. \A q \in answer : q \in Packet /\ Tells(q) BY <2>1, <2>2, AnswersTell
  <2>4. /\ UNCHANGED <<losses, sequenceMap, rumors, processed, local, loop, waiting,
                       neighbours, routes>>
        /\ acks' = acks \/ acks' = [acks EXCEPT ![n] = @ \ {None}]
    BY <1>1 DEF ExecStatus, ExecAck, rumorVars, ackVars, routingVars
  <2>5. acks' \in [Nodes -> SUBSET PacketID] BY <2>4 DEF RumorInv, TypeOK
  <2>6. Rest' BY <2>4, <2>5, RestNow DEF Rest, Tells, Announced
  <2> QED BY <2>2, <2>3, <2>4, <2>6, SendKeeps
<1>2. ASSUME NEW n \in Nodes, NEW m \in Nodes, AntiEntropy(n, m) PROVE RumorInv'
  <2>1. /\ net' \subseteq net \cup {StatusPacket(n, m)}
        /\ UNCHANGED <<losses, sequenceMap, rumors, processed, local, loop, waiting, acks,
                       neighbours, routes>>
    BY <1>2 DEF AntiEntropy, With, rumorVars, ackVars, routingVars
  <2>2. sequenceMap[n] \in Status BY DEF RumorInv, TypeOK
  <2>3. StatusPacket(n, m) \in Packet /\ Tells(StatusPacket(n, m))
    BY <2>2 DEF StatusPacket, Packet, StatusPkt, Tells
  <2>4. Rest' BY <2>1, RestNow DEF Rest, Tells, Announced
  <2> QED BY <2>1, <2>3, <2>4, SendKeeps
<1>3. CASE Lose
  <2>1. /\ net' \subseteq net \cup {} /\ losses < MaxLoss /\ losses' = losses + 1
        /\ UNCHANGED <<sequenceMap, rumors, processed, local, loop, waiting, acks,
                       neighbours, routes>>
    BY <1>3 DEF Lose, rumorVars, ackVars, routingVars
  <2>2. losses' \in 0 .. MaxLoss
    BY <2>1, GossipAssumption DEF GossipAssumption, RumorInv, TypeOK
  <2>3. Rest' BY <2>1, <2>2, RestNow DEF Rest, Tells, Announced
  <2> QED BY <2>1, <2>3, SendKeeps
<1> QED BY <1>1, <1>2, <1>3

\* A rumor is taken only if it is the next of its origin, which has broadcast it.
LEMMA ProcessKeeps ==
  ASSUME RumorInv, NEW n \in Nodes, ProcessRumor(n)
  PROVE  RumorInv'
<1>s. sequenceMap \in [Nodes -> [Nodes -> Nat]] BY DEF RumorInv, TypeOK, Status
<1>t. rumors \in [Nodes -> [Nodes -> Seq(Rumor)]] BY DEF RumorInv, TypeOK
<1>p. processed \in [Nodes -> [Nodes -> Seq(Nat)]] BY DEF RumorInv, TypeOK
<1>l. /\ loop \in [Nodes -> Loop \cup {None}]
      /\ \A m \in Nodes : loop[m] # None => loop[m].index \in Nat \ {0} /\ Tells(loop[m].pkt)
  BY DEF RumorInv, TypeOK, Indexed, Told
<1>n. neighbours \in [Nodes -> SUBSET Nodes] BY DEF RumorInv, TypeOK
<1>r. routes \in [Nodes -> [Nodes -> Nodes \cup {None}]] BY DEF RumorInv, TypeOK
<1>0. PICK l : l = loop[n] OBVIOUS
<1>1. /\ l \in Loop /\ l.index \in Nat \ {0} /\ l.index <= Len(l.pkt.rumors) /\ Tells(l.pkt)
      /\ l.pkt \in RumorsPkt
  BY <1>0, <1>l DEF ProcessRumor, Loop
<1>2. l.pkt.rumors \in Seq(Rumor) /\ l.pkt.type = "rumors" /\ l.pkt.relay \in Nodes
  BY <1>1 DEF RumorsPkt
<1>3. PICK r : r = l.pkt.rumors[l.index] OBVIOUS
<1>4. r \in Rumor /\ Announced(r)
  <2>1. Len(l.pkt.rumors) \in Nat BY <1>2, LenProperties
  <2>2. l.index \in 1 .. Len(l.pkt.rumors) BY <1>1, <2>1
  <2> QED BY <1>1, <1>2, <1>3, <2>2, ElementOfSeq DEF Tells
<1>o. r.origin \in Nodes /\ r.sequence \in Nat \ {0}
      /\ r = [origin |-> r.origin, sequence |-> r.sequence]
  BY <1>4 DEF Rumor
<1>q. PICK o \in Nodes : o = r.origin BY <1>o
<1>k. PICK k \in Nat : k + 1 = r.sequence
  <2>1. r.sequence - 1 \in Nat /\ (r.sequence - 1) + 1 = r.sequence BY <1>o
  <2> QED BY <2>1
<1>a. r = [origin |-> o, sequence |-> k + 1] BY <1>o, <1>q, <1>k
<1>d. PICK relay \in Nodes : relay = l.pkt.relay BY <1>2
<1>5. UNCHANGED <<net, losses, local, waiting, acks>> BY DEF ProcessRumor, ackVars
<1>c. \/ UNCHANGED <<neighbours, routes, sequenceMap, rumors>>
      \/ /\ IsNext(n, r) /\ RouteUpdated(n, o, relay)
         /\ sequenceMap' = [sequenceMap EXCEPT ![n][o] = k + 1]
         /\ rumors' = [rumors EXCEPT ![n][o] = Append(@, r)]
  BY <1>0, <1>3, <1>q, <1>k, <1>d DEF ProcessRumor, routingVars
<1>6. \E v : /\ v \in Loop /\ v.index = l.index + 1 /\ v.pkt = l.pkt
             /\ loop' = [loop EXCEPT ![n] = v]
  <2> DEFINE next == [l EXCEPT !.index = @ + 1]
  <2>1. next \in Loop /\ next.index = l.index + 1 /\ next.pkt = l.pkt BY <1>1 DEF Loop
  <2>2. [next EXCEPT !.fresh = TRUE] \in Loop
        /\ [next EXCEPT !.fresh = TRUE].index = next.index
        /\ [next EXCEPT !.fresh = TRUE].pkt = next.pkt
    BY <2>1 DEF Loop
  <2>3. \/ loop' = [loop EXCEPT ![n] = next]
        \/ loop' = [loop EXCEPT ![n] = [next EXCEPT !.fresh = TRUE]]
    BY <1>0 DEF ProcessRumor
  <2> QED BY <2>1, <2>2, <2>3
<1>7. /\ loop' \in [Nodes -> Loop \cup {None}]
      /\ \A m \in Nodes : loop'[m] # None =>
           /\ loop[m] # None /\ loop'[m].pkt = loop[m].pkt
           /\ loop'[m].index \in Nat \ {0}
  <2>1. PICK v : /\ v \in Loop /\ v.index = l.index + 1 /\ v.pkt = l.pkt
                 /\ loop' = [loop EXCEPT ![n] = v]
    BY <1>6
  <2>2. loop[n] # None /\ l = loop[n] BY <1>0 DEF ProcessRumor
  <2>3. v.index \in Nat \ {0} BY <1>1, <2>1
  <2>4. loop' \in [Nodes -> Loop \cup {None}] BY <1>l, <2>1
  <2>5. \A m \in Nodes : loop'[m] = IF m = n THEN v ELSE loop[m] BY <1>l, <2>1
  <2> QED BY <1>l, <2>1, <2>2, <2>3, <2>4, <2>5
<1>8. processed' \in [Nodes -> [Nodes -> Seq(Nat)]]
  <2>0. PICK list : list = Append(processed[n][o], r.sequence) OBVIOUS
  <2>1. list \in Seq(Nat)
    <3>1. processed[n][o] \in Seq(Nat) /\ r.sequence \in Nat BY <1>p, <1>o
    <3> QED BY <2>0, <3>1, AppendProperties
  <2>2. processed' = processed
        \/ processed' = [processed EXCEPT ![n][o] = list]
    BY <1>0, <1>3, <1>q, <2>0 DEF ProcessRumor
  <2>3. CASE processed' = processed BY <1>p, <2>3
  <2>4. CASE processed' = [processed EXCEPT ![n][o] = list] BY <1>p, <2>1, <2>4
  <2> QED BY <2>2, <2>3, <2>4
<1>9. CASE UNCHANGED <<neighbours, routes, sequenceMap, rumors>>
  <2>1. \A m \in Nodes : loop'[m] # None => Tells(loop'[m].pkt) BY <1>l, <1>7
  <2>2. Rest' BY <1>5, <1>7, <1>8, <1>9, <2>1, RestNow DEF Rest, Tells, Announced
  <2> QED BY <1>5, <1>9, <2>2, SendKeeps
<1>10. CASE /\ IsNext(n, r) /\ RouteUpdated(n, o, relay)
            /\ sequenceMap' = [sequenceMap EXCEPT ![n][o] = k + 1]
            /\ rumors' = [rumors EXCEPT ![n][o] = Append(@, r)]
  <2>1. sequenceMap[n][o] = k /\ k + 1 <= sequenceMap[o][o] /\ n # o
    <3>1. sequenceMap[n][o] \in Nat /\ sequenceMap[o][o] \in Nat BY <1>s
    <3>2. k + 1 = sequenceMap[n][o] + 1 BY <1>10, <1>q, <1>k DEF IsNext
    <3>3. k + 1 <= sequenceMap[o][o] BY <1>4, <1>q, <1>k DEF Announced
    <3> QED BY <3>1, <3>2, <3>3
  <2>2. \A m, q \in Nodes :
          /\ sequenceMap[m][q] \in Nat
          /\ sequenceMap'[m][q] = IF m = n /\ q = o THEN k + 1 ELSE sequenceMap[m][q]
    BY <1>s, <1>10
  <2>3. \A q \in Nodes : sequenceMap'[q][q] = sequenceMap[q][q] BY <2>1, <2>2
  <2>4. \A m \in Nodes : \A q \in Nodes :
          rumors'[m][q] = IF m = n /\ q = o THEN Append(rumors[n][o], r) ELSE rumors[m][q]
    BY <1>t, <1>10
  <2>5. rumors[n][o] = [i \in 1 .. k |-> [origin |-> o, sequence |-> i]]
        /\ rumors[n][o] \in Seq(Rumor)
    <3>1. rumors[n][o] = [i \in 1 .. sequenceMap[n][o] |-> [origin |-> o, sequence |-> i]]
      BY DEF RumorInv, RumorsComplete
    <3> QED BY <1>t, <2>1, <3>1
  <2>6. Append(rumors[n][o], r) = [i \in 1 .. k + 1 |-> [origin |-> o, sequence |-> i]]
    BY <1>a, <2>5, OneMore
  <2>7. RumorsComplete'
    <3> SUFFICES ASSUME NEW m \in Nodes, NEW q \in Nodes
                 PROVE  rumors'[m][q] = [i \in 1 .. sequenceMap'[m][q] |->
                                           [origin |-> q, sequence |-> i]]
      BY DEF RumorsComplete
    <3>1. CASE m = n /\ q = o BY <2>2, <2>4, <2>6, <3>1
    <3>2. CASE ~ (m = n /\ q = o)
      <4>1. rumors'[m][q] = rumors[m][q] /\ sequenceMap'[m][q] = sequenceMap[m][q]
        BY <2>2, <2>4, <3>2
      <4> QED BY <4>1 DEF RumorInv, RumorsComplete
    <3> QED BY <3>1, <3>2
  <2>8. Behind'
    <3> SUFFICES ASSUME NEW m \in Nodes, NEW q \in Nodes
                 PROVE  sequenceMap'[m][q] <= sequenceMap'[q][q]
      BY DEF Behind
    <3>1. sequenceMap'[q][q] = sequenceMap[q][q] BY <2>3
    <3>2. sequenceMap[m][q] <= sequenceMap[q][q] BY DEF RumorInv, Behind
    <3> QED BY <2>1, <2>2, <3>1, <3>2
  <2>9. \A q \in Rumor : Announced(q)' <=> Announced(q) BY <2>3 DEF Announced, Rumor
  <2>10. ASSUME NEW p \in Packet PROVE Tells(p) => Tells(p)'
    <3>1. p.type = "rumors" => p.rumors \in Seq(Rumor)
      BY DEF Packet, RumorsPkt, StatusPkt, AckPkt
    <3>2. p.type = "rumors" => \A i \in 1 .. Len(p.rumors) : p.rumors[i] \in Rumor
      BY <3>1, ElementOfSeq
    <3> QED BY <2>9, <3>2 DEF Tells
  <2>11. Told'
    <3>1. \A p \in net' : Tells(p)' BY <1>5, <2>10 DEF RumorInv, TypeOK, Told
    <3>2. ASSUME NEW m \in Nodes, loop'[m] # None PROVE Tells(loop[m].pkt)' /\ loop'[m].pkt \in Packet
      <4> PICK q : q = loop[m].pkt OBVIOUS
      <4>1. q = loop'[m].pkt /\ Tells(q) BY <1>7, <1>l, <3>2
      <4>2. q \in Packet BY <1>7, <3>2, <4>1 DEF Loop, Packet
      <4>3. Tells(q)' BY <2>10, <4>1, <4>2
      <4> QED BY <4>1, <4>2, <4>3 DEF Tells, Announced
    <3>3. \A m \in Nodes : \A w \in waiting'[m] : Announced(w.id)'
      BY <1>5, <2>9 DEF RumorInv, TypeOK, Told, Waiting
    <3>4. \A m \in Nodes : \A q \in local'[m] : Announced(q)'
      BY <1>5, <2>9 DEF RumorInv, TypeOK, Told
    <3> QED BY <3>1, <3>2, <3>3, <3>4 DEF Told
  <2>12. TypeOK'
    <3>1. sequenceMap' \in [Nodes -> Status] BY <1>s, <1>10 DEF Status
    <3>2. Append(rumors[n][o], r) \in Seq(Rumor) BY <1>4, <2>5, AppendProperties
    <3>3. rumors' \in [Nodes -> [Nodes -> Seq(Rumor)]]
      BY <1>t, <1>10, <3>2
    <3>4. neighbours' \in [Nodes -> SUBSET Nodes] /\ routes' \in [Nodes -> [Nodes -> Nodes \cup {None}]]
      <4>1. /\ neighbours' \in {neighbours, [neighbours EXCEPT ![n] = @ \cup {o}]}
            /\ routes' \in {routes, [routes EXCEPT ![n][o] = relay]}
        BY <1>10 DEF RouteUpdated, routingVars
      <4> QED BY <1>n, <1>r, <4>1
    <3> QED BY <1>5, <1>7, <1>8, <3>1, <3>3, <3>4 DEF RumorInv, TypeOK
  <2>13. Indexed' BY <1>7 DEF Indexed
  <2> QED BY <2>7, <2>8, <2>11, <2>12, <2>13 DEF RumorInv
<1> QED BY <1>9, <1>10, <1>c

\* Nothing has been broadcast at the start.
LEMMA InitRumorInv == Init => RumorInv
<1> SUFFICES ASSUME Init PROVE RumorInv OBVIOUS
<1>1. <<>> \in Seq(Rumor) /\ <<>> \in Seq(Nat) /\ \A o : [i \in 1 .. 0 |-> [origin |-> o, sequence |-> i]] = <<>>
  OBVIOUS
<1>2. TypeOK
  <2>1. Peers \in [Nodes -> SUBSET Nodes] /\ 0 \in 0 .. MaxLoss
    BY GossipAssumption DEF GossipAssumption
  <2>2. sequenceMap \in [Nodes -> Status] BY DEF Init, Status
  <2>3. rumors \in [Nodes -> [Nodes -> Seq(Rumor)]] BY <1>1 DEF Init
  <2>4. processed \in [Nodes -> [Nodes -> Seq(Nat)]] BY <1>1 DEF Init
  <2>5. routes \in [Nodes -> [Nodes -> Nodes \cup {None}]] BY DEF Init
  <2> QED BY <2>1, <2>2, <2>3, <2>4, <2>5 DEF Init, TypeOK
<1>3. RumorsComplete BY <1>1 DEF Init, RumorsComplete
<1>4. Indexed /\ Behind /\ Told BY DEF Init, Indexed, Behind, Told
<1> QED BY <1>2, <1>3, <1>4 DEF RumorInv

\* Every step keeps what is known of the rumors.
LEMMA NextRumorInv == RumorInv /\ [Next]_vars => RumorInv'
<1> SUFFICES ASSUME RumorInv, [Next]_vars PROVE RumorInv' OBVIOUS
<1>1. ASSUME NEW n \in Nodes, Broadcast(n) PROVE RumorInv' BY <1>1, BroadcastKeeps
<1>2. ASSUME NEW n \in Nodes, NodeStep(n) PROVE RumorInv'
  <2>1. CASE ProcessLocally(n) BY <2>1, LocallyKeeps
  <2>2. CASE CreateAckChannel(n) \/ AckTimeout(n) BY <2>2, WaitAckKeeps
  <2>3. CASE Receive(n) BY <2>3, PacketKeeps, StatusKeeps DEF Receive
  <2>4. CASE ProcessRumor(n) BY <2>4, ProcessKeeps
  <2>5. CASE EndRumors(n) BY <2>5, PacketKeeps
  <2> QED BY <1>2, <2>1, <2>2, <2>3, <2>4, <2>5 DEF NodeStep
<1>3. CASE (\E n, m \in Nodes : AntiEntropy(n, m)) \/ Lose BY <1>3, StatusKeeps
<1>4. CASE UNCHANGED vars
  <2>1. UNCHANGED <<net, losses, sequenceMap, rumors, processed, local, loop, waiting, acks,
                    neighbours, routes>>
    BY <1>4 DEF vars, rumorVars, ackVars, routingVars
  <2>2. Rest' BY <2>1, RestNow DEF Rest, Tells, Announced
  <2> QED BY <2>1, <2>2, SendKeeps
<1> QED BY <1>1, <1>2, <1>3, <1>4 DEF Next

\* The invariant: every rumor there is was broadcast, and no node is ahead of its origin.
THEOREM RumorsTrue == Spec => []RumorInv
<1> QED BY InitRumorInv, NextRumorInv, PTL DEF Spec

\* Every variable keeps its range.
THEOREM GossipTypeCorrect == Spec => []TypeOK
<1>1. RumorInv => TypeOK BY DEF RumorInv
<1> QED BY <1>1, RumorsTrue, PTL

\* A node keeps of each origin the rumors up to its sequence number, in order, so that
\* the slice that getRemoteMissingRumors takes begins with the rumor that is missing.
THEOREM RumorsCorrect == Spec => []RumorsComplete
<1>1. RumorInv => RumorsComplete BY DEF RumorInv
<1> QED BY <1>1, RumorsTrue, PTL

-----------------------------------------------------------------------------
(* Routes *)

\* A route to a neighbour is not changed, and a new neighbour is routed to directly.
LEMMA RoutesKeep ==
  ASSUME RumorInv, NeighboursDirect, [Next]_vars
  PROVE  NeighboursDirect'
<1>1. /\ neighbours \in [Nodes -> SUBSET Nodes]
      /\ routes \in [Nodes -> [Nodes -> Nodes \cup {None}]]
  BY DEF RumorInv, TypeOK
<1>2. CASE UNCHANGED <<neighbours, routes>> BY <1>2 DEF NeighboursDirect
<1>3. ASSUME NEW n \in Nodes, NEW origin, NEW relay, RouteUpdated(n, origin, relay)
      PROVE  NeighboursDirect'
  <2>1. CASE origin \in neighbours[n] BY <1>2, <1>3, <2>1 DEF RouteUpdated, routingVars
  <2>2. CASE origin \notin neighbours[n]
    <3> SUFFICES ASSUME NEW m \in Nodes, NEW o \in neighbours'[m] PROVE routes'[m][o] = o
      BY DEF NeighboursDirect
    <3>1. /\ neighbours' = IF origin = relay THEN [neighbours EXCEPT ![n] = @ \cup {origin}]
                           ELSE neighbours
          /\ routes' = [routes EXCEPT ![n][origin] = relay]
      BY <1>3, <2>2 DEF RouteUpdated
    <3>2. neighbours'[m] = IF m = n /\ origin = relay THEN neighbours[m] \cup {origin}
                           ELSE neighbours[m]
      BY <1>1, <3>1
    <3>3. CASE o \in neighbours[m]
      <4>1. routes[m][o] = o BY <3>3 DEF NeighboursDirect
      <4>2. ~ (m = n /\ o = origin) BY <2>2, <3>3
      <4>3. o \in Nodes BY <1>1, <3>3
      <4>4. routes'[m][o] = routes[m][o] BY <1>1, <3>1, <4>2, <4>3
      <4> QED BY <4>1, <4>4
    <3>4. CASE o \notin neighbours[m]
      <4>1. m = n /\ o = origin /\ origin = relay BY <3>2, <3>4
      <4>2. neighbours' \in [Nodes -> SUBSET Nodes] BY NextRumorInv DEF RumorInv, TypeOK
      <4>3. o \in Nodes BY <4>2
      <4> QED BY <1>1, <3>1, <4>1, <4>3
    <3> QED BY <3>3, <3>4
  <2> QED BY <2>1, <2>2
<1>4. CASE \E n \in Nodes : ProcessRumor(n)
  BY <1>2, <1>3, <1>4 DEF ProcessRumor, routingVars
<1>5. CASE ~ \E n \in Nodes : ProcessRumor(n)
  <2>1. UNCHANGED <<neighbours, routes>>
    BY <1>5 DEF Next, NodeStep, Receive, Broadcast, ProcessLocally, CreateAckChannel, AckTimeout,
                ExecRumors, ExecStatus, ExecAck, EndRumors, AntiEntropy, Lose, vars, routingVars
  <2> QED BY <1>2, <2>1
<1> QED BY <1>4, <1>5

\* A neighbour is routed to directly, whatever relays its rumors (updateRT).
THEOREM RoutesCorrect == Spec => []NeighboursDirect
<1>1. Init => NeighboursDirect
  <2> SUFFICES ASSUME Init, NEW n \in Nodes, NEW o \in neighbours[n] PROVE routes[n][o] = o
    BY DEF NeighboursDirect
  <2>1. o \in Peers[n] /\ o \in Nodes BY GossipAssumption DEF GossipAssumption, Init
  <2> QED BY <2>1 DEF Init
<1>2. RumorInv /\ NeighboursDirect /\ [Next]_vars => NeighboursDirect' BY RoutesKeep
<1> QED BY <1>1, <1>2, RumorsTrue, PTL DEF Spec

-----------------------------------------------------------------------------
(* No node is its own peer *)

\* What the comment of AddPeer says and its code leaves to the caller
NoOwnPeer == \A n \in Nodes : n \notin Peers[n]

\* No packet comes back to its sender
Apart ==
  /\ \A p \in net : p.source # p.dest
  /\ \A n \in Nodes : loop[n] # None => loop[n].pkt.dest = n /\ loop[n].pkt.source # n
  /\ \A n \in Nodes : n \notin neighbours[n]
  /\ \A n \in Nodes : \A w \in waiting[n] : n \notin w.neighbours

\* What a step does to the sequence numbers and to what was handled
Announce(n) ==
  /\ sequenceMap' = [sequenceMap EXCEPT ![n][n] = @ + 1]
  /\ local' = [local EXCEPT ![n] = @ \cup {[origin |-> n, sequence |-> sequenceMap[n][n] + 1]}]
  /\ UNCHANGED processed
HandleOwn(n) ==
  /\ \E r \in local[n] : /\ local' = [local EXCEPT ![n] = @ \ {r}]
                         /\ processed' = [processed EXCEPT ![n][n] = Append(@, r.sequence)]
  /\ UNCHANGED sequenceMap
Take(n, o) ==
  /\ n # o /\ sequenceMap[n][o] < sequenceMap[o][o]
  /\ sequenceMap' = [sequenceMap EXCEPT ![n][o] = @ + 1]
  /\ processed' = [processed EXCEPT ![n][o] = Append(@, sequenceMap[n][o] + 1)]
  /\ UNCHANGED local

Effect ==
  \/ UNCHANGED <<sequenceMap, processed, local>>
  \/ \E n \in Nodes : Announce(n) \/ HandleOwn(n)
  \/ \E n, o \in Nodes : Take(n, o)

\* The rumor that the listener is at was broadcast.
LEMMA RumorAt ==
  ASSUME RumorInv, NEW n \in Nodes, loop[n] # None,
         loop[n].index <= Len(loop[n].pkt.rumors)
  PROVE  LET r == loop[n].pkt.rumors[loop[n].index]
         IN  /\ r \in Rumor /\ Announced(r)
             /\ loop[n].pkt \in RumorsPkt
<1>0. PICK l : l = loop[n] OBVIOUS
<1>1. l \in Loop /\ l.index \in Nat \ {0} /\ l.index <= Len(l.pkt.rumors) /\ Tells(l.pkt)
  BY <1>0 DEF RumorInv, TypeOK, Indexed, Told
<1>2. l.pkt \in RumorsPkt /\ l.pkt.rumors \in Seq(Rumor) /\ l.pkt.type = "rumors"
  BY <1>1 DEF Loop, RumorsPkt
<1>3. Len(l.pkt.rumors) \in Nat BY <1>2, LenProperties
<1>4. l.index \in 1 .. Len(l.pkt.rumors) BY <1>1, <1>3
<1>5. l.pkt.rumors[l.index] \in Rumor /\ Announced(l.pkt.rumors[l.index])
  BY <1>1, <1>2, <1>4, ElementOfSeq DEF Tells
<1> QED BY <1>0, <1>2, <1>5

\* A new rumor comes from another node, which is ahead.
LEMMA StepEffect ==
  ASSUME RumorInv, Apart, [Next]_vars
  PROVE  Effect
<1>1. ASSUME NEW n \in Nodes, Broadcast(n) PROVE Effect
  <2>1. Announce(n) BY <1>1 DEF Broadcast, Announce
  <2> QED BY <2>1 DEF Effect
<1>2. ASSUME NEW n \in Nodes, ProcessLocally(n) PROVE Effect
  <2>1. HandleOwn(n) BY <1>2 DEF ProcessLocally, HandleOwn
  <2> QED BY <2>1 DEF Effect
<1>3. ASSUME NEW n \in Nodes, ProcessRumor(n) PROVE Effect
  <2>0. PICK l : l = loop[n] OBVIOUS
  <2>1. l # None /\ l.index <= Len(l.pkt.rumors) /\ l.pkt.source # l.pkt.dest
    BY <1>3, <2>0 DEF ProcessRumor, Apart
  <2>2. PICK r : r = l.pkt.rumors[l.index] OBVIOUS
  <2>3. r \in Rumor /\ Announced(r) BY <2>0, <2>1, <2>2, RumorAt
  <2>4. PICK o \in Nodes : o = r.origin BY <2>3 DEF Rumor
  <2>5. UNCHANGED local BY <1>3 DEF ProcessRumor
  <2>6. \/ UNCHANGED <<sequenceMap, processed>>
        \/ /\ r.sequence = sequenceMap[n][o] + 1
           /\ sequenceMap' = [sequenceMap EXCEPT ![n][o] = r.sequence]
           /\ processed' = [processed EXCEPT ![n][o] = Append(@, r.sequence)]
    BY <1>3, <2>0, <2>1, <2>2, <2>4 DEF ProcessRumor, IsNext
  <2>7. CASE UNCHANGED <<sequenceMap, processed>> BY <2>5, <2>7 DEF Effect
  <2>8. CASE /\ r.sequence = sequenceMap[n][o] + 1
             /\ sequenceMap' = [sequenceMap EXCEPT ![n][o] = r.sequence]
             /\ processed' = [processed EXCEPT ![n][o] = Append(@, r.sequence)]
    <3>1. r.sequence <= sequenceMap[o][o] BY <2>3, <2>4 DEF Announced
    <3>2. sequenceMap[n][o] \in Nat /\ sequenceMap[o][o] \in Nat
      BY DEF RumorInv, TypeOK, Status
    <3>3. n # o /\ sequenceMap[n][o] < sequenceMap[o][o] BY <2>8, <3>1, <3>2
    <3>4. Take(n, o) BY <2>5, <2>8, <3>3 DEF Take
    <3> QED BY <3>4 DEF Effect
  <2> QED BY <2>6, <2>7, <2>8
<1>4. CASE ~ \E n \in Nodes : Broadcast(n) \/ ProcessLocally(n) \/ ProcessRumor(n)
  <2>1. UNCHANGED <<sequenceMap, processed, local>>
    BY <1>4 DEF Next, NodeStep, Receive, CreateAckChannel, AckTimeout, ExecRumors, ExecStatus,
                ExecAck, EndRumors, AntiEntropy, Lose, vars, rumorVars
  <2> QED BY <2>1 DEF Effect
<1> QED BY <1>1, <1>2, <1>3, <1>4

\* What a broadcast, a retry, or a status that is sent to a neighbour puts on its way
\* does not come back.
LEMMA SendersApart ==
  ASSUME RumorInv, Apart, NEW n \in Nodes,
         \/ Broadcast(n) \/ CreateAckChannel(n) \/ AckTimeout(n)
         \/ \E m \in Nodes : AntiEntropy(n, m)
  PROVE  Apart'
<1>0. waiting \in [Nodes -> SUBSET Waiting] BY DEF RumorInv, TypeOK
<1>1. UNCHANGED <<loop, neighbours>>
  BY DEF Broadcast, CreateAckChannel, AckTimeout, AntiEntropy, routingVars
<1>2. ASSUME NEW p \in net' PROVE p \in net \/ p.source # p.dest
  <2>1. CASE Broadcast(n)
    <3>1. PICK r : net' = net \/ \E m \in neighbours[n] :
                     net' = With(net, {[RumorsPacket(r, n, n, <<r>>) EXCEPT !.dest = m]})
      BY <2>1 DEF Broadcast
    <3>2. p \in net \/ \E m \in neighbours[n] : p = [RumorsPacket(r, n, n, <<r>>) EXCEPT !.dest = m]
      BY <3>1 DEF With
    <3>3. ASSUME NEW m \in neighbours[n], p = [RumorsPacket(r, n, n, <<r>>) EXCEPT !.dest = m]
          PROVE  p.source = n /\ p.dest = m
      BY <3>3 DEF RumorsPacket
    <3> QED BY <3>2, <3>3 DEF Apart
  <2>2. CASE CreateAckChannel(n) BY <2>2 DEF CreateAckChannel
  <2>3. CASE AckTimeout(n)
    <3>1. PICK w \in waiting[n] :
            \/ net' = net
            \/ \E m \in w.neighbours \ w.tried :
                 net' = With(net, {RumorsPacket(w.id, n, m, <<w.id>>)})
      BY <2>3 DEF AckTimeout
    <3>2. p \in net \/ \E m \in w.neighbours : p = RumorsPacket(w.id, n, m, <<w.id>>)
      BY <3>1 DEF With
    <3> QED BY <3>2 DEF Apart, RumorsPacket
  <2>4. ASSUME NEW m \in Nodes, AntiEntropy(n, m) PROVE p \in net \/ p.source # p.dest
    <3>1. m \in neighbours[n] /\ (p \in net \/ p = StatusPacket(n, m))
      BY <2>4 DEF AntiEntropy, With
    <3> QED BY <3>1 DEF Apart, StatusPacket
  <2> QED BY <2>1, <2>2, <2>3, <2>4
<1>3. ASSUME NEW m \in Nodes, NEW w \in waiting'[m] PROVE m \notin w.neighbours
  <2>1. CASE w \in waiting[m] BY <2>1 DEF Apart
  <2>2. CASE w \notin waiting[m]
    <3>1. CASE Broadcast(n)
      <4>1. PICK v : /\ v.neighbours = neighbours[n]
                     /\ waiting' = waiting \/ waiting' = [waiting EXCEPT ![n] = @ \cup {v}]
        <5>1. CASE neighbours[n] = {}
          <6>1. waiting' = waiting BY <3>1, <5>1 DEF Broadcast
          <6>2. [neighbours |-> neighbours[n]].neighbours = neighbours[n] OBVIOUS
          <6> QED BY <6>1, <6>2
        <5>2. CASE neighbours[n] # {}
          <6> PICK r : r = [origin |-> n, sequence |-> sequenceMap[n][n] + 1] OBVIOUS
          <6>1. PICK o \in neighbours[n] :
                  waiting' = [waiting EXCEPT ![n] =
                                @ \cup {[id |-> r, neighbours |-> neighbours[n],
                                         tried |-> {o}, pc |-> "new"]}]
            BY <3>1, <5>2 DEF Broadcast
          <6> PICK v : v = [id |-> r, neighbours |-> neighbours[n], tried |-> {o}, pc |-> "new"]
            OBVIOUS
          <6>2. v.neighbours = neighbours[n] /\ waiting' = [waiting EXCEPT ![n] = @ \cup {v}]
            BY <6>1
          <6> QED BY <6>2
        <5> QED BY <5>1, <5>2
      <4>2. m = n /\ w = v BY <1>0, <2>2, <4>1
      <4> QED BY <4>1, <4>2 DEF Apart
    <3>2. CASE CreateAckChannel(n)
      <4>1. PICK v \in waiting[n] :
              waiting' = [waiting EXCEPT ![n] = (@ \ {v}) \cup {[v EXCEPT !.pc = "wait"]}]
        BY <3>2 DEF CreateAckChannel
      <4>2. v \in Waiting BY <1>0
      <4>3. m = n /\ w = [v EXCEPT !.pc = "wait"] BY <1>0, <2>2, <4>1
      <4>4. w.neighbours = v.neighbours BY <4>2, <4>3 DEF Waiting
      <4> QED BY <4>3, <4>4 DEF Apart
    <3>3. CASE AckTimeout(n)
      <4>1. PICK v \in waiting[n] :
              \/ waiting' = [waiting EXCEPT ![n] = @ \ {v}]
              \/ \E o \in v.neighbours \ v.tried :
                   waiting' = [waiting EXCEPT ![n] = (@ \ {v}) \cup {[v EXCEPT !.tried = @ \cup {o}]}]
        BY <3>3 DEF AckTimeout
      <4>2. v \in Waiting BY <1>0
      <4>3. PICK o \in v.neighbours : m = n /\ w = [v EXCEPT !.tried = @ \cup {o}]
        BY <1>0, <2>2, <4>1
      <4>4. w.neighbours = v.neighbours BY <4>2, <4>3 DEF Waiting
      <4> QED BY <4>3, <4>4 DEF Apart
    <3>4. CASE \E o \in Nodes : AntiEntropy(n, o) BY <2>2, <3>4 DEF AntiEntropy, ackVars
    <3> QED BY <3>1, <3>2, <3>3, <3>4
  <2> QED BY <2>1, <2>2
<1> QED BY <1>1, <1>2, <1>3 DEF Apart

\* Nor does what the listener answers or hands on.
LEMMA ListenerApart ==
  ASSUME RumorInv, Apart, NEW n \in Nodes, Receive(n) \/ EndRumors(n)
  PROVE  Apart'
<1>0. loop \in [Nodes -> Loop \cup {None}] BY DEF RumorInv, TypeOK
<1>1. UNCHANGED <<neighbours, waiting>>
  BY DEF Receive, ExecRumors, ExecStatus, ExecAck, EndRumors, ackVars, routingVars
<1>2. CASE EndRumors(n)
  <2> PICK p : p = loop[n].pkt OBVIOUS
  <2>1. loop[n] \in Loop BY <1>0, <1>2 DEF EndRumors
  <2>2. p \in RumorsPkt /\ p.source # n BY <1>2, <2>1 DEF EndRumors, Apart, Loop
  <2>3. \A q \in net' : \/ q \in net \/ q = AckPacket(p.id, n, p.source)
                        \/ \E m \in neighbours[n] \ {p.source, p.relay} :
                             q = [[p EXCEPT !.relay = n] EXCEPT !.dest = m]
    <3>1. \/ net' = net
          \/ net' = With(net, {AckPacket(p.id, n, p.source)})
          \/ \E f \in SentTo([p EXCEPT !.relay = n], neighbours[n], {p.source, p.relay}) \cup {{}} :
               net' = With(net, {AckPacket(p.id, n, p.source)} \cup f)
      BY <1>2 DEF EndRumors
    <3> QED BY <3>1 DEF With, SentTo
  <2>4. \A m : LET q == [[p EXCEPT !.relay = n] EXCEPT !.dest = m]
               IN  q.source = p.source /\ q.dest = m
    BY <2>2 DEF RumorsPkt
  <2>5. ASSUME NEW q \in net' PROVE q.source # q.dest
    <3>1. CASE q \in net BY <3>1 DEF Apart
    <3>2. CASE q = AckPacket(p.id, n, p.source) BY <2>2, <3>2 DEF AckPacket
    <3>3. ASSUME NEW m \in neighbours[n] \ {p.source, p.relay},
                 q = [[p EXCEPT !.relay = n] EXCEPT !.dest = m]
          PROVE  q.source # q.dest
      <4>1. q.source = p.source /\ q.dest = m BY <2>4, <3>3
      <4> QED BY <3>3, <4>1
    <3> QED BY <2>3, <3>1, <3>2, <3>3
  <2>6. \A m \in Nodes : loop'[m] # None => loop'[m] = loop[m] BY <1>0, <1>2 DEF EndRumors
  <2> QED BY <1>1, <2>5, <2>6 DEF Apart
<1>3. ASSUME NEW p \in net, p.dest = n, ExecRumors(n, p) PROVE Apart'
  <2>1. PICK l : l.pkt = p /\ loop' = [loop EXCEPT ![n] = l]
    BY <1>3 DEF ExecRumors
  <2>2. \A m \in Nodes : loop'[m] = IF m = n THEN l ELSE loop[m] BY <1>0, <2>1
  <2>3. net' \subseteq net BY <1>3 DEF ExecRumors
  <2> QED BY <1>1, <1>3, <2>1, <2>2, <2>3 DEF Apart
<1>4. ASSUME NEW p \in net, p.dest = n, ExecStatus(n, p) \/ ExecAck(n, p) PROVE Apart'
  <2>1. p.source \in Nodes /\ p.status \in Status
    BY <1>4 DEF ExecStatus, ExecAck, RumorInv, TypeOK, Packet, RumorsPkt, StatusPkt, AckPkt
  <2>2. PICK answer \in Answers(n, p.source, p.status) : net' \subseteq net \cup answer
    BY <1>4 DEF ExecStatus, ExecAck, With
  <2>3. \A q \in answer : q.source = n /\ (q.dest = p.source \/ q.dest \in neighbours[n])
    BY <2>1, <2>2, AnswersTell
  <2>4. \A q \in net' : q.source # q.dest BY <1>4, <2>2, <2>3 DEF Apart
  <2>5. UNCHANGED loop BY <1>4 DEF ExecStatus, ExecAck
  <2> QED BY <1>1, <2>4, <2>5 DEF Apart
<1> QED BY <1>2, <1>3, <1>4 DEF Receive

\* A new rumor is not of the node itself.
LEMMA NewIsAnothers ==
  ASSUME RumorInv, NEW n \in Nodes, NEW r \in Rumor, Announced(r), IsNext(n, r)
  PROVE  r.origin # n
<1>1. r.sequence \in Nat BY DEF Rumor
<1>2. sequenceMap[n][n] \in Nat BY DEF RumorInv, TypeOK, Status
<1>3. r.sequence = sequenceMap[n][r.origin] + 1 BY DEF IsNext
<1>4. r.sequence <= sequenceMap[r.origin][r.origin] BY DEF Announced
<1>5. ASSUME r.origin = n PROVE FALSE
  <2>1. r.sequence = sequenceMap[n][n] + 1 /\ r.sequence <= sequenceMap[n][n]
    BY <1>3, <1>4, <1>5
  <2> QED BY <1>1, <1>2, <2>1
<1> QED BY <1>5

\* The listener hands on no packet of the node itself, and does not make the node its
\* own neighbour.
LEMMA ProcessApart ==
  ASSUME RumorInv, Apart, NEW n \in Nodes, ProcessRumor(n)
  PROVE  Apart'
<1>0. loop \in [Nodes -> Loop \cup {None}] /\ neighbours \in [Nodes -> SUBSET Nodes]
  BY DEF RumorInv, TypeOK
<1> PICK l : l = loop[n] OBVIOUS
<1>1. l \in Loop /\ l # None /\ l.index <= Len(l.pkt.rumors) BY <1>0 DEF ProcessRumor
<1> PICK r : r = l.pkt.rumors[l.index] OBVIOUS
<1>2. r \in Rumor /\ Announced(r) BY <1>1, RumorAt
<1>3. IsNext(n, r) => r.origin # n BY <1>2, NewIsAnothers
<1>4. UNCHANGED <<net, waiting>> BY DEF ProcessRumor, ackVars
<1>5. \A m \in Nodes : m \notin neighbours'[m]
  <2>1. neighbours' = neighbours
        \/ (r.origin # n /\ neighbours' = [neighbours EXCEPT ![n] = @ \cup {r.origin}])
    BY <1>3 DEF ProcessRumor, RouteUpdated, routingVars
  <2> QED BY <1>0, <2>1 DEF Apart
<1>6. \A m \in Nodes : loop'[m] # None => loop[m] # None /\ loop'[m].pkt = loop[m].pkt
  <2>1. \E v : v.pkt = l.pkt /\ loop' = [loop EXCEPT ![n] = v]
    <3> DEFINE next == [l EXCEPT !.index = @ + 1]
    <3>1. next \in [pkt : RumorsPkt, index : {l.index + 1}, fresh : BOOLEAN] /\ next.pkt = l.pkt
      BY <1>1 DEF Loop
    <3>2. [next EXCEPT !.fresh = TRUE].pkt = next.pkt BY <3>1
    <3>3. \/ loop' = [loop EXCEPT ![n] = next]
          \/ loop' = [loop EXCEPT ![n] = [next EXCEPT !.fresh = TRUE]]
      BY DEF ProcessRumor
    <3> QED BY <3>1, <3>2, <3>3
  <2>2. PICK v : v.pkt = l.pkt /\ loop' = [loop EXCEPT ![n] = v] BY <2>1
  <2>3. \A m \in Nodes : loop'[m] = IF m = n THEN v ELSE loop[m] BY <1>0, <2>2
  <2> QED BY <1>1, <2>2, <2>3
<1> QED BY <1>4, <1>5, <1>6 DEF Apart

\* In no step does a packet come back to its sender.
LEMMA ApartKeeps ==
  ASSUME RumorInv, Apart, [Next]_vars
  PROVE  Apart'
<1>1. ASSUME NEW n \in Nodes, Broadcast(n) \/ NodeStep(n) PROVE Apart'
  <2>1. CASE ProcessLocally(n)
    BY <2>1 DEF ProcessLocally, Apart, ackVars, routingVars
  <2> QED BY <1>1, <2>1, SendersApart, ListenerApart, ProcessApart DEF NodeStep
<1>2. CASE \E n, m \in Nodes : AntiEntropy(n, m) BY <1>2, SendersApart
<1>3. CASE Lose BY <1>3 DEF Lose, Apart, ackVars, routingVars
<1>4. CASE UNCHANGED vars BY <1>4 DEF vars, Apart, ackVars, routingVars
<1> QED BY <1>1, <1>2, <1>3, <1>4 DEF Next

-----------------------------------------------------------------------------
(* What was handled *)

\* A node has handled the rumors of another that it has taken, in order, and its own each
\* once, unless they are yet to come
Handled ==
  /\ \A d, o \in Nodes : d # o => processed[d][o] = [i \in 1 .. sequenceMap[d][o] |-> i]
  /\ \A n \in Nodes : \A i \in DOMAIN processed[n][n] : processed[n][n][i] <= sequenceMap[n][n]
  /\ \A n \in Nodes : \A r \in local[n] :
       r.origin = n /\ \A i \in DOMAIN processed[n][n] : processed[n][n][i] # r.sequence
  /\ OwnOnce

\* The numbers up to k, and one more
LEMMA NextNumber ==
  ASSUME NEW k \in Nat
  PROVE  /\ [i \in 1 .. k |-> i] \in Seq(Nat) /\ Len([i \in 1 .. k |-> i]) = k
         /\ Append([i \in 1 .. k |-> i], k + 1) = [i \in 1 .. k + 1 |-> i]
<1> DEFINE list == [i \in 1 .. k |-> i]
<1>1. list \in Seq(Nat) /\ Len(list) = k OBVIOUS
<1>2. /\ Append(list, k + 1) \in Seq(Nat) /\ Len(Append(list, k + 1)) = k + 1
      /\ \A i \in 1 .. k : Append(list, k + 1)[i] = list[i]
      /\ Append(list, k + 1)[k + 1] = k + 1
  BY <1>1, AppendProperties
<1>3. \A i \in 1 .. k + 1 : Append(list, k + 1)[i] = i BY <1>2
<1>4. Append(list, k + 1) = [i \in 1 .. k + 1 |-> Append(list, k + 1)[i]]
  BY <1>2, LenProperties
<1> QED BY <1>1, <1>3, <1>4

\* Whatever a step does, rumors are handled in order and once.
LEMMA HandledKeeps ==
  ASSUME RumorInv, Handled, Effect
  PROVE  Handled'
<1>s. /\ sequenceMap \in [Nodes -> [Nodes -> Nat]]
      /\ \A n, o \in Nodes : sequenceMap[n][o] \in Nat
  BY DEF RumorInv, TypeOK, Status
<1>p. processed \in [Nodes -> [Nodes -> Seq(Nat)]] BY DEF RumorInv, TypeOK
<1>l. /\ local \in [Nodes -> SUBSET Rumor]
      /\ \A n \in Nodes : \A r \in local[n] : r \in Rumor /\ r.origin = n
                                              /\ r.sequence <= sequenceMap[n][n]
  BY DEF RumorInv, TypeOK, Told, Announced, Handled
<1>1. CASE UNCHANGED <<sequenceMap, processed, local>> BY <1>1 DEF Handled, OwnOnce
<1>2. ASSUME NEW n \in Nodes, Announce(n) PROVE Handled'
  <2>1. \A m, o \in Nodes : sequenceMap'[m][o] =
          IF m = n /\ o = n THEN sequenceMap[n][n] + 1 ELSE sequenceMap[m][o]
    BY <1>s, <1>2 DEF Announce
  <2>2. UNCHANGED processed BY <1>2 DEF Announce
  <2>3. \A d, o \in Nodes : d # o => processed'[d][o] = [i \in 1 .. sequenceMap'[d][o] |-> i]
    BY <2>1, <2>2 DEF Handled
  <2>4. ASSUME NEW m \in Nodes, NEW i \in DOMAIN processed'[m][m]
        PROVE  processed[m][m][i] \in Nat /\ processed'[m][m][i] <= sequenceMap'[m][m]
    <3>1. i \in DOMAIN processed[m][m] BY <2>2
    <3>2. processed[m][m] \in Seq(Nat) BY <1>p
    <3>3. processed[m][m][i] \in Nat BY <3>1, <3>2, LenProperties, ElementOfSeq
    <3>4. processed[m][m][i] <= sequenceMap[m][m] BY <3>1 DEF Handled
    <3>5. sequenceMap[m][m] \in Nat /\ sequenceMap'[m][m] \in {sequenceMap[m][m], sequenceMap[m][m] + 1}
      BY <1>s, <2>1
    <3> QED BY <2>2, <3>3, <3>4, <3>5
  <2>5. ASSUME NEW m \in Nodes, NEW r \in local'[m]
        PROVE  r.origin = m /\ \A i \in DOMAIN processed'[m][m] : processed'[m][m][i] # r.sequence
    <3>1. CASE r \in local[m] BY <2>2, <3>1 DEF Handled
    <3>2. CASE r \notin local[m]
      <4>1. m = n /\ r = [origin |-> n, sequence |-> sequenceMap[n][n] + 1]
        BY <1>l, <1>2, <3>2 DEF Announce
      <4>2. r.origin = m /\ r.sequence = sequenceMap[n][n] + 1 BY <4>1
      <4>3. ASSUME NEW i \in DOMAIN processed[n][n] PROVE processed[n][n][i] # r.sequence
        <5>1. processed[n][n][i] <= sequenceMap[n][n] BY DEF Handled
        <5>2. processed[n][n][i] \in Nat BY <2>2, <2>4
        <5>3. sequenceMap[n][n] \in Nat BY <1>s
        <5> QED BY <4>2, <5>1, <5>2, <5>3
      <4> QED BY <2>2, <4>1, <4>2, <4>3
    <3> QED BY <3>1, <3>2
  <2>6. OwnOnce' BY <2>2 DEF Handled, OwnOnce
  <2> QED BY <2>3, <2>4, <2>5, <2>6 DEF Handled
<1>3. ASSUME NEW n \in Nodes, HandleOwn(n) PROVE Handled'
  <2>1. PICK r \in local[n] : /\ local' = [local EXCEPT ![n] = @ \ {r}]
                              /\ processed' = [processed EXCEPT ![n][n] = Append(@, r.sequence)]
                              /\ UNCHANGED sequenceMap
    BY <1>3 DEF HandleOwn
  <2>2. r \in Rumor /\ r.sequence \in Nat /\ r.sequence <= sequenceMap[n][n] /\ r.origin = n
    BY <1>l DEF Rumor
  <2>3. PICK list \in Seq(Nat) : list = processed[n][n] BY <1>p
  <2>4. PICK more \in Seq(Nat) : more = Append(list, r.sequence) BY <2>2, AppendProperties
  <2>5. /\ Len(list) \in Nat /\ DOMAIN list = 1 .. Len(list)
        /\ DOMAIN more = 1 .. Len(list) + 1
        /\ \A i \in 1 .. Len(list) : more[i] = list[i]
        /\ more[Len(list) + 1] = r.sequence
    BY <2>2, <2>4, AppendProperties, LenProperties
  <2>6. \A m, o \in Nodes : processed'[m][o] = IF m = n /\ o = n THEN more ELSE processed[m][o]
    BY <1>p, <2>1, <2>3, <2>4
  <2>7. /\ \A i \in DOMAIN list : list[i] <= sequenceMap[n][n]
        /\ \A q \in local[n] : \A i \in DOMAIN list : list[i] # q.sequence
        /\ \A i, j \in DOMAIN list : list[i] = list[j] => i = j
    BY <2>3 DEF Handled, OwnOnce
  <2>8. \A d, o \in Nodes : d # o => processed'[d][o] = [i \in 1 .. sequenceMap'[d][o] |-> i]
    BY <2>1, <2>6 DEF Handled
  <2>9. ASSUME NEW m \in Nodes, NEW i \in DOMAIN processed'[m][m]
        PROVE  processed'[m][m][i] <= sequenceMap'[m][m]
    <3>1. CASE m = n
      <4>1. i \in DOMAIN more /\ processed'[m][m][i] = more[i] BY <2>6, <3>1
      <4>2. i \in DOMAIN list \/ i = Len(list) + 1 BY <2>5, <4>1
      <4>3. more[i] <= sequenceMap[n][n] BY <2>2, <2>5, <2>7, <4>2
      <4> QED BY <2>1, <3>1, <4>1, <4>3
    <3>2. CASE m # n BY <2>1, <2>6, <3>2 DEF Handled
    <3> QED BY <3>1, <3>2
  <2>10. ASSUME NEW m \in Nodes, NEW q \in local'[m]
         PROVE  q.origin = m /\ \A i \in DOMAIN processed'[m][m] : processed'[m][m][i] # q.sequence
    <3>1. q \in local[m] BY <1>l, <2>1
    <3>2. CASE m = n
      <4>1. q # r /\ q \in Rumor /\ q.origin = n BY <1>l, <2>1, <3>1, <3>2
      <4>2. q.sequence # r.sequence BY <2>2, <4>1 DEF Rumor
      <4>3. \A i \in DOMAIN more : more[i] # q.sequence
        <5> SUFFICES ASSUME NEW i \in DOMAIN more PROVE more[i] # q.sequence OBVIOUS
        <5>1. i \in DOMAIN list \/ i = Len(list) + 1 BY <2>5
        <5> QED BY <2>5, <2>7, <3>1, <3>2, <4>2, <5>1
      <4> QED BY <2>6, <3>2, <4>1, <4>3
    <3>3. CASE m # n BY <2>6, <3>1, <3>3 DEF Handled
    <3> QED BY <3>2, <3>3
  <2>11. OwnOnce'
    <3>1. \A i, j \in DOMAIN more : more[i] = more[j] => i = j
      <4> SUFFICES ASSUME NEW i \in DOMAIN more, NEW j \in DOMAIN more, more[i] = more[j]
                   PROVE  i = j
        OBVIOUS
      <4>1. (i \in DOMAIN list \/ i = Len(list) + 1) /\ (j \in DOMAIN list \/ j = Len(list) + 1)
        BY <2>5
      <4>2. \A h \in DOMAIN list : list[h] # r.sequence /\ more[h] = list[h] BY <2>1, <2>5, <2>7
      <4> QED BY <2>5, <2>7, <4>1, <4>2
    <3>2. \A m \in Nodes : \A i, j \in DOMAIN processed'[m][m] :
            processed'[m][m][i] = processed'[m][m][j] => i = j
      BY <2>6, <3>1 DEF Handled, OwnOnce
    <3> QED BY <3>2 DEF OwnOnce
  <2> QED BY <2>8, <2>9, <2>10, <2>11 DEF Handled
<1>4. ASSUME NEW n \in Nodes, NEW o \in Nodes, Take(n, o) PROVE Handled'
  <2>1. n # o /\ UNCHANGED local BY <1>4 DEF Take
  <2>2. PICK k \in Nat : k = sequenceMap[n][o] BY <1>s
  <2>3. \A m, q \in Nodes : sequenceMap'[m][q] =
          IF m = n /\ q = o THEN k + 1 ELSE sequenceMap[m][q]
    BY <1>s, <1>4, <2>2 DEF Take
  <2>4. processed[n][o] = [i \in 1 .. k |-> i] BY <2>1, <2>2 DEF Handled
  <2>5. Append(processed[n][o], k + 1) = [i \in 1 .. k + 1 |-> i] BY <2>4, NextNumber
  <2>6. \A m, q \in Nodes : processed'[m][q] =
          IF m = n /\ q = o THEN Append(processed[n][o], k + 1) ELSE processed[m][q]
    BY <1>p, <1>4, <2>2 DEF Take
  <2>7. ASSUME NEW d \in Nodes, NEW q \in Nodes, d # q
        PROVE  processed'[d][q] = [i \in 1 .. sequenceMap'[d][q] |-> i]
    <3>1. CASE d = n /\ q = o BY <2>3, <2>5, <2>6, <3>1
    <3>2. CASE ~ (d = n /\ q = o)
      <4>1. processed'[d][q] = processed[d][q] /\ sequenceMap'[d][q] = sequenceMap[d][q]
        BY <2>3, <2>6, <3>2
      <4> QED BY <2>7, <4>1 DEF Handled
    <3> QED BY <3>1, <3>2
  <2>8. \A m \in Nodes : processed'[m][m] = processed[m][m] /\ sequenceMap'[m][m] = sequenceMap[m][m]
    BY <2>1, <2>3, <2>6
  <2>9. \A m \in Nodes : \A i \in DOMAIN processed'[m][m] :
          processed'[m][m][i] <= sequenceMap'[m][m]
    BY <2>8 DEF Handled
  <2>10. \A m \in Nodes : \A r \in local'[m] :
           r.origin = m /\ \A i \in DOMAIN processed'[m][m] : processed'[m][m][i] # r.sequence
    BY <2>1, <2>8 DEF Handled
  <2>11. OwnOnce' BY <2>8 DEF Handled, OwnOnce
  <2> QED BY <2>7, <2>9, <2>10, <2>11 DEF Handled
<1> QED BY <1>1, <1>2, <1>3, <1>4 DEF Effect

-----------------------------------------------------------------------------
(* What the layer promises *)

\* At the start nothing is on the way and nothing was handled.
LEMMA InitChannelInv ==
  ASSUME NoOwnPeer, Init
  PROVE  Apart /\ Handled
<1>1. Apart BY DEF Init, Apart, NoOwnPeer
<1>2. \A d, o \in Nodes : processed[d][o] = <<>> /\ sequenceMap[d][o] = 0 BY DEF Init
<1>3. <<>> = [i \in 1 .. 0 |-> i]
  <2>1. [i \in 1 .. 0 |-> i] \in Seq(Nat) /\ Len([i \in 1 .. 0 |-> i]) = 0 BY NextNumber
  <2> QED BY <2>1, EmptySeq
<1>4. \A d, o \in Nodes : processed[d][o] = [i \in 1 .. sequenceMap[d][o] |-> i]
  BY <1>2, <1>3
<1>5. \A n \in Nodes : DOMAIN processed[n][n] = {} /\ local[n] = {} BY <1>2 DEF Init
<1> QED BY <1>1, <1>4, <1>5 DEF Handled, OwnOnce

\* Where no node is its own peer, no packet comes back to its sender, and rumors are
\* handled in order and once.
THEOREM ChannelTrue ==
  ASSUME NoOwnPeer
  PROVE  Spec => [](RumorInv /\ Apart /\ Handled)
<1>1. Init => Apart /\ Handled BY InitChannelInv
<1>2. RumorInv /\ Apart /\ Handled /\ [Next]_vars => Apart' /\ Handled'
  BY ApartKeeps, StepEffect, HandledKeeps
<1> QED BY <1>1, <1>2, RumorsTrue, PTL DEF Spec

\* A node handles each of its own broadcasts once, whatever its peers send back
\* (processRumors handles the rumors of a packet from the node itself unseen).
THEOREM OwnOnceCorrect ==
  ASSUME NoOwnPeer
  PROVE  Spec => []OwnOnce
<1>1. Handled => OwnOnce BY DEF Handled
<1> QED BY <1>1, ChannelTrue, PTL

\* The rumors that each peer has handled of each other one
Accepted == [d \in Nodes |-> [o \in Nodes |-> IF d = o THEN <<>> ELSE processed[d][o]]]
Sent == [o \in Nodes |-> sequenceMap[o][o]]

\* Every step is one of the ordered broadcast or changes nothing that it knows.
LEMMA EffectImplements ==
  ASSUME RumorInv, Handled, Effect
  PROVE  \/ Channel!Next
         \/ Sent' = Sent /\ Accepted' = Accepted
<1>s. sequenceMap \in [Nodes -> [Nodes -> Nat]] BY DEF RumorInv, TypeOK, Status
<1>p. processed \in [Nodes -> [Nodes -> Seq(Nat)]] BY DEF RumorInv, TypeOK
<1>1. CASE UNCHANGED <<sequenceMap, processed, local>> BY <1>1 DEF Sent, Accepted
<1>2. ASSUME NEW n \in Nodes, Announce(n) PROVE Channel!Next
  <2>1. Sent' = [Sent EXCEPT ![n] = @ + 1] BY <1>s, <1>2 DEF Announce, Sent
  <2>2. Accepted' = Accepted BY <1>2 DEF Announce, Accepted
  <2>3. Channel!Broadcast(n) BY <2>1, <2>2 DEF Channel!Broadcast, Sent, Accepted
  <2> QED BY <2>3 DEF Channel!Next
<1>3. ASSUME NEW n \in Nodes, HandleOwn(n) PROVE Sent' = Sent /\ Accepted' = Accepted
  <2>1. \A d, o \in Nodes : d # o => processed'[d][o] = processed[d][o]
    BY <1>p, <1>3 DEF HandleOwn
  <2> QED BY <1>3, <2>1 DEF HandleOwn, Sent, Accepted
<1>4. ASSUME NEW n \in Nodes, NEW o \in Nodes, Take(n, o) PROVE Channel!Next
  <2>1. n # o /\ sequenceMap[n][o] < sequenceMap[o][o] BY <1>4 DEF Take
  <2>2. PICK k \in Nat : k = sequenceMap[n][o] BY <1>s
  <2>3. PICK list : list = processed[n][o] OBVIOUS
  <2>4. Len(list) = k
    <3>1. list = [i \in 1 .. k |-> i] BY <2>1, <2>2, <2>3 DEF Handled
    <3> QED BY <3>1, NextNumber
  <2>5. Accepted[n][o] = list BY <2>1, <2>3 DEF Accepted
  <2>6. Sent' = Sent
    <3>1. \A q \in Nodes : sequenceMap'[q][q] = sequenceMap[q][q] BY <1>s, <1>4, <2>1 DEF Take
    <3> QED BY <3>1 DEF Sent
  <2>7. Accepted' = [Accepted EXCEPT ![n][o] = Append(@, Len(@) + 1)]
    <3>1. \A d, q \in Nodes : processed'[d][q] =
            IF d = n /\ q = o THEN Append(list, k + 1) ELSE processed[d][q]
      BY <1>p, <1>4, <2>2, <2>3 DEF Take
    <3>2. \A d, q \in Nodes : Accepted'[d][q] =
            IF d = n /\ q = o THEN Append(list, k + 1) ELSE Accepted[d][q]
      BY <2>1, <3>1 DEF Accepted
    <3>3. Append(Accepted[n][o], Len(Accepted[n][o]) + 1) = Append(list, k + 1)
      BY <2>4, <2>5
    <3>4. Accepted \in [Nodes -> [Nodes -> Seq(Nat)]]
      <4>1. \A d, q \in Nodes : (IF d = q THEN <<>> ELSE processed[d][q]) \in Seq(Nat)
        BY <1>p, EmptySeq
      <4> QED BY <4>1 DEF Accepted
    <3>5. PICK now : now = Accepted OBVIOUS
    <3>6. PICK later : later = Accepted' OBVIOUS
    <3>7. later = [d \in Nodes |-> [q \in Nodes |-> later[d][q]]] BY <3>6 DEF Accepted
    <3>8. later = [now EXCEPT ![n][o] = Append(list, k + 1)]
      <4>1. now \in [Nodes -> [Nodes -> Seq(Nat)]] BY <3>4, <3>5
      <4>2. \A d, q \in Nodes : later[d][q] =
              IF d = n /\ q = o THEN Append(list, k + 1) ELSE now[d][q]
        BY <3>2, <3>5, <3>6
      <4>3. PICK one : one = Append(list, k + 1) OBVIOUS
      <4>4. ASSUME NEW d \in Nodes PROVE later[d] = [now EXCEPT ![n][o] = one][d]
        <5>1. later[d] = [q \in Nodes |-> later[d][q]] BY <3>7
        <5>2. now[d] \in [Nodes -> Seq(Nat)] BY <4>1
        <5>3. CASE d = n
          <6>1. [now EXCEPT ![n][o] = one][d] = [now[d] EXCEPT ![o] = one] BY <4>1, <5>3
          <6>2. later[d] = [q \in Nodes |-> IF q = o THEN one ELSE now[d][q]]
            BY <4>2, <4>3, <5>1, <5>3
          <6>3. [now[d] EXCEPT ![o] = one] = [q \in Nodes |-> IF q = o THEN one ELSE now[d][q]]
            BY <5>2
          <6> QED BY <6>1, <6>2, <6>3
        <5>4. CASE d # n
          <6>1. later[d] = [q \in Nodes |-> now[d][q]] BY <4>2, <5>1, <5>4
          <6>2. now[d] = [q \in Nodes |-> now[d][q]] BY <5>2
          <6> QED BY <4>1, <5>4, <6>1, <6>2
        <5> QED BY <5>3, <5>4
      <4> QED BY <3>7, <4>1, <4>3, <4>4
    <3> QED BY <3>3, <3>5, <3>6, <3>8
  <2>8. Len(Accepted[n][o]) < Sent[o] BY <2>1, <2>2, <2>4, <2>5 DEF Sent
  <2>9. Channel!Accept(n, o)
    BY <2>1, <2>6, <2>7, <2>8 DEF Channel!Accept, Sent, Accepted
  <2> QED BY <2>9 DEF Channel!Next
<1> QED BY <1>1, <1>2, <1>3, <1>4 DEF Effect

\* The gossip layer implements the ordered broadcast: the handlers of a node get the
\* rumors of another one in order, each once (processRumors).
THEOREM ChannelImplemented ==
  ASSUME NoOwnPeer
  PROVE  Spec => ImplementsChannel
<1>1. Init => Channel!Init BY DEF Init, Channel!Init
<1>2. RumorInv /\ Apart /\ Handled /\ [Next]_vars
        => [Channel!Next]_<<Sent, Accepted>>
  BY StepEffect, EffectImplements
<1>3. Init /\ []RumorInv /\ []Apart /\ []Handled /\ [][Next]_vars
        => Channel!Init /\ [][Channel!Next]_<<Sent, Accepted>>
  BY <1>1, <1>2, PTL
<1>4. Channel!Spec <=> Channel!Init /\ [][Channel!Next]_<<Sent, Accepted>>
  BY DEF Channel!Spec, Sent, Accepted
<1> QED BY <1>3, <1>4, ChannelTrue, PTL DEF Spec, ImplementsChannel
================================================================================
