---------------------------- MODULE AgreementProofs ----------------------------
(***************************************************************************)
(* What holds of the agreement where nobody retries and a threshold is a   *)
(* majority of the nodes: a proposer has a value only from the promises of *)
(* a majority, each counted once (PromisesInv), which the agreement needs; *)
(* and, where at most two calls propose, on nodes with different IDs, two  *)
(* nodes never store different blocks at one place of their chains         *)
(* (Agreement).                                                            *)
(*                                                                         *)
(* The messages under way from a node to a node are followed through their *)
(* three places (out, inbox and local), then every step of the program is  *)
(* said to be of one of eleven kinds, of which the invariants only need to *)
(* know which fields change and which message goes or comes.  The          *)
(* invariants are about one step of the agreement each, and speak of what  *)
(* has happened in it by sets that some value is shown to exist for: the   *)
(* voters whose promises a proposer has counted (PromisesInv) and, for the *)
(* agreement (AgreeInv), also the value that each call has proposed, the   *)
(* nodes that have accepted it, the accepts that each node has counted and *)
(* the nodes that have prepared.                                           *)
(***************************************************************************)
EXTENDS AcceptorProofs, TLCProofs

-----------------------------------------------------------------------------
(* Messages under way from a node to a node *)

\* The broadcast m reaches the node d
Goes(m, d) == m.type = "promise" => m.dest = d

\* Under the contents I, O, L of inbox, out and local: the goroutine g has yet to
\* broadcast m or to process it, and m is for d; m is under way from o to d; at most one
\* message of the set M is.
CarriesIn(O, L, g, m, d) ==
  m # None /\ ((O[g] = m /\ Goes(m, d)) \/ (L[g] = m /\ d = NodeOf(g)))

GoingIn(I, O, L, m, d, o) ==
  \/ \E i \in DOMAIN I[d][o] : I[d][o][i] = m
  \/ \E g \in Goroutines : NodeOf(g) = o /\ CarriesIn(O, L, g, m, d)

OneIn(I, O, L, M, d, o) ==
  /\ \A i, j \in DOMAIN I[d][o] : I[d][o][i] \in M /\ I[d][o][j] \in M => i = j
  /\ \A g, h \in Goroutines : \A a, b \in M :
       NodeOf(g) = o /\ NodeOf(h) = o /\ CarriesIn(O, L, g, a, d) /\ CarriesIn(O, L, h, b, d)
         => g = h
  /\ \A i \in DOMAIN I[d][o] : \A g \in Goroutines : \A a \in M :
       NodeOf(g) = o /\ CarriesIn(O, L, g, a, d) => I[d][o][i] \notin M

Going(m, d, o) == GoingIn(inbox, out, local, m, d, o)
One(M, d, o) == OneIn(inbox, out, local, M, d, o)

\* The goroutines' own places
Held == [Goroutines -> Message \cup {None}]

\* The head of a queue taken, the rest has no other message of a set of which it has one.
LEMMA TailOne ==
  ASSUME NEW q \in Seq(Message), q # <<>>
  PROVE  /\ \A i \in DOMAIN Tail(q) : i + 1 \in DOMAIN q /\ Tail(q)[i] = q[i + 1] /\ i + 1 # 1
         /\ \A i, j \in DOMAIN Tail(q) : i + 1 = j + 1 => i = j
         /\ 1 \in DOMAIN q /\ Head(q) = q[1]
<1>1. /\ Len(q) \in Nat /\ DOMAIN q = 1..Len(q) /\ Len(q) >= 1
      /\ DOMAIN Tail(q) = 1..(Len(q) - 1)
      /\ \A i \in 1..(Len(q) - 1) : Tail(q)[i] = q[i + 1]
  <2>1. Tail(q) \in Seq(Message) /\ Len(Tail(q)) = Len(q) - 1 BY HeadTailProperties
  <2> QED BY <2>1, HeadTailProperties, LenProperties, EmptySeq
<1> QED BY <1>1

\* What is appended is at the end.
LEMMA AppendOne ==
  ASSUME NEW q \in Seq(Message), NEW m \in Message
  PROVE  /\ \A i \in DOMAIN Append(q, m) :
              \/ i = Len(q) + 1 /\ Append(q, m)[i] = m
              \/ i \in DOMAIN q /\ Append(q, m)[i] = q[i]
<1>1. /\ Len(q) \in Nat /\ DOMAIN q = 1..Len(q) /\ DOMAIN Append(q, m) = 1..(Len(q) + 1)
      /\ \A i \in 1..Len(q) : Append(q, m)[i] = q[i]
      /\ Append(q, m)[Len(q) + 1] = m
  <2>1. Append(q, m) \in Seq(Message) /\ Len(Append(q, m)) = Len(q) + 1 BY AppendProperties
  <2> QED BY <2>1, AppendProperties, LenProperties
<1> QED BY <1>1

\* I2, O2, L2 have no message that I, O, L do not have, between any two nodes.
Less(I, O, L, I2, O2, L2) ==
  \A d, o \in Nodes :
    /\ \A m \in Message : GoingIn(I2, O2, L2, m, d, o) => GoingIn(I, O, L, m, d, o)
    /\ \A M \in SUBSET Message : OneIn(I, O, L, M, d, o) => OneIn(I2, O2, L2, M, d, o)

\* The same, and the message m from o to d is gone with those like it.
Without(I2, O2, L2, m, d, o) ==
  \A M \in SUBSET Message :
    m \in M /\ One(M, d, o) => \A x \in M : ~GoingIn(I2, O2, L2, x, d, o)

\* A goroutine clears one of its places.
LEMMA ClearLess ==
  ASSUME NEW I \in Inboxes, NEW O \in Held, NEW L \in Held, NEW O2 \in Held, NEW L2 \in Held,
         \A h \in Goroutines : O2[h] = O[h] \/ O2[h] = None,
         \A h \in Goroutines : L2[h] = L[h] \/ L2[h] = None
  PROVE  Less(I, O, L, I, O2, L2)
<1> SUFFICES ASSUME NEW d \in Nodes, NEW o \in Nodes
             PROVE  /\ \A m \in Message : GoingIn(I, O2, L2, m, d, o) => GoingIn(I, O, L, m, d, o)
                    /\ \A M \in SUBSET Message :
                         OneIn(I, O, L, M, d, o) => OneIn(I, O2, L2, M, d, o)
  BY DEF Less
<1>1. \A h \in Goroutines : \A m : CarriesIn(O2, L2, h, m, d) => CarriesIn(O, L, h, m, d)
  BY DEF CarriesIn
<1>2. \A m \in Message : GoingIn(I, O2, L2, m, d, o) => GoingIn(I, O, L, m, d, o)
  BY <1>1 DEF GoingIn
<1>3. ASSUME NEW M \in SUBSET Message, OneIn(I, O, L, M, d, o)
      PROVE  OneIn(I, O2, L2, M, d, o)
  BY <1>1, <1>3 DEF OneIn
<1> QED BY <1>2, <1>3

\* Every listener takes from its inboxes only, and never its own rumors.
Alone ==
  /\ \A n \in Nodes : inbox[n][n] = <<>>
  /\ \A g \in Goroutines : out[g] = None \/ local[g] = None

\* in comes from the node o: the own node or the origin of a rumor.
From(g, in, o) ==
  \/ /\ local[g] # None /\ o = NodeOf(g)
     /\ in = [msg |-> local[g], box |-> inbox]
  \/ /\ local[g] = None /\ Idle(g) /\ inbox[g][o] # <<>>
     /\ in = [msg |-> Head(inbox[g][o]), box |-> [inbox EXCEPT ![g][o] = Tail(@)]]

\* Everything that a goroutine processes comes from some node.
LEMMA IncomingFrom ==
  ASSUME NEW g \in Goroutines, NEW in \in Incoming(g)
  PROVE  \E o \in Nodes : From(g, in, o)
BY NodeOfType DEF Incoming, From

\* The types of the places of messages.
LEMMA TrafficType ==
  ASSUME TypeOK
  PROVE  inbox \in Inboxes /\ out \in Held /\ local \in Held
BY DEF TypeOK, Inboxes, Held

\* in was under way from o to the node of g, and is not any more.
Taken(g, o, in, L) ==
  /\ in.msg \in Message /\ Going(in.msg, NodeOf(g), o)
  /\ Less(inbox, out, local, in.box, out, L)
  /\ Without(in.box, out, L, in.msg, NodeOf(g), o)
  /\ in.box \in Inboxes /\ L \in Held
  /\ out[g] = None /\ L[g] = None
  /\ \A d, p \in Nodes :
       \/ in.box[d][p] = inbox[d][p]
       \/ /\ d = NodeOf(g) /\ p = o /\ d # o /\ inbox[d][p] # <<>>
          /\ in.msg = Head(inbox[d][p]) /\ in.box[d][p] = Tail(inbox[d][p])

\* Taking a message from a queue or from the own place only removes it.
LEMMA Takes ==
  ASSUME TypeOK, Alone, NEW g \in Goroutines, NEW o \in Nodes, NEW in, From(g, in, o),
         NEW L, L = [local EXCEPT ![g] = None]
  PROVE  Taken(g, o, in, L)
<1> DEFINE n == NodeOf(g)
<1>0. inbox \in Inboxes /\ out \in Held /\ local \in Held /\ n \in Nodes
  BY TrafficType, NodeOfType
<1>1. L \in Held /\ L[g] = None /\ \A h \in Goroutines : L[h] = local[h] \/ L[h] = None
  BY <1>0 DEF Held
<1>2. CASE local[g] # None
  <2>1. o = n /\ in = [msg |-> local[g], box |-> inbox] BY <1>2 DEF From
  <2>2. out[g] = None BY <1>2 DEF Alone
  <2>3. in.msg \in Message /\ in.msg = local[g] /\ in.box = inbox BY <1>0, <1>2, <2>1 DEF Held
  <2>4. Going(in.msg, n, o) BY <1>2, <2>1, <2>3 DEF Going, GoingIn, CarriesIn
  <2>5. Less(inbox, out, local, in.box, out, L) BY <1>0, <1>1, <2>3, ClearLess
  <2>6. ASSUME NEW M \in SUBSET Message, in.msg \in M, One(M, n, o), NEW x \in M,
               GoingIn(inbox, out, L, x, n, o)
        PROVE  FALSE
    <3>1. CarriesIn(out, local, g, in.msg, n) BY <1>2, <2>3 DEF CarriesIn
    <3>2. \A h \in Goroutines :
            CarriesIn(out, L, h, x, n) => h # g /\ CarriesIn(out, local, h, x, n)
      BY <1>1, <1>2, <2>2 DEF CarriesIn
    <3>3. CASE \E i \in DOMAIN inbox[n][o] : inbox[n][o][i] = x
      BY <2>1, <2>6, <3>1, <3>3 DEF One, OneIn
    <3>4. CASE \E h \in Goroutines : NodeOf(h) = o /\ CarriesIn(out, L, h, x, n)
      <4>1. PICK h \in Goroutines : NodeOf(h) = o /\ CarriesIn(out, L, h, x, n) BY <3>4
      <4>2. h # g /\ CarriesIn(out, local, h, x, n) BY <3>2, <4>1
      <4> QED BY <2>1, <2>6, <3>1, <4>1, <4>2 DEF One, OneIn
    <3> QED BY <2>6, <3>3, <3>4 DEF GoingIn
  <2>7. Without(in.box, out, L, in.msg, n, o) BY <2>3, <2>6 DEF Without
  <2> QED BY <1>0, <1>1, <2>2, <2>3, <2>4, <2>5, <2>7 DEF Taken
<1>3. CASE local[g] = None
  <2>1. /\ Idle(g) /\ g \in Nodes /\ inbox[g][o] # <<>> /\ out[g] = None
        /\ in = [msg |-> Head(inbox[g][o]), box |-> [inbox EXCEPT ![g][o] = Tail(@)]]
    BY <1>3 DEF From, Idle
  <2>2. n = g BY <2>1, PopulationAssumption DEF NodeOf
  <2>3. n # o BY <2>1, <2>2 DEF Alone
  <2>4. inbox[n][o] \in Seq(Message) BY <1>0 DEF Inboxes
  <2> DEFINE q == inbox[n][o]
  <2>5. /\ in.msg = Head(q) /\ in.box = [inbox EXCEPT ![n][o] = Tail(q)]
        /\ in.msg \in Message /\ Tail(q) \in Seq(Message)
    BY <2>1, <2>2, <2>4, HeadTailProperties
  <2>6. in.box \in Inboxes BY <1>0, <2>5 DEF Inboxes
  <2>7. in.box[n][o] = Tail(q) BY <1>0, <2>5 DEF Inboxes
  <2>8. \A d, p \in Nodes : in.box[d][p] = inbox[d][p] \/ (d = n /\ p = o)
    BY <1>0, <2>5 DEF Inboxes
  <2>9. /\ \A i \in DOMAIN Tail(q) : i + 1 \in DOMAIN q /\ Tail(q)[i] = q[i + 1] /\ i + 1 # 1
        /\ \A i, j \in DOMAIN Tail(q) : i + 1 = j + 1 => i = j
        /\ 1 \in DOMAIN q /\ in.msg = q[1]
    BY <2>1, <2>2, <2>4, <2>5, TailOne
  <2>10. L = local BY <1>0, <1>3 DEF Held
  <2> HIDE DEF n
  <2>11. Going(in.msg, n, o) BY <2>9 DEF Going, GoingIn
  <2>12. ASSUME NEW d \in Nodes, NEW p \in Nodes
         PROVE  /\ \A m \in Message :
                     GoingIn(in.box, out, L, m, d, p) => GoingIn(inbox, out, local, m, d, p)
                /\ \A M \in SUBSET Message :
                     OneIn(inbox, out, local, M, d, p) => OneIn(in.box, out, L, M, d, p)
    <3>1. CASE in.box[d][p] = inbox[d][p] BY <2>10, <3>1 DEF GoingIn, OneIn
    <3>2. CASE d = n /\ p = o
      <4>1. in.box[d][p] = Tail(q) /\ inbox[d][p] = q BY <2>7, <3>2
      <4> HIDE DEF q
      <4>2. \A m \in Message :
              GoingIn(in.box, out, L, m, d, p) => GoingIn(inbox, out, local, m, d, p)
        BY <2>9, <2>10, <4>1 DEF GoingIn
      <4>3. ASSUME NEW M \in SUBSET Message, OneIn(inbox, out, local, M, d, p)
            PROVE  OneIn(in.box, out, L, M, d, p)
        <5>1. \A i, j \in DOMAIN Tail(q) : Tail(q)[i] \in M /\ Tail(q)[j] \in M => i = j
          BY <2>9, <4>1, <4>3 DEF OneIn
        <5>2. \A i \in DOMAIN Tail(q) : \A h \in Goroutines : \A a \in M :
                NodeOf(h) = p /\ CarriesIn(out, L, h, a, d) => Tail(q)[i] \notin M
          BY <2>9, <2>10, <4>1, <4>3 DEF OneIn
        <5>3. \A h, k \in Goroutines : \A a, b \in M :
                NodeOf(h) = p /\ NodeOf(k) = p /\ CarriesIn(out, L, h, a, d)
                  /\ CarriesIn(out, L, k, b, d) => h = k
          BY <2>10, <4>3 DEF OneIn
        <5> QED BY <4>1, <5>1, <5>2, <5>3 DEF OneIn
      <4> QED BY <4>2, <4>3
    <3> QED BY <2>8, <3>1, <3>2
  <2>13. Less(inbox, out, local, in.box, out, L) BY <2>12 DEF Less
  <2>14. ASSUME NEW M \in SUBSET Message, in.msg \in M, One(M, n, o), NEW x \in M,
                GoingIn(in.box, out, L, x, n, o)
         PROVE  FALSE
    <3> HIDE DEF q
    <3>0. OneIn(inbox, out, local, M, n, o) /\ q = inbox[n][o] BY <2>14 DEF One, q
    <3>1. CASE \E i \in DOMAIN in.box[n][o] : in.box[n][o][i] = x
      BY <2>7, <2>9, <2>14, <3>0, <3>1 DEF OneIn
    <3>2. CASE \E h \in Goroutines : NodeOf(h) = o /\ CarriesIn(out, L, h, x, n)
      BY <2>9, <2>10, <2>14, <3>0, <3>2 DEF OneIn
    <3> QED BY <2>14, <3>1, <3>2 DEF GoingIn
  <2>15. Without(in.box, out, L, in.msg, n, o) BY <2>14 DEF Without
  <2>16. \A d, p \in Nodes :
           \/ in.box[d][p] = inbox[d][p]
           \/ /\ d = n /\ p = o /\ d # o /\ inbox[d][p] # <<>>
              /\ in.msg = Head(inbox[d][p]) /\ in.box[d][p] = Tail(inbox[d][p])
    BY <2>1, <2>2, <2>3, <2>5, <2>7, <2>8
  <2> QED BY <1>1, <2>1, <2>5, <2>6, <2>11, <2>13, <2>15, <2>16 DEF n, Taken
<1> QED BY <1>2, <1>3

\* Under the contents I, O, L, the goroutine g, which holds nothing, puts the message m in a
\* place of its own or into inboxes.
PutIn(I, O, L, g, m, I2, O2, L2) ==
  \/ I2 = I /\ O2 = [O EXCEPT ![g] = m] /\ L2 = L
  \/ /\ O2 = O
     /\ L2 = L \/ (L2 = [L EXCEPT ![g] = m] /\ Goes(m, NodeOf(g)))
     /\ \A d, o \in Nodes :
          \/ I2[d][o] = I[d][o]
          \/ /\ o = NodeOf(g) /\ d # o /\ Goes(m, d)
             /\ I2[d][o] = Append(I[d][o], m)

\* The message m of g is added to those from its node, and nothing else is.
Adds(I, O, L, n, m, I2, O2, L2) ==
  \A d, o \in Nodes :
    /\ \A x \in Message :
         GoingIn(I2, O2, L2, x, d, o) =>
           GoingIn(I, O, L, x, d, o) \/ (x = m /\ o = n /\ Goes(m, d))
    /\ \A M \in SUBSET Message :
         OneIn(I, O, L, M, d, o)
           /\ (m \in M /\ o = n /\ Goes(m, d) => \A x \in M : ~GoingIn(I, O, L, x, d, o))
           => OneIn(I2, O2, L2, M, d, o)

\* Putting a message in out, in local or at the end of inboxes adds only this one.
LEMMA Puts ==
  ASSUME NEW I \in Inboxes, NEW O \in Held, NEW L \in Held, NEW g \in Goroutines,
         O[g] = None, L[g] = None, NEW m \in Message,
         NEW I2, NEW O2, NEW L2, PutIn(I, O, L, g, m, I2, O2, L2)
  PROVE  Adds(I, O, L, NodeOf(g), m, I2, O2, L2)
<1> SUFFICES ASSUME NEW d \in Nodes, NEW o \in Nodes
             PROVE  /\ \A x \in Message :
                         GoingIn(I2, O2, L2, x, d, o) =>
                           GoingIn(I, O, L, x, d, o) \/ (x = m /\ o = NodeOf(g) /\ Goes(m, d))
                    /\ \A M \in SUBSET Message :
                         OneIn(I, O, L, M, d, o)
                           /\ (m \in M /\ o = NodeOf(g) /\ Goes(m, d)
                                 => \A x \in M : ~GoingIn(I, O, L, x, d, o))
                           => OneIn(I2, O2, L2, M, d, o)
  BY DEF Adds
<1> DEFINE n == NodeOf(g)
           q == I[d][o]
<1>0. q \in Seq(Message) BY DEF Inboxes
<1>1. \A h \in Goroutines : \A x : CarriesIn(O2, L2, h, x, d) =>
        CarriesIn(O, L, h, x, d) \/ (h = g /\ x = m /\ Goes(m, d))
  <2>1. CASE O2 = [O EXCEPT ![g] = m] /\ L2 = L BY <2>1 DEF CarriesIn, Held
  <2>2. CASE O2 = O /\ L2 = L BY <2>2
  <2>3. CASE O2 = O /\ L2 = [L EXCEPT ![g] = m] /\ Goes(m, n) BY <2>3 DEF CarriesIn, Held
  <2> QED BY <2>1, <2>2, <2>3 DEF PutIn
<1>2. \A x : ~CarriesIn(O, L, g, x, d) BY DEF CarriesIn
<1>3. CASE I2[d][o] = q
  <2>1. ASSUME NEW x \in Message, GoingIn(I2, O2, L2, x, d, o)
        PROVE  GoingIn(I, O, L, x, d, o) \/ (x = m /\ o = n /\ Goes(m, d))
    BY <1>1, <1>3, <2>1 DEF GoingIn
  <2>2. ASSUME NEW M \in SUBSET Message, OneIn(I, O, L, M, d, o),
               m \in M /\ o = n /\ Goes(m, d) => \A x \in M : ~GoingIn(I, O, L, x, d, o)
        PROVE  OneIn(I2, O2, L2, M, d, o)
    <3>1. CASE m \in M /\ o = n /\ Goes(m, d)
      <4>1. /\ \A i \in DOMAIN q : q[i] \notin M
            /\ \A h \in Goroutines : \A x \in M :
                          NodeOf(h) = o => ~CarriesIn(O, L, h, x, d)
        BY <2>2, <3>1 DEF GoingIn
      <4> QED BY <1>1, <1>3, <4>1 DEF OneIn
    <3>2. CASE ~(m \in M /\ o = n /\ Goes(m, d))
      <4>1. \A h \in Goroutines : \A x \in M :
              NodeOf(h) = o /\ CarriesIn(O2, L2, h, x, d) => CarriesIn(O, L, h, x, d)
        BY <1>1, <3>2
      <4> QED BY <1>3, <2>2, <4>1 DEF OneIn
    <3> QED BY <3>1, <3>2
  <2> QED BY <2>1, <2>2
<1>4. CASE I2[d][o] # q
  <2>1. o = n /\ d # o /\ Goes(m, d) /\ I2[d][o] = Append(q, m) BY <1>4 DEF PutIn
  <2>2. O2 = O /\ (L2 = L \/ L2 = [L EXCEPT ![g] = m]) BY <1>4 DEF PutIn
  <2>3. \A h \in Goroutines : \A x :
          NodeOf(h) = o /\ CarriesIn(O2, L2, h, x, d) => CarriesIn(O, L, h, x, d)
    BY <2>1, <2>2 DEF CarriesIn, Held
  <2>4. \A i \in DOMAIN Append(q, m) :
          \/ i = Len(q) + 1 /\ Append(q, m)[i] = m
          \/ i \in DOMAIN q /\ Append(q, m)[i] = q[i]
    BY <1>0, AppendOne
  <2> HIDE DEF q
  <2>5. ASSUME NEW x \in Message, GoingIn(I2, O2, L2, x, d, o)
        PROVE  GoingIn(I, O, L, x, d, o) \/ (x = m /\ o = n /\ Goes(m, d))
    BY <2>1, <2>3, <2>4, <2>5 DEF GoingIn, q
  <2>6. ASSUME NEW M \in SUBSET Message, OneIn(I, O, L, M, d, o),
               m \in M => \A x \in M : ~GoingIn(I, O, L, x, d, o)
        PROVE  OneIn(I2, O2, L2, M, d, o)
    <3>1. m \in M => /\ \A i \in DOMAIN q : q[i] \notin M
                     /\ \A h \in Goroutines : \A x \in M :
                          NodeOf(h) = o => ~CarriesIn(O, L, h, x, d)
      BY <2>6 DEF GoingIn, q
    <3>2. \A i, j \in DOMAIN Append(q, m) : Append(q, m)[i] \in M /\ Append(q, m)[j] \in M => i = j
      BY <2>4, <2>6, <3>1 DEF OneIn, q
    <3>3. \A h, k \in Goroutines : \A a, b \in M :
            NodeOf(h) = o /\ NodeOf(k) = o /\ CarriesIn(O2, L2, h, a, d)
              /\ CarriesIn(O2, L2, k, b, d) => h = k
      BY <2>3, <2>6 DEF OneIn
    <3>4. \A i \in DOMAIN Append(q, m) : \A h \in Goroutines : \A a \in M :
            NodeOf(h) = o /\ CarriesIn(O2, L2, h, a, d) => Append(q, m)[i] \notin M
      BY <2>3, <2>4, <2>6, <3>1 DEF OneIn, q
    <3> QED BY <2>1, <3>2, <3>3, <3>4 DEF OneIn
  <2> QED BY <2>1, <2>5, <2>6
<1> QED BY <1>3, <1>4

\* A broadcast puts its message.
LEMMA SendsPuts ==
  ASSUME NEW g \in Goroutines, NEW box \in Inboxes, NEW m \in Message, Sends(g, box, m),
         local \in Held, NEW L, L = [local EXCEPT ![g] = None], NEW O, NEW O2, O2 = O
  PROVE  PutIn(box, O, L, g, m, inbox', O2, local')
<1> DEFINE n == NodeOf(g)
<1>1. n \in Nodes BY NodeOfType
<1>2. local' = L \/ (local' = [L EXCEPT ![g] = m] /\ Goes(m, n))
  BY DEF Sends, Held, Goes
<1>3. \A d, o \in Nodes :
        \/ inbox'[d][o] = box[d][o]
        \/ o = n /\ d # o /\ Goes(m, d) /\ inbox'[d][o] = Append(box[d][o], m)
  <2>1. CASE m.type = "promise"
    <3>1. m.dest \in Nodes BY <2>1, MessageCases DEF PromiseMsg
    <3>2. CASE m.dest = n BY <2>1, <3>2 DEF Sends
    <3>3. CASE m.dest # n
      <4>1. inbox' = [box EXCEPT ![m.dest][n] = Append(@, m)] BY <2>1, <3>3 DEF Sends
      <4> HIDE DEF n
      <4> QED BY <1>1, <2>1, <3>1, <3>3, <4>1 DEF Inboxes, Goes
    <3> QED BY <3>2, <3>3
  <2>2. CASE m.type # "promise"
    <3>1. inbox' = Sent(box, n, m) BY <2>2 DEF Sends
    <3> HIDE DEF n
    <3> QED BY <1>1, <2>2, <3>1 DEF Sent, Inboxes, Goes
  <2> QED BY <2>1, <2>2
<1> QED BY <1>2, <1>3 DEF PutIn

\* Answers, with or without a broadcast in the section, puts one message.
LEMMA AnswersPuts ==
  ASSUME NEW g \in Goroutines, NEW box \in Inboxes, NEW m \in Message, Answers(g, box, m),
         local \in Held, NEW L, L = [local EXCEPT ![g] = None]
  PROVE  PutIn(box, out, L, g, m, inbox', out', local')
<1>1. CASE Sends(g, box, m) /\ UNCHANGED out BY <1>1, SendsPuts
<1>2. CASE /\ inbox' = box
           /\ local' = [local EXCEPT ![g] = None]
           /\ out' = [out EXCEPT ![g] = m]
  BY <1>2 DEF PutIn
<1> QED BY <1>1, <1>2 DEF Answers

-----------------------------------------------------------------------------
(* What the steps do to the messages under way *)

\* A step of g adds at most the messages of S, from the own node.
Flows(g, S) ==
  \A d, o \in Nodes :
    /\ \A x \in Message :
         Going(x, d, o)' => Going(x, d, o) \/ (x \in S /\ o = NodeOf(g) /\ Goes(x, d))
    /\ \A M \in SUBSET Message :
         /\ One(M, d, o)
         /\ \A x \in S \cap M : o = NodeOf(g) /\ Goes(x, d) => \A y \in M : ~Going(y, d, o)
         => One(M, d, o)'

\* It holds at most the messages of S then, and others what they held.
Places(g, S) ==
  /\ \A h \in Goroutines \ {g} : out'[h] = out[h] /\ local'[h] = local[h]
  /\ out'[g] # None => out'[g] \in S
  /\ local'[g] # None => local'[g] \in S /\ Goes(local'[g], NodeOf(g))

\* Queues grow at the end by the messages of S and lose m at the head.
Queues(g, S, m) ==
  \A d, o \in Nodes :
    \/ inbox'[d][o] = inbox[d][o]
    \/ /\ d = NodeOf(g) /\ inbox[d][o] # <<>> /\ m = Head(inbox[d][o])
       /\ inbox'[d][o] = Tail(inbox[d][o])
    \/ /\ o = NodeOf(g)
       /\ \E x \in S : Goes(x, d) /\ inbox'[d][o] = Append(inbox[d][o], x)

\* The message m, taken from those of o to d, is gone, and others like it are not there
\* unless they were added.
Gone(m, d, o, S) ==
  \A M \in SUBSET Message :
    m \in M /\ One(M, d, o) /\ S \cap M = {} => \A x \in M : ~Going(x, d, o)'

\* A section without an answer removes one message.
LEMMA SectionReturns ==
  ASSUME TypeOK, Alone, NEW g \in Goroutines, NEW o \in Nodes, NEW in, From(g, in, o),
         Returns(g, in.box)
  PROVE  /\ in.msg \in Message /\ Going(in.msg, NodeOf(g), o)
         /\ Flows(g, {}) /\ Places(g, {}) /\ Queues(g, {}, in.msg) /\ Alone'
         /\ Gone(in.msg, NodeOf(g), o, {})
<1> PICK L : L = [local EXCEPT ![g] = None] OBVIOUS
<1>0. Taken(g, o, in, L) BY Takes
<1>1. out[g] = None /\ L[g] = None BY <1>0 DEF Taken
<1>2. inbox' = in.box /\ local' = L /\ out' = out BY DEF Returns
<1>3. \A m, d, p : Going(m, d, p)' <=> GoingIn(in.box, out, L, m, d, p)
  BY <1>2 DEF Going
<1>4. \A M, d, p : One(M, d, p)' <=> OneIn(in.box, out, L, M, d, p) BY <1>2 DEF One
<1>5. Flows(g, {}) BY <1>0, <1>3, <1>4 DEF Flows, Less, Going, One, Taken
<1>6. Places(g, {}) BY <1>1, <1>2, TrafficType DEF Places, Held
<1>7. Queues(g, {}, in.msg) BY <1>0, <1>2 DEF Queues, Taken
<1>8. Alone' BY <1>0, <1>2, TrafficType DEF Alone, Held, Taken
<1>9. Gone(in.msg, NodeOf(g), o, {}) BY <1>0, <1>3 DEF Gone, Without, Taken
<1>10. in.msg \in Message /\ Going(in.msg, NodeOf(g), o) BY <1>0 DEF Taken
<1> QED BY <1>10, <1>5, <1>6, <1>7, <1>8, <1>9

\* A section with an answer removes one message and adds one.
LEMMA SectionAnswers ==
  ASSUME TypeOK, Alone, NEW g \in Goroutines, NEW o \in Nodes, NEW in, From(g, in, o),
         NEW m \in Message, Answers(g, in.box, m)
  PROVE  /\ in.msg \in Message /\ Going(in.msg, NodeOf(g), o)
         /\ Flows(g, {m}) /\ Places(g, {m}) /\ Queues(g, {m}, in.msg) /\ Alone'
         /\ Gone(in.msg, NodeOf(g), o, {m})
<1> PICK L : L = [local EXCEPT ![g] = None] OBVIOUS
<1> PICK n : n = NodeOf(g) OBVIOUS
<1>0. Taken(g, o, in, L) BY Takes
<1>1. /\ in.msg \in Message /\ Going(in.msg, n, o)
      /\ Less(inbox, out, local, in.box, out, L)
      /\ Without(in.box, out, L, in.msg, n, o)
      /\ in.box \in Inboxes /\ L \in Held
      /\ out[g] = None /\ L[g] = None
      /\ \A d, p \in Nodes :
           \/ in.box[d][p] = inbox[d][p]
           \/ /\ d = n /\ p = o /\ d # o /\ inbox[d][p] # <<>>
              /\ in.msg = Head(inbox[d][p]) /\ in.box[d][p] = Tail(inbox[d][p])
  BY <1>0 DEF Taken
<1>2. out \in Held /\ local \in Held /\ n \in Nodes BY TrafficType, NodeOfType
<1>3. PutIn(in.box, out, L, g, m, inbox', out', local')
  BY <1>1, <1>2, AnswersPuts
<1> PICK I2, O2, L2 : I2 = inbox' /\ O2 = out' /\ L2 = local' OBVIOUS
<1>4. \A x, d, p : Going(x, d, p)' <=> GoingIn(I2, O2, L2, x, d, p) BY DEF Going
<1>5. \A M, d, p : One(M, d, p)' <=> OneIn(I2, O2, L2, M, d, p) BY DEF One
<1>6. ASSUME NEW d \in Nodes, NEW p \in Nodes
      PROVE  /\ \A x \in Message :
                  GoingIn(I2, O2, L2, x, d, p) =>
                    GoingIn(in.box, out, L, x, d, p) \/ (x = m /\ p = n /\ Goes(m, d))
             /\ \A M \in SUBSET Message :
                  OneIn(in.box, out, L, M, d, p)
                    /\ (m \in M /\ p = n /\ Goes(m, d) =>
                          \A x \in M : ~GoingIn(in.box, out, L, x, d, p))
                    => OneIn(I2, O2, L2, M, d, p)
  <2>1. Adds(in.box, out, L, n, m, I2, O2, L2) BY <1>1, <1>2, <1>3, Puts
  <2> QED BY <2>1 DEF Adds
<1>7. Flows(g, {m})
  <2> SUFFICES ASSUME NEW d \in Nodes, NEW p \in Nodes
               PROVE  /\ \A x \in Message :
                           Going(x, d, p)' => Going(x, d, p) \/ (x = m /\ p = n /\ Goes(x, d))
                      /\ \A M \in SUBSET Message :
                           /\ One(M, d, p)
                           /\ \A x \in {m} \cap M :
                                p = n /\ Goes(x, d) => \A y \in M : ~Going(y, d, p)
                           => One(M, d, p)'
    BY DEF Flows
  <2>1. /\ \A x \in Message : GoingIn(in.box, out, L, x, d, p) => Going(x, d, p)
        /\ \A M \in SUBSET Message : One(M, d, p) => OneIn(in.box, out, L, M, d, p)
    BY <1>1 DEF Less, Going, One
  <2> QED BY <1>4, <1>5, <1>6, <2>1
<1>8. Places(g, {m})
  BY <1>1, <1>2, <1>3 DEF Places, PutIn, Held
<1>9. Queues(g, {m}, in.msg) /\ \A d \in Nodes : inbox'[d][d] = inbox[d][d]
  <2>1. \A d, p \in Nodes :
          \/ inbox'[d][p] = in.box[d][p]
          \/ p = n /\ d # p /\ Goes(m, d) /\ inbox'[d][p] = Append(in.box[d][p], m)
    BY <1>3 DEF PutIn
  <2>2. \A d \in Nodes : inbox'[d][d] = inbox[d][d] BY <1>1, <2>1
  <2>3. ASSUME NEW d \in Nodes, NEW p \in Nodes, inbox'[d][p] # inbox[d][p]
        PROVE  \/ /\ d = n /\ inbox[d][p] # <<>> /\ in.msg = Head(inbox[d][p])
                  /\ inbox'[d][p] = Tail(inbox[d][p])
               \/ p = n /\ Goes(m, d) /\ inbox'[d][p] = Append(inbox[d][p], m)
    <3>1. CASE in.box[d][p] = inbox[d][p] BY <2>1, <2>3, <3>1
    <3>2. CASE in.box[d][p] # inbox[d][p]
      <4>1. /\ d = n /\ p = o /\ d # o /\ inbox[d][p] # <<>>
            /\ in.msg = Head(inbox[d][p]) /\ in.box[d][p] = Tail(inbox[d][p])
        BY <1>1, <3>2
      <4>2. inbox'[d][p] = in.box[d][p] BY <2>1, <4>1
      <4> QED BY <4>1, <4>2
    <3> QED BY <3>1, <3>2
  <2> QED BY <2>2, <2>3 DEF Queues
<1>10. \A h \in Goroutines : out'[h] = None \/ local'[h] = None
  BY <1>1, <1>2, <1>3 DEF PutIn, Held, Alone
<1>11. Alone' BY <1>9, <1>10 DEF Alone
<1>12. Gone(in.msg, n, o, {m})
  <2> SUFFICES ASSUME NEW M \in SUBSET Message, in.msg \in M, One(M, n, o), m \notin M, NEW x \in M
               PROVE  ~Going(x, n, o)'
    BY DEF Gone
  <2>1. ~GoingIn(in.box, out, L, x, n, o) BY <1>1 DEF Without
  <2>2. n \in Nodes /\ x # m /\ x \in Message BY <1>2
  <2> QED BY <1>4, <1>6, <2>1, <2>2
<1> QED BY <1>1, <1>7, <1>8, <1>9, <1>11, <1>12

\* A call broadcasts from a section of its own.
LEMMA CallAnswers ==
  ASSUME TypeOK, Alone, NEW c \in Calls, out[c] = None, local[c] = None,
         NEW m \in Message, Answers(c, inbox, m)
  PROVE  Flows(c, {m}) /\ Places(c, {m}) /\ Alone' /\ \A x : Queues(c, {m}, x)
<1>1. c \in Goroutines BY DEF Goroutines
<1> PICK n : n = NodeOf(c) OBVIOUS
<1>2. inbox \in Inboxes /\ out \in Held /\ local \in Held /\ n \in Nodes
  BY <1>1, TrafficType, NodeOfType
<1> PICK L : L = [local EXCEPT ![c] = None] OBVIOUS
<1>3. PutIn(inbox, out, local, c, m, inbox', out', local')
  <2>1. PutIn(inbox, out, L, c, m, inbox', out', local') BY <1>1, <1>2, AnswersPuts
  <2>2. L = local BY <1>1, <1>2 DEF Held
  <2> QED BY <2>1, <2>2
<1> PICK I2, O2, L2 : I2 = inbox' /\ O2 = out' /\ L2 = local' OBVIOUS
<1>4. \A x, d, p : Going(x, d, p)' <=> GoingIn(I2, O2, L2, x, d, p) BY DEF Going
<1>5. \A M, d, p : One(M, d, p)' <=> OneIn(I2, O2, L2, M, d, p) BY DEF One
<1>6. ASSUME NEW d \in Nodes, NEW p \in Nodes
      PROVE  /\ \A x \in Message :
                  GoingIn(I2, O2, L2, x, d, p) =>
                    Going(x, d, p) \/ (x = m /\ p = n /\ Goes(m, d))
             /\ \A M \in SUBSET Message :
                  One(M, d, p)
                    /\ (m \in M /\ p = n /\ Goes(m, d) => \A x \in M : ~Going(x, d, p))
                    => OneIn(I2, O2, L2, M, d, p)
  <2>1. Adds(inbox, out, local, n, m, I2, O2, L2) BY <1>1, <1>2, <1>3, Puts
  <2> QED BY <2>1 DEF Adds, Going, One
<1>7. Flows(c, {m}) BY <1>4, <1>5, <1>6 DEF Flows
<1>8. Places(c, {m}) BY <1>1, <1>2, <1>3 DEF Places, PutIn, Held
<1>9. (\A x : Queues(c, {m}, x)) /\ \A d \in Nodes : inbox'[d][d] = inbox[d][d]
  BY <1>3 DEF Queues, PutIn
<1>10. \A h \in Goroutines : out'[h] = None \/ local'[h] = None
  BY <1>1, <1>2, <1>3 DEF PutIn, Held, Alone
<1> QED BY <1>7, <1>8, <1>9, <1>10 DEF Alone

\* Nothing moves where the places of messages are unchanged.
LEMMA StillFlows ==
  ASSUME Alone, UNCHANGED messageVars, NEW g, NEW S
  PROVE  Flows(g, S) /\ Alone' /\ \A x : Queues(g, S, x)
<1>1. inbox' = inbox /\ out' = out /\ local' = local BY DEF messageVars
<1>2. \A x, d, o : Going(x, d, o)' <=> Going(x, d, o) BY <1>1 DEF Going
<1>3. \A M, d, o : One(M, d, o)' <=> One(M, d, o) BY <1>1 DEF One
<1> QED BY <1>1, <1>2, <1>3 DEF Flows, Queues, Alone

\* The message that g holds becomes the message p that it broadcasts.
LEMMA BroadcastFlows ==
  ASSUME TypeOK, Alone, NEW g \in Goroutines, out[g] # None, NEW p \in Message,
         Sends(g, inbox, p), out' = [out EXCEPT ![g] = None],
         Goes(p, NodeOf(g)) <=> Goes(out[g], NodeOf(g)),
         \A d \in Nodes : Goes(p, d) <=> Goes(out[g], d)
  PROVE  /\ \A d, o \in Nodes :
              /\ \A x \in Message :
                   Going(x, d, o)' => Going(x, d, o) \/ (x = p /\ o = NodeOf(g) /\ Goes(p, d))
              /\ \A M \in SUBSET Message :
                   One(M, d, o) /\ (p \in M => out[g] \in M) => One(M, d, o)'
         /\ \A d \in Nodes : Goes(p, d) => Going(out[g], d, NodeOf(g))
         /\ Places(g, {p}) /\ Alone' /\ \A x : Queues(g, {p}, x)
         /\ out'[g] = None
<1> PICK n : n = NodeOf(g) OBVIOUS
<1> PICK m : m = out[g] OBVIOUS
<1> PICK O : O = [out EXCEPT ![g] = None] OBVIOUS
<1>1. inbox \in Inboxes /\ out \in Held /\ local \in Held /\ n \in Nodes
  BY TrafficType, NodeOfType
<1>2. /\ O \in Held /\ O[g] = None /\ local[g] = None /\ m \in Message
      /\ \A h \in Goroutines : O[h] = out[h] \/ O[h] = None
      /\ \A h \in Goroutines : h # g => O[h] = out[h]
  BY <1>1 DEF Held, Alone
<1>3. PutIn(inbox, O, local, g, p, inbox', out', local')
  <2>1. local = [local EXCEPT ![g] = None] BY <1>1, <1>2 DEF Held
  <2> QED BY <1>1, <2>1, SendsPuts
<1> PICK I2, O2, L2 : I2 = inbox' /\ O2 = out' /\ L2 = local' OBVIOUS
<1>4. \A x, d, o : Going(x, d, o)' <=> GoingIn(I2, O2, L2, x, d, o) BY DEF Going
<1>5. \A M, d, o : One(M, d, o)' <=> OneIn(I2, O2, L2, M, d, o) BY DEF One
<1>6. Less(inbox, out, local, inbox, O, local) BY <1>1, <1>2, ClearLess
<1>7. ASSUME NEW d \in Nodes, Goes(p, d) PROVE CarriesIn(out, local, g, m, d)
  BY <1>7 DEF CarriesIn
<1>8. ASSUME NEW d \in Nodes, NEW o \in Nodes
      PROVE  /\ \A x \in Message :
                  Going(x, d, o)' => Going(x, d, o) \/ (x = p /\ o = n /\ Goes(p, d))
             /\ \A M \in SUBSET Message :
                  One(M, d, o) /\ (p \in M => m \in M) => One(M, d, o)'
  <2>1. /\ \A x \in Message :
             GoingIn(I2, O2, L2, x, d, o) =>
               GoingIn(inbox, O, local, x, d, o) \/ (x = p /\ o = n /\ Goes(p, d))
        /\ \A M \in SUBSET Message :
             OneIn(inbox, O, local, M, d, o)
               /\ (p \in M /\ o = n /\ Goes(p, d) =>
                     \A x \in M : ~GoingIn(inbox, O, local, x, d, o))
               => OneIn(I2, O2, L2, M, d, o)
    <3>1. Adds(inbox, O, local, n, p, I2, O2, L2) BY <1>1, <1>2, <1>3, Puts
    <3> QED BY <3>1 DEF Adds
  <2>2. /\ \A x \in Message : GoingIn(inbox, O, local, x, d, o) => Going(x, d, o)
        /\ \A M \in SUBSET Message : One(M, d, o) => OneIn(inbox, O, local, M, d, o)
    BY <1>6 DEF Less, Going, One
  <2>3. ASSUME NEW M \in SUBSET Message, One(M, d, o), m \in M, o = n, Goes(p, d), NEW x \in M,
               GoingIn(inbox, O, local, x, d, o)
        PROVE  FALSE
    <3>1. CarriesIn(out, local, g, m, d) BY <1>7, <2>3
    <3>2. CASE \E i \in DOMAIN inbox[d][o] : inbox[d][o][i] = x
      BY <2>3, <3>1, <3>2 DEF One, OneIn
    <3>3. CASE \E h \in Goroutines : NodeOf(h) = o /\ CarriesIn(O, local, h, x, d)
      <4>1. PICK h \in Goroutines : NodeOf(h) = o /\ CarriesIn(O, local, h, x, d) BY <3>3
      <4>2. h # g /\ CarriesIn(out, local, h, x, d) BY <1>2, <4>1 DEF CarriesIn
      <4> QED BY <2>3, <3>1, <4>1, <4>2 DEF One, OneIn
    <3> QED BY <2>3, <3>2, <3>3 DEF GoingIn
  <2> QED BY <1>4, <1>5, <2>1, <2>2, <2>3
<1>9. \A d \in Nodes : Goes(p, d) => Going(m, d, n) BY <1>7 DEF Going, GoingIn
<1>10. Places(g, {p}) BY <1>1, <1>2, <1>3 DEF Places, PutIn, Held
<1>11. (\A x : Queues(g, {p}, x)) /\ \A d \in Nodes : inbox'[d][d] = inbox[d][d]
  BY <1>3 DEF Queues, PutIn
<1>12. \A h \in Goroutines : out'[h] = None \/ local'[h] = None
  BY <1>1, <1>2, <1>3 DEF PutIn, Held, Alone
<1> QED BY <1>2, <1>8, <1>9, <1>10, <1>11, <1>12 DEF Alone

-----------------------------------------------------------------------------
(* The kinds of steps where nobody retries *)

\* No proposer has an ID left for a retry, and a threshold is a majority.
NoRetry == \A n \in Nodes : FirstID[n] + TotalPeers > MaxID
Majority == 2 * Threshold > Cardinality(Nodes)

\* Nobody has retried, no goroutine is blocked in a section, and a call has messages to
\* broadcast or to process only while it waits in a phase.
Calm ==
  /\ Alone
  /\ \A n \in Nodes : lock[n] = None /\ inst[n].paxosID = FirstID[n]
  /\ \A c \in Calls :
       /\ tag[c].pc \notin {"retry1", "retry2"}
       /\ out[c] # None \/ local[c] # None => tag[c].pc \in {"promise", "value"}

SameVoter(k) ==
  /\ inst'[k].maxID = inst[k].maxID
  /\ inst'[k].acceptedID = inst[k].acceptedID
  /\ inst'[k].acceptedValue = inst[k].acceptedValue
SameProposer(k) ==
  /\ inst'[k].phase = inst[k].phase
  /\ inst'[k].promises = inst[k].promises
  /\ inst'[k].bestID = inst[k].bestID
  /\ inst'[k].bestValue = inst[k].bestValue
  /\ inst'[k].proposedValue = inst[k].proposedValue
SameTally(k) == inst'[k].acceptedValues = inst[k].acceptedValues
SameNode(k) == step'[k] = step[k] /\ SameVoter(k) /\ SameProposer(k) /\ SameTally(k)
OthersSame(n) == \A k \in Nodes \ {n} : SameNode(k)

\* No ID changes and nobody blocks.
Steady == (\A k \in Nodes : inst'[k].paxosID = FirstID[k]) /\ UNCHANGED lock

\* g processes the message it broadcast, or takes the next one of the listener's inbox.
Taking(g, o, m) ==
  \/ m # None /\ local[g] = m /\ o = NodeOf(g)
  \/ /\ g \in Nodes /\ o # g /\ local[g] = None
     /\ inbox[g][o] # <<>> /\ m = Head(inbox[g][o]) /\ inbox'[g][o] = Tail(inbox[g][o])

\* g takes m, which comes from o, and has the messages of S to broadcast or to process.
Section(g, o, m, S) ==
  /\ m \in Message /\ Going(m, NodeOf(g), o)
  /\ Flows(g, S) /\ Places(g, S) /\ Queues(g, S, m) /\ Alone'
  /\ Gone(m, NodeOf(g), o, S)
  /\ out[g] = None /\ Taking(g, o, m)
  /\ UNCHANGED tag

Dropped(g, o, m) ==
  /\ Section(g, o, m, {}) /\ Steady
  /\ \A k \in Nodes : SameNode(k)
  /\ UNCHANGED <<promiseChan, blocks>>

PromiseFor(n, m) ==
  [type |-> "promise", step |-> step[n], id |-> m.id, dest |-> m.src,
   accID |-> inst[n].acceptedID, accVal |-> inst[n].acceptedValue]

PromiseMade(g, o, m) ==
  LET n == NodeOf(g) IN
  /\ m.type = "prepare" /\ m.step = step[n] /\ m.id > inst[n].maxID
  /\ Section(g, o, m, {PromiseFor(n, m)}) /\ Steady /\ PromiseFor(n, m) \in Message
  /\ OthersSame(n) /\ step'[n] = step[n] /\ SameProposer(n) /\ SameTally(n)
  /\ inst'[n].maxID = m.id
  /\ inst'[n].acceptedID = inst[n].acceptedID
  /\ inst'[n].acceptedValue = inst[n].acceptedValue
  /\ UNCHANGED <<promiseChan, blocks>>

AcceptOf(n, m) == [type |-> "accept", step |-> step[n], id |-> m.id, val |-> m.val]

Accepted(g, o, m) ==
  LET n == NodeOf(g) IN
  /\ m.type = "propose" /\ m.step = step[n] /\ m.id = inst[n].maxID
  /\ Section(g, o, m, {AcceptOf(n, m)}) /\ Steady /\ AcceptOf(n, m) \in Message
  /\ OthersSame(n) /\ step'[n] = step[n] /\ SameProposer(n) /\ SameTally(n)
  /\ inst'[n].maxID = inst[n].maxID
  /\ IF inst[n].acceptedValue = None
       THEN inst'[n].acceptedID = m.id /\ inst'[n].acceptedValue = m.val
       ELSE inst'[n].acceptedID = inst[n].acceptedID
              /\ inst'[n].acceptedValue = inst[n].acceptedValue
  /\ UNCHANGED <<promiseChan, blocks>>

PromiseCounted(g, o, m) ==
  LET n == NodeOf(g)
      h == Promised(inst[n], m)
  IN
  /\ m.type = "promise" /\ m.step = step[n] /\ inst[n].phase = 1
  /\ Section(g, o, m, {}) /\ Steady
  /\ OthersSame(n) /\ step'[n] = step[n] /\ SameVoter(n) /\ SameTally(n)
  /\ inst'[n] = h
  /\ inst'[n].promises = inst[n].promises + 1
  /\ inst'[n].phase = IF Reached(inst[n].promises + 1) THEN 2 ELSE 1
  /\ inst'[n].proposedValue = inst[n].proposedValue
  /\ IF m.accID > inst[n].bestID
       THEN inst'[n].bestID = m.id /\ inst'[n].bestValue = m.accVal
       ELSE inst'[n].bestID = inst[n].bestID /\ inst'[n].bestValue = inst[n].bestValue
  /\ IF inst'[n].phase = 2
       THEN /\ promiseChan[n][step[n]] = <<>>
            /\ promiseChan' = [promiseChan EXCEPT ![n][step[n]] = <<Chosen(h)>>]
       ELSE UNCHANGED promiseChan
  /\ UNCHANGED blocks

\* The send of respondToPromiseMsg finds the channel full.
SendBlocked(g, o, m) ==
  LET n == NodeOf(g) IN
  /\ m.type = "promise" /\ m.step = step[n] /\ inst[n].phase = 1
  /\ m \in Message /\ Going(m, n, o)
  /\ Reached(inst[n].promises + 1) /\ promiseChan[n][step[n]] # <<>>

AcceptCounted(g, o, m) ==
  LET n == NodeOf(g) IN
  /\ m.type = "accept" /\ m.step = step[n] /\ m.val \in Value
  /\ Section(g, o, m, {}) /\ Steady
  /\ OthersSame(n) /\ step'[n] = step[n] /\ SameVoter(n) /\ SameProposer(n)
  /\ inst'[n].acceptedValues =
       [inst[n].acceptedValues EXCEPT ![m.val] = inst[n].acceptedValues[m.val] + 1]
  /\ UNCHANGED <<promiseChan, blocks>>

\* n ends its step with the block b and the TLC messages T.
StepEnded(g, o, m, T, b) ==
  LET n == NodeOf(g) IN
  /\ m.step = step[n] /\ step[n] \in OpenSteps
  /\ T \in [OpenSteps -> Seq(Block)] /\ b \in Block
  /\ \/ /\ m.type = "accept" /\ b = NewBlock(n, m.val) /\ T = inst[n].TLCMap
        /\ m.val \in Value /\ Reached(inst[n].acceptedValues[m.val] + 1)
     \/ /\ m.type = "tlc" /\ b = m.block
        /\ T = [inst[n].TLCMap EXCEPT ![m.step] = Append(@, m.block)]
  /\ EndStep(n, T, b)
  /\ \E t \in Message : t.type = "tlc" /\ Section(g, o, m, {t})
  /\ Steady /\ OthersSame(n)
  /\ step'[n] > step[n]
  /\ inst'[n] = Cleared(n)
  /\ UNCHANGED promiseChan

CallMoved(c) ==
  /\ UNCHANGED messageVars /\ Alone' /\ Steady
  /\ out[c] = None /\ local[c] = None
  /\ \A k \in Nodes : SameNode(k)
  /\ \A d \in Calls \ {c} : tag'[d] = tag[d]
  /\ tag'[c].pc \notin {"promise", "phase2", "value", "retry1", "retry2"}
  /\ UNCHANGED <<promiseChan, blocks>>

PrepareFor(c) ==
  [type |-> "prepare", step |-> step[Host[c]], id |-> FirstID[Host[c]], src |-> Host[c]]

Prepared(c) ==
  LET n == Host[c] IN
  /\ tag[c].pc = "phase1" /\ step[n] < MaxSteps
  /\ out[c] = None /\ local[c] = None
  /\ PrepareFor(c) \in Message
  /\ Flows(c, {PrepareFor(c)}) /\ Places(c, {PrepareFor(c)}) /\ Alone'
  /\ \A x : Queues(c, {PrepareFor(c)}, x)
  /\ Steady /\ OthersSame(n) /\ step'[n] = step[n] /\ SameVoter(n) /\ SameTally(n)
  /\ inst'[n].phase = 1 /\ inst'[n].promises = 0
  /\ inst'[n].proposedValue = [step |-> step[n], id |-> FirstID[n], tag |-> c]
  /\ inst'[n].bestID = inst[n].bestID /\ inst'[n].bestValue = inst[n].bestValue
  /\ \A d \in Calls \ {c} : tag'[d] = tag[d]
  /\ tag'[c].pc = "promise" /\ tag'[c].chan = step[n]
  /\ UNCHANGED <<promiseChan, blocks>>

ValueTaken(c) ==
  LET n == Host[c]
      ch == tag[c].chan
      v == Head(promiseChan[n][ch])
  IN
  /\ tag[c].pc = "promise" /\ out[c] = None /\ local[c] = None
  /\ promiseChan[n][ch] # <<>>
  /\ UNCHANGED messageVars /\ Alone' /\ Steady
  /\ \A k \in Nodes : SameNode(k)
  /\ \A d \in Calls \ {c} : tag'[d] = tag[d]
  /\ tag'[c].pc = IF v = None THEN "done" ELSE "phase2"
  /\ tag'[c].value = v
  /\ promiseChan' = [promiseChan EXCEPT ![n][ch] = <<>>]
  /\ UNCHANGED blocks

ProposalOf(c) ==
  [type |-> "propose", step |-> step[Host[c]], id |-> FirstID[Host[c]], val |-> tag[c].value]

Proposed(c) ==
  LET n == Host[c] IN
  /\ tag[c].pc = "phase2" /\ step[n] < MaxSteps
  /\ out[c] = None /\ local[c] = None
  /\ ProposalOf(c) \in Message
  /\ Flows(c, {ProposalOf(c)}) /\ Places(c, {ProposalOf(c)}) /\ Alone'
  /\ \A x : Queues(c, {ProposalOf(c)}, x)
  /\ Steady
  /\ \A k \in Nodes : SameNode(k)
  /\ \A d \in Calls \ {c} : tag'[d] = tag[d]
  /\ tag'[c].pc = "value"
  /\ UNCHANGED <<promiseChan, blocks>>

\* g broadcasts what it has to broadcast, as the message p.
Broadcasted(g, p) ==
  LET n == NodeOf(g) IN
  /\ out[g] # None /\ out[g] \in Message /\ p \in Message /\ p \in Marshalled(n, out[g])
  /\ \A d, o \in Nodes :
       /\ \A x \in Message :
            Going(x, d, o)' => Going(x, d, o) \/ (x = p /\ o = n /\ Goes(p, d))
       /\ \A M \in SUBSET Message :
            One(M, d, o) /\ (p \in M => out[g] \in M) => One(M, d, o)'
  /\ \A d \in Nodes : Goes(p, d) => Going(out[g], d, n)
  /\ Places(g, {p}) /\ Alone' /\ \A x : Queues(g, {p}, x)
  /\ out'[g] = None /\ local[g] = None /\ (out[g].type = "tlc" => local'[g] = None)
  /\ Steady /\ \A k \in Nodes : SameNode(k)
  /\ \A c \in Calls :
       /\ tag'[c].pc = tag[c].pc /\ tag'[c].value = tag[c].value
       /\ tag'[c].chan = tag[c].chan \/ (c = g /\ tag'[c].chan = step[n])
  /\ UNCHANGED <<promiseChan, blocks>>

Handled(g) ==
  \E o \in Nodes : \E m \in Message :
    \/ Dropped(g, o, m)
    \/ PromiseMade(g, o, m)
    \/ Accepted(g, o, m)
    \/ PromiseCounted(g, o, m)
    \/ AcceptCounted(g, o, m)
    \/ \E T, b : StepEnded(g, o, m, T, b)

Stuck == \E g \in Goroutines : \E o \in Nodes : \E m \in Message : SendBlocked(g, o, m)

Kind ==
  \/ \E g \in Goroutines : Handled(g) \/ \E p : Broadcasted(g, p)
  \/ \E c \in Calls : CallMoved(c) \/ Prepared(c) \/ ValueTaken(c) \/ Proposed(c)

-----------------------------------------------------------------------------
(* Every step is of one of these kinds *)

\* A field of a record of the paxosHandler changes alone.
LEMMA NodeUpdated ==
  ASSUME TypeOK, Calm, NEW n \in Nodes, NEW h, inst' = [inst EXCEPT ![n] = h],
         UNCHANGED <<step, lock>>, h.paxosID = inst[n].paxosID
  PROVE  inst'[n] = h /\ OthersSame(n) /\ Steady
<1>1. inst \in [Nodes -> Instance] BY DEF TypeOK
<1>2. inst'[n] = h /\ \A k \in Nodes \ {n} : inst'[k] = inst[k] BY <1>1
<1> QED BY <1>2 DEF OthersSame, SameNode, SameVoter, SameProposer, SameTally, Steady, Calm

\* Where inst is unchanged every node is the same.
LEMMA NodesSame ==
  ASSUME Calm, inst' = inst, UNCHANGED <<step, lock>>
  PROVE  (\A k \in Nodes : SameNode(k)) /\ Steady
BY DEF SameNode, SameVoter, SameProposer, SameTally, Steady, Calm

\* A section takes the message from where Incoming says it is.
LEMMA TakingFrom ==
  ASSUME TypeOK, Alone, NEW g \in Goroutines, NEW o \in Nodes, NEW in, From(g, in, o),
         o # NodeOf(g) => inbox'[NodeOf(g)][o] = in.box[NodeOf(g)][o]
  PROVE  Taking(g, o, in.msg)
<1>1. CASE local[g] # None BY <1>1 DEF From, Taking
<1>2. CASE local[g] = None
  <2>1. /\ g \in Nodes /\ inbox[g][o] # <<>>
        /\ in = [msg |-> Head(inbox[g][o]), box |-> [inbox EXCEPT ![g][o] = Tail(@)]]
    BY <1>2 DEF From, Idle
  <2>2. NodeOf(g) = g BY <2>1, PopulationAssumption DEF NodeOf
  <2>3. o # g BY <2>1 DEF Alone
  <2>4. in.box[g][o] = Tail(inbox[g][o]) BY <2>1 DEF TypeOK
  <2> QED BY <1>2, <2>1, <2>2, <2>3, <2>4 DEF Taking
<1> QED BY <1>1, <1>2

\* A section that returns without an answer is a Section without messages.
LEMMA ReturnsSection ==
  ASSUME TypeOK, Calm, NEW g \in Goroutines, NEW o \in Nodes, NEW in, From(g, in, o),
         Returns(g, in.box), UNCHANGED tag
  PROVE  Section(g, o, in.msg, {})
<1>1. /\ in.msg \in Message /\ Going(in.msg, NodeOf(g), o)
      /\ Flows(g, {}) /\ Places(g, {}) /\ Queues(g, {}, in.msg) /\ Alone'
      /\ Gone(in.msg, NodeOf(g), o, {})
  BY SectionReturns DEF Calm
<1>2. out[g] = None BY PopulationAssumption DEF From, Idle, Calm, Alone
<1>3. Taking(g, o, in.msg) BY TakingFrom DEF Returns, Calm
<1> QED BY <1>1, <1>2, <1>3 DEF Section

\* A section that answers is a Section with the answer.
LEMMA AnswersSection ==
  ASSUME TypeOK, Calm, NEW g \in Goroutines, NEW o \in Nodes, NEW in, From(g, in, o),
         NEW m \in Message, Answers(g, in.box, m), UNCHANGED tag
  PROVE  Section(g, o, in.msg, {m})
<1>1. /\ in.msg \in Message /\ Going(in.msg, NodeOf(g), o)
      /\ Flows(g, {m}) /\ Places(g, {m}) /\ Queues(g, {m}, in.msg) /\ Alone'
      /\ Gone(in.msg, NodeOf(g), o, {m})
  BY SectionAnswers DEF Calm
<1>2. out[g] = None BY PopulationAssumption DEF From, Idle, Calm, Alone
<1>3. Taking(g, o, in.msg)
  <2> PICK L : L = [local EXCEPT ![g] = None] OBVIOUS
  <2>1. Taken(g, o, in, L) BY Takes DEF Calm
  <2>2. in.box \in Inboxes BY <2>1 DEF Taken
  <2>3. PutIn(in.box, out, L, g, m, inbox', out', local') BY <2>2, TrafficType, AnswersPuts
  <2>4. \A d, p \in Nodes : d # NodeOf(g) \/ p = NodeOf(g) \/ inbox'[d][p] = in.box[d][p]
    BY <2>3 DEF PutIn
  <2> QED BY <2>4, NodeOfType, TakingFrom DEF Calm
<1> QED BY <1>1, <1>2, <1>3 DEF Section

\* The handler of a prepare promises or drops it.
LEMMA PrepareKind ==
  ASSUME TypeOK, Calm, NEW g \in Goroutines, NEW in \in Incoming(g), NEW o \in Nodes,
         From(g, in, o), ExecPaxosPrepare(g, in)
  PROVE  Dropped(g, o, in.msg) \/ PromiseMade(g, o, in.msg)
<1> DEFINE n == NodeOf(g)
           m == in.msg
           h == [inst[n] EXCEPT !.running = TRUE, !.maxID = m.id]
<1>1. n \in Nodes /\ m \in PrepareMsg /\ m.type = "prepare" /\ inst[n] \in Instance
  BY NodeOfType, IncomingType, MessageCases DEF ExecPaxosPrepare, TypeOK
<1>2. UNCHANGED <<step, lock, promiseChan, blocks, tag>>
  BY DEF ExecPaxosPrepare, storeVars
<1>3. CASE Returns(g, in.box) /\ UNCHANGED inst
  <2>1. Section(g, o, m, {}) BY <1>2, <1>3, ReturnsSection
  <2>2. (\A k \in Nodes : SameNode(k)) /\ Steady BY <1>2, <1>3, NodesSame
  <2> QED BY <1>2, <2>1, <2>2 DEF Dropped
<1>4. CASE /\ m.step = step[n] /\ m.id > inst[n].maxID
           /\ inst' = [inst EXCEPT ![n] = h]
           /\ Answers(g, in.box, PromiseFor(n, m))
  <2>1. PromiseFor(n, m) \in Message
    BY <1>1, <1>4 DEF Message, PromiseMsg, PrepareMsg, Instance, PromiseFor
  <2>2. Section(g, o, m, {PromiseFor(n, m)}) BY <1>2, <1>4, <2>1, AnswersSection
  <2>3. /\ h.paxosID = inst[n].paxosID /\ h.phase = inst[n].phase
        /\ h.promises = inst[n].promises /\ h.bestID = inst[n].bestID
        /\ h.bestValue = inst[n].bestValue /\ h.proposedValue = inst[n].proposedValue
        /\ h.acceptedValues = inst[n].acceptedValues /\ h.maxID = m.id
        /\ h.acceptedID = inst[n].acceptedID /\ h.acceptedValue = inst[n].acceptedValue
    BY <1>1 DEF Instance
  <2> HIDE DEF h
  <2>4. inst'[n] = h /\ OthersSame(n) /\ Steady BY <1>1, <1>2, <1>4, <2>3, NodeUpdated
  <2>5. step'[n] = step[n] /\ SameProposer(n) /\ SameTally(n)
    BY <1>2, <2>3, <2>4 DEF SameProposer, SameTally
  <2> QED BY <1>1, <1>2, <1>4, <2>1, <2>2, <2>3, <2>4, <2>5 DEF PromiseMade
<1> QED BY <1>3, <1>4 DEF ExecPaxosPrepare, PromiseFor

\* The handler of a proposal accepts or drops it.
LEMMA ProposeKind ==
  ASSUME TypeOK, Calm, NEW g \in Goroutines, NEW in \in Incoming(g), NEW o \in Nodes,
         From(g, in, o), ExecPaxosPropose(g, in)
  PROVE  Dropped(g, o, in.msg) \/ Accepted(g, o, in.msg)
<1> DEFINE n == NodeOf(g)
           m == in.msg
           h == Accepting(inst[n], m)
<1>1. n \in Nodes /\ m \in ProposeMsg /\ m.type = "propose" /\ inst[n] \in Instance
  BY NodeOfType, IncomingType, MessageCases DEF ExecPaxosPropose, TypeOK
<1>2. UNCHANGED <<step, lock, promiseChan, blocks, tag>>
  BY DEF ExecPaxosPropose, storeVars
<1>3. CASE Returns(g, in.box) /\ UNCHANGED inst
  <2>1. Section(g, o, m, {}) BY <1>2, <1>3, ReturnsSection
  <2>2. (\A k \in Nodes : SameNode(k)) /\ Steady BY <1>2, <1>3, NodesSame
  <2> QED BY <1>2, <2>1, <2>2 DEF Dropped
<1>4. CASE /\ Acceptable(n, m)
           /\ inst' = [inst EXCEPT ![n] = h]
           /\ Answers(g, in.box, AcceptOf(n, m))
  <2>0. m.step = step[n] /\ m.id = inst[n].maxID BY <1>4 DEF Acceptable
  <2>1. AcceptOf(n, m) \in Message
    BY <1>1, <2>0 DEF Message, ProposeMsg, AcceptMsg, AcceptOf
  <2>2. Section(g, o, m, {AcceptOf(n, m)}) BY <1>2, <1>4, <2>1, AnswersSection
  <2>3. /\ h.paxosID = inst[n].paxosID /\ h.phase = inst[n].phase
        /\ h.promises = inst[n].promises /\ h.bestID = inst[n].bestID
        /\ h.bestValue = inst[n].bestValue /\ h.proposedValue = inst[n].proposedValue
        /\ h.acceptedValues = inst[n].acceptedValues /\ h.maxID = inst[n].maxID
        /\ IF inst[n].acceptedValue = None
             THEN h.acceptedID = m.id /\ h.acceptedValue = m.val
             ELSE h.acceptedID = inst[n].acceptedID /\ h.acceptedValue = inst[n].acceptedValue
    BY <1>1 DEF Instance, Accepting
  <2> HIDE DEF h
  <2>4. inst'[n] = h /\ OthersSame(n) /\ Steady BY <1>1, <1>2, <1>4, <2>3, NodeUpdated
  <2>5. step'[n] = step[n] /\ SameProposer(n) /\ SameTally(n)
    BY <1>2, <2>3, <2>4 DEF SameProposer, SameTally
  <2> QED BY <1>1, <1>2, <2>0, <2>1, <2>2, <2>3, <2>4, <2>5 DEF Accepted
<1> QED BY <1>3, <1>4 DEF ExecPaxosPropose, AcceptOf

\* The handler of a promise counts it, drops it or blocks on the channel.
LEMMA PromiseKind ==
  ASSUME TypeOK, Calm, NEW g \in Goroutines, NEW in \in Incoming(g), NEW o \in Nodes,
         From(g, in, o), ExecPaxosPromise(g, in)
  PROVE  \/ Dropped(g, o, in.msg)
         \/ PromiseCounted(g, o, in.msg)
         \/ SendBlocked(g, o, in.msg)
<1> DEFINE n == NodeOf(g)
           m == in.msg
           h == Promised(inst[n], m)
<1>1. n \in Nodes /\ m \in PromiseMsg /\ m.type = "promise" /\ inst[n] \in Instance
  BY NodeOfType, IncomingType, MessageCases DEF ExecPaxosPromise, TypeOK
<1>2. UNCHANGED <<step, blocks, tag>> BY DEF ExecPaxosPromise, storeVars
<1>3. CASE Returns(g, in.box) /\ UNCHANGED <<inst, promiseChan, lock>>
  <2>1. Section(g, o, m, {}) BY <1>2, <1>3, ReturnsSection
  <2>2. (\A k \in Nodes : SameNode(k)) /\ Steady BY <1>2, <1>3, NodesSame
  <2> QED BY <1>2, <1>3, <2>1, <2>2 DEF Dropped
<1>4. CASE /\ Countable(n, m) /\ inst' = [inst EXCEPT ![n] = h] /\ Returns(g, in.box)
           /\ UNCHANGED lock
           /\ \/ h.phase = 1 /\ UNCHANGED promiseChan
              \/ /\ h.phase = 2 /\ promiseChan[n][step[n]] = <<>>
                 /\ promiseChan' = [promiseChan EXCEPT ![n][step[n]] = <<Chosen(h)>>]
  <2>1. Section(g, o, m, {}) BY <1>2, <1>4, ReturnsSection
  <2>2. /\ h.paxosID = inst[n].paxosID /\ h.maxID = inst[n].maxID
        /\ h.acceptedID = inst[n].acceptedID /\ h.acceptedValue = inst[n].acceptedValue
        /\ h.acceptedValues = inst[n].acceptedValues
        /\ h.promises = inst[n].promises + 1
        /\ h.phase = IF Reached(inst[n].promises + 1) THEN 2 ELSE 1
        /\ h.proposedValue = inst[n].proposedValue
        /\ IF m.accID > inst[n].bestID
             THEN h.bestID = m.id /\ h.bestValue = m.accVal
             ELSE h.bestID = inst[n].bestID /\ h.bestValue = inst[n].bestValue
    BY <1>1 DEF Instance, Promised
  <2> HIDE DEF h
  <2>3. inst'[n] = h /\ OthersSame(n) /\ Steady BY <1>1, <1>2, <1>4, <2>2, NodeUpdated
  <2>4. step'[n] = step[n] /\ SameVoter(n) /\ SameTally(n)
    BY <1>2, <2>2, <2>3 DEF SameVoter, SameTally
  <2>5. m.step = step[n] /\ inst[n].phase = 1 BY <1>4 DEF Countable
  <2> QED BY <1>1, <1>2, <1>4, <2>1, <2>2, <2>3, <2>4, <2>5 DEF PromiseCounted, h
<1>5. CASE Countable(n, m) /\ h.phase = 2 /\ promiseChan[n][step[n]] # <<>>
  <2>1. \E L : L = [local EXCEPT ![g] = None] /\ Taken(g, o, in, L) BY Takes DEF Calm
  <2>2. m \in Message /\ Going(m, n, o) BY <2>1 DEF Taken
  <2>3. Reached(inst[n].promises + 1) BY <1>1, <1>5 DEF Instance, Promised
  <2> QED BY <1>1, <1>5, <2>2, <2>3 DEF SendBlocked, Countable
<1> QED BY <1>3, <1>4, <1>5 DEF ExecPaxosPromise


\* The end of a step of n, seen from the nodes.
LEMMA EndStepNodes ==
  ASSUME TypeOK, Calm, NEW n \in Nodes, NEW T \in [OpenSteps -> Seq(Block)], NEW b,
         step[n] \in OpenSteps, EndStep(n, T, b), UNCHANGED lock
  PROVE  Steady /\ OthersSame(n) /\ step'[n] > step[n] /\ inst'[n] = Cleared(n)
<1>1. step \in [Nodes -> Steps] /\ inst \in [Nodes -> Instance] BY DEF TypeOK
<1>2. /\ step' = [step EXCEPT ![n] = NextStep(T, step[n] + 1)]
      /\ inst' = [inst EXCEPT ![n] = Cleared(n)]
  BY DEF EndStep
<1>3. NextStep(T, step[n] + 1) > step[n]
  <2>1. step[n] + 1 \in Steps BY ConfigAssumption DEF Steps, OpenSteps
  <2>2. NextStep(T, step[n] + 1) \in (step[n] + 1)..MaxSteps BY <2>1, NextStepType
  <2>3. step[n] \in Int /\ MaxSteps \in Int BY ConfigAssumption DEF OpenSteps
  <2> QED BY <2>2, <2>3
<1>4. /\ step'[n] = NextStep(T, step[n] + 1) /\ inst'[n] = Cleared(n)
      /\ \A k \in Nodes \ {n} : step'[k] = step[k] /\ inst'[k] = inst[k]
  BY <1>1, <1>2
<1>5. Cleared(n).paxosID = FirstID[n] BY DEF Cleared
<1> QED BY <1>3, <1>4, <1>5
        DEF OthersSame, SameNode, SameVoter, SameProposer, SameTally, Steady, Calm

\* A message of a step that is over, or one that only counts.
LEMMA AcceptKind ==
  ASSUME TypeOK, Calm, NEW g \in Goroutines, NEW in \in Incoming(g), NEW o \in Nodes,
         From(g, in, o), ExecPaxosAccept(g, in)
  PROVE  \/ Dropped(g, o, in.msg)
         \/ AcceptCounted(g, o, in.msg)
         \/ \E T, b : StepEnded(g, o, in.msg, T, b)
<1> DEFINE n == NodeOf(g)
           m == in.msg
           count == inst[n].acceptedValues[m.val] + 1
           b == NewBlock(n, m.val)
           h == [inst[n] EXCEPT !.running = TRUE, !.acceptedValues[m.val] = count]
           tlc == [type |-> "tlc", step |-> step[n], block |-> b]
<1>1. n \in Nodes /\ m \in AcceptMsg /\ m.type = "accept" /\ inst[n] \in Instance
  BY NodeOfType, IncomingType, MessageCases DEF ExecPaxosAccept, TypeOK
<1>2. UNCHANGED <<lock, promiseChan, tag>> /\ m.val \in Value
  BY <1>1 DEF ExecPaxosAccept, AcceptMsg
<1>3. CASE Returns(g, in.box) /\ UNCHANGED <<step, inst, finalValue, valueChan, storeVars>>
  <2>1. Section(g, o, m, {}) BY <1>2, <1>3, ReturnsSection
  <2>2. (\A k \in Nodes : SameNode(k)) /\ Steady BY <1>2, <1>3, NodesSame
  <2> QED BY <1>2, <1>3, <2>1, <2>2 DEF Dropped, storeVars
<1>4. CASE /\ m.step = step[n]
           /\ inst' = [inst EXCEPT ![n] = h]
           /\ Returns(g, in.box)
           /\ UNCHANGED <<step, finalValue, valueChan, storeVars>>
  <2>1. Section(g, o, m, {}) BY <1>2, <1>4, ReturnsSection
  <2>2. /\ h.paxosID = inst[n].paxosID /\ h.phase = inst[n].phase
        /\ h.promises = inst[n].promises /\ h.bestID = inst[n].bestID
        /\ h.bestValue = inst[n].bestValue /\ h.proposedValue = inst[n].proposedValue
        /\ h.maxID = inst[n].maxID
        /\ h.acceptedID = inst[n].acceptedID /\ h.acceptedValue = inst[n].acceptedValue
        /\ h.acceptedValues = [inst[n].acceptedValues EXCEPT ![m.val] = count]
    BY <1>1 DEF Instance
  <2> HIDE DEF h
  <2>4. inst'[n] = h /\ OthersSame(n) /\ Steady BY <1>1, <1>2, <1>4, <2>2, NodeUpdated
  <2>5. step'[n] = step[n] /\ SameProposer(n) /\ SameVoter(n)
    BY <1>4, <2>2, <2>4 DEF SameProposer, SameVoter
  <2> QED BY <1>1, <1>2, <1>4, <2>1, <2>2, <2>4, <2>5 DEF AcceptCounted, storeVars
<1>5. CASE /\ m.step = step[n] /\ Reached(count)
           /\ EndStep(n, inst[n].TLCMap, b)
           /\ Answers(g, in.box, tlc)
  <2>1. step[n] \in OpenSteps /\ step[n] = m.step BY <1>1, <1>5 DEF AcceptMsg
  <2>2. b \in Block BY <1>1, <1>2, <2>1, NewBlockType
  <2>3. tlc \in Message BY <2>1, <2>2 DEF Message, TLCMsg
  <2>4. Section(g, o, m, {tlc}) BY <1>2, <1>5, <2>3, AnswersSection
  <2>5. inst[n].TLCMap \in [OpenSteps -> Seq(Block)] BY <1>1 DEF Instance
  <2>6. Steady /\ OthersSame(n) /\ step'[n] > step[n] /\ inst'[n] = Cleared(n)
    BY <1>1, <1>2, <1>5, <2>1, <2>5, EndStepNodes
  <2>7. tlc.type = "tlc" OBVIOUS
  <2> HIDE DEF tlc
  <2>8. StepEnded(g, o, m, inst[n].TLCMap, b)
    BY <1>1, <1>2, <1>5, <2>1, <2>2, <2>3, <2>4, <2>5, <2>6, <2>7 DEF StepEnded
  <2> QED BY <2>8
<1> QED BY <1>3, <1>4, <1>5 DEF ExecPaxosAccept

\* The handler of a TLC message ends the step or changes nothing that votes.
LEMMA TLCKind ==
  ASSUME TypeOK, Calm, NEW g \in Goroutines, NEW in \in Incoming(g), NEW o \in Nodes,
         From(g, in, o), ExecTLC(g, in)
  PROVE  Dropped(g, o, in.msg) \/ \E T, b : StepEnded(g, o, in.msg, T, b)
<1> DEFINE n == NodeOf(g)
           m == in.msg
           T == [inst[n].TLCMap EXCEPT ![m.step] = Append(@, m.block)]
           running == inst[n].running \/ m.step = step[n]
           h == [inst[n] EXCEPT !.TLCMap = T, !.running = running]
<1>1. n \in Nodes /\ m \in TLCMsg /\ m.type = "tlc" /\ inst[n] \in Instance /\ m \in Message
  BY NodeOfType, IncomingType, MessageCases DEF ExecTLC, TypeOK
<1>2. UNCHANGED <<lock, promiseChan, tag>> BY DEF ExecTLC
<1>3. CASE Returns(g, in.box) /\ UNCHANGED <<step, inst, finalValue, valueChan, storeVars>>
  <2>1. Section(g, o, m, {}) BY <1>2, <1>3, ReturnsSection
  <2>2. (\A k \in Nodes : SameNode(k)) /\ Steady BY <1>2, <1>3, NodesSame
  <2> QED BY <1>2, <1>3, <2>1, <2>2 DEF Dropped, storeVars
<1>4. CASE /\ inst' = [inst EXCEPT ![n] = h]
           /\ Returns(g, in.box)
           /\ UNCHANGED <<step, finalValue, valueChan, storeVars>>
  <2>1. Section(g, o, m, {}) BY <1>2, <1>4, ReturnsSection
  <2>2. /\ h.paxosID = inst[n].paxosID /\ h.phase = inst[n].phase
        /\ h.promises = inst[n].promises /\ h.bestID = inst[n].bestID
        /\ h.bestValue = inst[n].bestValue /\ h.proposedValue = inst[n].proposedValue
        /\ h.maxID = inst[n].maxID
        /\ h.acceptedID = inst[n].acceptedID /\ h.acceptedValue = inst[n].acceptedValue
        /\ h.acceptedValues = inst[n].acceptedValues
    BY <1>1 DEF Instance
  <2> HIDE DEF h
  <2>4. inst'[n] = h /\ OthersSame(n) /\ Steady BY <1>1, <1>2, <1>4, <2>2, NodeUpdated
  <2>5. SameNode(n) BY <1>4, <2>2, <2>4 DEF SameNode, SameProposer, SameVoter, SameTally
  <2>6. \A k \in Nodes : SameNode(k) BY <2>4, <2>5 DEF OthersSame
  <2> QED BY <1>2, <1>4, <2>1, <2>4, <2>6 DEF Dropped, storeVars
<1>5. CASE /\ m.step = step[n]
           /\ EndStep(n, T, m.block)
           /\ Answers(g, in.box, m)
  <2>1. step[n] \in OpenSteps /\ m.block \in Block BY <1>1, <1>5 DEF TLCMsg
  <2>2. T \in [OpenSteps -> Seq(Block)]
    <3>1. inst[n].TLCMap \in [OpenSteps -> Seq(Block)] /\ m.step \in OpenSteps
      BY <1>1 DEF Instance, TLCMsg
    <3>2. Append(inst[n].TLCMap[m.step], m.block) \in Seq(Block)
      BY <2>1, <3>1, AppendProperties
    <3> QED BY <3>1, <3>2
  <2>3. Section(g, o, m, {m}) BY <1>1, <1>2, <1>5, AnswersSection
  <2>4. \E t \in Message : t.type = "tlc" /\ Section(g, o, m, {t}) BY <1>1, <2>3
  <2> HIDE DEF T
  <2>6. Steady /\ OthersSame(n) /\ step'[n] > step[n] /\ inst'[n] = Cleared(n)
    BY <1>1, <1>2, <1>5, <2>1, <2>2, EndStepNodes
  <2>7. StepEnded(g, o, m, T, m.block)
    BY <1>1, <1>2, <1>5, <2>1, <2>2, <2>4, <2>6 DEF StepEnded, T
  <2> QED BY <2>7
<1> QED BY <1>3, <1>4, <1>5 DEF ExecTLC

\* A broadcast moves a message from out to the inboxes and the own place.
LEMMA BroadcastKind ==
  ASSUME TypeOK, Calm, NEW g \in Goroutines, Broadcast(g)
  PROVE  \E p : Broadcasted(g, p)
<1> DEFINE n == NodeOf(g)
           m == out[g]
<1>1. n \in Nodes /\ m \in Message /\ m # None /\ inst[n] \in Instance
  BY NodeOfType DEF Broadcast, TypeOK
<1>2. PICK p \in Marshalled(n, m) : Sends(g, inbox, p) BY DEF Broadcast
<1>3. p \in Message /\ p.type = m.type /\ (m.type = "promise" => p.dest = m.dest)
  <2>1. CASE p = m BY <1>1, <2>1
  <2>2. CASE m.type = "promise" /\ p = [m EXCEPT !.accVal = inst[n].acceptedValue]
    <3>1. m \in PromiseMsg BY <1>1, <2>2, MessageCases
    <3>2. p \in PromiseMsg /\ p.type = "promise" /\ p.dest = m.dest
      BY <1>1, <2>2, <3>1 DEF PromiseMsg, Instance
    <3> QED BY <2>2, <3>2 DEF Message
  <2> QED BY <1>2, <2>1, <2>2 DEF Marshalled
<1>4. /\ \A d, o \in Nodes :
           /\ \A x \in Message :
                Going(x, d, o)' => Going(x, d, o) \/ (x = p /\ o = n /\ Goes(p, d))
           /\ \A M \in SUBSET Message :
                One(M, d, o) /\ (p \in M => m \in M) => One(M, d, o)'
      /\ \A d \in Nodes : Goes(p, d) => Going(m, d, n)
      /\ Places(g, {p}) /\ Alone' /\ \A x : Queues(g, {p}, x)
      /\ out'[g] = None
  <2>1. \A d : Goes(p, d) <=> Goes(m, d) BY <1>3 DEF Goes
  <2>2. out' = [out EXCEPT ![g] = None] /\ m # None /\ Alone BY <1>1 DEF Broadcast, Calm
  <2> QED BY <1>2, <1>3, <2>1, <2>2, BroadcastFlows
<1>5. local[g] = None BY <1>1 DEF Calm, Alone
<1>6. m.type = "tlc" => local'[g] = None
  BY <1>2, <1>3 DEF Sends, TypeOK
<1>7. Steady /\ \A k \in Nodes : SameNode(k)
  BY NodesSame DEF Broadcast, handlerVars
<1>8. UNCHANGED <<promiseChan, blocks>> BY DEF Broadcast, handlerVars, storeVars
<1>9. \A c \in Calls :
        /\ tag'[c].pc = tag[c].pc /\ tag'[c].value = tag[c].value
        /\ tag'[c].chan = tag[c].chan \/ (c = g /\ tag'[c].chan = step[n])
  <2>1. CASE UNCHANGED tag BY <2>1
  <2>2. CASE g \in Calls /\ tag' = [tag EXCEPT ![g] = [@ EXCEPT !.chan = step[n]]]
    <3>1. tag \in [Calls -> TagState] BY DEF TypeOK
    <3>2. \A c \in Calls \ {g} : tag'[c] = tag[c] BY <2>2, <3>1
    <3>3. tag'[g] = [tag[g] EXCEPT !.chan = step[n]] /\ tag[g] \in TagState BY <2>2, <3>1
    <3>4. /\ tag'[g].pc = tag[g].pc /\ tag'[g].value = tag[g].value
          /\ tag'[g].chan = step[n]
      BY <3>3 DEF TagState
    <3> QED BY <3>2, <3>4
  <2> QED BY <2>1, <2>2 DEF Broadcast
<1> QED BY <1>1, <1>2, <1>3, <1>4, <1>5, <1>6, <1>7, <1>8, <1>9 DEF Broadcasted

\* A call moves on without a broadcast.
LEMMA MovedKind ==
  ASSUME TypeOK, Calm, NEW c \in Calls, NEW q,
         q \notin {"promise", "phase2", "value", "retry1", "retry2"},
         \A d \in Calls \ {c} : tag'[d] = tag[d], tag'[c].pc = q,
         out[c] = None /\ local[c] = None,
         UNCHANGED <<messageVars, promiseChan, blocks>>,
         (\A k \in Nodes : SameNode(k)) /\ Steady
  PROVE  CallMoved(c)
BY StillFlows DEF CallMoved, Calm

\* A call outside its phases has nothing to broadcast or to process.
LEMMA Wandering ==
  ASSUME TypeOK, Calm, NEW c \in Calls, tag[c].pc \notin {"promise", "value"}
  PROVE  out[c] = None /\ local[c] = None
BY DEF Calm

\* Goto changes the label of one call.
LEMMA GotoMoves ==
  ASSUME TypeOK, NEW c \in Calls, NEW q, Goto(c, q)
  PROVE  tag'[c].pc = q /\ \A d \in Calls \ {c} : tag'[d] = tag[d]
<1>1. tag \in [Calls -> TagState] BY DEF TypeOK
<1>2. tag'[c] = [tag[c] EXCEPT !.pc = q] /\ tag[c] \in TagState BY <1>1 DEF Goto
<1>3. tag'[c].pc = q BY <1>2 DEF TagState
<1> QED BY <1>1, <1>3 DEF Goto

\* The steps of a call that only change its label.
LEMMA SimpleMoves ==
  ASSUME TypeOK, Calm, NEW c \in Calls,
         TagStart(c) \/ InstanceFinished(c) \/ TagLoop(c)
  PROVE  CallMoved(c)
<1>1. UNCHANGED <<messageVars, handlerVars, storeVars>>
  BY DEF TagStart, InstanceFinished, TagLoop
<1>2. (\A k \in Nodes : SameNode(k)) /\ Steady BY <1>1, NodesSame DEF handlerVars
<1>3. out[c] = None /\ local[c] = None
  BY Wandering DEF TagStart, InstanceFinished, TagLoop
<1>4. PICK q \in {"taken", "init", "phase1", "done", "start"} : Goto(c, q)
  BY DEF TagStart, InstanceFinished, TagLoop
<1>5. tag'[c].pc = q /\ \A d \in Calls \ {c} : tag'[d] = tag[d] BY <1>4, GotoMoves
<1> QED BY <1>1, <1>2, <1>3, <1>5, MovedKind DEF handlerVars, storeVars

\* TagBegin changes only the local variables of its call.
LEMMA TagBeginMoves ==
  ASSUME TypeOK, Calm, NEW c \in Calls, TagBegin(c)
  PROVE  CallMoved(c)
<1>1. UNCHANGED <<messageVars, handlerVars, storeVars>> BY DEF TagBegin
<1>2. (\A k \in Nodes : SameNode(k)) /\ Steady BY <1>1, NodesSame DEF handlerVars
<1>3. out[c] = None /\ local[c] = None BY Wandering DEF TagBegin
<1>4. tag'[c].pc = "loop" /\ \A d \in Calls \ {c} : tag'[d] = tag[d]
  <2>1. tag \in [Calls -> TagState] BY DEF TypeOK
  <2>2. tag'[c] = [tag[c] EXCEPT !.pc = "loop", !.startingStep = step[Host[c]]]
        /\ tag[c] \in TagState
    BY <2>1 DEF TagBegin
  <2>3. tag'[c].pc = "loop" BY <2>2 DEF TagState
  <2> QED BY <2>1, <2>3 DEF TagBegin
<1> QED BY <1>1, <1>2, <1>3, <1>4, MovedKind DEF handlerVars, storeVars

\* InitPaxosInstance changes no field that votes.
LEMMA InitPaxosInstanceMoves ==
  ASSUME TypeOK, Calm, NEW c \in Calls, InitPaxosInstance(c)
  PROVE  CallMoved(c)
<1> DEFINE n == Host[c]
           h == [inst[n] EXCEPT !.running = TRUE]
<1>0. n \in Nodes /\ inst[n] \in Instance /\ tag \in [Calls -> TagState]
  BY HostType DEF TypeOK
<1>1. UNCHANGED <<messageVars, step, lock, promiseChan, blocks>>
  BY DEF InitPaxosInstance, storeVars
<1>2. out[c] = None /\ local[c] = None BY Wandering DEF InitPaxosInstance
<1>3. CASE /\ tag' = [tag EXCEPT ![c] = [@ EXCEPT !.pc = "wait", !.chan = step[n]]]
           /\ UNCHANGED inst
  <2>1. (\A k \in Nodes : SameNode(k)) /\ Steady BY <1>1, <1>3, NodesSame
  <2>2. tag'[c] = [tag[c] EXCEPT !.pc = "wait", !.chan = step[n]] /\ tag[c] \in TagState
    BY <1>0, <1>3
  <2>3. tag'[c].pc = "wait" BY <2>2 DEF TagState
  <2>4. \A d \in Calls \ {c} : tag'[d] = tag[d] BY <1>0, <1>3
  <2> QED BY <1>1, <1>2, <2>1, <2>3, <2>4, MovedKind
<1>4. CASE inst' = [inst EXCEPT ![n] = h] /\ Goto(c, "begin")
  <2>1. /\ h.paxosID = inst[n].paxosID /\ h.phase = inst[n].phase
        /\ h.promises = inst[n].promises /\ h.bestID = inst[n].bestID
        /\ h.bestValue = inst[n].bestValue /\ h.proposedValue = inst[n].proposedValue
        /\ h.maxID = inst[n].maxID
        /\ h.acceptedID = inst[n].acceptedID /\ h.acceptedValue = inst[n].acceptedValue
        /\ h.acceptedValues = inst[n].acceptedValues
    BY <1>0 DEF Instance
  <2> HIDE DEF h
  <2>2. inst'[n] = h /\ OthersSame(n) /\ Steady BY <1>0, <1>1, <1>4, <2>1, NodeUpdated
  <2>3. SameNode(n) BY <1>1, <2>1, <2>2 DEF SameNode, SameProposer, SameVoter, SameTally
  <2>4. \A k \in Nodes : SameNode(k) BY <2>2, <2>3 DEF OthersSame
  <2>5. tag'[c].pc = "begin" /\ \A d \in Calls \ {c} : tag'[d] = tag[d] BY <1>4, GotoMoves
  <2> QED BY <1>1, <1>2, <2>2, <2>4, <2>5, MovedKind
<1> QED BY <1>3, <1>4 DEF InitPaxosInstance

\* ValueReceived changes only its call and the value channel.
LEMMA ValueReceivedMoves ==
  ASSUME TypeOK, Calm, NEW c \in Calls, ValueReceived(c)
  PROVE  CallMoved(c)
<1>1. UNCHANGED <<messageVars, step, inst, lock, promiseChan, storeVars>> BY DEF ValueReceived
<1>2. (\A k \in Nodes : SameNode(k)) /\ Steady BY <1>1, NodesSame
<1>3. out[c] = None /\ local[c] = None BY DEF ValueReceived
<1>4. PICK q \in {"done", "start"} : Goto(c, q) BY DEF ValueReceived, Outcome
<1>5. tag'[c].pc = q /\ \A d \in Calls \ {c} : tag'[d] = tag[d] BY <1>4, GotoMoves
<1> QED BY <1>1, <1>2, <1>3, <1>5, MovedKind DEF storeVars

\* No proposer has an ID for a retry.
LEMMA Retrying ==
  ASSUME TypeOK, Calm, NoRetry, NEW n \in Nodes
  PROVE  ~MayRetry(n)
BY ConfigAssumption DEF MayRetry, NoRetry, Calm, IDs

\* Without a retry the ticker of phase 2 only ends or restarts the call.
LEMMA ValueTimeoutMoves ==
  ASSUME TypeOK, Calm, NoRetry, NEW c \in Calls, ValueTimeout(c)
  PROVE  CallMoved(c)
<1>1. UNCHANGED <<messageVars, handlerVars, storeVars>> BY DEF ValueTimeout
<1>2. (\A k \in Nodes : SameNode(k)) /\ Steady BY <1>1, NodesSame DEF handlerVars
<1>3. out[c] = None /\ local[c] = None BY DEF ValueTimeout
<1>4. PICK q \in {"done", "start"} : Goto(c, q)
  BY HostType, Retrying DEF ValueTimeout, Outcome
<1>5. tag'[c].pc = q /\ \A d \in Calls \ {c} : tag'[d] = tag[d] BY <1>4, GotoMoves
<1> QED BY <1>1, <1>2, <1>3, <1>5, MovedKind DEF handlerVars, storeVars

\* PaxosPhase1 is the kind Prepared.
LEMMA Phase1Kind ==
  ASSUME TypeOK, Calm, NEW c \in Calls, PaxosPhase1(c)
  PROVE  Prepared(c)
<1> DEFINE n == Host[c]
           m == PrepareFor(c)
           v == [step |-> step[n], id |-> inst[n].paxosID, tag |-> c]
           h == Preparing(inst[n], v)
<1>0. /\ n \in Nodes /\ inst[n] \in Instance /\ tag \in [Calls -> TagState]
      /\ step[n] \in OpenSteps /\ inst[n].paxosID = FirstID[n] /\ FirstID[n] \in IDs
  <2>1. n \in Nodes BY HostType
  <2>2. step[n] \in Steps /\ step[n] < MaxSteps BY <2>1 DEF PaxosPhase1, TypeOK
  <2>3. step[n] \in OpenSteps BY <2>2, ConfigAssumption DEF Steps, OpenSteps
  <2> QED BY <2>1, <2>3, ConfigAssumption DEF Calm, TypeOK, IDs
<1>1. UNCHANGED <<step, lock, promiseChan, blocks>> BY DEF PaxosPhase1, storeVars
<1>2. out[c] = None /\ local[c] = None BY Wandering DEF PaxosPhase1
<1>3. m \in Message BY <1>0 DEF Message, PrepareMsg, PrepareFor
<1>4. Answers(c, inbox, m)
  BY <1>0 DEF PaxosPhase1, PrepareFor
<1>5. Flows(c, {m}) /\ Places(c, {m}) /\ Alone' /\ \A x : Queues(c, {m}, x)
  BY <1>2, <1>3, <1>4, CallAnswers DEF Calm
<1>6. /\ h.paxosID = inst[n].paxosID /\ h.phase = 1
      /\ h.promises = 0 /\ h.bestID = inst[n].bestID
      /\ h.bestValue = inst[n].bestValue
      /\ h.proposedValue = [step |-> step[n], id |-> FirstID[n], tag |-> c]
      /\ h.maxID = inst[n].maxID
      /\ h.acceptedID = inst[n].acceptedID /\ h.acceptedValue = inst[n].acceptedValue
      /\ h.acceptedValues = inst[n].acceptedValues
  BY <1>0 DEF Instance, Preparing
<1>7. inst' = [inst EXCEPT ![n] = h] BY DEF PaxosPhase1
<1> HIDE DEF h
<1>8. inst'[n] = h /\ OthersSame(n) /\ Steady BY <1>0, <1>1, <1>6, <1>7, NodeUpdated
<1>9. SameVoter(n) /\ SameTally(n) BY <1>6, <1>8 DEF SameVoter, SameTally
<1>10. /\ tag'[c] = [tag[c] EXCEPT !.pc = "promise", !.chan = step[n]] /\ tag[c] \in TagState
       /\ \A d \in Calls \ {c} : tag'[d] = tag[d]
  BY <1>0 DEF PaxosPhase1
<1>11. tag'[c].pc = "promise" /\ tag'[c].chan = step[n] BY <1>10 DEF TagState
<1>12. tag[c].pc = "phase1" /\ step[n] < MaxSteps BY DEF PaxosPhase1
<1> HIDE DEF m
<1> QED BY <1>1, <1>2, <1>3, <1>5, <1>6, <1>8, <1>9, <1>10, <1>11, <1>12 DEF Prepared, m

\* PromiseReceived is the kind ValueTaken.
LEMMA ReceivedKind ==
  ASSUME TypeOK, Calm, NEW c \in Calls, PromiseReceived(c)
  PROVE  ValueTaken(c)
<1> DEFINE n == Host[c]
           ch == tag[c].chan
           v == Head(promiseChan[n][ch])
           q == IF v = None THEN "done" ELSE "phase2"
<1>0. tag \in [Calls -> TagState] BY DEF TypeOK
<1>1. UNCHANGED <<messageVars, step, inst, lock, blocks>> BY DEF PromiseReceived, storeVars
<1>2. (\A k \in Nodes : SameNode(k)) /\ Steady BY <1>1, NodesSame
<1>3. /\ tag[c].pc = "promise" /\ out[c] = None /\ local[c] = None
      /\ promiseChan[n][ch] # <<>>
      /\ promiseChan' = [promiseChan EXCEPT ![n][ch] = <<>>]
  BY DEF PromiseReceived
<1>4. /\ tag'[c] = [tag[c] EXCEPT !.pc = q, !.value = v] /\ tag[c] \in TagState
      /\ \A d \in Calls \ {c} : tag'[d] = tag[d]
  BY <1>0 DEF PromiseReceived
<1> HIDE DEF v
<1>5. tag'[c].pc = q /\ tag'[c].value = v BY <1>4 DEF TagState
<1>6. Alone' BY <1>1, StillFlows DEF Calm
<1> QED BY <1>1, <1>2, <1>3, <1>4, <1>5, <1>6 DEF ValueTaken, v

\* PaxosPhase2 is the kind Proposed.
LEMMA Phase2Kind ==
  ASSUME TypeOK, Calm, NEW c \in Calls, PaxosPhase2(c)
  PROVE  Proposed(c)
<1> DEFINE n == Host[c]
           m == ProposalOf(c)
<1>0. /\ n \in Nodes /\ tag \in [Calls -> TagState]
      /\ step[n] \in OpenSteps /\ inst[n].paxosID = FirstID[n] /\ FirstID[n] \in IDs
      /\ tag[c].value \in Value /\ tag[c].pc = "phase2"
  <2>1. n \in Nodes /\ tag[c].pc = "phase2" BY HostType DEF PaxosPhase2
  <2>2. step[n] \in Steps /\ step[n] < MaxSteps BY <2>1 DEF PaxosPhase2, TypeOK
  <2>3. step[n] \in OpenSteps BY <2>2, ConfigAssumption DEF Steps, OpenSteps
  <2>4. tag[c].value # None /\ tag[c] \in TagState BY <2>1 DEF TypeOK
  <2>5. tag[c].value \in Value BY <2>4 DEF TagState, ValueOrNone
  <2> QED BY <2>1, <2>3, <2>5, ConfigAssumption DEF Calm, TypeOK, IDs
<1>1. UNCHANGED <<step, inst, lock, promiseChan, blocks>>
  BY DEF PaxosPhase2, storeVars, handlerVars
<1>2. out[c] = None /\ local[c] = None BY Wandering DEF PaxosPhase2
<1>3. m \in Message BY <1>0 DEF Message, ProposeMsg, ProposalOf
<1>4. Answers(c, inbox, m) BY <1>0 DEF PaxosPhase2, ProposalOf
<1>5. Flows(c, {m}) /\ Places(c, {m}) /\ Alone' /\ \A x : Queues(c, {m}, x)
  BY <1>2, <1>3, <1>4, CallAnswers DEF Calm
<1>6. (\A k \in Nodes : SameNode(k)) /\ Steady BY <1>1, NodesSame
<1>7. /\ tag'[c] = [tag[c] EXCEPT !.pc = "value", !.chan = step[n]] /\ tag[c] \in TagState
      /\ \A d \in Calls \ {c} : tag'[d] = tag[d]
  BY <1>0 DEF PaxosPhase2
<1>8. tag'[c].pc = "value" BY <1>7 DEF TagState
<1>9. tag[c].pc = "phase2" /\ step[n] < MaxSteps BY DEF PaxosPhase2
<1> HIDE DEF m
<1> QED BY <1>1, <1>2, <1>3, <1>5, <1>6, <1>7, <1>8, <1>9 DEF Proposed, m

\* Every step of the program is of one of the kinds, or blocks on a full channel.
LEMMA StepKinds ==
  ASSUME TypeOK, Calm, NoRetry, Next
  PROVE  Stuck \/ Kind
<1>1. CASE \E g \in Goroutines : Broadcast(g) BY <1>1, BroadcastKind DEF Kind
<1>2. ASSUME NEW g \in Goroutines, NEW in \in Incoming(g),
             \/ ExecPaxosPrepare(g, in)
             \/ ExecPaxosPropose(g, in)
             \/ ExecPaxosPromise(g, in)
             \/ ExecPaxosAccept(g, in)
             \/ ExecTLC(g, in)
      PROVE  Stuck \/ Kind
  <2>1. PICK o \in Nodes : From(g, in, o) BY IncomingFrom
  <2>2. in.msg \in Message BY IncomingType
  <2>3. CASE ExecPaxosPrepare(g, in)
    BY <2>1, <2>2, <2>3, PrepareKind DEF Kind, Handled
  <2>4. CASE ExecPaxosPropose(g, in)
    BY <2>1, <2>2, <2>4, ProposeKind DEF Kind, Handled
  <2>5. CASE ExecPaxosPromise(g, in)
    BY <2>1, <2>2, <2>5, PromiseKind DEF Kind, Handled, Stuck
  <2>6. CASE ExecPaxosAccept(g, in)
    BY <2>1, <2>2, <2>6, AcceptKind DEF Kind, Handled
  <2>7. CASE ExecTLC(g, in)
    BY <2>1, <2>2, <2>7, TLCKind DEF Kind, Handled
  <2> QED BY <1>2, <2>3, <2>4, <2>5, <2>6, <2>7
<1>3. ~\E n \in Nodes : PromiseSent(n) BY DEF PromiseSent, Calm
<1>4. ASSUME NEW c \in Calls, TagStep(c) \/ Timeout(c)
      PROVE  Kind
  <2>1. ~NextID(c) BY DEF NextID, Calm
  <2>2. ~PromiseTimeout(c) BY HostType, Retrying DEF PromiseTimeout
  <2>3. CASE TagStart(c) \/ InstanceFinished(c) \/ TagLoop(c) BY <2>3, SimpleMoves DEF Kind
  <2>4. CASE InitPaxosInstance(c) BY <2>4, InitPaxosInstanceMoves DEF Kind
  <2>5. CASE TagBegin(c) BY <2>5, TagBeginMoves DEF Kind
  <2>6. CASE PaxosPhase1(c) BY <2>6, Phase1Kind DEF Kind
  <2>7. CASE PromiseReceived(c) BY <2>7, ReceivedKind DEF Kind
  <2>8. CASE PaxosPhase2(c) BY <2>8, Phase2Kind DEF Kind
  <2>9. CASE ValueReceived(c) BY <2>9, ValueReceivedMoves DEF Kind
  <2>10. CASE ValueTimeout(c) BY <2>10, ValueTimeoutMoves DEF Kind
  <2> QED BY <1>4, <2>1, <2>2, <2>3, <2>4, <2>5, <2>6, <2>7, <2>8, <2>9, <2>10
          DEF TagStep, Timeout
<1> QED BY <1>1, <1>2, <1>3, <1>4 DEF Next, Handle

\* In each of these steps everybody stays calm, and no voter falls back.
Rises(k) == step'[k] > step[k] \/ (step'[k] = step[k] /\ inst'[k].maxID >= inst[k].maxID)

\* The part of Calm on the goroutines.
Waiting(c) ==
  /\ tag[c].pc \notin {"retry1", "retry2"}
  /\ out[c] # None \/ local[c] # None => tag[c].pc \in {"promise", "value"}

\* Calm, by goroutine.
LEMMA CalmParts == Calm <=> /\ Alone
                            /\ \A n \in Nodes : lock[n] = None /\ inst[n].paxosID = FirstID[n]
                            /\ \A c \in Calls : Waiting(c)
BY DEF Calm, Waiting

\* A section leaves the calls waiting.
LEMMA SectionWaits ==
  ASSUME Calm, NEW g \in Goroutines, NEW o, NEW m, NEW S, Section(g, o, m, S), NEW c \in Calls
  PROVE  Waiting(c)'
<1>0. c \in Goroutines /\ c \notin Nodes /\ Waiting(c)
  BY CalmParts, PopulationAssumption DEF Goroutines
<1>1. CASE c = g BY <1>0, <1>1 DEF Section, Taking, Waiting
<1>2. CASE c # g BY <1>0, <1>2 DEF Section, Places, Waiting
<1> QED BY <1>1, <1>2

\* Handling a message keeps everybody calm.
LEMMA HandledWaits ==
  ASSUME Calm, NEW g \in Goroutines, Handled(g)
  PROVE  Alone' /\ Steady /\ \A c \in Calls : Waiting(c)'
<1>0. PICK o \in Nodes, m \in Message :
        \/ Dropped(g, o, m) \/ PromiseMade(g, o, m) \/ Accepted(g, o, m)
        \/ PromiseCounted(g, o, m) \/ AcceptCounted(g, o, m)
        \/ \E T, b : StepEnded(g, o, m, T, b)
  BY DEF Handled
<1>1. \E S : Section(g, o, m, S) /\ Steady
  <2>1. CASE Dropped(g, o, m) BY <2>1 DEF Dropped
  <2>2. CASE PromiseMade(g, o, m) BY <2>2 DEF PromiseMade
  <2>3. CASE Accepted(g, o, m) BY <2>3 DEF Accepted
  <2>4. CASE PromiseCounted(g, o, m) BY <2>4 DEF PromiseCounted
  <2>5. CASE AcceptCounted(g, o, m) BY <2>5 DEF AcceptCounted
  <2>6. CASE \E T, b : StepEnded(g, o, m, T, b) BY <2>6 DEF StepEnded
  <2> QED BY <1>0, <2>1, <2>2, <2>3, <2>4, <2>5, <2>6
<1> QED BY <1>1, SectionWaits DEF Section

\* A broadcast keeps everybody calm.
LEMMA BroadcastedWaits ==
  ASSUME Calm, NEW g \in Goroutines, NEW p, Broadcasted(g, p)
  PROVE  Alone' /\ Steady /\ \A c \in Calls : Waiting(c)'
<1>1. Alone' /\ Steady BY DEF Broadcasted
<1>2. ASSUME NEW c \in Calls PROVE Waiting(c)'
  <2>1. c \in Goroutines /\ Waiting(c) /\ tag'[c].pc = tag[c].pc
    BY CalmParts DEF Goroutines, Broadcasted
  <2>2. CASE c = g BY <2>1, <2>2 DEF Waiting, Broadcasted
  <2>3. CASE c # g BY <2>1, <2>3 DEF Waiting, Broadcasted, Places
  <2> QED BY <2>2, <2>3
<1> QED BY <1>1, <1>2

\* A step of a call keeps everybody calm.
LEMMA CallWaits ==
  ASSUME TypeOK, Calm, NEW c \in Calls,
         CallMoved(c) \/ Prepared(c) \/ ValueTaken(c) \/ Proposed(c)
  PROVE  Alone' /\ Steady /\ \A d \in Calls : Waiting(d)'
<1>1. /\ Alone' /\ Steady
      /\ \A d \in Calls \ {c} : tag'[d] = tag[d]
      /\ tag'[c].pc \notin {"retry1", "retry2"}
      /\ \/ tag'[c].pc \in {"promise", "value"}
         \/ out'[c] = None /\ local'[c] = None
      /\ \A h \in Goroutines \ {c} : out'[h] = out[h] /\ local'[h] = local[h]
  BY DEF CallMoved, Prepared, ValueTaken, Proposed, Places, messageVars
<1>2. ASSUME NEW d \in Calls PROVE Waiting(d)'
  <2>1. d \in Goroutines /\ Waiting(d) BY CalmParts DEF Goroutines
  <2> QED BY <1>1, <2>1 DEF Waiting
<1> QED BY <1>1, <1>2

\* Every kind of step keeps everybody calm.
LEMMA CalmNext ==
  ASSUME TypeOK, Calm, Kind
  PROVE  Calm'
<1>1. Alone' /\ Steady /\ \A c \in Calls : Waiting(c)'
  BY HandledWaits, BroadcastedWaits, CallWaits DEF Kind
<1> QED BY <1>1 DEF Calm, Steady, Waiting

\* A stuttering step keeps everybody calm.
LEMMA CalmStill ==
  ASSUME Calm, UNCHANGED vars
  PROVE  Calm'
BY DEF Calm, Alone, vars, messageVars, handlerVars

\* Everybody starts calm.
LEMMA CalmInit ==
  ASSUME Init
  PROVE  Calm
<1>1. /\ inbox = [d \in Nodes |-> [o \in Nodes |-> <<>>]]
      /\ out = [g \in Goroutines |-> None] /\ local = [g \in Goroutines |-> None]
      /\ lock = [n \in Nodes |-> None] /\ inst = [n \in Nodes |-> Cleared(n)]
      /\ tag = [c \in Calls |->
                  [pc |-> "start", startingStep |-> 0, value |-> None, chan |-> 0]]
  BY DEF Init
<1>2. \A n \in Nodes : Cleared(n).paxosID = FirstID[n] BY DEF Cleared
<1> QED BY <1>1, <1>2 DEF Calm, Alone, Goroutines

-----------------------------------------------------------------------------
(* The promises of a step *)

\* The promises of step s to the proposer n
PromisesTo(n, s) == {m \in Message : m.type = "promise" /\ m.step = s /\ m.id = FirstID[n]}

\* o has promised id in step s, or it has left the step.
Has(o, s, id) == step[o] > s \/ (step[o] = s /\ inst[o].maxID >= id)

\* Q[n]: the voters whose promises n has counted in step s; F: the proposers that have
\* counted enough of them for a value.
PromiseTraffic(s, Q) ==
  \A n, o \in Nodes :
    /\ One(PromisesTo(n, s), n, o)
    /\ \A m \in Message : Going(m, n, o) =>
         /\ m.type = "prepare" => m.src = o /\ m.id = FirstID[o]
         /\ m.type = "promise" /\ m.step = s =>
              m.dest = n /\ m.id = FirstID[n] /\ Has(o, s, FirstID[n]) /\ o \notin Q[n]

PromiseCount(n, s, F, Q) ==
  /\ \A o \in Q[n] : Has(o, s, FirstID[n])
  /\ step[n] < s => Q[n] = {}
  /\ n \in F => s <= step[n] /\ Threshold <= Cardinality(Q[n])
  /\ step[n] = s => /\ inst[n].promises
                         + (IF n \in F /\ inst[n].phase = 1 THEN Threshold ELSE 0)
                       <= Cardinality(Q[n])
                    /\ inst[n].phase = 2 => n \in F
  /\ promiseChan[n][s] # <<>> => n \in F

Promising(s, F, Q) ==
  /\ F \in SUBSET Nodes /\ Q \in [Nodes -> SUBSET Nodes]
  /\ PromiseTraffic(s, Q) /\ \A n \in Nodes : PromiseCount(n, s, F, Q)

\* The types of the fields of a node that the proofs compare.
LEMMA NodeTypes ==
  ASSUME TypeOK, NEW n \in Nodes
  PROVE  /\ step[n] \in Nat /\ step[n] \in Steps /\ inst[n] \in Instance
         /\ inst[n].maxID \in Nat /\ inst[n].promises \in Nat /\ inst[n].phase \in {1, 2}
         /\ FirstID[n] \in Nat /\ FirstID[n] \in IDs /\ FirstID[n] > 0
         /\ inst[n].bestID \in Nat /\ inst[n].acceptedID \in Nat
<1>1. step[n] \in Steps /\ inst[n] \in Instance BY DEF TypeOK
<1>2. FirstID[n] \in IDs /\ \A i \in IDs : i \in Nat /\ i > 0 BY ConfigAssumption DEF IDs
<1>3. \A i \in IDOrZero : i \in Nat BY ConfigAssumption DEF IDOrZero
<1>4. \A i \in Steps : i \in Nat BY ConfigAssumption DEF Steps
<1>5. /\ inst[n].maxID \in IDOrZero /\ inst[n].promises \in Nat /\ inst[n].phase \in {1, 2}
      /\ inst[n].bestID \in IDOrZero /\ inst[n].acceptedID \in IDOrZero
  BY <1>1 DEF Instance
<1> QED BY <1>1, <1>2, <1>3, <1>4, <1>5

\* A node that stays the same does not fall back.
LEMMA SameRises ==
  ASSUME TypeOK, NEW k \in Nodes, SameNode(k)
  PROVE  Rises(k)
BY NodeTypes DEF SameNode, SameVoter, Rises

\* Nobody falls back where one node rises and the others stay.
LEMMA OthersRise ==
  ASSUME TypeOK, NEW n \in Nodes, OthersSame(n), Rises(n)
  PROVE  \A k \in Nodes : Rises(k)
BY SameRises DEF OthersSame

\* A node that promises nothing and stays in its step does not fall back.
LEMMA VoterRises ==
  ASSUME TypeOK, NEW n \in Nodes, step'[n] = step[n], inst'[n].maxID = inst[n].maxID
  PROVE  Rises(n)
BY NodeTypes DEF Rises

\* Who has promised, or left the step, still has.
LEMMA HasStays ==
  ASSUME TypeOK, TypeOK', NEW o \in Nodes, Rises(o), NEW s \in Steps, NEW id \in Nat,
         Has(o, s, id)
  PROVE  Has(o, s, id)'
<1>1. step[o] \in Nat /\ inst[o].maxID \in Nat BY NodeTypes
<1>2. step'[o] \in Nat /\ inst'[o].maxID \in Nat
  BY ConfigAssumption DEF TypeOK, Steps, Instance, IDOrZero
<1>3. s \in Nat BY ConfigAssumption DEF Steps
<1> QED BY <1>1, <1>2, <1>3 DEF Has, Rises

\* Nothing is promised.
LEMMA TrafficKeeps ==
  ASSUME TypeOK, TypeOK', NEW s \in Steps, NEW Q, PromiseTraffic(s, Q),
         \A k \in Nodes : Rises(k), NEW g \in Goroutines, NEW S, Flows(g, S),
         \A x \in S : x.type # "promise",
         \A x \in S : x.type = "prepare" => x.src = NodeOf(g) /\ x.id = FirstID[NodeOf(g)]
  PROVE  PromiseTraffic(s, Q)'
<1> SUFFICES ASSUME NEW n \in Nodes, NEW o \in Nodes
             PROVE  /\ One(PromisesTo(n, s), n, o)'
                    /\ \A m \in Message : Going(m, n, o)' =>
                         /\ m.type = "prepare" => m.src = o /\ m.id = FirstID[o]
                         /\ m.type = "promise" /\ m.step = s =>
                              /\ m.dest = n /\ m.id = FirstID[n]
                              /\ Has(o, s, FirstID[n])' /\ o \notin Q[n]
  BY DEF PromiseTraffic, PromisesTo
<1>1. PromisesTo(n, s) \in SUBSET Message /\ One(PromisesTo(n, s), n, o)
      /\ S \cap PromisesTo(n, s) = {}
  BY DEF PromisesTo, PromiseTraffic
<1>2. One(PromisesTo(n, s), n, o)' BY <1>1 DEF Flows
<1>3. FirstID[n] \in Nat BY NodeTypes
<1>4. ASSUME NEW m \in Message, Going(m, n, o)'
      PROVE  /\ m.type = "prepare" => m.src = o /\ m.id = FirstID[o]
             /\ m.type = "promise" /\ m.step = s =>
                  /\ m.dest = n /\ m.id = FirstID[n]
                  /\ Has(o, s, FirstID[n])' /\ o \notin Q[n]
  <2>1. CASE Going(m, n, o)
    BY <1>3, <2>1, HasStays DEF PromiseTraffic
  <2>2. CASE m \in S /\ o = NodeOf(g)
    BY <2>2
  <2> QED BY <1>4, <2>1, <2>2 DEF Flows
<1> QED BY <1>2, <1>4

\* n counts no promise of the step.
LEMMA CountKeeps ==
  ASSUME TypeOK, TypeOK', NEW n \in Nodes, NEW s \in Steps, NEW F \in SUBSET Nodes,
         NEW Q \in [Nodes -> SUBSET Nodes],
         PromiseCount(n, s, F, Q), \A k \in Nodes : Rises(k),
         step'[n] = s => \/ step[n] = s /\ inst'[n].promises = inst[n].promises
                              /\ inst'[n].phase = inst[n].phase
                         \/ inst'[n].promises = 0 /\ inst'[n].phase = 1,
         promiseChan'[n][s] = promiseChan[n][s] \/ promiseChan'[n][s] = <<>>
  PROVE  PromiseCount(n, s, F, Q)'
<1>1. \A k \in Nodes : step[k] \in Nat /\ step'[k] \in Nat /\ FirstID[k] \in Nat
  BY NodeTypes, ConfigAssumption DEF TypeOK, Steps
<1>2. s \in Nat /\ Threshold \in Nat BY ConfigAssumption DEF Steps
<1>3. Rises(n) OBVIOUS
<1>4. \A o \in Q[n] : Has(o, s, FirstID[n])' BY <1>1, HasStays DEF PromiseCount
<1>5. step'[n] < s => Q[n] = {} BY <1>1, <1>2, <1>3 DEF PromiseCount, Rises
<1>6. n \in F => s <= step'[n] /\ Threshold <= Cardinality(Q[n])
  BY <1>1, <1>2, <1>3 DEF PromiseCount, Rises
<1>7. Cardinality(Q[n]) \in Nat
  BY PopulationAssumption, FS_Subset, FS_CardinalityType
<1>8. ASSUME step'[n] = s
      PROVE  /\ inst'[n].promises
                  + (IF n \in F /\ inst'[n].phase = 1 THEN Threshold ELSE 0)
                <= Cardinality(Q[n])
             /\ inst'[n].phase = 2 => n \in F
  <2>1. CASE step[n] = s /\ inst'[n].promises = inst[n].promises
             /\ inst'[n].phase = inst[n].phase
    BY <2>1 DEF PromiseCount
  <2>2. CASE inst'[n].promises = 0 /\ inst'[n].phase = 1
    BY <1>2, <1>6, <1>7, <2>2
  <2> QED BY <1>8, <2>1, <2>2
<1>9. promiseChan'[n][s] # <<>> => n \in F BY DEF PromiseCount
<1> QED BY <1>4, <1>5, <1>6, <1>8, <1>9 DEF PromiseCount

\* A node that stays the same has counted what it had.
LEMMA SameCounts ==
  ASSUME TypeOK, TypeOK', NEW n \in Nodes, SameNode(n), NEW s \in Steps,
         NEW F \in SUBSET Nodes, NEW Q \in [Nodes -> SUBSET Nodes],
         PromiseCount(n, s, F, Q), \A k \in Nodes : Rises(k),
         promiseChan'[n][s] = promiseChan[n][s] \/ promiseChan'[n][s] = <<>>
  PROVE  PromiseCount(n, s, F, Q)'
BY CountKeeps DEF SameNode, SameProposer

\* Every kind of step but one leaves the count of promises alone.
LEMMA DroppedPromising ==
  ASSUME TypeOK, TypeOK', NEW g \in Goroutines, NEW o, NEW m, Dropped(g, o, m),
         NEW s \in Steps, NEW F, NEW Q, Promising(s, F, Q)
  PROVE  Promising(s, F, Q)'
<1>1. \A k \in Nodes : Rises(k) BY SameRises DEF Dropped
<1>2. PromiseTraffic(s, Q)' BY <1>1, TrafficKeeps DEF Dropped, Section, Promising
<1>3. \A n \in Nodes : PromiseCount(n, s, F, Q)' BY <1>1, SameCounts DEF Dropped, Promising
<1> QED BY <1>2, <1>3 DEF Promising

\* A new promise is the only one of its voter to its proposer.
LEMMA PromiseMadePromising ==
  ASSUME TypeOK, TypeOK', NEW g \in Goroutines, NEW o \in Nodes, NEW m, PromiseMade(g, o, m),
         NEW s \in Steps, NEW F, NEW Q, Promising(s, F, Q)
  PROVE  Promising(s, F, Q)'
<1> PICK n : n = NodeOf(g) OBVIOUS
<1> PICK p : p = PromiseFor(n, m) OBVIOUS
<1>0. n \in Nodes /\ inst[n].maxID \in Nat /\ step[n] \in Nat BY NodeOfType, NodeTypes
<1>1. /\ m.type = "prepare" /\ m \in Message /\ Going(m, n, o) /\ m.id > inst[n].maxID
      /\ Flows(g, {p}) /\ p \in Message
      /\ p.type = "promise" /\ p.step = step[n] /\ p.id = m.id /\ p.dest = m.src
      /\ OthersSame(n) /\ step'[n] = step[n] /\ SameProposer(n) /\ inst'[n].maxID = m.id
      /\ promiseChan' = promiseChan
  BY DEF PromiseMade, Section, PromiseFor
<1>2. m.src = o /\ m.id = FirstID[o] /\ m.id \in Nat
  BY <1>0, <1>1, NodeTypes DEF Promising, PromiseTraffic
<1>3. \A k \in Nodes : Rises(k) BY <1>0, <1>1, <1>2, OthersRise DEF Rises
<1>4. ASSUME NEW k \in Nodes PROVE PromiseCount(k, s, F, Q)'
  <2>1. CASE k = n BY <1>0, <1>1, <1>3, <2>1, CountKeeps DEF SameProposer, Promising
  <2>2. CASE k # n BY <1>1, <1>3, <2>2, SameCounts DEF OthersSame, Promising
  <2> QED BY <2>1, <2>2
<1>5. ASSUME s = step[n] PROVE ~Has(n, s, FirstID[o])
  BY <1>0, <1>1, <1>2, <1>5 DEF Has
<1>6. ASSUME NEW k \in Nodes, NEW a \in Nodes
      PROVE  /\ One(PromisesTo(k, s), k, a)'
             /\ \A x \in Message : Going(x, k, a)' =>
                  /\ x.type = "prepare" => x.src = a /\ x.id = FirstID[a]
                  /\ x.type = "promise" /\ x.step = s =>
                       /\ x.dest = k /\ x.id = FirstID[k]
                       /\ Has(a, s, FirstID[k])' /\ a \notin Q[k]
  <2> DEFINE M == PromisesTo(k, s)
  <2>1. M \in SUBSET Message /\ One(M, k, a) BY DEF PromisesTo, Promising, PromiseTraffic
  <2>2. ASSUME p \in M, a = n, Goes(p, k), NEW y \in M, Going(y, k, a)
        PROVE  FALSE
    <3>0. y \in Message /\ y.type = "promise" /\ y.step = s BY <2>2 DEF PromisesTo
    <3>1. k = o /\ s = step[n] BY <1>1, <1>2, <2>2 DEF Goes, PromisesTo
    <3>2. Has(a, s, FirstID[k]) BY <2>2, <3>0 DEF Promising, PromiseTraffic
    <3> QED BY <1>5, <2>2, <3>1, <3>2
  <2>3. \A x \in {p} \cap M : a = NodeOf(g) /\ Goes(x, k) => \A y \in M : ~Going(y, k, a)
    BY <2>2
  <2>4. One(M, k, a)'
    <3> HIDE DEF M
    <3> QED BY <1>1, <2>1, <2>3 DEF Flows
  <2>5. ASSUME NEW x \in Message, Going(x, k, a)'
        PROVE  /\ x.type = "prepare" => x.src = a /\ x.id = FirstID[a]
               /\ x.type = "promise" /\ x.step = s =>
                    /\ x.dest = k /\ x.id = FirstID[k]
                    /\ Has(a, s, FirstID[k])' /\ a \notin Q[k]
    <3>1. CASE Going(x, k, a)
      <4>1. Has(a, s, FirstID[k]) => Has(a, s, FirstID[k])' BY <1>3, NodeTypes, HasStays
      <4> QED BY <3>1, <4>1 DEF Promising, PromiseTraffic
    <3>2. CASE x = p /\ a = n /\ Goes(p, k)
      <4>1. k = o BY <1>1, <1>2, <3>2 DEF Goes
      <4>2. ASSUME s = step[n] PROVE Has(n, s, FirstID[o])' /\ n \notin Q[o]
        <5>1. Has(n, s, FirstID[o])' BY <1>1, <1>2, <4>2 DEF Has
        <5>2. n \notin Q[o] BY <1>5, <4>2 DEF Promising, PromiseCount
        <5> QED BY <5>1, <5>2
      <4> QED BY <1>1, <1>2, <3>2, <4>1, <4>2
    <3> QED BY <1>1, <2>5, <3>1, <3>2 DEF Flows
  <2> QED BY <2>4, <2>5
<1>7. PromiseTraffic(s, Q)' BY <1>6 DEF PromiseTraffic, PromisesTo
<1> QED BY <1>4, <1>7 DEF Promising

\* An accept, sent or counted, moves no promise.
LEMMA AcceptedPromising ==
  ASSUME TypeOK, TypeOK', NEW g \in Goroutines, NEW o, NEW m,
         Accepted(g, o, m) \/ AcceptCounted(g, o, m),
         NEW s \in Steps, NEW F, NEW Q, Promising(s, F, Q)
  PROVE  Promising(s, F, Q)'
<1> PICK n : n = NodeOf(g) OBVIOUS
<1>0. n \in Nodes BY NodeOfType
<1>1. /\ OthersSame(n) /\ step'[n] = step[n] /\ SameProposer(n)
      /\ inst'[n].maxID = inst[n].maxID /\ promiseChan' = promiseChan
      /\ \E S : Flows(g, S) /\ \A x \in S : x.type = "accept"
  <2>1. CASE Accepted(g, o, m)
    <3>1. Flows(g, {AcceptOf(n, m)}) BY <2>1 DEF Accepted, Section
    <3>2. AcceptOf(n, m).type = "accept" BY DEF AcceptOf
    <3> QED BY <2>1, <3>1, <3>2 DEF Accepted
  <2>2. CASE AcceptCounted(g, o, m)
    <3>1. Flows(g, {}) BY <2>2 DEF AcceptCounted, Section
    <3> QED BY <2>2, <3>1 DEF AcceptCounted, SameVoter
  <2> QED BY <2>1, <2>2
<1>3. \A k \in Nodes : Rises(k) BY <1>0, <1>1, OthersRise, VoterRises
<1>4. ASSUME NEW k \in Nodes PROVE PromiseCount(k, s, F, Q)'
  <2>1. CASE k = n BY <1>0, <1>1, <1>3, <2>1, CountKeeps DEF SameProposer, Promising
  <2>2. CASE k # n BY <1>1, <1>3, <2>2, SameCounts DEF OthersSame, Promising
  <2> QED BY <2>1, <2>2
<1>5. PromiseTraffic(s, Q)' BY <1>1, <1>3, TrafficKeeps DEF Promising
<1> QED BY <1>4, <1>5 DEF Promising

\* The end of a step resets the count of its node for the next.
LEMMA StepEndedPromising ==
  ASSUME TypeOK, TypeOK', NEW g \in Goroutines, NEW o, NEW m, NEW T, NEW b,
         StepEnded(g, o, m, T, b),
         NEW s \in Steps, NEW F, NEW Q, Promising(s, F, Q)
  PROVE  Promising(s, F, Q)'
<1> PICK n : n = NodeOf(g) OBVIOUS
<1>0. n \in Nodes BY NodeOfType
<1>1. /\ OthersSame(n) /\ step'[n] > step[n] /\ inst'[n] = Cleared(n)
      /\ promiseChan' = promiseChan
      /\ \E S : Flows(g, S) /\ \A x \in S : x.type = "tlc"
  BY DEF StepEnded, Section
<1>2. inst'[n].promises = 0 /\ inst'[n].phase = 1 BY <1>1 DEF Cleared
<1>3. \A k \in Nodes : Rises(k) BY <1>0, <1>1, OthersRise DEF Rises
<1>4. ASSUME NEW k \in Nodes PROVE PromiseCount(k, s, F, Q)'
  <2>1. CASE k = n BY <1>0, <1>1, <1>2, <1>3, <2>1, CountKeeps DEF Promising
  <2>2. CASE k # n BY <1>1, <1>3, <2>2, SameCounts DEF OthersSame, Promising
  <2> QED BY <2>1, <2>2
<1>5. PromiseTraffic(s, Q)' BY <1>1, <1>3, TrafficKeeps DEF Promising
<1> QED BY <1>4, <1>5 DEF Promising

\* A broadcast moves a promise and adds none.
LEMMA BroadcastedPromising ==
  ASSUME TypeOK, TypeOK', NEW g \in Goroutines, NEW p, Broadcasted(g, p),
         NEW s \in Steps, NEW F, NEW Q, Promising(s, F, Q)
  PROVE  Promising(s, F, Q)'
<1> PICK n : n = NodeOf(g) OBVIOUS
<1> PICK m : m = out[g] OBVIOUS
<1>0. n \in Nodes BY NodeOfType
<1>1. /\ m \in Message /\ p \in Message /\ p \in Marshalled(n, m)
      /\ \A d, o \in Nodes :
           /\ \A x \in Message :
                Going(x, d, o)' => Going(x, d, o) \/ (x = p /\ o = n /\ Goes(p, d))
           /\ \A M \in SUBSET Message :
                One(M, d, o) /\ (p \in M => m \in M) => One(M, d, o)'
      /\ \A d \in Nodes : Goes(p, d) => Going(m, d, n)
      /\ promiseChan' = promiseChan /\ \A k \in Nodes : SameNode(k)
  BY DEF Broadcasted
<1>2. /\ p.type = m.type
      /\ p.type = "prepare" => p = m
      /\ p.type = "promise" => p.step = m.step /\ p.id = m.id /\ p.dest = m.dest
  <2>1. CASE p = m BY <2>1
  <2>2. CASE m.type = "promise" /\ p = [m EXCEPT !.accVal = inst[n].acceptedValue]
    <3>1. m \in PromiseMsg BY <1>1, <2>2, MessageCases
    <3> QED BY <2>2, <3>1 DEF PromiseMsg
  <2> QED BY <1>1, <2>1, <2>2 DEF Marshalled
<1>3. \A k \in Nodes : Rises(k) BY <1>1, SameRises
<1>4. \A k \in Nodes : PromiseCount(k, s, F, Q)' BY <1>1, <1>3, SameCounts DEF Promising
<1>5. ASSUME NEW k \in Nodes, NEW a \in Nodes
      PROVE  /\ One(PromisesTo(k, s), k, a)'
             /\ \A x \in Message : Going(x, k, a)' =>
                  /\ x.type = "prepare" => x.src = a /\ x.id = FirstID[a]
                  /\ x.type = "promise" /\ x.step = s =>
                       /\ x.dest = k /\ x.id = FirstID[k]
                       /\ Has(a, s, FirstID[k])' /\ a \notin Q[k]
  <2>1. /\ PromisesTo(k, s) \in SUBSET Message /\ One(PromisesTo(k, s), k, a)
        /\ p \in PromisesTo(k, s) => m \in PromisesTo(k, s)
    BY <1>1, <1>2 DEF PromisesTo, Promising, PromiseTraffic
  <2>2. One(PromisesTo(k, s), k, a)' BY <1>1, <2>1
  <2>3. Has(a, s, FirstID[k]) => Has(a, s, FirstID[k])' BY <1>3, NodeTypes, HasStays
  <2>4. ASSUME NEW x \in Message, Going(x, k, a)'
        PROVE  /\ x.type = "prepare" => x.src = a /\ x.id = FirstID[a]
               /\ x.type = "promise" /\ x.step = s =>
                    /\ x.dest = k /\ x.id = FirstID[k]
                    /\ Has(a, s, FirstID[k])' /\ a \notin Q[k]
    <3>1. CASE Going(x, k, a) BY <2>3, <3>1 DEF Promising, PromiseTraffic
    <3>2. CASE x = p /\ a = n /\ Goes(p, k)
      <4>1. Going(m, k, a) BY <1>1, <3>2
      <4> QED BY <1>1, <1>2, <2>3, <3>2, <4>1 DEF Promising, PromiseTraffic
    <3> QED BY <1>1, <2>4, <3>1, <3>2
  <2> QED BY <2>2, <2>4
<1>6. PromiseTraffic(s, Q)' BY <1>5 DEF PromiseTraffic, PromisesTo
<1> QED BY <1>4, <1>6 DEF Promising

\* A call starts a new count or takes the value of a finished one.
LEMMA CallPromising ==
  ASSUME TypeOK, TypeOK', Alone, NEW c \in Calls,
         CallMoved(c) \/ Prepared(c) \/ ValueTaken(c) \/ Proposed(c),
         NEW s \in Steps, NEW F, NEW Q, Promising(s, F, Q)
  PROVE  Promising(s, F, Q)'
<1> PICK n : n = Host[c] OBVIOUS
<1>0. n \in Nodes /\ c \in Goroutines /\ n = NodeOf(c) BY HostType DEF Goroutines, NodeOf
<1>1. /\ OthersSame(n) /\ step'[n] = step[n] /\ inst'[n].maxID = inst[n].maxID
      /\ \/ SameProposer(n)
         \/ inst'[n].phase = 1 /\ inst'[n].promises = 0
      /\ \A k \in Nodes : promiseChan'[k][s] \in {promiseChan[k][s], <<>>}
      /\ \E S : /\ Flows(c, S) /\ \A x \in S : x.type # "promise"
                /\ \A x \in S : x.type = "prepare" => x.src = n /\ x.id = FirstID[n]
  <2>1. CASE CallMoved(c)
    <3>1. Flows(c, {}) BY <2>1, StillFlows DEF CallMoved
    <3>2. SameNode(n) /\ OthersSame(n) BY <1>0, <2>1 DEF CallMoved, OthersSame
    <3> QED BY <2>1, <3>1, <3>2 DEF CallMoved, SameNode, SameVoter
  <2>2. CASE Prepared(c)
    <3>1. Flows(c, {PrepareFor(c)}) BY <2>2 DEF Prepared
    <3>2. /\ PrepareFor(c).type = "prepare" /\ PrepareFor(c).src = n
          /\ PrepareFor(c).id = FirstID[n]
      BY DEF PrepareFor
    <3> QED BY <2>2, <3>1, <3>2 DEF Prepared, SameVoter
  <2>3. CASE ValueTaken(c)
    <3>1. Flows(c, {}) BY <2>3, StillFlows DEF ValueTaken
    <3>2. SameNode(n) /\ OthersSame(n) BY <1>0, <2>3 DEF ValueTaken, OthersSame
    <3>3. \A k \in Nodes : promiseChan'[k][s] \in {promiseChan[k][s], <<>>}
      BY <2>3 DEF ValueTaken, TypeOK
    <3> QED BY <3>1, <3>2, <3>3 DEF SameNode, SameVoter
  <2>4. CASE Proposed(c)
    <3>1. Flows(c, {ProposalOf(c)}) BY <2>4 DEF Proposed
    <3>2. SameNode(n) /\ OthersSame(n) BY <1>0, <2>4 DEF Proposed, OthersSame
    <3>3. ProposalOf(c).type = "propose" BY DEF ProposalOf
    <3> QED BY <2>4, <3>1, <3>2, <3>3 DEF Proposed, SameNode, SameVoter
  <2> QED BY <2>1, <2>2, <2>3, <2>4
<1>3. \A k \in Nodes : Rises(k) BY <1>0, <1>1, OthersRise, VoterRises
<1>4. ASSUME NEW k \in Nodes PROVE PromiseCount(k, s, F, Q)'
  <2>1. CASE k = n BY <1>0, <1>1, <1>3, <2>1, CountKeeps DEF SameProposer, Promising
  <2>2. CASE k # n BY <1>1, <1>3, <2>2, SameCounts DEF OthersSame, Promising
  <2> QED BY <2>1, <2>2
<1>5. PromiseTraffic(s, Q)' BY <1>0, <1>1, <1>3, TrafficKeeps DEF Promising
<1> QED BY <1>4, <1>5 DEF Promising

\* n counts the promise of o.
CountedBy(n, o, s, Q) == IF s = step[n] THEN [Q EXCEPT ![n] = @ \cup {o}] ELSE Q
FilledBy(n, s, F) == IF s = step[n] /\ inst'[n].phase = 2 THEN F \cup {n} ELSE F

\* A counted promise is gone, and its voter had not been counted.
LEMMA PromiseCountedPromising ==
  ASSUME TypeOK, TypeOK', NEW g \in Goroutines, NEW o \in Nodes, NEW m,
         PromiseCounted(g, o, m),
         NEW s \in Steps, NEW F, NEW Q, Promising(s, F, Q),
         NEW F2, F2 = FilledBy(NodeOf(g), s, F), NEW Q2, Q2 = CountedBy(NodeOf(g), o, s, Q)
  PROVE  Promising(s, F2, Q2)'
<1> PICK n : n = NodeOf(g) OBVIOUS
<1>0. n \in Nodes BY NodeOfType
<1>1. /\ m \in Message /\ Going(m, n, o) /\ m.type = "promise" /\ m.step = step[n]
      /\ inst[n].phase = 1 /\ Flows(g, {}) /\ Gone(m, n, o, {})
      /\ OthersSame(n) /\ step'[n] = step[n] /\ inst'[n].maxID = inst[n].maxID
      /\ inst'[n].promises = inst[n].promises + 1
      /\ inst'[n].phase = IF Reached(inst[n].promises + 1) THEN 2 ELSE 1
      /\ \/ inst'[n].phase = 2
              /\ promiseChan' =
                   [promiseChan EXCEPT ![n][step[n]] = <<Chosen(Promised(inst[n], m))>>]
         \/ inst'[n].phase # 2 /\ promiseChan' = promiseChan
  BY DEF PromiseCounted, Section, SameVoter
<1>3. \A k \in Nodes : Rises(k) BY <1>0, <1>1, OthersRise, VoterRises
<1>4. \A k \in Nodes \ {n} : promiseChan'[k][s] = promiseChan[k][s] BY <1>1 DEF TypeOK
<1>5. s # step[n] => promiseChan'[n][s] = promiseChan[n][s] BY <1>1 DEF TypeOK
<1>6. PromiseTraffic(s, Q)' BY <1>1, <1>3, TrafficKeeps DEF Promising
<1>7. CASE s # step[n]
  <2>1. Q2 = Q /\ F2 = F BY <1>7 DEF CountedBy, FilledBy
  <2>2. ASSUME NEW k \in Nodes PROVE PromiseCount(k, s, F, Q)'
    <3>1. CASE k = n BY <1>0, <1>1, <1>3, <1>5, <1>7, <3>1, CountKeeps DEF Promising
    <3>2. CASE k # n BY <1>1, <1>3, <1>4, <3>2, SameCounts DEF OthersSame, Promising
    <3> QED BY <3>1, <3>2
  <2> QED BY <1>6, <2>1, <2>2 DEF Promising
<1>8. CASE s = step[n]
  <2>0. /\ F \in SUBSET Nodes /\ Q \in [Nodes -> SUBSET Nodes] /\ PromiseCount(n, s, F, Q)
        /\ PromiseTraffic(s, Q)
    BY <1>0 DEF Promising
  <2>1. /\ Q2 = [Q EXCEPT ![n] = Q[n] \cup {o}]
        /\ F2 = IF inst'[n].phase = 2 THEN F \cup {n} ELSE F
    BY <1>8 DEF CountedBy, FilledBy
  <2>2. /\ Q2 \in [Nodes -> SUBSET Nodes] /\ F2 \in SUBSET Nodes
        /\ Q2[n] = Q[n] \cup {o} /\ \A k \in Nodes \ {n} : Q2[k] = Q[k]
        /\ \A k \in Nodes \ {n} : k \in F2 <=> k \in F
    BY <1>0, <2>0, <2>1
  <2>3. /\ o \notin Q[n] /\ Has(o, s, FirstID[n])
        /\ m \in PromisesTo(n, s) /\ One(PromisesTo(n, s), n, o)
    BY <1>0, <1>1, <1>8, <2>0 DEF PromiseTraffic, PromisesTo
  <2>4. \A x \in PromisesTo(n, s) : ~Going(x, n, o)'
    <3>1. PromisesTo(n, s) \in SUBSET Message BY DEF PromisesTo
    <3>2. \A M \in SUBSET Message :
            m \in M /\ One(M, n, o) /\ {} \cap M = {} => \A x \in M : ~Going(x, n, o)'
      BY <1>1 DEF Gone
    <3> QED BY <2>3, <3>1, <3>2
  <2>5. PromiseTraffic(s, Q2)'
    <3> SUFFICES ASSUME NEW k \in Nodes, NEW a \in Nodes
                 PROVE  /\ One(PromisesTo(k, s), k, a)'
                        /\ \A x \in Message : Going(x, k, a)' =>
                             /\ x.type = "prepare" => x.src = a /\ x.id = FirstID[a]
                             /\ x.type = "promise" /\ x.step = s =>
                                  /\ x.dest = k /\ x.id = FirstID[k]
                                  /\ Has(a, s, FirstID[k])' /\ a \notin Q2[k]
      BY DEF PromiseTraffic, PromisesTo
    <3>1. /\ One(PromisesTo(k, s), k, a)'
          /\ \A x \in Message : Going(x, k, a)' =>
               /\ x.type = "prepare" => x.src = a /\ x.id = FirstID[a]
               /\ x.type = "promise" /\ x.step = s =>
                    /\ x.dest = k /\ x.id = FirstID[k]
                    /\ Has(a, s, FirstID[k])' /\ a \notin Q[k]
      BY <1>6 DEF PromiseTraffic, PromisesTo
    <3>2. CASE k = n /\ a = o
      <4>1. ASSUME NEW x \in Message, Going(x, k, a)', x.type = "promise", x.step = s
            PROVE  FALSE
        <5>1. x.id = FirstID[k] BY <3>1, <4>1
        <5>2. x \in PromisesTo(n, s) BY <3>2, <4>1, <5>1 DEF PromisesTo
        <5> QED BY <2>4, <3>2, <4>1, <5>2
      <4> QED BY <3>1, <4>1
    <3>3. CASE ~(k = n /\ a = o)
      <4>1. a \notin Q[k] => a \notin Q2[k] BY <2>2, <3>3
      <4> QED BY <3>1, <4>1
    <3> QED BY <3>2, <3>3
  <2>6. PromiseCount(n, s, F2, Q2)'
    <3>1. /\ step[n] \in Nat /\ inst[n].promises \in Nat /\ Threshold \in Nat
          /\ step'[n] = s /\ s \in Nat
      BY <1>0, <1>1, <1>8, NodeTypes, ConfigAssumption
    <3>2. Cardinality(Q2[n]) = Cardinality(Q[n]) + 1 /\ Cardinality(Q[n]) \in Nat
      <4>1. IsFiniteSet(Q[n]) BY <1>0, <2>0, PopulationAssumption, FS_Subset
      <4> QED BY <2>2, <2>3, <4>1, FS_AddElement, FS_CardinalityType
    <3>3. \A a \in Q2[n] : Has(a, s, FirstID[n])'
      <4>1. \A a \in Q2[n] : a \in Nodes /\ Has(a, s, FirstID[n])
        BY <1>0, <2>0, <2>2, <2>3 DEF PromiseCount
      <4> QED BY <1>0, <1>3, <4>1, NodeTypes, HasStays
    <3>4. /\ inst[n].promises + (IF n \in F THEN Threshold ELSE 0) <= Cardinality(Q[n])
          /\ n \in F => Threshold <= Cardinality(Q[n])
      BY <1>1, <1>8, <2>0 DEF PromiseCount
    <3>5. n \in F2 => Threshold <= Cardinality(Q2[n])
      BY <1>1, <2>1, <3>1, <3>2, <3>4 DEF Reached
    <3>6. /\ inst'[n].promises
                + (IF n \in F2 /\ inst'[n].phase = 1 THEN Threshold ELSE 0)
              <= Cardinality(Q2[n])
          /\ inst'[n].phase = 2 => n \in F2
      BY <1>1, <2>1, <3>1, <3>2, <3>4
    <3>7. promiseChan'[n][s] # <<>> => n \in F2
      BY <1>1, <2>0, <2>1 DEF PromiseCount
    <3> QED BY <3>1, <3>3, <3>5, <3>6, <3>7 DEF PromiseCount
  <2>7. ASSUME NEW k \in Nodes, k # n PROVE PromiseCount(k, s, F2, Q2)'
    <3>1. PromiseCount(k, s, F, Q)'
      BY <1>1, <1>3, <1>4, <2>7, SameCounts DEF OthersSame, Promising
    <3> QED BY <2>2, <2>7, <3>1 DEF PromiseCount
  <2> QED BY <2>2, <2>5, <2>6, <2>7 DEF Promising
<1> QED BY <1>7, <1>8

\* One more promise than a majority of nodes would be needed.
LEMMA NeverStuck ==
  ASSUME TypeOK, Majority, NEW g \in Goroutines, NEW o \in Nodes, NEW m,
         NEW F, NEW Q, Promising(step[NodeOf(g)], F, Q)
  PROVE  ~SendBlocked(g, o, m)
<1> SUFFICES ASSUME SendBlocked(g, o, m) PROVE FALSE OBVIOUS
<1> PICK n : n = NodeOf(g) OBVIOUS
<1> PICK s : s = step[n] OBVIOUS
<1>0. n \in Nodes BY NodeOfType
<1>1. /\ m.type = "promise" /\ m.step = s /\ inst[n].phase = 1
      /\ m \in Message /\ Going(m, n, o)
      /\ inst[n].promises + 1 >= Threshold /\ promiseChan[n][s] # <<>>
  BY DEF SendBlocked, Reached
<1>2. PromiseTraffic(s, Q) /\ PromiseCount(n, s, F, Q) /\ Q \in [Nodes -> SUBSET Nodes]
  BY <1>0 DEF Promising
<1>3. o \notin Q[n] BY <1>0, <1>1, <1>2 DEF PromiseTraffic
<1>4. inst[n].promises + Threshold <= Cardinality(Q[n]) BY <1>1, <1>2 DEF PromiseCount
<1>5. /\ IsFiniteSet(Q[n]) /\ Q[n] \cup {o} \subseteq Nodes
      /\ Cardinality(Q[n] \cup {o}) <= Cardinality(Nodes)
  BY <1>0, <1>2, PopulationAssumption, FS_Subset
<1>6. Cardinality(Q[n] \cup {o}) = Cardinality(Q[n]) + 1 /\ Cardinality(Q[n]) \in Nat
  BY <1>3, <1>5, FS_AddElement, FS_CardinalityType
<1>7. Cardinality(Nodes) \in Nat /\ Threshold \in Nat /\ inst[n].promises \in Nat
  BY <1>0, PopulationAssumption, FS_CardinalityType, ConfigAssumption, NodeTypes
<1> QED BY <1>1, <1>4, <1>5, <1>6, <1>7 DEF Majority

PromisesInv ==
  /\ TypeOK /\ Calm
  /\ \A s \in Steps : \E F, Q : Promising(s, F, Q)

\* Nothing is promised at the start.
LEMMA PromisingInit ==
  ASSUME Init, NEW s \in Steps
  PROVE  Promising(s, {}, [n \in Nodes |-> {}])
<1>0. TypeOK BY InitType
<1> DEFINE Q == [n \in Nodes |-> {}]
<1>1. /\ inbox = [d \in Nodes |-> [o \in Nodes |-> <<>>]]
      /\ out = [g \in Goroutines |-> None] /\ local = [g \in Goroutines |-> None]
      /\ inst = [n \in Nodes |-> Cleared(n)]
      /\ promiseChan = [n \in Nodes |-> [t \in Steps |-> <<>>]]
  BY DEF Init
<1>2. \A n \in Nodes : Cleared(n).promises = 0 /\ Cleared(n).phase = 1 BY DEF Cleared
<1>3. \A m, n, o : n \in Nodes /\ o \in Nodes => ~Going(m, n, o)
  BY <1>1 DEF Going, GoingIn, CarriesIn
<1>4. \A n, o \in Nodes : One(PromisesTo(n, s), n, o)
  BY <1>1 DEF One, OneIn, CarriesIn
<1>5. PromiseTraffic(s, Q) BY <1>3, <1>4 DEF PromiseTraffic
<1>6. \A n \in Nodes : PromiseCount(n, s, {}, Q)
  <2>1. Cardinality({}) = 0 BY FS_EmptySet
  <2> QED BY <1>1, <1>2, <2>1 DEF PromiseCount
<1> QED BY <1>5, <1>6 DEF Promising

\* No send on a promise channel finds it full.
LEMMA PromisesNotStuck ==
  ASSUME PromisesInv, Majority
  PROVE  ~Stuck
<1> SUFFICES ASSUME NEW g \in Goroutines, NEW o \in Nodes, NEW m, SendBlocked(g, o, m)
             PROVE  FALSE
  BY DEF Stuck
<1>1. step[NodeOf(g)] \in Steps BY NodeOfType, NodeTypes DEF PromisesInv
<1> QED BY <1>1, NeverStuck DEF PromisesInv

\* Every kind of step keeps the count of promises.
LEMMA PromisingNext ==
  ASSUME TypeOK, TypeOK', Alone, Kind, NEW s \in Steps, NEW F, NEW Q, Promising(s, F, Q)
  PROVE  \E F2, Q2 : Promising(s, F2, Q2)'
<1>1. ASSUME NEW g \in Goroutines, Handled(g)
      PROVE  \E F2, Q2 : Promising(s, F2, Q2)'
  <2>1. PICK o \in Nodes, m \in Message :
          \/ Dropped(g, o, m) \/ PromiseMade(g, o, m) \/ Accepted(g, o, m)
          \/ PromiseCounted(g, o, m) \/ AcceptCounted(g, o, m)
          \/ \E T, b : StepEnded(g, o, m, T, b)
    BY <1>1 DEF Handled
  <2>2. CASE Dropped(g, o, m) BY <2>2, DroppedPromising
  <2>3. CASE PromiseMade(g, o, m) BY <2>3, PromiseMadePromising
  <2>4. CASE Accepted(g, o, m) \/ AcceptCounted(g, o, m) BY <2>4, AcceptedPromising
  <2>5. CASE PromiseCounted(g, o, m)
    <3>1. PICK F2 : F2 = FilledBy(NodeOf(g), s, F) OBVIOUS
    <3>2. PICK Q2 : Q2 = CountedBy(NodeOf(g), o, s, Q) OBVIOUS
    <3> QED BY <2>5, <3>1, <3>2, PromiseCountedPromising
  <2>6. CASE \E T, b : StepEnded(g, o, m, T, b) BY <2>6, StepEndedPromising
  <2> QED BY <2>1, <2>2, <2>3, <2>4, <2>5, <2>6
<1>2. CASE \E g \in Goroutines : \E p : Broadcasted(g, p) BY <1>2, BroadcastedPromising
<1>3. CASE \E c \in Calls : CallMoved(c) \/ Prepared(c) \/ ValueTaken(c) \/ Proposed(c)
  BY <1>3, CallPromising
<1> QED BY <1>1, <1>2, <1>3 DEF Kind

\* A stuttering step keeps the count of promises.
LEMMA PromisingStill ==
  ASSUME UNCHANGED vars, NEW s, NEW F, NEW Q, Promising(s, F, Q)
  PROVE  Promising(s, F, Q)'
<1>1. /\ inbox' = inbox /\ out' = out /\ local' = local
      /\ step' = step /\ inst' = inst /\ promiseChan' = promiseChan
  BY DEF vars, messageVars, handlerVars
<1>2. \A m, n, o : Going(m, n, o)' <=> Going(m, n, o) BY <1>1 DEF Going
<1>3. \A M, n, o : One(M, n, o)' <=> One(M, n, o) BY <1>1 DEF One
<1>4. PromiseTraffic(s, Q)'
  BY <1>1, <1>2, <1>3 DEF Promising, PromiseTraffic, PromisesTo, Has
<1>5. \A n \in Nodes : PromiseCount(n, s, F, Q)' BY <1>1 DEF Promising, PromiseCount, Has
<1> QED BY <1>4, <1>5 DEF Promising

\* Every step keeps the invariant of the promises.
LEMMA PromisesInvNext ==
  ASSUME NoRetry, Majority, PromisesInv, [Next]_vars
  PROVE  PromisesInv'
<1>1. TypeOK /\ TypeOK' /\ Calm BY NextType DEF PromisesInv
<1>2. CASE Next
  <2>1. Kind BY <1>1, <1>2, StepKinds, PromisesNotStuck
  <2>2. Calm' BY <1>1, <2>1, CalmNext
  <2>3. ASSUME NEW s \in Steps PROVE \E F, Q : Promising(s, F, Q)'
    <3>1. PICK F, Q : Promising(s, F, Q) BY DEF PromisesInv
    <3>2. Alone BY <1>1 DEF Calm
    <3> QED BY <1>1, <2>1, <3>1, <3>2, PromisingNext
  <2> QED BY <1>1, <2>2, <2>3 DEF PromisesInv
<1>3. CASE UNCHANGED vars
  <2>1. Calm' BY <1>1, <1>3, CalmStill
  <2>2. ASSUME NEW s \in Steps PROVE \E F, Q : Promising(s, F, Q)'
    <3>1. PICK F, Q : Promising(s, F, Q) BY DEF PromisesInv
    <3> QED BY <1>3, <3>1, PromisingStill
  <2> QED BY <1>1, <2>1, <2>2 DEF PromisesInv
<1> QED BY <1>2, <1>3

\* Where nobody retries and a threshold is a majority, a proposer counts at most one
\* promise of every node in a step, and only as many as fill its channel once
\* (respondToPromiseMsg, which looks at neither the sender nor the ID).
THEOREM PromisesCorrect == NoRetry /\ Majority => (Spec => []PromisesInv)
<1> SUFFICES ASSUME NoRetry, Majority PROVE Spec => []PromisesInv OBVIOUS
<1>1. Init => PromisesInv
  <2> SUFFICES ASSUME Init PROVE PromisesInv OBVIOUS
  <2>1. TypeOK /\ Calm BY InitType, CalmInit
  <2>2. \A s \in Steps : \E F, Q : Promising(s, F, Q) BY PromisingInit
  <2> QED BY <2>1, <2>2 DEF PromisesInv
<1>2. PromisesInv /\ [Next]_vars => PromisesInv' BY PromisesInvNext
<1> QED BY <1>1, <1>2, PTL DEF Spec

-----------------------------------------------------------------------------
(* The votes of a step *)

IdOf(c) == FirstID[Host[c]]

\* At most two calls, on nodes with different IDs.
TwoProposers ==
  /\ \A a, b, c \in Calls : a = b \/ b = c \/ a = c
  /\ \A a, b \in Calls : IdOf(a) = IdOf(b) => a = b

\* Of the step s: P[c] is the value that c has proposed, A[c] the nodes that have accepted
\* it, G[n] the accepts <<o, c>> that n has counted, R the nodes that have prepared.
VotesType(P, A, G, R) ==
  /\ P \in [Calls -> ValueOrNone] /\ A \in [Calls -> SUBSET Nodes]
  /\ G \in [Nodes -> SUBSET (Nodes \X Calls)] /\ R \in SUBSET Nodes

\* A listener broadcasts no phase of its own, and what it promises goes to others; a
\* call promises to its own node.
Roles ==
  /\ \A n \in Nodes :
       /\ local[n] # None => local[n].type \notin {"prepare", "propose", "promise"}
       /\ out[n] # None => /\ out[n].type \notin {"prepare", "propose"}
                           /\ out[n].type = "promise" => out[n].dest # n
  /\ \A c \in Calls : out[c] # None /\ out[c].type = "promise" => out[c].dest = Host[c]

\* A proposal of step s has a value of that step, or one of an earlier step that is over.
Genuine(m, s) == m.type = "propose" /\ m.step = s /\ m.val.step = s
Stale(m, s) == m.type = "propose" /\ m.step = s /\ m.val.step # s
IsPrepare(m, s) == m.type = "prepare" /\ m.step = s

PreparedNode(n, s, R) ==
  /\ n \in R => s <= step[n]
  /\ \A c \in Calls : step[n] = s /\ inst[n].maxID = IdOf(c) => Host[c] \in R
PreparedCall(c, s, R) ==
  Host[c] \in R /\ step[Host[c]] = s =>
    /\ tag[c].pc = "promise" => tag[c].chan = s
    /\ tag[c].pc = "phase2" => tag[c].value.step = s

\* A stale proposal is not accepted: it comes before the prepare of its proposer.
StaleHeld(c, s, R) ==
  /\ out[c] # None /\ Stale(out[c], s) => Host[c] \notin R
  /\ local[c] # None /\ Stale(local[c], s) => Host[c] \notin R
StaleQueued(n, o, s) ==
  \A j \in DOMAIN inbox[n][o] : Stale(inbox[n][o][j], s) =>
    /\ ~(step[n] = s /\ inst[n].maxID = FirstID[o])
    /\ \A i \in 1..j : ~IsPrepare(inbox[n][o][i], s)

\* What the promise m of o reports
Reports(m, o, P, A) ==
  IF m.accID = 0 THEN \A d \in Calls : IdOf(d) < m.id => o \notin A[d]
  ELSE m.accVal = None \/ \E d \in Calls : IdOf(d) < m.id /\ m.accVal = P[d]

Carried(m, n, o, s, P, A, G, R) ==
  /\ IsPrepare(m, s) => o \in R
  /\ m.type \in {"prepare", "propose"} => \E c \in Calls : Host[c] = o
  /\ m.type = "propose" => m.id = FirstID[o]
  /\ Genuine(m, s) => \A c \in Calls : Host[c] = o => m.val = P[c] /\ n \notin A[c]
  /\ m.type = "accept" /\ m.step = s =>
       \E c \in Calls : m.id = IdOf(c) /\ o \in A[c] /\ m.val = P[c] /\ <<o, c>> \notin G[n]
  /\ m.type = "promise" /\ m.step = s =>
       n \in R /\ (step[n] = s => Reports(m, o, P, A))

Proposals(s) == {m \in Message : Genuine(m, s)}
AcceptsOf(c, s) == {m \in Message : m.type = "accept" /\ m.step = s /\ m.id = IdOf(c)}

Ballots(s, P, A, G, R) ==
  \A n, o \in Nodes :
    /\ One(Proposals(s), n, o)
    /\ \A c \in Calls : One(AcceptsOf(c, s), n, o)
    /\ \A m \in Message : Going(m, n, o) => Carried(m, n, o, s, P, A, G, R)

AcceptorAt(n, s, P, A) ==
  /\ \A d \in Calls : n \in A[d] =>
       P[d] # None /\ s <= step[n] /\ (step[n] = s => IdOf(d) <= inst[n].maxID)
  /\ step[n] = s =>
       IF inst[n].acceptedID = 0 THEN \A d \in Calls : n \notin A[d]
       ELSE \E d \in Calls : /\ inst[n].acceptedID = IdOf(d) /\ n \in A[d]
                             /\ inst[n].acceptedValue = P[d]

\* The nodes that will not accept the proposal of d any more since they promised c
Blocked(c, s, A) == [d \in Calls |-> {o \in Nodes : o \notin A[d] /\ Has(o, s, IdOf(c))}]

\* c may propose v: no other value of a lower ID has got a threshold, nor will.
Safe(c, v, s, P, B) ==
  /\ v # None /\ v.step = s
  /\ \A d \in Calls : IdOf(d) < IdOf(c) => P[d] = v \/ Threshold <= Cardinality(B[d])

ProposerAt(c, s, P, A, F) ==
  LET n == Host[c]
      B == Blocked(c, s, A)
  IN
  /\ P[c] # None => Safe(c, P[c], s, P, B) /\ n \in F /\ promiseChan[n][s] = <<>>
  /\ promiseChan[n][s] # <<>> =>
       Head(promiseChan[n][s]) = None \/ Safe(c, Head(promiseChan[n][s]), s, P, B)
  /\ tag[c].pc = "phase2" /\ tag[c].value.step = s =>
       /\ Safe(c, tag[c].value, s, P, B) /\ n \in F /\ promiseChan[n][s] = <<>>
       /\ P[c] = None

BestAt(c, s, P, A, Q) ==
  LET n == Host[c] IN
  step[n] = s =>
    /\ IF inst[n].bestID = 0
         THEN \A o \in Q[n] : \A d \in Calls : IdOf(d) < IdOf(c) => o \notin A[d]
         ELSE \/ inst[n].bestValue = None
              \/ \E d \in Calls : IdOf(d) < IdOf(c) /\ inst[n].bestValue = P[d]
    /\ inst[n].proposedValue # None => inst[n].proposedValue.step = s

AcceptorAtAll(s, P, A) == \A n \in Nodes : AcceptorAt(n, s, P, A)

\* The listener has yet to broadcast a promise of a step that is over.
Late(o) == out[o] # None /\ out[o].type = "promise" /\ out[o].step < step[o]
LateAt(o, s, Q) == Late(o) /\ step[o] = s => Q[o] \subseteq {o} /\ inst[o].acceptedValue = None

CountedFor(n, v, P, G) == {u \in G[n] : P[u[2]] = v}
CountedAt(n, s, P, A, G) ==
  /\ \A u \in G[n] : u[1] \in A[u[2]]
  /\ step[n] = s => \A v \in Value :
       inst[n].acceptedValues[v] <= Cardinality(CountedFor(n, v, P, G))

VotesFor(v, P, A) == {u \in Nodes \X Calls : u[1] \in A[u[2]] /\ P[u[2]] = v}
DecidedAt(n, s, P, A) ==
  s + 1 \in DOMAIN blocks[n] =>
    Threshold <= Cardinality(VotesFor(blocks[n][s + 1].value, P, A))

Voting(s, P, A, G, R, F, Q) ==
  /\ Promising(s, F, Q) /\ VotesType(P, A, G, R) /\ Ballots(s, P, A, G, R)
  /\ \A n \in Nodes :
       /\ PreparedNode(n, s, R) /\ AcceptorAt(n, s, P, A) /\ LateAt(n, s, Q)
       /\ CountedAt(n, s, P, A, G) /\ DecidedAt(n, s, P, A)
       /\ \A o \in Nodes : StaleQueued(n, o, s)
  /\ \A c \in Calls :
       /\ PreparedCall(c, s, R) /\ StaleHeld(c, s, R)
       /\ ProposerAt(c, s, P, A, F) /\ BestAt(c, s, P, A, Q)

-----------------------------------------------------------------------------
(* What a step may add to the votes *)

Grown(s, P, A, P2, A2) ==
  /\ P2 \in [Calls -> ValueOrNone] /\ A2 \in [Calls -> SUBSET Nodes]
  /\ \A c \in Calls :
       /\ P2[c] = P[c] \/ P[c] = None
       /\ A[c] \subseteq A2[c]
       /\ \A o \in A2[c] :
            o \in A[c] \/ (step[o] = s /\ inst[o].maxID = IdOf(c) /\ P[c] # None)

\* Votes that stay the same have grown.
LEMMA GrownSame ==
  ASSUME NEW s, NEW P, NEW A, NEW G, NEW R, VotesType(P, A, G, R)
  PROVE  Grown(s, P, A, P, A)
BY DEF Grown, VotesType

\* The types of the host and of the ID of a call.
LEMMA IdTypes ==
  ASSUME NEW c \in Calls
  PROVE  Host[c] \in Nodes /\ IdOf(c) \in Nat /\ IdOf(c) > 0
<1>1. Host[c] \in Nodes BY HostType
<1>2. FirstID[Host[c]] \in 1..MaxID BY <1>1, ConfigAssumption
<1> QED BY <1>1, <1>2, ConfigAssumption DEF IdOf

\* The types of the step and of the promised ID, before and after.
LEMMA StepTypes ==
  ASSUME TypeOK, TypeOK', NEW n \in Nodes
  PROVE  /\ step[n] \in Nat /\ step'[n] \in Nat
         /\ inst[n].maxID \in Nat /\ inst'[n].maxID \in Nat
<1>1. step[n] \in Nat /\ inst[n].maxID \in Nat BY NodeTypes
<1>2. step'[n] \in Steps /\ inst'[n] \in Instance BY DEF TypeOK
<1>3. inst'[n].maxID \in IDOrZero BY <1>2 DEF Instance
<1> QED BY <1>1, <1>2, <1>3, ConfigAssumption DEF Steps, IDOrZero

\* Who has promised a higher ID accepts no lower one any more.
LEMMA NotAccepting ==
  ASSUME TypeOK, NEW s \in Steps, NEW P, NEW A, NEW P2, NEW A2, Grown(s, P, A, P2, A2),
         NEW o \in Nodes, NEW d \in Calls, NEW id \in Nat, IdOf(d) < id,
         Has(o, s, id), o \notin A[d]
  PROVE  o \notin A2[d]
<1>1. /\ step[o] \in Nat /\ s \in Nat /\ inst[o].maxID \in Nat /\ IdOf(d) \in Nat
  BY NodeTypes, IdTypes, ConfigAssumption DEF Steps
<1> QED BY <1>1 DEF Grown, Has

\* A value that is safe to propose stays safe.
LEMMA SafeStays ==
  ASSUME TypeOK, TypeOK', \A k \in Nodes : Rises(k),
         NEW s \in Steps, NEW P, NEW A, NEW P2, NEW A2, Grown(s, P, A, P2, A2),
         NEW c \in Calls, NEW v, Safe(c, v, s, P, Blocked(c, s, A))
  PROVE  Safe(c, v, s, P2, Blocked(c, s, A2)')
<1> PICK B : B = Blocked(c, s, A) OBVIOUS
<1> PICK B2 : B2 = Blocked(c, s, A2)' OBVIOUS
<1>1. ASSUME NEW d \in Calls, IdOf(d) < IdOf(c)
      PROVE  P2[d] = v \/ Threshold <= Cardinality(B2[d])
  <2>1. CASE P[d] = v BY <2>1 DEF Safe, Grown
  <2>2. CASE Threshold <= Cardinality(B[d])
    <3>1. ASSUME NEW o \in Nodes, o \notin A[d], Has(o, s, IdOf(c))
          PROVE  o \notin A2[d] /\ Has(o, s, IdOf(c))'
      BY <1>1, <3>1, IdTypes, NotAccepting, HasStays
    <3>2. B[d] \subseteq B2[d] /\ B2[d] \in SUBSET Nodes
      BY <3>1 DEF Blocked, IdOf
    <3>4. IsFiniteSet(B2[d]) /\ Cardinality(B[d]) <= Cardinality(B2[d]) /\ IsFiniteSet(B[d])
      BY <3>2, PopulationAssumption, FS_Subset
    <3>5. Cardinality(B[d]) \in Nat /\ Cardinality(B2[d]) \in Nat
      BY <3>4, FS_CardinalityType
    <3> QED BY <2>2, <3>4, <3>5, ConfigAssumption
  <2> QED BY <1>1, <2>1, <2>2 DEF Safe
<1> QED BY <1>1 DEF Safe

\* The acceptor n does not accept.
LEMMA AcceptorKeeps ==
  ASSUME TypeOK, TypeOK', NEW n \in Nodes, Rises(n),
         NEW s \in Steps, NEW P, NEW A, NEW P2, NEW A2, Grown(s, P, A, P2, A2),
         AcceptorAt(n, s, P, A),
         \A d \in Calls : n \in A2[d] => n \in A[d],
         step'[n] = s =>
           \/ /\ step[n] = s /\ inst'[n].acceptedID = inst[n].acceptedID
              /\ inst'[n].acceptedValue = inst[n].acceptedValue
           \/ step[n] < s /\ inst'[n].acceptedID = 0
  PROVE  AcceptorAt(n, s, P2, A2)'
<1>1. /\ step[n] \in Nat /\ step'[n] \in Nat /\ s \in Nat
      /\ inst[n].maxID \in Nat /\ inst'[n].maxID \in Nat
  BY StepTypes, ConfigAssumption DEF Steps
<1>2. ASSUME NEW d \in Calls, n \in A2[d]
      PROVE  /\ P2[d] # None /\ s <= step'[n]
             /\ step'[n] = s => IdOf(d) <= inst'[n].maxID
  <2>1. /\ n \in A[d] /\ P[d] # None /\ s <= step[n]
        /\ step[n] = s => IdOf(d) <= inst[n].maxID
    BY <1>2 DEF AcceptorAt
  <2>2. P2[d] = P[d] BY <2>1 DEF Grown
  <2>3. IdOf(d) \in Nat BY IdTypes
  <2> QED BY <1>1, <2>1, <2>2, <2>3 DEF Rises
<1>3. ASSUME step'[n] = s
      PROVE  IF inst'[n].acceptedID = 0 THEN \A d \in Calls : n \notin A2[d]
             ELSE \E d \in Calls : /\ inst'[n].acceptedID = IdOf(d) /\ n \in A2[d]
                                   /\ inst'[n].acceptedValue = P2[d]
  <2>1. CASE step[n] < s /\ inst'[n].acceptedID = 0
    <3>1. \A d \in Calls : n \notin A[d] BY <1>1, <2>1 DEF AcceptorAt
    <3> QED BY <2>1, <3>1
  <2>2. CASE /\ step[n] = s /\ inst'[n].acceptedID = inst[n].acceptedID
             /\ inst'[n].acceptedValue = inst[n].acceptedValue
    <3>1. CASE inst[n].acceptedID = 0 BY <2>2, <3>1 DEF AcceptorAt
    <3>2. CASE inst[n].acceptedID # 0
      <4>1. PICK d \in Calls : /\ inst[n].acceptedID = IdOf(d) /\ n \in A[d]
                               /\ inst[n].acceptedValue = P[d]
        BY <2>2, <3>2 DEF AcceptorAt
      <4>2. P[d] # None BY <4>1 DEF AcceptorAt
      <4>3. P2[d] = P[d] /\ n \in A2[d] BY <4>1, <4>2 DEF Grown
      <4> QED BY <2>2, <3>2, <4>1, <4>3
    <3> QED BY <3>1, <3>2
  <2> QED BY <1>3, <2>1, <2>2
<1> QED BY <1>2, <1>3 DEF AcceptorAt, IdOf

\* c proposes nothing, and its promise channel gets no value.
LEMMA ProposerKeeps ==
  ASSUME TypeOK, TypeOK', \A k \in Nodes : Rises(k),
         NEW s \in Steps, NEW P, NEW A, NEW P2, NEW A2, Grown(s, P, A, P2, A2),
         NEW F, NEW F2, F \subseteq F2, NEW c \in Calls, ProposerAt(c, s, P, A, F),
         P2[c] = P[c],
         promiseChan'[Host[c]][s] = promiseChan[Host[c]][s] \/ promiseChan'[Host[c]][s] = <<>>,
         tag'[c].pc = "phase2" /\ tag'[c].value.step = s =>
           tag[c].pc = "phase2" /\ tag'[c].value = tag[c].value
  PROVE  ProposerAt(c, s, P2, A2, F2)'
<1> PICK B : B = Blocked(c, s, A) OBVIOUS
<1> PICK B2 : B2 = Blocked(c, s, A2)' OBVIOUS
<1>1. \A v : Safe(c, v, s, P, B) => Safe(c, v, s, P2, B2) BY SafeStays
<1>2. P2[c] # None =>
        Safe(c, P2[c], s, P2, B2) /\ Host[c] \in F2 /\ promiseChan'[Host[c]][s] = <<>>
  BY <1>1 DEF ProposerAt
<1>3. promiseChan'[Host[c]][s] # <<>> =>
        \/ Head(promiseChan'[Host[c]][s]) = None
        \/ Safe(c, Head(promiseChan'[Host[c]][s]), s, P2, B2)
  BY <1>1 DEF ProposerAt
<1>4. tag'[c].pc = "phase2" /\ tag'[c].value.step = s =>
        /\ Safe(c, tag'[c].value, s, P2, B2) /\ Host[c] \in F2
        /\ promiseChan'[Host[c]][s] = <<>> /\ P2[c] = None
  BY <1>1 DEF ProposerAt
<1> QED BY <1>2, <1>3, <1>4 DEF ProposerAt

\* The node of c counts no promise.
LEMMA BestKeeps ==
  ASSUME TypeOK, TypeOK', \A k \in Nodes : Rises(k),
         NEW s \in Steps, NEW P, NEW A, NEW P2, NEW A2, Grown(s, P, A, P2, A2),
         NEW F, NEW Q, Promising(s, F, Q), NEW c \in Calls, BestAt(c, s, P, A, Q),
         step'[Host[c]] = s =>
           \/ /\ step[Host[c]] = s /\ inst'[Host[c]].bestID = inst[Host[c]].bestID
              /\ inst'[Host[c]].bestValue = inst[Host[c]].bestValue
              /\ \/ inst'[Host[c]].proposedValue = inst[Host[c]].proposedValue
                 \/ inst'[Host[c]].proposedValue.step = s
           \/ /\ step[Host[c]] < s /\ inst'[Host[c]].bestID = 0
              /\ inst'[Host[c]].proposedValue = None
  PROVE  BestAt(c, s, P2, A2, Q)'
<1> PICK n : n = Host[c] OBVIOUS
<1>0. n \in Nodes /\ IdOf(c) \in Nat /\ FirstID[n] = IdOf(c) BY IdTypes DEF IdOf
<1>1. Q \in [Nodes -> SUBSET Nodes] /\ PromiseCount(n, s, F, Q) BY <1>0 DEF Promising
<1> SUFFICES ASSUME step'[n] = s
             PROVE  /\ IF inst'[n].bestID = 0
                         THEN \A o \in Q[n] : \A d \in Calls : IdOf(d) < IdOf(c) => o \notin A2[d]
                         ELSE \/ inst'[n].bestValue = None
                              \/ \E d \in Calls : IdOf(d) < IdOf(c) /\ inst'[n].bestValue = P2[d]
                    /\ inst'[n].proposedValue # None => inst'[n].proposedValue.step = s
  BY DEF BestAt, IdOf
<1>2. CASE step[n] < s /\ inst'[n].bestID = 0 /\ inst'[n].proposedValue = None
  BY <1>1, <1>2 DEF PromiseCount
<1>3. CASE /\ step[n] = s /\ inst'[n].bestID = inst[n].bestID
           /\ inst'[n].bestValue = inst[n].bestValue
           /\ \/ inst'[n].proposedValue = inst[n].proposedValue
              \/ inst'[n].proposedValue.step = s
  <2>1. CASE inst[n].bestID = 0
    <3>1. \A o \in Q[n] : \A d \in Calls : IdOf(d) < IdOf(c) => o \notin A2[d]
      <4> SUFFICES ASSUME NEW o \in Q[n], NEW d \in Calls, IdOf(d) < IdOf(c)
                   PROVE  o \notin A2[d]
        OBVIOUS
      <4>1. o \in Nodes /\ Has(o, s, IdOf(c)) BY <1>0, <1>1 DEF PromiseCount
      <4>2. o \notin A[d] BY <1>3, <2>1 DEF BestAt
      <4> QED BY <1>0, <4>1, <4>2, NotAccepting
    <3> QED BY <1>3, <2>1, <3>1 DEF BestAt
  <2>2. CASE inst[n].bestID # 0
    <3>1. \/ inst[n].bestValue = None
          \/ \E d \in Calls : IdOf(d) < IdOf(c) /\ inst[n].bestValue = P2[d]
      <4>1. CASE inst[n].bestValue # None
        <5>1. PICK d \in Calls : IdOf(d) < IdOf(c) /\ inst[n].bestValue = P[d]
          BY <1>3, <2>2, <4>1 DEF BestAt
        <5>2. P2[d] = P[d] BY <4>1, <5>1 DEF Grown
        <5> QED BY <5>1, <5>2
      <4> QED BY <4>1
    <3> QED BY <1>3, <2>2, <3>1 DEF BestAt
  <2> QED BY <2>1, <2>2
<1> QED BY <1>2, <1>3

\* A bounded set of calls
LEMMA FewCalls ==
  ASSUME TwoProposers
  PROVE  IsFiniteSet(Calls)
<1>1. CASE Calls = {} BY <1>1, FS_EmptySet
<1>2. CASE Calls # {}
  <2>1. PICK a \in Calls : TRUE BY <1>2
  <2>2. PICK b \in Calls : b # a \/ Calls = {a} BY <2>1
  <2>3. Calls \subseteq {a, b} BY <2>1, <2>2 DEF TwoProposers
  <2>4. IsFiniteSet({a, b})
    <3>1. IsFiniteSet({a}) BY FS_Singleton
    <3>2. {a, b} = {a} \cup {b} OBVIOUS
    <3> QED BY <3>1, <3>2, FS_AddElement
  <2> QED BY <2>3, <2>4, FS_Subset
<1> QED BY <1>1, <1>2

\* n counts no accept.
LEMMA CountedKeeps ==
  ASSUME TypeOK, TypeOK', NEW n \in Nodes,
         NEW s \in Steps, NEW P, NEW A, NEW P2, NEW A2, Grown(s, P, A, P2, A2),
         NEW G, NEW G2, NEW R, VotesType(P, A, G, R), G2[n] = G[n], AcceptorAtAll(s, P, A),
         IsFiniteSet(Calls),
         CountedAt(n, s, P, A, G),
         step'[n] = s =>
           \/ step[n] = s /\ inst'[n].acceptedValues = inst[n].acceptedValues
           \/ \A v \in Value : inst'[n].acceptedValues[v] = 0
  PROVE  CountedAt(n, s, P2, A2, G2)'
<1>1. G[n] \subseteq Nodes \X Calls BY DEF VotesType
<1>2. ASSUME NEW u \in G[n]
      PROVE  u[1] \in A2[u[2]] /\ P2[u[2]] = P[u[2]]
  <2>1. u[1] \in A[u[2]] /\ u[1] \in Nodes /\ u[2] \in Calls BY <1>1 DEF CountedAt
  <2>2. P[u[2]] # None BY <2>1 DEF AcceptorAtAll, AcceptorAt
  <2> QED BY <2>1, <2>2 DEF Grown
<1>3. \A v : CountedFor(n, v, P2, G2) = CountedFor(n, v, P, G) BY <1>2 DEF CountedFor
<1>4. \A v : Cardinality(CountedFor(n, v, P, G)) \in Nat
  <2>1. IsFiniteSet(Nodes \X Calls) BY PopulationAssumption, FS_Product
  <2>2. \A v : CountedFor(n, v, P, G) \subseteq Nodes \X Calls BY <1>1 DEF CountedFor
  <2> QED BY <2>1, <2>2, FS_Subset, FS_CardinalityType
<1>5. ASSUME step'[n] = s, NEW v \in Value
      PROVE  inst'[n].acceptedValues[v] <= Cardinality(CountedFor(n, v, P2, G2))
  BY <1>3, <1>4, <1>5 DEF CountedAt
<1> QED BY <1>2, <1>5 DEF CountedAt, CountedFor

\* A node has no new promise that is late.
LEMMA LateKeeps ==
  ASSUME NEW o \in Nodes, NEW s \in Steps, NEW F, NEW Q, Promising(s, F, Q), LateAt(o, s, Q),
         Late(o)' /\ step'[o] = s =>
           \/ /\ Late(o) /\ step[o] = s
              /\ inst'[o].acceptedValue = inst[o].acceptedValue
           \/ step[o] < s /\ inst'[o].acceptedValue = None
  PROVE  LateAt(o, s, Q)'
<1>1. PromiseCount(o, s, F, Q) BY DEF Promising
<1> QED BY <1>1 DEF LateAt, PromiseCount

\* A value never loses votes.
LEMMA VotesGrow ==
  ASSUME NEW s, NEW P, NEW A, NEW P2, NEW A2, Grown(s, P, A, P2, A2), IsFiniteSet(Calls),
         NEW v \in Value
  PROVE  /\ Cardinality(VotesFor(v, P, A)) \in Nat
         /\ Cardinality(VotesFor(v, P2, A2)) \in Nat
         /\ Cardinality(VotesFor(v, P, A)) <= Cardinality(VotesFor(v, P2, A2))
<1>1. VotesFor(v, P, A) \subseteq VotesFor(v, P2, A2)
  BY ValueAssumption DEF VotesFor, Grown
<1>2. IsFiniteSet(VotesFor(v, P2, A2))
  <2>1. IsFiniteSet(Nodes \X Calls) BY PopulationAssumption, FS_Product
  <2>2. VotesFor(v, P2, A2) \subseteq Nodes \X Calls BY DEF VotesFor
  <2> QED BY <2>1, <2>2, FS_Subset
<1> QED BY <1>1, <1>2, FS_Subset, FS_CardinalityType

\* The type of a stored block.
LEMMA BlockTypes ==
  ASSUME TypeOK, NEW n \in Nodes, NEW i \in DOMAIN blocks[n]
  PROVE  blocks[n][i] \in Block /\ blocks[n][i].value \in Value
<1>1. blocks[n][i] \in Block BY ElementOfSeq DEF TypeOK
<1> QED BY <1>1 DEF Block

\* What is stored stays decided.
LEMMA DecidedKeeps ==
  ASSUME TypeOK, NEW n \in Nodes, NEW s, NEW P, NEW A, NEW P2, NEW A2,
         Grown(s, P, A, P2, A2), IsFiniteSet(Calls), DecidedAt(n, s, P, A),
         blocks'[n] = blocks[n]
  PROVE  DecidedAt(n, s, P2, A2)'
<1> SUFFICES ASSUME s + 1 \in DOMAIN blocks[n]
             PROVE  Threshold <= Cardinality(VotesFor(blocks[n][s + 1].value, P2, A2))
  BY DEF DecidedAt, VotesFor
<1>1. blocks[n][s + 1].value \in Value BY BlockTypes
<1>2. Threshold <= Cardinality(VotesFor(blocks[n][s + 1].value, P, A)) BY DEF DecidedAt
<1> QED BY <1>1, <1>2, VotesGrow, ConfigAssumption

\* The node n promises no new ID.
LEMMA PreparedNodeKeeps ==
  ASSUME TypeOK, TypeOK', NEW n \in Nodes, Rises(n), NEW s \in Steps, NEW R,
         PreparedNode(n, s, R),
         step'[n] = s => \/ step[n] = s /\ inst'[n].maxID = inst[n].maxID
                         \/ inst'[n].maxID = 0
  PROVE  PreparedNode(n, s, R)'
<1>1. step[n] \in Nat /\ step'[n] \in Nat /\ s \in Nat
  BY StepTypes, ConfigAssumption DEF Steps
<1>2. n \in R => s <= step'[n] BY <1>1 DEF PreparedNode, Rises
<1>3. ASSUME NEW c \in Calls, step'[n] = s, inst'[n].maxID = IdOf(c) PROVE Host[c] \in R
  BY <1>3, IdTypes DEF PreparedNode
<1> QED BY <1>2, <1>3 DEF PreparedNode, IdOf

\* A call that has prepared still waits on the channel of the step.
LEMMA PreparedCallKeeps ==
  ASSUME TypeOK, TypeOK', NEW c \in Calls, Rises(Host[c]), NEW s \in Steps, NEW R,
         PreparedNode(Host[c], s, R), PreparedCall(c, s, R),
         tag'[c].pc = "promise" =>
           tag[c].pc = "promise" /\ tag'[c].chan \in {tag[c].chan, step[Host[c]]},
         tag'[c].pc = "phase2" => tag[c].pc = "phase2" /\ tag'[c].value = tag[c].value
  PROVE  PreparedCall(c, s, R)'
<1>0. Host[c] \in Nodes BY HostType
<1>1. step[Host[c]] \in Nat /\ step'[Host[c]] \in Nat /\ s \in Nat
  BY <1>0, StepTypes, ConfigAssumption DEF Steps
<1>2. Host[c] \in R /\ step'[Host[c]] = s => step[Host[c]] = s
  BY <1>1 DEF PreparedNode, Rises
<1> QED BY <1>2 DEF PreparedCall

\* A call holds no new stale proposal.
LEMMA StaleHeldKeeps ==
  ASSUME NEW c \in Calls, NEW s, NEW R, StaleHeld(c, s, R),
         out'[c] # None => out'[c] = out[c] \/ ~Stale(out'[c], s),
         local'[c] # None => \/ local'[c] = local[c] \/ ~Stale(local'[c], s)
                             \/ out[c] # None /\ local'[c] = out[c]
  PROVE  StaleHeld(c, s, R)'
BY DEF StaleHeld, Stale

\* No prepare of step s is under way from a node that has not prepared.
LEMMA UnpreparedQuiet ==
  ASSUME TypeOK, NEW n \in Nodes, NEW o \in Nodes, NEW s, NEW P, NEW A, NEW G, NEW R,
         Ballots(s, P, A, G, R), o \notin R, NEW i \in DOMAIN inbox[n][o]
  PROVE  ~IsPrepare(inbox[n][o][i], s)
<1>1. inbox[n][o] \in Seq(Message) BY DEF TypeOK
<1>2. inbox[n][o][i] \in Message BY <1>1, ElementOfSeq
<1>3. Going(inbox[n][o][i], n, o) BY DEF Going, GoingIn
<1> QED BY <1>2, <1>3 DEF Ballots, Carried

\* A queue may lose its head and get a stale proposal only from who has not prepared.
LEMMA StaleQueuedKeeps ==
  ASSUME TypeOK, TypeOK', NEW n \in Nodes, NEW o \in Nodes, NEW s \in Steps,
         NEW P, NEW A, NEW G, NEW R, Ballots(s, P, A, G, R), PreparedNode(n, s, R),
         StaleQueued(n, o, s),
         \A j \in DOMAIN inbox'[n][o] :
           /\ Stale(inbox'[n][o][j], s)
           /\ ~(step[n] = s /\ inst[n].maxID = FirstID[o])
           => ~(step'[n] = s /\ inst'[n].maxID = FirstID[o]),
         NEW g \in Goroutines, NEW S \in SUBSET Message, NEW m, Queues(g, S, m),
         \A x \in S : Stale(x, s) =>
           NodeOf(g) \notin R /\ \E c \in Calls : Host[c] = NodeOf(g)
  PROVE  StaleQueued(n, o, s)'
<1> DEFINE q == inbox[n][o]
           r == inbox'[n][o]
           Past(k) == ~(step'[n] = s /\ inst'[n].maxID = FirstID[k])
<1>0. q \in Seq(Message) BY DEF TypeOK
<1> SUFFICES ASSUME NEW j \in DOMAIN r, Stale(r[j], s)
             PROVE  Past(o) /\ \A i \in 1..j : ~IsPrepare(r[i], s)
  BY DEF StaleQueued, Stale, IsPrepare
<1>2. ~(step[n] = s /\ inst[n].maxID = FirstID[o]) => Past(o) OBVIOUS
<1> HIDE DEF Past
<1>3. CASE r = q BY <1>2, <1>3 DEF StaleQueued
<1>4. CASE q # <<>> /\ r = Tail(q)
  <2>1. \A i \in DOMAIN Tail(q) : i + 1 \in DOMAIN q /\ Tail(q)[i] = q[i + 1] /\ i + 1 # 1
    BY <1>0, <1>4, TailOne
  <2>2. /\ Len(q) \in Nat /\ DOMAIN q = 1..Len(q)
        /\ Len(Tail(q)) \in Nat /\ DOMAIN Tail(q) = 1..Len(Tail(q))
    <3>1. Tail(q) \in Seq(Message) BY <1>0, <1>4, HeadTailProperties
    <3> QED BY <1>0, <3>1, LenProperties
  <2> HIDE DEF q, r
  <2>3. j \in Nat /\ j \in 1..Len(Tail(q)) BY <1>4, <2>2
  <2>4. Stale(q[j + 1], s) /\ j + 1 \in DOMAIN q BY <1>4, <2>1
  <2>5. /\ ~(step[n] = s /\ inst[n].maxID = FirstID[o])
        /\ \A i \in 1..(j + 1) : ~IsPrepare(q[i], s)
    BY <2>4 DEF StaleQueued, q
  <2>6. ASSUME NEW i \in 1..j PROVE ~IsPrepare(r[i], s)
    <3>1. i \in DOMAIN Tail(q) BY <2>2, <2>3
    <3>2. i + 1 \in 1..(j + 1) BY <2>3
    <3> QED BY <1>4, <2>1, <2>5, <3>1, <3>2
  <2> QED BY <1>2, <2>5, <2>6
<1>5. ASSUME NEW x \in S, o = NodeOf(g), r = Append(q, x)
      PROVE  Past(o) /\ \A i \in 1..j : ~IsPrepare(r[i], s)
  <2>1. \A i \in DOMAIN Append(q, x) :
          \/ i = Len(q) + 1 /\ Append(q, x)[i] = x
          \/ i \in DOMAIN q /\ Append(q, x)[i] = q[i]
    BY <1>0, AppendOne
  <2>2. /\ Len(q) \in Nat /\ DOMAIN q = 1..Len(q)
        /\ DOMAIN Append(q, x) = 1..(Len(q) + 1)
    <3>1. Append(q, x) \in Seq(Message) /\ Len(Append(q, x)) = Len(q) + 1
      BY <1>0, AppendProperties
    <3> QED BY <1>0, <3>1, LenProperties
  <2> HIDE DEF q, r
  <2>3. j \in 1..(Len(q) + 1) BY <1>5, <2>2
  <2>4. CASE j \in DOMAIN q
    <3>1. r[j] = q[j] BY <1>5, <2>1, <2>2, <2>4
    <3>2. /\ ~(step[n] = s /\ inst[n].maxID = FirstID[o])
          /\ \A i \in 1..j : ~IsPrepare(q[i], s)
      BY <2>4, <3>1 DEF StaleQueued, q
    <3>3. ASSUME NEW i \in 1..j PROVE r[i] = q[i] BY <1>5, <2>1, <2>2, <2>4
    <3> QED BY <1>2, <3>2, <3>3
  <2>5. CASE j \notin DOMAIN q
    <3>1. r[j] = x /\ j = Len(q) + 1 BY <1>5, <2>1, <2>2, <2>3, <2>5
    <3>2. NodeOf(g) \notin R /\ \E c \in Calls : Host[c] = o BY <1>5, <3>1
    <3>3. PICK c \in Calls : Host[c] = o BY <3>2
    <3>4. ~(step[n] = s /\ inst[n].maxID = FirstID[o])
      BY <1>5, <3>2, <3>3 DEF PreparedNode, IdOf
    <3>5. ASSUME NEW i \in 1..j PROVE ~IsPrepare(r[i], s)
      <4>1. CASE i \in DOMAIN q
        <5>1. r[i] = q[i] BY <1>5, <2>1, <2>2, <4>1
        <5> QED BY <1>5, <3>2, <4>1, <5>1, UnpreparedQuiet DEF q
      <4>2. CASE i \notin DOMAIN q
        <5>1. r[i] = x BY <1>5, <2>1, <2>2, <3>1, <4>2
        <5> QED BY <3>1, <5>1 DEF Stale, IsPrepare
      <4> QED BY <4>1, <4>2
    <3> QED BY <1>2, <3>4, <3>5
  <2> QED BY <2>4, <2>5
<1> QED BY <1>3, <1>4, <1>5 DEF Queues

\* What a promise reports stays true.
LEMMA ReportsStays ==
  ASSUME TypeOK, NEW s \in Steps, NEW P, NEW A, NEW P2, NEW A2, Grown(s, P, A, P2, A2),
         NEW o \in Nodes, NEW m, m.id \in Nat, Has(o, s, m.id), Reports(m, o, P, A)
  PROVE  Reports(m, o, P2, A2)
<1>1. CASE m.accID = 0
  <2>1. \A d \in Calls : IdOf(d) < m.id => o \notin A2[d]
    BY <1>1, NotAccepting DEF Reports
  <2> QED BY <1>1, <2>1 DEF Reports
<1>2. CASE m.accID # 0
  <2>1. \A d \in Calls : m.accVal # None /\ m.accVal = P[d] => m.accVal = P2[d] BY DEF Grown
  <2> QED BY <1>2, <2>1 DEF Reports
<1> QED BY <1>1, <1>2

\* A message under way that nobody takes stays in accord with the votes.
LEMMA CarriedStays ==
  ASSUME TypeOK, TypeOK', NEW s \in Steps,
         NEW P, NEW A, NEW P2, NEW A2, Grown(s, P, A, P2, A2), NEW G, NEW G2, NEW R, NEW R2,
         R \subseteq R2, NEW F, NEW Q, Promising(s, F, Q),
         NEW n \in Nodes, NEW o \in Nodes, Rises(n), PreparedNode(n, s, R),
         NEW m \in Message, Going(m, n, o), Carried(m, n, o, s, P, A, G, R),
         Genuine(m, s) => \A c \in Calls : Host[c] = o /\ n \in A2[c] => n \in A[c],
         m.type = "accept" /\ m.step = s =>
           \A c \in Calls : m.id = IdOf(c) /\ <<o, c>> \in G2[n] => <<o, c>> \in G[n]
  PROVE  Carried(m, n, o, s, P2, A2, G2, R2)'
<1>1. step[n] \in Nat /\ step'[n] \in Nat /\ s \in Nat
  BY StepTypes, ConfigAssumption DEF Steps
<1>2. IsPrepare(m, s) => o \in R2 BY DEF Carried
<1>3. /\ m.type \in {"prepare", "propose"} => \E c \in Calls : Host[c] = o
      /\ m.type = "propose" => m.id = FirstID[o]
  BY DEF Carried
<1>4. m.type \in {"propose", "accept"} => m.val # None
  BY MessageCases, ValueAssumption DEF ProposeMsg, AcceptMsg
<1>5. ASSUME Genuine(m, s), NEW c \in Calls, Host[c] = o
      PROVE  m.val = P2[c] /\ n \notin A2[c]
  <2>1. m.val = P[c] /\ n \notin A[c] /\ m.val # None
    BY <1>4, <1>5 DEF Carried, Genuine
  <2> QED BY <1>5, <2>1 DEF Grown
<1>6. ASSUME m.type = "accept", m.step = s
      PROVE  \E c \in Calls : /\ m.id = IdOf(c) /\ o \in A2[c] /\ m.val = P2[c]
                              /\ <<o, c>> \notin G2[n]
  <2>1. PICK c \in Calls :
          m.id = IdOf(c) /\ o \in A[c] /\ m.val = P[c] /\ <<o, c>> \notin G[n]
    BY <1>6 DEF Carried
  <2>2. o \in A2[c] /\ m.val = P2[c] BY <1>4, <1>6, <2>1 DEF Grown
  <2> QED BY <1>6, <2>1, <2>2
<1>7. ASSUME m.type = "promise", m.step = s
      PROVE  n \in R2 /\ (step'[n] = s => Reports(m, o, P2, A2))
  <2>1. n \in R /\ (step[n] = s => Reports(m, o, P, A)) BY <1>7 DEF Carried
  <2>2. step'[n] = s => step[n] = s BY <1>1, <2>1 DEF PreparedNode, Rises
  <2>3. m.id = FirstID[n] /\ Has(o, s, m.id) BY <1>7 DEF Promising, PromiseTraffic
  <2>4. m.id \in Nat BY <2>3, NodeTypes
  <2> QED BY <2>1, <2>2, <2>3, <2>4, ReportsStays
<1> QED BY <1>2, <1>3, <1>5, <1>6, <1>7 DEF Carried, Genuine, IsPrepare, IdOf, Reports

\* The step of g takes none of the proposals or accepts of step s away from their count.
LEMMA BallotsKeep ==
  ASSUME TypeOK, TypeOK', NEW s \in Steps,
         NEW P, NEW A, NEW P2, NEW A2, Grown(s, P, A, P2, A2), NEW G, NEW G2, NEW R, NEW R2,
         R \subseteq R2, NEW F, NEW Q, Promising(s, F, Q),
         \A k \in Nodes : Rises(k) /\ PreparedNode(k, s, R),
         Ballots(s, P, A, G, R), NEW g \in Goroutines, NEW S \in SUBSET Message, Flows(g, S),
         \A n, o \in Nodes : \A m \in Message : Going(m, n, o)' =>
           /\ Genuine(m, s) => \A c \in Calls : Host[c] = o /\ n \in A2[c] => n \in A[c]
           /\ m.type = "accept" /\ m.step = s =>
                \A c \in Calls : m.id = IdOf(c) /\ <<o, c>> \in G2[n] => <<o, c>> \in G[n],
         \A x \in S : \A n \in Nodes : Goes(x, n) =>
           /\ Carried(x, n, NodeOf(g), s, P2, A2, G2, R2)'
           /\ Genuine(x, s) => \A y \in Proposals(s) : ~Going(y, n, NodeOf(g))
           /\ \A c \in Calls : x \in AcceptsOf(c, s) =>
                \A y \in AcceptsOf(c, s) : ~Going(y, n, NodeOf(g))
  PROVE  Ballots(s, P2, A2, G2, R2)'
<1> SUFFICES ASSUME NEW n \in Nodes, NEW o \in Nodes
             PROVE  /\ One(Proposals(s), n, o)'
                    /\ \A c \in Calls : One(AcceptsOf(c, s), n, o)'
                    /\ \A m \in Message : Going(m, n, o)' =>
                         Carried(m, n, o, s, P2, A2, G2, R2)'
  BY DEF Ballots, Proposals, AcceptsOf, Genuine, IdOf
<1>1. One(Proposals(s), n, o)'
  <2>1. Proposals(s) \in SUBSET Message /\ One(Proposals(s), n, o)
    BY DEF Proposals, Ballots
  <2>2. \A x \in S \cap Proposals(s) : o = NodeOf(g) /\ Goes(x, n) =>
          \A y \in Proposals(s) : ~Going(y, n, o)
    BY DEF Proposals
  <2> QED BY <2>1, <2>2 DEF Flows
<1>2. ASSUME NEW c \in Calls PROVE One(AcceptsOf(c, s), n, o)'
  <2>1. AcceptsOf(c, s) \in SUBSET Message /\ One(AcceptsOf(c, s), n, o)
    BY DEF AcceptsOf, Ballots
  <2>2. \A x \in S \cap AcceptsOf(c, s) : o = NodeOf(g) /\ Goes(x, n) =>
          \A y \in AcceptsOf(c, s) : ~Going(y, n, o)
    OBVIOUS
  <2> QED BY <2>1, <2>2 DEF Flows
<1>3. ASSUME NEW m \in Message, Going(m, n, o)'
      PROVE  Carried(m, n, o, s, P2, A2, G2, R2)'
  <2>1. CASE Going(m, n, o)
    <3>1. Carried(m, n, o, s, P, A, G, R) BY <2>1 DEF Ballots
    <3>2. /\ Genuine(m, s) => \A c \in Calls : Host[c] = o /\ n \in A2[c] => n \in A[c]
          /\ m.type = "accept" /\ m.step = s =>
               \A c \in Calls : m.id = IdOf(c) /\ <<o, c>> \in G2[n] => <<o, c>> \in G[n]
      BY <1>3
    <3> QED BY <2>1, <3>1, <3>2, CarriedStays
  <2>2. CASE m \in S /\ o = NodeOf(g) /\ Goes(m, n)
    BY <2>2
  <2> QED BY <1>3, <2>1, <2>2 DEF Flows
<1> QED BY <1>1, <1>2, <1>3

-----------------------------------------------------------------------------
(* The steps that leave the votes of most nodes and calls alone *)

NodeVotes(n, s, P, A, G, R, Q) ==
  /\ PreparedNode(n, s, R) /\ AcceptorAt(n, s, P, A) /\ LateAt(n, s, Q)
  /\ CountedAt(n, s, P, A, G) /\ DecidedAt(n, s, P, A)
CallVotes(c, s, P, A, R, F, Q) ==
  /\ PreparedCall(c, s, R) /\ StaleHeld(c, s, R)
  /\ ProposerAt(c, s, P, A, F) /\ BestAt(c, s, P, A, Q)

\* Voting, by node and by call.
LEMMA VotingParts ==
  ASSUME NEW s, NEW P, NEW A, NEW G, NEW R, NEW F, NEW Q
  PROVE  Voting(s, P, A, G, R, F, Q) <=>
           /\ Promising(s, F, Q) /\ VotesType(P, A, G, R) /\ Ballots(s, P, A, G, R)
           /\ \A n \in Nodes : NodeVotes(n, s, P, A, G, R, Q)
           /\ \A n, o \in Nodes : StaleQueued(n, o, s)
           /\ \A c \in Calls : CallVotes(c, s, P, A, R, F, Q)
BY DEF Voting, NodeVotes, CallVotes

\* A node that neither votes nor counts nor leaves its step
LEMMA NodeVotesKeep ==
  ASSUME TypeOK, TypeOK', NEW n \in Nodes, step'[n] = step[n], SameVoter(n), SameTally(n),
         NEW s \in Steps, NEW P, NEW A, NEW P2, NEW A2, Grown(s, P, A, P2, A2),
         NEW G, NEW G2, NEW R, VotesType(P, A, G, R), G2[n] = G[n], AcceptorAtAll(s, P, A),
         IsFiniteSet(Calls), NEW F, NEW Q, NEW Q2, Promising(s, F, Q), Q2[n] = Q[n],
         NodeVotes(n, s, P, A, G, R, Q),
         \A d \in Calls : n \in A2[d] => n \in A[d],
         blocks'[n] = blocks[n], Late(n)' => Late(n)
  PROVE  NodeVotes(n, s, P2, A2, G2, R, Q2)'
<1>0. /\ inst'[n].maxID = inst[n].maxID /\ inst'[n].acceptedID = inst[n].acceptedID
      /\ inst'[n].acceptedValue = inst[n].acceptedValue
      /\ inst'[n].acceptedValues = inst[n].acceptedValues
  BY DEF SameVoter, SameTally
<1>1. Rises(n) BY <1>0, VoterRises
<1>2. PreparedNode(n, s, R)' BY <1>0, <1>1, PreparedNodeKeeps DEF NodeVotes
<1>3. AcceptorAt(n, s, P2, A2)' BY <1>0, <1>1, AcceptorKeeps DEF NodeVotes
<1>4. LateAt(n, s, Q)' BY <1>0, LateKeeps DEF NodeVotes
<1>5. CountedAt(n, s, P2, A2, G2)' BY <1>0, CountedKeeps DEF NodeVotes
<1>6. DecidedAt(n, s, P2, A2)' BY DecidedKeeps DEF NodeVotes
<1>7. LateAt(n, s, Q2)' BY <1>4 DEF LateAt
<1> QED BY <1>2, <1>3, <1>5, <1>6, <1>7 DEF NodeVotes

\* The calls of a node that starts no phase and counts no promise
LEMMA ProposersKeep ==
  ASSUME TypeOK, TypeOK', \A k \in Nodes : Rises(k), UNCHANGED tag, NEW n \in Nodes,
         NEW s \in Steps, NEW P, NEW A, NEW G, NEW R, NEW A2, Grown(s, P, A, P, A2),
         NEW F, NEW Q, Voting(s, P, A, G, R, F, Q),
         promiseChan'[n][s] = promiseChan[n][s] \/ promiseChan'[n][s] = <<>>,
         step'[n] = s =>
           \/ /\ step[n] = s /\ inst'[n].bestID = inst[n].bestID
              /\ inst'[n].bestValue = inst[n].bestValue
              /\ inst'[n].proposedValue = inst[n].proposedValue
           \/ /\ step[n] < s /\ inst'[n].bestID = 0
              /\ inst'[n].proposedValue = None
  PROVE  \A c \in Calls : Host[c] = n =>
           ProposerAt(c, s, P, A2, F)' /\ BestAt(c, s, P, A2, Q)'
<1> SUFFICES ASSUME NEW c \in Calls, Host[c] = n
             PROVE  ProposerAt(c, s, P, A2, F)' /\ BestAt(c, s, P, A2, Q)'
  OBVIOUS
<1>1. Promising(s, F, Q) /\ ProposerAt(c, s, P, A, F) /\ BestAt(c, s, P, A, Q) BY DEF Voting
<1>2. ProposerAt(c, s, P, A2, F)' BY <1>1, ProposerKeeps
<1>3. BestAt(c, s, P, A2, Q)' BY <1>1, BestKeeps
<1> QED BY <1>2, <1>3

\* A section changes the votes of its own node only.
LEMMA SectionVoting ==
  ASSUME TypeOK, TypeOK', TwoProposers, NEW g \in Goroutines, NEW o \in Nodes, NEW m,
         NEW S \in SUBSET Message, Section(g, o, m, S),
         NEW n \in Nodes, n = NodeOf(g), OthersSame(n), Rises(n),
         \A k \in Nodes \ {n} : blocks'[k] = blocks[k],
         NEW s \in Steps, \A k \in Nodes \ {n} : promiseChan'[k][s] = promiseChan[k][s],
         NEW P, NEW A, NEW G, NEW R, NEW F, NEW Q, Voting(s, P, A, G, R, F, Q),
         NEW A2, NEW G2, NEW F2, NEW Q2, VotesType(P, A2, G2, R), Grown(s, P, A, P, A2),
         \A k \in Nodes \ {n} : G2[k] = G[k] /\ Q2[k] = Q[k],
         \A k \in Nodes \ {n} : \A c \in Calls : k \in A2[c] => k \in A[c],
         F \subseteq F2,
         \A x \in S : x.type \notin {"prepare", "propose"},
         Promising(s, F2, Q2)', NodeVotes(n, s, P, A2, G2, R, Q2)',
         \A k \in Nodes : StaleQueued(n, k, s)',
         \A c \in Calls : Host[c] = n =>
           ProposerAt(c, s, P, A2, F2)' /\ BestAt(c, s, P, A2, Q2)',
         Ballots(s, P, A2, G2, R)'
  PROVE  Voting(s, P, A2, G2, R, F2, Q2)'
<1>0. /\ Promising(s, F, Q) /\ VotesType(P, A, G, R) /\ Ballots(s, P, A, G, R)
      /\ \A k \in Nodes : NodeVotes(k, s, P, A, G, R, Q)
      /\ \A k, p \in Nodes : StaleQueued(k, p, s)
      /\ \A c \in Calls : CallVotes(c, s, P, A, R, F, Q)
  BY VotingParts
<1>1. IsFiniteSet(Calls) /\ AcceptorAtAll(s, P, A)
  BY <1>0, FewCalls DEF NodeVotes, AcceptorAtAll
<1>2. \A k \in Nodes : Rises(k) BY OthersRise
<1>3. /\ Queues(g, S, m) /\ UNCHANGED tag
      /\ \A h \in Goroutines \ {g} : out'[h] = out[h] /\ local'[h] = local[h]
      /\ out'[g] # None => out'[g] \in S
      /\ local'[g] # None => local'[g] \in S
  BY DEF Section, Places
<1>4. ASSUME NEW k \in Nodes PROVE NodeVotes(k, s, P, A2, G2, R, Q2)'
  <2>1. CASE k = n BY <2>1
  <2>2. CASE k # n
    <3>1. k \in Goroutines /\ k # g
      BY <2>2, PopulationAssumption DEF Goroutines, NodeOf
    <3>2. SameNode(k) BY <2>2 DEF OthersSame
    <3>3. step'[k] = step[k] /\ SameVoter(k) /\ SameTally(k) BY <3>2 DEF SameNode
    <3>4. Late(k)' => Late(k) BY <1>3, <3>1, <3>3 DEF Late
    <3> QED BY <1>0, <1>1, <2>2, <3>3, <3>4, NodeVotesKeep
  <2> QED BY <2>1, <2>2
<1>5. ASSUME NEW k \in Nodes, NEW p \in Nodes PROVE StaleQueued(k, p, s)'
  <2>1. CASE k = n BY <2>1
  <2>2. CASE k # n
    <3>1. step'[k] = step[k] /\ inst'[k].maxID = inst[k].maxID
      BY <2>2 DEF OthersSame, SameNode, SameVoter
    <3>2. \A x \in S : ~Stale(x, s) BY DEF Stale
    <3>3. PreparedNode(k, s, R) BY <1>0 DEF NodeVotes
    <3> QED BY <1>0, <1>3, <3>1, <3>2, <3>3, StaleQueuedKeeps
  <2> QED BY <2>1, <2>2
<1>6. ASSUME NEW c \in Calls PROVE CallVotes(c, s, P, A2, R, F2, Q2)'
  <2>0. /\ Host[c] \in Nodes /\ c \in Goroutines
        /\ PreparedCall(c, s, R) /\ StaleHeld(c, s, R)
        /\ ProposerAt(c, s, P, A, F) /\ BestAt(c, s, P, A, Q) /\ PreparedNode(Host[c], s, R)
    BY <1>0, HostType DEF CallVotes, NodeVotes, Goroutines
  <2>1. PreparedCall(c, s, R)' BY <1>2, <1>3, <2>0, PreparedCallKeeps
  <2>2. StaleHeld(c, s, R)'
    <3>1. out'[c] # None => out'[c] = out[c] \/ ~Stale(out'[c], s)
      BY <1>3, <2>0 DEF Stale
    <3>2. local'[c] # None => local'[c] = local[c] \/ ~Stale(local'[c], s)
      BY <1>3, <2>0 DEF Stale
    <3> QED BY <2>0, <3>1, <3>2, StaleHeldKeeps
  <2>3. CASE Host[c] = n BY <2>1, <2>2, <2>3 DEF CallVotes
  <2>4. CASE Host[c] # n
    <3>1. /\ step'[Host[c]] = step[Host[c]] /\ SameProposer(Host[c])
          /\ promiseChan'[Host[c]][s] = promiseChan[Host[c]][s] /\ Q2[Host[c]] = Q[Host[c]]
      BY <2>0, <2>4 DEF OthersSame, SameNode
    <3>2. ProposerAt(c, s, P, A2, F2)' BY <1>2, <1>3, <2>0, <3>1, ProposerKeeps
    <3>3. BestAt(c, s, P, A2, Q)'
      BY <1>0, <1>2, <2>0, <3>1, BestKeeps DEF SameProposer
    <3>4. BestAt(c, s, P, A2, Q2)' BY <3>1, <3>3 DEF BestAt
    <3> QED BY <2>1, <2>2, <3>2, <3>4 DEF CallVotes
  <2> QED BY <2>3, <2>4
<1> QED BY <1>4, <1>5, <1>6 DEF Voting, NodeVotes, CallVotes

-----------------------------------------------------------------------------
(* Each kind of section keeps the votes *)

\* The parts of Voting as the lemmas on a section take them
LEMMA VotingFacts ==
  ASSUME TwoProposers, NEW s, NEW P, NEW A, NEW G, NEW R, NEW F, NEW Q,
         Voting(s, P, A, G, R, F, Q)
  PROVE  /\ Promising(s, F, Q) /\ VotesType(P, A, G, R) /\ Ballots(s, P, A, G, R)
         /\ \A n \in Nodes : NodeVotes(n, s, P, A, G, R, Q) /\ PreparedNode(n, s, R)
         /\ \A n, o \in Nodes : StaleQueued(n, o, s)
         /\ \A c \in Calls : CallVotes(c, s, P, A, R, F, Q)
         /\ IsFiniteSet(Calls) /\ AcceptorAtAll(s, P, A) /\ Grown(s, P, A, P, A)
BY VotingParts, FewCalls, GrownSame DEF NodeVotes, AcceptorAtAll

\* The queues of a node that promises nothing new
LEMMA QueuesKeep ==
  ASSUME TypeOK, TypeOK', TwoProposers, NEW s \in Steps,
         NEW P, NEW A, NEW G, NEW R, NEW F, NEW Q, Voting(s, P, A, G, R, F, Q),
         NEW n \in Nodes, NEW g \in Goroutines, NEW S \in SUBSET Message, NEW m,
         Queues(g, S, m), \A x \in S : ~Stale(x, s),
         step'[n] = s => \/ step[n] = s /\ inst'[n].maxID = inst[n].maxID
                         \/ inst'[n].maxID = 0
  PROVE  \A k \in Nodes : StaleQueued(n, k, s)'
<1> SUFFICES ASSUME NEW k \in Nodes PROVE StaleQueued(n, k, s)' OBVIOUS
<1>1. Ballots(s, P, A, G, R) /\ PreparedNode(n, s, R) /\ StaleQueued(n, k, s) BY VotingFacts
<1>2. FirstID[k] > 0 /\ FirstID[k] \in Nat BY NodeTypes
<1> QED BY <1>1, <1>2, StaleQueuedKeeps

\* The ballots where nobody accepts and no accept is counted
LEMMA BallotsStay ==
  ASSUME TypeOK, TypeOK', TwoProposers, NEW s \in Steps,
         NEW P, NEW A, NEW G, NEW R, NEW F, NEW Q, Voting(s, P, A, G, R, F, Q),
         NEW R2, R \subseteq R2,
         \A k \in Nodes : Rises(k), NEW g \in Goroutines, NEW S \in SUBSET Message, Flows(g, S),
         \A x \in S :
           /\ x.type \notin {"propose", "accept"}
           /\ \A k \in Nodes : Goes(x, k) => Carried(x, k, NodeOf(g), s, P, A, G, R2)'
  PROVE  Ballots(s, P, A, G, R2)'
<1>1. /\ Promising(s, F, Q) /\ Ballots(s, P, A, G, R) /\ Grown(s, P, A, P, A)
      /\ \A n \in Nodes : PreparedNode(n, s, R)
  BY VotingFacts
<1>2. \A x \in S : ~Genuine(x, s) /\ \A c \in Calls : x \notin AcceptsOf(c, s)
  BY DEF Genuine, AcceptsOf
<1> QED BY <1>1, <1>2, BallotsKeep

\* A section after which every node is the same.
LEMMA SameSection ==
  ASSUME TypeOK, NEW g \in Goroutines, \A k \in Nodes : SameNode(k)
  PROVE  LET n == NodeOf(g) IN
         /\ n \in Nodes /\ OthersSame(n) /\ Rises(n) /\ \A k \in Nodes : Rises(k)
         /\ step'[n] = step[n] /\ SameVoter(n) /\ SameTally(n) /\ SameProposer(n)
BY NodeOfType, SameRises DEF OthersSame, SameNode

\* A message that is dropped changes no vote.
LEMMA DroppedVoting ==
  ASSUME TypeOK, TypeOK', TwoProposers, NEW g \in Goroutines, NEW o \in Nodes, NEW m,
         Dropped(g, o, m), NEW s \in Steps,
         NEW P, NEW A, NEW G, NEW R, NEW F, NEW Q, Voting(s, P, A, G, R, F, Q)
  PROVE  Voting(s, P, A, G, R, F, Q)'
<1> PICK n : n = NodeOf(g) OBVIOUS
<1>1. /\ Section(g, o, m, {}) /\ promiseChan' = promiseChan /\ blocks' = blocks
      /\ \A k \in Nodes : SameNode(k)
  BY DEF Dropped
<1>2. /\ Flows(g, {}) /\ Queues(g, {}, m) /\ UNCHANGED tag
      /\ \A h \in Goroutines \ {g} : out'[h] = out[h]
      /\ out'[g] = None
  BY <1>1 DEF Section, Places
<1>3. /\ n \in Nodes /\ OthersSame(n) /\ Rises(n) /\ \A k \in Nodes : Rises(k)
      /\ step'[n] = step[n] /\ SameVoter(n) /\ SameTally(n) /\ SameProposer(n)
  BY <1>1, SameSection
<1>4. /\ Promising(s, F, Q) /\ VotesType(P, A, G, R) /\ Grown(s, P, A, P, A)
      /\ NodeVotes(n, s, P, A, G, R, Q) /\ IsFiniteSet(Calls) /\ AcceptorAtAll(s, P, A)
  BY <1>3, VotingFacts
<1>5. Promising(s, F, Q)' BY <1>4, DroppedPromising
<1>6. Late(n)' => Late(n) BY <1>2, <1>3 DEF Late, Goroutines
<1>7. NodeVotes(n, s, P, A, G, R, Q)' BY <1>1, <1>3, <1>4, <1>6, NodeVotesKeep
<1>8. \A k \in Nodes : StaleQueued(n, k, s)' BY <1>2, <1>3, QueuesKeep DEF SameVoter
<1>9. Ballots(s, P, A, G, R)' BY <1>2, <1>3, BallotsStay
<1>10. \A c \in Calls : Host[c] = n =>
         ProposerAt(c, s, P, A, F)' /\ BestAt(c, s, P, A, Q)'
  BY <1>1, <1>2, <1>3, <1>4, ProposersKeep DEF SameProposer
<1> QED BY <1>1, <1>3, <1>4, <1>5, <1>7, <1>8, <1>9, <1>10, SectionVoting

\* What a node stored for the step s is decided, and so is what is a copy of it.
LEMMA StoredDecided ==
  ASSUME NEW k \in Nodes, NEW s \in Nat, NEW b, Stored(k, s, b),
         NEW P, NEW A, DecidedAt(k, s, P, A)
  PROVE  Threshold <= Cardinality(VotesFor(b.value, P, A))
BY DEF Stored, DecidedAt

\* An accept that makes the threshold makes it of different votes.
LEMMA ThresholdDecides ==
  ASSUME TypeOK, TwoProposers, NEW n \in Nodes, NEW o \in Nodes, NEW m \in Message,
         Going(m, n, o), m.type = "accept", m.step = step[n], m.val \in Value,
         Reached(inst[n].acceptedValues[m.val] + 1),
         NEW s \in Steps, s = step[n],
         NEW P, NEW A, NEW G, NEW R, NEW F, NEW Q, Voting(s, P, A, G, R, F, Q)
  PROVE  Threshold <= Cardinality(VotesFor(m.val, P, A))
<1>1. /\ VotesType(P, A, G, R) /\ Ballots(s, P, A, G, R) /\ CountedAt(n, s, P, A, G)
      /\ IsFiniteSet(Calls)
  BY VotingFacts DEF NodeVotes
<1>2. PICK c \in Calls : o \in A[c] /\ m.val = P[c] /\ <<o, c>> \notin G[n]
  BY <1>1 DEF Ballots, Carried
<1> PICK C : C = CountedFor(n, m.val, P, G) OBVIOUS
<1>3. C \cup {<<o, c>>} \subseteq VotesFor(m.val, P, A)
  BY <1>1, <1>2 DEF CountedFor, CountedAt, VotesType, VotesFor
<1>4. <<o, c>> \notin C BY <1>2 DEF CountedFor
<1>5. IsFiniteSet(VotesFor(m.val, P, A))
  <2>1. IsFiniteSet(Nodes \X Calls) BY <1>1, PopulationAssumption, FS_Product
  <2>2. VotesFor(m.val, P, A) \subseteq Nodes \X Calls BY DEF VotesFor
  <2> QED BY <2>1, <2>2, FS_Subset
<1>6. /\ IsFiniteSet(C)
      /\ Cardinality(C \cup {<<o, c>>}) <= Cardinality(VotesFor(m.val, P, A))
  BY <1>3, <1>5, FS_Subset
<1>7. /\ Cardinality(C \cup {<<o, c>>}) = Cardinality(C) + 1 /\ Cardinality(C) \in Nat
      /\ Cardinality(VotesFor(m.val, P, A)) \in Nat
  BY <1>4, <1>5, <1>6, FS_AddElement, FS_CardinalityType
<1>8. inst[n].acceptedValues[m.val] <= Cardinality(C) BY <1>1 DEF CountedAt
<1>9. inst[n].acceptedValues[m.val] \in Nat
  <2>1. inst[n].acceptedValues \in [Value -> Nat] BY DEF TypeOK, Instance
  <2> QED BY <2>1
<1> QED BY <1>6, <1>7, <1>8, <1>9, ConfigAssumption DEF Reached

\* Whatever ends a step, the blocks stored are of values with a threshold of votes.
LEMMA EndDecided ==
  ASSUME TypeOK, TLCInv, TwoProposers, NEW g \in Goroutines, NEW o \in Nodes, NEW m,
         NEW T, NEW b, StepEnded(g, o, m, T, b), NEW s \in Steps,
         NEW P, NEW A, NEW G, NEW R, NEW F, NEW Q, Voting(s, P, A, G, R, F, Q),
         NEW n \in Nodes, n = NodeOf(g)
  PROVE  DecidedAt(n, s, P, A)'
<1>0. /\ m.step = step[n] /\ step[n] \in OpenSteps
      /\ T \in [OpenSteps -> Seq(Block)] /\ b \in Block
      /\ \/ /\ m.type = "accept" /\ b = NewBlock(n, m.val) /\ T = inst[n].TLCMap
            /\ m.val \in Value /\ Reached(inst[n].acceptedValues[m.val] + 1)
         \/ /\ m.type = "tlc" /\ b = m.block
            /\ T = [inst[n].TLCMap EXCEPT ![m.step] = Append(@, m.block)]
      /\ EndStep(n, T, b)
      /\ m \in Message /\ Going(m, n, o) /\ Taking(g, o, m)
  BY DEF StepEnded, Section
<1>1. /\ LengthInv /\ AnnouncedInv /\ CountedInv /\ LocalInv
  BY DEF TLCInv, StoreInv, TrafficInv
<1>2. /\ Len(blocks'[n]) = step'[n] /\ blocks'[n] \in Seq(Block)
      /\ Grows
      /\ blocks'[n][step[n] + 1] = b
      /\ step'[n] \in Nat
      /\ \A j \in (step[n] + 2)..step'[n] :
           /\ j - 1 \in OpenSteps /\ Threshold \in DOMAIN T[j - 1]
           /\ blocks'[n][j] = T[j - 1][Threshold]
  <2>1. \A j \in Steps : j \in Nat BY ConfigAssumption DEF Steps
  <2> QED BY <1>0, <1>1, <2>1, EndStores
<1>3. \A k \in Nodes : DecidedAt(k, s, P, A) BY VotingFacts DEF NodeVotes
<1>4. step[n] \in Nat /\ s \in Nat /\ Len(blocks[n]) = step[n] /\ blocks[n] \in Seq(Block)
  BY <1>1, NodeTypes, ConfigAssumption DEF LengthInv, Steps, TypeOK
<1> SUFFICES ASSUME s + 1 \in DOMAIN blocks'[n]
             PROVE  Threshold <= Cardinality(VotesFor(blocks'[n][s + 1].value, P, A))
  BY DEF DecidedAt
<1>5. s + 1 \in 1..step'[n] BY <1>2, LenProperties
<1>6. CASE s < step[n]
  <2>1. s + 1 \in DOMAIN blocks[n] BY <1>4, <1>6, LenProperties
  <2>2. blocks'[n][s + 1] = blocks[n][s + 1] BY <1>2, <2>1 DEF Grows
  <2> QED BY <1>3, <2>1, <2>2 DEF DecidedAt
<1>7. CASE s = step[n]
  <2>1. blocks'[n][s + 1] = b BY <1>2, <1>7
  <2>2. CASE m.type = "accept"
    <3>1. b.value = m.val BY <1>0, <2>2 DEF NewBlock
    <3>2. m.val \in Value /\ Reached(inst[n].acceptedValues[m.val] + 1) BY <1>0, <2>2
    <3>3. Threshold <= Cardinality(VotesFor(m.val, P, A))
      BY <1>0, <1>7, <2>2, <3>2, ThresholdDecides
    <3> QED BY <2>1, <3>1, <3>3
  <2>3. CASE m.type = "tlc"
    <3>1. ~(m # None /\ local[g] = m) BY <1>1, <2>3 DEF LocalInv
    <3>2. g \in Nodes /\ inbox[g][o] # <<>> /\ m = Head(inbox[g][o]) BY <1>0, <3>1 DEF Taking
    <3>3. g = n BY <3>2, PopulationAssumption DEF NodeOf
    <3>4. m \in TLCs(inbox[n][o])
      <4>1. inbox[n][o] \in Seq(Message) BY DEF TypeOK
      <4>2. 1 \in DOMAIN inbox[n][o] /\ m = inbox[n][o][1] BY <3>2, <3>3, <4>1, TailOne
      <4> QED BY <2>3, <4>2 DEF TLCs
    <3>5. Stored(o, s, b) BY <1>0, <1>1, <1>7, <2>3, <3>4 DEF AnnouncedInv
    <3> QED BY <1>3, <1>4, <2>1, <3>5, StoredDecided
  <2> QED BY <1>0, <2>2, <2>3
<1>8. CASE s > step[n]
  <2>1. s + 1 \in (step[n] + 2)..step'[n] BY <1>2, <1>4, <1>5, <1>8
  <2>2. s \in OpenSteps /\ Threshold \in DOMAIN T[s] /\ blocks'[n][s + 1] = T[s][Threshold]
    BY <1>2, <1>4, <2>1
  <2>3. T[s] = inst[n].TLCMap[s]
    <3>1. inst[n].TLCMap \in [OpenSteps -> Seq(Block)] BY DEF TypeOK, Instance
    <3>2. m.step # s BY <1>0, <1>4, <1>8
    <3>3. T = inst[n].TLCMap
            \/ T = [inst[n].TLCMap EXCEPT ![m.step] = Append(@, m.block)]
      BY <1>0
    <3> QED BY <2>2, <3>1, <3>2, <3>3
  <2>4. PICK k \in Nodes : Stored(k, s, T[s][Threshold]) BY <1>1, <2>2, <2>3 DEF CountedInv
  <2> QED BY <1>3, <1>4, <2>2, <2>4, StoredDecided
<1> QED BY <1>4, <1>6, <1>7, <1>8

\* A step that ends changes no vote: it is decided, and what is reset starts afresh.
LEMMA StepEndedVoting ==
  ASSUME TypeOK, TypeOK', TLCInv, TwoProposers, NEW g \in Goroutines, NEW o \in Nodes, NEW m,
         NEW T, NEW b, StepEnded(g, o, m, T, b), NEW s \in Steps,
         NEW P, NEW A, NEW G, NEW R, NEW F, NEW Q, Voting(s, P, A, G, R, F, Q)
  PROVE  Voting(s, P, A, G, R, F, Q)'
<1> PICK n : n = NodeOf(g) OBVIOUS
<1>0. n \in Nodes BY NodeOfType
<1>1. /\ EndStep(n, T, b) /\ inst'[n] = Cleared(n) /\ promiseChan' = promiseChan
      /\ OthersSame(n) /\ step'[n] > step[n]
  BY DEF StepEnded
<1> PICK t \in Message : t.type = "tlc" /\ Section(g, o, m, {t}) BY DEF StepEnded
<1>2. /\ Flows(g, {t}) /\ Queues(g, {t}, m) /\ UNCHANGED tag
      /\ \A h \in Goroutines \ {g} : out'[h] = out[h]
      /\ out'[g] # None => out'[g] = t
  BY DEF Section, Places
<1>3. /\ inst'[n].maxID = 0 /\ inst'[n].acceptedID = 0 /\ inst'[n].acceptedValue = None
      /\ inst'[n].bestID = 0 /\ inst'[n].proposedValue = None
      /\ \A v \in Value : inst'[n].acceptedValues[v] = 0
  BY <1>1 DEF Cleared
<1>4. Rises(n) BY <1>1 DEF Rises
<1>5. \A k \in Nodes : Rises(k) BY <1>0, <1>1, <1>4, OthersRise
<1>6. step[n] \in Nat /\ step'[n] \in Nat /\ s \in Nat
  BY <1>0, StepTypes, ConfigAssumption DEF Steps
<1>7. step'[n] = s => step[n] < s BY <1>1, <1>6
<1>8. \A k \in Nodes \ {n} : blocks'[k] = blocks[k]
  BY <1>0, <1>1 DEF EndStep, TypeOK
<1>9. /\ Promising(s, F, Q) /\ VotesType(P, A, G, R) /\ Grown(s, P, A, P, A)
      /\ NodeVotes(n, s, P, A, G, R, Q) /\ IsFiniteSet(Calls) /\ AcceptorAtAll(s, P, A)
  BY <1>0, VotingFacts
<1>10. Promising(s, F, Q)' BY <1>9, StepEndedPromising
<1>11. NodeVotes(n, s, P, A, G, R, Q)'
  <2>1. PreparedNode(n, s, R)' BY <1>0, <1>3, <1>4, <1>9, PreparedNodeKeeps DEF NodeVotes
  <2>2. AcceptorAt(n, s, P, A)' BY <1>0, <1>3, <1>4, <1>7, <1>9, AcceptorKeeps DEF NodeVotes
  <2>3. LateAt(n, s, Q)' BY <1>0, <1>3, <1>7, <1>9, LateKeeps DEF NodeVotes
  <2>4. CountedAt(n, s, P, A, G)' BY <1>0, <1>3, <1>9, CountedKeeps DEF NodeVotes
  <2>5. DecidedAt(n, s, P, A)' BY <1>0, EndDecided
  <2> QED BY <2>1, <2>2, <2>3, <2>4, <2>5 DEF NodeVotes
<1>12. \A k \in Nodes : StaleQueued(n, k, s)'
  <2>1. ~Stale(t, s) BY DEF Stale
  <2> QED BY <1>0, <1>2, <1>3, <2>1, QueuesKeep
<1>13. Ballots(s, P, A, G, R)'
  <2>1. \A k : Carried(t, k, n, s, P, A, G, R)' BY DEF Carried, Genuine, IsPrepare
  <2> QED BY <1>2, <1>5, <2>1, BallotsStay
<1>14. \A c \in Calls : Host[c] = n =>
         ProposerAt(c, s, P, A, F)' /\ BestAt(c, s, P, A, Q)'
  BY <1>0, <1>1, <1>2, <1>3, <1>5, <1>7, <1>9, ProposersKeep
<1> QED BY <1>0, <1>1, <1>4, <1>8, <1>9, <1>10, <1>11, <1>12, <1>13, <1>14, SectionVoting

\* A goroutine that is a call takes its messages from its own node.
LEMMA CallTakes ==
  ASSUME NEW g \in Goroutines, NEW o, NEW m, NEW S, Section(g, o, m, S)
  PROVE  \/ m # None /\ local[g] = m /\ o = NodeOf(g)
         \/ /\ g \in Nodes /\ NodeOf(g) = g /\ o # g /\ local[g] = None
            /\ inbox[g][o] # <<>> /\ m = Head(inbox[g][o])
            /\ inbox'[g][o] = Tail(inbox[g][o])
BY PopulationAssumption DEF Section, Taking, NodeOf

\* Two calls never have the same host.
LEMMA OneCall ==
  ASSUME TwoProposers, NEW c \in Calls, NEW d \in Calls, IdOf(c) = IdOf(d) \/ Host[c] = Host[d]
  PROVE  c = d
BY DEF TwoProposers, IdOf

\* The queues of a node that promises a new ID: the prepare it takes comes before the
\* proposals of its sender.
LEMMA PromiseQueues ==
  ASSUME TypeOK, TypeOK', TwoProposers, NEW g \in Goroutines, NEW o \in Nodes, NEW m,
         PromiseMade(g, o, m), NEW s \in Steps, s = step[NodeOf(g)],
         NEW P, NEW A, NEW G, NEW R, NEW F, NEW Q, Voting(s, P, A, G, R, F, Q),
         Alone, NEW n \in Nodes, n = NodeOf(g), m.id = FirstID[o], NEW k \in Nodes
  PROVE  StaleQueued(n, k, s)'
<1> DEFINE p == PromiseFor(n, m)
<1>0. /\ m.type = "prepare" /\ m.step = s /\ m \in Message /\ Going(m, n, o)
      /\ p \in Message /\ p.type = "promise"
      /\ Section(g, o, m, {p}) /\ Flows(g, {p}) /\ Queues(g, {p}, m) /\ Alone'
      /\ inst'[n].maxID = m.id
  BY DEF PromiseMade, Section, PromiseFor
<1> HIDE DEF p
<1>1. /\ Ballots(s, P, A, G, R) /\ PreparedNode(n, s, R) /\ StaleQueued(n, k, s)
  BY VotingFacts
<1>2. PICK c \in Calls : Host[c] = o BY <1>0, <1>1 DEF Ballots, Carried
<1>3. ASSUME NEW j \in DOMAIN inbox'[n][k], Stale(inbox'[n][k][j], s)
      PROVE  m.id # FirstID[k]
  <2> PICK x : x = inbox'[n][k][j] OBVIOUS
  <2>0. inbox'[n][k] \in Seq(Message) /\ x \in Message
    <3>1. inbox'[n][k] \in Seq(Message) BY DEF TypeOK
    <3> QED BY <3>1, ElementOfSeq
  <2>1. Going(x, n, k)' BY DEF Going, GoingIn
  <2>2. Going(x, n, k) BY <1>0, <1>3, <2>0, <2>1 DEF Flows, Stale
  <2>3. PICK d \in Calls : Host[d] = k
    BY <1>1, <1>3, <2>0, <2>2 DEF Ballots, Carried, Stale
  <2>4. CASE k # o
    <3>1. IdOf(c) # IdOf(d) BY <1>2, <2>3, <2>4, OneCall
    <3> QED BY <1>2, <2>3, <3>1 DEF IdOf
  <2>5. CASE k = o
    <3>1. CASE o = n
      <4>1. DOMAIN inbox'[n][k] = {} BY <1>0, <2>5, <3>1 DEF Alone
      <4> QED BY <4>1
    <3>2. CASE o # n
      <4>1. /\ inbox[n][o] # <<>> /\ m = Head(inbox[n][o])
            /\ inbox'[n][o] = Tail(inbox[n][o])
        BY <1>0, <3>2, CallTakes
      <4> DEFINE q == inbox[n][o]
      <4>2. q \in Seq(Message) BY DEF TypeOK
      <4>3. j + 1 \in DOMAIN q /\ Tail(q)[j] = q[j + 1] /\ 1 \in DOMAIN q /\ m = q[1]
        BY <2>5, <4>1, <4>2, TailOne
      <4>4. DOMAIN q = 1..Len(q) /\ Len(q) \in Nat BY <4>2, LenProperties
      <4>5. Stale(q[j + 1], s) BY <1>3, <2>5, <4>1, <4>3
      <4>6. \A i \in 1..(j + 1) : ~IsPrepare(q[i], s)
        BY <1>1, <2>5, <4>3, <4>5 DEF StaleQueued
      <4> HIDE DEF q
      <4>7. 1 \in 1..(j + 1) BY <4>3, <4>4
      <4> QED BY <1>0, <4>3, <4>6, <4>7 DEF IsPrepare
    <3> QED BY <3>1, <3>2
  <2> QED BY <2>4, <2>5
<1>4. ~Stale(p, s) BY <1>0 DEF Stale
<1>5. \A j \in DOMAIN inbox'[n][k] :
        /\ Stale(inbox'[n][k][j], s)
        /\ ~(step[n] = s /\ inst[n].maxID = FirstID[k])
        => ~(step'[n] = s /\ inst'[n].maxID = FirstID[k])
  BY <1>0, <1>3
<1>6. {p} \in SUBSET Message BY <1>0
<1>7. \A x \in {p} : Stale(x, s) => NodeOf(g) \notin R /\ \E d \in Calls : Host[d] = NodeOf(g)
  BY <1>4
<1> QED BY <1>0, <1>1, <1>5, <1>6, <1>7, StaleQueuedKeeps

\* A promise reports what its voter has accepted, and changes no vote.
LEMMA PromiseMadeVoting ==
  ASSUME TypeOK, TypeOK', Alone, TwoProposers, NEW g \in Goroutines, NEW o \in Nodes, NEW m,
         PromiseMade(g, o, m), NEW s \in Steps,
         NEW P, NEW A, NEW G, NEW R, NEW F, NEW Q, Voting(s, P, A, G, R, F, Q)
  PROVE  Voting(s, P, A, G, R, F, Q)'
<1> PICK n : n = NodeOf(g) OBVIOUS
<1> PICK p : p = PromiseFor(n, m) OBVIOUS
<1>0. n \in Nodes BY NodeOfType
<1>1. /\ m.type = "prepare" /\ m.step = step[n] /\ m.id > inst[n].maxID
      /\ Section(g, o, m, {p}) /\ p \in Message
      /\ OthersSame(n) /\ step'[n] = step[n] /\ SameProposer(n) /\ SameTally(n)
      /\ inst'[n].maxID = m.id
      /\ inst'[n].acceptedID = inst[n].acceptedID
      /\ inst'[n].acceptedValue = inst[n].acceptedValue
      /\ promiseChan' = promiseChan /\ blocks' = blocks
  BY DEF PromiseMade
<1>2. /\ m \in Message /\ Going(m, n, o)
      /\ Flows(g, {p}) /\ Queues(g, {p}, m) /\ UNCHANGED tag
      /\ \A h \in Goroutines \ {g} : out'[h] = out[h]
      /\ out'[g] # None => out'[g] = p
  BY <1>1 DEF Section, Places
<1>3. /\ p.type = "promise" /\ p.step = step[n] /\ p.id = m.id /\ p.dest = m.src
      /\ p.accID = inst[n].acceptedID /\ p.accVal = inst[n].acceptedValue
  BY DEF PromiseFor
<1>4. /\ Promising(s, F, Q) /\ VotesType(P, A, G, R) /\ Grown(s, P, A, P, A)
      /\ NodeVotes(n, s, P, A, G, R, Q) /\ IsFiniteSet(Calls) /\ AcceptorAtAll(s, P, A)
      /\ Ballots(s, P, A, G, R)
  BY <1>0, VotingFacts
<1>5. m.src = o /\ m.id = FirstID[o] /\ m.id \in Nat
  BY <1>0, <1>1, <1>2, <1>4, NodeTypes DEF Promising, PromiseTraffic
<1>6. Rises(n)
  <2>1. inst[n].maxID \in Nat BY <1>0, NodeTypes
  <2> QED BY <1>1, <1>5, <2>1 DEF Rises
<1>7. \A k \in Nodes : Rises(k) BY <1>0, <1>1, <1>6, OthersRise
<1>8. (o \in R \/ m.step # s) /\ \E c \in Calls : Host[c] = o
  BY <1>0, <1>1, <1>2, <1>4 DEF Ballots, Carried, IsPrepare
<1>9. Promising(s, F, Q)' BY <1>4, PromiseMadePromising
<1>10. NodeVotes(n, s, P, A, G, R, Q)'
  <2>1. PreparedNode(n, s, R)'
    <3>1. PreparedNode(n, s, R) BY <1>4 DEF NodeVotes
    <3>2. ASSUME NEW c \in Calls, step'[n] = s, inst'[n].maxID = IdOf(c)
          PROVE  Host[c] \in R
      <4>1. PICK d \in Calls : Host[d] = o BY <1>8
      <4>2. IdOf(c) = IdOf(d) BY <1>1, <1>5, <3>2, <4>1 DEF IdOf
      <4>3. c = d BY <4>2, OneCall
      <4> QED BY <1>1, <1>8, <3>2, <4>1, <4>3
    <3> QED BY <1>1, <3>1, <3>2 DEF PreparedNode, IdOf
  <2>2. AcceptorAt(n, s, P, A)' BY <1>0, <1>1, <1>4, <1>6, AcceptorKeeps DEF NodeVotes
  <2>3. Late(n)' => Late(n)
    <3>1. step[n] \in Nat BY <1>0, NodeTypes
    <3> QED BY <1>0, <1>1, <1>2, <1>3, <3>1 DEF Late, Goroutines
  <2>4. LateAt(n, s, Q)' BY <1>0, <1>1, <1>4, <2>3, LateKeeps DEF NodeVotes
  <2>5. CountedAt(n, s, P, A, G)'
    BY <1>0, <1>1, <1>4, CountedKeeps DEF NodeVotes, SameTally
  <2>6. DecidedAt(n, s, P, A)' BY <1>0, <1>1, <1>4, DecidedKeeps DEF NodeVotes
  <2> QED BY <2>1, <2>2, <2>4, <2>5, <2>6 DEF NodeVotes
<1>11. \A k \in Nodes : StaleQueued(n, k, s)'
  <2>1. CASE s = step[n] BY <1>0, <1>5, <2>1, PromiseQueues
  <2>2. CASE s # step[n]
    <3>1. ~Stale(p, s) BY <1>3 DEF Stale
    <3> QED BY <1>0, <1>1, <1>2, <2>2, <3>1, QueuesKeep
  <2> QED BY <2>1, <2>2
<1>12. Ballots(s, P, A, G, R)'
  <2>1. ASSUME NEW k \in Nodes, Goes(p, k) PROVE Carried(p, k, n, s, P, A, G, R)'
    <3>1. k = o BY <1>3, <1>5, <2>1 DEF Goes
    <3>2. ASSUME p.step = s PROVE o \in R /\ Reports(p, n, P, A)
      <4>1. o \in R BY <1>1, <1>3, <1>8, <3>2
      <4>2. AcceptorAt(n, s, P, A) /\ step[n] = s BY <1>3, <1>4, <3>2 DEF NodeVotes
      <4>3. CASE inst[n].acceptedID = 0 BY <1>3, <4>1, <4>2, <4>3 DEF AcceptorAt, Reports
      <4>4. CASE inst[n].acceptedID # 0
        <5>1. PICK d \in Calls : /\ inst[n].acceptedID = IdOf(d) /\ n \in A[d]
                                 /\ inst[n].acceptedValue = P[d]
          BY <4>2, <4>4 DEF AcceptorAt
        <5>2. IdOf(d) <= inst[n].maxID BY <4>2, <5>1 DEF AcceptorAt
        <5>3. IdOf(d) \in Nat /\ inst[n].maxID \in Nat BY <1>0, IdTypes, NodeTypes
        <5>4. IdOf(d) < p.id BY <1>1, <1>3, <1>5, <5>2, <5>3
        <5> QED BY <1>3, <4>1, <4>4, <5>1, <5>4 DEF Reports
      <4> QED BY <4>1, <4>3, <4>4
    <3> QED BY <1>3, <3>1, <3>2 DEF Carried, IsPrepare, Genuine, Reports, IdOf
  <2> QED BY <1>1, <1>2, <1>3, <1>7, <2>1, BallotsStay
<1>13. \A c \in Calls : Host[c] = n =>
         ProposerAt(c, s, P, A, F)' /\ BestAt(c, s, P, A, Q)'
  BY <1>0, <1>1, <1>2, <1>4, <1>7, ProposersKeep DEF SameProposer
<1> QED BY <1>0, <1>1, <1>3, <1>4, <1>6, <1>9, <1>10, <1>11, <1>12, <1>13, SectionVoting

\* An accept that is counted is one that its voter has given and that was not counted.
LEMMA AcceptCountedVoting ==
  ASSUME TypeOK, TypeOK', TwoProposers, NEW g \in Goroutines, NEW o \in Nodes, NEW m,
         AcceptCounted(g, o, m), NEW s \in Steps,
         NEW P, NEW A, NEW G, NEW R, NEW F, NEW Q, Voting(s, P, A, G, R, F, Q)
  PROVE  \E G2 : Voting(s, P, A, G2, R, F, Q)'
<1> PICK n : n = NodeOf(g) OBVIOUS
<1>0. n \in Nodes BY NodeOfType
<1>1. /\ m.type = "accept" /\ m.step = step[n] /\ m.val \in Value
      /\ Section(g, o, m, {})
      /\ OthersSame(n) /\ step'[n] = step[n] /\ SameVoter(n) /\ SameProposer(n)
      /\ inst'[n].acceptedValues =
           [inst[n].acceptedValues EXCEPT ![m.val] = inst[n].acceptedValues[m.val] + 1]
      /\ promiseChan' = promiseChan /\ blocks' = blocks
  BY DEF AcceptCounted
<1>2. /\ m \in Message /\ Going(m, n, o) /\ Gone(m, n, o, {})
      /\ Flows(g, {}) /\ Queues(g, {}, m) /\ UNCHANGED tag
      /\ \A h \in Goroutines \ {g} : out'[h] = out[h]
      /\ out'[g] = None
  BY <1>1 DEF Section, Places
<1>3. /\ Promising(s, F, Q) /\ VotesType(P, A, G, R) /\ Grown(s, P, A, P, A)
      /\ NodeVotes(n, s, P, A, G, R, Q) /\ IsFiniteSet(Calls) /\ AcceptorAtAll(s, P, A)
      /\ Ballots(s, P, A, G, R)
      /\ \A k \in Nodes : PreparedNode(k, s, R)
  BY <1>0, VotingFacts
<1>4. Rises(n) /\ \A k \in Nodes : Rises(k)
  BY <1>0, <1>1, OthersRise, VoterRises DEF SameVoter
<1>5. Promising(s, F, Q)' BY <1>3, AcceptedPromising
<1>6. PreparedNode(n, s, R)'
  BY <1>0, <1>1, <1>3, <1>4, PreparedNodeKeeps DEF NodeVotes, SameVoter
<1>7. AcceptorAt(n, s, P, A)'
  BY <1>0, <1>1, <1>3, <1>4, AcceptorKeeps DEF NodeVotes, SameVoter
<1>8. LateAt(n, s, Q)'
  <2>1. Late(n)' => Late(n) BY <1>0, <1>1, <1>2 DEF Late, Goroutines
  <2> QED BY <1>0, <1>1, <1>3, <2>1, LateKeeps DEF NodeVotes, SameVoter
<1>9. DecidedAt(n, s, P, A)' BY <1>0, <1>1, <1>3, DecidedKeeps DEF NodeVotes
<1>10. \A k \in Nodes : StaleQueued(n, k, s)' BY <1>0, <1>1, <1>2, QueuesKeep DEF SameVoter
<1>11. \A c \in Calls : Host[c] = n =>
         ProposerAt(c, s, P, A, F)' /\ BestAt(c, s, P, A, Q)'
  BY <1>0, <1>1, <1>2, <1>3, <1>4, ProposersKeep DEF SameProposer
<1>12. CASE s # step[n]
  <2>1. CountedAt(n, s, P, A, G)'
    BY <1>0, <1>1, <1>3, <1>12, CountedKeeps DEF NodeVotes
  <2>2. NodeVotes(n, s, P, A, G, R, Q)' BY <1>6, <1>7, <1>8, <1>9, <2>1 DEF NodeVotes
  <2>3. Ballots(s, P, A, G, R)' BY <1>2, <1>4, BallotsStay
  <2>4. Voting(s, P, A, G, R, F, Q)'
    BY <1>0, <1>1, <1>3, <1>4, <1>5, <1>10, <1>11, <2>2, <2>3, SectionVoting
  <2> QED BY <2>4
<1>13. CASE s = step[n]
  <2>1. PICK c \in Calls : m.id = IdOf(c) /\ o \in A[c] /\ m.val = P[c] /\ <<o, c>> \notin G[n]
    BY <1>0, <1>1, <1>2, <1>3, <1>13 DEF Ballots, Carried
  <2>9. PICK G2 : G2 = [G EXCEPT ![n] = G[n] \cup {<<o, c>>}] OBVIOUS
  <2>2. /\ G2[n] = G[n] \cup {<<o, c>>} /\ \A k \in Nodes \ {n} : G2[k] = G[k]
        /\ VotesType(P, A, G2, R) /\ G[n] \subseteq Nodes \X Calls
    BY <1>0, <1>3, <2>9 DEF VotesType
  <2>3. CountedAt(n, s, P, A, G2)'
    <3>1. CountedAt(n, s, P, A, G) BY <1>3 DEF NodeVotes
    <3>2. \A u \in G2[n] : u[1] \in A[u[2]] BY <2>1, <2>2, <3>1 DEF CountedAt
    <3>3. ASSUME NEW v \in Value
          PROVE  inst'[n].acceptedValues[v] <= Cardinality(CountedFor(n, v, P, G2))
      <4>1. inst[n].acceptedValues \in [Value -> Nat] BY <1>0 DEF TypeOK, Instance
      <4>2. /\ IsFiniteSet(CountedFor(n, v, P, G)) /\ IsFiniteSet(CountedFor(n, v, P, G2))
            /\ Cardinality(CountedFor(n, v, P, G)) \in Nat
            /\ CountedFor(n, v, P, G) \subseteq CountedFor(n, v, P, G2)
            /\ Cardinality(CountedFor(n, v, P, G2)) \in Nat
        <5>1. IsFiniteSet(Nodes \X Calls) BY <1>3, PopulationAssumption, FS_Product
        <5>2. /\ CountedFor(n, v, P, G2) \subseteq Nodes \X Calls
              /\ CountedFor(n, v, P, G) \subseteq CountedFor(n, v, P, G2)
          BY <1>0, <2>2 DEF CountedFor
        <5> QED BY <5>1, <5>2, FS_Subset, FS_CardinalityType
      <4>3. inst[n].acceptedValues[v] <= Cardinality(CountedFor(n, v, P, G))
        BY <1>13, <3>1 DEF CountedAt
      <4>4. CASE v = m.val
        <5>1. inst'[n].acceptedValues[v] = inst[n].acceptedValues[v] + 1
          BY <1>1, <4>1, <4>4
        <5>2. /\ CountedFor(n, v, P, G2) = CountedFor(n, v, P, G) \cup {<<o, c>>}
              /\ <<o, c>> \notin CountedFor(n, v, P, G)
          BY <2>1, <2>2, <4>4 DEF CountedFor
        <5>3. Cardinality(CountedFor(n, v, P, G2)) = Cardinality(CountedFor(n, v, P, G)) + 1
          BY <4>2, <5>2, FS_AddElement
        <5>4. inst[n].acceptedValues[v] \in Nat BY <4>1
        <5> QED BY <4>2, <4>3, <5>1, <5>3, <5>4
      <4>5. CASE v # m.val
        <5>1. inst'[n].acceptedValues[v] = inst[n].acceptedValues[v]
          BY <1>1, <4>1, <4>5
        <5>2. Cardinality(CountedFor(n, v, P, G)) <= Cardinality(CountedFor(n, v, P, G2))
          BY <4>2, FS_Subset
        <5>3. inst[n].acceptedValues[v] \in Nat BY <4>1
        <5> QED BY <4>2, <4>3, <5>1, <5>2, <5>3
      <4> QED BY <4>4, <4>5
    <3> QED BY <3>2, <3>3 DEF CountedAt, CountedFor
  <2>4. NodeVotes(n, s, P, A, G2, R, Q)' BY <1>6, <1>7, <1>8, <1>9, <2>3 DEF NodeVotes
  <2>5. AcceptsOf(c, s) \in SUBSET Message /\ m \in AcceptsOf(c, s)
    BY <1>1, <1>2, <1>13, <2>1 DEF AcceptsOf
  <2>6. \A x \in AcceptsOf(c, s) : ~Going(x, n, o)'
    BY <1>0, <1>2, <1>3, <2>5 DEF Gone, Ballots
  <2>7. Ballots(s, P, A, G2, R)'
    <3>1. ASSUME NEW k \in Nodes, NEW p \in Nodes, NEW x \in Message, Going(x, k, p)',
                 x.type = "accept", x.step = s, NEW d \in Calls, x.id = IdOf(d),
                 <<p, d>> \in G2[k]
          PROVE  <<p, d>> \in G[k]
      <4>1. CASE k = n /\ p = o /\ d = c
        <5>1. x \in AcceptsOf(c, s) BY <3>1, <4>1 DEF AcceptsOf
        <5> QED BY <2>6, <3>1, <4>1, <5>1
      <4>2. CASE ~(k = n /\ p = o /\ d = c) BY <2>2, <3>1, <4>2
      <4> QED BY <4>1, <4>2
    <3>2. \A k, p \in Nodes : \A x \in Message : Going(x, k, p)' =>
            /\ Genuine(x, s) => \A d \in Calls : Host[d] = p /\ k \in A[d] => k \in A[d]
            /\ x.type = "accept" /\ x.step = s =>
                 \A d \in Calls : x.id = IdOf(d) /\ <<p, d>> \in G2[k] => <<p, d>> \in G[k]
      BY <3>1
    <3>3. \A k \in Nodes : Rises(k) /\ PreparedNode(k, s, R) BY <1>3, <1>4
    <3> PICK E : E = {} OBVIOUS
    <3>4. E \in SUBSET Message /\ Flows(g, E) BY <1>2
    <3>5. \A x \in E : \A k \in Nodes : Goes(x, k) =>
            /\ Carried(x, k, NodeOf(g), s, P, A, G2, R)'
            /\ Genuine(x, s) => \A y \in Proposals(s) : ~Going(y, k, NodeOf(g))
            /\ \A d \in Calls : x \in AcceptsOf(d, s) =>
                 \A y \in AcceptsOf(d, s) : ~Going(y, k, NodeOf(g))
      OBVIOUS
    <3>6. R \subseteq R OBVIOUS
    <3>7. Grown(s, P, A, P, A) /\ Promising(s, F, Q) /\ Ballots(s, P, A, G, R) BY <1>3
    <3> QED BY <3>2, <3>3, <3>4, <3>5, <3>6, <3>7, BallotsKeep
  <2>8. Voting(s, P, A, G2, R, F, Q)'
    <3>1. /\ \A k \in Nodes \ {n} : blocks'[k] = blocks[k]
          /\ \A k \in Nodes \ {n} : promiseChan'[k][s] = promiseChan[k][s]
      BY <1>1
    <3>2. \A k \in Nodes \ {n} : G2[k] = G[k] /\ Q[k] = Q[k] BY <2>2
    <3>3. \A k \in Nodes \ {n} : \A d \in Calls : k \in A[d] => k \in A[d] OBVIOUS
    <3>0. PICK E : E = {} OBVIOUS
    <3>4. \A x \in E : x.type \notin {"prepare", "propose"} BY <3>0
    <3>5. E \in SUBSET Message /\ Section(g, o, m, E) /\ F \subseteq F BY <1>1, <3>0
    <3>6. OthersSame(n) /\ Rises(n) /\ Grown(s, P, A, P, A) /\ VotesType(P, A, G2, R)
      BY <1>1, <1>3, <1>4, <2>2
    <3>7. Promising(s, F, Q)' BY <1>5
    <3>8. NodeVotes(n, s, P, A, G2, R, Q)' BY <2>4
    <3>9. \A k \in Nodes : StaleQueued(n, k, s)' BY <1>10
    <3>10. \A d \in Calls : Host[d] = n =>
           ProposerAt(d, s, P, A, F)' /\ BestAt(d, s, P, A, Q)' BY <1>11
    <3>11. Ballots(s, P, A, G2, R)' BY <2>7
    <3> HIDE DEF Voting
    <3> QED BY <1>0, <3>7, <3>8, <3>9, <3>10, <3>11,
               <3>1, <3>2, <3>3, <3>4, <3>5, <3>6, SectionVoting
  <2> QED BY <2>8
<1> QED BY <1>12, <1>13

\* A proposal that is accepted is one that its call has made for this step.
LEMMA AcceptedGenuine ==
  ASSUME TypeOK, Roles, TwoProposers, NEW g \in Goroutines, NEW o \in Nodes, NEW m,
         Accepted(g, o, m), NEW n \in Nodes, n = NodeOf(g), NEW s \in Steps, s = step[n],
         NEW P, NEW A, NEW G, NEW R, NEW F, NEW Q, Voting(s, P, A, G, R, F, Q)
  PROVE  \E c \in Calls : /\ Host[c] = o /\ m.id = IdOf(c) /\ m.val = P[c] /\ n \notin A[c]
                          /\ P[c] # None
<1>1. /\ m.type = "propose" /\ m.step = s /\ m.id = inst[n].maxID
      /\ m \in Message /\ Going(m, n, o)
      /\ Section(g, o, m, {AcceptOf(n, m)})
  BY DEF Accepted, Section
<1>2. /\ Ballots(s, P, A, G, R) /\ PreparedNode(n, s, R) /\ StaleQueued(n, o, s)
      /\ \A d \in Calls : StaleHeld(d, s, R)
  BY VotingFacts DEF CallVotes
<1>3. Carried(m, n, o, s, P, A, G, R) BY <1>1, <1>2 DEF Ballots
<1>4. PICK c \in Calls : Host[c] = o BY <1>1, <1>3 DEF Carried
<1>5. m.id = FirstID[o] /\ FirstID[o] = IdOf(c) BY <1>1, <1>3, <1>4 DEF Carried, IdOf
<1>6. ~Stale(m, s)
  <2> SUFFICES ASSUME Stale(m, s) PROVE FALSE OBVIOUS
  <2>1. CASE m # None /\ local[g] = m /\ o = n
    <3>1. g \notin Nodes BY <1>1, <2>1 DEF Roles
    <3>2. g \in Calls /\ Host[g] = n BY <3>1 DEF Goroutines, NodeOf
    <3>3. n \notin R BY <1>2, <2>1, <3>2 DEF StaleHeld
    <3>4. IdOf(g) = FirstID[o] BY <2>1, <3>2 DEF IdOf
    <3>5. step[n] = s /\ inst[n].maxID = IdOf(g) BY <1>1, <1>5, <3>4
    <3> QED BY <1>2, <3>2, <3>3, <3>5 DEF PreparedNode
  <2>2. CASE g \in Nodes /\ n = g /\ inbox[g][o] # <<>> /\ m = Head(inbox[g][o])
    <3>1. inbox[n][o] \in Seq(Message) BY DEF TypeOK
    <3>2. 1 \in DOMAIN inbox[n][o] /\ m = inbox[n][o][1] BY <2>2, <3>1, TailOne
    <3>3. ~(step[n] = s /\ inst[n].maxID = FirstID[o]) BY <1>2, <3>2 DEF StaleQueued
    <3> QED BY <1>1, <1>5, <3>3
  <2> QED BY <1>1, <2>1, <2>2, CallTakes
<1>7. Genuine(m, s) BY <1>1, <1>6 DEF Stale, Genuine
<1>8. m.val = P[c] /\ n \notin A[c] BY <1>3, <1>4, <1>7 DEF Carried
<1>9. m.val # None BY <1>1, MessageCases, ValueAssumption DEF ProposeMsg
<1> QED BY <1>4, <1>5, <1>8, <1>9

\* A node that accepts has no promise that is late.
LEMMA AcceptedLate ==
  ASSUME TypeOK, Roles, Majority, TwoProposers, NEW g \in Goroutines, NEW o \in Nodes, NEW m,
         Accepted(g, o, m), NEW n \in Nodes, n = NodeOf(g), NEW s \in Steps, s = step[n],
         NEW P, NEW A, NEW G, NEW R, NEW F, NEW Q, Voting(s, P, A, G, R, F, Q)
  PROVE  ~Late(n)'
<1> SUFFICES ASSUME Late(n)' PROVE FALSE OBVIOUS
<1>1. /\ Section(g, o, m, {AcceptOf(n, m)}) /\ step'[n] = step[n]
      /\ \A h \in Goroutines \ {g} : out'[h] = out[h]
      /\ out'[g] # None => out'[g] = AcceptOf(n, m)
  BY DEF Accepted, Section, Places
<1>2. n \in Goroutines BY DEF Goroutines
<1>3. g # n BY <1>1 DEF Late, AcceptOf
<1>4. out'[n] = out[n] /\ Late(n) BY <1>1, <1>2, <1>3 DEF Late
<1>5. o = n BY <1>1, <1>3, CallTakes
<1>6. PICK c \in Calls : Host[c] = n /\ P[c] # None BY <1>5, AcceptedGenuine
<1>7. LateAt(n, s, Q) /\ Promising(s, F, Q) /\ ProposerAt(c, s, P, A, F)
  BY VotingFacts DEF NodeVotes, CallVotes
<1>8. Q[n] \subseteq {n} BY <1>4, <1>7 DEF LateAt
<1>9. n \in F BY <1>6, <1>7 DEF ProposerAt
<1>10. Threshold <= Cardinality(Q[n]) BY <1>7, <1>9 DEF Promising, PromiseCount
<1>11. Cardinality(Q[n]) \in Nat /\ Cardinality(Q[n]) <= 1
  <2>1. IsFiniteSet({n}) /\ Cardinality({n}) = 1 BY FS_Singleton
  <2> QED BY <1>8, <2>1, FS_Subset, FS_CardinalityType
<1>12. out[n] \in Message /\ out[n].type = "promise"
  BY <1>2, <1>4 DEF Late, TypeOK
<1>13. out[n].dest \in Nodes /\ out[n].dest # n
  BY <1>4, <1>12, MessageCases DEF Late, Roles, PromiseMsg
<1>14. Cardinality(Nodes) >= 2
  <2> PICK d \in Nodes : d # n BY <1>13
  <2>1. IsFiniteSet({n}) /\ Cardinality({n}) = 1 BY FS_Singleton
  <2>5. d \notin {n} OBVIOUS
  <2>2. IsFiniteSet({n} \cup {d}) /\ Cardinality({n} \cup {d}) = 1 + 1
    BY <2>1, <2>5, FS_AddElement
  <2>3. {n} \cup {d} \subseteq Nodes OBVIOUS
  <2>4. Cardinality(Nodes) \in Nat BY PopulationAssumption, FS_CardinalityType
  <2> QED BY <2>2, <2>3, <2>4, PopulationAssumption, FS_Subset
<1>15. Cardinality(Nodes) \in Nat BY PopulationAssumption, FS_CardinalityType
<1> QED BY <1>10, <1>11, <1>14, <1>15, ConfigAssumption DEF Majority

\* m is the proposal of c, at o, for which n has yet to vote; A2 has the vote more than A.
VotableFor(c, n, o, m, P, A) ==
  /\ Host[c] = o /\ m.id = IdOf(c) /\ m.val = P[c] /\ n \notin A[c] /\ P[c] # None
OneVoteMore(c, n, A, A2) == A2[c] = A[c] \cup {n} /\ \A d \in Calls \ {c} : A2[d] = A[d]

\* The ballots once n has accepted the proposal of the call c
LEMMA AcceptedBallots ==
  ASSUME TypeOK, TypeOK', TwoProposers, NEW g \in Goroutines, NEW o \in Nodes, NEW m,
         Accepted(g, o, m), NEW n \in Nodes, n = NodeOf(g), NEW s \in Steps, s = step[n],
         NEW P, NEW A, NEW G, NEW R, NEW F, NEW Q, Voting(s, P, A, G, R, F, Q),
         NEW c \in Calls, VotableFor(c, n, o, m, P, A),
         NEW A2, Grown(s, P, A, P, A2), OneVoteMore(c, n, A, A2)
  PROVE  Ballots(s, P, A2, G, R)'
<1> USE DEF VotableFor, OneVoteMore
<1>0. PICK a : a = AcceptOf(n, m) OBVIOUS
<1>1. /\ m.type = "propose" /\ m.step = s
      /\ m \in Message /\ Going(m, n, o) /\ Gone(m, n, o, {a})
      /\ Flows(g, {a}) /\ a \in Message /\ step'[n] = step[n]
      /\ OthersSame(n) /\ inst'[n].maxID = inst[n].maxID
  BY <1>0 DEF Accepted, Section
<1>2. a.type = "accept" /\ a.step = s /\ a.id = m.id /\ a.val = m.val BY <1>0 DEF AcceptOf
<1>3. /\ Promising(s, F, Q) /\ Ballots(s, P, A, G, R) /\ \A k \in Nodes : PreparedNode(k, s, R)
      /\ \A k \in Nodes : CountedAt(k, s, P, A, G)
      /\ Carried(m, n, o, s, P, A, G, R)
  BY <1>1, VotingFacts DEF NodeVotes, Ballots
<1>4. \A k \in Nodes : Rises(k) BY <1>1, VoterRises, OthersRise
<1>5. ~Going(m, n, o)' /\ \A x \in Message : Genuine(x, s) => ~Going(x, n, o)'
  <2>1. m.val.step = s
    <3>1. CASE Genuine(m, s) BY <3>1 DEF Genuine
    <3>2. CASE ~Genuine(m, s)
      <4>1. ProposerAt(c, s, P, A, F) BY VotingFacts DEF CallVotes
      <4> QED BY <4>1 DEF ProposerAt, Safe
    <3> QED BY <3>1, <3>2
  <2>2. m \in Proposals(s) /\ Proposals(s) \in SUBSET Message
    BY <1>1, <2>1 DEF Proposals, Genuine
  <2>3. One(Proposals(s), n, o) BY <1>3 DEF Ballots
  <2>4. {a} \cap Proposals(s) = {} BY <1>2 DEF Proposals, Genuine
  <2>5. \A x \in Proposals(s) : ~Going(x, n, o)' BY <1>1, <2>2, <2>3, <2>4 DEF Gone
  <2> QED BY <2>2, <2>5 DEF Proposals
<1>6. \A k, p \in Nodes : \A x \in Message : Going(x, k, p)' =>
        /\ Genuine(x, s) => \A d \in Calls : Host[d] = p /\ k \in A2[d] => k \in A[d]
        /\ x.type = "accept" /\ x.step = s =>
             \A d \in Calls : x.id = IdOf(d) /\ <<p, d>> \in G[k] => <<p, d>> \in G[k]
  <2> SUFFICES ASSUME NEW k \in Nodes, NEW p \in Nodes, NEW x \in Message, Going(x, k, p)',
                      Genuine(x, s), NEW d \in Calls, Host[d] = p, k \in A2[d]
               PROVE  k \in A[d]
    OBVIOUS
  <2>1. CASE d # c BY <2>1
  <2>2. CASE d = c /\ k # n BY <2>2
  <2>3. CASE d = c /\ k = n BY <1>5, <2>3
  <2> QED BY <2>1, <2>2, <2>3
<1>7. ASSUME NEW k \in Nodes
      PROVE  /\ Carried(a, k, n, s, P, A2, G, R)'
             /\ \A d \in Calls : a \in AcceptsOf(d, s) =>
                  \A y \in AcceptsOf(d, s) : ~Going(y, k, n)
  <2>1. <<n, c>> \notin G[k]
    <3>1. \A u \in G[k] : u[1] \in A[u[2]] BY <1>3 DEF CountedAt
    <3> QED BY <3>1
  <2>2. Carried(a, k, n, s, P, A2, G, R)'
    <3>1. \E d \in Calls : /\ a.id = IdOf(d) /\ n \in A2[d] /\ a.val = P[d]
                           /\ <<n, d>> \notin G[k]
      BY <1>2, <2>1
    <3>2. a.type \notin {"prepare", "propose", "promise"} BY <1>2
    <3> QED BY <3>1, <3>2 DEF Carried, Genuine, IsPrepare, IdOf
  <2>3. ASSUME NEW d \in Calls, a \in AcceptsOf(d, s), NEW y \in AcceptsOf(d, s),
               Going(y, k, n)
        PROVE  FALSE
    <3>1. IdOf(d) = IdOf(c) /\ y \in Message /\ y.type = "accept" /\ y.step = s
          /\ y.id = IdOf(d)
      BY <1>2, <2>3 DEF AcceptsOf
    <3>2. Carried(y, k, n, s, P, A, G, R) BY <1>3, <2>3, <3>1 DEF Ballots
    <3>3. PICK e \in Calls : y.id = IdOf(e) /\ n \in A[e] BY <3>1, <3>2 DEF Carried
    <3>4. e = c BY <3>1, <3>3, OneCall
    <3> QED BY <3>3, <3>4
  <2> QED BY <2>2, <2>3
<1>8. {a} \in SUBSET Message /\ R \subseteq R BY <1>1
<1>9. \A x \in {a} : \A k \in Nodes : Goes(x, k) =>
        /\ Carried(x, k, NodeOf(g), s, P, A2, G, R)'
        /\ Genuine(x, s) => \A y \in Proposals(s) : ~Going(y, k, NodeOf(g))
        /\ \A d \in Calls : x \in AcceptsOf(d, s) =>
             \A y \in AcceptsOf(d, s) : ~Going(y, k, NodeOf(g))
  <2> SUFFICES ASSUME NEW x, x = a, NEW k \in Nodes
               PROVE  /\ Carried(x, k, n, s, P, A2, G, R)'
                      /\ ~Genuine(x, s)
                      /\ \A d \in Calls : x \in AcceptsOf(d, s) =>
                           \A y \in AcceptsOf(d, s) : ~Going(y, k, n)
    OBVIOUS
  <2>1. ~Genuine(a, s) BY <1>2 DEF Genuine
  <2> QED BY <1>7, <2>1
<1>10. \A k \in Nodes : Rises(k) /\ PreparedNode(k, s, R) BY <1>3, <1>4
<1>11. Promising(s, F, Q) /\ Ballots(s, P, A, G, R) /\ Flows(g, {a}) BY <1>1, <1>3
<1> QED BY <1>6, <1>8, <1>9, <1>10, <1>11, BallotsKeep

\* The parts of an accepted proposal
LEMMA AcceptedParts ==
  ASSUME TypeOK, TwoProposers, NEW g \in Goroutines, NEW o \in Nodes, NEW m,
         Accepted(g, o, m), NEW n \in Nodes, n = NodeOf(g), NEW s \in Steps,
         NEW P, NEW A, NEW G, NEW R, NEW F, NEW Q, Voting(s, P, A, G, R, F, Q)
  PROVE  /\ m.type = "propose" /\ m.step = step[n] /\ m.id = inst[n].maxID
         /\ AcceptOf(n, m) \in Message /\ Section(g, o, m, {AcceptOf(n, m)})
         /\ Flows(g, {AcceptOf(n, m)}) /\ Queues(g, {AcceptOf(n, m)}, m) /\ UNCHANGED tag
         /\ OthersSame(n) /\ step'[n] = step[n] /\ SameProposer(n) /\ SameTally(n)
         /\ inst'[n].maxID = inst[n].maxID
         /\ promiseChan' = promiseChan /\ blocks' = blocks
         /\ Rises(n) /\ \A k \in Nodes : Rises(k)
         /\ \A k : Late(k)' /\ k = n => Late(k)
<1>1. /\ m.type = "propose" /\ m.step = step[n] /\ m.id = inst[n].maxID
      /\ AcceptOf(n, m) \in Message /\ Section(g, o, m, {AcceptOf(n, m)})
      /\ Flows(g, {AcceptOf(n, m)}) /\ Queues(g, {AcceptOf(n, m)}, m) /\ UNCHANGED tag
      /\ OthersSame(n) /\ step'[n] = step[n] /\ SameProposer(n) /\ SameTally(n)
      /\ inst'[n].maxID = inst[n].maxID
      /\ promiseChan' = promiseChan /\ blocks' = blocks
      /\ \A h \in Goroutines \ {g} : out'[h] = out[h]
      /\ out'[g] # None => out'[g] = AcceptOf(n, m)
  BY DEF Accepted, Section, Places
<1>2. Rises(n) /\ \A k \in Nodes : Rises(k) BY <1>1, VoterRises, OthersRise
<1>3. Late(n)' => Late(n)
  <2>1. AcceptOf(n, m).type = "accept" /\ n \in Goroutines BY DEF AcceptOf, Goroutines
  <2> QED BY <1>1, <2>1 DEF Late
<1> QED BY <1>1, <1>2, <1>3

\* A proposal that is accepted makes a vote of its node for its proposer, or repeats one.
LEMMA AcceptedVoting ==
  ASSUME TypeOK, TypeOK', AcceptorInv, Roles, Majority, TwoProposers,
         NEW g \in Goroutines, NEW o \in Nodes, NEW m,
         Accepted(g, o, m), NEW s \in Steps,
         NEW P, NEW A, NEW G, NEW R, NEW F, NEW Q, Voting(s, P, A, G, R, F, Q)
  PROVE  \E A2 : Voting(s, P, A2, G, R, F, Q)'
<1>0. PICK n \in Nodes : n = NodeOf(g) BY NodeOfType
<1>1. PICK a : a = AcceptOf(n, m) OBVIOUS
<1>2. /\ m.type = "propose" /\ m.step = step[n] /\ m.id = inst[n].maxID
      /\ a \in Message /\ Section(g, o, m, {a})
      /\ Flows(g, {a}) /\ Queues(g, {a}, m) /\ UNCHANGED tag
      /\ OthersSame(n) /\ step'[n] = step[n] /\ SameProposer(n) /\ SameTally(n)
      /\ inst'[n].maxID = inst[n].maxID
      /\ promiseChan' = promiseChan /\ blocks' = blocks
      /\ Rises(n) /\ \A k \in Nodes : Rises(k)
      /\ Late(n)' => Late(n)
  BY <1>0, <1>1, AcceptedParts
<1>3. /\ Promising(s, F, Q) /\ VotesType(P, A, G, R) /\ Grown(s, P, A, P, A)
      /\ NodeVotes(n, s, P, A, G, R, Q) /\ IsFiniteSet(Calls) /\ AcceptorAtAll(s, P, A)
      /\ Ballots(s, P, A, G, R)
      /\ \A k \in Nodes : PreparedNode(k, s, R)
  BY <1>0, VotingFacts
<1>4. a.type = "accept" /\ a.step = step[n] BY <1>1 DEF AcceptOf
<1>5. Promising(s, F, Q)' BY <1>3, AcceptedPromising
<1>6. PreparedNode(n, s, R)' BY <1>0, <1>2, <1>3, PreparedNodeKeeps DEF NodeVotes
<1>7. \A k \in Nodes : StaleQueued(n, k, s)'
  <2>1. \A x \in {a} : ~Stale(x, s) BY <1>4 DEF Stale
  <2>2. {a} \in SUBSET Message BY <1>2
  <2> QED BY <1>0, <1>2, <2>1, <2>2, QueuesKeep
<1>8. /\ \A k \in Nodes \ {n} : blocks'[k] = blocks[k]
      /\ \A k \in Nodes \ {n} : promiseChan'[k][s] = promiseChan[k][s]
      /\ \A k \in Nodes \ {n} : G[k] = G[k] /\ Q[k] = Q[k]
      /\ \A x \in {a} : x.type \notin {"prepare", "propose"}
      /\ {a} \in SUBSET Message /\ F \subseteq F
  BY <1>2, <1>4
<1>9. ASSUME NEW A2, Grown(s, P, A, P, A2)
      PROVE  /\ \A c \in Calls : Host[c] = n =>
                  ProposerAt(c, s, P, A2, F)' /\ BestAt(c, s, P, A2, Q)'
             /\ CountedAt(n, s, P, A2, G)' /\ DecidedAt(n, s, P, A2)'
  <2>1. \A c \in Calls : Host[c] = n =>
          ProposerAt(c, s, P, A2, F)' /\ BestAt(c, s, P, A2, Q)'
    BY <1>0, <1>2, <1>3, <1>9, ProposersKeep DEF SameProposer
  <2>2. CountedAt(n, s, P, A2, G)'
    BY <1>0, <1>2, <1>3, <1>9, CountedKeeps DEF NodeVotes, SameTally
  <2>3. DecidedAt(n, s, P, A2)' BY <1>0, <1>2, <1>3, <1>9, DecidedKeeps DEF NodeVotes
  <2> QED BY <2>1, <2>2, <2>3
<1>10. CASE s # step[n]
  <2>1. AcceptorAt(n, s, P, A)' BY <1>0, <1>2, <1>3, <1>10, AcceptorKeeps DEF NodeVotes
  <2>2. LateAt(n, s, Q)' BY <1>2, <1>10 DEF LateAt
  <2>3. NodeVotes(n, s, P, A, G, R, Q)' BY <1>3, <1>6, <1>9, <2>1, <2>2 DEF NodeVotes
  <2>4. Ballots(s, P, A, G, R)'
    <3>1. \A x \in {a} : \A k \in Nodes : Goes(x, k) =>
            /\ Carried(x, k, NodeOf(g), s, P, A, G, R)'
            /\ Genuine(x, s) => \A y \in Proposals(s) : ~Going(y, k, NodeOf(g))
            /\ \A d \in Calls : x \in AcceptsOf(d, s) =>
                 \A y \in AcceptsOf(d, s) : ~Going(y, k, NodeOf(g))
      BY <1>4, <1>10 DEF Carried, Genuine, IsPrepare, AcceptsOf
    <3>2. \A k \in Nodes : Rises(k) /\ PreparedNode(k, s, R) BY <1>2, <1>3
    <3>3. R \subseteq R /\ {a} \in SUBSET Message BY <1>8
    <3> QED BY <1>2, <1>3, <3>1, <3>2, <3>3, BallotsKeep
  <2>5. Voting(s, P, A, G, R, F, Q)'
    BY <1>0, <1>2, <1>3, <1>5, <1>7, <1>8, <1>9, <2>3, <2>4, SectionVoting
  <2> QED BY <2>5
<1>11. CASE s = step[n]
  <2>1. PICK c \in Calls : /\ Host[c] = o /\ m.id = IdOf(c) /\ m.val = P[c] /\ n \notin A[c]
                           /\ P[c] # None
    BY <1>0, <1>11, AcceptedGenuine
  <2>2. PICK A2 : A2 = [A EXCEPT ![c] = A[c] \cup {n}] OBVIOUS
  <2>3. /\ A2[c] = A[c] \cup {n} /\ \A d \in Calls \ {c} : A2[d] = A[d]
        /\ A2 \in [Calls -> SUBSET Nodes] /\ VotesType(P, A2, G, R)
    BY <1>3, <2>2 DEF VotesType
  <2>4. Grown(s, P, A, P, A2)
    BY <1>2, <1>3, <1>11, <2>1, <2>3 DEF Grown
  <2>5. Ballots(s, P, A2, G, R)'
    <3>1. VotableFor(c, n, o, m, P, A) BY <2>1 DEF VotableFor
    <3>2. OneVoteMore(c, n, A, A2) BY <2>3 DEF OneVoteMore
    <3> QED BY <1>0, <1>11, <2>4, <3>1, <3>2, AcceptedBallots
  <2>6. AcceptorAt(n, s, P, A2)'
    <3>1. AcceptorAt(n, s, P, A) BY <1>3 DEF NodeVotes
    <3>2. ASSUME NEW d \in Calls, n \in A2[d]
          PROVE  P[d] # None /\ IdOf(d) <= inst[n].maxID
      <4>1. CASE d = c
        <5>1. IdOf(c) \in Nat BY IdTypes
        <5> QED BY <1>2, <2>1, <4>1, <5>1
      <4>2. CASE d # c BY <1>11, <2>3, <3>1, <3>2, <4>2 DEF AcceptorAt
      <4> QED BY <4>1, <4>2
    <3>3. s \in Nat /\ step'[n] = s /\ inst'[n].maxID = inst[n].maxID
      BY <1>2, <1>11, ConfigAssumption DEF Steps
    <3>4. \E d \in Calls : /\ inst'[n].acceptedID = IdOf(d) /\ n \in A2[d]
                           /\ inst'[n].acceptedValue = P[d]
      <4>1. CASE inst[n].acceptedValue = None
        <5>1. inst'[n].acceptedID = m.id /\ inst'[n].acceptedValue = m.val
          BY <1>0, <4>1 DEF Accepted
        <5> QED BY <2>1, <2>3, <5>1
      <4>2. CASE inst[n].acceptedValue # None
        <5>1. /\ inst'[n].acceptedID = inst[n].acceptedID
              /\ inst'[n].acceptedValue = inst[n].acceptedValue
          BY <1>0, <4>2 DEF Accepted
        <5>2. inst[n].acceptedID # 0 BY <4>2 DEF AcceptorInv
        <5>3. PICK d \in Calls : /\ inst[n].acceptedID = IdOf(d) /\ n \in A[d]
                                 /\ inst[n].acceptedValue = P[d]
          BY <1>11, <3>1, <5>2 DEF AcceptorAt
        <5>4. n \in A2[d] BY <2>3, <5>3
        <5> QED BY <5>1, <5>3, <5>4
      <4> QED BY <4>1, <4>2
    <3>5. inst'[n].acceptedID # 0
      <4>1. PICK d \in Calls : inst'[n].acceptedID = IdOf(d) BY <3>4
      <4> QED BY <4>1, IdTypes
    <3> QED BY <3>2, <3>3, <3>4, <3>5 DEF AcceptorAt, IdOf
  <2>7. LateAt(n, s, Q)'
    <3>1. ~Late(n)' BY <1>0, <1>11, AcceptedLate
    <3> QED BY <3>1 DEF LateAt
  <2>8. NodeVotes(n, s, P, A2, G, R, Q)' BY <1>6, <1>9, <2>4, <2>6, <2>7 DEF NodeVotes
  <2>9. \A k \in Nodes \ {n} : \A d \in Calls : k \in A2[d] => k \in A[d] BY <2>3
  <2>10. Voting(s, P, A2, G, R, F, Q)'
    BY <1>0, <1>2, <1>3, <1>5, <1>7, <1>8, <1>9, <2>3, <2>4, <2>5, <2>8, <2>9, SectionVoting
  <2> QED BY <2>10
<1> QED BY <1>10, <1>11

\* The parts of a counted promise
LEMMA CountedParts ==
  ASSUME TypeOK, NEW g \in Goroutines, NEW o \in Nodes, NEW m, PromiseCounted(g, o, m),
         NEW n \in Nodes, n = NodeOf(g)
  PROVE  /\ m.type = "promise" /\ m.step = step[n] /\ inst[n].phase = 1
         /\ m \in Message /\ Going(m, n, o)
         /\ Section(g, o, m, {}) /\ Flows(g, {}) /\ Queues(g, {}, m) /\ UNCHANGED tag
         /\ OthersSame(n) /\ step'[n] = step[n] /\ SameVoter(n) /\ SameTally(n)
         /\ inst'[n] = Promised(inst[n], m)
         /\ inst'[n].promises = inst[n].promises + 1
         /\ inst'[n].phase = IF Reached(inst[n].promises + 1) THEN 2 ELSE 1
         /\ inst'[n].proposedValue = inst[n].proposedValue
         /\ blocks' = blocks
         /\ Rises(n) /\ \A k \in Nodes : Rises(k)
         /\ \A k : k # n => promiseChan'[k] = promiseChan[k]
         /\ \A t : t # step[n] => promiseChan'[n][t] = promiseChan[n][t]
         /\ IF inst'[n].phase = 2 THEN promiseChan'[n][step[n]] = <<Chosen(inst'[n])>>
            ELSE promiseChan'[n] = promiseChan[n]
         /\ Late(n)' => Late(n) /\ o = n
<1>1. /\ m.type = "promise" /\ m.step = step[n] /\ inst[n].phase = 1
      /\ m \in Message /\ Going(m, n, o)
      /\ Section(g, o, m, {}) /\ Flows(g, {}) /\ Queues(g, {}, m) /\ UNCHANGED tag
      /\ OthersSame(n) /\ step'[n] = step[n] /\ SameVoter(n) /\ SameTally(n)
      /\ inst'[n] = Promised(inst[n], m)
      /\ inst'[n].promises = inst[n].promises + 1
      /\ inst'[n].phase = IF Reached(inst[n].promises + 1) THEN 2 ELSE 1
      /\ inst'[n].proposedValue = inst[n].proposedValue
      /\ blocks' = blocks
      /\ \A h \in Goroutines \ {g} : out'[h] = out[h]
      /\ out'[g] = None
  BY DEF PromiseCounted, Section, Places
<1>2. /\ \A k : k # n => promiseChan'[k] = promiseChan[k]
      /\ \A t : t # step[n] => promiseChan'[n][t] = promiseChan[n][t]
      /\ IF inst'[n].phase = 2 THEN promiseChan'[n][step[n]] = <<Chosen(inst'[n])>>
         ELSE promiseChan'[n] = promiseChan[n]
  <2>1. promiseChan \in [Nodes -> [Steps -> Seq(ValueOrNone)]] /\ step[n] \in Steps
    BY DEF TypeOK
  <2>2. CASE inst'[n].phase = 2
    <3>1. promiseChan' = [promiseChan EXCEPT ![n][step[n]] = <<Chosen(inst'[n])>>]
      BY <2>2, <1>1 DEF PromiseCounted
    <3> QED BY <2>1, <2>2, <3>1
  <2>3. CASE inst'[n].phase # 2
    <3>1. promiseChan' = promiseChan BY <2>3 DEF PromiseCounted
    <3> QED BY <2>3, <3>1
  <2> QED BY <2>2, <2>3
<1>3. Rises(n) /\ \A k \in Nodes : Rises(k) BY <1>1, VoterRises, OthersRise DEF SameVoter
<1>4. Late(n)' => Late(n) /\ o = n
  <2>1. n \in Goroutines BY DEF Goroutines
  <2>2. Late(n)' => g # n BY <1>1 DEF Late
  <2>3. Late(n)' => Late(n) BY <1>1, <2>1, <2>2 DEF Late
  <2>4. g # n => o = n BY <1>1, CallTakes
  <2> QED BY <2>2, <2>3, <2>4
<1> QED BY <1>1, <1>2, <1>3, <1>4

\* A proposer fills its channel once in a step.
LEMMA FilledOnce ==
  ASSUME TypeOK, Majority, NEW n \in Nodes, NEW o \in Nodes, NEW s \in Steps, s = step[n],
         NEW F, NEW Q, Promising(s, F, Q), o \notin Q[n], inst[n].phase = 1,
         Reached(inst[n].promises + 1)
  PROVE  n \notin F
<1> SUFFICES ASSUME n \in F PROVE FALSE OBVIOUS
<1>1. /\ Q[n] \subseteq Nodes /\ inst[n].promises + Threshold <= Cardinality(Q[n])
  BY DEF Promising, PromiseCount
<1>2. /\ IsFiniteSet(Q[n]) /\ Cardinality(Q[n]) \in Nat
  BY <1>1, PopulationAssumption, FS_Subset, FS_CardinalityType
<1>3. Cardinality(Q[n] \cup {o}) = Cardinality(Q[n]) + 1 BY <1>2, FS_AddElement
<1>4. Q[n] \cup {o} \subseteq Nodes BY <1>1
<1>5. Cardinality(Q[n] \cup {o}) <= Cardinality(Nodes) /\ Cardinality(Nodes) \in Nat
  BY <1>4, PopulationAssumption, FS_Subset, FS_CardinalityType
<1>6. inst[n].promises \in Nat BY NodeTypes
<1> QED BY <1>1, <1>2, <1>3, <1>5, <1>6, ConfigAssumption DEF Majority, Reached

\* n has counted a promise that reports what its sender has accepted.
LEMMA CountedBest ==
  ASSUME TypeOK, NEW g \in Goroutines, NEW o \in Nodes, NEW m, PromiseCounted(g, o, m),
         NEW n \in Nodes, n = NodeOf(g), NEW s \in Steps, s = step[n],
         NEW P, NEW A, NEW Q, NEW Q2, Q2[n] = Q[n] \cup {o},
         m.id = FirstID[n], m \in Message, m.type = "promise", Reports(m, o, P, A),
         NEW c \in Calls, Host[c] = n, BestAt(c, s, P, A, Q)
  PROVE  BestAt(c, s, P, A, Q2)'
<1>1. m.id = IdOf(c) /\ m.id > 0 /\ m.accID \in Nat /\ inst[n].bestID \in Nat /\ IdOf(c) \in Nat
  <2>1. m.accID \in IDOrZero BY MessageCases DEF PromiseMsg
  <2> QED BY <2>1, NodeTypes, IdTypes, ConfigAssumption DEF IdOf, IDOrZero
<1>2. /\ inst'[n].proposedValue = inst[n].proposedValue
      /\ IF m.accID > inst[n].bestID
           THEN inst'[n].bestID = m.id /\ inst'[n].bestValue = m.accVal
           ELSE inst'[n].bestID = inst[n].bestID /\ inst'[n].bestValue = inst[n].bestValue
  BY DEF PromiseCounted
<1>3. /\ IF inst[n].bestID = 0
           THEN \A p \in Q[n] : \A d \in Calls : IdOf(d) < IdOf(c) => p \notin A[d]
           ELSE \/ inst[n].bestValue = None
                \/ \E d \in Calls : IdOf(d) < IdOf(c) /\ inst[n].bestValue = P[d]
      /\ inst[n].proposedValue # None => inst[n].proposedValue.step = s
  BY DEF BestAt
<1>4. ASSUME inst'[n].bestID = 0, NEW p \in Q2[n], NEW d \in Calls, IdOf(d) < IdOf(c)
      PROVE  p \notin A[d]
  <2>1. inst[n].bestID = 0 /\ m.accID = 0 BY <1>1, <1>2, <1>4
  <2>2. CASE p \in Q[n] BY <1>3, <1>4, <2>1, <2>2
  <2>3. CASE p = o BY <1>1, <1>4, <2>1, <2>3 DEF Reports
  <2> QED BY <2>2, <2>3
<1>5. ASSUME inst'[n].bestID # 0
      PROVE  \/ inst'[n].bestValue = None
             \/ \E d \in Calls : IdOf(d) < IdOf(c) /\ inst'[n].bestValue = P[d]
  <2>1. CASE m.accID > inst[n].bestID
    <3>1. m.accID # 0 BY <1>1, <2>1
    <3> QED BY <1>1, <1>2, <2>1, <3>1 DEF Reports
  <2>2. CASE ~(m.accID > inst[n].bestID) BY <1>2, <1>3, <1>5, <2>2
  <2> QED BY <2>1, <2>2
<1> QED BY <1>2, <1>3, <1>4, <1>5 DEF BestAt, IdOf

\* The value that n takes from a threshold of promises is safe to propose.
LEMMA ChosenSafe ==
  ASSUME TypeOK, TypeOK', TwoProposers, \A k \in Nodes : Rises(k),
         NEW n \in Nodes, NEW s \in Steps, s = step'[n],
         NEW P, NEW A, NEW F2, NEW Q2, Promising(s, F2, Q2)', n \in F2,
         NEW c \in Calls, Host[c] = n, BestAt(c, s, P, A, Q2)',
         \A d \in Calls : P[d] # None => P[d].step = s,
         Chosen(inst'[n]) # None
  PROVE  Safe(c, Chosen(inst'[n]), s, P, Blocked(c, s, A)')
<1>1. PICK v : v = Chosen(inst'[n]) OBVIOUS
<1>2. PICK B : B = Blocked(c, s, A)' OBVIOUS
<1>3. /\ \A o \in Q2[n] : Has(o, s, FirstID[n])'
      /\ Threshold <= Cardinality(Q2[n]) /\ Q2[n] \subseteq Nodes
  BY DEF Promising, PromiseCount
<1>4. /\ IF inst'[n].bestID = 0
           THEN \A o \in Q2[n] : \A d \in Calls : IdOf(d) < IdOf(c) => o \notin A[d]
           ELSE \/ inst'[n].bestValue = None
                \/ \E d \in Calls : IdOf(d) < IdOf(c) /\ inst'[n].bestValue = P[d]
      /\ inst'[n].proposedValue # None => inst'[n].proposedValue.step = s
  BY DEF BestAt, IdOf
<1>5. CASE inst'[n].bestID = 0
  <2>1. v.step = s BY <1>1, <1>4, <1>5 DEF Chosen
  <2>2. ASSUME NEW d \in Calls, IdOf(d) < IdOf(c)
        PROVE  Threshold <= Cardinality(B[d])
    <3>1. \A o \in Q2[n] : o \in Nodes /\ o \notin A[d] /\ Has(o, s, IdOf(c))'
      BY <1>3, <1>4, <1>5, <2>2 DEF IdOf
    <3>2. B[d] = {o \in Nodes : o \notin A[d] /\ Has(o, s, IdOf(c))'}
      BY <1>2 DEF Blocked, IdOf
    <3>3. Q2[n] \subseteq B[d] /\ B[d] \subseteq Nodes BY <3>1, <3>2
    <3>4. /\ IsFiniteSet(B[d]) /\ Cardinality(Q2[n]) <= Cardinality(B[d])
          /\ IsFiniteSet(Q2[n])
      BY <3>3, PopulationAssumption, FS_Subset
    <3>5. Cardinality(B[d]) \in Nat /\ Cardinality(Q2[n]) \in Nat
      BY <3>4, FS_CardinalityType
    <3> QED BY <1>3, <3>4, <3>5, ConfigAssumption
  <2>3. v # None BY <1>1
  <2>4. Safe(c, v, s, P, B) BY <2>1, <2>2, <2>3 DEF Safe
  <2> QED BY <1>1, <1>2, <2>4
<1>6. CASE inst'[n].bestID # 0
  <2>1. v = inst'[n].bestValue /\ v # None BY <1>1, <1>6 DEF Chosen
  <2>2. PICK d \in Calls : IdOf(d) < IdOf(c) /\ v = P[d] BY <1>4, <1>6, <2>1
  <2>3. v.step = s BY <2>1, <2>2
  <2>4. ASSUME NEW e \in Calls, IdOf(e) < IdOf(c) PROVE P[e] = v
    <3>1. IdOf(c) \in Nat /\ IdOf(d) \in Nat /\ IdOf(e) \in Nat BY IdTypes
    <3>2. d # c /\ e # c BY <2>2, <2>4, <3>1
    <3>3. d = e BY <3>2 DEF TwoProposers
    <3> QED BY <2>2, <3>3
  <2>5. Safe(c, v, s, P, B) BY <2>1, <2>3, <2>4 DEF Safe
  <2> QED BY <1>1, <1>2, <2>5
<1> QED BY <1>5, <1>6

\* The calls of n once it has counted a promise of the step s
LEMMA CountedProposers ==
  ASSUME TypeOK, TypeOK', Majority, TwoProposers,
         NEW g \in Goroutines, NEW o \in Nodes, NEW m, PromiseCounted(g, o, m),
         NEW n \in Nodes, n = NodeOf(g), NEW s \in Steps, s = step[n],
         NEW P, NEW A, NEW G, NEW R, NEW F, NEW Q, Voting(s, P, A, G, R, F, Q),
         NEW F2, NEW Q2, Promising(s, F2, Q2)', Q2[n] = Q[n] \cup {o},
         F \subseteq F2, inst'[n].phase = 2 => n \in F2,
         NEW c \in Calls, Host[c] = n
  PROVE  ProposerAt(c, s, P, A, F2)' /\ BestAt(c, s, P, A, Q2)'
<1>1. /\ m.type = "promise" /\ m.step = step[n] /\ inst[n].phase = 1
      /\ m \in Message /\ Going(m, n, o) /\ UNCHANGED tag /\ step'[n] = step[n]
      /\ inst'[n].phase = IF Reached(inst[n].promises + 1) THEN 2 ELSE 1
      /\ \A k \in Nodes : Rises(k)
      /\ IF inst'[n].phase = 2 THEN promiseChan'[n][step[n]] = <<Chosen(inst'[n])>>
         ELSE promiseChan'[n] = promiseChan[n]
  BY CountedParts
<1>2. /\ Promising(s, F, Q) /\ Ballots(s, P, A, G, R) /\ Grown(s, P, A, P, A)
      /\ BestAt(c, s, P, A, Q) /\ \A d \in Calls : ProposerAt(d, s, P, A, F)
  BY VotingFacts DEF CallVotes
<1>3. o \notin Q[n] /\ m.id = FirstID[n] BY <1>1, <1>2 DEF Promising, PromiseTraffic
<1>4. Reports(m, o, P, A) BY <1>1, <1>2 DEF Ballots, Carried
<1>5. BestAt(c, s, P, A, Q2)' BY <1>1, <1>2, <1>3, <1>4, CountedBest
<1>6. CASE inst'[n].phase # 2
  <2>1. F \subseteq F2 OBVIOUS
  <2>2. promiseChan'[Host[c]][s] = promiseChan[Host[c]][s] BY <1>1, <1>6
  <2>3. tag' = tag BY <1>1
  <2>4. ProposerAt(c, s, P, A, F2)'
    BY <1>1, <1>2, <2>1, <2>2, <2>3, ProposerKeeps
  <2> QED BY <1>5, <2>4
<1>7. CASE inst'[n].phase = 2
  <2>1. Reached(inst[n].promises + 1) BY <1>1, <1>7
  <2>2. n \notin F BY <1>1, <1>2, <1>3, <2>1, FilledOnce
  <2>3. n \in F2 BY <1>7
  <2>4. P[c] = None /\ ~(tag[c].pc = "phase2" /\ tag[c].value.step = s)
    BY <1>2, <2>2 DEF ProposerAt
  <2>5. promiseChan'[n][s] = <<Chosen(inst'[n])>> BY <1>1, <1>7
  <2>6. \A d \in Calls : P[d] # None => P[d].step = s BY <1>2 DEF ProposerAt, Safe
  <2>7. PICK v : v = Chosen(inst'[n]) OBVIOUS
  <2>8. PICK B : B = Blocked(c, s, A)' OBVIOUS
  <2>9. v = None \/ Safe(c, v, s, P, B)
    <3>1. s = step'[n] BY <1>1
    <3>2. v # None => Safe(c, Chosen(inst'[n]), s, P, Blocked(c, s, A)')
      BY <1>1, <1>5, <2>3, <2>6, <2>7, <3>1, ChosenSafe
    <3> QED BY <2>7, <2>8, <3>2
  <2>10. Head(promiseChan'[n][s]) = v BY <2>5, <2>7
  <2>11. ProposerAt(c, s, P, A, F2)'
    BY <1>1, <2>3, <2>4, <2>8, <2>9, <2>10 DEF ProposerAt
  <2> QED BY <1>5, <2>11
<1> QED BY <1>6, <1>7

\* A promise that is counted, or the value of the last one, is safe to propose.
LEMMA PromiseCountedVoting ==
  ASSUME TypeOK, TypeOK', Majority, TwoProposers,
         NEW g \in Goroutines, NEW o \in Nodes, NEW m, PromiseCounted(g, o, m),
         NEW s \in Steps,
         NEW P, NEW A, NEW G, NEW R, NEW F, NEW Q, Voting(s, P, A, G, R, F, Q)
  PROVE  \E F2, Q2 : Voting(s, P, A, G, R, F2, Q2)'
<1>0. PICK n \in Nodes : n = NodeOf(g) BY NodeOfType
<1>1. PICK F2 : F2 = FilledBy(n, s, F) OBVIOUS
<1>2. PICK Q2 : Q2 = CountedBy(n, o, s, Q) OBVIOUS
<1>E. PICK E : E = {} OBVIOUS
<1>3. /\ Section(g, o, m, E) /\ Flows(g, E) /\ Queues(g, E, m) /\ UNCHANGED tag
      /\ OthersSame(n) /\ step'[n] = step[n] /\ SameVoter(n) /\ SameTally(n)
      /\ blocks' = blocks
      /\ Rises(n) /\ \A k \in Nodes : Rises(k)
      /\ \A k : k # n => promiseChan'[k] = promiseChan[k]
      /\ \A t : t # step[n] => promiseChan'[n][t] = promiseChan[n][t]
      /\ Late(n)' => Late(n) /\ o = n
  BY <1>0, <1>E, CountedParts
<1>4. /\ Promising(s, F, Q) /\ VotesType(P, A, G, R) /\ Grown(s, P, A, P, A)
      /\ NodeVotes(n, s, P, A, G, R, Q) /\ IsFiniteSet(Calls) /\ AcceptorAtAll(s, P, A)
      /\ Ballots(s, P, A, G, R)
  BY <1>0, VotingFacts
<1>5. Promising(s, F2, Q2)' BY <1>0, <1>1, <1>2, <1>4, PromiseCountedPromising
<1>6. /\ F \subseteq F2 /\ \A k \in Nodes \ {n} : Q2[k] = Q[k]
      /\ s # step[n] => F2 = F /\ Q2 = Q
      /\ s = step[n] => /\ Q2[n] = Q[n] \cup {o}
                        /\ inst'[n].phase = 2 => n \in F2
  BY <1>0, <1>1, <1>2, <1>4 DEF FilledBy, CountedBy, Promising
<1>7. \A k \in Nodes : StaleQueued(n, k, s)'
  <2>1. \A x \in E : ~Stale(x, s) BY <1>E
  <2>2. E \in SUBSET Message BY <1>E
  <2> QED BY <1>0, <1>3, <2>1, <2>2, QueuesKeep DEF SameVoter
<1>8. /\ \A k \in Nodes \ {n} : blocks'[k] = blocks[k]
      /\ \A k \in Nodes \ {n} : promiseChan'[k][s] = promiseChan[k][s]
      /\ \A k \in Nodes \ {n} : G[k] = G[k] /\ Q2[k] = Q[k]
      /\ \A k \in Nodes \ {n} : \A c \in Calls : k \in A[c] => k \in A[c]
      /\ \A x \in E : x.type \notin {"prepare", "propose"}
      /\ E \in SUBSET Message
  BY <1>3, <1>6, <1>E
<1>9. Ballots(s, P, A, G, R)'
  <2>1. \A x \in E :
          /\ x.type \notin {"propose", "accept"}
          /\ \A k \in Nodes : Goes(x, k) => Carried(x, k, NodeOf(g), s, P, A, G, R)'
    BY <1>E
  <2>2. R \subseteq R OBVIOUS
  <2> QED BY <1>3, <1>8, <2>1, <2>2, BallotsStay
<1>10. NodeVotes(n, s, P, A, G, R, Q2)'
  <2>1. Late(n)' => Late(n) BY <1>3
  <2>2. NodeVotes(n, s, P, A, G, R, Q)' BY <1>0, <1>3, <1>4, <2>1, NodeVotesKeep
  <2>3. LateAt(n, s, Q2)'
    <3>1. CASE s # step[n] BY <1>6, <2>2, <3>1 DEF NodeVotes
    <3>2. CASE s = step[n] BY <1>3, <1>6, <2>2, <3>2 DEF NodeVotes, LateAt
    <3> QED BY <3>1, <3>2
  <2> QED BY <2>2, <2>3 DEF NodeVotes
<1>11. \A c \in Calls : Host[c] = n =>
         ProposerAt(c, s, P, A, F2)' /\ BestAt(c, s, P, A, Q2)'
  <2>1. CASE s = step[n]
    <3>1. Q2[n] = Q[n] \cup {o} /\ F \subseteq F2 /\ (inst'[n].phase = 2 => n \in F2)
      BY <1>6, <2>1
    <3> SUFFICES ASSUME NEW c \in Calls, Host[c] = n
                 PROVE  ProposerAt(c, s, P, A, F2)' /\ BestAt(c, s, P, A, Q2)'
      OBVIOUS
    <3>2. Promising(s, F2, Q2)' BY <1>5
    <3> QED BY <1>0, <2>1, <3>1, <3>2, CountedProposers
  <2>2. CASE s # step[n]
    <3>1. promiseChan'[n][s] = promiseChan[n][s] BY <1>3, <2>2
    <3>2. \A c \in Calls : Host[c] = n =>
            ProposerAt(c, s, P, A, F)' /\ BestAt(c, s, P, A, Q)'
      BY <1>0, <1>3, <1>4, <2>2, <3>1, ProposersKeep
    <3> QED BY <1>6, <2>2, <3>2
  <2> QED BY <2>1, <2>2
<1>12. Voting(s, P, A, G, R, F2, Q2)'
  BY <1>0, <1>3, <1>4, <1>5, <1>6, <1>7, <1>8, <1>9, <1>10, <1>11, SectionVoting
<1> QED BY <1>12

-----------------------------------------------------------------------------
(* Each kind of step of a call keeps the votes *)

\* A step of c, which puts the messages of S
CallStep(c, S) ==
  /\ S \in SUBSET Message /\ Flows(c, S) /\ \A x : Queues(c, S, x)
  /\ \A h \in Goroutines \ {c} : out'[h] = out[h] /\ local'[h] = local[h]
  /\ out[c] = None /\ local[c] = None
  /\ out'[c] # None => out'[c] \in S
  /\ local'[c] # None => local'[c] \in S
  /\ \A d \in Calls \ {c} : tag'[d] = tag[d]
  /\ \A k \in Nodes : /\ step'[k] = step[k] /\ SameVoter(k) /\ SameTally(k)
                      /\ inst'[k].bestID = inst[k].bestID
                      /\ inst'[k].bestValue = inst[k].bestValue
  /\ \A k \in Nodes \ {Host[c]} : SameNode(k) /\ promiseChan'[k] = promiseChan[k]
  /\ blocks' = blocks

\* The kinds of steps of a call are such steps.
LEMMA CallSteps ==
  ASSUME TypeOK, Alone, NEW c \in Calls
  PROVE  /\ CallMoved(c) \/ ValueTaken(c) => CallStep(c, {})
         /\ Prepared(c) => CallStep(c, {PrepareFor(c)})
         /\ Proposed(c) => CallStep(c, {ProposalOf(c)})
<1>0. c \in Goroutines /\ Host[c] \in Nodes BY HostType DEF Goroutines
<1>1. ASSUME CallMoved(c) \/ ValueTaken(c) PROVE CallStep(c, {})
  <2>1. /\ UNCHANGED messageVars /\ out[c] = None /\ local[c] = None /\ blocks' = blocks
        /\ \A k \in Nodes : SameNode(k)
        /\ \A d \in Calls \ {c} : tag'[d] = tag[d]
    BY <1>1 DEF CallMoved, ValueTaken
  <2>2. Flows(c, {}) /\ \A x : Queues(c, {}, x) BY <2>1, StillFlows
  <2>3. \A k \in Nodes \ {Host[c]} : promiseChan'[k] = promiseChan[k]
    <3>1. CASE CallMoved(c) BY <3>1 DEF CallMoved
    <3>2. CASE ValueTaken(c) BY <3>2 DEF ValueTaken, TypeOK
    <3> QED BY <1>1, <3>1, <3>2
  <2>4. out' = out /\ local' = local BY <2>1 DEF messageVars
  <2> QED BY <2>1, <2>2, <2>3, <2>4 DEF CallStep, SameNode, SameProposer
<1>2. ASSUME Prepared(c) PROVE CallStep(c, {PrepareFor(c)})
  BY <1>0, <1>2 DEF Prepared, CallStep, Places, OthersSame, SameNode, SameProposer
<1>3. ASSUME Proposed(c) PROVE CallStep(c, {ProposalOf(c)})
  BY <1>0, <1>3 DEF Proposed, CallStep, Places, SameNode, SameProposer
<1> QED BY <1>1, <1>2, <1>3

\* The call c has proposed P2[c], and its host is in R2 where it has prepared.
Moves(c, s, P, A, R, P2, R2) ==
  /\ Grown(s, P, A, P2, A) /\ R \subseteq R2 /\ R2 \subseteq Nodes
  /\ \A k \in R2 : k \in R \/ (k = Host[c] /\ step[k] = s)
  /\ \A d \in Calls \ {c} : P2[d] = P[d]

\* The votes after a step of c, given what concerns c itself
LEMMA CallStepVoting ==
  ASSUME TypeOK, TypeOK', TwoProposers, NEW c \in Calls, NEW S, CallStep(c, S),
         NEW s \in Steps,
         NEW P, NEW A, NEW G, NEW R, NEW F, NEW Q, Voting(s, P, A, G, R, F, Q),
         NEW P2, NEW R2, Moves(c, s, P, A, R, P2, R2),
         \A x \in S : Stale(x, s) => Host[c] \notin R,
         Promising(s, F, Q)', Ballots(s, P2, A, G, R2)', CallVotes(c, s, P2, A, R2, F, Q)'
  PROVE  Voting(s, P2, A, G, R2, F, Q)'
<1>0. /\ Host[c] \in Nodes /\ c \in Goroutines /\ NodeOf(c) = Host[c]
      /\ \A d \in Calls : Host[d] \in Nodes /\ d \in Goroutines
  BY HostType DEF Goroutines, NodeOf
<1>1. /\ Promising(s, F, Q) /\ VotesType(P, A, G, R) /\ Ballots(s, P, A, G, R)
      /\ \A n \in Nodes : NodeVotes(n, s, P, A, G, R, Q) /\ PreparedNode(n, s, R)
      /\ \A n, o \in Nodes : StaleQueued(n, o, s)
      /\ \A d \in Calls : CallVotes(d, s, P, A, R, F, Q)
      /\ IsFiniteSet(Calls) /\ AcceptorAtAll(s, P, A)
  BY VotingFacts
<1>2. /\ Grown(s, P, A, P2, A) /\ R \subseteq R2 /\ R2 \subseteq Nodes
      /\ \A k \in R2 : k \in R \/ (k = Host[c] /\ step[k] = s)
      /\ \A d \in Calls \ {c} : P2[d] = P[d]
  BY DEF Moves
<1>3. /\ S \in SUBSET Message /\ Flows(c, S) /\ \A x : Queues(c, S, x)
      /\ \A h \in Goroutines \ {c} : out'[h] = out[h] /\ local'[h] = local[h]
      /\ \A d \in Calls \ {c} : tag'[d] = tag[d]
      /\ \A k \in Nodes : /\ step'[k] = step[k] /\ SameVoter(k) /\ SameTally(k)
                          /\ inst'[k].maxID = inst[k].maxID
      /\ \A k \in Nodes \ {Host[c]} : SameNode(k) /\ promiseChan'[k] = promiseChan[k]
      /\ blocks' = blocks
  BY DEF CallStep, SameVoter
<1>4. \A k \in Nodes : Rises(k) BY <1>3, VoterRises
<1>5. VotesType(P2, A, G, R2) BY <1>1, <1>2 DEF VotesType, Grown
<1>6. ASSUME NEW k \in Nodes PROVE NodeVotes(k, s, P2, A, G, R2, Q)'
  <2>1. k \in Goroutines /\ k # c BY PopulationAssumption DEF Goroutines
  <2>2. Late(k)' => Late(k) BY <1>3, <2>1 DEF Late
  <2>3. NodeVotes(k, s, P2, A, G, R, Q)' BY <1>1, <1>2, <1>3, <2>2, NodeVotesKeep
  <2>4. PreparedNode(k, s, R2)'
    <3>1. k \in R2 => s <= step[k]
      BY <1>1, <1>2, NodeTypes, ConfigAssumption DEF PreparedNode, Steps
    <3>2. PreparedNode(k, s, R)' BY <2>3 DEF NodeVotes
    <3> QED BY <1>2, <1>3, <3>1, <3>2 DEF PreparedNode
  <2> QED BY <2>3, <2>4 DEF NodeVotes
<1>7. ASSUME NEW k \in Nodes, NEW p \in Nodes PROVE StaleQueued(k, p, s)'
  <2>1. \A x \in S : Stale(x, s) => NodeOf(c) \notin R /\ \E d \in Calls : Host[d] = NodeOf(c)
    BY <1>0
  <2>2. Ballots(s, P, A, G, R) /\ PreparedNode(k, s, R) /\ StaleQueued(k, p, s) BY <1>1
  <2>3. \A j \in DOMAIN inbox'[k][p] :
          /\ Stale(inbox'[k][p][j], s)
          /\ ~(step[k] = s /\ inst[k].maxID = FirstID[p])
          => ~(step'[k] = s /\ inst'[k].maxID = FirstID[p])
    BY <1>3
  <2>4. PICK m : Queues(c, S, m) BY <1>3
  <2> QED BY <1>0, <1>3, <2>1, <2>2, <2>3, <2>4, StaleQueuedKeeps
<1>8. ASSUME NEW d \in Calls PROVE CallVotes(d, s, P2, A, R2, F, Q)'
  <2>1. CASE d = c BY <2>1
  <2>2. CASE d # c
    <3>1. Host[d] # Host[c] /\ Host[d] \in Nodes /\ d \in Goroutines BY <1>0, <2>2, OneCall
    <3>2. Host[d] \in R2 => Host[d] \in R BY <1>2, <3>1
    <3>3. /\ PreparedCall(d, s, R) /\ StaleHeld(d, s, R) /\ PreparedNode(Host[d], s, R)
          /\ ProposerAt(d, s, P, A, F) /\ BestAt(d, s, P, A, Q)
      BY <1>1, <3>1 DEF CallVotes
    <3>4. /\ tag'[d] = tag[d] /\ out'[d] = out[d] /\ local'[d] = local[d] /\ P2[d] = P[d]
          /\ promiseChan'[Host[d]][s] = promiseChan[Host[d]][s]
          /\ step'[Host[d]] = step[Host[d]] /\ SameProposer(Host[d])
      BY <1>2, <1>3, <2>2, <3>1 DEF SameNode
    <3>5. PreparedCall(d, s, R2)'
      <4>1. PreparedCall(d, s, R)' BY <1>4, <3>1, <3>3, <3>4, PreparedCallKeeps
      <4> QED BY <3>2, <4>1 DEF PreparedCall
    <3>6. StaleHeld(d, s, R2)'
      <4>1. StaleHeld(d, s, R)' BY <3>3, <3>4, StaleHeldKeeps
      <4> QED BY <3>2, <4>1 DEF StaleHeld
    <3>7. ProposerAt(d, s, P2, A, F)'
      BY <1>2, <1>4, <3>3, <3>4, ProposerKeeps
    <3>8. BestAt(d, s, P2, A, Q)'
      BY <1>1, <1>2, <1>4, <3>3, <3>4, BestKeeps DEF SameProposer
    <3> QED BY <3>5, <3>6, <3>7, <3>8 DEF CallVotes
  <2> QED BY <2>1, <2>2
<1> QED BY <1>5, <1>6, <1>7, <1>8, VotingParts DEF Voting, NodeVotes, CallVotes

\* What a step of the call c meets
LEMMA CallFacts ==
  ASSUME TypeOK, TypeOK', TwoProposers, NEW c \in Calls, NEW S, CallStep(c, S),
         NEW s \in Steps,
         NEW P, NEW A, NEW G, NEW R, NEW F, NEW Q, Voting(s, P, A, G, R, F, Q)
  PROVE  /\ Promising(s, F, Q) /\ VotesType(P, A, G, R) /\ Ballots(s, P, A, G, R)
         /\ Grown(s, P, A, P, A) /\ Moves(c, s, P, A, R, P, R)
         /\ PreparedCall(c, s, R) /\ StaleHeld(c, s, R)
         /\ ProposerAt(c, s, P, A, F) /\ BestAt(c, s, P, A, Q)
         /\ \A k \in Nodes : Rises(k) /\ PreparedNode(k, s, R)
         /\ Host[c] \in Nodes /\ NodeOf(c) = Host[c] /\ c \in Goroutines
         /\ step'[Host[c]] = step[Host[c]] /\ step[Host[c]] \in Nat /\ s \in Nat
         /\ S \in SUBSET Message /\ Flows(c, S)
<1>1. /\ Promising(s, F, Q) /\ VotesType(P, A, G, R) /\ Ballots(s, P, A, G, R)
      /\ Grown(s, P, A, P, A) /\ CallVotes(c, s, P, A, R, F, Q)
      /\ \A k \in Nodes : PreparedNode(k, s, R)
  BY VotingFacts
<1>2. Host[c] \in Nodes /\ NodeOf(c) = Host[c] /\ c \in Goroutines
  BY HostType DEF NodeOf, Goroutines
<1>3. /\ S \in SUBSET Message /\ Flows(c, S)
      /\ \A k \in Nodes : step'[k] = step[k] /\ inst'[k].maxID = inst[k].maxID
  BY DEF CallStep, SameVoter
<1>4. \A k \in Nodes : Rises(k) BY <1>3, VoterRises
<1>5. Moves(c, s, P, A, R, P, R) BY <1>1 DEF Moves, VotesType
<1>6. step[Host[c]] \in Nat /\ s \in Nat BY <1>2, NodeTypes, ConfigAssumption DEF Steps
<1> QED BY <1>1, <1>2, <1>3, <1>4, <1>5, <1>6 DEF CallVotes

\* A call that moves on outside its phases changes no vote.
LEMMA CallMovedVoting ==
  ASSUME TypeOK, TypeOK', Alone, TwoProposers, NEW c \in Calls, CallMoved(c),
         NEW s \in Steps,
         NEW P, NEW A, NEW G, NEW R, NEW F, NEW Q, Voting(s, P, A, G, R, F, Q)
  PROVE  Voting(s, P, A, G, R, F, Q)'
<1>1. PICK S : S = {} OBVIOUS
<1>2. CallStep(c, S) BY <1>1, CallSteps
<1>3. /\ Promising(s, F, Q) /\ Grown(s, P, A, P, A) /\ Moves(c, s, P, A, R, P, R)
      /\ PreparedCall(c, s, R) /\ StaleHeld(c, s, R)
      /\ ProposerAt(c, s, P, A, F) /\ BestAt(c, s, P, A, Q)
      /\ \A k \in Nodes : Rises(k) /\ PreparedNode(k, s, R)
      /\ Host[c] \in Nodes /\ S \in SUBSET Message /\ Flows(c, S) /\ c \in Goroutines
      /\ step'[Host[c]] = step[Host[c]]
  BY <1>2, CallFacts
<1>4. /\ tag'[c].pc \notin {"promise", "phase2"} /\ out' = out /\ local' = local
      /\ promiseChan' = promiseChan /\ SameProposer(Host[c])
  BY <1>3 DEF CallMoved, SameNode, messageVars
<1>5. Promising(s, F, Q)' BY <1>3, CallPromising
<1>6. Ballots(s, P, A, G, R)'
  <2>1. \A x \in S :
          /\ x.type \notin {"propose", "accept"}
          /\ \A k \in Nodes : Goes(x, k) => Carried(x, k, NodeOf(c), s, P, A, G, R)'
    BY <1>1
  <2>2. R \subseteq R /\ \A k \in Nodes : Rises(k) BY <1>3
  <2> QED BY <1>3, <2>1, <2>2, BallotsStay
<1>7. CallVotes(c, s, P, A, R, F, Q)'
  <2>1. PreparedCall(c, s, R)' BY <1>4 DEF PreparedCall
  <2>2. StaleHeld(c, s, R)' BY <1>3, <1>4, StaleHeldKeeps
  <2>3. \A k \in Nodes : Rises(k) BY <1>3
  <2>4. ProposerAt(c, s, P, A, F)' BY <1>3, <1>4, <2>3, ProposerKeeps
  <2>5. BestAt(c, s, P, A, Q)' BY <1>3, <1>4, <2>3, BestKeeps DEF SameProposer
  <2> QED BY <2>1, <2>2, <2>4, <2>5 DEF CallVotes
<1>8. \A x \in S : Stale(x, s) => Host[c] \notin R BY <1>1
<1> QED BY <1>2, <1>3, <1>5, <1>6, <1>7, <1>8, CallStepVoting

\* A prepare makes its node one that has prepared.
LEMMA PreparedVoting ==
  ASSUME TypeOK, TypeOK', Alone, TwoProposers, NEW c \in Calls, Prepared(c),
         NEW s \in Steps,
         NEW P, NEW A, NEW G, NEW R, NEW F, NEW Q, Voting(s, P, A, G, R, F, Q)
  PROVE  \E R2 : Voting(s, P, A, G, R2, F, Q)'
<1>0. PICK n : n = Host[c] OBVIOUS
<1>1. PICK p : p = PrepareFor(c) OBVIOUS
<1>2. PICK S : S = {p} OBVIOUS
<1>3. CallStep(c, S) BY <1>1, <1>2, CallSteps
<1>4. PICK R2 : R2 = IF step[n] = s THEN R \cup {n} ELSE R OBVIOUS
<1>5. /\ Promising(s, F, Q) /\ Grown(s, P, A, P, A) /\ VotesType(P, A, G, R)
      /\ PreparedCall(c, s, R) /\ StaleHeld(c, s, R)
      /\ ProposerAt(c, s, P, A, F) /\ BestAt(c, s, P, A, Q)
      /\ \A k \in Nodes : Rises(k) /\ PreparedNode(k, s, R)
      /\ Host[c] \in Nodes /\ S \in SUBSET Message /\ Flows(c, S) /\ c \in Goroutines
      /\ NodeOf(c) = Host[c] /\ step'[Host[c]] = step[Host[c]]
  BY <1>3, CallFacts
<1>6. /\ tag'[c].pc = "promise" /\ tag'[c].chan = step[n] /\ promiseChan' = promiseChan
      /\ inst'[n].bestID = inst[n].bestID /\ inst'[n].bestValue = inst[n].bestValue
      /\ inst'[n].proposedValue.step = step[n]
      /\ Places(c, S)
  BY <1>0, <1>1, <1>2 DEF Prepared
<1>7. p.type = "prepare" /\ p.step = step[n] BY <1>0, <1>1 DEF PrepareFor
<1>8. Promising(s, F, Q)' BY <1>5, CallPromising
<1>9. Moves(c, s, P, A, R, P, R2) /\ R \subseteq R2 /\ (step[n] = s => n \in R2)
  BY <1>0, <1>4, <1>5 DEF Moves, VotesType
<1>10. Ballots(s, P, A, G, R2)'
  <2>1. ASSUME NEW k PROVE Carried(p, k, n, s, P, A, G, R2)'
    BY <1>0, <1>7, <1>9 DEF Carried, Genuine, IsPrepare
  <2>2. \A x \in S :
          /\ x.type \notin {"propose", "accept"}
          /\ \A k \in Nodes : Goes(x, k) => Carried(x, k, NodeOf(c), s, P, A, G, R2)'
    <3> SUFFICES ASSUME NEW x \in S, NEW k
                 PROVE  x.type = "prepare" /\ Carried(x, k, n, s, P, A, G, R2)'
      BY <1>0, <1>5
    <3> QED BY <1>2, <1>7, <2>1
  <2>3. \A k \in Nodes : Rises(k) BY <1>5
  <2> QED BY <1>5, <1>9, <2>2, <2>3, BallotsStay
<1>11. CallVotes(c, s, P, A, R2, F, Q)'
  <2>1. PreparedCall(c, s, R2)' BY <1>0, <1>5, <1>6 DEF PreparedCall
  <2>2. StaleHeld(c, s, R2)'
    <3>1. \A x \in S : ~Stale(x, s) BY <1>2, <1>7 DEF Stale
    <3>2. /\ out'[c] # None => out'[c] \in S
          /\ local'[c] # None => local'[c] \in S
      BY <1>6 DEF Places
    <3> QED BY <3>1, <3>2 DEF StaleHeld, Stale
  <2>3. \A k \in Nodes : Rises(k) BY <1>5
  <2>4. ProposerAt(c, s, P, A, F)' BY <1>0, <1>5, <1>6, <2>3, ProposerKeeps
  <2>5. BestAt(c, s, P, A, Q)' BY <1>0, <1>5, <1>6, <2>3, BestKeeps
  <2> QED BY <2>1, <2>2, <2>4, <2>5 DEF CallVotes
<1>12. \A x \in S : Stale(x, s) => Host[c] \notin R BY <1>2, <1>7 DEF Stale
<1>13. Voting(s, P, A, G, R2, F, Q)'
  BY <1>3, <1>8, <1>9, <1>10, <1>11, <1>12, CallStepVoting
<1> QED BY <1>13

\* What a promise channel has is a value of its step.
ChannelValues(n) ==
  \A t \in Steps : promiseChan[n][t] # <<>> =>
    Head(promiseChan[n][t]) = None \/ Head(promiseChan[n][t]).step = t

\* A call that takes the value of the channel may propose it.
LEMMA ValueTakenVoting ==
  ASSUME TypeOK, TypeOK', Alone, TwoProposers, NEW c \in Calls, ValueTaken(c),
         ChannelValues(Host[c]), NEW s \in Steps,
         NEW P, NEW A, NEW G, NEW R, NEW F, NEW Q, Voting(s, P, A, G, R, F, Q)
  PROVE  Voting(s, P, A, G, R, F, Q)'
<1>0. PICK n : n = Host[c] OBVIOUS
<1>1. PICK S : S = {} OBVIOUS
<1>2. CallStep(c, S) BY <1>1, CallSteps
<1>3. /\ Promising(s, F, Q) /\ Grown(s, P, A, P, A) /\ Moves(c, s, P, A, R, P, R)
      /\ PreparedCall(c, s, R) /\ StaleHeld(c, s, R)
      /\ ProposerAt(c, s, P, A, F) /\ BestAt(c, s, P, A, Q)
      /\ \A k \in Nodes : Rises(k) /\ PreparedNode(k, s, R)
      /\ n \in Nodes /\ S \in SUBSET Message /\ Flows(c, S) /\ c \in Goroutines
      /\ step'[n] = step[n]
  BY <1>0, <1>2, CallFacts
<1>4. PICK ch : ch = tag[c].chan OBVIOUS
<1>5. PICK v : v = Head(promiseChan[n][ch]) OBVIOUS
<1>6. /\ tag[c].pc = "promise" /\ promiseChan[n][ch] # <<>>
      /\ tag'[c].pc = IF v = None THEN "done" ELSE "phase2"
      /\ tag'[c].value = v
      /\ promiseChan' = [promiseChan EXCEPT ![n][ch] = <<>>]
      /\ out' = out /\ local' = local /\ SameProposer(n)
  BY <1>0, <1>3, <1>4, <1>5 DEF ValueTaken, SameNode, messageVars
<1>7. ch \in Steps BY <1>4 DEF TypeOK, TagState
<1>8. v = None \/ v.step = ch BY <1>0, <1>5, <1>6, <1>7 DEF ChannelValues
<1>9. /\ promiseChan'[n][s] = promiseChan[n][s] \/ promiseChan'[n][s] = <<>>
      /\ ch = s => promiseChan'[n][s] = <<>>
  BY <1>3, <1>6, <1>7 DEF TypeOK
<1>10. Promising(s, F, Q)' BY <1>3, CallPromising
<1>11. Ballots(s, P, A, G, R)'
  <2>1. \A x \in S :
          /\ x.type \notin {"propose", "accept"}
          /\ \A k \in Nodes : Goes(x, k) => Carried(x, k, NodeOf(c), s, P, A, G, R)'
    BY <1>1
  <2>2. R \subseteq R /\ \A k \in Nodes : Rises(k) BY <1>3
  <2> QED BY <1>3, <2>1, <2>2, BallotsStay
<1>12. \A k \in Nodes : Rises(k) BY <1>3
<1>13. PreparedCall(c, s, R)'
  <2>1. tag'[c].pc # "promise" BY <1>6
  <2>2. ASSUME tag'[c].pc = "phase2", n \in R, step'[n] = s PROVE tag'[c].value.step = s
    <3>1. ch = s BY <1>0, <1>3, <1>4, <1>6, <2>2 DEF PreparedCall
    <3> QED BY <1>6, <1>8, <2>2, <3>1
  <2> QED BY <1>0, <2>1, <2>2 DEF PreparedCall
<1>14. StaleHeld(c, s, R)' BY <1>3, <1>6, StaleHeldKeeps
<1>15. BestAt(c, s, P, A, Q)' BY <1>0, <1>3, <1>6, <1>12, BestKeeps DEF SameProposer
<1>16. ProposerAt(c, s, P, A, F)'
  <2>1. CASE ~(tag'[c].pc = "phase2" /\ tag'[c].value.step = s)
    BY <1>0, <1>3, <1>9, <1>12, <2>1, ProposerKeeps
  <2>2. CASE tag'[c].pc = "phase2" /\ tag'[c].value.step = s
    <3>1. v # None /\ ch = s BY <1>6, <1>8, <2>2
    <3>2. PICK B : B = Blocked(c, s, A) OBVIOUS
    <3>3. PICK B2 : B2 = Blocked(c, s, A)' OBVIOUS
    <3>4. Safe(c, v, s, P, B) BY <1>0, <1>3, <1>5, <1>6, <3>1, <3>2 DEF ProposerAt
    <3>5. Safe(c, v, s, P, B2) BY <1>3, <1>12, <3>2, <3>3, <3>4, SafeStays
    <3>6. P[c] = None BY <1>0, <1>3, <1>6, <3>1 DEF ProposerAt
    <3>7. n \in F BY <1>3, <1>6, <3>1 DEF Promising, PromiseCount
    <3>8. promiseChan'[n][s] = <<>> BY <1>9, <3>1
    <3> QED BY <1>0, <1>6, <3>3, <3>5, <3>6, <3>7, <3>8 DEF ProposerAt
  <2> QED BY <2>1, <2>2
<1>17. CallVotes(c, s, P, A, R, F, Q)' BY <1>13, <1>14, <1>15, <1>16 DEF CallVotes
<1>18. \A x \in S : Stale(x, s) => Host[c] \notin R BY <1>1
<1> QED BY <1>2, <1>3, <1>10, <1>11, <1>17, <1>18, CallStepVoting

\* A call proposes a value of the step, or one of a step that is over.
LEMMA ProposedVoting ==
  ASSUME TypeOK, TypeOK', Alone, TwoProposers, NEW c \in Calls, Proposed(c),
         NEW s \in Steps,
         NEW P, NEW A, NEW G, NEW R, NEW F, NEW Q, Voting(s, P, A, G, R, F, Q)
  PROVE  \E P2 : Voting(s, P2, A, G, R, F, Q)'
<1>0. PICK n : n = Host[c] OBVIOUS
<1>1. PICK p : p = ProposalOf(c) OBVIOUS
<1>2. PICK S : S = {p} OBVIOUS
<1>3. CallStep(c, S) BY <1>1, <1>2, CallSteps
<1>4. /\ Promising(s, F, Q) /\ Grown(s, P, A, P, A) /\ VotesType(P, A, G, R)
      /\ PreparedCall(c, s, R) /\ StaleHeld(c, s, R) /\ Ballots(s, P, A, G, R)
      /\ ProposerAt(c, s, P, A, F) /\ BestAt(c, s, P, A, Q)
      /\ \A k \in Nodes : Rises(k) /\ PreparedNode(k, s, R)
      /\ n \in Nodes /\ S \in SUBSET Message /\ Flows(c, S) /\ c \in Goroutines
      /\ NodeOf(c) = n /\ step'[n] = step[n]
      /\ Moves(c, s, P, A, R, P, R)
  BY <1>0, <1>3, CallFacts
<1>5. \A k \in Nodes : Rises(k) BY <1>4
<1>6. /\ tag[c].pc = "phase2" /\ tag'[c].pc = "value" /\ promiseChan' = promiseChan
      /\ Places(c, S) /\ p \in Message /\ SameProposer(n)
  BY <1>0, <1>1, <1>2, <1>4 DEF Proposed, SameNode
<1>7. /\ p.type = "propose" /\ p.step = step[n] /\ p.id = FirstID[n]
      /\ p.val = tag[c].value /\ p.val # None
  BY <1>0, <1>1, <1>6 DEF ProposalOf, TypeOK
<1>8. Promising(s, F, Q)' BY <1>4, CallPromising
<1>9. ASSUME NEW P2, Grown(s, P, A, P2, A)
      PROVE  PreparedCall(c, s, R)' /\ BestAt(c, s, P2, A, Q)'
  <2>1. PreparedCall(c, s, R)' BY <1>6 DEF PreparedCall
  <2>2. BestAt(c, s, P2, A, Q)'
    BY <1>0, <1>4, <1>5, <1>6, <1>9, BestKeeps DEF SameProposer
  <2> QED BY <2>1, <2>2
<1>10. /\ out'[c] # None => out'[c] = p
       /\ local'[c] # None => local'[c] = p
  BY <1>2, <1>6 DEF Places
<1>11. CASE ~Genuine(p, s)
  <2>1. Stale(p, s) => n \notin R
    <3> SUFFICES ASSUME Stale(p, s), n \in R PROVE FALSE OBVIOUS
    <3>1. step[n] = s /\ tag[c].value.step # s BY <1>7 DEF Stale
    <3> QED BY <1>0, <1>4, <1>6, <3>1 DEF PreparedCall
  <2>2. Ballots(s, P, A, G, R)'
    <3>1. ASSUME NEW k PROVE Carried(p, k, n, s, P, A, G, R)'
      BY <1>0, <1>7, <1>11 DEF Carried, Genuine, IsPrepare
    <3>2. \A x \in S : \A k \in Nodes : Goes(x, k) =>
            /\ Carried(x, k, NodeOf(c), s, P, A, G, R)'
            /\ Genuine(x, s) => \A y \in Proposals(s) : ~Going(y, k, NodeOf(c))
            /\ \A d \in Calls : x \in AcceptsOf(d, s) =>
                 \A y \in AcceptsOf(d, s) : ~Going(y, k, NodeOf(c))
      <4> SUFFICES ASSUME NEW x \in S, NEW k
                   PROVE  /\ Carried(x, k, n, s, P, A, G, R)' /\ ~Genuine(x, s)
                          /\ \A d \in Calls : x \notin AcceptsOf(d, s)
        BY <1>4
      <4>1. \A d \in Calls : p \notin AcceptsOf(d, s) BY <1>7 DEF AcceptsOf
      <4> QED BY <1>2, <1>11, <3>1, <4>1
    <3>3. R \subseteq R OBVIOUS
    <3> QED BY <1>4, <3>2, <3>3, BallotsKeep
  <2>3. CallVotes(c, s, P, A, R, F, Q)'
    <3>1. StaleHeld(c, s, R)' BY <1>0, <1>10, <2>1 DEF StaleHeld, Stale
    <3>2. ProposerAt(c, s, P, A, F)' BY <1>0, <1>4, <1>5, <1>6, ProposerKeeps
    <3> QED BY <1>4, <1>9, <3>1, <3>2 DEF CallVotes
  <2>4. \A x \in S : Stale(x, s) => Host[c] \notin R BY <1>0, <1>2, <2>1
  <2>5. Voting(s, P, A, G, R, F, Q)'
    BY <1>3, <1>4, <1>8, <2>2, <2>3, <2>4, CallStepVoting
  <2> QED BY <2>5
<1>12. CASE Genuine(p, s)
  <2>1. PICK v : v = p.val OBVIOUS
  <2>2. v.step = s /\ v # None /\ tag[c].value = v /\ v \in Value
    <3>1. v \in Value BY <1>6, <1>7, <2>1, MessageCases DEF ProposeMsg
    <3> QED BY <1>7, <1>12, <2>1, <3>1 DEF Genuine
  <2>3. PICK B : B = Blocked(c, s, A) OBVIOUS
  <2>4. /\ Safe(c, v, s, P, B) /\ n \in F /\ promiseChan[n][s] = <<>> /\ P[c] = None
    BY <1>0, <1>4, <1>6, <2>2, <2>3 DEF ProposerAt
  <2>5. PICK P2 : P2 = [P EXCEPT ![c] = v] OBVIOUS
  <2>6. P2[c] = v /\ \A d \in Calls \ {c} : P2[d] = P[d]
    BY <1>4, <2>5 DEF VotesType
  <2>7. Grown(s, P, A, P2, A) /\ Moves(c, s, P, A, R, P2, R)
    <3>1. P2 \in [Calls -> ValueOrNone] BY <1>4, <2>2, <2>5 DEF VotesType, ValueOrNone
    <3>2. Grown(s, P, A, P2, A) BY <1>4, <2>4, <2>6, <3>1 DEF VotesType, Grown
    <3> QED BY <1>4, <2>6, <3>2 DEF Moves
  <2>8. \A k \in Nodes : k \notin A[c]
    BY <2>4, VotingFacts DEF AcceptorAtAll, AcceptorAt
  <2>9. Ballots(s, P2, A, G, R)'
    <3>1. ASSUME NEW k \in Nodes PROVE Carried(p, k, n, s, P2, A, G, R)'
      <4>1. \A d \in Calls : Host[d] = n => p.val = P2[d] /\ k \notin A[d]
        <5> SUFFICES ASSUME NEW d \in Calls, Host[d] = n PROVE p.val = P2[d] /\ k \notin A[d]
          OBVIOUS
        <5>1. d = c BY <1>0, OneCall
        <5> QED BY <2>1, <2>6, <2>8, <5>1
      <4> QED BY <1>0, <1>7, <4>1 DEF Carried, Genuine, IsPrepare
    <3>2. ASSUME NEW k \in Nodes, NEW y \in Proposals(s) PROVE ~Going(y, k, n)
      <4> SUFFICES ASSUME Going(y, k, n) PROVE FALSE OBVIOUS
      <4>1. y \in Message /\ Genuine(y, s) BY DEF Proposals
      <4>2. Carried(y, k, n, s, P, A, G, R) BY <1>4, <4>1 DEF Ballots
      <4>3. y.val = P[c] BY <1>0, <4>1, <4>2 DEF Carried
      <4>4. y.val \in Value BY <4>1, MessageCases DEF Genuine, ProposeMsg
      <4> QED BY <2>4, <4>3, <4>4, ValueAssumption
    <3>3. \A x \in S : \A k \in Nodes : Goes(x, k) =>
            /\ Carried(x, k, NodeOf(c), s, P2, A, G, R)'
            /\ Genuine(x, s) => \A y \in Proposals(s) : ~Going(y, k, NodeOf(c))
            /\ \A d \in Calls : x \in AcceptsOf(d, s) =>
                 \A y \in AcceptsOf(d, s) : ~Going(y, k, NodeOf(c))
      <4> SUFFICES ASSUME NEW x \in S, NEW k \in Nodes
                   PROVE  /\ Carried(x, k, n, s, P2, A, G, R)'
                          /\ \A y \in Proposals(s) : ~Going(y, k, n)
                          /\ \A d \in Calls : x \notin AcceptsOf(d, s)
        BY <1>4
      <4>1. \A d \in Calls : p \notin AcceptsOf(d, s) BY <1>7 DEF AcceptsOf
      <4> QED BY <1>2, <3>1, <3>2, <4>1
    <3>4. R \subseteq R OBVIOUS
    <3> QED BY <1>4, <2>7, <3>3, <3>4, BallotsKeep
  <2>10. CallVotes(c, s, P2, A, R, F, Q)'
    <3>1. StaleHeld(c, s, R)' BY <1>10, <1>12 DEF StaleHeld, Stale, Genuine
    <3>2. ProposerAt(c, s, P2, A, F)'
      <4>1. PICK B2 : B2 = Blocked(c, s, A)' OBVIOUS
      <4>2. Safe(c, v, s, P2, B2) BY <1>5, <2>3, <2>4, <2>7, <4>1, SafeStays
      <4> QED BY <1>0, <1>6, <2>4, <2>6, <4>1, <4>2 DEF ProposerAt
    <3> QED BY <1>9, <2>7, <3>1, <3>2 DEF CallVotes
  <2>11. \A x \in S : Stale(x, s) => Host[c] \notin R
    BY <1>2, <1>12 DEF Stale, Genuine
  <2>12. Voting(s, P2, A, G, R, F, Q)'
    BY <1>3, <1>8, <2>7, <2>9, <2>10, <2>11, CallStepVoting
  <2> QED BY <2>12
<1> QED BY <1>11, <1>12

\* No listener that has a late promise to broadcast has accepted a value.
LateQuiet == \A k \in Nodes : Late(k) => inst[k].acceptedValue = None

\* What is broadcast is what g held, or a promise with the value accepted by now.
LEMMA MarshalledParts ==
  ASSUME TypeOK, NEW g \in Goroutines, NEW p, Broadcasted(g, p), NEW n, n = NodeOf(g)
  PROVE  /\ out[g] # None /\ out[g] \in Message /\ p \in Message
         /\ \/ p = out[g]
            \/ /\ out[g].type = "promise" /\ p.type = "promise"
               /\ p.step = out[g].step /\ p.id = out[g].id /\ p.accID = out[g].accID
               /\ p.dest = out[g].dest /\ p.accVal = inst[n].acceptedValue
<1>1. out[g] # None /\ out[g] \in Message /\ p \in Message /\ p \in Marshalled(n, out[g])
  BY DEF Broadcasted
<1>2. CASE p = out[g] BY <1>1, <1>2
<1>3. CASE p # out[g]
  <2>1. out[g].type = "promise" /\ p = [out[g] EXCEPT !.accVal = inst[n].acceptedValue]
    BY <1>1, <1>3 DEF Marshalled
  <2>2. out[g] \in PromiseMsg BY <1>1, <2>1, MessageCases
  <2> QED BY <1>1, <2>1, <2>2 DEF PromiseMsg
<1> QED BY <1>2, <1>3

\* The value of a promise that is marshalled late is none where it would matter.
LEMMA MarshalledReports ==
  ASSUME TypeOK, AcceptorInv, Roles, LateQuiet, NEW g \in Goroutines, NEW p, Broadcasted(g, p),
         NEW n \in Nodes, n = NodeOf(g), NEW P, NEW A, NEW k \in Nodes, Goes(p, k),
         p.type = "promise", step[k] = p.step, Reports(out[g], n, P, A)
  PROVE  Reports(p, n, P, A)
<1>1. CASE p = out[g] BY <1>1
<1>2. CASE p # out[g]
  <2>1. /\ out[g] # None /\ out[g] \in Message
        /\ out[g].type = "promise"
        /\ p.step = out[g].step /\ p.id = out[g].id /\ p.accID = out[g].accID
        /\ p.dest = out[g].dest /\ p.accVal = inst[n].acceptedValue
    BY <1>2, MarshalledParts
  <2>2. out[g] \in UnderWay(n) BY <2>1, UnderWayHas
  <2>3. p.step <= step[n] BY <2>1, <2>2 DEF AcceptorInv
  <2>4. step[n] \in Nat /\ p.step \in Nat
    <3>1. p.step \in OpenSteps BY <2>1, MessageCases DEF PromiseMsg
    <3> QED BY <3>1, NodeTypes, ConfigAssumption DEF OpenSteps
  <2>5. CASE p.accID = 0 BY <2>1, <2>5 DEF Reports
  <2>6. CASE p.accID # 0 /\ step[n] = p.step
    <3>1. Holds(n, out[g]) BY <2>1, <2>2, <2>6 DEF AcceptorInv, PromisesHold
    <3>2. p.accVal = out[g].accVal BY <2>1, <2>6, <3>1 DEF Holds
    <3> QED BY <2>1, <3>2 DEF Reports
  <2>7. CASE p.accID # 0 /\ step[n] > p.step
    <3>1. CASE g \in Nodes
      <4>1. g = n BY <3>1, PopulationAssumption DEF NodeOf
      <4>2. Late(n) BY <2>1, <2>7, <4>1, <2>4 DEF Late
      <4>3. p.accVal = None BY <2>1, <4>2 DEF LateQuiet
      <4> QED BY <2>7, <4>3 DEF Reports
    <3>2. CASE g \notin Nodes
      <4>1. g \in Calls /\ Host[g] = n BY <3>2 DEF Goroutines, NodeOf
      <4>2. p.dest = n BY <2>1, <4>1 DEF Roles
      <4>3. k = n BY <4>2 DEF Goes
      <4> QED BY <2>4, <2>7, <4>3
    <3> QED BY <3>1, <3>2
  <2> QED BY <2>3, <2>4, <2>5, <2>6, <2>7
<1> QED BY <1>1, <1>2

\* A broadcast moves the messages of the step and adds none.
LEMMA BroadcastedBallots ==
  ASSUME TypeOK, TypeOK', AcceptorInv, Roles, LateQuiet, TwoProposers,
         NEW g \in Goroutines, NEW p, Broadcasted(g, p), NEW s \in Steps,
         NEW P, NEW A, NEW G, NEW R, NEW F, NEW Q, Voting(s, P, A, G, R, F, Q)
  PROVE  Ballots(s, P, A, G, R)'
<1>0. PICK n \in Nodes : n = NodeOf(g) BY NodeOfType
<1>1. PICK q : q = out[g] OBVIOUS
<1>2. /\ q # None /\ q \in Message /\ p \in Message
      /\ \A k, o \in Nodes :
           /\ \A x \in Message :
                Going(x, k, o)' => Going(x, k, o) \/ (x = p /\ o = n /\ Goes(p, k))
           /\ \A M \in SUBSET Message :
                One(M, k, o) /\ (p \in M => q \in M) => One(M, k, o)'
      /\ \A k \in Nodes : Goes(p, k) => Going(q, k, n)
      /\ \A k \in Nodes : SameNode(k)
  BY <1>0, <1>1 DEF Broadcasted
<1>3. /\ Promising(s, F, Q) /\ Grown(s, P, A, P, A) /\ Ballots(s, P, A, G, R)
      /\ \A k \in Nodes : PreparedNode(k, s, R)
  BY VotingFacts
<1>4. p = q \/ (q.type = "promise" /\ p.type = "promise")
  BY <1>0, <1>1, MarshalledParts
<1>5. \A k \in Nodes : Rises(k) BY <1>2, SameRises
<1>6. \A k, o \in Nodes : \A x \in Message :
        Going(x, k, o) => Carried(x, k, o, s, P, A, G, R)'
  <2> SUFFICES ASSUME NEW k \in Nodes, NEW o \in Nodes, NEW x \in Message, Going(x, k, o)
               PROVE  Carried(x, k, o, s, P, A, G, R)'
    OBVIOUS
  <2>1. Carried(x, k, o, s, P, A, G, R) BY <1>3 DEF Ballots
  <2>2. R \subseteq R OBVIOUS
  <2> QED BY <1>3, <1>5, <2>1, <2>2, CarriedStays
<1>7. ASSUME NEW k \in Nodes, Goes(p, k) PROVE Carried(p, k, n, s, P, A, G, R)'
  <2>1. Going(q, k, n) /\ Carried(q, k, n, s, P, A, G, R)' BY <1>2, <1>6, <1>7
  <2>2. CASE p = q BY <2>1, <2>2
  <2>3. CASE p # q
    <3>1. p.type = "promise" /\ q.type = "promise" /\ p.step = q.step
      BY <1>0, <1>1, <2>3, MarshalledParts
    <3>2. ASSUME p.step = s
          PROVE  k \in R /\ (step'[k] = s => Reports(p, n, P, A))
      <4>1. Carried(q, k, n, s, P, A, G, R) BY <1>2, <1>3, <2>1 DEF Ballots
      <4>2. k \in R /\ (step[k] = s => Reports(q, n, P, A)) BY <3>1, <3>2, <4>1 DEF Carried
      <4>3. step'[k] = step[k] BY <1>2 DEF SameNode
      <4>4. step[k] = s => Reports(p, n, P, A)
        BY <1>0, <1>1, <1>7, <3>1, <3>2, <4>2, MarshalledReports
      <4> QED BY <4>2, <4>3, <4>4
    <3> QED BY <3>1, <3>2 DEF Carried, Genuine, IsPrepare, Reports, IdOf
  <2> QED BY <2>2, <2>3
<1>8. ASSUME NEW k \in Nodes, NEW o \in Nodes
      PROVE  /\ One(Proposals(s), k, o)'
             /\ \A c \in Calls : One(AcceptsOf(c, s), k, o)'
  <2>1. One(Proposals(s), k, o) /\ \A c \in Calls : One(AcceptsOf(c, s), k, o)
    BY <1>3 DEF Ballots
  <2>2. p \in Proposals(s) => q \in Proposals(s) BY <1>4 DEF Proposals, Genuine
  <2>3. \A c \in Calls : p \in AcceptsOf(c, s) => q \in AcceptsOf(c, s)
    BY <1>4 DEF AcceptsOf
  <2>4. /\ Proposals(s) \in SUBSET Message
        /\ \A c \in Calls : AcceptsOf(c, s) \in SUBSET Message
    BY DEF Proposals, AcceptsOf
  <2> QED BY <1>2, <2>1, <2>2, <2>3, <2>4
<1>9. ASSUME NEW k \in Nodes, NEW o \in Nodes, NEW x \in Message, Going(x, k, o)'
      PROVE  Carried(x, k, o, s, P, A, G, R)'
  <2>1. CASE Going(x, k, o) BY <1>6, <2>1
  <2>2. CASE x = p /\ o = n /\ Goes(p, k) BY <1>7, <2>2
  <2> QED BY <1>2, <1>9, <2>1, <2>2
<1> QED BY <1>8, <1>9 DEF Ballots, Proposals, AcceptsOf, Genuine, IdOf

\* What is broadcast of the step s from a node that has prepared is not stale.
LEMMA BroadcastedStale ==
  ASSUME TypeOK, Roles, NEW g \in Goroutines, NEW p, Broadcasted(g, p), NEW s, NEW R,
         \A c \in Calls : StaleHeld(c, s, R), Stale(p, s)
  PROVE  NodeOf(g) \notin R /\ p = out[g] /\ \E c \in Calls : Host[c] = NodeOf(g)
<1>1. out[g] # None /\ p = out[g]
  <2>1. p.type # "promise" BY DEF Stale
  <2> QED BY <2>1, MarshalledParts
<1>2. g \in Calls BY <1>1 DEF Roles, Stale, Goroutines
<1>3. Host[g] \notin R BY <1>1, <1>2 DEF StaleHeld
<1>4. NodeOf(g) = Host[g] BY <1>2 DEF NodeOf
<1> QED BY <1>1, <1>2, <1>3, <1>4

\* A broadcast changes no vote.
LEMMA BroadcastedVoting ==
  ASSUME TypeOK, TypeOK', AcceptorInv, Roles, LateQuiet, TwoProposers,
         NEW g \in Goroutines, NEW p, Broadcasted(g, p), NEW s \in Steps,
         NEW P, NEW A, NEW G, NEW R, NEW F, NEW Q, Voting(s, P, A, G, R, F, Q)
  PROVE  Voting(s, P, A, G, R, F, Q)'
<1>0. PICK n \in Nodes : n = NodeOf(g) BY NodeOfType
<1>1. PICK S : S = {p} OBVIOUS
<1>2. /\ Promising(s, F, Q) /\ VotesType(P, A, G, R) /\ Ballots(s, P, A, G, R)
      /\ \A k \in Nodes : NodeVotes(k, s, P, A, G, R, Q) /\ PreparedNode(k, s, R)
      /\ \A k, o \in Nodes : StaleQueued(k, o, s)
      /\ \A c \in Calls : CallVotes(c, s, P, A, R, F, Q)
      /\ IsFiniteSet(Calls) /\ AcceptorAtAll(s, P, A) /\ Grown(s, P, A, P, A)
  BY VotingFacts
<1>3. /\ p \in Message /\ Places(g, S) /\ \A x : Queues(g, S, x)
      /\ out'[g] = None /\ \A k \in Nodes : SameNode(k)
      /\ \A c \in Calls :
           /\ tag'[c].pc = tag[c].pc /\ tag'[c].value = tag[c].value
           /\ tag'[c].chan = tag[c].chan \/ (c = g /\ tag'[c].chan = step[n])
      /\ promiseChan' = promiseChan /\ blocks' = blocks
  BY <1>0, <1>1 DEF Broadcasted
<1>4. \A k \in Nodes : Rises(k) BY <1>3, SameRises
<1>5. /\ \A h \in Goroutines \ {g} : out'[h] = out[h] /\ local'[h] = local[h]
      /\ local'[g] # None => local'[g] = p
  BY <1>1, <1>3 DEF Places
<1>6. Promising(s, F, Q)' BY <1>2, BroadcastedPromising
<1>7. Ballots(s, P, A, G, R)' BY BroadcastedBallots
<1>8. ASSUME NEW k \in Nodes PROVE NodeVotes(k, s, P, A, G, R, Q)'
  <2>1. SameNode(k) /\ k \in Goroutines BY <1>3 DEF Goroutines
  <2>2. step'[k] = step[k] /\ SameVoter(k) /\ SameTally(k) BY <2>1 DEF SameNode
  <2>3. Late(k)' => Late(k) BY <1>3, <1>5, <2>1, <2>2 DEF Late
  <2>4. blocks'[k] = blocks[k] BY <1>3
  <2>5. NodeVotes(k, s, P, A, G, R, Q) BY <1>2
  <2> QED BY <1>2, <2>2, <2>3, <2>4, <2>5, NodeVotesKeep
<1>9. ASSUME NEW k \in Nodes, NEW o \in Nodes PROVE StaleQueued(k, o, s)'
  <2>1. \A c \in Calls : StaleHeld(c, s, R) BY <1>2 DEF CallVotes
  <2>2. \A x \in S : Stale(x, s) => NodeOf(g) \notin R /\ \E c \in Calls : Host[c] = NodeOf(g)
    <3> SUFFICES ASSUME Stale(p, s)
                 PROVE  NodeOf(g) \notin R /\ \E c \in Calls : Host[c] = NodeOf(g)
      BY <1>1
    <3> QED BY <2>1, BroadcastedStale
  <2>3. step'[k] = step[k] /\ inst'[k].maxID = inst[k].maxID
    BY <1>3 DEF SameNode, SameVoter
  <2>4. PreparedNode(k, s, R) /\ StaleQueued(k, o, s) BY <1>2
  <2>5. \A j \in DOMAIN inbox'[k][o] :
          /\ Stale(inbox'[k][o][j], s)
          /\ ~(step[k] = s /\ inst[k].maxID = FirstID[o])
          => ~(step'[k] = s /\ inst'[k].maxID = FirstID[o])
    BY <2>3
  <2>6. S \in SUBSET Message BY <1>1, <1>3
  <2>7. PICK m : Queues(g, S, m) BY <1>3
  <2> QED BY <1>2, <2>2, <2>4, <2>5, <2>6, <2>7, StaleQueuedKeeps
<1>10. ASSUME NEW c \in Calls PROVE CallVotes(c, s, P, A, R, F, Q)'
  <2>0. /\ Host[c] \in Nodes /\ c \in Goroutines
        /\ PreparedCall(c, s, R) /\ StaleHeld(c, s, R)
        /\ ProposerAt(c, s, P, A, F) /\ BestAt(c, s, P, A, Q) /\ PreparedNode(Host[c], s, R)
    BY <1>2, HostType DEF CallVotes, Goroutines
  <2>1. PreparedCall(c, s, R)'
    <3>1. c = g => n = Host[c] BY <1>0 DEF NodeOf
    <3>2. tag'[c].pc = "promise" =>
            tag[c].pc = "promise" /\ tag'[c].chan \in {tag[c].chan, step[Host[c]]}
      BY <1>3, <3>1
    <3>3. tag'[c].pc = "phase2" => tag[c].pc = "phase2" /\ tag'[c].value = tag[c].value
      BY <1>3
    <3>4. Rises(Host[c]) BY <1>4, <2>0
    <3> QED BY <2>0, <3>2, <3>3, <3>4, PreparedCallKeeps
  <2>2. StaleHeld(c, s, R)'
    <3>1. out'[c] # None => out'[c] = out[c] \/ ~Stale(out'[c], s)
      BY <1>3, <1>5, <2>0
    <3>2. local'[c] # None => \/ local'[c] = local[c] \/ ~Stale(local'[c], s)
                              \/ out[c] # None /\ local'[c] = out[c]
      <4>1. CASE c = g
        <5>1. out[g] # None BY DEF Broadcasted
        <5>2. \A d \in Calls : StaleHeld(d, s, R) BY <1>2 DEF CallVotes
        <5>3. Stale(p, s) => p = out[g] BY <5>2, BroadcastedStale
        <5> QED BY <1>5, <4>1, <5>1, <5>3
      <4>2. CASE c # g BY <1>5, <2>0, <4>2
      <4> QED BY <4>1, <4>2
    <3> QED BY <2>0, <3>1, <3>2, StaleHeldKeeps
  <2>3. /\ SameProposer(Host[c]) /\ step'[Host[c]] = step[Host[c]]
        /\ promiseChan'[Host[c]][s] = promiseChan[Host[c]][s]
    BY <1>3, <2>0 DEF SameNode
  <2>4. ProposerAt(c, s, P, A, F)' BY <1>2, <1>3, <1>4, <2>0, <2>3, ProposerKeeps
  <2>5. BestAt(c, s, P, A, Q)' BY <1>2, <1>4, <2>0, <2>3, BestKeeps DEF SameProposer
  <2> QED BY <2>1, <2>2, <2>4, <2>5 DEF CallVotes
<1>11. VotesType(P, A, G, R)' BY <1>2 DEF VotesType
<1> QED BY <1>6, <1>7, <1>8, <1>9, <1>10, <1>11, VotingParts DEF Voting, NodeVotes, CallVotes

-----------------------------------------------------------------------------
(* The roles *)

\* Who may put the message x in a place of g
Fits(g, x) ==
  /\ g \in Nodes => /\ x.type \notin {"prepare", "propose"}
                    /\ x.type = "promise" => x.dest # g
  /\ g \in Calls /\ x.type = "promise" => x.dest = Host[g]

\* What fits keeps the roles.
LEMMA RolesKeep ==
  ASSUME Roles, NEW g \in Goroutines, NEW S, Places(g, S), \A x \in S : Fits(g, x)
  PROVE  Roles'
<1>1. /\ \A h \in Goroutines \ {g} : out'[h] = out[h] /\ local'[h] = local[h]
      /\ out'[g] # None => Fits(g, out'[g])
      /\ local'[g] # None => Fits(g, local'[g]) /\ Goes(local'[g], NodeOf(g))
  BY DEF Places
<1>2. ASSUME NEW n \in Nodes
      PROVE  /\ local'[n] # None => local'[n].type \notin {"prepare", "propose", "promise"}
             /\ out'[n] # None => /\ out'[n].type \notin {"prepare", "propose"}
                                  /\ out'[n].type = "promise" => out'[n].dest # n
  <2>1. n \in Goroutines BY DEF Goroutines
  <2>2. CASE n = g
    <3>1. NodeOf(g) = g BY <2>2, PopulationAssumption DEF NodeOf
    <3> QED BY <1>1, <2>2, <3>1 DEF Fits, Goes
  <2>3. CASE n # g BY <1>1, <2>1, <2>3 DEF Roles
  <2> QED BY <2>2, <2>3
<1>3. ASSUME NEW c \in Calls, out'[c] # None, out'[c].type = "promise"
      PROVE  out'[c].dest = Host[c]
  <2>1. c \in Goroutines BY DEF Goroutines
  <2>2. CASE c = g BY <1>1, <1>3, <2>2 DEF Fits
  <2>3. CASE c # g BY <1>1, <1>3, <2>1, <2>3 DEF Roles
  <2> QED BY <2>2, <2>3
<1> QED BY <1>2, <1>3 DEF Roles

\* Handling a message keeps the roles.
LEMMA HandledRoles ==
  ASSUME TypeOK, Roles, NEW g \in Goroutines, Handled(g), NEW s, NEW F, NEW Q, Promising(s, F, Q)
  PROVE  Roles'
<1>0. PICK o \in Nodes, m \in Message :
        \/ Dropped(g, o, m) \/ PromiseMade(g, o, m) \/ Accepted(g, o, m)
        \/ PromiseCounted(g, o, m) \/ AcceptCounted(g, o, m)
        \/ \E T, b : StepEnded(g, o, m, T, b)
  BY DEF Handled
<1>1. CASE Dropped(g, o, m) \/ PromiseCounted(g, o, m) \/ AcceptCounted(g, o, m)
  <2>1. Places(g, {}) BY <1>1 DEF Dropped, PromiseCounted, AcceptCounted, Section
  <2> QED BY <2>1, RolesKeep
<1>2. CASE PromiseMade(g, o, m)
  <2>1. PICK n \in Nodes : n = NodeOf(g) BY NodeOfType
  <2>2. PICK p : p = PromiseFor(n, m) OBVIOUS
  <2>3. m.type = "prepare" /\ Section(g, o, m, {p}) BY <1>2, <2>1, <2>2 DEF PromiseMade
  <2>4. p.type = "promise" /\ p.dest = m.src BY <2>2 DEF PromiseFor
  <2>5. m.src = o
    <3>1. Going(m, n, o) BY <2>1, <2>3 DEF Section
    <3> QED BY <2>1, <2>3, <3>1 DEF Promising, PromiseTraffic
  <2>6. \/ m # None /\ local[g] = m /\ o = NodeOf(g)
        \/ g \in Nodes /\ o # g
    BY <2>3, CallTakes
  <2>7. g \in Nodes => o # g BY <2>3, <2>6 DEF Roles
  <2>8. g \in Calls => o = Host[g] BY <2>6, PopulationAssumption DEF NodeOf
  <2>9. Fits(g, p) BY <2>4, <2>5, <2>7, <2>8 DEF Fits
  <2>10. Places(g, {p}) BY <2>3 DEF Section
  <2> QED BY <2>9, <2>10, RolesKeep
<1>3. CASE Accepted(g, o, m)
  <2>1. PICK a : a = AcceptOf(NodeOf(g), m) OBVIOUS
  <2>2. Places(g, {a}) BY <1>3, <2>1 DEF Accepted, Section
  <2>3. Fits(g, a) BY <2>1 DEF AcceptOf, Fits
  <2> QED BY <2>2, <2>3, RolesKeep
<1>4. CASE \E T, b : StepEnded(g, o, m, T, b)
  <2>1. PICK t : t.type = "tlc" /\ Places(g, {t}) BY <1>4 DEF StepEnded, Section
  <2>2. Fits(g, t) BY <2>1 DEF Fits
  <2> QED BY <2>1, <2>2, RolesKeep
<1> QED BY <1>0, <1>1, <1>2, <1>3, <1>4

\* Every kind of step keeps the roles.
LEMMA RolesNext ==
  ASSUME TypeOK, Roles, Kind, NEW s, NEW F, NEW Q, Promising(s, F, Q)
  PROVE  Roles'
<1>1. ASSUME NEW g \in Goroutines, NEW p, Broadcasted(g, p) PROVE Roles'
  <2>1. Places(g, {p}) /\ out[g] # None BY <1>1 DEF Broadcasted
  <2>2. /\ p.type = out[g].type
        /\ p.type = "promise" => p.dest = out[g].dest
    BY <1>1, MarshalledParts
  <2>3. Fits(g, p) BY <2>1, <2>2 DEF Fits, Roles
  <2> QED BY <2>1, <2>3, RolesKeep
<1>2. ASSUME NEW c \in Calls, CallMoved(c) \/ Prepared(c) \/ ValueTaken(c) \/ Proposed(c)
      PROVE  Roles'
  <2>0. c \in Goroutines /\ c \notin Nodes BY PopulationAssumption DEF Goroutines
  <2>1. PICK S : Places(c, S) /\ \A x \in S : x.type # "promise"
    <3>1. CASE CallMoved(c) \/ ValueTaken(c)
      <4>1. Places(c, {}) BY <3>1 DEF CallMoved, ValueTaken, Places, messageVars
      <4> QED BY <4>1
    <3>2. CASE Prepared(c)
      <4>1. PrepareFor(c).type = "prepare" BY DEF PrepareFor
      <4> QED BY <3>2, <4>1 DEF Prepared
    <3>3. CASE Proposed(c)
      <4>1. ProposalOf(c).type = "propose" BY DEF ProposalOf
      <4> QED BY <3>3, <4>1 DEF Proposed
    <3> QED BY <1>2, <3>1, <3>2, <3>3
  <2>2. \A x \in S : Fits(c, x) BY <2>0, <2>1 DEF Fits
  <2> QED BY <2>0, <2>1, <2>2, RolesKeep
<1> QED BY <1>1, <1>2, HandledRoles DEF Kind

-----------------------------------------------------------------------------
(* The votes of every step *)

\* The votes of every step are in accord with the state.
AgreeInv ==
  /\ TypeOK /\ Calm /\ Roles
  /\ \A s \in Steps : \E P, A, G, R, F, Q : Voting(s, P, A, G, R, F, Q)

\* Late promises and promise channels meet values of the step only.
LEMMA AgreeFacts ==
  ASSUME AgreeInv
  PROVE  /\ PromisesInv /\ Alone /\ LateQuiet
         /\ \A c \in Calls : ChannelValues(Host[c])
<1>1. TypeOK /\ Calm /\ Alone BY DEF AgreeInv, Calm
<1>2. PromisesInv
  <2>1. \A s \in Steps : \E F, Q : Promising(s, F, Q) BY DEF AgreeInv, Voting
  <2> QED BY <1>1, <2>1 DEF PromisesInv
<1>3. ASSUME NEW k \in Nodes, Late(k) PROVE inst[k].acceptedValue = None
  <2>1. step[k] \in Steps BY <1>1, NodeTypes
  <2>2. PICK P, A, G, R, F, Q : Voting(step[k], P, A, G, R, F, Q) BY <2>1 DEF AgreeInv
  <2> QED BY <1>3, <2>2 DEF Voting, LateAt
<1>4. ASSUME NEW c \in Calls, NEW t \in Steps, promiseChan[Host[c]][t] # <<>>
      PROVE  \/ Head(promiseChan[Host[c]][t]) = None
             \/ Head(promiseChan[Host[c]][t]).step = t
  <2>1. PICK P, A, G, R, F, Q : Voting(t, P, A, G, R, F, Q) BY DEF AgreeInv
  <2>2. ProposerAt(c, t, P, A, F) BY <2>1 DEF Voting
  <2> QED BY <1>4, <2>2 DEF ProposerAt, Safe
<1> QED BY <1>1, <1>2, <1>3, <1>4 DEF LateQuiet, ChannelValues

\* Handling a message keeps the votes.
LEMMA HandledVoting ==
  ASSUME TypeOK, TypeOK', AcceptorInv, TLCInv, Alone, Roles, Majority, TwoProposers,
         NEW g \in Goroutines, Handled(g), NEW s \in Steps,
         NEW P, NEW A, NEW G, NEW R, NEW F, NEW Q, Voting(s, P, A, G, R, F, Q)
  PROVE  \E P2, A2, G2, R2, F2, Q2 : Voting(s, P2, A2, G2, R2, F2, Q2)'
<1>0. PICK o \in Nodes, m \in Message :
        \/ Dropped(g, o, m) \/ PromiseMade(g, o, m) \/ Accepted(g, o, m)
        \/ PromiseCounted(g, o, m) \/ AcceptCounted(g, o, m)
        \/ \E T, b : StepEnded(g, o, m, T, b)
  BY DEF Handled
<1>1. CASE Dropped(g, o, m)
  <2>1. Voting(s, P, A, G, R, F, Q)' BY <1>1, DroppedVoting
  <2> QED BY <2>1
<1>2. CASE PromiseMade(g, o, m)
  <2>1. Voting(s, P, A, G, R, F, Q)' BY <1>2, PromiseMadeVoting
  <2> QED BY <2>1
<1>3. CASE Accepted(g, o, m)
  <2>1. \E A2 : Voting(s, P, A2, G, R, F, Q)' BY <1>3, AcceptedVoting
  <2> QED BY <2>1
<1>4. CASE PromiseCounted(g, o, m)
  <2>1. \E F2, Q2 : Voting(s, P, A, G, R, F2, Q2)' BY <1>4, PromiseCountedVoting
  <2> QED BY <2>1
<1>5. CASE AcceptCounted(g, o, m)
  <2>1. \E G2 : Voting(s, P, A, G2, R, F, Q)' BY <1>5, AcceptCountedVoting
  <2> QED BY <2>1
<1>6. CASE \E T, b : StepEnded(g, o, m, T, b)
  <2>1. PICK T, b : StepEnded(g, o, m, T, b) BY <1>6
  <2>2. Voting(s, P, A, G, R, F, Q)' BY <2>1, StepEndedVoting
  <2> QED BY <2>2
<1> QED BY <1>0, <1>1, <1>2, <1>3, <1>4, <1>5, <1>6

\* Every kind of step keeps the votes.
LEMMA VotingNext ==
  ASSUME AgreeInv, TypeOK', AcceptorInv, TLCInv, Majority, TwoProposers, Kind,
         NEW s \in Steps,
         NEW P, NEW A, NEW G, NEW R, NEW F, NEW Q, Voting(s, P, A, G, R, F, Q)
  PROVE  \E P2, A2, G2, R2, F2, Q2 : Voting(s, P2, A2, G2, R2, F2, Q2)'
<1>0. /\ TypeOK /\ Alone /\ Roles /\ LateQuiet
      /\ \A c \in Calls : ChannelValues(Host[c])
  BY AgreeFacts DEF AgreeInv
<1>1. ASSUME NEW g \in Goroutines, Handled(g)
      PROVE  \E P2, A2, G2, R2, F2, Q2 : Voting(s, P2, A2, G2, R2, F2, Q2)'
  BY <1>0, <1>1, HandledVoting
<1>2. ASSUME NEW g \in Goroutines, NEW p, Broadcasted(g, p)
      PROVE  \E P2, A2, G2, R2, F2, Q2 : Voting(s, P2, A2, G2, R2, F2, Q2)'
  <2>1. Voting(s, P, A, G, R, F, Q)' BY <1>0, <1>2, BroadcastedVoting
  <2> QED BY <2>1
<1>3. ASSUME NEW c \in Calls, CallMoved(c) \/ Prepared(c) \/ ValueTaken(c) \/ Proposed(c)
      PROVE  \E P2, A2, G2, R2, F2, Q2 : Voting(s, P2, A2, G2, R2, F2, Q2)'
  <2>1. CASE CallMoved(c)
    <3>1. Voting(s, P, A, G, R, F, Q)' BY <1>0, <2>1, CallMovedVoting
    <3> QED BY <3>1
  <2>2. CASE Prepared(c)
    <3>1. \E R2 : Voting(s, P, A, G, R2, F, Q)' BY <1>0, <2>2, PreparedVoting
    <3> QED BY <3>1
  <2>3. CASE ValueTaken(c)
    <3>1. Voting(s, P, A, G, R, F, Q)' BY <1>0, <2>3, ValueTakenVoting
    <3> QED BY <3>1
  <2>4. CASE Proposed(c)
    <3>1. \E P2 : Voting(s, P2, A, G, R, F, Q)' BY <1>0, <2>4, ProposedVoting
    <3> QED BY <3>1
  <2> QED BY <1>3, <2>1, <2>2, <2>3, <2>4
<1> QED BY <1>1, <1>2, <1>3 DEF Kind

\* A stuttering step keeps the votes.
LEMMA VotingStill ==
  ASSUME UNCHANGED vars, NEW s, NEW P, NEW A, NEW G, NEW R, NEW F, NEW Q,
         Voting(s, P, A, G, R, F, Q)
  PROVE  Voting(s, P, A, G, R, F, Q)'
<1>1. /\ inbox' = inbox /\ out' = out /\ local' = local /\ step' = step /\ inst' = inst
      /\ promiseChan' = promiseChan /\ blocks' = blocks /\ tag' = tag
  BY DEF vars, messageVars, handlerVars, storeVars
<1>2. Promising(s, F, Q)' /\ VotesType(P, A, G, R) BY PromisingStill DEF Voting
<1>3. \A m, n, o : Going(m, n, o)' <=> Going(m, n, o) BY <1>1 DEF Going
<1>4. \A M, n, o : One(M, n, o)' <=> One(M, n, o) BY <1>1 DEF One
<1>5. \A m, n, o : Carried(m, n, o, s, P, A, G, R)' <=> Carried(m, n, o, s, P, A, G, R)
  BY <1>1 DEF Carried, IsPrepare, Genuine, IdOf, Reports
<1>6. Ballots(s, P, A, G, R)'
  BY <1>3, <1>4, <1>5 DEF Voting, Ballots, Proposals, AcceptsOf, Genuine, IdOf
<1>7. ASSUME NEW n \in Nodes
      PROVE  /\ PreparedNode(n, s, R)' /\ AcceptorAt(n, s, P, A)' /\ LateAt(n, s, Q)'
             /\ CountedAt(n, s, P, A, G)' /\ DecidedAt(n, s, P, A)'
             /\ \A o \in Nodes : StaleQueued(n, o, s)'
  <2>1. /\ PreparedNode(n, s, R) /\ AcceptorAt(n, s, P, A) /\ LateAt(n, s, Q)
        /\ CountedAt(n, s, P, A, G) /\ DecidedAt(n, s, P, A)
        /\ \A o \in Nodes : StaleQueued(n, o, s)
    BY DEF Voting
  <2>2. PreparedNode(n, s, R)' /\ AcceptorAt(n, s, P, A)'
    BY <1>1, <2>1 DEF PreparedNode, AcceptorAt, IdOf
  <2>3. LateAt(n, s, Q)' BY <1>1, <2>1 DEF LateAt, Late
  <2>4. CountedAt(n, s, P, A, G)' BY <1>1, <2>1 DEF CountedAt, CountedFor
  <2>5. DecidedAt(n, s, P, A)' BY <1>1, <2>1 DEF DecidedAt, VotesFor
  <2>6. \A o \in Nodes : StaleQueued(n, o, s)'
    BY <1>1, <2>1 DEF StaleQueued, Stale, IsPrepare
  <2> QED BY <2>2, <2>3, <2>4, <2>5, <2>6
<1>8. ASSUME NEW c \in Calls
      PROVE  /\ PreparedCall(c, s, R)' /\ StaleHeld(c, s, R)'
             /\ ProposerAt(c, s, P, A, F)' /\ BestAt(c, s, P, A, Q)'
  <2>1. /\ PreparedCall(c, s, R) /\ StaleHeld(c, s, R)
        /\ ProposerAt(c, s, P, A, F) /\ BestAt(c, s, P, A, Q)
    BY DEF Voting
  <2>2. PreparedCall(c, s, R)' /\ StaleHeld(c, s, R)'
    BY <1>1, <2>1 DEF PreparedCall, StaleHeld, Stale
  <2>3. Blocked(c, s, A)' = Blocked(c, s, A) BY <1>1 DEF Blocked, Has, IdOf
  <2>4. ProposerAt(c, s, P, A, F)' BY <1>1, <2>1, <2>3 DEF ProposerAt, Safe, IdOf
  <2>5. BestAt(c, s, P, A, Q)' BY <1>1, <2>1 DEF BestAt, IdOf
  <2> QED BY <2>2, <2>4, <2>5
<1> QED BY <1>2, <1>6, <1>7, <1>8 DEF Voting, VotesType

\* Nobody has voted at the start.
LEMMA VotingInit ==
  ASSUME Init, NEW s \in Steps
  PROVE  \E P, A, G, R, F, Q : Voting(s, P, A, G, R, F, Q)
<1>0. TypeOK BY InitType
<1>1. PICK P : P = [c \in Calls |-> None] OBVIOUS
<1>2. PICK A : A = [c \in Calls |-> {}] OBVIOUS
<1>3. PICK G : G = [n \in Nodes |-> {}] OBVIOUS
<1>4. PICK R : R = {} OBVIOUS
<1>5. PICK Q : Q = [n \in Nodes |-> {}] OBVIOUS
<1>6. PICK F : F = {} OBVIOUS
<1>7. /\ inbox = [d \in Nodes |-> [o \in Nodes |-> <<>>]]
      /\ out = [g \in Goroutines |-> None] /\ local = [g \in Goroutines |-> None]
      /\ step = [n \in Nodes |-> 0] /\ inst = [n \in Nodes |-> Cleared(n)]
      /\ promiseChan = [n \in Nodes |-> [t \in Steps |-> <<>>]]
      /\ blocks = [n \in Nodes |-> <<>>]
      /\ tag = [c \in Calls |->
                  [pc |-> "start", startingStep |-> 0, value |-> None, chan |-> 0]]
  BY DEF Init
<1>8. Promising(s, F, Q) BY <1>5, <1>6, PromisingInit
<1>9. VotesType(P, A, G, R) BY <1>1, <1>2, <1>3, <1>4 DEF VotesType, ValueOrNone
<1>10. \A m, n, o : n \in Nodes /\ o \in Nodes => ~Going(m, n, o)
  BY <1>7 DEF Going, GoingIn, CarriesIn
<1>11. \A M : \A n, o \in Nodes : One(M, n, o)
  BY <1>7 DEF One, OneIn, CarriesIn
<1>12. Ballots(s, P, A, G, R) BY <1>10, <1>11 DEF Ballots
<1>13. ASSUME NEW n \in Nodes
       PROVE  /\ PreparedNode(n, s, R) /\ AcceptorAt(n, s, P, A) /\ LateAt(n, s, Q)
              /\ CountedAt(n, s, P, A, G) /\ DecidedAt(n, s, P, A)
              /\ \A o \in Nodes : StaleQueued(n, o, s)
  <2>1. /\ inst[n].maxID = 0 /\ inst[n].acceptedID = 0
        /\ inst[n].acceptedValues = [v \in Value |-> 0]
    BY <1>7 DEF Cleared
  <2>2. PreparedNode(n, s, R) BY <1>4, <2>1, IdTypes DEF PreparedNode
  <2>3. AcceptorAt(n, s, P, A) BY <1>2, <2>1 DEF AcceptorAt
  <2>4. LateAt(n, s, Q) BY <1>7 DEF LateAt, Late, Goroutines
  <2>5. CountedAt(n, s, P, A, G)
    <3>1. \A v : CountedFor(n, v, P, G) = {} BY <1>3 DEF CountedFor
    <3>2. Cardinality({}) = 0 BY FS_EmptySet
    <3> QED BY <1>3, <2>1, <3>1, <3>2 DEF CountedAt
  <2>6. DecidedAt(n, s, P, A)
    <3>1. blocks[n] = <<>> BY <1>7
    <3>2. s + 1 \notin DOMAIN <<>> BY EmptySeq
    <3> QED BY <3>1, <3>2 DEF DecidedAt
  <2>7. \A o \in Nodes : StaleQueued(n, o, s)
    <3>1. \A o \in Nodes : inbox[n][o] = <<>> BY <1>7
    <3>2. \A j : j \notin DOMAIN <<>> BY EmptySeq
    <3> QED BY <3>1, <3>2 DEF StaleQueued
  <2> QED BY <2>2, <2>3, <2>4, <2>5, <2>6, <2>7
<1>14. ASSUME NEW c \in Calls
       PROVE  /\ PreparedCall(c, s, R) /\ StaleHeld(c, s, R)
              /\ ProposerAt(c, s, P, A, F) /\ BestAt(c, s, P, A, Q)
  <2>0. Host[c] \in Nodes /\ c \in Goroutines BY HostType DEF Goroutines
  <2>1. PreparedCall(c, s, R) BY <1>4 DEF PreparedCall
  <2>2. StaleHeld(c, s, R) BY <1>7, <2>0 DEF StaleHeld
  <2>3. ProposerAt(c, s, P, A, F)
    <3>1. P[c] = None /\ promiseChan[Host[c]][s] = <<>> /\ tag[c].pc = "start"
      BY <1>1, <1>7, <2>0
    <3> QED BY <3>1 DEF ProposerAt
  <2>4. BestAt(c, s, P, A, Q)
    <3>1. /\ inst[Host[c]].bestID = 0 /\ inst[Host[c]].proposedValue = None
          /\ Q[Host[c]] = {}
      BY <1>5, <1>7, <2>0 DEF Cleared
    <3> QED BY <3>1 DEF BestAt
  <2> QED BY <2>1, <2>2, <2>3, <2>4
<1>15. Voting(s, P, A, G, R, F, Q) BY <1>8, <1>9, <1>12, <1>13, <1>14 DEF Voting
<1> QED BY <1>15

\* Nobody has a role yet at the start.
LEMMA AgreeInit ==
  ASSUME Init
  PROVE  AgreeInv
<1>1. TypeOK /\ Calm BY InitType, CalmInit
<1>2. Roles
  <2>1. \A g \in Goroutines : out[g] = None /\ local[g] = None BY DEF Init
  <2> QED BY <2>1 DEF Roles, Goroutines
<1>3. \A s \in Steps : \E P, A, G, R, F, Q : Voting(s, P, A, G, R, F, Q) BY VotingInit
<1> QED BY <1>1, <1>2, <1>3 DEF AgreeInv

\* Every step of the program keeps the votes.
LEMMA AgreeNext ==
  ASSUME NoRetry, Majority, TwoProposers, AgreeInv, AcceptorInv, TLCInv, [Next]_vars
  PROVE  AgreeInv'
<1>1. TypeOK /\ TypeOK' /\ Calm /\ Roles /\ PromisesInv
  BY NextType, AgreeFacts DEF AgreeInv
<1>2. CASE Next
  <2>1. Kind BY <1>1, <1>2, StepKinds, PromisesNotStuck
  <2>2. Calm' BY <1>1, <2>1, CalmNext
  <2>3. Roles'
    <3>1. 0 \in Steps BY ConfigAssumption DEF Steps
    <3>2. PICK F, Q : Promising(0, F, Q) BY <1>1, <3>1 DEF PromisesInv
    <3> QED BY <1>1, <2>1, <3>2, RolesNext
  <2>4. ASSUME NEW s \in Steps PROVE \E P, A, G, R, F, Q : Voting(s, P, A, G, R, F, Q)'
    <3>1. PICK P, A, G, R, F, Q : Voting(s, P, A, G, R, F, Q) BY DEF AgreeInv
    <3> QED BY <1>1, <2>1, <3>1, VotingNext
  <2> QED BY <1>1, <2>2, <2>3, <2>4 DEF AgreeInv
<1>3. CASE UNCHANGED vars
  <2>1. Calm' BY <1>1, <1>3, CalmStill
  <2>2. Roles' BY <1>1, <1>3 DEF Roles, vars, messageVars
  <2>3. ASSUME NEW s \in Steps PROVE \E P, A, G, R, F, Q : Voting(s, P, A, G, R, F, Q)'
    <3>1. PICK P, A, G, R, F, Q : Voting(s, P, A, G, R, F, Q) BY DEF AgreeInv
    <3>2. Voting(s, P, A, G, R, F, Q)' BY <1>3, <3>1, VotingStill
    <3> QED BY <3>2
  <2> QED BY <1>1, <2>1, <2>2, <2>3 DEF AgreeInv
<1> QED BY <1>2, <1>3

-----------------------------------------------------------------------------
(* One value per step *)

\* The votes for a value that only c has proposed are the nodes that have accepted it from c.
LEMMA VotesOfOne ==
  ASSUME TwoProposers, NEW P, NEW A, A \in [Calls -> SUBSET Nodes], NEW v, NEW c \in Calls,
         \A d \in Calls : P[d] = v => d = c, Threshold <= Cardinality(VotesFor(v, P, A))
  PROVE  /\ IsFiniteSet(A[c]) /\ Cardinality(A[c]) \in Nat
         /\ Threshold <= Cardinality(A[c])
<1>1. PICK C : C = {c} OBVIOUS
<1>2. IsFiniteSet(C) /\ Cardinality(C) = 1 BY <1>1, FS_Singleton
<1>3. IsFiniteSet(A[c]) /\ Cardinality(A[c]) \in Nat
  BY PopulationAssumption, FS_Subset, FS_CardinalityType
<1>4. /\ IsFiniteSet(A[c] \X C)
      /\ Cardinality(A[c] \X C) = Cardinality(A[c])
  <2>1. Cardinality(A[c] \X C) = Cardinality(A[c]) * Cardinality(C) BY <1>2, <1>3, FS_Product
  <2>2. IsFiniteSet(A[c] \X C) BY <1>2, <1>3, FS_Product
  <2> QED BY <1>2, <1>3, <2>1, <2>2
<1>5. VotesFor(v, P, A) \subseteq A[c] \X C
  <2> SUFFICES ASSUME NEW u \in VotesFor(v, P, A) PROVE u \in A[c] \X C OBVIOUS
  <2>1. u \in Nodes \X Calls /\ u[1] \in A[u[2]] /\ P[u[2]] = v BY DEF VotesFor
  <2>2. u[2] = c BY <2>1
  <2> QED BY <1>1, <2>1, <2>2
<1>6. /\ Cardinality(VotesFor(v, P, A)) <= Cardinality(A[c])
      /\ Cardinality(VotesFor(v, P, A)) \in Nat
  <2>1. /\ IsFiniteSet(VotesFor(v, P, A))
        /\ Cardinality(VotesFor(v, P, A)) <= Cardinality(A[c] \X C)
    BY <1>4, <1>5, FS_Subset
  <2> QED BY <1>4, <2>1, FS_CardinalityType
<1> QED BY <1>3, <1>6, ConfigAssumption

\* Two sets of a threshold of nodes meet.
LEMMA ThresholdsMeet ==
  ASSUME Majority, NEW S \in SUBSET Nodes, NEW T \in SUBSET Nodes,
         Threshold <= Cardinality(S), Threshold <= Cardinality(T)
  PROVE  S \cap T # {}
<1> SUFFICES ASSUME S \cap T = {} PROVE FALSE OBVIOUS
<1>1. /\ IsFiniteSet(S) /\ IsFiniteSet(T) /\ IsFiniteSet(Nodes)
      /\ Cardinality(S) \in Nat /\ Cardinality(T) \in Nat /\ Cardinality(Nodes) \in Nat
  BY PopulationAssumption, FS_Subset, FS_CardinalityType
<1>2. Cardinality(S \cup T) = Cardinality(S) + Cardinality(T)
  <2>1. Cardinality(S \cup T) = Cardinality(S) + Cardinality(T) - Cardinality(S \cap T)
    BY <1>1, FS_Union
  <2>2. Cardinality(S \cap T) = 0 BY FS_EmptySet
  <2> QED BY <1>1, <2>1, <2>2
<1>3. Cardinality(S \cup T) <= Cardinality(Nodes)
  <2>1. S \cup T \subseteq Nodes OBVIOUS
  <2> QED BY <1>1, <2>1, FS_Subset
<1> QED BY <1>1, <1>2, <1>3, ConfigAssumption DEF Majority

\* Only one value gets a threshold of votes in a step.
LEMMA OneDecided ==
  ASSUME Majority, TwoProposers, NEW s \in Steps,
         NEW P, NEW A, NEW G, NEW R, NEW F, NEW Q, Voting(s, P, A, G, R, F, Q),
         NEW v \in Value, NEW w \in Value,
         Threshold <= Cardinality(VotesFor(v, P, A)), Threshold <= Cardinality(VotesFor(w, P, A))
  PROVE  v = w
<1> SUFFICES ASSUME v # w PROVE FALSE OBVIOUS
<1>0. A \in [Calls -> SUBSET Nodes] BY DEF Voting, VotesType
<1>1. \A x \in Value :
        Threshold <= Cardinality(VotesFor(x, P, A)) => \E c \in Calls : P[c] = x
  <2> SUFFICES ASSUME NEW x \in Value, Threshold <= Cardinality(VotesFor(x, P, A)),
                      ~\E c \in Calls : P[c] = x
               PROVE  FALSE
    OBVIOUS
  <2>1. VotesFor(x, P, A) = {} BY DEF VotesFor
  <2> QED BY <2>1, FS_EmptySet, ConfigAssumption
<1>2. PICK c \in Calls : P[c] = v BY <1>1
<1>3. PICK d \in Calls : P[d] = w BY <1>1
<1>4. c # d /\ \A e \in Calls : e = c \/ e = d BY <1>2, <1>3 DEF TwoProposers
<1>5. IdOf(c) # IdOf(d) /\ IdOf(c) \in Nat /\ IdOf(d) \in Nat
  BY <1>4, IdTypes DEF TwoProposers
<1>6. Threshold <= Cardinality(A[c]) /\ Threshold <= Cardinality(A[d])
  <2>1. \A e \in Calls : P[e] = v => e = c BY <1>3, <1>4
  <2>2. \A e \in Calls : P[e] = w => e = d BY <1>2, <1>4
  <2> QED BY <1>0, <2>1, <2>2, VotesOfOne
<1>7. ASSUME NEW a \in Calls, NEW b \in Calls, IdOf(b) < IdOf(a), P[a] # P[b],
             P[a] # None, Threshold <= Cardinality(A[b])
      PROVE  FALSE
  <2>1. PICK B : B = Blocked(a, s, A) OBVIOUS
  <2>2. Safe(a, P[a], s, P, B) BY <1>7, <2>1 DEF Voting, ProposerAt
  <2>3. Threshold <= Cardinality(B[b]) BY <1>7, <2>2 DEF Safe
  <2>4. B[b] \in SUBSET Nodes /\ A[b] \in SUBSET Nodes /\ B[b] \cap A[b] = {}
    BY <1>0, <2>1 DEF Blocked
  <2> QED BY <1>7, <2>3, <2>4, ThresholdsMeet
<1>8. v # None /\ w # None BY ValueAssumption
<1>9. CASE IdOf(d) < IdOf(c) BY <1>2, <1>3, <1>6, <1>7, <1>8, <1>9
<1>10. CASE IdOf(c) < IdOf(d) BY <1>2, <1>3, <1>6, <1>7, <1>8, <1>10
<1> QED BY <1>5, <1>9, <1>10

\* Two nodes have stored blocks with the same value at the same place.
LEMMA OneValue ==
  ASSUME Majority, TwoProposers, AgreeInv, StoreInv, NEW m \in Nodes, NEW n \in Nodes,
         NEW i \in DOMAIN blocks[m] \cap DOMAIN blocks[n]
  PROVE  blocks[m][i].value = blocks[n][i].value
<1>1. TypeOK BY DEF AgreeInv
<1>2. i \in Nat /\ i >= 1 /\ i - 1 \in Steps /\ (i - 1) + 1 = i
  <2>1. blocks[m] \in Seq(Block) /\ Len(blocks[m]) = step[m] BY <1>1 DEF TypeOK, StoreInv, LengthInv
  <2>2. DOMAIN blocks[m] = 1..step[m] BY <2>1, LenProperties
  <2>3. step[m] \in Steps BY <1>1, NodeTypes
  <2> QED BY <2>2, <2>3, ConfigAssumption DEF Steps
<1>3. PICK s \in Steps : s + 1 = i BY <1>2
<1>4. PICK P, A, G, R, F, Q : Voting(s, P, A, G, R, F, Q) BY DEF AgreeInv
<1>5. DecidedAt(m, s, P, A) /\ DecidedAt(n, s, P, A) BY <1>4 DEF Voting
<1>6. /\ Threshold <= Cardinality(VotesFor(blocks[m][i].value, P, A))
      /\ Threshold <= Cardinality(VotesFor(blocks[n][i].value, P, A))
  BY <1>3, <1>5 DEF DecidedAt
<1>7. blocks[m][i].value \in Value /\ blocks[n][i].value \in Value BY <1>1, BlockTypes
<1> QED BY <1>4, <1>6, <1>7, OneDecided

\* Chains whose values agree agree: a block commits to those before it.
LEMMA ValuesMakeChains ==
  ASSUME TypeOK, StoreInv,
         \A m, n \in Nodes : \A i \in DOMAIN blocks[m] \cap DOMAIN blocks[n] :
           blocks[m][i].value = blocks[n][i].value
  PROVE  Agreement
<1> DEFINE Differ(i) == \E m, n \in Nodes : /\ i \in DOMAIN blocks[m] \cap DOMAIN blocks[n]
                                            /\ blocks[m][i] # blocks[n][i]
<1>1. PICK D : D = {i \in Nat : Differ(i)} OBVIOUS
<1>2. \A n \in Nodes : \A i \in DOMAIN blocks[n] : i \in Nat /\ i >= 1
  <2> SUFFICES ASSUME NEW n \in Nodes, NEW i \in DOMAIN blocks[n] PROVE i \in Nat /\ i >= 1
    OBVIOUS
  <2>1. blocks[n] \in Seq(Block) BY DEF TypeOK
  <2>2. DOMAIN blocks[n] = 1..Len(blocks[n]) /\ Len(blocks[n]) \in Nat BY <2>1, LenProperties
  <2> QED BY <2>2
<1>3. D = {}
  <2> SUFFICES ASSUME D # {} PROVE FALSE OBVIOUS
  <2>1. PICK i \in D : \A k \in D : i <= k BY <1>1, NatMin
  <2>2. i \in Nat /\ Differ(i) BY <1>1
  <2>3. PICK m, n \in Nodes : /\ i \in DOMAIN blocks[m] \cap DOMAIN blocks[n]
                              /\ blocks[m][i] # blocks[n][i]
    BY <2>2
  <2>4. PICK a : a = blocks[m][i] OBVIOUS
  <2>5. PICK b : b = blocks[n][i] OBVIOUS
  <2>6. a \in Block /\ b \in Block BY <2>3, <2>4, <2>5, BlockTypes
  <2>7. Joined(a, i) /\ Joined(b, i) BY <2>3, <2>4, <2>5 DEF StoreInv, JoinedInv
  <2>8. a.value = b.value BY <2>3, <2>4, <2>5
  <2>9. a.index = b.index BY <2>7 DEF Joined
  <2>10. a.prev = b.prev
    <3>1. CASE i = 1 BY <2>7, <3>1 DEF Joined
    <3>2. CASE i # 1
      <4>1. PICK k \in Nodes : i - 1 \in DOMAIN blocks[k] /\ a.prev = Hash(blocks[k][i - 1])
        BY <2>7, <3>2 DEF Joined
      <4>2. PICK l \in Nodes : i - 1 \in DOMAIN blocks[l] /\ b.prev = Hash(blocks[l][i - 1])
        BY <2>7, <3>2 DEF Joined
      <4>3. i - 1 \in Nat /\ ~(i <= i - 1) BY <1>2, <2>2, <4>1
      <4>4. i - 1 \notin D BY <2>1, <4>3
      <4>5. ~Differ(i - 1) BY <1>1, <4>3, <4>4
      <4>6. blocks[k][i - 1] = blocks[l][i - 1] BY <4>1, <4>2, <4>5
      <4> QED BY <4>1, <4>2, <4>6
    <3> QED BY <3>1, <3>2
  <2>11. a = b BY <2>6, <2>8, <2>9, <2>10 DEF Block
  <2> QED BY <2>3, <2>4, <2>5, <2>11
<1>4. \A i : ~Differ(i) BY <1>1, <1>2, <1>3
<1> QED BY <1>4 DEF Agreement

\* Nodes never store different blocks at the same place of their chains where at most two
\* calls, on nodes with different IDs, propose, nobody retries and a threshold is a majority:
\* although a promise does not remember whose it is (respondToPromiseMsg), the accepts of
\* different IDs are counted together (respondToAcceptMsg) and a proposal has the step of now
\* with the value of the promises (proposePhase2).
THEOREM ChainsAgree == NoRetry /\ Majority /\ TwoProposers => (Spec => []Agreement)
<1> SUFFICES ASSUME NoRetry, Majority, TwoProposers PROVE Spec => []Agreement OBVIOUS
<1>1. Init => AgreeInv BY AgreeInit
<1>2. AgreeInv /\ AcceptorInv /\ TLCInv /\ [Next]_vars => AgreeInv' BY AgreeNext
<1>3. AgreeInv /\ TLCInv => Agreement
  <2> SUFFICES ASSUME AgreeInv, TLCInv PROVE Agreement OBVIOUS
  <2>1. TypeOK /\ StoreInv BY DEF TLCInv
  <2>2. \A m, n \in Nodes : \A i \in DOMAIN blocks[m] \cap DOMAIN blocks[n] :
          blocks[m][i].value = blocks[n][i].value
    BY <2>1, OneValue
  <2> QED BY <2>1, <2>2, ValuesMakeChains
<1>4. Spec => []AcceptorInv BY AcceptorCorrect
<1>5. Spec => []TLCInv BY TLCCorrect
<1> QED BY <1>1, <1>2, <1>3, <1>4, <1>5, PTL DEF Spec

\* Under the same hypotheses every node has a blockchain (storeBlock, buildBlock).
THEOREM ChainsLinked == NoRetry /\ Majority /\ TwoProposers => (Spec => []ChainLinked)
<1> SUFFICES ASSUME NoRetry, Majority, TwoProposers PROVE Spec => []ChainLinked OBVIOUS
<1>1. Spec => []Agreement BY ChainsAgree
<1>2. Spec => [](Agreement => ChainLinked) BY LinkedWhereAgreed
<1> QED BY <1>1, <1>2, PTL
=============================================================================
