----------------------------- MODULE AcceptorProofs -----------------------------
(***************************************************************************)
(* A promise keeps its meaning: PromisesHold, for every population,        *)
(* threshold and bound, from the inductive invariant AcceptorInv.          *)
(*                                                                         *)
(* The argument has two halves.  What an acceptor knows only advances: in  *)
(* a step its promise rises and its accepted value is written once, at the *)
(* promise of that moment; the end of the step clears both and raises the  *)
(* step (Advances).  And the messages of a node that are under way are     *)
(* those that were, or the one its last handler broadcast (the lemmas on   *)
(* UnderWay).  A message that holds therefore goes on holding.             *)
(***************************************************************************)
EXTENDS PaxosTLCProofs

Inv == TypeOK /\ AcceptorInv

-----------------------------------------------------------------------------
(* The messages under way *)

LEMMA OnTheWaySent ==
  ASSUME NEW box \in Inboxes, NEW k \in Nodes, NEW m \in Message, NEW n \in Nodes
  PROVE  OnTheWay(Sent(box, k, m), n) \subseteq OnTheWay(box, n) \cup {m}
<1> SUFFICES ASSUME NEW d \in Nodes, NEW i \in DOMAIN Sent(box, k, m)[d][n]
             PROVE  Sent(box, k, m)[d][n][i] \in OnTheWay(box, n) \cup {m}
  BY DEF OnTheWay
<1>1. box[d][n] \in Seq(Message) BY DEF Inboxes
<1>2. CASE Sent(box, k, m)[d][n] = box[d][n]
  BY <1>2 DEF OnTheWay
<1>3. CASE Sent(box, k, m)[d][n] = Append(box[d][n], m)
  <2>1. i \in 1..(Len(box[d][n]) + 1) BY <1>1, <1>3, AppendProperties, LenProperties
  <2>2. CASE i = Len(box[d][n]) + 1 BY <1>1, <1>3, <2>2, AppendProperties
  <2>3. CASE i # Len(box[d][n]) + 1
    <3>1. i \in DOMAIN box[d][n] BY <1>1, <2>1, <2>3, LenProperties
    <3>2. Append(box[d][n], m)[i] = box[d][n][i]
      BY <1>1, <2>1, <2>3, AppendProperties, LenProperties
    <3> QED BY <1>3, <3>1, <3>2 DEF OnTheWay
  <2> QED BY <2>2, <2>3
<1> QED BY <1>2, <1>3 DEF Sent, Inboxes

\* A private message goes to the inbox of its recipient only.
LEMMA OnTheWayPrivate ==
  ASSUME NEW box \in Inboxes, NEW k \in Nodes, NEW d \in Nodes, NEW m \in Message,
         NEW n \in Nodes
  PROVE  OnTheWay([box EXCEPT ![d][k] = Append(@, m)], n)
           \subseteq OnTheWay(box, n) \cup (IF n = k THEN {m} ELSE {})
<1> DEFINE new == [box EXCEPT ![d][k] = Append(@, m)]
<1> SUFFICES ASSUME NEW e \in Nodes, NEW i \in DOMAIN new[e][n]
             PROVE  new[e][n][i] \in OnTheWay(box, n) \cup (IF n = k THEN {m} ELSE {})
  BY DEF OnTheWay
<1>1. box[e][n] \in Seq(Message) BY DEF Inboxes
<1>2. CASE ~ (e = d /\ n = k)
  <2>1. new[e][n] = box[e][n] BY <1>2 DEF Inboxes
  <2> QED BY <2>1 DEF OnTheWay
<1>3. CASE e = d /\ n = k
  <2>0. new[e][n] = Append(box[e][n], m) BY <1>3 DEF Inboxes
  <2> HIDE DEF new
  <2>1. i \in 1..(Len(box[e][n]) + 1) BY <1>1, <2>0, AppendProperties, LenProperties
  <2>2. CASE i = Len(box[e][n]) + 1 BY <1>1, <1>3, <2>0, <2>2, AppendProperties
  <2>3. CASE i # Len(box[e][n]) + 1
    <3>1. i \in DOMAIN box[e][n] BY <1>1, <2>1, <2>3, LenProperties
    <3>2. new[e][n][i] = box[e][n][i]
      BY <1>1, <2>0, <2>1, <2>3, AppendProperties, LenProperties
    <3> QED BY <3>1, <3>2 DEF OnTheWay
  <2> QED BY <2>2, <2>3
<1> QED BY <1>2, <1>3

\* Accepting a rumor puts no new one on the way.
LEMMA OnTheWayIncoming ==
  ASSUME TypeOK, NEW g \in Goroutines, NEW in \in Incoming(g), NEW n \in Nodes
  PROVE  OnTheWay(in.box, n) \subseteq OnTheWay(inbox, n)
<1>1. CASE local[g] # None BY <1>1 DEF Incoming
<1>2. CASE local[g] = None
  <2>1. PICK o \in Nodes :
          /\ g \in Nodes /\ inbox[g][o] # <<>>
          /\ in = [msg |-> Head(inbox[g][o]), box |-> [inbox EXCEPT ![g][o] = Tail(@)]]
    BY <1>2 DEF Incoming, Idle
  <2> DEFINE new == [inbox EXCEPT ![g][o] = Tail(@)]
  <2> SUFFICES ASSUME NEW d \in Nodes, NEW i \in DOMAIN new[d][n]
               PROVE  new[d][n][i] \in OnTheWay(inbox, n)
    BY <2>1 DEF OnTheWay
  <2>2. inbox[d][n] \in Seq(Message) BY DEF TypeOK
  <2>3. CASE ~ (d = g /\ n = o)
    <3>1. new[d][n] = inbox[d][n] BY <2>3 DEF TypeOK
    <3> QED BY <3>1 DEF OnTheWay
  <2>4. CASE d = g /\ n = o
    <3>1. new[d][n] = Tail(inbox[d][n]) /\ inbox[d][n] # <<>> BY <2>1, <2>4 DEF TypeOK
    <3> HIDE DEF new
    <3>2. i \in 1..(Len(inbox[d][n]) - 1)
      BY <2>2, <3>1, HeadTailProperties, LenProperties
    <3>3. new[d][n][i] = inbox[d][n][i + 1] BY <2>2, <3>1, <3>2, HeadTailProperties
    <3>4. i + 1 \in DOMAIN inbox[d][n] BY <2>2, <3>2, LenProperties
    <3> QED BY <3>3, <3>4 DEF OnTheWay
  <2> QED BY <2>3, <2>4
<1> QED BY <1>1, <1>2

\* The inboxes b hold no rumor that the inboxes of this state do not hold.
Within(b) == b \in Inboxes /\ \A n \in Nodes : OnTheWay(b, n) \subseteq OnTheWay(inbox, n)

LEMMA IncomingWithin ==
  ASSUME TypeOK, NEW g \in Goroutines, NEW in \in Incoming(g)
  PROVE  Within(in.box)
BY IncomingType, OnTheWayIncoming DEF Within

\* What is under way is on the way, to be broadcast or to be processed.
LEMMA UnderWayParts ==
  ASSUME NEW n \in Nodes, NEW S,
         OnTheWay(inbox, n)' \subseteq S,
         \A h \in Goroutines : NodeOf(h) = n /\ out'[h] # None => out'[h] \in S,
         \A h \in Goroutines : NodeOf(h) = n /\ local'[h] # None /\ lock'[n] # h
                                => local'[h] \in S
  PROVE  UnderWay(n)' \subseteq S
BY DEF UnderWay

LEMMA UnderWayHas ==
  ASSUME NEW n \in Nodes, NEW h \in Goroutines, NodeOf(h) = n
  PROVE  /\ out[h] # None => out[h] \in UnderWay(n)
         /\ local[h] # None /\ lock[n] # h => local[h] \in UnderWay(n)
         /\ OnTheWay(inbox, n) \subseteq UnderWay(n)
BY DEF UnderWay

LEMMA UnderWayReturns ==
  ASSUME TypeOK, NEW g \in Goroutines, NEW b, Within(b), Returns(g, b), UNCHANGED lock,
         NEW n \in Nodes
  PROVE  UnderWay(n)' \subseteq UnderWay(n)
<1>1. OnTheWay(inbox', n) \subseteq UnderWay(n) BY DEF Within, Returns, UnderWay
<1>2. \A h \in Goroutines : local'[h] # None => local'[h] = local[h]
  BY DEF Returns, TypeOK
<1> QED BY <1>1, <1>2, UnderWayParts, UnderWayHas DEF Returns

\* What a broadcast of m by g adds to what the node n has under way
Fresh(g, m, n) == IF m.type # "promise" \/ n = NodeOf(g) THEN {m} ELSE {}

LEMMA UnderWaySends ==
  ASSUME TypeOK, NEW g \in Goroutines, NEW b, Within(b), NEW m \in Message,
         Sends(g, b, m), UNCHANGED lock,
         out' = out \/ out' = [out EXCEPT ![g] = None], NEW n \in Nodes
  PROVE  UnderWay(n)' \subseteq UnderWay(n) \cup Fresh(g, m, n)
<1>1. OnTheWay(inbox', n) \subseteq UnderWay(n) \cup Fresh(g, m, n)
  <2>1. OnTheWay(b, n) \subseteq UnderWay(n) /\ b \in Inboxes BY DEF Within, UnderWay
  <2>2. CASE inbox' = b BY <2>1, <2>2
  <2>3. CASE m.type # "promise" /\ inbox' = Sent(b, NodeOf(g), m)
    <3>1. OnTheWay(Sent(b, NodeOf(g), m), n) \subseteq OnTheWay(b, n) \cup {m}
      BY <2>1, NodeOfType, OnTheWaySent
    <3> QED BY <2>1, <2>3, <3>1 DEF Fresh
  <2>4. CASE m.type = "promise" /\ inbox' = [b EXCEPT ![m.dest][NodeOf(g)] = Append(@, m)]
    <3>1. m.dest \in Nodes BY <2>4, MessageCases DEF PromiseMsg
    <3>2. OnTheWay([b EXCEPT ![m.dest][NodeOf(g)] = Append(@, m)], n)
            \subseteq OnTheWay(b, n) \cup (IF n = NodeOf(g) THEN {m} ELSE {})
      BY <2>1, <3>1, NodeOfType, OnTheWayPrivate
    <3> QED BY <2>1, <2>4, <3>2 DEF Fresh
  <2> QED BY <2>2, <2>3, <2>4 DEF Sends
<1>2. \A h \in Goroutines :
        local'[h] # None => local'[h] = local[h] \/ (h = g /\ local'[h] = m)
  BY DEF Sends, TypeOK
<1>3. \A h \in Goroutines : out'[h] # None => out'[h] = out[h] BY DEF TypeOK
<1>4. NodeOf(g) = n => m \in Fresh(g, m, n) BY DEF Fresh
<1> DEFINE S == UnderWay(n) \cup Fresh(g, m, n)
<1>5. \A h \in Goroutines : NodeOf(h) = n /\ out'[h] # None => out'[h] \in S
  BY <1>3, UnderWayHas
<1>6. \A h \in Goroutines : NodeOf(h) = n /\ local'[h] # None /\ lock'[n] # h
                                => local'[h] \in S
  BY <1>2, <1>4, UnderWayHas
<1> HIDE DEF S
<1>7. UnderWay(n)' \subseteq S BY <1>1, <1>5, <1>6, UnderWayParts DEF S
<1> QED BY <1>7 DEF S

LEMMA UnderWayAnswers ==
  ASSUME TypeOK, NEW g \in Goroutines, NEW b, Within(b), NEW m \in Message,
         Answers(g, b, m), UNCHANGED lock, NEW n \in Nodes
  PROVE  UnderWay(n)' \subseteq UnderWay(n) \cup Fresh(g, m, n)
<1>1. CASE Sends(g, b, m) /\ UNCHANGED out BY <1>1, UnderWaySends
<1>2. CASE /\ inbox' = b
           /\ local' = [local EXCEPT ![g] = None]
           /\ out' = [out EXCEPT ![g] = m]
  <2>1. OnTheWay(inbox', n) \subseteq UnderWay(n) BY <1>2 DEF Within, UnderWay
  <2>2. \A h \in Goroutines : local'[h] # None => local'[h] = local[h]
    BY <1>2 DEF TypeOK
  <2>3. \A h \in Goroutines : out'[h] = out[h] \/ (h = g /\ out'[h] = m)
    BY <1>2 DEF TypeOK
  <2>4. NodeOf(g) = n => m \in Fresh(g, m, n) BY DEF Fresh
  <2> DEFINE S == UnderWay(n) \cup Fresh(g, m, n)
  <2>5. \A h \in Goroutines : NodeOf(h) = n /\ out'[h] # None => out'[h] \in S
    BY <2>3, <2>4, UnderWayHas
  <2>6. \A h \in Goroutines : NodeOf(h) = n /\ local'[h] # None /\ lock'[n] # h
                                  => local'[h] \in S
    BY <2>2, UnderWayHas
  <2> HIDE DEF S
  <2>7. UnderWay(n)' \subseteq S BY <2>1, <2>5, <2>6, UnderWayParts DEF S
  <2> QED BY <2>7 DEF S
<1> QED BY <1>1, <1>2 DEF Answers

\* g blocks on the message m it has received.
LEMMA UnderWayBlocks ==
  ASSUME TypeOK, NEW g \in Goroutines, NEW b, Within(b), NEW m \in Message,
         inbox' = b, local' = [local EXCEPT ![g] = m], UNCHANGED out,
         lock[NodeOf(g)] = None, lock' = [lock EXCEPT ![NodeOf(g)] = g], NEW n \in Nodes
  PROVE  UnderWay(n)' \subseteq UnderWay(n)
<1>1. OnTheWay(inbox', n) \subseteq UnderWay(n) BY DEF Within, UnderWay
<1>2. ASSUME NEW h \in Goroutines, NodeOf(h) = n, local'[h] # None, lock'[n] # h
      PROVE  lock[n] # h /\ local'[h] = local[h]
  <2>1. NodeOf(g) \in Nodes BY NodeOfType
  <2>2. /\ local \in [Goroutines -> Message \cup {None}]
        /\ lock \in [Nodes -> Goroutines \cup {None}]
    BY DEF TypeOK
  <2>3. h # None BY PopulationAssumption DEF Goroutines
  <2> QED BY <1>2, <2>1, <2>2, <2>3
<1> QED BY <1>1, <1>2, UnderWayParts, UnderWayHas

LEMMA UnderWayType ==
  ASSUME TypeOK, NEW n \in Nodes
  PROVE  UnderWay(n) \subseteq Message
<1>1. ASSUME NEW d \in Nodes, NEW i \in DOMAIN inbox[d][n]
      PROVE  inbox[d][n][i] \in Message
  <2>1. inbox[d][n] \in Seq(Message) BY DEF TypeOK
  <2> QED BY <2>1, ElementOfSeq, LenProperties
<1>2. OnTheWay(inbox, n) \subseteq Message BY <1>1 DEF OnTheWay
<1> QED BY <1>2 DEF UnderWay, TypeOK

-----------------------------------------------------------------------------
(* What an acceptor knows advances *)

Advances(n) ==
  \/ /\ step'[n] > step[n]
     /\ inst'[n].acceptedID = 0 /\ inst'[n].acceptedValue = None
  \/ /\ step'[n] = step[n]
     /\ inst'[n].maxID >= inst[n].maxID
     /\ \/ /\ inst'[n].acceptedID = inst[n].acceptedID
           /\ inst'[n].acceptedValue = inst[n].acceptedValue
        \/ /\ inst[n].acceptedValue = None /\ inst'[n].acceptedValue # None
           /\ inst'[n].acceptedID = inst[n].maxID /\ inst'[n].acceptedID # 0

\* The acceptor n has made the promise p in a step that is over, or p holds.
Kept(n, p) == p.step <= step[n] /\ (p.step = step[n] => Holds(n, p))

LEMMA AcceptorType ==
  ASSUME TypeOK, NEW n \in Nodes
  PROVE  /\ step[n] \in Int /\ inst[n].maxID \in Int /\ inst[n].acceptedID \in Int
         /\ inst[n].acceptedID >= 0
BY DEF TypeOK, Instance, IDOrZero, Steps

LEMMA AcceptorTypeNext ==
  ASSUME TypeOK', NEW n \in Nodes
  PROVE  step'[n] \in Int /\ inst'[n].maxID \in Int /\ inst'[n].acceptedID \in Int
BY DEF TypeOK, Instance, IDOrZero, Steps

LEMMA PromiseFields ==
  ASSUME NEW p \in PromiseMsg
  PROVE  p.step \in Int /\ p.id \in Int /\ p.id >= 1 /\ p.accID \in Int
BY DEF PromiseMsg, OpenSteps, IDs, IDOrZero

LEMMA KeptAdvances ==
  ASSUME Inv, TypeOK', NEW n \in Nodes, Advances(n), NEW p \in PromiseMsg, Kept(n, p)
  PROVE  Kept(n, p)'
<1>1. /\ step[n] \in Int /\ inst[n].maxID \in Int /\ inst[n].acceptedID \in Int
      /\ step'[n] \in Int /\ inst'[n].maxID \in Int /\ inst'[n].acceptedID \in Int
  BY AcceptorType, AcceptorTypeNext DEF Inv
<1>2. inst[n].acceptedID = 0 <=> inst[n].acceptedValue = None BY DEF Inv, AcceptorInv
<1> QED BY <1>1, <1>2, PromiseFields DEF Advances, Kept, Holds

\* The invariant is preserved by a step in which every acceptor advances, when the
\* promises it adds hold.
LEMMA InvAdvances ==
  ASSUME Inv, TypeOK', \A n \in Nodes : Advances(n),
         \A n \in Nodes : \A p \in UnderWay(n)' :
           p.type = "promise" => p \in UnderWay(n) \/ Kept(n, p)'
  PROVE  AcceptorInv'
<1>1. ASSUME NEW n \in Nodes, NEW p \in UnderWay(n)', p.type = "promise"
      PROVE  Kept(n, p)'
  <2>1. CASE p \in UnderWay(n)
    <3>1. p \in PromiseMsg BY <1>1, <2>1, UnderWayType, MessageCases DEF Inv
    <3>2. Kept(n, p) BY <1>1, <2>1 DEF Inv, AcceptorInv, PromisesHold, Kept
    <3> QED BY <3>1, <3>2, KeptAdvances
  <2> QED BY <1>1, <2>1
<1>2. ASSUME NEW n \in Nodes
      PROVE  (inst[n].acceptedID = 0 <=> inst[n].acceptedValue = None)'
  BY DEF Advances, Inv, AcceptorInv
<1> QED BY <1>1, <1>2 DEF AcceptorInv, PromisesHold, Kept

-----------------------------------------------------------------------------
(* One lemma per action *)

\* A handler that leaves the acceptor alone.
LEMMA Unmoved ==
  ASSUME NEW n \in Nodes, Inv, step'[n] = step[n],
         inst'[n].maxID = inst[n].maxID,
         inst'[n].acceptedID = inst[n].acceptedID,
         inst'[n].acceptedValue = inst[n].acceptedValue
  PROVE  Advances(n)
BY AcceptorType DEF Advances, Inv

LEMMA PrepareInv ==
  ASSUME Inv, TypeOK', NEW g \in Goroutines, NEW in \in Incoming(g),
         ExecPaxosPrepare(g, in)
  PROVE  AcceptorInv'
<1> DEFINE n == NodeOf(g)
           m == in.msg
           promise == [type |-> "promise", step |-> step[n], id |-> m.id, dest |-> m.src,
                       accID |-> inst[n].acceptedID, accVal |-> inst[n].acceptedValue]
           h == [inst[n] EXCEPT !.running = TRUE, !.maxID = m.id]
<1>1. n \in Nodes /\ m \in PrepareMsg /\ Within(in.box) /\ TypeOK
  BY NodeOfType, IncomingType, IncomingWithin, MessageCases DEF ExecPaxosPrepare, Inv
<1>2. UNCHANGED <<step, lock>> BY DEF ExecPaxosPrepare
<1>3. CASE Returns(g, in.box) /\ UNCHANGED inst
  BY <1>1, <1>2, <1>3, Unmoved, UnderWayReturns, InvAdvances
<1>4. CASE /\ m.step = step[n] /\ m.id > inst[n].maxID
           /\ inst' = [inst EXCEPT ![n] = [@ EXCEPT !.running = TRUE, !.maxID = m.id]]
           /\ Answers(g, in.box, promise)
  <2>1. inst[n] \in Instance /\ m.id \in IDs /\ m.src \in Nodes /\ m.step \in OpenSteps
    BY <1>1 DEF TypeOK, PrepareMsg
  <2>2. /\ inst'[n].maxID = m.id
        /\ inst'[n].acceptedID = inst[n].acceptedID
        /\ inst'[n].acceptedValue = inst[n].acceptedValue
        /\ \A k \in Nodes \ {n} : inst'[k] = inst[k]
    BY <1>1, <1>4, <2>1 DEF TypeOK, Instance
  <2>3. ASSUME NEW k \in Nodes PROVE Advances(k)
    <3>1. CASE k # n BY <1>2, <2>2, <3>1, Unmoved
    <3>2. CASE k = n
      <4>1. inst'[n].maxID >= inst[n].maxID
        BY <1>1, <1>4, <2>1, <2>2, AcceptorType DEF IDs
      <4> QED BY <1>2, <2>2, <3>2, <4>1 DEF Advances
    <3> QED BY <3>1, <3>2
  <2>4. promise \in Message BY <1>4, <2>1 DEF Instance, PromiseMsg, Message
  <2>5. /\ promise.type = "promise" /\ promise.step = step[n] /\ promise.id = m.id
        /\ promise.accID = inst[n].acceptedID /\ promise.accVal = inst[n].acceptedValue
    OBVIOUS
  <2>6. step[n] \in Int /\ m.id \in Int BY <1>1, <2>1, AcceptorType DEF IDs
  <2> HIDE DEF promise, m, n
  <2> PICK q : q = promise OBVIOUS
  <2>7. Kept(n, q)' BY <1>2, <2>2, <2>5, <2>6 DEF Kept, Holds
  <2>8. \A k \in Nodes : UnderWay(k)' \subseteq UnderWay(k) \cup Fresh(g, promise, k)
    BY <1>1, <1>2, <1>4, <2>4, UnderWayAnswers
  <2>9. \A k \in Nodes : Fresh(g, promise, k) \subseteq IF k = n THEN {q} ELSE {}
    BY <2>5 DEF Fresh, n
  <2> QED BY <2>3, <2>7, <2>8, <2>9, InvAdvances
<1> QED BY <1>3, <1>4 DEF ExecPaxosPrepare

LEMMA BroadcastInv ==
  ASSUME Inv, TypeOK', NEW g \in Goroutines, Broadcast(g)
  PROVE  AcceptorInv'
<1> DEFINE n == NodeOf(g)
           m == out[g]
<1>1. n \in Nodes /\ TypeOK /\ Within(inbox)
  BY NodeOfType DEF Inv, Within, TypeOK, Inboxes
<1>2. /\ UNCHANGED <<step, lock, inst>> /\ out' = [out EXCEPT ![g] = None]
      /\ m \in Message /\ m # None
  BY <1>1 DEF Broadcast, handlerVars, TypeOK
<1>3. PICK p \in Marshalled(n, m) : Sends(g, inbox, p) BY DEF Broadcast
<1>4. m \in UnderWay(n) BY <1>1, <1>2, UnderWayHas
<1>5. \A k \in Nodes : Advances(k) BY <1>2, Unmoved
<1>6. CASE p = m
  <2>1. \A k \in Nodes : UnderWay(k)' \subseteq UnderWay(k) \cup Fresh(g, m, k)
    BY <1>1, <1>2, <1>3, <1>6, UnderWaySends
  <2> QED BY <1>4, <1>5, <2>1, InvAdvances DEF Fresh
<1>7. CASE m.type = "promise" /\ p = [m EXCEPT !.accVal = inst[n].acceptedValue]
  <2>1. m \in PromiseMsg BY <1>2, <1>7, MessageCases
  <2>2. inst[n].acceptedValue \in ValueOrNone BY <1>1 DEF TypeOK, Instance
  <2>3. p \in Message BY <1>7, <2>1, <2>2 DEF PromiseMsg, Message
  <2>4. /\ p.type = "promise" /\ p.step = m.step /\ p.id = m.id /\ p.accID = m.accID
        /\ p.accVal = inst[n].acceptedValue
    BY <1>7, <2>1 DEF PromiseMsg
  <2>5. Kept(n, m) BY <1>1, <1>4, <1>7 DEF Inv, AcceptorInv, PromisesHold, Kept
  <2>6. Kept(n, p)' BY <1>2, <2>4, <2>5 DEF Kept, Holds
  <2>7. \A k \in Nodes : UnderWay(k)' \subseteq UnderWay(k) \cup Fresh(g, p, k)
    BY <1>1, <1>2, <1>3, <2>3, UnderWaySends
  <2> QED BY <1>5, <2>4, <2>6, <2>7, InvAdvances DEF Fresh
<1> QED BY <1>3, <1>6, <1>7 DEF Marshalled

LEMMA ProposeInv ==
  ASSUME Inv, TypeOK', NEW g \in Goroutines, NEW in \in Incoming(g),
         ExecPaxosPropose(g, in)
  PROVE  AcceptorInv'
<1> DEFINE n == NodeOf(g)
           m == in.msg
           accept == [type |-> "accept", step |-> step[n], id |-> m.id, val |-> m.val]
<1>1. n \in Nodes /\ m \in ProposeMsg /\ Within(in.box) /\ TypeOK
  BY NodeOfType, IncomingType, IncomingWithin, MessageCases DEF ExecPaxosPropose, Inv
<1>2. UNCHANGED <<step, lock>> BY DEF ExecPaxosPropose
<1>3. CASE Returns(g, in.box) /\ UNCHANGED inst
  <2>1. \A k \in Nodes : Advances(k) BY <1>2, <1>3, Unmoved
  <2>2. \A k \in Nodes : UnderWay(k)' \subseteq UnderWay(k)
    BY <1>1, <1>2, <1>3, UnderWayReturns
  <2> QED BY <2>1, <2>2, InvAdvances
<1>4. CASE /\ Acceptable(n, m)
           /\ inst' = [inst EXCEPT ![n] = Accepting(@, m)]
           /\ Answers(g, in.box, accept)
  <2>1. /\ inst[n] \in Instance /\ m.step = step[n] /\ m.id = inst[n].maxID
        /\ m.id \in IDs /\ m.val \in Value /\ m.step \in OpenSteps
    BY <1>1, <1>4 DEF TypeOK, ProposeMsg, Acceptable
  <2>2. m.id # 0 /\ m.val # None
    BY <2>1, ValueAssumption DEF IDs
  <2>3. inst' = [inst EXCEPT ![n] = Accepting(inst[n], m)] BY <1>4
  <2>4. /\ inst'[n] = Accepting(inst[n], m)
        /\ \A k \in Nodes \ {n} : inst'[k] = inst[k]
    BY <1>1, <2>3 DEF TypeOK
  <2>5. Accepting(inst[n], m).maxID = inst[n].maxID BY <2>1 DEF Accepting, Instance
  <2>6. \/ /\ Accepting(inst[n], m).acceptedID = inst[n].acceptedID
           /\ Accepting(inst[n], m).acceptedValue = inst[n].acceptedValue
        \/ /\ inst[n].acceptedValue = None
           /\ Accepting(inst[n], m).acceptedID = m.id
           /\ Accepting(inst[n], m).acceptedValue = m.val
    BY <2>1 DEF Accepting, Instance
  <2>7. ASSUME NEW k \in Nodes PROVE Advances(k)
    <3>1. CASE k # n BY <1>2, <2>4, <3>1, Unmoved
    <3>2. CASE k = n
      BY <1>1, <1>2, <2>1, <2>2, <2>4, <2>5, <2>6, <3>2, AcceptorType DEF Advances
    <3> QED BY <3>1, <3>2
  <2>8. accept \in Message /\ accept.type = "accept"
    BY <2>1 DEF AcceptMsg, Message
  <2> HIDE DEF accept, m, n
  <2>9. \A k \in Nodes : UnderWay(k)' \subseteq UnderWay(k) \cup Fresh(g, accept, k)
    BY <1>1, <1>2, <1>4, <2>8, UnderWayAnswers
  <2>10. \A k \in Nodes : \A p \in Fresh(g, accept, k) : p.type # "promise"
    BY <2>8 DEF Fresh
  <2> QED BY <2>7, <2>9, <2>10, InvAdvances
<1> QED BY <1>3, <1>4 DEF ExecPaxosPropose

LEMMA PromiseInv ==
  ASSUME Inv, TypeOK', NEW g \in Goroutines, NEW in \in Incoming(g),
         ExecPaxosPromise(g, in)
  PROVE  AcceptorInv'
<1> DEFINE n == NodeOf(g)
           m == in.msg
<1>1. n \in Nodes /\ m \in PromiseMsg /\ m \in Message /\ Within(in.box) /\ TypeOK
  BY NodeOfType, IncomingType, IncomingWithin, MessageCases DEF ExecPaxosPromise, Inv
<1>2. UNCHANGED step /\ lock[n] = None /\ m.type = "promise" BY DEF ExecPaxosPromise
<1>3. inst' = inst \/ inst' = [inst EXCEPT ![n] = Promised(inst[n], m)]
  BY DEF ExecPaxosPromise
<1>4. ASSUME NEW k \in Nodes PROVE Advances(k)
  <2>1. CASE inst'[k] = inst[k] BY <1>2, <2>1, Unmoved
  <2>2. CASE k = n /\ inst'[n] = Promised(inst[n], m)
    <3>1. inst[n] \in Instance BY <1>1 DEF TypeOK
    <3>2. /\ Promised(inst[n], m).maxID = inst[n].maxID
          /\ Promised(inst[n], m).acceptedID = inst[n].acceptedID
          /\ Promised(inst[n], m).acceptedValue = inst[n].acceptedValue
      BY <3>1 DEF Promised, Instance
    <3> QED BY <1>1, <1>2, <2>2, <3>2, Unmoved
  <2> QED BY <1>1, <1>3, <2>1, <2>2 DEF TypeOK
<1>5. \/ Returns(g, in.box) /\ UNCHANGED lock
      \/ /\ lock' = [lock EXCEPT ![n] = g]
         /\ inbox' = in.box
         /\ local' = [local EXCEPT ![g] = m]
         /\ UNCHANGED out
  BY DEF ExecPaxosPromise
<1>6. \A k \in Nodes : UnderWay(k)' \subseteq UnderWay(k)
  BY <1>1, <1>2, <1>5, UnderWayReturns, UnderWayBlocks
<1> QED BY <1>4, <1>6, InvAdvances

LEMMA PromiseSentInv ==
  ASSUME Inv, TypeOK', NEW n \in Nodes, PromiseSent(n)
  PROVE  AcceptorInv'
<1> DEFINE g == lock[n]
<1>1. TypeOK /\ g \in Goroutines BY DEF Inv, TypeOK, PromiseSent
<1>2. /\ UNCHANGED <<step, inst>> /\ lock' = [lock EXCEPT ![n] = None]
      /\ Returns(g, inbox)
  BY DEF PromiseSent
<1>3. \A k \in Nodes : Advances(k) BY <1>2, Unmoved
<1>4. ASSUME NEW k \in Nodes PROVE UnderWay(k)' \subseteq UnderWay(k)
  <2>1. OnTheWay(inbox', k) \subseteq UnderWay(k) BY <1>2 DEF Returns, UnderWay
  <2>2. ASSUME NEW h \in Goroutines, NodeOf(h) = k, local'[h] # None, lock'[k] # h
        PROVE  lock[k] # h /\ local'[h] = local[h]
    BY <1>1, <1>2, <2>2 DEF TypeOK, Returns
  <2> QED BY <1>2, <2>1, <2>2, UnderWayParts, UnderWayHas DEF Returns
<1> QED BY <1>3, <1>4, InvAdvances

\* The end of a step clears the acceptor and raises the step.
LEMMA EndStepAdvances ==
  ASSUME Inv, NEW n \in Nodes, NEW T \in [OpenSteps -> Seq(Block)], NEW b,
         step[n] \in OpenSteps, EndStep(n, T, b), NEW k \in Nodes
  PROVE  Advances(k)
<1>1. step \in [Nodes -> Steps] /\ inst \in [Nodes -> Instance] BY DEF Inv, TypeOK
<1>2. /\ step' = [step EXCEPT ![n] = NextStep(T, step[n] + 1)]
      /\ inst' = [inst EXCEPT ![n] = Cleared(n)]
  BY DEF EndStep
<1>3. CASE k # n BY <1>1, <1>2, <1>3, Unmoved
<1>4. CASE k = n
  <2>1. step[n] + 1 \in Steps BY ConfigAssumption DEF Steps, OpenSteps
  <2>2. NextStep(T, step[n] + 1) > step[n]
    <3>1. NextStep(T, step[n] + 1) \in (step[n] + 1)..MaxSteps BY <2>1, NextStepType
    <3>2. step[n] \in Int /\ MaxSteps \in Int BY ConfigAssumption DEF OpenSteps
    <3> QED BY <3>1, <3>2
  <2>3. Cleared(n).acceptedID = 0 /\ Cleared(n).acceptedValue = None BY DEF Cleared
  <2>4. step'[n] = NextStep(T, step[n] + 1) /\ inst'[n] = Cleared(n) BY <1>1, <1>2
  <2> QED BY <1>4, <2>2, <2>3, <2>4 DEF Advances
<1> QED BY <1>3, <1>4

LEMMA AcceptInv ==
  ASSUME Inv, TypeOK', NEW g \in Goroutines, NEW in \in Incoming(g),
         ExecPaxosAccept(g, in)
  PROVE  AcceptorInv'
<1> DEFINE n == NodeOf(g)
           m == in.msg
           b == NewBlock(n, m.val)
           tlc == [type |-> "tlc", step |-> step[n], block |-> b]
           counted == [inst[n] EXCEPT !.running = TRUE,
                         !.acceptedValues[m.val] = inst[n].acceptedValues[m.val] + 1]
<1>1. n \in Nodes /\ m \in AcceptMsg /\ Within(in.box) /\ TypeOK
  BY NodeOfType, IncomingType, IncomingWithin, MessageCases DEF ExecPaxosAccept, Inv
<1>2. UNCHANGED lock BY DEF ExecPaxosAccept
<1>3. inst[n] \in Instance BY <1>1 DEF TypeOK
<1>4. CASE /\ Returns(g, in.box)
           /\ UNCHANGED step
           /\ inst' = inst \/ inst' = [inst EXCEPT ![n] = counted]
  <2>1. /\ counted.maxID = inst[n].maxID
        /\ counted.acceptedID = inst[n].acceptedID
        /\ counted.acceptedValue = inst[n].acceptedValue
    BY <1>3 DEF Instance
  <2> HIDE DEF counted
  <2>2. ASSUME NEW k \in Nodes PROVE Advances(k)
    <3>1. inst'[k] = inst[k] \/ (k = n /\ inst'[k] = counted) BY <1>1, <1>4 DEF TypeOK
    <3> QED BY <1>4, <2>1, <3>1, Unmoved
  <2>3. \A k \in Nodes : UnderWay(k)' \subseteq UnderWay(k)
    BY <1>1, <1>2, <1>4, UnderWayReturns
  <2> QED BY <2>2, <2>3, InvAdvances
<1>5. CASE /\ m.step = step[n]
           /\ EndStep(n, inst[n].TLCMap, b)
           /\ Answers(g, in.box, tlc)
  <2>1. step[n] \in OpenSteps /\ m.val \in Value BY <1>1, <1>5 DEF AcceptMsg
  <2>2. b \in Block BY <1>1, <2>1, NewBlockType
  <2>3. tlc \in Message /\ tlc.type = "tlc" BY <2>1, <2>2 DEF TLCMsg, Message
  <2>4. inst[n].TLCMap \in [OpenSteps -> Seq(Block)] BY <1>3 DEF Instance
  <2>5. \A k \in Nodes : Advances(k) BY <1>1, <1>5, <2>1, <2>4, EndStepAdvances
  <2> HIDE DEF tlc
  <2>6. \A k \in Nodes : UnderWay(k)' \subseteq UnderWay(k) \cup Fresh(g, tlc, k)
    BY <1>1, <1>2, <1>5, <2>3, UnderWayAnswers
  <2>7. \A k \in Nodes : \A p \in Fresh(g, tlc, k) : p.type # "promise"
    BY <2>3 DEF Fresh
  <2> QED BY <2>5, <2>6, <2>7, InvAdvances
<1> QED BY <1>4, <1>5 DEF ExecPaxosAccept

LEMMA ExecTLCInv ==
  ASSUME Inv, TypeOK', NEW g \in Goroutines, NEW in \in Incoming(g), ExecTLC(g, in)
  PROVE  AcceptorInv'
<1> DEFINE n == NodeOf(g)
           m == in.msg
           T == [inst[n].TLCMap EXCEPT ![m.step] = Append(@, m.block)]
           running == inst[n].running \/ m.step = step[n]
           counted == [inst[n] EXCEPT !.TLCMap = T, !.running = running]
<1>1. n \in Nodes /\ m \in TLCMsg /\ m \in Message /\ m.type = "tlc"
      /\ Within(in.box) /\ TypeOK
  BY NodeOfType, IncomingType, IncomingWithin, MessageCases DEF ExecTLC, Inv
<1>2. UNCHANGED lock BY DEF ExecTLC
<1>3. inst[n] \in Instance /\ m.step \in OpenSteps /\ m.block \in Block
  BY <1>1 DEF TypeOK, TLCMsg
<1>4. T \in [OpenSteps -> Seq(Block)]
  <2>1. inst[n].TLCMap \in [OpenSteps -> Seq(Block)] BY <1>3 DEF Instance
  <2>2. Append(inst[n].TLCMap[m.step], m.block) \in Seq(Block)
    BY <1>3, <2>1, AppendProperties
  <2> QED BY <1>3, <2>1, <2>2
<1>5. CASE /\ Returns(g, in.box)
           /\ UNCHANGED step
           /\ inst' = inst \/ inst' = [inst EXCEPT ![n] = counted]
  <2>1. /\ counted.maxID = inst[n].maxID
        /\ counted.acceptedID = inst[n].acceptedID
        /\ counted.acceptedValue = inst[n].acceptedValue
    <3> HIDE DEF T, running
    <3> QED BY <1>3 DEF Instance
  <2> HIDE DEF counted
  <2>2. ASSUME NEW k \in Nodes PROVE Advances(k)
    <3>1. inst'[k] = inst[k] \/ (k = n /\ inst'[k] = counted) BY <1>1, <1>5 DEF TypeOK
    <3> QED BY <1>5, <2>1, <3>1, Unmoved
  <2>3. \A k \in Nodes : UnderWay(k)' \subseteq UnderWay(k)
    BY <1>1, <1>2, <1>5, UnderWayReturns
  <2> QED BY <2>2, <2>3, InvAdvances
<1>6. CASE /\ m.step = step[n]
           /\ EndStep(n, T, m.block)
           /\ Answers(g, in.box, m)
  <2> HIDE DEF T
  <2>1. \A k \in Nodes : Advances(k) BY <1>1, <1>3, <1>4, <1>6, EndStepAdvances
  <2>2. \A k \in Nodes : UnderWay(k)' \subseteq UnderWay(k) \cup Fresh(g, m, k)
    BY <1>1, <1>2, <1>6, UnderWayAnswers
  <2>3. \A k \in Nodes : \A p \in Fresh(g, m, k) : p.type # "promise"
    BY <1>1 DEF Fresh
  <2> QED BY <2>1, <2>2, <2>3, InvAdvances
<1> QED BY <1>5, <1>6 DEF ExecTLC

\* The steps of Tag: the acceptor is left alone, and what they broadcast is not a
\* promise.
LEMMA TagQuiet ==
  ASSUME Inv, TypeOK', UNCHANGED <<messageVars, lock, step>>,
         \A k \in Nodes : /\ inst'[k].maxID = inst[k].maxID
                          /\ inst'[k].acceptedID = inst[k].acceptedID
                          /\ inst'[k].acceptedValue = inst[k].acceptedValue
  PROVE  AcceptorInv'
<1>1. \A k \in Nodes : Advances(k) BY Unmoved
<1>2. \A k \in Nodes : UnderWay(k)' = UnderWay(k) BY DEF UnderWay, messageVars
<1> QED BY <1>1, <1>2, InvAdvances

LEMMA TagAnswers ==
  ASSUME Inv, TypeOK', NEW c \in Calls, NEW m \in Message,
         m.type \in {"prepare", "propose"}, Answers(c, inbox, m),
         UNCHANGED <<lock, step>>,
         \A k \in Nodes : /\ inst'[k].maxID = inst[k].maxID
                          /\ inst'[k].acceptedID = inst[k].acceptedID
                          /\ inst'[k].acceptedValue = inst[k].acceptedValue
  PROVE  AcceptorInv'
<1>1. \A k \in Nodes : Advances(k) BY Unmoved
<1>2. c \in Goroutines /\ Within(inbox) /\ TypeOK
  BY DEF Goroutines, Within, Inv, TypeOK, Inboxes
<1>3. \A k \in Nodes : UnderWay(k)' \subseteq UnderWay(k) \cup Fresh(c, m, k)
  BY <1>2, UnderWayAnswers
<1>4. \A k \in Nodes : \A p \in Fresh(c, m, k) : p.type # "promise" BY DEF Fresh
<1> QED BY <1>1, <1>3, <1>4, InvAdvances

LEMMA InitPaxosInstanceInv ==
  ASSUME Inv, TypeOK', NEW c \in Calls, InitPaxosInstance(c)
  PROVE  AcceptorInv'
<1> DEFINE n == Host[c]
           h == [inst[n] EXCEPT !.running = TRUE]
<1>1. n \in Nodes BY HostType, PopulationAssumption
<1>2. inst \in [Nodes -> Instance] BY DEF Inv, TypeOK
<1>3. inst' = inst \/ inst' = [inst EXCEPT ![n] = h] BY DEF InitPaxosInstance
<1>4. /\ h.maxID = inst[n].maxID /\ h.acceptedID = inst[n].acceptedID
      /\ h.acceptedValue = inst[n].acceptedValue
  BY <1>1, <1>2 DEF Instance
<1> HIDE DEF h
<1>5. \A k \in Nodes : inst'[k] = inst[k] \/ (k = n /\ inst'[k] = h)
  BY <1>1, <1>2, <1>3
<1> QED BY <1>4, <1>5, TagQuiet DEF InitPaxosInstance

LEMMA NextIDInv ==
  ASSUME Inv, TypeOK', NEW c \in Calls, NextID(c)
  PROVE  AcceptorInv'
<1> DEFINE n == Host[c]
           h == [inst[n] EXCEPT !.paxosID = inst[n].paxosID + TotalPeers]
<1>1. n \in Nodes BY HostType, PopulationAssumption
<1>2. inst \in [Nodes -> Instance] BY DEF Inv, TypeOK
<1>3. inst' = [inst EXCEPT ![n] = h] BY DEF NextID
<1>4. /\ h.maxID = inst[n].maxID /\ h.acceptedID = inst[n].acceptedID
      /\ h.acceptedValue = inst[n].acceptedValue
  BY <1>1, <1>2 DEF Instance
<1> HIDE DEF h
<1>5. \A k \in Nodes : inst'[k] = inst[k] \/ (k = n /\ inst'[k] = h)
  BY <1>1, <1>2, <1>3
<1> QED BY <1>4, <1>5, TagQuiet DEF NextID

LEMMA PaxosPhase1Inv ==
  ASSUME Inv, TypeOK', NEW c \in Calls, PaxosPhase1(c)
  PROVE  AcceptorInv'
<1> DEFINE n == Host[c]
           v == [step |-> step[n], id |-> inst[n].paxosID, tag |-> c]
           h == Preparing(inst[n], v)
           m == [type |-> "prepare", step |-> step[n], id |-> inst[n].paxosID, src |-> n]
<1>1. n \in Nodes BY HostType, PopulationAssumption
<1>2. inst \in [Nodes -> Instance] /\ step[n] \in Steps BY <1>1 DEF Inv, TypeOK
<1>3. step[n] \in OpenSteps
  BY <1>2, ConfigAssumption DEF PaxosPhase1, Steps, OpenSteps
<1>4. m \in Message BY <1>1, <1>2, <1>3 DEF Message, PrepareMsg, Instance
<1>5. inst' = [inst EXCEPT ![n] = h] BY DEF PaxosPhase1
<1>6. /\ h.maxID = inst[n].maxID /\ h.acceptedID = inst[n].acceptedID
      /\ h.acceptedValue = inst[n].acceptedValue
  BY <1>1, <1>2 DEF Instance, Preparing
<1>7. m.type = "prepare" OBVIOUS
<1> HIDE DEF h, m
<1>8. \A k \in Nodes : inst'[k] = inst[k] \/ (k = n /\ inst'[k] = h)
  BY <1>1, <1>2, <1>5
<1>9. Answers(c, inbox, m) /\ UNCHANGED <<lock, step>> BY DEF PaxosPhase1, m
<1> QED BY <1>4, <1>6, <1>7, <1>8, <1>9, TagAnswers

LEMMA PaxosPhase2Inv ==
  ASSUME Inv, TypeOK', NEW c \in Calls, PaxosPhase2(c)
  PROVE  AcceptorInv'
<1> DEFINE n == Host[c]
           m == [type |-> "propose", step |-> step[n], id |-> inst[n].paxosID,
                 val |-> tag[c].value]
<1>1. n \in Nodes BY HostType, PopulationAssumption
<1>2. inst[n] \in Instance /\ step[n] \in Steps BY <1>1 DEF Inv, TypeOK
<1>3. step[n] \in OpenSteps
  BY <1>2, ConfigAssumption DEF PaxosPhase2, Steps, OpenSteps
<1>4. tag[c].value \in Value
  BY DEF PaxosPhase2, Inv, TypeOK, TagState, ValueOrNone
<1>5. m \in Message BY <1>2, <1>3, <1>4 DEF Message, ProposeMsg, Instance
<1>6. m.type = "propose" OBVIOUS
<1> HIDE DEF m
<1>7. Answers(c, inbox, m) /\ UNCHANGED <<lock, step, inst>>
  BY DEF PaxosPhase2, m, handlerVars
<1> QED BY <1>5, <1>6, <1>7, TagAnswers

-----------------------------------------------------------------------------
(* The theorems *)

LEMMA InitInv == Init => AcceptorInv
<1> SUFFICES ASSUME Init PROVE AcceptorInv OBVIOUS
<1>1. \A n \in Nodes : UnderWay(n) = {}
  <2>1. \A n \in Nodes : OnTheWay(inbox, n) = {} BY DEF Init, OnTheWay
  <2> QED BY <2>1 DEF Init, UnderWay
<1>2. \A n \in Nodes : inst[n].acceptedID = 0 /\ inst[n].acceptedValue = None
  BY DEF Init, Cleared
<1> QED BY <1>1, <1>2 DEF Init, AcceptorInv, PromisesHold

LEMMA NextInv == Inv /\ TypeOK' /\ [Next]_vars => AcceptorInv'
<1> SUFFICES ASSUME Inv, TypeOK', [Next]_vars PROVE AcceptorInv' OBVIOUS
<1>1. CASE UNCHANGED vars BY <1>1, TagQuiet DEF vars, handlerVars
<1>2. ASSUME NEW g \in Goroutines, Handle(g) PROVE AcceptorInv'
  BY <1>2, BroadcastInv, PrepareInv, ProposeInv, PromiseInv, AcceptInv, ExecTLCInv DEF Handle
<1>3. ASSUME NEW n \in Nodes, PromiseSent(n) PROVE AcceptorInv'
  BY <1>3, PromiseSentInv
<1>4. ASSUME NEW c \in Calls, TagStep(c) PROVE AcceptorInv'
  <2>1. CASE TagStart(c) BY <2>1, TagQuiet DEF TagStart, handlerVars
  <2>2. CASE InstanceFinished(c) BY <2>2, TagQuiet DEF InstanceFinished, handlerVars
  <2>3. CASE TagBegin(c) BY <2>3, TagQuiet DEF TagBegin, handlerVars
  <2>4. CASE TagLoop(c) BY <2>4, TagQuiet DEF TagLoop, handlerVars
  <2>5. CASE PromiseReceived(c) BY <2>5, TagQuiet DEF PromiseReceived
  <2>6. CASE ValueReceived(c) BY <2>6, TagQuiet DEF ValueReceived
  <2> QED
    BY <1>4, <2>1, <2>2, <2>3, <2>4, <2>5, <2>6, InitPaxosInstanceInv, PaxosPhase1Inv,
       NextIDInv, PaxosPhase2Inv
    DEF TagStep
<1>5. ASSUME NEW c \in Calls, Timeout(c) PROVE AcceptorInv'
  BY <1>5, TagQuiet DEF Timeout, PromiseTimeout, ValueTimeout, handlerVars
<1> QED BY <1>1, <1>2, <1>3, <1>4, <1>5 DEF Next

\* The strengthened invariant: what the acceptor and the promises under way, those
\* yet to be marshalled included, know of each other (respondToPrepareMsg,
\* respondToProposeMsg, clearInstance).
THEOREM AcceptorCorrect == Spec => []AcceptorInv
<1>1. Init => AcceptorInv BY InitInv
<1>2. Spec => []TypeOK BY TypeCorrect
<1>3. AcceptorInv /\ TypeOK /\ TypeOK' /\ [Next]_vars => AcceptorInv'
  BY NextInv DEF Inv
<1> QED BY <1>1, <1>2, <1>3, PTL DEF Spec

\* No acceptor goes back on a promise of the step it is in, whatever the number
\* of peers, of calls, of steps and of retries, although the promise is marshalled
\* outside the lock (ExecPaxosPrepareMessage).
THEOREM PromisesKept == Spec => []PromisesHold
<1>1. AcceptorInv => PromisesHold BY DEF AcceptorInv
<1> QED BY <1>1, AcceptorCorrect, PTL

=============================================================================
