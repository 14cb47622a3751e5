------------------------------- MODULE TLCProofs -------------------------------
(***************************************************************************)
(* The TLC messages and the blockchain stores, for every population,       *)
(* threshold and bound: a node announces a step once and after it has left *)
(* it, those it has counted come from as many peers (TLCBacked), what is   *)
(* announced and counted is what some node has stored (TLCStored), and a   *)
(* chain can only break where two nodes already disagree.                  *)
(*                                                                         *)
(* A TLC message is in one of four places: held by the goroutine that has  *)
(* yet to broadcast it, in the inbox of a peer, counted in a TLCMap, or    *)
(* gone.  The invariant says where the message of a node for a step can    *)
(* be; then every step of the program is one of five kinds: it moves no    *)
(* TLC message (Quiet), broadcasts one (Announces), counts one (Counts),   *)
(* or ends the step of a node, with its message held or broadcast (Ends).  *)
(***************************************************************************)
EXTENDS PaxosTLCProofs

-----------------------------------------------------------------------------
(* The inductive invariant *)

\* The TLC messages of a sequence, and that it has at most one per step
TLCs(q) == {q[i] : i \in {j \in DOMAIN q : q[j].type = "tlc"}}
Once(q) ==
  \A i, j \in DOMAIN q :
    q[i].type = "tlc" /\ q[j].type = "tlc" /\ q[i].step = q[j].step => i = j

HoldsTLC(g) == out[g] # None /\ out[g].type = "tlc"

\* The nodes whose TLC message of step s has yet to be counted by d
Pending(d, s) ==
  {o \in Nodes :
     \/ \E m \in TLCs(inbox[d][o]) : m.step = s
     \/ \E g \in Goroutines : NodeOf(g) = o /\ HoldsTLC(g) /\ out[g].step = s}

Ahead(s) == {o \in Nodes : step[o] > s}

LocalInv == \A g \in Goroutines : local[g] # None => local[g].type # "tlc"

HeldInv ==
  \A g \in Goroutines : HoldsTLC(g) =>
    /\ out[g].step < step[NodeOf(g)]
    /\ \A h \in Goroutines :
         HoldsTLC(h) /\ NodeOf(h) = NodeOf(g) /\ out[h].step = out[g].step => h = g
    /\ \A d \in Nodes : \A m \in TLCs(inbox[d][NodeOf(g)]) : m.step # out[g].step

FlightInv ==
  \A d, o \in Nodes :
    Once(inbox[d][o]) /\ \A m \in TLCs(inbox[d][o]) : m.step < step[o]

CountInv ==
  \A d \in Nodes : \A s \in OpenSteps :
    step[d] <= s =>
      Len(inst[d].TLCMap[s]) + Cardinality(Pending(d, s)) <= Cardinality(Ahead(s))

TrafficInv == LocalInv /\ HeldInv /\ FlightInv /\ CountInv

\* b is the block of step s in the store of o
Stored(o, s, b) == s + 1 \in DOMAIN blocks[o] /\ b = blocks[o][s + 1]

\* b fits the place i of a chain: its hash is that of a block some node has before
Joined(b, i) ==
  /\ b.index = i - 1
  /\ i = 1 => b.prev = <<>>
  /\ i # 1 => \E m \in Nodes : i - 1 \in DOMAIN blocks[m] /\ b.prev = Hash(blocks[m][i - 1])

LengthInv == \A n \in Nodes : Len(blocks[n]) = step[n]

AnnouncedInv ==
  /\ \A g \in Goroutines : HoldsTLC(g) => Stored(NodeOf(g), out[g].step, out[g].block)
  /\ \A d, o \in Nodes : \A m \in TLCs(inbox[d][o]) : Stored(o, m.step, m.block)

CountedInv ==
  \A d \in Nodes : \A s \in OpenSteps : \A i \in DOMAIN inst[d].TLCMap[s] :
    \E o \in Nodes : Stored(o, s, inst[d].TLCMap[s][i])

JoinedInv == \A n \in Nodes : \A i \in DOMAIN blocks[n] : Joined(blocks[n][i], i)

StoreInv == LengthInv /\ AnnouncedInv /\ CountedInv /\ JoinedInv

TLCInv == TypeOK /\ TrafficInv /\ StoreInv

-----------------------------------------------------------------------------
(* TLC messages of a sequence *)

\* What is appended adds at most itself, and keeps one message per step if its step is new.
LEMMA AppendTLC ==
  ASSUME NEW q \in Seq(Message), NEW m \in Message
  PROVE  /\ m.type # "tlc" => TLCs(Append(q, m)) = TLCs(q) /\ (Once(q) => Once(Append(q, m)))
         /\ TLCs(Append(q, m)) \subseteq TLCs(q) \cup {m}
         /\ Once(q) /\ (\A p \in TLCs(q) : p.step # m.step) => Once(Append(q, m))
<1> DEFINE r == Append(q, m)
           k == Len(q) + 1
<1>1. /\ Len(q) \in Nat /\ DOMAIN q = 1..Len(q) /\ DOMAIN r = 1..k
      /\ \A i \in 1..Len(q) : r[i] = q[i]
      /\ r[k] = m
  <2>1. r \in Seq(Message) /\ Len(r) = k BY AppendProperties
  <2> QED BY <2>1, AppendProperties, LenProperties
<1>2. \A i \in DOMAIN r : i = k \/ i \in DOMAIN q BY <1>1
<1>3. \A i \in DOMAIN q : i \in DOMAIN r /\ r[i] = q[i] /\ i # k BY <1>1
<1> HIDE DEF r, k
<1>4. r[k] = m BY <1>1
<1>5. TLCs(r) \subseteq TLCs(q) \cup {m} BY <1>2, <1>3, <1>4 DEF TLCs
<1>6. m.type # "tlc" => TLCs(r) = TLCs(q) BY <1>2, <1>3, <1>4 DEF TLCs
<1>7. m.type # "tlc" => (Once(q) => Once(r)) BY <1>2, <1>3, <1>4 DEF Once
<1>8. ASSUME Once(q), \A p \in TLCs(q) : p.step # m.step PROVE Once(r)
  <2>1. \A i \in DOMAIN q : q[i].type = "tlc" => q[i].step # m.step
    BY <1>8 DEF TLCs
  <2> QED BY <2>1, <1>2, <1>3, <1>4, <1>8 DEF Once
<1> QED BY <1>5, <1>6, <1>7, <1>8 DEF r

\* The head taken, the rest has no other message of its step.
LEMMA TailTLC ==
  ASSUME NEW q \in Seq(Message), q # <<>>
  PROVE  /\ TLCs(Tail(q)) \subseteq TLCs(q)
         /\ Once(q) => Once(Tail(q))
         /\ Head(q).type = "tlc" => Head(q) \in TLCs(q)
         /\ Head(q).type = "tlc" /\ Once(q) =>
              \A p \in TLCs(Tail(q)) : p.step # Head(q).step
<1> DEFINE r == Tail(q)
<1>1. /\ Len(q) \in Nat /\ DOMAIN q = 1..Len(q) /\ Len(q) >= 1
      /\ DOMAIN r = 1..(Len(q) - 1)
      /\ \A i \in 1..(Len(q) - 1) : r[i] = q[i + 1]
  <2>1. r \in Seq(Message) /\ Len(r) = Len(q) - 1 BY HeadTailProperties
  <2> QED BY <2>1, HeadTailProperties, LenProperties, EmptySeq
<1>2. \A i \in DOMAIN r : i + 1 \in DOMAIN q /\ r[i] = q[i + 1] /\ i + 1 # 1 BY <1>1
<1>3. \A i, j \in DOMAIN r : i + 1 = j + 1 => i = j BY <1>1
<1>4. 1 \in DOMAIN q /\ Head(q) = q[1] BY <1>1
<1> HIDE DEF r
<1>5. TLCs(r) \subseteq TLCs(q) BY <1>2 DEF TLCs
<1>6. Once(q) => Once(r) BY <1>2, <1>3 DEF Once
<1>7. Head(q).type = "tlc" => Head(q) \in TLCs(q) BY <1>4 DEF TLCs
<1>8. ASSUME q[1].type = "tlc", Once(q), NEW p \in TLCs(r) PROVE p.step # q[1].step
  <2>1. PICK i \in DOMAIN r : r[i].type = "tlc" /\ p = r[i] BY DEF TLCs
  <2> QED BY <2>1, <1>2, <1>4, <1>8 DEF Once
<1> QED BY <1>4, <1>5, <1>6, <1>7, <1>8 DEF r

\* A TLC message in a queue has a step still open to counting and a block.
LEMMA TLCsType ==
  ASSUME NEW q \in Seq(Message), NEW m \in TLCs(q)
  PROVE  m \in TLCMsg /\ m.type = "tlc" /\ m.step \in OpenSteps /\ m.block \in Block
<1>1. PICK i \in DOMAIN q : q[i].type = "tlc" /\ m = q[i] BY DEF TLCs
<1>2. m \in Message BY <1>1, LenProperties, ElementOfSeq
<1> QED BY <1>1, <1>2, MessageCases DEF TLCMsg

-----------------------------------------------------------------------------
(* What receiving, returning and sending do to the TLC messages *)

\* The TLC messages of box are among those of the inboxes
Fewer(box) ==
  \A d, o \in Nodes : TLCs(box[d][o]) \subseteq TLCs(inbox[d][o]) /\ Once(box[d][o])

HeldKept == \A g \in Goroutines : HoldsTLC(g)' => HoldsTLC(g) /\ out'[g] = out[g]

\* What a goroutine takes leaves fewer messages; a TLC message it takes came from an inbox, and
\* no other one of that sender and step is left there.
LEMMA IncomingTLC ==
  ASSUME TLCInv, NEW g \in Goroutines, NEW in \in Incoming(g)
  PROVE  /\ Fewer(in.box)
         /\ in.msg.type = "tlc" =>
              /\ g \in Nodes
              /\ \E o \in Nodes : /\ in.msg \in TLCs(inbox[g][o])
                                  /\ \A p \in TLCs(in.box[g][o]) : p.step # in.msg.step
<1>0. \A d, o \in Nodes : Once(inbox[d][o]) /\ inbox[d][o] \in Seq(Message)
  BY DEF TLCInv, TrafficInv, FlightInv, TypeOK
<1>1. CASE local[g] # None
  <2>1. in.msg = local[g] /\ in.box = inbox BY <1>1 DEF Incoming
  <2>2. in.msg.type # "tlc" BY <1>1, <2>1 DEF TLCInv, TrafficInv, LocalInv
  <2> QED BY <1>0, <2>1, <2>2 DEF Fewer
<1>2. CASE local[g] = None
  <2>1. PICK o \in Nodes :
          /\ g \in Nodes /\ inbox[g][o] # <<>>
          /\ in = [msg |-> Head(inbox[g][o]), box |-> [inbox EXCEPT ![g][o] = Tail(@)]]
    BY <1>2 DEF Incoming, Idle
  <2>2. inbox \in [Nodes -> [Nodes -> Seq(Message)]] BY DEF TLCInv, TypeOK
  <2>3. in.box[g][o] = Tail(inbox[g][o]) /\ in.msg = Head(inbox[g][o]) BY <2>1, <2>2
  <2>4. \A d, p \in Nodes : (d = g /\ p = o) \/ in.box[d][p] = inbox[d][p] BY <2>1, <2>2
  <2>5. Fewer(in.box) BY <1>0, <2>1, <2>3, <2>4, TailTLC DEF Fewer
  <2> QED BY <1>0, <2>1, <2>3, <2>5, TailTLC
<1> QED BY <1>1, <1>2

\* A section that answers nothing broadcasts nothing.
LEMMA ReturnsTLC ==
  ASSUME TLCInv, NEW g \in Goroutines, NEW box, Returns(g, box)
  PROVE  inbox' = box /\ LocalInv' /\ HeldKept
<1>1. local \in [Goroutines -> Message \cup {None}] BY DEF TLCInv, TypeOK
<1> QED BY <1>1 DEF Returns, LocalInv, HeldKept, HoldsTLC, TLCInv, TrafficInv

\* A broadcast is appended to the inbox of every other node.
LEMMA SentTLC ==
  ASSUME NEW box \in Inboxes, NEW n \in Nodes, NEW m \in Message, NEW d \in Nodes,
         NEW o \in Nodes
  PROVE  Sent(box, n, m)[d][o] = IF o = n /\ d # n THEN Append(box[d][o], m)
                                 ELSE box[d][o]
BY DEF Sent, Inboxes

\* To broadcast another message moves no TLC message.
LEMMA SendsTLC ==
  ASSUME TLCInv, NEW g \in Goroutines, NEW box \in Inboxes, Fewer(box),
         NEW m \in Message, m.type # "tlc", Sends(g, box, m)
  PROVE  Fewer(inbox') /\ LocalInv'
<1> DEFINE n == NodeOf(g)
<1>1. n \in Nodes /\ local \in [Goroutines -> Message \cup {None}]
  BY NodeOfType DEF TLCInv, TypeOK
<1>2. \A d, o \in Nodes : inbox'[d][o] \in {box[d][o], Append(box[d][o], m)}
  <2>1. CASE m.type = "promise"
    <3>1. m.dest \in Nodes BY <2>1, MessageCases DEF PromiseMsg
    <3>2. CASE m.dest = n
      <4>1. inbox' = box BY <2>1, <3>2 DEF Sends
      <4> QED BY <4>1
    <3>3. CASE m.dest # n
      <4>1. inbox' = [box EXCEPT ![m.dest][n] = Append(@, m)] BY <2>1, <3>3 DEF Sends
      <4> QED BY <1>1, <3>1, <4>1 DEF Inboxes
    <3> QED BY <3>2, <3>3
  <2>2. CASE m.type # "promise"
    <3>1. inbox' = Sent(box, n, m) BY <2>2 DEF Sends
    <3>2. \A d, o \in Nodes :
            Sent(box, n, m)[d][o] = box[d][o] \/ Sent(box, n, m)[d][o] = Append(box[d][o], m)
      <4> HIDE DEF n
      <4> QED BY <1>1 DEF Sent, Inboxes
    <3> QED BY <3>1, <3>2
  <2> QED BY <2>1, <2>2
<1>3. Fewer(inbox')
  <2> SUFFICES ASSUME NEW d \in Nodes, NEW o \in Nodes
               PROVE  TLCs(inbox'[d][o]) \subseteq TLCs(inbox[d][o]) /\ Once(inbox'[d][o])
    BY DEF Fewer
  <2>1. box[d][o] \in Seq(Message) BY DEF Inboxes
  <2>2. TLCs(box[d][o]) \subseteq TLCs(inbox[d][o]) /\ Once(box[d][o]) BY DEF Fewer
  <2>3. /\ TLCs(Append(box[d][o], m)) = TLCs(box[d][o])
        /\ Once(box[d][o]) => Once(Append(box[d][o], m))
    BY <2>1, AppendTLC
  <2> QED BY <1>2, <2>2, <2>3
<1>4. local' = [local EXCEPT ![g] = m] \/ local' = [local EXCEPT ![g] = None]
  BY DEF Sends
<1>5. LocalInv' BY <1>1, <1>4 DEF LocalInv, TLCInv, TrafficInv
<1> QED BY <1>3, <1>5

\* To answer with another message moves no TLC message.
LEMMA AnswersTLC ==
  ASSUME TLCInv, NEW g \in Goroutines, NEW box \in Inboxes, Fewer(box),
         NEW m \in Message, m.type # "tlc", Answers(g, box, m)
  PROVE  Fewer(inbox') /\ LocalInv' /\ HeldKept
<1>1. CASE Sends(g, box, m) /\ UNCHANGED out
  BY <1>1, SendsTLC DEF HeldKept, HoldsTLC
<1>2. CASE /\ inbox' = box
           /\ local' = [local EXCEPT ![g] = None]
           /\ out' = [out EXCEPT ![g] = m]
  <2>1. /\ local \in [Goroutines -> Message \cup {None}]
        /\ out \in [Goroutines -> Message \cup {None}]
    BY DEF TLCInv, TypeOK
  <2>2. LocalInv' BY <1>2, <2>1 DEF LocalInv, TLCInv, TrafficInv
  <2>3. HeldKept BY <1>2, <2>1 DEF HeldKept, HoldsTLC
  <2> QED BY <1>2, <2>2, <2>3
<1> QED BY <1>1, <1>2 DEF Answers

-----------------------------------------------------------------------------
(* The steps that end no step of a node *)

\* Sets of nodes are counted monotonically (Nodes is finite).
LEMMA CountSubset ==
  ASSUME NEW T \in SUBSET Nodes, NEW S \in SUBSET T
  PROVE  /\ IsFiniteSet(S) /\ IsFiniteSet(T)
         /\ Cardinality(S) \in Nat /\ Cardinality(T) \in Nat
         /\ Cardinality(S) <= Cardinality(T)
<1>1. IsFiniteSet(T) BY FS_Subset, PopulationAssumption
<1>2. IsFiniteSet(S) /\ Cardinality(S) <= Cardinality(T) BY <1>1, FS_Subset
<1> QED BY <1>1, <1>2, FS_CardinalityType

\* A TLCMap has a list of blocks for every step.
LEMMA MapType ==
  ASSUME TypeOK, NEW d \in Nodes, NEW s \in OpenSteps
  PROVE  /\ inst[d].TLCMap \in [OpenSteps -> Seq(Block)]
         /\ inst[d].TLCMap[s] \in Seq(Block) /\ Len(inst[d].TLCMap[s]) \in Nat
<1>1. inst[d].TLCMap \in [OpenSteps -> Seq(Block)] BY DEF TypeOK, Instance
<1> QED BY <1>1, LenProperties

SameMaps == \A d \in Nodes : inst'[d].TLCMap = inst[d].TLCMap

\* No TLC message moves, except to be dropped.
Quiet ==
  /\ Fewer(inbox') /\ LocalInv' /\ HeldKept
  /\ UNCHANGED <<step, blocks>>

\* As long as no node ends a step the messages that remain are announced rightly.
LEMMA QuietMessages ==
  ASSUME TLCInv, Quiet
  PROVE  /\ HeldInv' /\ FlightInv' /\ LengthInv' /\ AnnouncedInv' /\ JoinedInv'
         /\ \A d \in Nodes : \A s \in OpenSteps : Pending(d, s)' \subseteq Pending(d, s)
<1>1. \A d, o \in Nodes : TLCs(inbox'[d][o]) \subseteq TLCs(inbox[d][o]) /\ Once(inbox'[d][o])
  BY DEF Quiet, Fewer
<1>2. \A g \in Goroutines : HoldsTLC(g)' => HoldsTLC(g) /\ out'[g] = out[g]
  BY DEF Quiet, HeldKept
<1>3. step' = step /\ blocks' = blocks BY DEF Quiet
<1>4. HeldInv'
  <2> SUFFICES ASSUME NEW g \in Goroutines, HoldsTLC(g)'
               PROVE  /\ out'[g].step < step'[NodeOf(g)]
                      /\ \A h \in Goroutines :
                           HoldsTLC(h)' /\ NodeOf(h) = NodeOf(g)
                             /\ out'[h].step = out'[g].step => h = g
                      /\ \A d \in Nodes : \A m \in TLCs(inbox'[d][NodeOf(g)]) :
                           m.step # out'[g].step
    BY DEF HeldInv
  <2>1. HoldsTLC(g) /\ out'[g] = out[g] BY <1>2
  <2>2. NodeOf(g) \in Nodes BY NodeOfType
  <2>3. /\ out[g].step < step[NodeOf(g)]
        /\ \A h \in Goroutines :
             HoldsTLC(h) /\ NodeOf(h) = NodeOf(g) /\ out[h].step = out[g].step => h = g
        /\ \A d \in Nodes : \A m \in TLCs(inbox[d][NodeOf(g)]) : m.step # out[g].step
    BY <2>1 DEF TLCInv, TrafficInv, HeldInv
  <2> QED BY <1>1, <1>2, <1>3, <2>1, <2>2, <2>3
<1>5. FlightInv' BY <1>1, <1>3 DEF TLCInv, TrafficInv, FlightInv
<1>6. LengthInv' /\ JoinedInv'
  BY <1>3 DEF TLCInv, StoreInv, LengthInv, JoinedInv, Joined
<1>7. AnnouncedInv'
  BY <1>1, <1>2, <1>3 DEF TLCInv, StoreInv, AnnouncedInv, Stored
<1>8. \A d \in Nodes : \A s \in OpenSteps : Pending(d, s)' \subseteq Pending(d, s)
  BY <1>1, <1>2 DEF Pending
<1> QED BY <1>4, <1>5, <1>6, <1>7, <1>8

\* A step that moves no TLC message and counts none keeps the invariant.
LEMMA QuietStep ==
  ASSUME TLCInv, TypeOK', Quiet, SameMaps
  PROVE  TLCInv'
<1>1. /\ HeldInv' /\ FlightInv' /\ LengthInv' /\ AnnouncedInv' /\ JoinedInv' /\ LocalInv'
      /\ \A d \in Nodes : \A s \in OpenSteps : Pending(d, s)' \subseteq Pending(d, s)
  BY QuietMessages DEF Quiet
<1>2. step' = step /\ blocks' = blocks /\ \A d \in Nodes : inst'[d].TLCMap = inst[d].TLCMap
  BY DEF Quiet, SameMaps
<1>3. CountInv'
  <2> SUFFICES ASSUME NEW d \in Nodes, NEW s \in OpenSteps, step'[d] <= s
               PROVE  Len(inst'[d].TLCMap[s]) + Cardinality(Pending(d, s)')
                        <= Cardinality(Ahead(s)')
    BY DEF CountInv
  <2>1. Ahead(s)' = Ahead(s) BY <1>2 DEF Ahead
  <2>2. Pending(d, s)' \in SUBSET Pending(d, s) BY <1>1
  <2>3. Pending(d, s) \in SUBSET Nodes /\ Ahead(s) \in SUBSET Nodes BY DEF Pending, Ahead
  <2>4. Cardinality(Pending(d, s)') <= Cardinality(Pending(d, s)) BY <2>2, <2>3, CountSubset
  <2>5. /\ Cardinality(Pending(d, s)') \in Nat /\ Cardinality(Pending(d, s)) \in Nat
        /\ Cardinality(Ahead(s)) \in Nat
    BY <2>2, <2>3, CountSubset
  <2>6. Len(inst[d].TLCMap[s]) + Cardinality(Pending(d, s)) <= Cardinality(Ahead(s))
    BY <1>2 DEF TLCInv, TrafficInv, CountInv
  <2>7. Len(inst[d].TLCMap[s]) \in Nat BY MapType DEF TLCInv
  <2> QED BY <1>2, <2>1, <2>4, <2>5, <2>6, <2>7
<1>4. CountedInv' BY <1>2 DEF TLCInv, StoreInv, CountedInv, Stored
<1> QED BY <1>1, <1>3, <1>4 DEF TLCInv, TrafficInv, StoreInv

\* The goroutine g broadcasts the TLC message it holds.
Announces(g) ==
  /\ HoldsTLC(g)
  /\ out' = [out EXCEPT ![g] = None]
  /\ inbox' = Sent(inbox, NodeOf(g), out[g])
  /\ LocalInv'
  /\ UNCHANGED <<step, blocks>>

\* The broadcast of a held TLC message keeps the invariant: each node awaited it before and
\* awaits it now.
LEMMA AnnouncesStep ==
  ASSUME TLCInv, TypeOK', NEW g \in Goroutines, Announces(g), SameMaps
  PROVE  TLCInv'
<1> PICK n : n = NodeOf(g) OBVIOUS
<1> PICK m : m = out[g] OBVIOUS
<1>1. /\ n \in Nodes /\ m \in Message /\ m.type = "tlc" /\ m \in TLCMsg
      /\ inbox \in Inboxes
      /\ out \in [Goroutines -> Message \cup {None}]
  <2>1. m \in Message /\ m.type = "tlc"
    BY DEF Announces, HoldsTLC, TLCInv, TypeOK
  <2> QED BY <2>1, NodeOfType, MessageCases DEF TLCInv, TypeOK, Inboxes
<1>2. /\ m.step < step[n] /\ Stored(n, m.step, m.block)
      /\ \A h \in Goroutines : HoldsTLC(h) /\ NodeOf(h) = n /\ out[h].step = m.step => h = g
      /\ \A d \in Nodes : \A p \in TLCs(inbox[d][n]) : p.step # m.step
  BY DEF Announces, TLCInv, TrafficInv, HeldInv, StoreInv, AnnouncedInv
<1>3. step' = step /\ blocks' = blocks /\ \A d \in Nodes : inst'[d].TLCMap = inst[d].TLCMap
  BY DEF Announces, SameMaps
<1>4. \A h \in Goroutines : HoldsTLC(h)' => HoldsTLC(h) /\ out'[h] = out[h] /\ h # g
  BY <1>1 DEF Announces, HoldsTLC
<1>5. ASSUME NEW d \in Nodes, NEW o \in Nodes
      PROVE  /\ TLCs(inbox'[d][o]) \subseteq
                  TLCs(inbox[d][o]) \cup (IF o = n THEN {m} ELSE {})
             /\ Once(inbox'[d][o])
  <2>1. inbox[d][o] \in Seq(Message) /\ Once(inbox[d][o])
    BY <1>1 DEF Inboxes, TLCInv, TrafficInv, FlightInv
  <2>2. inbox'[d][o] = inbox[d][o] \/ (o = n /\ inbox'[d][o] = Append(inbox[d][o], m))
    BY <1>1 DEF Announces, Sent, Inboxes
  <2>3. o = n => /\ TLCs(Append(inbox[d][o], m)) \subseteq TLCs(inbox[d][o]) \cup {m}
                 /\ Once(Append(inbox[d][o], m))
    BY <1>1, <1>2, <2>1, AppendTLC
  <2> QED BY <2>1, <2>2, <2>3
<1>6. HeldInv'
  <2> SUFFICES ASSUME NEW k \in Goroutines, HoldsTLC(k)'
               PROVE  /\ out'[k].step < step'[NodeOf(k)]
                      /\ \A h \in Goroutines :
                           HoldsTLC(h)' /\ NodeOf(h) = NodeOf(k)
                             /\ out'[h].step = out'[k].step => h = k
                      /\ \A d \in Nodes : \A p \in TLCs(inbox'[d][NodeOf(k)]) :
                           p.step # out'[k].step
    BY DEF HeldInv
  <2>1. HoldsTLC(k) /\ out'[k] = out[k] /\ k # g BY <1>4
  <2>2. NodeOf(k) \in Nodes BY NodeOfType
  <2>3. /\ out[k].step < step[NodeOf(k)]
        /\ \A h \in Goroutines :
             HoldsTLC(h) /\ NodeOf(h) = NodeOf(k) /\ out[h].step = out[k].step => h = k
        /\ \A d \in Nodes : \A p \in TLCs(inbox[d][NodeOf(k)]) : p.step # out[k].step
    BY <2>1 DEF TLCInv, TrafficInv, HeldInv
  <2>4. NodeOf(k) = n => out[k].step # m.step BY <1>2, <2>1
  <2>5. \A d \in Nodes : \A p \in TLCs(inbox'[d][NodeOf(k)]) : p.step # out'[k].step
    <3> SUFFICES ASSUME NEW d \in Nodes, NEW p \in TLCs(inbox'[d][NodeOf(k)])
                 PROVE  p.step # out[k].step
      BY <2>1
    <3>1. p \in TLCs(inbox[d][NodeOf(k)]) \/ (NodeOf(k) = n /\ p = m) BY <1>5, <2>2
    <3> QED BY <3>1, <2>3, <2>4
  <2> QED BY <1>3, <1>4, <2>1, <2>2, <2>3, <2>5
<1>7. FlightInv'
  <2> SUFFICES ASSUME NEW d \in Nodes, NEW o \in Nodes, NEW p \in TLCs(inbox'[d][o])
               PROVE  p.step < step[o]
    BY <1>3, <1>5 DEF FlightInv
  <2> QED BY <1>2, <1>5 DEF TLCInv, TrafficInv, FlightInv
<1>8. CountInv'
  <2> SUFFICES ASSUME NEW d \in Nodes, NEW s \in OpenSteps, step'[d] <= s
               PROVE  Len(inst'[d].TLCMap[s]) + Cardinality(Pending(d, s)')
                        <= Cardinality(Ahead(s)')
    BY DEF CountInv
  <2>1. Ahead(s)' = Ahead(s) BY <1>3 DEF Ahead
  <2>2. Pending(d, s)' \in SUBSET Pending(d, s)
    <3> SUFFICES ASSUME NEW o \in Pending(d, s)' PROVE o \in Pending(d, s) OBVIOUS
    <3>0. o \in Nodes BY DEF Pending
    <3>1. CASE \E p \in TLCs(inbox'[d][o]) : p.step = s
      <4>1. PICK p \in TLCs(inbox'[d][o]) : p.step = s BY <3>1
      <4>2. p \in TLCs(inbox[d][o]) \/ (o = n /\ p = m) BY <1>5, <3>0
      <4>3. CASE p \in TLCs(inbox[d][o]) BY <3>0, <4>1, <4>3 DEF Pending
      <4>4. CASE o = n /\ p = m
        <5>1. HoldsTLC(g) /\ out[g].step = s BY <4>1, <4>4 DEF Announces
        <5> QED BY <3>0, <4>4, <5>1 DEF Pending
      <4> QED BY <4>2, <4>3, <4>4
    <3>2. CASE \E h \in Goroutines : NodeOf(h) = o /\ HoldsTLC(h)' /\ out'[h].step = s
      BY <1>4, <3>0, <3>2 DEF Pending
    <3> QED BY <3>1, <3>2 DEF Pending
  <2>3. Pending(d, s) \in SUBSET Nodes /\ Ahead(s) \in SUBSET Nodes BY DEF Pending, Ahead
  <2>4. Cardinality(Pending(d, s)') <= Cardinality(Pending(d, s)) BY <2>2, <2>3, CountSubset
  <2>5. /\ Cardinality(Pending(d, s)') \in Nat /\ Cardinality(Pending(d, s)) \in Nat
        /\ Cardinality(Ahead(s)) \in Nat
    BY <2>2, <2>3, CountSubset
  <2>6. Len(inst[d].TLCMap[s]) + Cardinality(Pending(d, s)) <= Cardinality(Ahead(s))
    BY <1>3 DEF TLCInv, TrafficInv, CountInv
  <2>7. Len(inst[d].TLCMap[s]) \in Nat BY MapType DEF TLCInv
  <2> QED BY <1>3, <2>1, <2>4, <2>5, <2>6, <2>7
<1>9. AnnouncedInv'
  <2>1. \A h \in Goroutines : HoldsTLC(h)' => Stored(NodeOf(h), out[h].step, out[h].block)'
    BY <1>3, <1>4 DEF TLCInv, StoreInv, AnnouncedInv, Stored
  <2>2. ASSUME NEW d \in Nodes, NEW o \in Nodes, NEW p \in TLCs(inbox'[d][o])
        PROVE  Stored(o, p.step, p.block)
    BY <1>2, <1>5 DEF TLCInv, StoreInv, AnnouncedInv
  <2> QED BY <1>3, <2>1, <2>2 DEF AnnouncedInv, Stored
<1>10. CountedInv' /\ LengthInv' /\ JoinedInv'
  BY <1>3 DEF TLCInv, StoreInv, CountedInv, Stored, LengthInv, JoinedInv, Joined
<1> QED BY <1>6, <1>7, <1>8, <1>9, <1>10 DEF TLCInv, TrafficInv, StoreInv, Announces

\* The listener of n takes the TLC message m of o and counts it.
Counts(n, o, m) ==
  /\ Quiet
  /\ m \in TLCs(inbox[n][o])
  /\ \A p \in TLCs(inbox'[n][o]) : p.step # m.step
  /\ inst'[n].TLCMap = [inst[n].TLCMap EXCEPT ![m.step] = Append(@, m.block)]
  /\ \A d \in Nodes \ {n} : inst'[d].TLCMap = inst[d].TLCMap

\* Counting a message keeps the invariant: its sender is awaited no more (respondToTLCMsg).
LEMMA CountsStep ==
  ASSUME TLCInv, TypeOK', NEW n \in Nodes, NEW o \in Nodes, NEW m, Counts(n, o, m)
  PROVE  TLCInv'
<1>0. m \in TLCs(inbox[n][o]) BY DEF Counts
<1>1. m.step \in OpenSteps /\ m.block \in Block
  <2>1. inbox[n][o] \in Seq(Message) BY DEF TLCInv, TypeOK
  <2> QED BY <1>0, <2>1, TLCsType
<1>2. /\ HeldInv' /\ FlightInv' /\ LengthInv' /\ AnnouncedInv' /\ JoinedInv' /\ LocalInv'
      /\ \A d \in Nodes : \A s \in OpenSteps : Pending(d, s)' \subseteq Pending(d, s)
  BY QuietMessages DEF Counts, Quiet
<1>3. step' = step /\ blocks' = blocks BY DEF Counts, Quiet
<1>4. ASSUME NEW d \in Nodes, NEW s \in OpenSteps
      PROVE  IF d = n /\ s = m.step
               THEN inst'[d].TLCMap[s] = Append(inst[d].TLCMap[s], m.block)
               ELSE inst'[d].TLCMap[s] = inst[d].TLCMap[s]
  <2>1. inst[n].TLCMap \in [OpenSteps -> Seq(Block)] BY MapType, <1>1 DEF TLCInv
  <2> QED BY <1>1, <2>1 DEF Counts
<1>5. o \in Pending(n, m.step) /\ o \notin Pending(n, m.step)'
  <2>1. o \in Pending(n, m.step) BY <1>0 DEF Pending
  <2>2. ASSUME NEW g \in Goroutines, NodeOf(g) = o, HoldsTLC(g)' PROVE out'[g].step # m.step
    <3>1. HoldsTLC(g) /\ out'[g] = out[g] BY <2>2 DEF Counts, Quiet, HeldKept
    <3> QED BY <1>0, <2>2, <3>1 DEF TLCInv, TrafficInv, HeldInv
  <2>3. \A p \in TLCs(inbox'[n][o]) : p.step # m.step BY DEF Counts
  <2> QED BY <2>1, <2>2, <2>3 DEF Pending
<1>6. CountInv'
  <2> SUFFICES ASSUME NEW d \in Nodes, NEW s \in OpenSteps, step'[d] <= s
               PROVE  Len(inst'[d].TLCMap[s]) + Cardinality(Pending(d, s)')
                        <= Cardinality(Ahead(s)')
    BY DEF CountInv
  <2>1. Ahead(s)' = Ahead(s) BY <1>3 DEF Ahead
  <2>2. Pending(d, s)' \in SUBSET Pending(d, s) BY <1>2
  <2>3. Pending(d, s) \in SUBSET Nodes /\ Ahead(s) \in SUBSET Nodes BY DEF Pending, Ahead
  <2>4. /\ Cardinality(Pending(d, s)') \in Nat /\ Cardinality(Pending(d, s)) \in Nat
        /\ Cardinality(Ahead(s)) \in Nat
        /\ Cardinality(Pending(d, s)') <= Cardinality(Pending(d, s))
    BY <2>2, <2>3, CountSubset
  <2>5. Len(inst[d].TLCMap[s]) + Cardinality(Pending(d, s)) <= Cardinality(Ahead(s))
    BY <1>3 DEF TLCInv, TrafficInv, CountInv
  <2>6. inst[d].TLCMap[s] \in Seq(Block) /\ Len(inst[d].TLCMap[s]) \in Nat
    BY MapType DEF TLCInv
  <2>7. CASE d = n /\ s = m.step
    <3>1. Len(inst'[d].TLCMap[s]) = Len(inst[d].TLCMap[s]) + 1
      <4>1. inst'[d].TLCMap[s] = Append(inst[d].TLCMap[s], m.block) BY <1>4, <2>7
      <4> QED BY <1>1, <2>6, <4>1, AppendProperties
    <3>2. Pending(d, s)' \in SUBSET (Pending(d, s) \ {o}) BY <1>5, <2>2, <2>7
    <3>3. IsFiniteSet(Pending(d, s)) BY <2>2, <2>3, CountSubset
    <3>4. Cardinality(Pending(d, s) \ {o}) = Cardinality(Pending(d, s)) - 1
      BY <1>5, <2>7, <3>3, FS_RemoveElement
    <3>5. Pending(d, s) \ {o} \in SUBSET Nodes BY <2>3
    <3>6. Cardinality(Pending(d, s)') <= Cardinality(Pending(d, s) \ {o})
      BY <3>2, <3>5, CountSubset
    <3> QED BY <2>1, <2>4, <2>5, <2>6, <3>1, <3>4, <3>6
  <2>8. CASE ~ (d = n /\ s = m.step)
    <3>1. inst'[d].TLCMap[s] = inst[d].TLCMap[s] BY <1>4, <2>8
    <3> QED BY <2>1, <2>4, <2>5, <2>6, <3>1
  <2> QED BY <2>7, <2>8
<1>7. CountedInv'
  <2> SUFFICES ASSUME NEW d \in Nodes, NEW s \in OpenSteps,
                      NEW i \in DOMAIN inst'[d].TLCMap[s]
               PROVE  \E k \in Nodes : Stored(k, s, inst'[d].TLCMap[s][i])
    BY <1>3 DEF CountedInv, Stored
  <2>0. inst[d].TLCMap[s] \in Seq(Block) BY MapType DEF TLCInv
  <2>1. \A j \in DOMAIN inst[d].TLCMap[s] : \E k \in Nodes : Stored(k, s, inst[d].TLCMap[s][j])
    BY DEF TLCInv, StoreInv, CountedInv
  <2>2. CASE d = n /\ s = m.step
    <3> PICK q : q = inst[d].TLCMap[s] OBVIOUS
    <3>1. inst'[d].TLCMap[s] = Append(q, m.block) BY <1>4, <2>2
    <3>2. /\ Len(q) \in Nat /\ DOMAIN q = 1..Len(q)
          /\ DOMAIN Append(q, m.block) = 1..(Len(q) + 1)
          /\ \A j \in 1..Len(q) : Append(q, m.block)[j] = q[j]
          /\ Append(q, m.block)[Len(q) + 1] = m.block
      <4>1. q \in Seq(Block) BY <2>0
      <4>2. /\ Append(q, m.block) \in Seq(Block) /\ Len(Append(q, m.block)) = Len(q) + 1
            /\ \A j \in 1..Len(q) : Append(q, m.block)[j] = q[j]
            /\ Append(q, m.block)[Len(q) + 1] = m.block
        BY <1>1, <4>1, AppendProperties
      <4> QED BY <4>1, <4>2, LenProperties
    <3>3. Stored(o, m.step, m.block) BY <1>0 DEF TLCInv, StoreInv, AnnouncedInv
    <3>4. CASE i = Len(q) + 1 BY <2>2, <3>1, <3>2, <3>3, <3>4
    <3>5. CASE i # Len(q) + 1
      <4>1. i \in DOMAIN Append(q, m.block) BY <3>1
      <4>2. i \in DOMAIN q BY <3>2, <3>5, <4>1
      <4>3. Append(q, m.block)[i] = q[i] BY <3>2, <4>2
      <4> QED BY <2>1, <3>1, <4>2, <4>3
    <3> QED BY <3>4, <3>5
  <2>3. CASE ~ (d = n /\ s = m.step) BY <1>4, <2>1, <2>3
  <2> QED BY <2>2, <2>3
<1> QED BY <1>2, <1>6, <1>7 DEF TLCInv, TrafficInv, StoreInv

-----------------------------------------------------------------------------
(* The step that ends a step of a node *)

\* The blocks of a step's end are the one decided, then for each further step the one that made
\* the threshold of its TLC messages (catchUp).
LEMMA NewBlocksAt ==
  ASSUME NEW T \in [OpenSteps -> Seq(Block)], NEW s \in OpenSteps, NEW b \in Block
  PROVE  /\ NextStep(T, s + 1) \in (s + 1)..MaxSteps
         /\ NewBlocks(T, s, b) \in Seq(Block)
         /\ Len(NewBlocks(T, s, b)) = NextStep(T, s + 1) - s
         /\ NewBlocks(T, s, b)[1] = b
         /\ \A i \in 2..(NextStep(T, s + 1) - s) :
              /\ s + i - 1 \in OpenSteps
              /\ Threshold \in DOMAIN T[s + i - 1]
              /\ NewBlocks(T, s, b)[i] = T[s + i - 1][Threshold]
<1> DEFINE last == NextStep(T, s + 1) - (s + 1)
           rest == [i \in 1..last |-> T[s + i][Threshold]]
<1>1. s \in Nat /\ s + 1 \in Steps
  BY ConfigAssumption DEF Steps, OpenSteps
<1>2. /\ NextStep(T, s + 1) \in (s + 1)..MaxSteps
      /\ \A u \in (s + 1)..(NextStep(T, s + 1) - 1) : Len(T[u]) >= Threshold
  BY <1>1, NextStepType
<1>3. last \in Nat BY <1>1, <1>2
<1>4. ASSUME NEW i \in 1..last
      PROVE  /\ s + i \in OpenSteps /\ Threshold \in DOMAIN T[s + i]
             /\ T[s + i][Threshold] \in Block
  <2>1. s + i \in OpenSteps /\ s + i \in (s + 1)..(NextStep(T, s + 1) - 1)
    BY <1>1, <1>2, ConfigAssumption DEF OpenSteps
  <2>2. T[s + i] \in Seq(Block) /\ Len(T[s + i]) >= Threshold BY <1>2, <2>1
  <2> QED BY <2>1, <2>2, ConfigAssumption, ElementOfSeq, LenProperties
<1>5. rest \in Seq(Block) /\ Len(rest) = last /\ \A i \in 1..last : rest[i] = T[s + i][Threshold]
  <2> HIDE DEF last
  <2>1. rest \in Seq(Block) BY <1>3, <1>4, IsASeq
  <2> QED BY <1>3, <2>1, LenProperties
<1>6. /\ <<b>> \in Seq(Block) /\ Len(<<b>>) = 1 /\ <<b>>[1] = b OBVIOUS
<1> HIDE DEF rest
<1>7. /\ <<b>> \o rest \in Seq(Block)
      /\ Len(<<b>> \o rest) = 1 + last
      /\ \A i \in 1..(1 + last) : (<<b>> \o rest)[i] = IF i <= 1 THEN <<b>>[i] ELSE rest[i - 1]
  BY <1>5, <1>6, ConcatProperties
<1>8. NewBlocks(T, s, b) = <<b>> \o rest BY DEF NewBlocks, rest
<1> PICK B : B = <<b>> \o rest OBVIOUS
<1>9. B[1] = b
  <2> HIDE DEF last
  <2>1. 1 \in 1..(1 + last) BY <1>3
  <2> QED BY <1>6, <1>7, <2>1
<1>10. ASSUME NEW i \in 2..(NextStep(T, s + 1) - s)
       PROVE  /\ s + i - 1 \in OpenSteps
              /\ Threshold \in DOMAIN T[s + i - 1]
              /\ B[i] = T[s + i - 1][Threshold]
  <2>1. i \in 1..(1 + last) /\ i - 1 \in 1..last /\ ~ (i <= 1) /\ s + (i - 1) = s + i - 1
    BY <1>1, <1>2
  <2> HIDE DEF last
  <2>2. B[i] = rest[i - 1] BY <1>7, <2>1
  <2> QED BY <1>4, <1>5, <2>1, <2>2
<1>11. Len(B) = NextStep(T, s + 1) - s BY <1>1, <1>2, <1>7
<1> QED BY <1>2, <1>7, <1>8, <1>9, <1>10, <1>11

\* The stores only grow.
Grows ==
  \A o \in Nodes : \A j \in DOMAIN blocks[o] :
    j \in DOMAIN blocks'[o] /\ blocks'[o][j] = blocks[o][j]

\* The end of the step of n, from the block b: its store then has a block per step,
\* b and, for the steps it passed over, the block of the threshold's message.
LEMMA EndStores ==
  ASSUME TypeOK, LengthInv, NEW n \in Nodes, NEW T \in [OpenSteps -> Seq(Block)],
         NEW b \in Block, step[n] \in OpenSteps, EndStep(n, T, b)
  PROVE  /\ step'[n] > step[n] /\ step'[n] \in Steps
         /\ \A d \in Nodes \ {n} : step'[d] = step[d] /\ blocks'[d] = blocks[d]
         /\ Len(blocks'[n]) = step'[n] /\ blocks'[n] \in Seq(Block)
         /\ Grows
         /\ blocks'[n][step[n] + 1] = b
         /\ \A j \in (step[n] + 2)..step'[n] :
              /\ j - 1 \in OpenSteps /\ Threshold \in DOMAIN T[j - 1]
              /\ blocks'[n][j] = T[j - 1][Threshold]
<1> PICK s : s = step[n] OBVIOUS
<1> PICK B : B = NewBlocks(T, s, b) OBVIOUS
<1> PICK t : t = NextStep(T, s + 1) OBVIOUS
<1> PICK q : q = blocks[n] OBVIOUS
<1>1. s \in OpenSteps /\ s \in Nat /\ t \in (s + 1)..MaxSteps /\ B \in Seq(Block) /\ Len(B) = t - s
      /\ B[1] = b
      /\ \A i \in 2..(t - s) : /\ s + i - 1 \in OpenSteps /\ Threshold \in DOMAIN T[s + i - 1]
                               /\ B[i] = T[s + i - 1][Threshold]
  <2>1. s \in OpenSteps OBVIOUS
  <2>2. /\ NextStep(T, s + 1) \in (s + 1)..MaxSteps
        /\ NewBlocks(T, s, b) \in Seq(Block)
        /\ Len(NewBlocks(T, s, b)) = NextStep(T, s + 1) - s
        /\ NewBlocks(T, s, b)[1] = b
        /\ \A i \in 2..(NextStep(T, s + 1) - s) :
             /\ s + i - 1 \in OpenSteps
             /\ Threshold \in DOMAIN T[s + i - 1]
             /\ NewBlocks(T, s, b)[i] = T[s + i - 1][Threshold]
    BY <2>1, NewBlocksAt
  <2> QED BY <2>1, <2>2 DEF OpenSteps
<1>a. s \in Nat /\ t \in Nat /\ t > s /\ B \in Seq(Block) /\ Len(B) = t - s
  BY <1>1, ConfigAssumption
<1>2. q \in Seq(Block) /\ Len(q) = s BY DEF TypeOK, LengthInv
<1>3. /\ q \o B \in Seq(Block) /\ Len(q \o B) = t
      /\ \A i \in 1..t : (q \o B)[i] = IF i <= s THEN q[i] ELSE B[i - s]
  <2>1. /\ q \o B \in Seq(Block) /\ Len(q \o B) = Len(q) + Len(B)
        /\ \A i \in 1..(Len(q) + Len(B)) :
             (q \o B)[i] = IF i <= Len(q) THEN q[i] ELSE B[i - Len(q)]
    BY <1>a, <1>2, ConcatProperties
  <2>2. Len(q) + Len(B) = t BY <1>a, <1>2
  <2> QED BY <1>2, <2>1, <2>2
<1>4. /\ blocks' = [blocks EXCEPT ![n] = q \o B]
      /\ step' = [step EXCEPT ![n] = t]
  BY DEF EndStep
<1>5. /\ blocks'[n] = q \o B /\ step'[n] = t
      /\ \A d \in Nodes \ {n} : step'[d] = step[d] /\ blocks'[d] = blocks[d]
  BY <1>4 DEF TypeOK
<1>6. DOMAIN q = 1..s /\ DOMAIN (q \o B) = 1..t BY <1>2, <1>3, LenProperties
<1>7. Grows
  <2> SUFFICES ASSUME NEW o \in Nodes, NEW j \in DOMAIN blocks[o]
               PROVE  j \in DOMAIN blocks'[o] /\ blocks'[o][j] = blocks[o][j]
    BY DEF Grows
  <2>1. CASE o = n
    <3>1. j \in 1..s BY <1>6, <2>1
    <3>2. j \in 1..t /\ j <= s BY <1>1, <3>1
    <3> QED BY <1>3, <1>5, <1>6, <2>1, <3>2
  <2>2. CASE o # n BY <1>5, <2>2
  <2> QED BY <2>1, <2>2
<1>8. (q \o B)[s + 1] = b
  <2>1. s + 1 \in 1..t /\ ~ (s + 1 <= s) /\ (s + 1) - s = 1 BY <1>1
  <2> QED BY <1>1, <1>3, <2>1
<1>9. ASSUME NEW j \in (s + 2)..t
      PROVE  /\ j - 1 \in OpenSteps /\ Threshold \in DOMAIN T[j - 1]
             /\ (q \o B)[j] = T[j - 1][Threshold]
  <2>0. j \in Int /\ s + 2 <= j /\ j <= t BY <1>a
  <2>a. s \in Nat /\ t \in Nat BY <1>a
  <2>b. j - s \in 2..(t - s) /\ s + (j - s) - 1 = j - 1 BY <2>0, <2>a
  <2>1. j \in 1..t /\ ~ (j <= s) BY <2>0, <2>a
  <2> QED BY <1>1, <1>3, <2>1, <2>b
<1>10. t > s /\ t \in Steps BY <1>1 DEF Steps
<1> QED BY <1>3, <1>5, <1>7, <1>8, <1>9, <1>10

\* What is stored, and what is joined to a stored block, remains so as the stores grow.
LEMMA StoresGrow ==
  ASSUME TypeOK, LengthInv, StoreInv, Grows, NEW o \in Nodes, NEW b, NEW i \in Nat
  PROVE  /\ Stored(o, i, b) => i + 1 \in DOMAIN blocks'[o] /\ b = blocks'[o][i + 1]
         /\ Joined(b, i) => Joined(b, i)'
BY DEF Grows, Stored, Joined

\* The goroutine g ends the step of its node with the block of m, which it has
\* yet to broadcast or broadcasts in the same step.
Ends(g, box, m, T) ==
  /\ m.step = step[NodeOf(g)]
  /\ EndStep(NodeOf(g), T, m.block)
  /\ Answers(g, box, m)

\* Where TLC messages are after the end of a step: where they were, and the one of that step
\* held by the goroutine that ended it or broadcast.
LEMMA EndsMessages ==
  ASSUME TLCInv, NEW g \in Goroutines, NEW box \in Inboxes, Fewer(box),
         NEW m \in TLCMsg, NEW T, Ends(g, box, m, T), NEW n \in Nodes, n = NodeOf(g)
  PROVE  /\ \A d, o \in Nodes :
              /\ TLCs(inbox'[d][o]) \subseteq
                   TLCs(inbox[d][o]) \cup (IF o = n THEN {m} ELSE {})
              /\ Once(inbox'[d][o])
         /\ \A h \in Goroutines : HoldsTLC(h)' =>
              \/ HoldsTLC(h) /\ out'[h] = out[h]
              \/ /\ h = g /\ out'[h] = m
                 /\ \A d, o \in Nodes : TLCs(inbox'[d][o]) \subseteq TLCs(inbox[d][o])
         /\ LocalInv'
<1>1. n \in Nodes /\ m.type = "tlc" /\ m \in Message /\ m.step = step[n]
  BY NodeOfType DEF TLCMsg, Message, Ends
<1>2. /\ local \in [Goroutines -> Message \cup {None}]
      /\ out \in [Goroutines -> Message \cup {None}]
      /\ LocalInv
  BY DEF TLCInv, TypeOK, TrafficInv
<1>3. \A d, o \in Nodes : /\ TLCs(box[d][o]) \subseteq TLCs(inbox[d][o]) /\ Once(box[d][o])
                          /\ \A p \in TLCs(inbox[d][o]) : p.step < step[o]
  BY DEF Fewer, TLCInv, TrafficInv, FlightInv
<1>4. CASE Sends(g, box, m) /\ UNCHANGED out
  <2>1. inbox' = Sent(box, n, m) /\ local' = [local EXCEPT ![g] = None]
    BY <1>1, <1>4 DEF Sends
  <2>2. ASSUME NEW d \in Nodes, NEW o \in Nodes
        PROVE  /\ TLCs(inbox'[d][o]) \subseteq
                    TLCs(inbox[d][o]) \cup (IF o = n THEN {m} ELSE {})
               /\ Once(inbox'[d][o])
    <3>1. box[d][o] \in Seq(Message) BY DEF Inboxes
    <3>2. inbox'[d][o] = box[d][o] \/ (o = n /\ inbox'[d][o] = Append(box[d][o], m))
      BY <1>1, <2>1 DEF Sent, Inboxes
    <3>3. o = n => \A p \in TLCs(box[d][o]) : p.step # m.step
      <4>1. step[o] \in Int BY DEF TLCInv, TypeOK, Steps
      <4> QED BY <1>1, <1>3, <4>1
    <3>4. o = n => /\ TLCs(Append(box[d][o], m)) \subseteq TLCs(box[d][o]) \cup {m}
                   /\ Once(Append(box[d][o], m))
      BY <1>1, <1>3, <3>1, <3>3, AppendTLC
    <3> QED BY <1>3, <3>2, <3>4
  <2>3. LocalInv' BY <1>2, <2>1 DEF LocalInv
  <2> QED BY <1>4, <2>2, <2>3 DEF HoldsTLC
<1>5. CASE /\ inbox' = box
           /\ local' = [local EXCEPT ![g] = None]
           /\ out' = [out EXCEPT ![g] = m]
  <2>1. LocalInv' BY <1>2, <1>5 DEF LocalInv
  <2>2. \A h \in Goroutines : HoldsTLC(h)' =>
          (HoldsTLC(h) /\ out'[h] = out[h]) \/ (h = g /\ out'[h] = m)
    BY <1>2, <1>5 DEF HoldsTLC
  <2> QED BY <1>3, <1>5, <2>1, <2>2
<1> QED BY <1>4, <1>5 DEF Ends, Answers

\* The end of a step keeps the invariant: the node joins those that have left the step and
\* announces it once, and every block stored at once was counted from one that another node has.
LEMMA EndsStep ==
  ASSUME TLCInv, TypeOK', NEW g \in Goroutines, NEW box \in Inboxes, Fewer(box),
         NEW m \in TLCMsg, NEW T \in [OpenSteps -> Seq(Block)], Ends(g, box, m, T),
         \A s \in OpenSteps : \A i \in DOMAIN T[s] : \E o \in Nodes : Stored(o, s, T[s][i]),
         Joined(m.block, m.step + 1)
  PROVE  TLCInv'
<1> PICK n : n = NodeOf(g) OBVIOUS
<1>1. /\ n \in Nodes /\ m.step \in OpenSteps /\ m.block \in Block /\ m.step = step[n]
      /\ EndStep(n, T, m.block)
  BY NodeOfType DEF TLCMsg, Ends
<1>2. TypeOK /\ TrafficInv /\ StoreInv BY DEF TLCInv
<1>3. /\ step'[n] > step[n] /\ step'[n] \in Steps
      /\ \A d \in Nodes \ {n} : step'[d] = step[d] /\ blocks'[d] = blocks[d]
      /\ Len(blocks'[n]) = step'[n] /\ blocks'[n] \in Seq(Block)
      /\ Grows
      /\ blocks'[n][step[n] + 1] = m.block
      /\ \A j \in (step[n] + 2)..step'[n] :
           /\ j - 1 \in OpenSteps /\ Threshold \in DOMAIN T[j - 1]
           /\ blocks'[n][j] = T[j - 1][Threshold]
  BY <1>1, <1>2, EndStores DEF StoreInv
<1>4. \A d \in Nodes : step[d] \in Nat /\ step'[d] \in Nat /\ step[d] <= step'[d]
  <2> SUFFICES ASSUME NEW d \in Nodes
               PROVE  step[d] \in Nat /\ step'[d] \in Nat /\ step[d] <= step'[d]
    OBVIOUS
  <2>1. step[d] \in Nat BY <1>2, ConfigAssumption DEF TypeOK, Steps
  <2>2. CASE d = n BY <1>3, <2>1, <2>2, ConfigAssumption DEF Steps
  <2>3. CASE d # n BY <1>3, <2>1, <2>3
  <2> QED BY <2>2, <2>3
<1>5. m.step \in Nat BY <1>1, ConfigAssumption DEF OpenSteps
<1>6. /\ \A d, o \in Nodes :
           /\ TLCs(inbox'[d][o]) \subseteq
                TLCs(inbox[d][o]) \cup (IF o = n THEN {m} ELSE {})
           /\ Once(inbox'[d][o])
      /\ \A h \in Goroutines : HoldsTLC(h)' =>
           \/ HoldsTLC(h) /\ out'[h] = out[h]
           \/ /\ h = g /\ out'[h] = m
              /\ \A d, o \in Nodes : TLCs(inbox'[d][o]) \subseteq TLCs(inbox[d][o])
      /\ LocalInv'
  BY <1>1, EndsMessages
<1>7. \A d, o \in Nodes : \A p \in TLCs(inbox[d][o]) :
        p.step \in OpenSteps /\ p.step \in Nat /\ p.step < step[o]
  <2> SUFFICES ASSUME NEW d \in Nodes, NEW o \in Nodes, NEW p \in TLCs(inbox[d][o])
               PROVE  p.step \in OpenSteps /\ p.step \in Nat /\ p.step < step[o]
    OBVIOUS
  <2>1. p.step \in OpenSteps BY <1>2, TLCsType DEF TypeOK
  <2>2. p.step < step[o] BY <1>2 DEF TrafficInv, FlightInv
  <2> QED BY <2>1, <2>2, ConfigAssumption DEF OpenSteps
<1>8. \A h \in Goroutines : HoldsTLC(h) =>
        /\ out[h].step \in Nat /\ out[h].step < step[NodeOf(h)]
        /\ \A d \in Nodes : \A p \in TLCs(inbox[d][NodeOf(h)]) : p.step # out[h].step
        /\ \A k \in Goroutines :
             HoldsTLC(k) /\ NodeOf(k) = NodeOf(h) /\ out[k].step = out[h].step => k = h
  <2> SUFFICES ASSUME NEW h \in Goroutines, HoldsTLC(h) PROVE out[h].step \in Nat
    BY <1>2 DEF TrafficInv, HeldInv
  <2>1. out[h] \in Message /\ out[h].type = "tlc" BY <1>2 DEF TypeOK, HoldsTLC
  <2> QED BY <2>1, MessageCases, ConfigAssumption DEF TLCMsg, OpenSteps
<1>9. HeldInv'
  <2> SUFFICES ASSUME NEW h \in Goroutines, HoldsTLC(h)'
               PROVE  /\ out'[h].step < step'[NodeOf(h)]
                      /\ \A k \in Goroutines :
                           HoldsTLC(k)' /\ NodeOf(k) = NodeOf(h)
                             /\ out'[k].step = out'[h].step => k = h
                      /\ \A d \in Nodes : \A p \in TLCs(inbox'[d][NodeOf(h)]) :
                           p.step # out'[h].step
    BY DEF HeldInv
  <2>0. NodeOf(h) \in Nodes BY NodeOfType
  <2>1. CASE HoldsTLC(h) /\ out'[h] = out[h]
    <3>1. out[h].step \in Nat /\ out[h].step < step[NodeOf(h)] BY <1>8, <2>1
    <3>2. NodeOf(h) = n => out[h].step # m.step BY <1>1, <1>4, <3>1
    <3>3. out'[h].step < step'[NodeOf(h)] BY <1>4, <2>0, <2>1, <3>1
    <3>4. ASSUME NEW k \in Goroutines, HoldsTLC(k)', NodeOf(k) = NodeOf(h),
                 out'[k].step = out'[h].step
          PROVE  k = h
      <4>1. CASE HoldsTLC(k) /\ out'[k] = out[k] BY <1>8, <2>1, <3>4, <4>1
      <4>2. CASE k = g /\ out'[k] = m BY <2>1, <3>2, <3>4, <4>2
      <4> QED BY <1>6, <3>4, <4>1, <4>2
    <3>5. ASSUME NEW d \in Nodes, NEW p \in TLCs(inbox'[d][NodeOf(h)])
          PROVE  p.step # out'[h].step
      <4>1. p \in TLCs(inbox[d][NodeOf(h)]) \/ (NodeOf(h) = n /\ p = m) BY <1>6, <2>0
      <4> QED BY <1>8, <2>1, <3>2, <4>1
    <3> QED BY <3>3, <3>4, <3>5
  <2>2. CASE /\ h = g /\ out'[h] = m
             /\ \A d, o \in Nodes : TLCs(inbox'[d][o]) \subseteq TLCs(inbox[d][o])
    <3>1. NodeOf(h) = n BY <2>2
    <3>2. out'[h].step < step'[NodeOf(h)] BY <1>1, <1>3, <2>2, <3>1
    <3>3. ASSUME NEW k \in Goroutines, HoldsTLC(k)', NodeOf(k) = NodeOf(h),
                 out'[k].step = out'[h].step
          PROVE  k = h
      <4>1. CASE HoldsTLC(k) /\ out'[k] = out[k]
        <5>1. out[k].step \in Nat /\ out[k].step < step[n] BY <1>8, <3>1, <3>3, <4>1
        <5> QED BY <1>1, <1>4, <2>2, <3>3, <4>1, <5>1
      <4> QED BY <1>6, <2>2, <3>3, <4>1
    <3>4. ASSUME NEW d \in Nodes, NEW p \in TLCs(inbox'[d][NodeOf(h)])
          PROVE  p.step # out'[h].step
      <4>1. p \in TLCs(inbox[d][n]) BY <1>1, <2>2, <3>1
      <4>2. p.step \in Nat /\ p.step < step[n] BY <1>1, <1>7, <4>1
      <4> QED BY <1>1, <1>4, <2>2, <4>2
    <3> QED BY <3>2, <3>3, <3>4
  <2> QED BY <1>6, <2>1, <2>2
<1>10. FlightInv'
  <2> SUFFICES ASSUME NEW d \in Nodes, NEW o \in Nodes, NEW p \in TLCs(inbox'[d][o])
               PROVE  p.step < step'[o]
    BY <1>6 DEF FlightInv
  <2>1. p \in TLCs(inbox[d][o]) \/ (o = n /\ p = m) BY <1>6
  <2>2. CASE p \in TLCs(inbox[d][o])
    <3>1. p.step \in Nat /\ p.step < step[o] BY <1>7, <2>2
    <3> QED BY <1>4, <3>1
  <2>3. CASE o = n /\ p = m BY <1>1, <1>3, <2>3
  <2> QED BY <2>1, <2>2, <2>3
<1>11. \A d \in Nodes : \A s \in OpenSteps :
         inst'[d].TLCMap[s] = IF d = n THEN <<>> ELSE inst[d].TLCMap[s]
  <2>1. inst' = [inst EXCEPT ![n] = Cleared(n)] /\ inst \in [Nodes -> Instance]
    BY <1>1, <1>2 DEF EndStep, TypeOK
  <2> QED BY <1>1, <2>1 DEF Cleared
<1>12. CountInv'
  <2> SUFFICES ASSUME NEW d \in Nodes, NEW s \in OpenSteps, step'[d] <= s
               PROVE  Len(inst'[d].TLCMap[s]) + Cardinality(Pending(d, s)')
                        <= Cardinality(Ahead(s)')
    BY DEF CountInv
  <2>0. s \in Nat BY ConfigAssumption DEF OpenSteps
  <2>1. Pending(d, s) \in SUBSET Nodes /\ Ahead(s) \in SUBSET Nodes
        /\ Pending(d, s)' \in SUBSET Nodes /\ Ahead(s)' \in SUBSET Nodes
    BY DEF Pending, Ahead
  <2>2. CASE d = n
    <3>1. Pending(d, s)' \in SUBSET Ahead(s)'
      <4> SUFFICES ASSUME NEW o \in Pending(d, s)' PROVE step'[o] > s
        BY <2>1 DEF Ahead
      <4>1. o \in Nodes BY <2>1
      <4>2. CASE \E p \in TLCs(inbox'[d][o]) : p.step = s
        BY <1>4, <1>10, <2>0, <4>1, <4>2 DEF FlightInv
      <4>3. CASE \E h \in Goroutines : NodeOf(h) = o /\ HoldsTLC(h)' /\ out'[h].step = s
        BY <1>4, <1>9, <2>0, <4>1, <4>3 DEF HeldInv
      <4> QED BY <4>2, <4>3 DEF Pending
    <3>2. /\ Cardinality(Pending(d, s)') <= Cardinality(Ahead(s)')
          /\ Cardinality(Pending(d, s)') \in Nat
      BY <2>1, <3>1, CountSubset
    <3>3. Len(inst'[d].TLCMap[s]) = 0 BY <1>11, <2>2
    <3> QED BY <3>2, <3>3
  <2>3. CASE d # n
    <3>1. step'[d] = step[d] /\ inst'[d].TLCMap[s] = inst[d].TLCMap[s] BY <1>3, <1>11, <2>3
    <3>2. Len(inst[d].TLCMap[s]) + Cardinality(Pending(d, s)) <= Cardinality(Ahead(s))
      BY <1>2, <3>1 DEF TrafficInv, CountInv
    <3>3. Len(inst[d].TLCMap[s]) \in Nat BY <1>2, MapType
    <3>4. Pending(d, s)' \subseteq Pending(d, s) \cup (IF s = m.step THEN {n} ELSE {})
      <4> SUFFICES ASSUME NEW o \in Pending(d, s)', o \notin Pending(d, s)
                   PROVE  s = m.step /\ o = n
        OBVIOUS
      <4>1. o \in Nodes BY <2>1
      <4>2. CASE \E p \in TLCs(inbox'[d][o]) : p.step = s
        <5>1. PICK p \in TLCs(inbox'[d][o]) : p.step = s BY <4>2
        <5>2. p \notin TLCs(inbox[d][o]) BY <4>1, <5>1 DEF Pending
        <5> QED BY <1>6, <4>1, <5>1, <5>2
      <4>3. CASE \E h \in Goroutines : NodeOf(h) = o /\ HoldsTLC(h)' /\ out'[h].step = s
        <5>1. PICK h \in Goroutines : NodeOf(h) = o /\ HoldsTLC(h)' /\ out'[h].step = s
          BY <4>3
        <5>2. ~ (HoldsTLC(h) /\ out'[h] = out[h]) BY <4>1, <5>1 DEF Pending
        <5> QED BY <1>6, <5>1, <5>2
      <4> QED BY <4>2, <4>3 DEF Pending
    <3>5. Ahead(s) \in SUBSET Ahead(s)' BY <1>4, <2>0 DEF Ahead
    <3>6. CASE s # m.step
      <4>1. Pending(d, s)' \in SUBSET Pending(d, s) BY <3>4, <3>6
      <4>2. /\ Cardinality(Pending(d, s)') <= Cardinality(Pending(d, s))
            /\ Cardinality(Pending(d, s)') \in Nat /\ Cardinality(Pending(d, s)) \in Nat
        BY <2>1, <4>1, CountSubset
      <4>3. /\ Cardinality(Ahead(s)) <= Cardinality(Ahead(s)')
            /\ Cardinality(Ahead(s)) \in Nat /\ Cardinality(Ahead(s)') \in Nat
        BY <2>1, <3>5, CountSubset
      <4> QED BY <3>1, <3>2, <3>3, <4>2, <4>3
    <3>7. CASE s = m.step
      <4>1. n \notin Ahead(s) /\ n \in Ahead(s)' BY <1>1, <1>3, <1>4, <3>7 DEF Ahead
      <4>2. Ahead(s) \cup {n} \in SUBSET Ahead(s)' BY <3>5, <4>1
      <4>3. Pending(d, s)' \in SUBSET (Pending(d, s) \cup {n}) BY <3>4
      <4>4. Pending(d, s) \cup {n} \in SUBSET Nodes BY <1>1, <2>1
      <4>5. /\ IsFiniteSet(Pending(d, s)) /\ Cardinality(Pending(d, s)) \in Nat
            /\ IsFiniteSet(Ahead(s)) /\ Cardinality(Ahead(s)) \in Nat
        <5>1. Pending(d, s) \in SUBSET Pending(d, s) /\ Ahead(s) \in SUBSET Ahead(s) OBVIOUS
        <5> QED BY <2>1, <5>1, CountSubset
      <4>6. Cardinality(Pending(d, s) \cup {n}) <= Cardinality(Pending(d, s)) + 1
        <5>1. Cardinality(Pending(d, s) \cup {n}) =
                IF n \in Pending(d, s) THEN Cardinality(Pending(d, s))
                                       ELSE Cardinality(Pending(d, s)) + 1
          BY <4>5, FS_AddElement
        <5> QED BY <4>5, <5>1
      <4>7. Cardinality(Ahead(s) \cup {n}) = Cardinality(Ahead(s)) + 1
        BY <4>1, <4>5, FS_AddElement
      <4>8. /\ Cardinality(Pending(d, s)') <= Cardinality(Pending(d, s) \cup {n})
            /\ Cardinality(Pending(d, s)') \in Nat
            /\ Cardinality(Pending(d, s) \cup {n}) \in Nat
        BY <4>3, <4>4, CountSubset
      <4>9. /\ Cardinality(Ahead(s) \cup {n}) <= Cardinality(Ahead(s)')
            /\ Cardinality(Ahead(s)') \in Nat
        BY <2>1, <4>2, CountSubset
      <4> QED BY <3>1, <3>2, <3>3, <4>5, <4>6, <4>7, <4>8, <4>9
    <3> QED BY <3>6, <3>7
  <2> QED BY <2>2, <2>3
<1>13. LengthInv'
  <2>1. \A d \in Nodes \ {n} : Len(blocks'[d]) = step'[d]
    BY <1>2, <1>3 DEF StoreInv, LengthInv
  <2> QED BY <1>3, <2>1 DEF LengthInv
<1>14. ASSUME NEW o \in Nodes, NEW s, NEW b, Stored(o, s, b)
       PROVE  s + 1 \in DOMAIN blocks'[o] /\ b = blocks'[o][s + 1]
  BY <1>3, <1>14 DEF Stored, Grows
<1>15. m.step + 1 \in DOMAIN blocks'[n] /\ m.block = blocks'[n][m.step + 1]
  <2>1. DOMAIN blocks'[n] = 1..step'[n] BY <1>3, LenProperties
  <2>2. m.step + 1 \in 1..step'[n] BY <1>1, <1>3, <1>4, <1>5
  <2> QED BY <1>1, <1>3, <2>1, <2>2
<1>16. AnnouncedInv'
  <2>1. ASSUME NEW h \in Goroutines, HoldsTLC(h)'
        PROVE  /\ out'[h].step + 1 \in DOMAIN blocks'[NodeOf(h)]
               /\ out'[h].block = blocks'[NodeOf(h)][out'[h].step + 1]
    <3>1. CASE HoldsTLC(h) /\ out'[h] = out[h]
      <4>1. Stored(NodeOf(h), out[h].step, out[h].block)
        BY <1>2, <3>1 DEF StoreInv, AnnouncedInv
      <4> QED BY <1>14, <3>1, <4>1, NodeOfType
    <3>2. CASE h = g /\ out'[h] = m BY <1>15, <3>2
    <3> QED BY <1>6, <2>1, <3>1, <3>2
  <2>2. ASSUME NEW d \in Nodes, NEW o \in Nodes, NEW p \in TLCs(inbox'[d][o])
        PROVE  p.step + 1 \in DOMAIN blocks'[o] /\ p.block = blocks'[o][p.step + 1]
    <3>1. p \in TLCs(inbox[d][o]) \/ (o = n /\ p = m) BY <1>6
    <3>2. CASE p \in TLCs(inbox[d][o])
      <4>1. Stored(o, p.step, p.block) BY <1>2, <3>2 DEF StoreInv, AnnouncedInv
      <4> QED BY <1>14, <4>1
    <3>3. CASE o = n /\ p = m BY <1>15, <3>3
    <3> QED BY <3>1, <3>2, <3>3
  <2> QED BY <2>1, <2>2 DEF AnnouncedInv, Stored
<1>17. CountedInv'
  <2> SUFFICES ASSUME NEW d \in Nodes, NEW s \in OpenSteps,
                      NEW i \in DOMAIN inst'[d].TLCMap[s]
               PROVE  \E o \in Nodes : /\ s + 1 \in DOMAIN blocks'[o]
                                       /\ inst'[d].TLCMap[s][i] = blocks'[o][s + 1]
    BY DEF CountedInv, Stored
  <2>1. CASE d = n
    <3>1. i \in DOMAIN <<>> BY <1>11, <2>1
    <3> QED BY <3>1
  <2>2. CASE d # n
    <3>1. inst'[d].TLCMap[s] = inst[d].TLCMap[s] BY <1>11, <2>2
    <3>2. PICK o \in Nodes : Stored(o, s, inst[d].TLCMap[s][i])
      BY <1>2, <3>1 DEF StoreInv, CountedInv
    <3> QED BY <1>14, <3>1, <3>2
  <2> QED BY <2>1, <2>2
<1>18. ASSUME NEW b, NEW i, Joined(b, i)
       PROVE  /\ b.index = i - 1
              /\ i = 1 => b.prev = <<>>
              /\ i # 1 => \E k \in Nodes : /\ i - 1 \in DOMAIN blocks'[k]
                                           /\ b.prev = Hash(blocks'[k][i - 1])
  BY <1>3, <1>18 DEF Joined, Grows
<1>19. JoinedInv'
  <2> SUFFICES ASSUME NEW d \in Nodes, NEW i \in DOMAIN blocks'[d]
               PROVE  \E b : b = blocks'[d][i] /\ Joined(b, i)
    BY <1>18 DEF JoinedInv, Joined
  <2>0. \A o \in Nodes : \A j \in DOMAIN blocks[o] : Joined(blocks[o][j], j)
    BY <1>2 DEF StoreInv, JoinedInv
  <2>1. CASE d # n BY <1>3, <2>0, <2>1
  <2>2. CASE d = n
    <3>1. i \in 1..step'[n] BY <1>3, <2>2, LenProperties
    <3>2. CASE i <= step[n]
      <4>1. DOMAIN blocks[n] = 1..step[n]
        BY <1>1, <1>2, LenProperties DEF TypeOK, StoreInv, LengthInv
      <4>2. i \in DOMAIN blocks[n] BY <3>1, <3>2, <4>1
      <4> QED BY <1>1, <1>3, <2>0, <2>2, <4>2 DEF Grows
    <3>3. CASE i = step[n] + 1 BY <1>1, <1>3, <2>2, <3>3
    <3>4. CASE i > step[n] + 1
      <4>1. i \in (step[n] + 2)..step'[n] BY <1>1, <1>4, <3>1, <3>4
      <4>2. /\ i - 1 \in OpenSteps /\ Threshold \in DOMAIN T[i - 1]
            /\ blocks'[n][i] = T[i - 1][Threshold]
        BY <1>3, <4>1
      <4>3. PICK o \in Nodes : Stored(o, i - 1, T[i - 1][Threshold]) BY <4>2
      <4>4. (i - 1) + 1 = i BY <3>1
      <4>5. i \in DOMAIN blocks[o] /\ T[i - 1][Threshold] = blocks[o][i]
        BY <4>3, <4>4 DEF Stored
      <4> QED BY <2>0, <2>2, <4>2, <4>5
    <3>5. i <= step[n] \/ i = step[n] + 1 \/ i > step[n] + 1 BY <1>1, <1>4, <3>1
    <3> QED BY <3>2, <3>3, <3>4, <3>5
  <2> QED BY <2>1, <2>2
<1> QED
  BY <1>6, <1>9, <1>10, <1>12, <1>13, <1>16, <1>17, <1>19 DEF TLCInv, TrafficInv, StoreInv

-----------------------------------------------------------------------------
(* Every action is one of these steps *)

\* A handler that leaves the TLCMap of its node alone leaves all of them alone.
LEMMA MapsKept ==
  ASSUME TypeOK, NEW n \in Nodes, NEW h, h.TLCMap = inst[n].TLCMap,
         inst' = [inst EXCEPT ![n] = h]
  PROVE  SameMaps
BY DEF SameMaps, TypeOK

\* A handler that only drops what it took keeps the invariant.
LEMMA QuietReturn ==
  ASSUME TLCInv, TypeOK', NEW g \in Goroutines, NEW box, Fewer(box), Returns(g, box),
         UNCHANGED <<step, blocks>>, SameMaps
  PROVE  TLCInv'
BY ReturnsTLC, QuietStep DEF Quiet, Fewer

\* A handler that answers with another message keeps the invariant.
LEMMA QuietAnswer ==
  ASSUME TLCInv, TypeOK', NEW g \in Goroutines, NEW box \in Inboxes, Fewer(box),
         NEW m \in Message, m.type # "tlc", Answers(g, box, m),
         UNCHANGED <<step, blocks>>, SameMaps
  PROVE  TLCInv'
BY AnswersTLC, QuietStep DEF Quiet

\* A step that touches no message, step or store keeps the invariant.
LEMMA StillStep ==
  ASSUME TLCInv, TypeOK', UNCHANGED messageVars, UNCHANGED <<step, blocks>>, SameMaps
  PROVE  TLCInv'
<1>1. Fewer(inbox') /\ LocalInv' /\ HeldKept
  BY DEF messageVars, Fewer, LocalInv, HeldKept, HoldsTLC, TLCInv, TrafficInv, FlightInv
<1> QED BY <1>1, QuietStep DEF Quiet

\* Broadcast keeps the invariant, whether or not it is a TLC message that it broadcasts.
LEMMA BroadcastTLC ==
  ASSUME TLCInv, TypeOK', NEW g \in Goroutines, Broadcast(g)
  PROVE  TLCInv'
<1> DEFINE n == NodeOf(g)
<1> PICK m : m = out[g] OBVIOUS
<1>1. n \in Nodes /\ m \in Message /\ m # None /\ inbox \in Inboxes
      /\ out \in [Goroutines -> Message \cup {None}]
  BY NodeOfType DEF TLCInv, TypeOK, Broadcast, Inboxes
<1>2. /\ out' = [out EXCEPT ![g] = None]
      /\ UNCHANGED <<step, blocks>> /\ SameMaps
  BY DEF Broadcast, handlerVars, storeVars, SameMaps
<1>3. PICK p \in Marshalled(n, m) : Sends(g, inbox, p) BY DEF Broadcast
<1>4. CASE m.type = "tlc"
  <2>1. p = m BY <1>3, <1>4 DEF Marshalled
  <2>2. inbox' = Sent(inbox, n, m) /\ local' = [local EXCEPT ![g] = None]
    BY <1>3, <1>4, <2>1 DEF Sends
  <2>3. LocalInv' BY <2>2 DEF LocalInv, TLCInv, TrafficInv, TypeOK
  <2>4. HoldsTLC(g) BY <1>1, <1>4 DEF HoldsTLC
  <2> QED BY <1>2, <2>2, <2>3, <2>4, AnnouncesStep DEF Announces
<1>5. CASE m.type # "tlc"
  <2>1. p \in Message /\ p.type # "tlc"
    <3>1. CASE p = m BY <1>1, <1>5, <3>1
    <3>2. CASE m.type = "promise" /\ p = [m EXCEPT !.accVal = inst[n].acceptedValue]
      <4>1. m \in PromiseMsg BY <1>1, <3>2, MessageCases
      <4>2. inst[n].acceptedValue \in ValueOrNone BY <1>1 DEF TLCInv, TypeOK, Instance
      <4>3. p \in PromiseMsg BY <3>2, <4>1, <4>2 DEF PromiseMsg
      <4> QED BY <4>3 DEF PromiseMsg, Message
    <3> QED BY <1>3, <3>1, <3>2 DEF Marshalled
  <2>2. Fewer(inbox) BY DEF Fewer, TLCInv, TrafficInv, FlightInv
  <2>3. Fewer(inbox') /\ LocalInv' BY <1>1, <1>3, <2>1, <2>2, SendsTLC
  <2>4. HeldKept BY <1>1, <1>2 DEF HeldKept, HoldsTLC
  <2> QED BY <1>2, <2>3, <2>4, QuietStep DEF Quiet
<1> QED BY <1>4, <1>5

\* ExecPaxosPrepare keeps the invariant.
LEMMA PrepareTLC ==
  ASSUME TLCInv, TypeOK', NEW g \in Goroutines, NEW in \in Incoming(g),
         ExecPaxosPrepare(g, in)
  PROVE  TLCInv'
<1> DEFINE n == NodeOf(g)
           m == in.msg
           promise == [type |-> "promise", step |-> step[n], id |-> m.id, dest |-> m.src,
                       accID |-> inst[n].acceptedID, accVal |-> inst[n].acceptedValue]
<1>1. /\ n \in Nodes /\ m \in Message /\ in.box \in Inboxes
      /\ TypeOK /\ Fewer(in.box)
  BY NodeOfType, IncomingType, IncomingTLC DEF TLCInv
<1>2. m \in PrepareMsg BY <1>1, MessageCases DEF ExecPaxosPrepare
<1>3. UNCHANGED <<step, blocks>> BY DEF ExecPaxosPrepare, storeVars
<1>4. CASE Returns(g, in.box) /\ UNCHANGED inst
  BY <1>1, <1>3, <1>4, QuietReturn DEF SameMaps
<1>5. CASE /\ m.step = step[n]
           /\ inst' = [inst EXCEPT ![n] = [@ EXCEPT !.running = TRUE, !.maxID = m.id]]
           /\ Answers(g, in.box, promise)
  <2>1. inst[n] \in Instance /\ m.id \in IDs /\ m.src \in Nodes /\ step[n] \in OpenSteps
    BY <1>1, <1>2, <1>5 DEF TypeOK, PrepareMsg
  <2>2. promise \in Message /\ promise.type # "tlc"
    BY <2>1 DEF Instance, PromiseMsg, Message
  <2>3. SameMaps
    <3> DEFINE h == [inst[n] EXCEPT !.running = TRUE, !.maxID = m.id]
    <3>1. h.TLCMap = inst[n].TLCMap BY <2>1 DEF Instance
    <3>2. inst' = [inst EXCEPT ![n] = h] BY <1>5
    <3> HIDE DEF h
    <3> QED BY <1>1, <3>1, <3>2, MapsKept
  <2> HIDE DEF promise
  <2> QED BY <1>1, <1>3, <1>5, <2>2, <2>3, QuietAnswer
<1> QED BY <1>4, <1>5 DEF ExecPaxosPrepare

\* ExecPaxosPropose keeps the invariant.
LEMMA ProposeTLC ==
  ASSUME TLCInv, TypeOK', NEW g \in Goroutines, NEW in \in Incoming(g),
         ExecPaxosPropose(g, in)
  PROVE  TLCInv'
<1> DEFINE n == NodeOf(g)
           m == in.msg
           accept == [type |-> "accept", step |-> step[n], id |-> m.id, val |-> m.val]
<1>1. /\ n \in Nodes /\ m \in Message /\ in.box \in Inboxes
      /\ TypeOK /\ Fewer(in.box)
  BY NodeOfType, IncomingType, IncomingTLC DEF TLCInv
<1>2. m \in ProposeMsg BY <1>1, MessageCases DEF ExecPaxosPropose
<1>3. UNCHANGED <<step, blocks>> BY DEF ExecPaxosPropose, storeVars
<1>4. CASE Returns(g, in.box) /\ UNCHANGED inst
  BY <1>1, <1>3, <1>4, QuietReturn DEF SameMaps
<1>5. CASE /\ Acceptable(n, m)
           /\ inst' = [inst EXCEPT ![n] = Accepting(@, m)]
           /\ Answers(g, in.box, accept)
  <2>1. /\ inst[n] \in Instance /\ m.id \in IDs /\ m.val \in Value /\ step[n] \in OpenSteps
    BY <1>1, <1>2, <1>5 DEF TypeOK, ProposeMsg, Acceptable
  <2>2. accept \in Message /\ accept.type # "tlc" BY <2>1 DEF AcceptMsg, Message
  <2>3. SameMaps
    <3>1. Accepting(inst[n], m).TLCMap = inst[n].TLCMap BY <2>1 DEF Instance, Accepting
    <3>2. inst' = [inst EXCEPT ![n] = Accepting(inst[n], m)] BY <1>5
    <3> QED BY <1>1, <3>1, <3>2, MapsKept
  <2> HIDE DEF accept
  <2> QED BY <1>1, <1>3, <1>5, <2>2, <2>3, QuietAnswer
<1> QED BY <1>4, <1>5 DEF ExecPaxosPropose

\* ExecPaxosPromise keeps the invariant.
LEMMA PromiseTLC ==
  ASSUME TLCInv, TypeOK', NEW g \in Goroutines, NEW in \in Incoming(g),
         ExecPaxosPromise(g, in)
  PROVE  TLCInv'
<1> DEFINE n == NodeOf(g)
           m == in.msg
           h == Promised(inst[n], m)
<1>1. /\ n \in Nodes /\ m \in Message /\ in.box \in Inboxes
      /\ TypeOK /\ Fewer(in.box) /\ m.type = "promise"
  BY NodeOfType, IncomingType, IncomingTLC DEF TLCInv, ExecPaxosPromise
<1>2. UNCHANGED <<step, blocks>> BY DEF ExecPaxosPromise, storeVars
<1>3. SameMaps
  <2>1. inst[n] \in Instance BY <1>1 DEF TypeOK
  <2>2. h.TLCMap = inst[n].TLCMap BY <2>1 DEF Instance, Promised
  <2> HIDE DEF h
  <2>3. inst' = inst \/ inst' = [inst EXCEPT ![n] = h] BY DEF ExecPaxosPromise, h
  <2>4. CASE inst' = inst BY <2>4 DEF SameMaps
  <2>5. CASE inst' = [inst EXCEPT ![n] = h] BY <1>1, <2>2, <2>5, MapsKept
  <2> QED BY <2>3, <2>4, <2>5
<1>4. CASE Returns(g, in.box) BY <1>1, <1>2, <1>3, <1>4, QuietReturn
<1>5. CASE inbox' = in.box /\ local' = [local EXCEPT ![g] = m] /\ UNCHANGED out
  <2>1. LocalInv' BY <1>1, <1>5 DEF LocalInv, TLCInv, TrafficInv, TypeOK
  <2>2. HeldKept BY <1>5 DEF HeldKept, HoldsTLC
  <2>3. Fewer(inbox') BY <1>1, <1>5 DEF Fewer
  <2> QED BY <1>2, <1>3, <2>1, <2>2, <2>3, QuietStep DEF Quiet
<1> QED BY <1>4, <1>5 DEF ExecPaxosPromise

\* The end of a send that blocked keeps the invariant.
LEMMA PromiseSentTLC ==
  ASSUME TLCInv, TypeOK', NEW n \in Nodes, PromiseSent(n)
  PROVE  TLCInv'
<1>1. lock[n] \in Goroutines /\ Returns(lock[n], inbox)
  BY DEF TLCInv, TypeOK, PromiseSent
<1>2. Fewer(inbox) BY DEF Fewer, TLCInv, TrafficInv, FlightInv
<1>3. UNCHANGED <<step, blocks>> /\ SameMaps BY DEF PromiseSent, storeVars, SameMaps
<1> QED BY <1>1, <1>2, <1>3, QuietReturn

\* ExecPaxosAccept keeps the invariant: it counts an accept, or ends the step with its own block.
LEMMA AcceptTLC ==
  ASSUME TLCInv, TypeOK', NEW g \in Goroutines, NEW in \in Incoming(g),
         ExecPaxosAccept(g, in)
  PROVE  TLCInv'
<1> DEFINE n == NodeOf(g)
           m == in.msg
           count == inst[n].acceptedValues[m.val] + 1
           b == NewBlock(n, m.val)
           tlc == [type |-> "tlc", step |-> step[n], block |-> b]
<1>1. /\ n \in Nodes /\ m \in Message /\ in.box \in Inboxes
      /\ TypeOK /\ Fewer(in.box)
  BY NodeOfType, IncomingType, IncomingTLC DEF TLCInv
<1>2. m \in AcceptMsg BY <1>1, MessageCases DEF ExecPaxosAccept
<1>3. inst[n] \in Instance BY <1>1 DEF TypeOK
<1>4. CASE Returns(g, in.box) /\ UNCHANGED <<step, inst, storeVars>>
  BY <1>1, <1>4, QuietReturn DEF SameMaps, storeVars
<1>5. CASE /\ inst' = [inst EXCEPT ![n] = [@ EXCEPT !.running = TRUE,
                                                 !.acceptedValues[m.val] = count]]
           /\ Returns(g, in.box)
           /\ UNCHANGED <<step, storeVars>>
  <2> DEFINE h == [inst[n] EXCEPT !.running = TRUE, !.acceptedValues[m.val] = count]
  <2>1. h.TLCMap = inst[n].TLCMap
    <3> HIDE DEF count
    <3> QED BY <1>3 DEF Instance
  <2>2. inst' = [inst EXCEPT ![n] = h] BY <1>5
  <2> HIDE DEF h
  <2>3. SameMaps BY <1>1, <2>1, <2>2, MapsKept
  <2> QED BY <1>1, <1>5, <2>3, QuietReturn DEF storeVars
<1>6. CASE /\ m.step = step[n]
           /\ EndStep(n, inst[n].TLCMap, b)
           /\ Answers(g, in.box, tlc)
  <2>1. step[n] \in OpenSteps /\ step[n] \in Nat /\ m.val \in Value
    BY <1>2, <1>6, ConfigAssumption DEF AcceptMsg, OpenSteps
  <2>2. b \in Block BY <1>1, <2>1, NewBlockType
  <2>3. Joined(b, step[n] + 1)
    <3>1. b.index = step[n] /\ b.prev = LastHash(n) BY DEF NewBlock
    <3>2. blocks[n] \in Seq(Block) /\ Len(blocks[n]) = step[n]
      BY <1>1 DEF TypeOK, TLCInv, StoreInv, LengthInv
    <3>3. (step[n] + 1) - 1 = step[n] /\ (step[n] + 1 = 1 <=> step[n] = 0) BY <2>1
    <3> HIDE DEF b
    <3>4. CASE step[n] = 0
      <4>1. blocks[n] = <<>> BY <3>2, <3>4, EmptySeq
      <4> QED BY <3>1, <3>3, <3>4, <4>1 DEF LastHash, Joined
    <3>5. CASE step[n] # 0
      <4>1. blocks[n] # <<>> BY <3>2, <3>5, EmptySeq
      <4>2. step[n] \in DOMAIN blocks[n] BY <2>1, <3>2, <3>5, LenProperties
      <4>3. b.prev = Hash(blocks[n][step[n]]) BY <3>1, <3>2, <4>1 DEF LastHash
      <4> QED BY <1>1, <3>1, <3>3, <3>5, <4>2, <4>3 DEF Joined
    <3> QED BY <3>4, <3>5
  <2>4. tlc \in TLCMsg /\ tlc.step = step[n] /\ tlc.block = b
    BY <2>1, <2>2 DEF TLCMsg
  <2>5. inst[n].TLCMap \in [OpenSteps -> Seq(Block)] BY <1>3 DEF Instance
  <2>6. \A s \in OpenSteps : \A i \in DOMAIN inst[n].TLCMap[s] :
          \E o \in Nodes : Stored(o, s, inst[n].TLCMap[s][i])
    BY <1>1 DEF TLCInv, StoreInv, CountedInv
  <2> HIDE DEF tlc, b
  <2>7. Ends(g, in.box, tlc, inst[n].TLCMap) BY <1>6, <2>4 DEF Ends
  <2> QED BY <1>1, <2>3, <2>4, <2>5, <2>6, <2>7, EndsStep
<1> QED BY <1>4, <1>5, <1>6 DEF ExecPaxosAccept

\* ExecTLC keeps the invariant: it drops, counts, or ends the step with a block counted.
LEMMA ReceivedTLC ==
  ASSUME TLCInv, TypeOK', NEW g \in Goroutines, NEW in \in Incoming(g), ExecTLC(g, in)
  PROVE  TLCInv'
<1> DEFINE n == NodeOf(g)
           m == in.msg
           T == [inst[n].TLCMap EXCEPT ![m.step] = Append(@, m.block)]
           current == m.step = step[n]
<1>1. /\ m \in Message /\ in.box \in Inboxes /\ m.type = "tlc" /\ m \in TLCMsg
      /\ TypeOK /\ Fewer(in.box) /\ g \in Nodes
  BY IncomingType, IncomingTLC, MessageCases DEF TLCInv, ExecTLC
<1>2. n = g /\ n \in Nodes BY <1>1, PopulationAssumption DEF NodeOf
<1>3. PICK o \in Nodes : /\ m \in TLCs(inbox[g][o])
                         /\ \A p \in TLCs(in.box[g][o]) : p.step # m.step
  BY <1>1, IncomingTLC
<1>4. /\ inst[n] \in Instance /\ m.step \in OpenSteps /\ m.block \in Block
      /\ inst[n].TLCMap \in [OpenSteps -> Seq(Block)]
  BY <1>1, <1>2 DEF TypeOK, TLCMsg, Instance
<1>5. CASE Returns(g, in.box) /\ UNCHANGED <<step, inst, storeVars>>
  BY <1>1, <1>5, QuietReturn DEF SameMaps, storeVars
<1>6. CASE /\ inst' = [inst EXCEPT ![n] = [inst[n] EXCEPT !.TLCMap = T,
                                                        !.running = @ \/ current]]
           /\ Returns(g, in.box)
           /\ UNCHANGED <<step, storeVars>>
  <2> DEFINE h == [inst[n] EXCEPT !.TLCMap = T, !.running = inst[n].running \/ current]
  <2>1. h.TLCMap = T
    <3> HIDE DEF T, current
    <3> QED BY <1>4 DEF Instance
  <2>2. inst' = [inst EXCEPT ![n] = h] BY <1>6
  <2> HIDE DEF h
  <2>3. inst'[n].TLCMap = T /\ \A d \in Nodes \ {n} : inst'[d].TLCMap = inst[d].TLCMap
    BY <1>1, <1>2, <2>1, <2>2 DEF TypeOK
  <2>4. Fewer(inbox') /\ LocalInv' /\ HeldKept /\ inbox' = in.box
    BY <1>1, <1>6, ReturnsTLC DEF Fewer
  <2>5. Counts(g, o, m)
    BY <1>2, <1>3, <1>6, <2>3, <2>4 DEF Counts, Quiet, storeVars
  <2> QED BY <1>1, <2>5, CountsStep
<1>7. CASE /\ current
           /\ EndStep(n, T, m.block)
           /\ Answers(g, in.box, m)
  <2>1. Stored(o, m.step, m.block) BY <1>1, <1>3 DEF TLCInv, StoreInv, AnnouncedInv
  <2>2. Joined(m.block, m.step + 1)
    BY <2>1 DEF Stored, TLCInv, StoreInv, JoinedInv
  <2>3. T \in [OpenSteps -> Seq(Block)]
    <3>1. Append(inst[n].TLCMap[m.step], m.block) \in Seq(Block) BY <1>4, AppendProperties
    <3> QED BY <1>4, <3>1
  <2>4. \A s \in OpenSteps : \A i \in DOMAIN T[s] : \E k \in Nodes : Stored(k, s, T[s][i])
    <3> SUFFICES ASSUME NEW s \in OpenSteps, NEW i \in DOMAIN T[s]
                 PROVE  \E k \in Nodes : Stored(k, s, T[s][i])
      OBVIOUS
    <3>0. \A j \in DOMAIN inst[n].TLCMap[s] : \E k \in Nodes : Stored(k, s, inst[n].TLCMap[s][j])
      BY <1>2 DEF TLCInv, StoreInv, CountedInv
    <3>1. CASE s # m.step
      <4>1. T[s] = inst[n].TLCMap[s] BY <1>4, <3>1
      <4> QED BY <3>0, <4>1
    <3>2. CASE s = m.step
      <4> PICK q : q = inst[n].TLCMap[s] OBVIOUS
      <4>1. T[s] = Append(q, m.block) BY <1>4, <3>2
      <4>2. q \in Seq(Block) BY <1>4
      <4>3. /\ Append(q, m.block) \in Seq(Block) /\ Len(Append(q, m.block)) = Len(q) + 1
            /\ \A j \in 1..Len(q) : Append(q, m.block)[j] = q[j]
            /\ Append(q, m.block)[Len(q) + 1] = m.block
        BY <1>4, <4>2, AppendProperties
      <4>4. /\ Len(q) \in Nat /\ DOMAIN q = 1..Len(q)
            /\ DOMAIN Append(q, m.block) = 1..(Len(q) + 1)
        BY <4>2, <4>3, LenProperties
      <4> HIDE DEF T
      <4>5. CASE i = Len(q) + 1 BY <2>1, <3>2, <4>1, <4>3, <4>5
      <4>6. CASE i # Len(q) + 1
        <5>1. i \in DOMAIN q BY <4>1, <4>4, <4>6
        <5>2. Append(q, m.block)[i] = q[i] BY <4>3, <4>4, <5>1
        <5> QED BY <3>0, <4>1, <5>1, <5>2
      <4> QED BY <4>5, <4>6
    <3> QED BY <3>1, <3>2
  <2> HIDE DEF T
  <2>5. Ends(g, in.box, m, T) BY <1>7 DEF Ends
  <2> QED BY <1>1, <2>2, <2>3, <2>4, <2>5, EndsStep
<1> QED BY <1>5, <1>6, <1>7 DEF ExecTLC

\* The steps of Tag and its tickers keep the invariant.
LEMMA TagTLC ==
  ASSUME TLCInv, TypeOK', NEW c \in Calls, TagStep(c) \/ Timeout(c)
  PROVE  TLCInv'
<1> DEFINE n == Host[c]
<1>1. n \in Nodes /\ c \in Goroutines /\ TypeOK /\ NodeOf(c) = n
  BY HostType, PopulationAssumption DEF Goroutines, TLCInv, NodeOf
<1>2. inst[n] \in Instance /\ step[n] \in Steps BY <1>1 DEF TypeOK
<1>3. Fewer(inbox) /\ inbox \in Inboxes
  BY DEF Fewer, TLCInv, TrafficInv, FlightInv, TypeOK, Inboxes
<1>4. CASE UNCHANGED messageVars /\ UNCHANGED <<step, blocks>> /\ UNCHANGED inst
  BY <1>4, StillStep DEF SameMaps
<1>5. CASE InitPaxosInstance(c)
  <2>1. [inst[n] EXCEPT !.running = TRUE].TLCMap = inst[n].TLCMap BY <1>2 DEF Instance
  <2>2. inst' = inst \/ inst' = [inst EXCEPT ![n] = [inst[n] EXCEPT !.running = TRUE]]
    BY <1>5 DEF InitPaxosInstance
  <2>3. SameMaps BY <1>1, <2>1, <2>2, MapsKept DEF SameMaps
  <2> QED BY <1>5, <2>3, StillStep DEF InitPaxosInstance, storeVars
<1>6. CASE NextID(c)
  <2> DEFINE h == [inst[n] EXCEPT !.paxosID = @ + TotalPeers]
  <2>1. h.TLCMap = inst[n].TLCMap BY <1>2 DEF Instance
  <2>2. inst' = [inst EXCEPT ![n] = h] BY <1>6 DEF NextID
  <2> HIDE DEF h
  <2>3. SameMaps BY <1>1, <2>1, <2>2, MapsKept
  <2> QED BY <1>6, <2>3, StillStep DEF NextID, storeVars
<1>7. CASE PaxosPhase1(c)
  <2> DEFINE v == [step |-> step[n], id |-> inst[n].paxosID, tag |-> c]
             m == [type |-> "prepare", step |-> step[n], id |-> inst[n].paxosID, src |-> n]
  <2>1. step[n] \in OpenSteps
    BY <1>2, <1>7, ConfigAssumption DEF PaxosPhase1, Steps, OpenSteps
  <2>2. m \in Message /\ m.type # "tlc"
    BY <1>1, <1>2, <2>1 DEF Message, PrepareMsg, Instance
  <2>3. Preparing(inst[n], v).TLCMap = inst[n].TLCMap
    BY <1>2 DEF Instance, Preparing
  <2> HIDE DEF v, m
  <2>4. inst' = [inst EXCEPT ![n] = Preparing(inst[n], v)] /\ Answers(c, inbox, m)
        /\ UNCHANGED <<step, blocks>>
    BY <1>7 DEF PaxosPhase1, v, m, storeVars
  <2>5. SameMaps BY <1>1, <2>3, <2>4, MapsKept
  <2> QED BY <1>1, <1>3, <2>2, <2>4, <2>5, QuietAnswer
<1>8. CASE PaxosPhase2(c)
  <2> DEFINE m == [type |-> "propose", step |-> step[n], id |-> inst[n].paxosID,
                   val |-> tag[c].value]
  <2>1. step[n] \in OpenSteps
    BY <1>2, <1>8, ConfigAssumption DEF PaxosPhase2, Steps, OpenSteps
  <2>2. tag[c].value \in Value
    BY <1>1, <1>8 DEF PaxosPhase2, TypeOK, TagState, ValueOrNone
  <2>3. m \in Message /\ m.type # "tlc"
    BY <1>2, <2>1, <2>2 DEF Message, ProposeMsg, Instance
  <2> HIDE DEF m
  <2>4. Answers(c, inbox, m) /\ UNCHANGED <<step, blocks>> /\ SameMaps
    BY <1>8 DEF PaxosPhase2, m, handlerVars, storeVars, SameMaps
  <2> QED BY <1>1, <1>3, <2>3, <2>4, QuietAnswer
<1>9. CASE \/ TagStart(c) \/ InstanceFinished(c) \/ TagBegin(c) \/ TagLoop(c)
           \/ PromiseReceived(c) \/ ValueReceived(c) \/ PromiseTimeout(c) \/ ValueTimeout(c)
  BY <1>4, <1>9
  DEF TagStart, InstanceFinished, TagBegin, TagLoop, PromiseReceived, ValueReceived,
      PromiseTimeout, ValueTimeout, handlerVars, storeVars
<1> QED BY <1>5, <1>6, <1>7, <1>8, <1>9 DEF TagStep, Timeout

-----------------------------------------------------------------------------
(* The theorems *)

\* At first no TLC message is anywhere and the stores are empty.
LEMMA InitTLC == Init => TLCInv
<1> SUFFICES ASSUME Init PROVE TLCInv OBVIOUS
<1>1. TypeOK BY InitType
<1>2. \A d, o \in Nodes : TLCs(inbox[d][o]) = {} /\ Once(inbox[d][o])
  BY DEF Init, TLCs, Once
<1>3. \A g \in Goroutines : local[g] = None /\ out[g] = None BY DEF Init
<1>4. \A d \in Nodes : \A s \in OpenSteps : inst[d].TLCMap[s] = <<>>
  BY DEF Init, Cleared
<1>5. LocalInv /\ HeldInv /\ FlightInv
  BY <1>2, <1>3 DEF LocalInv, HeldInv, FlightInv, HoldsTLC
<1>6. CountInv
  <2> SUFFICES ASSUME NEW d \in Nodes, NEW s \in OpenSteps
               PROVE  Len(inst[d].TLCMap[s]) + Cardinality(Pending(d, s))
                        <= Cardinality(Ahead(s))
    BY DEF CountInv
  <2>1. Pending(d, s) = {} BY <1>2, <1>3 DEF Pending, HoldsTLC
  <2>2. Cardinality(Pending(d, s)) = 0 BY <2>1, FS_EmptySet
  <2>3. Ahead(s) \in SUBSET Nodes /\ Ahead(s) \in SUBSET Ahead(s) BY DEF Ahead
  <2>4. Cardinality(Ahead(s)) \in Nat BY <2>3, CountSubset
  <2> QED BY <1>4, <2>2, <2>4
<1>7. StoreInv
  <2>1. LengthInv /\ JoinedInv BY DEF Init, LengthInv, JoinedInv
  <2>2. AnnouncedInv BY <1>2, <1>3 DEF AnnouncedInv, HoldsTLC
  <2>3. CountedInv
    <3>1. DOMAIN <<>> = {} OBVIOUS
    <3> QED BY <1>4, <3>1 DEF CountedInv
  <2> QED BY <2>1, <2>2, <2>3 DEF StoreInv
<1> QED BY <1>1, <1>5, <1>6, <1>7 DEF TLCInv, TrafficInv

\* Every step keeps the invariant.
LEMMA NextTLC == TLCInv /\ TypeOK' /\ [Next]_vars => TLCInv'
<1> SUFFICES ASSUME TLCInv, TypeOK', [Next]_vars PROVE TLCInv' OBVIOUS
<1>1. CASE UNCHANGED vars
  BY <1>1, StillStep DEF vars, messageVars, handlerVars, storeVars, SameMaps
<1>2. ASSUME NEW g \in Goroutines, Handle(g) PROVE TLCInv'
  BY <1>2, BroadcastTLC, PrepareTLC, ProposeTLC, PromiseTLC, AcceptTLC, ReceivedTLC
  DEF Handle
<1>3. ASSUME NEW n \in Nodes, PromiseSent(n) PROVE TLCInv' BY <1>3, PromiseSentTLC
<1>4. ASSUME NEW c \in Calls, TagStep(c) \/ Timeout(c) PROVE TLCInv' BY <1>4, TagTLC
<1> QED BY <1>1, <1>2, <1>3, <1>4 DEF Next

\* The inductive invariant: where the TLC message of a node for a step is, and what
\* it says, at every interleaving of handlers, broadcasts and deliveries
\* (ExecPaxosAcceptMessage, ExecTLCMessage and the rumors that carry their messages).
THEOREM TLCCorrect == Spec => []TLCInv
<1>1. Init => TLCInv BY InitTLC
<1>2. Spec => []TypeOK BY TypeCorrect
<1>3. TLCInv /\ TypeOK' /\ [Next]_vars => TLCInv' BY NextTLC
<1> QED BY <1>1, <1>2, <1>3, PTL DEF Spec

\* A node broadcasts at most one TLC message per step, after it has left it, and
\* those a peer has counted for a step and has yet to accept come from as many
\* peers: a threshold of TLC messages is a threshold of peers
\* (respondToTLCMsg, which counts messages and not their senders).
THEOREM TLCAlwaysBacked == Spec => []TLCBacked
<1>1. TLCInv => TLCBacked
  <2> SUFFICES ASSUME TLCInv, NEW d \in Nodes, NEW s \in OpenSteps
               PROVE  /\ \A o \in Nodes : Cardinality(InFlightTLC(d, o, s))
                                            <= IF step[o] > s THEN 1 ELSE 0
                      /\ step[d] <= s =>
                           Len(inst[d].TLCMap[s])
                             + Cardinality({o \in Nodes : InFlightTLC(d, o, s) # {}})
                           <= Cardinality({o \in Nodes : step[o] > s})
    BY DEF TLCBacked
  <2>1. ASSUME NEW o \in Nodes
        PROVE  Cardinality(InFlightTLC(d, o, s)) <= IF step[o] > s THEN 1 ELSE 0
    <3>1. Once(inbox[d][o]) /\ \A m \in TLCs(inbox[d][o]) : m.step < step[o]
      BY DEF TLCInv, TrafficInv, FlightInv
    <3>2. step[o] \in Nat /\ s \in Nat
      BY ConfigAssumption DEF TLCInv, TypeOK, Steps, OpenSteps
    <3>3. CASE InFlightTLC(d, o, s) = {}
      <4>1. Cardinality(InFlightTLC(d, o, s)) = 0 BY <3>3, FS_EmptySet
      <4> QED BY <4>1
    <3>4. CASE InFlightTLC(d, o, s) # {}
      <4>1. PICK i \in InFlightTLC(d, o, s) : TRUE BY <3>4
      <4>2. /\ i \in DOMAIN inbox[d][o] /\ inbox[d][o][i].type = "tlc"
            /\ inbox[d][o][i].step = s
        BY <4>1 DEF InFlightTLC
      <4>3. step[o] > s BY <3>1, <3>2, <4>2 DEF TLCs
      <4>4. InFlightTLC(d, o, s) = {i} BY <3>1, <4>1, <4>2 DEF InFlightTLC, Once
      <4>5. Cardinality(InFlightTLC(d, o, s)) = 1 BY <4>4, FS_Singleton
      <4> QED BY <4>3, <4>5
    <3> QED BY <3>3, <3>4
  <2>2. ASSUME step[d] <= s
        PROVE  Len(inst[d].TLCMap[s])
                 + Cardinality({o \in Nodes : InFlightTLC(d, o, s) # {}})
               <= Cardinality({o \in Nodes : step[o] > s})
    <3> DEFINE F == {o \in Nodes : InFlightTLC(d, o, s) # {}}
    <3>1. F \in SUBSET Pending(d, s) BY DEF InFlightTLC, Pending, TLCs
    <3>2. Pending(d, s) \in SUBSET Nodes /\ Ahead(s) \in SUBSET Nodes
          /\ Ahead(s) \in SUBSET Ahead(s)
      BY DEF Pending, Ahead
    <3>3. /\ Cardinality(F) <= Cardinality(Pending(d, s))
          /\ Cardinality(F) \in Nat /\ Cardinality(Pending(d, s)) \in Nat
          /\ Cardinality(Ahead(s)) \in Nat
      BY <3>1, <3>2, CountSubset
    <3>4. Len(inst[d].TLCMap[s]) + Cardinality(Pending(d, s)) <= Cardinality(Ahead(s))
      BY <2>2 DEF TLCInv, TrafficInv, CountInv
    <3>5. Len(inst[d].TLCMap[s]) \in Nat BY MapType DEF TLCInv
    <3> HIDE DEF F
    <3>6. Len(inst[d].TLCMap[s]) + Cardinality(F) <= Cardinality(Ahead(s))
      BY <3>3, <3>4, <3>5
    <3> QED BY <3>6 DEF F, Ahead
  <2> QED BY <2>1, <2>2
<1> QED BY <1>1, TLCCorrect, PTL

\* A TLC message announces what its sender has stored, and what is counted for a
\* step is stored somewhere at that place: the blocks that catchUp takes over in a
\* row, however many steps a node is behind, are blocks of other chains.
THEOREM TLCAlwaysStored == Spec => []TLCStored
<1>1. TLCInv => TLCStored
  BY DEF TLCInv, StoreInv, AnnouncedInv, CountedInv, TLCStored, Stored, TLCs
<1> QED BY <1>1, TLCCorrect, PTL

\* Every chain has a block per step, each with its index and on top of a block that
\* some node has stored before it; a chain whose links are not its own blocks shows
\* that two nodes disagree.  So wherever the peers agree each has a blockchain, also
\* when its blocks were built by others and taken over by catchUp.
THEOREM LinkedWhereAgreed == Spec => [](Agreement => ChainLinked)
<1>1. TLCInv => (Agreement => ChainLinked)
  <2> SUFFICES ASSUME TLCInv, Agreement, NEW n \in Nodes, NEW i \in DOMAIN blocks[n]
               PROVE  /\ blocks[n][i].index = i - 1
                      /\ blocks[n][i].prev = IF i = 1 THEN <<>> ELSE Hash(blocks[n][i - 1])
    BY DEF ChainLinked, TLCInv, StoreInv, LengthInv
  <2>1. Joined(blocks[n][i], i) BY DEF TLCInv, StoreInv, JoinedInv
  <2>2. CASE i = 1 BY <2>1, <2>2 DEF Joined
  <2>3. CASE i # 1
    <3>1. PICK m \in Nodes : /\ i - 1 \in DOMAIN blocks[m]
                             /\ blocks[n][i].prev = Hash(blocks[m][i - 1])
      BY <2>1, <2>3 DEF Joined
    <3>2. i - 1 \in DOMAIN blocks[n]
      <4>1. blocks[n] \in Seq(Block) BY DEF TLCInv, TypeOK
      <4>2. Len(blocks[n]) \in Nat /\ DOMAIN blocks[n] = 1..Len(blocks[n])
        BY <4>1, LenProperties
      <4> QED BY <2>3, <4>2
    <3>3. blocks[m][i - 1] = blocks[n][i - 1] BY <3>1, <3>2 DEF Agreement
    <3> QED BY <2>1, <2>3, <3>1, <3>3 DEF Joined
  <2> QED BY <2>2, <2>3
<1> QED BY <1>1, TLCCorrect, PTL

=============================================================================
