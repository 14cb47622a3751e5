---------------------------- MODULE PaxosTLCProofs ----------------------------
(***************************************************************************)
(* Proofs about PaxosTLC for every population, threshold and bound.        *)
(***************************************************************************)
EXTENDS PaxosTLC, SequenceTheorems, FiniteSetTheorems, TLAPS

USE PopulationAssumption, ConfigAssumption

Inboxes == [Nodes -> [Nodes -> Seq(Message)]]

-----------------------------------------------------------------------------
(* Facts about the data *)

\* A set of natural numbers has a least element: catchUp stops at the least step
\* whose TLC messages do not reach the threshold.
LEMMA NatMin ==
  ASSUME NEW S, S \subseteq Nat, S # {}
  PROVE  \E m \in S : \A k \in S : m <= k
<1> PICK top \in S : TRUE OBVIOUS
<1> DEFINE Below(m) == 0..(m - 1)
           T == {Below(m) : m \in S \cap (0..top)}
           R == StrictSubsetOrdering(0..top)
<1>1. IsWellFoundedOn(R, FiniteSubsetsOf(0..top))
  BY FS_StrictSubsetOrderingWellFounded
<1>2. T \subseteq FiniteSubsetsOf(0..top)
  <2>1. ASSUME NEW m \in S \cap (0..top)
        PROVE  Below(m) \subseteq 0..top /\ IsFiniteSet(Below(m))
    BY FS_Interval
  <2> QED BY <2>1 DEF FiniteSubsetsOf
<1>3. T # {} OBVIOUS
<1>4. \E X \in T : \A Y \in T : ~ (<<Y, X>> \in R)
  <2> HIDE DEF R, T
  <2> QED BY <1>1, <1>2, <1>3, WFMin
<1>5. PICK m \in S \cap (0..top) :
        \A k \in S \cap (0..top) : ~ (<<Below(k), Below(m)>> \in R)
  BY <1>4
<1>6. ASSUME NEW k \in S, k < m PROVE FALSE
  <2>1. <<Below(k), Below(m)>> \in R
    BY <1>6 DEF StrictSubsetOrdering
  <2> QED BY <2>1, <1>5, <1>6
<1> QED BY <1>6

\* A bounded one has a greatest element: the last block stored under a name.
LEMMA NatMax ==
  ASSUME NEW N \in Nat, NEW S, S \subseteq 0..N, S # {}
  PROVE  \E m \in S : \A k \in S : k <= m
<1> DEFINE D == {N - k : k \in S}
<1>0. \A k \in S : k \in Int /\ N - k \in Nat
  <2>1. \A k \in 0..N : k \in Int /\ N - k \in Nat OBVIOUS
  <2> QED BY <2>1
<1> PICK top \in S : TRUE OBVIOUS
<1>1. D \subseteq Nat /\ D # {}
  <2>1. N - top \in D OBVIOUS
  <2> QED BY <1>0, <2>1
<1>2. PICK d \in D : \A e \in D : d <= e
  <2> HIDE DEF D
  <2> QED BY <1>1, NatMin
<1>3. PICK m \in S : d = N - m OBVIOUS
<1>4. ASSUME NEW k \in S PROVE k <= m
  <2>1. d <= N - k BY <1>2, <1>4
  <2> QED BY <2>1, <1>0, <1>3, <1>4
<1> QED BY <1>4

\* The step catchUp stops at lies between the one it starts from and the bound,
\* and every step it passes over has the TLC messages of a threshold.
LEMMA NextStepType ==
  ASSUME NEW T \in [OpenSteps -> Seq(Block)], NEW s \in Steps
  PROVE  /\ NextStep(T, s) \in s..MaxSteps
         /\ \A u \in s..(NextStep(T, s) - 1) : Len(T[u]) >= Threshold
<1> DEFINE Stop(t) == t = MaxSteps \/ Len(T[t]) < Threshold
           S == {t \in s..MaxSteps : Stop(t)}
<1>1. S \subseteq Nat /\ MaxSteps \in S BY DEF Steps
<1>2. PICK t \in S : \A k \in S : t <= k
  <2> HIDE DEF S
  <2> QED BY <1>1, NatMin
<1>3. \A u \in s..(t - 1) : Len(T[u]) >= Threshold
  <2> SUFFICES ASSUME NEW u \in s..(t - 1) PROVE Len(T[u]) >= Threshold OBVIOUS
  <2>1. u \in OpenSteps /\ u \in s..MaxSteps /\ u < t BY DEF Steps, OpenSteps
  <2>2. ~ Stop(u) BY <1>2, <2>1
  <2>3. Len(T[u]) \in Nat BY <2>1, LenProperties
  <2> QED BY <2>2, <2>3
<1> QED BY <1>2, <1>3 DEF NextStep

LEMMA HashType ==
  ASSUME NEW b \in Block
  PROVE  Hash(b) \in Seq(Link)
BY AppendProperties DEF Block, Link, Hash

\* The type of a message tells its fields.
LEMMA MessageCases ==
  ASSUME NEW m \in Message
  PROVE  /\ m.type = "prepare" => m \in PrepareMsg
         /\ m.type = "promise" => m \in PromiseMsg
         /\ m.type = "propose" => m \in ProposeMsg
         /\ m.type = "accept" => m \in AcceptMsg
         /\ m.type = "tlc" => m \in TLCMsg
BY DEF Message, PrepareMsg, PromiseMsg, ProposeMsg, AcceptMsg, TLCMsg

LEMMA SentType ==
  ASSUME NEW box \in Inboxes, NEW n \in Nodes, NEW m \in Message
  PROVE  Sent(box, n, m) \in Inboxes
BY AppendProperties DEF Inboxes, Sent

LEMMA IncomingType ==
  ASSUME TypeOK, NEW g \in Goroutines, NEW in \in Incoming(g)
  PROVE  in.msg \in Message /\ in.box \in Inboxes
<1>1. CASE local[g] # None BY <1>1 DEF Incoming, TypeOK, Inboxes
<1>2. CASE local[g] = None
  <2>1. PICK o \in Nodes :
          /\ g \in Nodes /\ inbox[g][o] # <<>>
          /\ in = [msg |-> Head(inbox[g][o]), box |-> [inbox EXCEPT ![g][o] = Tail(@)]]
    BY <1>2 DEF Incoming, Idle
  <2>2. inbox[g][o] \in Seq(Message) BY <2>1 DEF TypeOK
  <2>3. Head(inbox[g][o]) \in Message /\ Tail(inbox[g][o]) \in Seq(Message)
    BY <2>1, <2>2, HeadTailProperties
  <2>4. [inbox EXCEPT ![g][o] = Tail(@)] \in Inboxes
    BY <2>1, <2>3 DEF TypeOK, Inboxes
  <2> QED BY <2>1, <2>3, <2>4
<1> QED BY <1>1, <1>2

LEMMA IDType == IDs \subseteq IDOrZero
BY DEF IDs, IDOrZero

LEMMA NodeOfType ==
  ASSUME NEW g \in Goroutines
  PROVE  NodeOf(g) \in Nodes
BY DEF Goroutines, NodeOf

LEMMA ChannelType ==
  ASSUME NEW S, NEW F \in [Nodes -> [Steps -> S]], NEW n \in Nodes, NEW s, NEW v \in S
  PROVE  [F EXCEPT ![n][s] = v] \in [Nodes -> [Steps -> S]]
OBVIOUS

\* The types of what the goroutines send and hold
MessagesOK ==
  /\ inbox \in Inboxes
  /\ out \in [Goroutines -> Message \cup {None}]
  /\ local \in [Goroutines -> Message \cup {None}]

LEMMA ReturnsType ==
  ASSUME TypeOK, NEW g \in Goroutines, NEW box \in Inboxes, Returns(g, box)
  PROVE  MessagesOK'
BY DEF TypeOK, Returns, MessagesOK

LEMMA SendsType ==
  ASSUME TypeOK, NEW g \in Goroutines, NEW box \in Inboxes, NEW m \in Message,
         Sends(g, box, m)
  PROVE  inbox' \in Inboxes /\ local' \in [Goroutines -> Message \cup {None}]
<1> DEFINE n == NodeOf(g)
<1>1. n \in Nodes /\ local \in [Goroutines -> Message \cup {None}]
  BY NodeOfType DEF TypeOK
<1>2. CASE m.type = "promise"
  <2>1. m.dest \in Nodes BY <1>2, MessageCases DEF PromiseMsg
  <2>2. [box EXCEPT ![m.dest][n] = Append(@, m)] \in Inboxes
    BY <1>1, <2>1, AppendProperties DEF Inboxes
  <2>3. CASE m.dest = n
    <3>1. inbox' = box /\ local' = [local EXCEPT ![g] = m] BY <1>2, <2>3 DEF Sends
    <3> QED BY <1>1, <3>1
  <2>4. CASE m.dest # n
    <3>1. /\ inbox' = [box EXCEPT ![m.dest][n] = Append(@, m)]
          /\ local' = [local EXCEPT ![g] = None]
      BY <1>2, <2>4 DEF Sends
    <3> QED BY <1>1, <2>2, <3>1
  <2> QED BY <2>3, <2>4
<1>3. CASE m.type # "promise"
  <2>1. /\ inbox' = Sent(box, n, m)
        /\ local' = [local EXCEPT ![g] = IF m.type = "tlc" THEN None ELSE m]
    BY <1>3 DEF Sends
  <2> QED BY <1>1, <2>1, SentType
<1> QED BY <1>2, <1>3

LEMMA AnswersType ==
  ASSUME TypeOK, NEW g \in Goroutines, NEW box \in Inboxes, NEW m \in Message,
         Answers(g, box, m)
  PROVE  MessagesOK'
<1>1. CASE Sends(g, box, m) /\ UNCHANGED out
  BY <1>1, SendsType DEF TypeOK, MessagesOK
<1>2. CASE /\ inbox' = box
           /\ local' = [local EXCEPT ![g] = None]
           /\ out' = [out EXCEPT ![g] = m]
  BY <1>2 DEF TypeOK, MessagesOK
<1> QED BY <1>1, <1>2 DEF Answers

LEMMA LastHashType ==
  ASSUME TypeOK, NEW n \in Nodes
  PROVE  LastHash(n) \in Seq(Link)
<1>1. blocks[n] \in Seq(Block) BY DEF TypeOK
<1>2. CASE blocks[n] = <<>> BY <1>2, EmptySeq DEF LastHash
<1>3. CASE blocks[n] # <<>>
  <2>1. blocks[n][Len(blocks[n])] \in Block
    BY <1>1, <1>3, EmptySeq, ElementOfSeq, LenProperties
  <2> QED BY <1>3, <2>1, HashType DEF LastHash
<1> QED BY <1>2, <1>3

LEMMA NewBlockType ==
  ASSUME TypeOK, NEW n \in Nodes, NEW v \in Value, step[n] \in OpenSteps
  PROVE  NewBlock(n, v) \in Block
BY LastHashType DEF NewBlock, Block

LEMMA NewBlocksType ==
  ASSUME NEW T \in [OpenSteps -> Seq(Block)], NEW s \in OpenSteps, NEW b \in Block
  PROVE  NewBlocks(T, s, b) \in Seq(Block)
<1> DEFINE last == NextStep(T, s + 1) - (s + 1)
           rest == [i \in 1..last |-> T[s + i][Threshold]]
<1>1. s + 1 \in Steps BY DEF Steps, OpenSteps
<1>2. /\ NextStep(T, s + 1) \in (s + 1)..MaxSteps
      /\ \A u \in (s + 1)..(NextStep(T, s + 1) - 1) : Len(T[u]) >= Threshold
  BY <1>1, NextStepType
<1>3. last \in Nat BY <1>2 DEF OpenSteps
<1>4. ASSUME NEW i \in 1..last PROVE T[s + i][Threshold] \in Block
  <2>1. s + i \in OpenSteps /\ s + i \in (s + 1)..(NextStep(T, s + 1) - 1)
    BY <1>2 DEF OpenSteps
  <2>2. T[s + i] \in Seq(Block) /\ Len(T[s + i]) >= Threshold BY <1>2, <2>1
  <2> QED BY <2>2, ElementOfSeq, LenProperties
<1>5. rest \in Seq(Block)
  <2> HIDE DEF last
  <2> QED BY <1>3, <1>4, IsASeq
<1>6. <<b>> \in Seq(Block) OBVIOUS
<1> HIDE DEF rest
<1>7. <<b>> \o rest \in Seq(Block) BY <1>5, <1>6, ConcatProperties
<1> QED BY <1>7 DEF NewBlocks, rest

LEMMA NamedType ==
  ASSUME NEW store \in [Names -> Calls \cup {None}], NEW B \in Seq(Block)
  PROVE  Named(store, B) \in [Names -> Calls \cup {None}]
<1> SUFFICES ASSUME NEW x \in Names
             PROVE  Named(store, B)[x] \in Calls \cup {None}
  BY DEF Named
<1> DEFINE hits == {i \in 1..Len(B) : NameOf[B[i].value.tag] = x}
<1>1. CASE hits = {} BY <1>1 DEF Named
<1>2. CASE hits # {}
  <2>1. PICK k \in hits : \A j \in hits : j <= k
    <3>1. Len(B) \in Nat /\ hits \subseteq 0..Len(B) BY LenProperties
    <3> HIDE DEF hits
    <3> QED BY <3>1, <1>2, NatMax
  <2>2. ASSUME NEW i \in hits PROVE B[i].value.tag \in Calls
    <3>1. B[i] \in Block BY ElementOfSeq, LenProperties
    <3> QED BY <3>1 DEF Block, Value
  <2> QED BY <1>2, <2>1, <2>2 DEF Named
<1> QED BY <1>1, <1>2

LEMMA ClearedType == \A n \in Nodes : Cleared(n) \in Instance
BY EmptySeq DEF Cleared, Instance, IDs, IDOrZero, ValueOrNone

LEMMA TagUpdateType ==
  ASSUME TypeOK, NEW c \in Calls, NEW t \in TagState,
         t.pc = "phase2" => t.value # None, tag' = [tag EXCEPT ![c] = t]
  PROVE  /\ tag' \in [Calls -> TagState]
         /\ \A d \in Calls : tag'[d].pc = "phase2" => tag'[d].value # None
BY DEF TypeOK

-----------------------------------------------------------------------------
(* Type correctness: one lemma per handler *)

LEMMA PrepareType ==
  ASSUME TypeOK, NEW g \in Goroutines, NEW in \in Incoming(g), ExecPaxosPrepare(g, in)
  PROVE  TypeOK'
<1> DEFINE n == NodeOf(g)
           m == in.msg
           promise == [type |-> "promise", step |-> step[n], id |-> m.id, dest |-> m.src,
                       accID |-> inst[n].acceptedID, accVal |-> inst[n].acceptedValue]
<1>1. n \in Nodes /\ m \in Message /\ in.box \in Inboxes
  BY NodeOfType, IncomingType
<1>2. m \in PrepareMsg
  BY <1>1, MessageCases DEF ExecPaxosPrepare
<1>3. UNCHANGED <<step, finalValue, lock, promiseChan, valueChan, storeVars, tag>>
  BY DEF ExecPaxosPrepare
<1>4. CASE Returns(g, in.box) /\ UNCHANGED inst
  BY <1>1, <1>3, <1>4, ReturnsType DEF TypeOK, storeVars, MessagesOK, Inboxes
<1>5. CASE /\ m.step = step[n]
           /\ inst' = [inst EXCEPT ![n] = [@ EXCEPT !.running = TRUE, !.maxID = m.id]]
           /\ Answers(g, in.box, promise)
  <2> DEFINE h == [inst[n] EXCEPT !.running = TRUE, !.maxID = m.id]
  <2>1. inst[n] \in Instance /\ m.id \in IDs /\ m.src \in Nodes /\ step[n] \in OpenSteps
    BY <1>1, <1>2, <1>5 DEF TypeOK, PrepareMsg
  <2>2. inst' \in [Nodes -> Instance]
    <3>1. h \in Instance BY <2>1, IDType DEF Instance
    <3>2. inst' = [inst EXCEPT ![n] = h] BY <1>5
    <3> QED BY <1>1, <3>1, <3>2 DEF TypeOK
  <2>3. promise \in Message BY <2>1 DEF Instance, PromiseMsg, Message
  <2> HIDE DEF promise
  <2>4. MessagesOK' BY <1>1, <1>5, <2>3, AnswersType
  <2> QED BY <1>3, <2>2, <2>4 DEF TypeOK, storeVars, MessagesOK, Inboxes
<1> QED BY <1>4, <1>5 DEF ExecPaxosPrepare

LEMMA BroadcastType ==
  ASSUME TypeOK, NEW g \in Goroutines, Broadcast(g)
  PROVE  TypeOK'
<1> DEFINE n == NodeOf(g)
           m == out[g]
<1>1. n \in Nodes /\ m \in Message BY NodeOfType DEF TypeOK, Broadcast
<1>2. inst[n].acceptedValue \in ValueOrNone BY <1>1 DEF TypeOK, Instance
<1>3. PICK p \in Marshalled(n, m) : Sends(g, inbox, p) BY DEF Broadcast
<1>4. p \in Message
  <2>1. CASE p = m BY <1>1, <2>1
  <2>2. CASE m.type = "promise" /\ p = [m EXCEPT !.accVal = inst[n].acceptedValue]
    <3>1. m \in PromiseMsg BY <1>1, <2>2, MessageCases
    <3>2. p \in PromiseMsg BY <1>2, <2>2, <3>1 DEF PromiseMsg
    <3> QED BY <3>2 DEF Message
  <2> QED BY <1>3, <2>1, <2>2 DEF Marshalled
<1>5. MessagesOK'
  <2>1. out' = [out EXCEPT ![g] = None] BY DEF Broadcast
  <2>2. inbox \in Inboxes /\ out \in [Goroutines -> Message \cup {None}]
    BY DEF TypeOK, Inboxes
  <2> QED BY <1>3, <1>4, <2>1, <2>2, SendsType DEF MessagesOK
<1>6. /\ tag' \in [Calls -> TagState]
      /\ \A c \in Calls : tag'[c].pc = "phase2" => tag'[c].value # None
  <2>1. CASE UNCHANGED tag BY <2>1 DEF TypeOK
  <2>2. CASE g \in Calls /\ tag' = [tag EXCEPT ![g] = [@ EXCEPT !.chan = step[n]]]
    <3> DEFINE t == [tag[g] EXCEPT !.chan = step[n]]
    <3>1. tag[g] \in TagState /\ step[n] \in Steps BY <1>1, <2>2 DEF TypeOK
    <3>2. t \in TagState /\ t.pc = tag[g].pc /\ t.value = tag[g].value
      BY <3>1 DEF TagState
    <3>3. tag' = [tag EXCEPT ![g] = t] BY <2>2
    <3>4. t.pc = "phase2" => t.value # None BY <2>2, <3>2 DEF TypeOK
    <3> HIDE DEF t
    <3> QED BY <2>2, <3>2, <3>3, <3>4, TagUpdateType
  <2> QED BY <2>1, <2>2 DEF Broadcast
<1> QED BY <1>5, <1>6 DEF Broadcast, TypeOK, MessagesOK, handlerVars, storeVars, Inboxes

LEMMA ProposeType ==
  ASSUME TypeOK, NEW g \in Goroutines, NEW in \in Incoming(g), ExecPaxosPropose(g, in)
  PROVE  TypeOK'
<1> DEFINE n == NodeOf(g)
           m == in.msg
           accept == [type |-> "accept", step |-> step[n], id |-> m.id, val |-> m.val]
<1>1. n \in Nodes /\ m \in Message /\ in.box \in Inboxes
  BY NodeOfType, IncomingType
<1>2. m \in ProposeMsg
  BY <1>1, MessageCases DEF ExecPaxosPropose
<1>3. UNCHANGED <<step, finalValue, lock, promiseChan, valueChan, storeVars, tag>>
  BY DEF ExecPaxosPropose
<1>4. CASE Returns(g, in.box) /\ UNCHANGED inst
  BY <1>1, <1>3, <1>4, ReturnsType DEF TypeOK, storeVars, MessagesOK, Inboxes
<1>5. CASE /\ Acceptable(n, m)
           /\ inst' = [inst EXCEPT ![n] = Accepting(@, m)]
           /\ Answers(g, in.box, accept)
  <2>1. inst' \in [Nodes -> Instance]
    <3>1. inst[n] \in Instance BY <1>1 DEF TypeOK
    <3>2. Accepting(inst[n], m) \in Instance
      BY <1>2, <3>1, IDType DEF Accepting, Instance, ProposeMsg, ValueOrNone
    <3> QED BY <1>1, <1>5, <3>2 DEF TypeOK
  <2>2. accept \in Message
    BY <1>2, <1>5 DEF Acceptable, ProposeMsg, AcceptMsg, Message
  <2>3. MessagesOK'
    BY <1>1, <1>5, <2>2, AnswersType
  <2> QED BY <1>3, <2>1, <2>3 DEF TypeOK, storeVars, MessagesOK, Inboxes
<1> QED BY <1>4, <1>5 DEF ExecPaxosPropose

LEMMA ChosenType == \A h \in Instance : Chosen(h) \in ValueOrNone
BY DEF Chosen, Instance

LEMMA PromiseType ==
  ASSUME TypeOK, NEW g \in Goroutines, NEW in \in Incoming(g), ExecPaxosPromise(g, in)
  PROVE  TypeOK'
<1> DEFINE n == NodeOf(g)
           m == in.msg
           h == Promised(inst[n], m)
<1>1. n \in Nodes /\ m \in Message /\ in.box \in Inboxes
  BY NodeOfType, IncomingType
<1>2. m \in PromiseMsg
  BY <1>1, MessageCases DEF ExecPaxosPromise
<1>3. UNCHANGED <<step, finalValue, valueChan, storeVars, tag>>
  BY DEF ExecPaxosPromise
<1>4. h \in Instance
  <2>1. inst[n] \in Instance BY <1>1 DEF TypeOK
  <2> DEFINE better == m.accID > inst[n].bestID
             count == inst[n].promises + 1
             ph == IF Reached(count) THEN 2 ELSE 1
             bi == IF better THEN m.id ELSE inst[n].bestID
             bv == IF better THEN m.accVal ELSE inst[n].bestValue
  <2>2. count \in Nat /\ ph \in {1, 2} BY <2>1 DEF Instance
  <2>3. bi \in IDOrZero /\ bv \in ValueOrNone BY <1>2, <2>1 DEF Instance, PromiseMsg, IDs, IDOrZero
  <2>4. h = [inst[n] EXCEPT !.promises = count, !.bestID = bi, !.bestValue = bv,
                            !.phase = ph]
    BY DEF Promised
  <2> HIDE DEF h, count, ph, bi, bv
  <2> QED BY <2>1, <2>2, <2>3, <2>4 DEF Instance
<1>5. inst' \in [Nodes -> Instance]
  <2> HIDE DEF h
  <2>1. inst' = inst \/ inst' = [inst EXCEPT ![n] = h] BY DEF ExecPaxosPromise, h
  <2> QED BY <1>1, <1>4, <2>1 DEF TypeOK
<1>6. promiseChan' \in [Nodes -> [Steps -> Seq(ValueOrNone)]]
  <2> HIDE DEF h
  <2>1. <<Chosen(h)>> \in Seq(ValueOrNone) BY <1>4, ChosenType
  <2>2. \/ promiseChan' = promiseChan
        \/ promiseChan' = [promiseChan EXCEPT ![n][step[n]] = <<Chosen(h)>>]
    BY DEF ExecPaxosPromise, h
  <2>3. promiseChan \in [Nodes -> [Steps -> Seq(ValueOrNone)]] BY DEF TypeOK
  <2> HIDE DEF n
  <2> DEFINE one == <<Chosen(h)>>
  <2> HIDE DEF one
  <2>4. one \in Seq(ValueOrNone) BY <2>1 DEF one
  <2>5. [promiseChan EXCEPT ![n][step[n]] = one] \in [Nodes -> [Steps -> Seq(ValueOrNone)]]
    BY <1>1, <2>3, <2>4, ChannelType
  <2> QED BY <2>2, <2>3, <2>5 DEF one
<1>7. lock' \in [Nodes -> Goroutines \cup {None}]
  <2>1. lock' = lock \/ lock' = [lock EXCEPT ![n] = g] BY DEF ExecPaxosPromise
  <2> QED BY <1>1, <2>1 DEF TypeOK
<1>8. MessagesOK'
  <2>1. CASE Returns(g, in.box) BY <1>1, <2>1, ReturnsType
  <2>2. CASE inbox' = in.box /\ local' = [local EXCEPT ![g] = m] /\ UNCHANGED out
    BY <1>1, <2>2 DEF TypeOK, MessagesOK
  <2> QED BY <2>1, <2>2 DEF ExecPaxosPromise
<1> QED BY <1>3, <1>5, <1>6, <1>7, <1>8 DEF TypeOK, storeVars, MessagesOK, Inboxes

LEMMA PromiseSentType ==
  ASSUME TypeOK, NEW n \in Nodes, PromiseSent(n)
  PROVE  TypeOK'
<1>1. lock[n] \in Goroutines /\ inbox \in Inboxes
  BY DEF TypeOK, PromiseSent, Inboxes
<1>2. MessagesOK'
  BY <1>1, ReturnsType DEF PromiseSent
<1>3. promiseChan' \in [Nodes -> [Steps -> Seq(ValueOrNone)]]
  <2>1. <<Chosen(inst[n])>> \in Seq(ValueOrNone) BY ChosenType DEF TypeOK
  <2> QED BY <2>1 DEF TypeOK, PromiseSent
<1>4. lock' \in [Nodes -> Goroutines \cup {None}] BY DEF TypeOK, PromiseSent
<1> QED BY <1>2, <1>3, <1>4 DEF TypeOK, PromiseSent, storeVars, MessagesOK, Inboxes

LEMMA EndStepType ==
  ASSUME TypeOK, NEW n \in Nodes, NEW T \in [OpenSteps -> Seq(Block)], NEW b \in Block,
         step[n] \in OpenSteps, EndStep(n, T, b)
  PROVE  /\ blocks' \in [Nodes -> Seq(Block)]
         /\ names' \in [Nodes -> [Names -> Calls \cup {None}]]
         /\ finalValue' \in [Nodes -> ValueOrNone]
         /\ step' \in [Nodes -> Steps]
         /\ inst' \in [Nodes -> Instance]
         /\ valueChan' \in [Nodes -> [Steps -> Seq(Value)]]
<1> DEFINE B == NewBlocks(T, step[n], b)
           next == NextStep(T, step[n] + 1)
<1>1. B \in Seq(Block) BY NewBlocksType
<1>2. next \in Steps
  <2>1. step[n] + 1 \in Steps BY DEF Steps, OpenSteps
  <2> QED BY <2>1, NextStepType DEF Steps
<1>3. b.value \in Value BY DEF Block
<1> HIDE DEF B, next
<1>4. blocks' \in [Nodes -> Seq(Block)]
  <2>1. blocks[n] \o B \in Seq(Block) BY <1>1, ConcatProperties DEF TypeOK
  <2>2. blocks' = [blocks EXCEPT ![n] = @ \o B] BY DEF EndStep, B
  <2> QED BY <2>1, <2>2 DEF TypeOK
<1>5. names' \in [Nodes -> [Names -> Calls \cup {None}]]
  <2>1. Named(names[n], B) \in [Names -> Calls \cup {None}]
    BY <1>1, NamedType DEF TypeOK
  <2>2. names' = [names EXCEPT ![n] = Named(@, B)] BY DEF EndStep, B
  <2> QED BY <2>1, <2>2 DEF TypeOK
<1>6. finalValue' \in [Nodes -> ValueOrNone]
  BY <1>3 DEF EndStep, TypeOK, ValueOrNone
<1>7. step' \in [Nodes -> Steps] BY <1>2 DEF EndStep, TypeOK, next
<1>8. inst' \in [Nodes -> Instance] BY ClearedType DEF EndStep, TypeOK
<1>9. valueChan' \in [Nodes -> [Steps -> Seq(Value)]]
  <2> DEFINE one == <<b.value>>
  <2>1. one \in Seq(Value) BY <1>3
  <2>2. valueChan' = [valueChan EXCEPT ![n][step[n]] = one] BY DEF EndStep
  <2>3. valueChan \in [Nodes -> [Steps -> Seq(Value)]] BY DEF TypeOK
  <2> HIDE DEF one
  <2> QED BY <2>1, <2>2, <2>3, ChannelType
<1> QED BY <1>4, <1>5, <1>6, <1>7, <1>8, <1>9

LEMMA AcceptType ==
  ASSUME TypeOK, NEW g \in Goroutines, NEW in \in Incoming(g), ExecPaxosAccept(g, in)
  PROVE  TypeOK'
<1> DEFINE n == NodeOf(g)
           m == in.msg
           count == inst[n].acceptedValues[m.val] + 1
           b == NewBlock(n, m.val)
           tlc == [type |-> "tlc", step |-> step[n], block |-> b]
<1>1. n \in Nodes /\ m \in Message /\ in.box \in Inboxes
  BY NodeOfType, IncomingType
<1>2. m \in AcceptMsg
  BY <1>1, MessageCases DEF ExecPaxosAccept
<1>3. UNCHANGED <<lock, promiseChan, tag>> BY DEF ExecPaxosAccept
<1>4. inst[n] \in Instance BY <1>1 DEF TypeOK
<1>5. CASE /\ Returns(g, in.box)
           /\ UNCHANGED <<step, inst, finalValue, valueChan, storeVars>>
  BY <1>1, <1>3, <1>5, ReturnsType DEF TypeOK, storeVars, MessagesOK, Inboxes
<1>6. CASE /\ inst' = [inst EXCEPT ![n] = [@ EXCEPT !.running = TRUE,
                                                 !.acceptedValues[m.val] = count]]
           /\ Returns(g, in.box)
           /\ UNCHANGED <<step, finalValue, valueChan, storeVars>>
  <2>1. [inst[n].acceptedValues EXCEPT ![m.val] = count] \in [Value -> Nat]
    BY <1>2, <1>4 DEF Instance, AcceptMsg
  <2>2. [inst[n] EXCEPT !.running = TRUE, !.acceptedValues[m.val] = count] \in Instance
    BY <1>4, <2>1 DEF Instance
  <2>3. inst' \in [Nodes -> Instance] BY <1>1, <1>6, <2>2 DEF TypeOK
  <2>4. MessagesOK'
    BY <1>1, <1>6, ReturnsType
  <2> QED BY <1>3, <1>6, <2>3, <2>4 DEF TypeOK, storeVars, MessagesOK, Inboxes
<1>7. CASE /\ m.step = step[n]
           /\ EndStep(n, inst[n].TLCMap, b)
           /\ Answers(g, in.box, tlc)
  <2>1. step[n] \in OpenSteps /\ m.val \in Value BY <1>2, <1>7 DEF AcceptMsg
  <2>2. b \in Block BY <1>1, <2>1, NewBlockType
  <2>3. tlc \in Message BY <2>1, <2>2 DEF TLCMsg, Message
  <2>4. inst[n].TLCMap \in [OpenSteps -> Seq(Block)] BY <1>4 DEF Instance
  <2> HIDE DEF b, tlc
  <2>6. MessagesOK' BY <1>1, <1>7, <2>3, AnswersType
  <2>7. /\ blocks' \in [Nodes -> Seq(Block)]
        /\ names' \in [Nodes -> [Names -> Calls \cup {None}]]
        /\ finalValue' \in [Nodes -> ValueOrNone]
        /\ step' \in [Nodes -> Steps]
        /\ inst' \in [Nodes -> Instance]
        /\ valueChan' \in [Nodes -> [Steps -> Seq(Value)]]
    BY <1>1, <1>7, <2>1, <2>2, <2>4, EndStepType
  <2> QED BY <1>3, <2>6, <2>7 DEF TypeOK, MessagesOK, Inboxes
<1> QED BY <1>5, <1>6, <1>7 DEF ExecPaxosAccept

LEMMA TLCType ==
  ASSUME TypeOK, NEW g \in Goroutines, NEW in \in Incoming(g), ExecTLC(g, in)
  PROVE  TypeOK'
<1> DEFINE n == NodeOf(g)
           m == in.msg
           T == [inst[n].TLCMap EXCEPT ![m.step] = Append(@, m.block)]
           current == m.step = step[n]
<1>1. n \in Nodes /\ m \in Message /\ in.box \in Inboxes
  BY NodeOfType, IncomingType
<1>2. m \in TLCMsg
  BY <1>1, MessageCases DEF ExecTLC
<1>3. UNCHANGED <<lock, promiseChan, tag>> BY DEF ExecTLC
<1>4. inst[n] \in Instance BY <1>1 DEF TypeOK
<1>5. T \in [OpenSteps -> Seq(Block)]
  <2>1. inst[n].TLCMap \in [OpenSteps -> Seq(Block)] BY <1>4 DEF Instance
  <2>2. m.step \in OpenSteps /\ m.block \in Block BY <1>2 DEF TLCMsg
  <2>3. Append(inst[n].TLCMap[m.step], m.block) \in Seq(Block)
    BY <2>1, <2>2, AppendProperties
  <2> QED BY <2>1, <2>2, <2>3
<1>6. CASE /\ Returns(g, in.box)
           /\ UNCHANGED <<step, inst, finalValue, valueChan, storeVars>>
  BY <1>1, <1>3, <1>6, ReturnsType DEF TypeOK, storeVars, MessagesOK, Inboxes
<1>7. CASE /\ inst' = [inst EXCEPT ![n] = [inst[n] EXCEPT !.TLCMap = T,
                                                        !.running = @ \/ current]]
           /\ Returns(g, in.box)
           /\ UNCHANGED <<step, finalValue, valueChan, storeVars>>
  <2>1. (inst[n].running \/ current) \in BOOLEAN OBVIOUS
  <2> DEFINE h == [inst[n] EXCEPT !.TLCMap = T, !.running = inst[n].running \/ current]
  <2>2. h \in Instance
    <3> HIDE DEF T, current
    <3> QED BY <1>4, <1>5, <2>1 DEF Instance
  <2>3. inst' \in [Nodes -> Instance]
    <3>1. inst' = [inst EXCEPT ![n] = h] BY <1>7
    <3> HIDE DEF h
    <3> QED BY <1>1, <2>2, <3>1 DEF TypeOK
  <2>4. MessagesOK'
    BY <1>1, <1>7, ReturnsType
  <2> QED BY <1>3, <1>7, <2>3, <2>4 DEF TypeOK, storeVars, MessagesOK, Inboxes
<1>8. CASE /\ current
           /\ EndStep(n, T, m.block)
           /\ Answers(g, in.box, m)
  <2>1. step[n] \in OpenSteps /\ m.block \in Block BY <1>2, <1>8 DEF TLCMsg
  <2>3. MessagesOK' BY <1>1, <1>8, AnswersType
  <2> HIDE DEF T
  <2>4. /\ blocks' \in [Nodes -> Seq(Block)]
        /\ names' \in [Nodes -> [Names -> Calls \cup {None}]]
        /\ finalValue' \in [Nodes -> ValueOrNone]
        /\ step' \in [Nodes -> Steps]
        /\ inst' \in [Nodes -> Instance]
        /\ valueChan' \in [Nodes -> [Steps -> Seq(Value)]]
    BY <1>1, <1>5, <1>8, <2>1, EndStepType
  <2> QED BY <1>3, <2>3, <2>4 DEF TypeOK, MessagesOK, Inboxes
<1> QED BY <1>6, <1>7, <1>8 DEF ExecTLC

LEMMA HostType == \A c \in Calls : Host[c] \in Nodes
OBVIOUS

\* A change of place that does not enter phase 2 keeps the type of tag.
LEMMA GotoType ==
  ASSUME TypeOK, NEW c \in Calls, NEW label \in TagPC \ {"phase2"}, Goto(c, label)
  PROVE  /\ tag' \in [Calls -> TagState]
         /\ \A d \in Calls : tag'[d].pc = "phase2" => tag'[d].value # None
<1>1. tag \in [Calls -> TagState] BY DEF TypeOK
<1>2. [tag[c] EXCEPT !.pc = label] \in TagState BY <1>1 DEF TagState
<1>3. tag' = [tag EXCEPT ![c] = [tag[c] EXCEPT !.pc = label]] BY DEF Goto
<1>4. [tag[c] EXCEPT !.pc = label].pc = label BY <1>1 DEF TagState
<1> QED BY <1>2, <1>3, <1>4, TagUpdateType

LEMMA TagMoveType ==
  ASSUME TypeOK, NEW c \in Calls, NEW label \in TagPC \ {"phase2"},
         Goto(c, label), UNCHANGED <<messageVars, handlerVars, storeVars>>
  PROVE  TypeOK'
BY GotoType DEF TypeOK, handlerVars, storeVars, messageVars

LEMMA TagStartType ==
  ASSUME TypeOK, NEW c \in Calls, TagStart(c)
  PROVE  TypeOK'
BY TagMoveType DEF TagStart, TagPC

LEMMA InstanceFinishedType ==
  ASSUME TypeOK, NEW c \in Calls, InstanceFinished(c)
  PROVE  TypeOK'
BY TagMoveType DEF InstanceFinished, TagPC

LEMMA TagLoopType ==
  ASSUME TypeOK, NEW c \in Calls, TagLoop(c)
  PROVE  TypeOK'
BY TagMoveType DEF TagLoop, TagPC

LEMMA PromiseTimeoutType ==
  ASSUME TypeOK, NEW c \in Calls, PromiseTimeout(c)
  PROVE  TypeOK'
BY TagMoveType DEF PromiseTimeout, TagPC

LEMMA ValueTimeoutType ==
  ASSUME TypeOK, NEW c \in Calls, ValueTimeout(c)
  PROVE  TypeOK'
BY TagMoveType DEF ValueTimeout, TagPC, Outcome

LEMMA ValueReceivedType ==
  ASSUME TypeOK, NEW c \in Calls, ValueReceived(c)
  PROVE  TypeOK'
<1>1. PICK label \in TagPC \ {"phase2"} : Goto(c, label)
  BY DEF ValueReceived, Outcome, TagPC
<1>2. valueChan' \in [Nodes -> [Steps -> Seq(Value)]]
  <2>1. valueChan \in [Nodes -> [Steps -> Seq(Value)]] BY DEF TypeOK
  <2>2. \/ valueChan' = valueChan
        \/ valueChan' = [valueChan EXCEPT ![Host[c]][tag[c].chan] = <<>>]
    BY DEF ValueReceived
  <2>3. <<>> \in Seq(Value) OBVIOUS
  <2>4. [valueChan EXCEPT ![Host[c]][tag[c].chan] = <<>>] \in [Nodes -> [Steps -> Seq(Value)]]
    BY <2>1, <2>3, HostType, ChannelType
  <2> QED BY <2>1, <2>2, <2>4
<1> QED BY <1>1, <1>2, GotoType DEF ValueReceived, TypeOK, storeVars, messageVars

LEMMA InitPaxosInstanceType ==
  ASSUME TypeOK, NEW c \in Calls, InitPaxosInstance(c)
  PROVE  TypeOK'
<1> DEFINE n == Host[c]
<1>1. n \in Nodes BY HostType
<1>2. UNCHANGED <<messageVars, step, finalValue, lock, promiseChan, valueChan, storeVars>>
  BY DEF InitPaxosInstance
<1>3. CASE /\ tag' = [tag EXCEPT ![c].pc = "wait", ![c].chan = step[n]]
           /\ UNCHANGED inst
  <2>1. /\ tag' \in [Calls -> TagState]
        /\ \A d \in Calls : tag'[d].pc = "phase2" => tag'[d].value # None
    <3> DEFINE t == [tag[c] EXCEPT !.pc = "wait", !.chan = step[n]]
    <3>0. tag[c] \in TagState /\ step[Host[c]] \in Steps BY <1>1 DEF TypeOK
    <3>1. t \in TagState /\ t.pc = "wait" BY <3>0 DEF TagState, TagPC
    <3>2. tag' = [tag EXCEPT ![c] = t] BY <1>3
    <3> QED BY <3>1, <3>2, TagUpdateType
  <2> QED BY <1>2, <1>3, <2>1 DEF TypeOK, storeVars, messageVars
<1>4. CASE /\ inst' = [inst EXCEPT ![n] = [@ EXCEPT !.running = TRUE]]
           /\ Goto(c, "begin")
  <2>1. inst[n] \in Instance BY <1>1 DEF TypeOK
  <2>2. [inst[n] EXCEPT !.running = TRUE] \in Instance BY <2>1 DEF Instance
  <2>3. inst' \in [Nodes -> Instance] BY <1>4, <2>2 DEF TypeOK
  <2> QED BY <1>2, <1>4, <2>3, GotoType DEF TypeOK, storeVars, messageVars, TagPC
<1> QED BY <1>3, <1>4 DEF InitPaxosInstance

LEMMA TagBeginType ==
  ASSUME TypeOK, NEW c \in Calls, TagBegin(c)
  PROVE  TypeOK'
<1>1. /\ tag' \in [Calls -> TagState]
      /\ \A d \in Calls : tag'[d].pc = "phase2" => tag'[d].value # None
  <2> DEFINE t == [tag[c] EXCEPT !.pc = "loop", !.startingStep = step[Host[c]]]
  <2>0. tag[c] \in TagState /\ step[Host[c]] \in Steps BY HostType DEF TypeOK
  <2>1. t \in TagState /\ t.pc = "loop" BY <2>0 DEF TagState, TagPC
  <2>2. tag' = [tag EXCEPT ![c] = t] BY DEF TagBegin
  <2> QED BY <2>1, <2>2, TagUpdateType
<1> QED BY <1>1 DEF TagBegin, TypeOK, handlerVars, storeVars, messageVars

LEMMA PaxosPhase1Type ==
  ASSUME TypeOK, NEW c \in Calls, PaxosPhase1(c)
  PROVE  TypeOK'
<1> DEFINE n == Host[c]
           v == [step |-> step[n], id |-> inst[n].paxosID, tag |-> c]
           m == [type |-> "prepare", step |-> step[n], id |-> inst[n].paxosID, src |-> n]
<1>1. n \in Nodes /\ c \in Goroutines BY HostType DEF Goroutines
<1>2. inst[n] \in Instance /\ step[n] \in Steps BY <1>1 DEF TypeOK
<1>3. step[n] \in OpenSteps BY <1>2 DEF PaxosPhase1, Steps, OpenSteps
<1>4. inst[n].paxosID \in IDs BY <1>2 DEF Instance
<1>5. v \in Value BY <1>3, <1>4 DEF Value
<1>6. m \in Message BY <1>1, <1>3, <1>4 DEF Message, PrepareMsg
<1>7. inst' \in [Nodes -> Instance]
  <2> HIDE DEF v
  <2>1. Preparing(inst[n], v) \in Instance
    BY <1>2, <1>5 DEF Preparing, Instance, ValueOrNone
  <2>2. inst' = [inst EXCEPT ![n] = Preparing(@, v)] BY DEF PaxosPhase1, v
  <2> QED BY <1>1, <2>1, <2>2 DEF TypeOK
<1>8. MessagesOK'
  <2> HIDE DEF m
  <2>1. Answers(c, inbox, m) BY DEF PaxosPhase1, m
  <2> QED BY <1>1, <1>6, <2>1, AnswersType DEF TypeOK, MessagesOK, Inboxes
<1>9. /\ tag' \in [Calls -> TagState]
      /\ \A d \in Calls : tag'[d].pc = "phase2" => tag'[d].value # None
  <2> DEFINE t == [tag[c] EXCEPT !.pc = "promise", !.chan = step[n]]
  <2>0. tag[c] \in TagState /\ step[Host[c]] \in Steps BY HostType DEF TypeOK
  <2>1. t \in TagState /\ t.pc = "promise" BY <2>0 DEF TagState, TagPC
  <2>2. tag' = [tag EXCEPT ![c] = t] BY DEF PaxosPhase1
  <2> QED BY <2>1, <2>2, TagUpdateType
<1> QED BY <1>7, <1>8, <1>9 DEF PaxosPhase1, TypeOK, storeVars, MessagesOK, Inboxes

LEMMA PromiseReceivedType ==
  ASSUME TypeOK, NEW c \in Calls, PromiseReceived(c)
  PROVE  TypeOK'
<1> DEFINE n == Host[c]
           ch == tag[c].chan
           v == Head(promiseChan[n][ch])
<1>1. n \in Nodes /\ ch \in Steps BY HostType DEF TypeOK, TagState
<1>2. v \in ValueOrNone
  <2>1. promiseChan[n][ch] \in Seq(ValueOrNone) /\ promiseChan[n][ch] # <<>>
    BY <1>1 DEF TypeOK, PromiseReceived
  <2> QED BY <2>1, HeadTailProperties
<1>3. promiseChan' \in [Nodes -> [Steps -> Seq(ValueOrNone)]]
  <2>1. promiseChan \in [Nodes -> [Steps -> Seq(ValueOrNone)]] BY DEF TypeOK
  <2>2. promiseChan' = [promiseChan EXCEPT ![n][ch] = <<>>] BY DEF PromiseReceived
  <2>3. <<>> \in Seq(ValueOrNone) OBVIOUS
  <2> QED BY <1>1, <2>1, <2>2, <2>3, ChannelType
<1>4. /\ tag' \in [Calls -> TagState]
      /\ \A d \in Calls : tag'[d].pc = "phase2" => tag'[d].value # None
  <2> DEFINE label == IF v = None THEN "done" ELSE "phase2"
             t == [tag[c] EXCEPT !.pc = label, !.value = v]
  <2>1. tag' = [tag EXCEPT ![c] = t] BY DEF PromiseReceived
  <2>2. tag[c] \in TagState BY DEF TypeOK
  <2>3. label \in TagPC /\ (label = "phase2" => v # None) BY DEF TagPC
  <2> HIDE DEF v, label
  <2>4. t \in TagState /\ t.pc = label /\ t.value = v BY <1>2, <2>2, <2>3 DEF TagState
  <2> QED BY <2>1, <2>3, <2>4, TagUpdateType
<1> QED BY <1>3, <1>4 DEF PromiseReceived, TypeOK, storeVars, messageVars

LEMMA NextIDType ==
  ASSUME TypeOK, NEW c \in Calls, NextID(c)
  PROVE  TypeOK'
<1> DEFINE n == Host[c]
<1>1. n \in Nodes BY HostType
<1>2. inst[n] \in Instance BY <1>1 DEF TypeOK
<1>3. inst[n].paxosID + TotalPeers \in IDs BY <1>2 DEF NextID, MayRetry, Instance, IDs
<1>4. inst' \in [Nodes -> Instance]
  <2> DEFINE h == [inst[n] EXCEPT !.paxosID = inst[n].paxosID + TotalPeers]
  <2>1. h \in Instance BY <1>2, <1>3 DEF Instance
  <2>2. inst' = [inst EXCEPT ![n] = h] BY DEF NextID
  <2> HIDE DEF h
  <2> QED BY <1>1, <2>1, <2>2 DEF TypeOK
<1>5. PICK label \in TagPC \ {"phase2"} : Goto(c, label) BY DEF NextID, TagPC
<1> QED BY <1>4, <1>5, GotoType DEF NextID, TypeOK, storeVars, messageVars

LEMMA PaxosPhase2Type ==
  ASSUME TypeOK, NEW c \in Calls, PaxosPhase2(c)
  PROVE  TypeOK'
<1> DEFINE n == Host[c]
           m == [type |-> "propose", step |-> step[n], id |-> inst[n].paxosID,
                 val |-> tag[c].value]
<1>1. n \in Nodes /\ c \in Goroutines BY HostType DEF Goroutines
<1>2. inst[n] \in Instance /\ step[n] \in Steps BY <1>1 DEF TypeOK
<1>3. step[n] \in OpenSteps BY <1>2 DEF PaxosPhase2, Steps, OpenSteps
<1>4. tag[c].value \in Value
  BY DEF PaxosPhase2, TypeOK, TagState, ValueOrNone
<1>5. m \in Message BY <1>2, <1>3, <1>4 DEF Message, ProposeMsg, Instance
<1>6. MessagesOK'
  <2> HIDE DEF m
  <2>1. Answers(c, inbox, m) BY DEF PaxosPhase2, m
  <2> QED BY <1>1, <1>5, <2>1, AnswersType DEF TypeOK, MessagesOK, Inboxes
<1>7. /\ tag' \in [Calls -> TagState]
      /\ \A d \in Calls : tag'[d].pc = "phase2" => tag'[d].value # None
  <2> DEFINE t == [tag[c] EXCEPT !.pc = "value", !.chan = step[n]]
  <2>0. tag[c] \in TagState /\ step[Host[c]] \in Steps BY HostType DEF TypeOK
  <2>1. t \in TagState /\ t.pc = "value" BY <2>0 DEF TagState, TagPC
  <2>2. tag' = [tag EXCEPT ![c] = t] BY DEF PaxosPhase2
  <2> QED BY <2>1, <2>2, TagUpdateType
<1> QED BY <1>6, <1>7 DEF PaxosPhase2, TypeOK, handlerVars, storeVars, MessagesOK, Inboxes

-----------------------------------------------------------------------------
(* Type correctness *)

LEMMA InitType == Init => TypeOK
<1> SUFFICES ASSUME Init PROVE TypeOK OBVIOUS
<1>1. inbox \in [Nodes -> [Nodes -> Seq(Message)]] BY EmptySeq DEF Init
<1>2. inst \in [Nodes -> Instance] BY ClearedType DEF Init
<1>3. 0 \in Steps BY DEF Steps
<1>4. tag \in [Calls -> TagState] BY <1>3 DEF Init, TagState, TagPC, ValueOrNone
<1> QED BY <1>1, <1>2, <1>3, <1>4 DEF Init, TypeOK, ValueOrNone

LEMMA NextType == TypeOK /\ [Next]_vars => TypeOK'
<1> SUFFICES ASSUME TypeOK, [Next]_vars PROVE TypeOK' OBVIOUS
<1>1. CASE UNCHANGED vars
  BY <1>1 DEF vars, handlerVars, storeVars, messageVars, TypeOK
<1>2. ASSUME NEW g \in Goroutines, Handle(g) PROVE TypeOK'
  BY <1>2, BroadcastType, PrepareType, ProposeType, PromiseType, AcceptType, TLCType
  DEF Handle
<1>3. ASSUME NEW n \in Nodes, PromiseSent(n) PROVE TypeOK'
  BY <1>3, PromiseSentType
<1>4. ASSUME NEW c \in Calls, TagStep(c) PROVE TypeOK'
  BY <1>4, TagStartType, InitPaxosInstanceType, InstanceFinishedType, TagBeginType,
     TagLoopType, PaxosPhase1Type, PromiseReceivedType, NextIDType, PaxosPhase2Type,
     ValueReceivedType
  DEF TagStep
<1>5. ASSUME NEW c \in Calls, Timeout(c) PROVE TypeOK'
  BY <1>5, PromiseTimeoutType, ValueTimeoutType DEF Timeout
<1> QED BY <1>1, <1>2, <1>3, <1>4, <1>5 DEF Next

\* Every reachable state of every population is well typed; in particular a call
\* that enters phase 2 proposes a proper value, and catchUp only takes the TLC
\* messages of a step that has a threshold of them.
THEOREM TypeCorrect == Spec => []TypeOK
<1>1. Init => TypeOK BY InitType
<1>2. TypeOK /\ [Next]_vars => TypeOK' BY NextType
<1> QED BY <1>1, <1>2, PTL DEF Spec

=============================================================================
