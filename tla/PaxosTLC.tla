------------------------------- MODULE PaxosTLC -------------------------------
(***************************************************************************)
(* The agreement core of a Peerster node: Tag, the multi-step Paxos that   *)
(* orders the names, and the TLC (threshold logical clock) that moves a    *)
(* node from a step to the next (src/peer/impl: paxosHandler.go, the Paxos *)
(* callbacks of callbacks.go, Tag and the two phases of datasharing.go).   *)
(*                                                                         *)
(* Goroutines.  Every node runs one listener, which processes packets one  *)
(* at a time, and one goroutine per call of Tag.  A step is one section    *)
(* under the lock of the paxosHandler.  What it answers is marshalled and  *)
(* broadcast after the lock is released (`out'), and then processed by its *)
(* own sender on the goroutine that sent it (`local').                     *)
(*                                                                         *)
(* Network.  A broadcast is a rumor.  The rumors of an origin are accepted *)
(* in the order of their sequence numbers and each of them once, and the   *)
(* anti-entropy exchange resends the lost ones: inbox[d][o] is the         *)
(* sequence of the rumors of o that d has yet to accept.  A promise is a   *)
(* private rumor, which only its recipient processes.                      *)
(***************************************************************************)
EXTENDS Integers, Sequences, FiniteSets

CONSTANTS
  Nodes,        \* the peers
  Calls,        \* the calls of Tag; a call stands for its metahash too
  Names,        \* the names that are tagged
  None,         \* the zero PaxosValue, the nil pointer, the missing key
  Host,         \* Host[c]: the node on which the call c runs
  NameOf,       \* NameOf[c]: the name that the call c tags
  FirstID,      \* FirstID[n]: conf.PaxosID
  TotalPeers,   \* conf.TotalPeers
  Threshold,    \* conf.PaxosThreshold(conf.TotalPeers)
  Serial,       \* bound: the peers whose sections and broadcasts are one step
  MaxSteps,     \* bound: no proposer starts a phase at this step or later
  MaxID         \* bound: no proposer moves to a Paxos ID above this one

ASSUME PopulationAssumption ==
  /\ IsFiniteSet(Nodes)
  /\ Nodes \cap Calls = {}
  /\ None \notin Nodes \cup Calls
  /\ Host \in [Calls -> Nodes]
  /\ NameOf \in [Calls -> Names]

ASSUME ConfigAssumption ==
  /\ TotalPeers \in Nat \ {0, 1}     \* with one peer Tag is a Get and a Set
  /\ Threshold \in Nat \ {0}
  /\ MaxSteps \in Nat \ {0}
  /\ MaxID \in Nat
  /\ FirstID \in [Nodes -> 1..MaxID]
  /\ Serial \subseteq Nodes

-----------------------------------------------------------------------------
(* Data *)

Goroutines == Nodes \cup Calls
NodeOf(g) == IF g \in Calls THEN Host[g] ELSE g

Steps == 0..MaxSteps
OpenSteps == 0..(MaxSteps - 1)          \* the steps in which a proposer may act
IDs == 1..MaxID
IDOrZero == 0..MaxID

\* A PaxosValue.  Its UniqID is fresh for every prepare, which <<step, id, tag>>
\* names: a call prepares twice only after nextID or after a change of step.
\* The filename is NameOf[v.tag] and the metahash v.tag.
Value == [step : OpenSteps, id : IDs, tag : Calls]
ValueOrNone == Value \cup {None}

ASSUME ValueAssumption == None \notin Value

\* The hash of a block commits to its index, its value and the hash before it:
\* it is represented by the sequence of what it commits to.
Link == [index : OpenSteps, value : Value]
Block == [index : OpenSteps, value : Value, prev : Seq(Link)]
Hash(b) == Append(b.prev, [index |-> b.index, value |-> b.value])

PrepareMsg == [type : {"prepare"}, step : OpenSteps, id : IDs, src : Nodes]
PromiseMsg == [type : {"promise"}, step : OpenSteps, id : IDs,
               dest : Nodes, accID : IDOrZero, accVal : ValueOrNone]
ProposeMsg == [type : {"propose"}, step : OpenSteps, id : IDs, val : Value]
AcceptMsg == [type : {"accept"}, step : OpenSteps, id : IDs, val : Value]
TLCMsg == [type : {"tlc"}, step : OpenSteps, block : Block]
Message == PrepareMsg \cup PromiseMsg \cup ProposeMsg \cup AcceptMsg \cup TLCMsg

\* The fields of the paxosHandler that clearInstance resets
Instance ==
  [running : BOOLEAN, phase : {1, 2}, paxosID : IDs,
   maxID : IDOrZero, acceptedID : IDOrZero, acceptedValue : ValueOrNone,
   promises : Nat, bestID : IDOrZero, bestValue : ValueOrNone,
   proposedValue : ValueOrNone, acceptedValues : [Value -> Nat],
   TLCMap : [OpenSteps -> Seq(Block)]]

\* Variant: the phase is reset to initValue like the other fields
ClearedToZero(n) ==
  [running |-> FALSE, phase |-> 0, paxosID |-> FirstID[n],
   maxID |-> 0, acceptedID |-> 0, acceptedValue |-> None,
   promises |-> 0, bestID |-> 0, bestValue |-> None,
   proposedValue |-> None, acceptedValues |-> [v \in Value |-> 0],
   TLCMap |-> [s \in OpenSteps |-> <<>>]]

Cleared(n) ==
  [running |-> FALSE, phase |-> 1, paxosID |-> FirstID[n],
   maxID |-> 0, acceptedID |-> 0, acceptedValue |-> None,
   promises |-> 0, bestID |-> 0, bestValue |-> None,
   proposedValue |-> None, acceptedValues |-> [v \in Value |-> 0],
   TLCMap |-> [s \in OpenSteps |-> <<>>]]

VARIABLES
  inbox,        \* inbox[d][o]: the rumors of o that d has yet to accept
  out,          \* out[g]: the message g has yet to broadcast
  local,        \* local[g]: the broadcast g has yet to process itself
  step,         \* step[n]
  inst,         \* inst[n]: the running instance
  finalValue,   \* finalValue[n], which no reset clears
  lock,         \* lock[n]: the goroutine blocked in a section, or None
  promiseChan,  \* promiseChan[n][s]: the channel made when n moved to step s
  valueChan,    \* valueChan[n][s]: likewise; closed once n has left step s
  blocks,       \* blocks[n]: the blockchain store, in the order of storage
  names,        \* names[n][x]: the naming store
  tag           \* tag[c]: where the call c is, and its local variables

handlerVars == <<step, inst, finalValue, lock, promiseChan, valueChan>>
storeVars == <<blocks, names>>
messageVars == <<inbox, out, local>>
vars == <<messageVars, handlerVars, storeVars, tag>>

TagPC == {"start", "init", "wait", "begin", "loop", "phase1", "promise",
          "retry1", "phase2", "value", "retry2", "done", "taken"}
TagState == [pc : TagPC, startingStep : Steps, value : ValueOrNone, chan : Steps]

Init ==
  /\ inbox = [d \in Nodes |-> [o \in Nodes |-> <<>>]]
  /\ out = [g \in Goroutines |-> None]
  /\ local = [g \in Goroutines |-> None]
  /\ step = [n \in Nodes |-> 0]
  /\ inst = [n \in Nodes |-> Cleared(n)]
  /\ finalValue = [n \in Nodes |-> None]
  /\ lock = [n \in Nodes |-> None]
  /\ promiseChan = [n \in Nodes |-> [s \in Steps |-> <<>>]]
  /\ valueChan = [n \in Nodes |-> [s \in Steps |-> <<>>]]
  /\ blocks = [n \in Nodes |-> <<>>]
  /\ names = [n \in Nodes |-> [x \in Names |-> None]]
  /\ tag = [c \in Calls |->
              [pc |-> "start", startingStep |-> 0, value |-> None, chan |-> 0]]

-----------------------------------------------------------------------------
(* Broadcast and reception *)

\* The inboxes once n has broadcast m
Sent(box, n, m) ==
  [d \in Nodes |-> IF d = n THEN box[d]
                   ELSE [box[d] EXCEPT ![n] = Append(@, m)]]

\* The listener g waits for a packet.  At the bound MaxSteps it would ignore every
\* rumor: it takes no more of them.
Idle(g) == g \in Nodes /\ out[g] = None /\ step[g] < MaxSteps

\* What g may process next: the broadcast it made last or, for a listener that is
\* done with it, the next rumor of some origin.
Incoming(g) ==
  IF local[g] # None THEN {[msg |-> local[g], box |-> inbox]}
  ELSE {[msg |-> Head(inbox[g][o]), box |-> [inbox EXCEPT ![g][o] = Tail(@)]] :
          o \in {p \in Nodes : Idle(g) /\ inbox[g][p] # <<>>}}

\* g returns from the handler without a broadcast
Returns(g, box) ==
  /\ inbox' = box
  /\ local' = [local EXCEPT ![g] = None]
  /\ UNCHANGED out

\* Broadcast of m by g: a promise is private to the proposer, the rest is for every
\* peer.  A TLC message is for a step that its sender has left: it ignores it.
Sends(g, box, m) ==
  LET n == NodeOf(g) IN
  IF m.type = "promise"
    THEN IF m.dest = n
           THEN inbox' = box /\ local' = [local EXCEPT ![g] = m]
           ELSE /\ inbox' = [box EXCEPT ![m.dest][n] = Append(@, m)]
                /\ local' = [local EXCEPT ![g] = None]
    ELSE /\ inbox' = Sent(box, n, m)
         /\ local' = [local EXCEPT ![g] = IF m.type = "tlc" THEN None ELSE m]

\* g returns from the section with m to broadcast
Answers(g, box, m) ==
  \/ NodeOf(g) \in Serial /\ Sends(g, box, m) /\ UNCHANGED out
  \/ /\ NodeOf(g) \notin Serial
     /\ inbox' = box
     /\ local' = [local EXCEPT ![g] = None]
     /\ out' = [out EXCEPT ![g] = m]

\* What MarshalMessage makes of m.  A promise points to the accepted value in the
\* paxosHandler, which is read without the lock: the step may be over by then.
Marshalled(n, m) ==
  IF m.type = "promise" /\ m.accVal # None
    THEN {m, [m EXCEPT !.accVal = inst[n].acceptedValue]}
    ELSE {m}

\* The channel of a phase is looked up between its section and its broadcast.
Broadcast(g) ==
  LET n == NodeOf(g)
      m == out[g]
      ownPhase == g \in Calls /\ m.type \in {"prepare", "propose"}
  IN /\ m # None
     /\ out' = [out EXCEPT ![g] = None]
     /\ \E p \in Marshalled(n, m) : Sends(g, inbox, p)
     /\ \/ UNCHANGED tag
        \/ ownPhase /\ tag' = [tag EXCEPT ![g] = [@ EXCEPT !.chan = step[n]]]
     /\ UNCHANGED <<handlerVars, storeVars>>

-----------------------------------------------------------------------------
(* The acceptor *)

\* Variant: the threshold is off by one
AlmostReached(k) == k + 1 >= Threshold

\* The comparison with the threshold of promises, accepts and TLC messages
Reached(k) == k >= Threshold

\* respondToPrepareMsg
ExecPaxosPrepare(g, in) ==
  LET n == NodeOf(g)
      m == in.msg
      promise == [type |-> "promise", step |-> step[n], id |-> m.id, dest |-> m.src,
                  accID |-> inst[n].acceptedID, accVal |-> inst[n].acceptedValue]
  IN /\ m.type = "prepare"
     /\ lock[n] = None
     /\ \/ /\ m.step # step[n] \/ m.id <= inst[n].maxID
           /\ Returns(g, in.box)
           /\ UNCHANGED inst
        \/ /\ m.step = step[n] /\ m.id > inst[n].maxID
           /\ inst' = [inst EXCEPT ![n] = [@ EXCEPT !.running = TRUE, !.maxID = m.id]]
           /\ Answers(g, in.box, promise)
     /\ UNCHANGED <<step, finalValue, lock, promiseChan, valueChan, storeVars, tag>>

\* Variant: the ID of the acceptance is not kept
AcceptingWithoutID(h, m) ==
  IF h.acceptedValue = None
    THEN [h EXCEPT !.running = TRUE, !.acceptedValue = m.val]
    ELSE [h EXCEPT !.running = TRUE]

\* respondToProposeMsg: the first value accepted in a step is kept
Accepting(h, m) ==
  IF h.acceptedValue = None
    THEN [h EXCEPT !.running = TRUE, !.acceptedID = m.id, !.acceptedValue = m.val]
    ELSE [h EXCEPT !.running = TRUE]

\* Variant: any proposal of the step is accepted
AcceptableUnpromised(n, m) == m.step = step[n]

\* Variant: the proposal of the last promise is refused
AcceptableAbovePromise(n, m) == m.step = step[n] /\ m.id > inst[n].maxID

Acceptable(n, m) == m.step = step[n] /\ m.id = inst[n].maxID

ExecPaxosPropose(g, in) ==
  LET n == NodeOf(g)
      m == in.msg
  IN /\ m.type = "propose"
     /\ lock[n] = None
     /\ \/ /\ ~Acceptable(n, m)
           /\ Returns(g, in.box)
           /\ UNCHANGED inst
        \/ /\ Acceptable(n, m)
           /\ inst' = [inst EXCEPT ![n] = Accepting(@, m)]
           /\ Answers(g, in.box, [type |-> "accept", step |-> step[n],
                                  id |-> m.id, val |-> m.val])
     /\ UNCHANGED <<step, finalValue, lock, promiseChan, valueChan, storeVars, tag>>

-----------------------------------------------------------------------------
(* The proposer's side of the listener *)

\* The value that respondToPromiseMsg sends on the promise channel
Chosen(h) == IF h.bestID # 0 THEN h.bestValue ELSE h.proposedValue

\* Variant: the values accepted before are not taken over
PromisedDeaf(h, m) ==
  [h EXCEPT !.promises = @ + 1, !.phase = IF Reached(h.promises + 1) THEN 2 ELSE 1]

\* respondToPromiseMsg up to its send.  Neither the ID of the promise nor its
\* sender is looked at, and bestID takes the promise's ID.
Promised(h, m) ==
  LET better == m.accID > h.bestID
      count == h.promises + 1
  IN [h EXCEPT !.promises = count,
               !.bestID = IF better THEN m.id ELSE @,
               !.bestValue = IF better THEN m.accVal ELSE @,
               !.phase = IF Reached(count) THEN 2 ELSE 1]

Countable(n, m) == m.step = step[n] /\ inst[n].phase = 1

\* The channel has room for one value: the send on a full one keeps the lock
ExecPaxosPromise(g, in) ==
  LET n == NodeOf(g)
      m == in.msg
      h == Promised(inst[n], m)
      full == promiseChan[n][step[n]] # <<>>
  IN /\ m.type = "promise"
     /\ lock[n] = None
     /\ \/ /\ ~Countable(n, m)
           /\ Returns(g, in.box)
           /\ UNCHANGED <<inst, promiseChan, lock>>
        \/ /\ Countable(n, m)
           /\ inst' = [inst EXCEPT ![n] = h]
           /\ \/ /\ h.phase = 1
                 /\ Returns(g, in.box)
                 /\ UNCHANGED <<promiseChan, lock>>
              \/ /\ h.phase = 2 /\ ~full
                 /\ promiseChan' = [promiseChan EXCEPT ![n][step[n]] = <<Chosen(h)>>]
                 /\ Returns(g, in.box)
                 /\ UNCHANGED lock
              \/ /\ h.phase = 2 /\ full
                 /\ lock' = [lock EXCEPT ![n] = g]
                 /\ inbox' = in.box
                 /\ local' = [local EXCEPT ![g] = m]
                 /\ UNCHANGED <<out, promiseChan>>
     /\ UNCHANGED <<step, finalValue, valueChan, storeVars, tag>>

\* The blocked send goes through once the channel has been emptied
PromiseSent(n) ==
  /\ lock[n] # None
  /\ promiseChan[n][step[n]] = <<>>
  /\ promiseChan' = [promiseChan EXCEPT ![n][step[n]] = <<Chosen(inst[n])>>]
  /\ lock' = [lock EXCEPT ![n] = None]
  /\ Returns(lock[n], inbox)
  /\ UNCHANGED <<step, inst, finalValue, valueChan, storeVars, tag>>

-----------------------------------------------------------------------------
(* The end of a step *)

\* Variant: the step is not incremented
NextStepForgotten(T, s) == s - 1

\* catchUp, as the first step whose TLC messages do not reach the threshold
NextStep(T, s) ==
  CHOOSE t \in s..MaxSteps :
    /\ t = MaxSteps \/ Len(T[t]) < Threshold
    /\ \A u \in s..(t - 1) : Len(T[u]) >= Threshold

\* Variant: the block that ends the step is not stored
NewBlocksCaughtUp(T, s, b) ==
  [i \in 1..(NextStep(T, s + 1) - (s + 1)) |-> T[s + i][Threshold]]

\* The blocks stored when b ends step s: b and those catchUp takes
NewBlocks(T, s, b) ==
  <<b>> \o [i \in 1..(NextStep(T, s + 1) - (s + 1)) |-> T[s + i][Threshold]]

\* The naming store once the blocks of B have been stored in this order
Named(store, B) ==
  [x \in Names |->
     LET hits == {i \in 1..Len(B) : NameOf[B[i].value.tag] = x}
     IN IF hits = {} THEN store[x]
        ELSE B[CHOOSE i \in hits : \A j \in hits : j <= i].value.tag]

\* storeBlock, step++, catchUp and clearInstance, given the TLC messages T
EndStep(n, T, b) ==
  LET s == step[n]
      B == NewBlocks(T, s, b)
  IN /\ blocks' = [blocks EXCEPT ![n] = @ \o B]
     /\ names' = [names EXCEPT ![n] = Named(@, B)]
     /\ finalValue' = [finalValue EXCEPT ![n] = b.value]
     /\ step' = [step EXCEPT ![n] = NextStep(T, s + 1)]
     /\ inst' = [inst EXCEPT ![n] = Cleared(n)]
     /\ valueChan' = [valueChan EXCEPT ![n][s] = <<b.value>>]

\* Variant: the last block is never looked up
NoLastHash(n) == <<>>

\* buildBlock: the block of the current step on top of the last one stored
LastHash(n) == IF blocks[n] = <<>> THEN <<>> ELSE Hash(blocks[n][Len(blocks[n])])
NewBlock(n, v) == [index |-> step[n], value |-> v, prev |-> LastHash(n)]

\* respondToAcceptMsg: the accepts are counted by value
ExecPaxosAccept(g, in) ==
  LET n == NodeOf(g)
      m == in.msg
      count == inst[n].acceptedValues[m.val] + 1
      b == NewBlock(n, m.val)
  IN /\ m.type = "accept"
     /\ lock[n] = None
     /\ \/ /\ m.step # step[n]
           /\ Returns(g, in.box)
           /\ UNCHANGED <<step, inst, finalValue, valueChan, storeVars>>
        \/ /\ m.step = step[n] /\ ~Reached(count)
           /\ inst' = [inst EXCEPT ![n] = [@ EXCEPT !.running = TRUE,
                                                  !.acceptedValues[m.val] = count]]
           /\ Returns(g, in.box)
           /\ UNCHANGED <<step, finalValue, valueChan, storeVars>>
        \/ /\ m.step = step[n] /\ Reached(count)
           /\ EndStep(n, inst[n].TLCMap, b)
           /\ Answers(g, in.box, [type |-> "tlc", step |-> step[n], block |-> b])
     /\ UNCHANGED <<lock, promiseChan, tag>>

\* respondToTLCMsg: the message that makes the threshold is broadcast again
ExecTLC(g, in) ==
  LET n == NodeOf(g)
      m == in.msg
      T == [inst[n].TLCMap EXCEPT ![m.step] = Append(@, m.block)]
      current == m.step = step[n]
  IN /\ m.type = "tlc"
     /\ lock[n] = None
     /\ \/ /\ m.step < step[n]
           /\ Returns(g, in.box)
           /\ UNCHANGED <<step, inst, finalValue, valueChan, storeVars>>
        \/ /\ m.step >= step[n]
           /\ ~(current /\ Reached(Len(T[m.step])))
           /\ inst' = [inst EXCEPT ![n] = [inst[n] EXCEPT !.TLCMap = T,
                                                         !.running = @ \/ current]]
           /\ Returns(g, in.box)
           /\ UNCHANGED <<step, finalValue, valueChan, storeVars>>
        \/ /\ current /\ Reached(Len(T[m.step]))
           /\ EndStep(n, T, m.block)
           /\ Answers(g, in.box, m)
     /\ UNCHANGED <<lock, promiseChan, tag>>

-----------------------------------------------------------------------------
(* Tag *)

Goto(c, label) == tag' = [tag EXCEPT ![c] = [@ EXCEPT !.pc = label]]

\* The check of the naming store, which nothing repeats before the proposal
TagStart(c) ==
  /\ tag[c].pc = "start"
  /\ Goto(c, IF names[Host[c]][NameOf[c]] # None THEN "taken" ELSE "init")
  /\ UNCHANGED <<messageVars, handlerVars, storeVars>>

InitPaxosInstance(c) ==
  LET n == Host[c] IN
  /\ tag[c].pc = "init"
  /\ lock[n] = None
  /\ \/ /\ inst[n].running
        /\ tag' = [tag EXCEPT ![c] = [@ EXCEPT !.pc = "wait", !.chan = step[n]]]
        /\ UNCHANGED inst
     \/ /\ ~inst[n].running
        /\ inst' = [inst EXCEPT ![n] = [@ EXCEPT !.running = TRUE]]
        /\ Goto(c, "begin")
  /\ UNCHANGED <<messageVars, step, finalValue, lock, promiseChan, valueChan, storeVars>>

\* The instance channel is closed when the instance it stands for is cleared
InstanceFinished(c) ==
  /\ tag[c].pc = "wait"
  /\ tag[c].chan # step[Host[c]]
  /\ Goto(c, "init")
  /\ UNCHANGED <<messageVars, handlerVars, storeVars>>

TagBegin(c) ==
  /\ tag[c].pc = "begin"
  /\ lock[Host[c]] = None
  /\ tag' = [tag EXCEPT ![c] = [@ EXCEPT !.pc = "loop",
                                      !.startingStep = step[Host[c]]]]
  /\ UNCHANGED <<messageVars, handlerVars, storeVars>>

TagLoop(c) ==
  LET n == Host[c] IN
  /\ tag[c].pc = "loop"
  /\ lock[n] = None
  /\ Goto(c, IF step[n] = tag[c].startingStep THEN "phase1"
             ELSE IF names[n][NameOf[c]] # None THEN "done" ELSE "start")
  /\ UNCHANGED <<messageVars, handlerVars, storeVars>>

-----------------------------------------------------------------------------
(* The proposer's phases *)

\* Variant: a new prepare also forgets the accepts counted so far
PreparingAfresh(h, v) ==
  [h EXCEPT !.proposedValue = v, !.phase = 1, !.promises = 0,
            !.acceptedValues = [w \in Value |-> 0]]

\* createPrepareMessage: neither bestID nor bestValue is reset
Preparing(h, v) == [h EXCEPT !.proposedValue = v, !.phase = 1, !.promises = 0]

PaxosPhase1(c) ==
  LET n == Host[c]
      v == [step |-> step[n], id |-> inst[n].paxosID, tag |-> c]
  IN /\ tag[c].pc = "phase1"
     /\ lock[n] = None
     /\ step[n] < MaxSteps
     /\ inst' = [inst EXCEPT ![n] = Preparing(@, v)]
     /\ tag' = [tag EXCEPT ![c] = [@ EXCEPT !.pc = "promise", !.chan = step[n]]]
     /\ Answers(c, inbox, [type |-> "prepare", step |-> step[n],
                           id |-> inst[n].paxosID, src |-> n])
     /\ UNCHANGED <<step, finalValue, lock, promiseChan, valueChan, storeVars>>

\* The zero value ends the call without an error
PromiseReceived(c) ==
  LET n == Host[c]
      ch == tag[c].chan
  IN /\ tag[c].pc = "promise"
     /\ out[c] = None /\ local[c] = None
     /\ promiseChan[n][ch] # <<>>
     /\ LET v == Head(promiseChan[n][ch]) IN
          tag' = [tag EXCEPT ![c] =
                    [@ EXCEPT !.pc = IF v = None THEN "done" ELSE "phase2", !.value = v]]
     /\ promiseChan' = [promiseChan EXCEPT ![n][ch] = <<>>]
     /\ UNCHANGED <<messageVars, step, inst, finalValue, lock, valueChan, storeVars>>

\* The bound on the IDs also bounds the number of times the ticker fires
MayRetry(n) == inst[n].paxosID + TotalPeers <= MaxID

PromiseTimeout(c) ==
  /\ tag[c].pc = "promise"
  /\ out[c] = None /\ local[c] = None
  /\ MayRetry(Host[c])
  /\ Goto(c, "retry1")
  /\ UNCHANGED <<messageVars, handlerVars, storeVars>>

NextID(c) ==
  LET n == Host[c] IN
  /\ tag[c].pc \in {"retry1", "retry2"}
  /\ lock[n] = None
  /\ MayRetry(n)
  /\ inst' = [inst EXCEPT ![n] = [inst[n] EXCEPT !.paxosID = @ + TotalPeers]]
  /\ Goto(c, IF tag[c].pc = "retry1" THEN "phase1" ELSE "loop")
  /\ UNCHANGED <<messageVars, step, finalValue, lock, promiseChan, valueChan, storeVars>>

\* The step and the ID are those of now, the value is that of the promises
PaxosPhase2(c) ==
  LET n == Host[c] IN
  /\ tag[c].pc = "phase2"
  /\ lock[n] = None
  /\ step[n] < MaxSteps
  /\ tag' = [tag EXCEPT ![c] = [@ EXCEPT !.pc = "value", !.chan = step[n]]]
  /\ Answers(c, inbox, [type |-> "propose", step |-> step[n],
                        id |-> inst[n].paxosID, val |-> tag[c].value])
  /\ UNCHANGED <<handlerVars, storeVars>>

\* Variant: whatever value ends the step ends the call
OutcomeOfAny(c, v) == IF v # None THEN "done" ELSE "start"

\* The call ends when the value is its own, and starts again otherwise
Outcome(c, v) == IF v # None /\ v.tag = c THEN "done" ELSE "start"

\* A closed channel that has been emptied yields the zero value
ValueReceived(c) ==
  LET n == Host[c]
      ch == tag[c].chan
  IN /\ tag[c].pc = "value"
     /\ out[c] = None /\ local[c] = None
     /\ \/ /\ valueChan[n][ch] # <<>>
           /\ Goto(c, Outcome(c, Head(valueChan[n][ch])))
           /\ valueChan' = [valueChan EXCEPT ![n][ch] = <<>>]
        \/ /\ valueChan[n][ch] = <<>> /\ ch # step[n]
           /\ Goto(c, Outcome(c, None))
           /\ UNCHANGED valueChan
     /\ UNCHANGED <<messageVars, step, inst, finalValue, lock, promiseChan, storeVars>>

\* The ticker looks at the final value of whatever step ended last
ValueTimeout(c) ==
  LET n == Host[c] IN
  /\ tag[c].pc = "value"
  /\ out[c] = None /\ local[c] = None
  /\ lock[n] = None
  /\ \/ finalValue[n] # None /\ Goto(c, Outcome(c, finalValue[n]))
     \/ finalValue[n] = None /\ MayRetry(n) /\ Goto(c, "retry2")
  /\ UNCHANGED <<messageVars, handlerVars, storeVars>>

-----------------------------------------------------------------------------
Handle(g) ==
  \/ Broadcast(g)
  \/ \E in \in Incoming(g) :
       \/ ExecPaxosPrepare(g, in)
       \/ ExecPaxosPropose(g, in)
       \/ ExecPaxosPromise(g, in)
       \/ ExecPaxosAccept(g, in)
       \/ ExecTLC(g, in)

\* The steps of the goroutine of c that no ticker triggers
TagStep(c) ==
  \/ TagStart(c)
  \/ InitPaxosInstance(c)
  \/ InstanceFinished(c)
  \/ TagBegin(c)
  \/ TagLoop(c)
  \/ PaxosPhase1(c)
  \/ PromiseReceived(c)
  \/ NextID(c)
  \/ PaxosPhase2(c)
  \/ ValueReceived(c)

Timeout(c) == PromiseTimeout(c) \/ ValueTimeout(c)

Next ==
  \/ \E g \in Goroutines : Handle(g)
  \/ \E n \in Nodes : PromiseSent(n)
  \/ \E c \in Calls : TagStep(c) \/ Timeout(c)

Spec == Init /\ [][Next]_vars

Fairness ==
  /\ \A g \in Goroutines : WF_vars(Handle(g))
  /\ \A n \in Nodes : WF_vars(PromiseSent(n))
  /\ \A c \in Calls : WF_vars(TagStep(c)) /\ WF_vars(Timeout(c))

FairSpec == Spec /\ Fairness

-----------------------------------------------------------------------------
(* Properties *)

\* Every field keeps its range; a call enters phase 2 with a proper value.
TypeOK ==
  /\ inbox \in [Nodes -> [Nodes -> Seq(Message)]]
  /\ out \in [Goroutines -> Message \cup {None}]
  /\ local \in [Goroutines -> Message \cup {None}]
  /\ step \in [Nodes -> Steps]
  /\ inst \in [Nodes -> Instance]
  /\ finalValue \in [Nodes -> ValueOrNone]
  /\ lock \in [Nodes -> Goroutines \cup {None}]
  /\ promiseChan \in [Nodes -> [Steps -> Seq(ValueOrNone)]]
  /\ valueChan \in [Nodes -> [Steps -> Seq(Value)]]
  /\ blocks \in [Nodes -> Seq(Block)]
  /\ names \in [Nodes -> [Names -> Calls \cup {None}]]
  /\ tag \in [Calls -> TagState]
  /\ \A c \in Calls : tag[c].pc = "phase2" => tag[c].value # None

\* Two nodes never store different blocks at the same place of their chains:
\* the values, and the hashes that link them, are those of one blockchain
\* (respondToAcceptMsg and respondToTLCMsg, each on its own node).
Agreement ==
  \A m, n \in Nodes : \A i \in DOMAIN blocks[m] \cap DOMAIN blocks[n] :
    blocks[m][i] = blocks[n][i]

\* The chain of a node is a blockchain: as many blocks as steps ended, each with
\* its place as index and the hash of the block before it, although the blocks
\* that come in TLC messages were built by other nodes (buildBlock, storeBlock).
ChainLinked ==
  \A n \in Nodes :
    /\ Len(blocks[n]) = step[n]
    /\ \A i \in DOMAIN blocks[n] :
         /\ blocks[n][i].index = i - 1
         /\ blocks[n][i].prev = IF i = 1 THEN <<>> ELSE Hash(blocks[n][i - 1])

\* The rumors of n that its peers have yet to accept
OnTheWay(box, n) == UNION {{box[d][n][i] : i \in DOMAIN box[d][n]} : d \in Nodes}

\* The messages of n under way: its rumors, and what its goroutines have yet to
\* broadcast or to process.  One that holds the lock is blocked on a message that
\* it has received.
UnderWay(n) ==
  LET own == {g \in Goroutines : NodeOf(g) = n}
  IN OnTheWay(inbox, n)
       \cup ({out[g] : g \in own} \ {None})
       \cup ({local[g] : g \in {h \in own : lock[n] # h}} \ {None})

\* What the promise p says is true of the acceptor n
Holds(n, p) ==
  /\ p.id <= inst[n].maxID
  /\ IF p.accID = 0
       THEN inst[n].acceptedID = 0 \/ inst[n].acceptedID >= p.id
       ELSE p.accID = inst[n].acceptedID /\ p.accVal = inst[n].acceptedValue

\* What a promise says stays true of the acceptor as long as it is in the step
\* of the promise: it accepts nothing older than the promise any more, and a
\* value it reports is still the one it holds (respondToPrepareMsg against the
\* later respondToProposeMsg of the same node).
PromisesHold ==
  \A n \in Nodes : \A p \in UnderWay(n) :
    p.type = "promise" /\ p.step = step[n] => Holds(n, p)

\* What makes the promises hold, at every interleaving of the lock, the marshalling
\* outside it and the delivery: no promise is ahead of its acceptor, and an accepted
\* value has an ID (respondToPrepareMsg, respondToProposeMsg, clearInstance).
AcceptorInv ==
  /\ PromisesHold
  /\ \A n \in Nodes : inst[n].acceptedID = 0 <=> inst[n].acceptedValue = None
  /\ \A n \in Nodes : \A p \in UnderWay(n) : p.type = "promise" => p.step <= step[n]

InFlightTLC(d, o, s) ==
  {i \in DOMAIN inbox[d][o] : inbox[d][o][i].type = "tlc" /\ inbox[d][o][i].step = s}

\* A node broadcasts at most one TLC message per step, and only once it has left
\* the step: those a node holds or has yet to accept come from as many peers
\* (ExecPaxosAcceptMessage and ExecTLCMessage both broadcast it).
TLCBacked ==
  \A d \in Nodes : \A s \in OpenSteps :
    /\ \A o \in Nodes : Cardinality(InFlightTLC(d, o, s)) <= IF step[o] > s THEN 1 ELSE 0
    /\ step[d] <= s =>
         Len(inst[d].TLCMap[s])
           + Cardinality({o \in Nodes : InFlightTLC(d, o, s) # {}})
         <= Cardinality({o \in Nodes : step[o] > s})

\* What a TLC message announces is the block that its sender has stored for that
\* step, and what a node has counted for a step, the blocks catchUp will store
\* included, are blocks that some node has stored at that place (storeBlock
\* before broadcastTLCMessage, and the broadcast of a message that was received).
TLCStored ==
  /\ \A d, o \in Nodes : \A i \in DOMAIN inbox[d][o] :
       LET m == inbox[d][o][i] IN
       m.type = "tlc" =>
         m.step + 1 \in DOMAIN blocks[o] /\ m.block = blocks[o][m.step + 1]
  /\ \A d \in Nodes : \A s \in OpenSteps : \A i \in DOMAIN inst[d].TLCMap[s] :
       \E o \in Nodes :
         s + 1 \in DOMAIN blocks[o] /\ inst[d].TLCMap[s][i] = blocks[o][s + 1]

\* When Tag has returned, without an error or because the name is taken, the
\* name resolves on that node.
TagReturnsStored ==
  \A c \in Calls : tag[c].pc \in {"done", "taken"} => names[Host[c]][NameOf[c]] # None

\* Two proposers that compete for the first step do not block each other: some
\* node ends it.
FirstStepEnds == <>(\E n \in Nodes : step[n] > 0)

\* Once a node has reached a step every node reaches it.
CatchUp ==
  \A s \in Steps : (\E n \in Nodes : step[n] >= s) ~> (\A n \in Nodes : step[n] >= s)
=============================================================================
