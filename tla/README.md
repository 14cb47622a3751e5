# Minotor: verification of the peer and its web page

Minotor extends Peerster, a peer-to-peer node in Go (`src/peer/impl`): gossip,
file sharing and a blockchain of names, with a page in the browser (`src/gui`)
that drives a node. The specifications here model the parts whose correctness
depends on interleavings. They are translated from the source; paths below are
relative to `src/`.

## 1. The system

| Component | State it keeps | Operations | Hard behaviour | Correct when |
|---|---|---|---|---|
| Consensus (`peer/impl/paxosHandler.go`, Paxos handlers of `callbacks.go`, `Tag` and its phases in `datasharing.go`) | step, Paxos instance, channels of the phases, blockchain and naming stores | `Tag`; prepare, promise, propose, accept, TLC | listener and callers share one lock and broadcast outside it; ballots compete; retries race late answers; a send is made with the lock held | every node stores the same chain; promises are kept; a `Tag` that returns has stored its name; nobody is left behind or locked |
| Gossip (`rumorsHandler.go`, `messaging.go`, `mechanisms.go`, rumor, ack and status handlers) | sequence number and rumors per origin, ack channels | `Broadcast`, rumors, ack, status, anti-entropy, heartbeat | loss, reordering, duplicates, timeouts of acks | rumors of an origin are accepted in order, once, and reach every node |
| Routing (`nodeRT.go`, `Unicast`, relay in `service.go`) | table, neighbours | `AddPeer`, `SetRoutingEntry`, `updateRT` | table updated by every rumor; relaying without a time to live | a route leads to its destination |
| Data sharing (`datasharing.go`, `channelsHandler.go`, `catalog.go`, `store.go`) | blob and naming stores, catalog, a channel per request | `Upload`, `Download`, `SearchAll`, `SearchFirst`; data and search handlers | replies race timeouts; a send on an unbuffered channel with a lock held; budgets | a download returns the data of its hash; no reply blocks the listener |
| Lifecycle (`service.go`, `peerster.go`) | run flag, stop channel, wait group | `Start`, `Stop`, listener | stop races handlers and ack waits | `Stop` returns and no goroutine is left |
| Registry (`registry/standard`) | handlers, notifications | `ProcessPacket`, `RegisterMessageCallback` | handler in its own goroutine; lock on error path | every packet is handled once |
| Transports (`transport/channel`, `udp`, `proxy`) | a queue per socket | `Send`, `Recv` | bounded queue, send without limit | no two listeners wait on each other |
| Storage (`storage/inmemory`, `file`) | maps or files | `Get`, `Set`, `ForEach` | failures are silent, no atomic group of writes | a restart finds a chain |
| Social layer (`peer/impl/user.go`), concurrent structures (`datastructures`) | set of followed users | `Follow` | stubs so far | - |
| Web page, controllers (`gui/web/assets/scripts/main.js`, `node.html`, `gui/httpnode/controller`) | what each view shows, the messages, the own address, the event stream | a method per button, the answers, the packets of the stream | methods are cut at their awaits: answers come late, in any order or not at all | a view shows what its last call brought; nothing the user does is silent; no chat is shown more often than it was sent or handled |
| Web page, Stimulus (`stimulus.js`) | elements, tokens, reference counts, scopes, modules, contexts | mutation records; `register`, `unload`, `start`, `stop` | records are processed after the scripts that made them, against the document as it is then | the controllers connected are those that the document asks for |
| Graph library (`viz.js`, `viz.lite.render.js`), testing, performance and traffic tools (`internal`, `peer/performance`, `polypus`) | none of the protocol | - | - | - |

How they interact. Every peer has one listener (`listeningRoutine`), which
takes a packet from its socket and runs the handler of its type through the
registry. `Broadcast` makes a rumor, sends it to a random neighbour and then
runs its handler on the broadcasting goroutine itself. A rumor carries a
message; a private message is a rumor that only its recipients process. `Tag`
runs on its caller's goroutine, broadcasts prepares and proposals and waits on
channels which the listener fills (`respondToPromiseMsg`, `clearInstance`).
The listener and the callers of `Tag` share the paxosHandler under its lock.
In the same way the calls of data sharing run on their callers' goroutines and
wait on the channels of a channelsHandler, which the listener triggers or closes.
The page calls the node over HTTP, one request per method, and receives every
packet that the node has processed as an event; Stimulus connects its
controllers to the elements that the document has.

`PROJECT.json` lists the components with what is left out of each, and the
hazards of the code, each at its line, with the property that covers it.

## 2. The modules

| Module | Content |
|---|---|
| `PaxosTLC` | the consensus component, with the gossip layer as its channel |
| `MCPaxos` | the instances that TLC checks |
| `Gossip` | the gossip layer and the routing table as rumors update it |
| `OrderedBroadcast` | what the gossip layer promises: per receiver and origin, a queue |
| `MCGossip` | the instances of `Gossip` |
| `DataSharing`, `MCDataSharing` | upload, download, the two searches and their handlers |
| `WebPage`, `MCWebPage` | the controllers of the page against a node that answers |
| `Stimulus`, `MCStimulus` | the observers, the router and the modules that connect the controllers |
| `PaxosTLCProofs` | `TypeCorrect`: the type invariant, proved |
| `AcceptorProofs` | `AcceptorCorrect`, `PromisesKept`: promises are kept, proved |
| `GossipProofs` | `RumorsCorrect`, `RoutesCorrect`, `OwnOnceCorrect`, `ChannelImplemented`: rumors are kept and handled in order and once, proved |
| `TLCProofs` | `TLCAlwaysBacked`, `TLCAlwaysStored`, `LinkedWhereAgreed`: TLC messages and the chains they build, proved |
| `AgreementProofs` | where nobody retries: `PromisesCorrect`, promises are counted once; with two proposers `ChainsAgree`, `ChainsLinked`, the chains agree; proved |
| `DataSharingProofs` | `CatalogCorrect`, `FoundCorrect`, `SharingTypeCorrect`, `AnswersHaveBlobs`, `BudgetCorrect`: what a search tells is true, a download that is woken has its blob and no budget is exceeded, proved |
| `WebPageProofs` | one theorem for each safety property of `WebPage`, `NothingIsSilent` among them, proved |
| `StimulusProofs` | `ChainCorrect`, `ConnectCorrect`, `StimulusTypeCorrect`, `SyncCorrect`: observers, router and modules agree with each other and with the document, proved |

### PaxosTLC

*State.* `step`, `inst`, `finalValue` are the fields of the paxosHandler of
each node (`inst` those that `clearInstance` resets); `promiseChan[n][s]` and
`valueChan[n][s]` are the channels it makes when it enters step `s` (a
goroutine may still hold that of an earlier step); `blocks` and `names` are
the blockchain and naming stores; `tag[c]` is the program counter and the
local variables of the call `c` of `Tag`. A block's hash commits to its index,
its value and the hash before it; the model represents it by the sequence of
what it commits to, so that two hashes are equal when their histories are.

*Actions.* One per handler (`ExecPaxosPrepare`, `ExecPaxosPropose`,
`ExecPaxosPromise`, `ExecPaxosAccept`, `ExecTLC`) and one per step of `Tag`
and its two phases. `EndStep` is what a step's end does in one section:
`storeBlock`, the increment, `catchUp` and `clearInstance`.

*Grain.* An action is one section under the lock of the paxosHandler. What a
section answers is put in `out[g]`; `Broadcast(g)` marshals it, gives it to the
inboxes and leaves it in `local[g]` for its own goroutine to process. Three
things happen between a section and its broadcast in the code, and so in the
model: other goroutines of the node may have their sections and broadcast
first; the promise's pointer to the accepted value is read (`Marshalled`); the
proposer looks up the channel of its phase (`getPromiseChannel`,
`getValueChannel`), which may be that of a later step. `PromiseSent` is the
second half of a send that blocked with the lock held. Two details are merged:
the reads of the step and of the naming store in one iteration of `Tag`'s loop,
and the own processing of a TLC message, which its sender ignores because it
has left the step.

*Network.* `inbox[d][o]` is the queue of the rumors of `o` that `d` has yet to
accept. This is what the gossip layer gives to the handlers: `processRumors`
takes a rumor only if it is the next of its origin, and the status exchange
resends what is missing. The queues of different origins are independent, so
messages of different nodes overtake each other freely, and a delay is a queue
that is not served. `Gossip` is checked, and proved, to implement such queues.

### Gossip and OrderedBroadcast

*State.* `sequenceMap`, `rumors`, `neighbours`, `routes` are the maps of the
rumorsHandler and of the nodeRT, `acks` the IDs with a channel in the
acksHandler, `waiting` the goroutines in `waitAck`, `loop` the packet the listener
is in, `local` the broadcasts whose own processing is yet to come. `processed`
is a history: the rumors whose handler a node has run, in order. `net` is a
set of packets.

*Actions.* `Broadcast` up to its first send; `ProcessLocally`;
`CreateAckChannel` and `AckTimeout` of `waitAck`; `ExecRumors`, `ProcessRumor`
(one round of the loop of `processRumors`, which releases the lock between
rumors) and `EndRumors` (ack and relay); `ExecStatus` and `ExecAck`, whose
answers `Answers` describes, the continued mongering a choice; `AntiEntropy`,
`Lose`. A status and its answer are one step: what a broadcast in between would
change is only how old the numbers are that the answer carries, and packets
are delayed at will anyway.

*Abstraction.* `OrderedBroadcast` has, per receiver and origin, the count of what
was sent and the list of what was accepted. `Channel` maps `sent[o]` to the
origin's own sequence number and `accepted[d][o]` to `processed[d][o]`; the own
handling of a broadcast is outside it (`OwnOnce` is about that).

### DataSharing

*State.* `blobs` and `names` are the two stores of a node, `catalog` the pairs
of a blob and a node that has it. Per call: the program counter, the result, the
trials, the budget, whether its channel is in the map of its channelsHandler (for
`SearchAll`: whether the store has an entry for it) and the blob it asks for.
`listener[n]` is idle, has found a file for a call, holds the lock of the
searchsHandler while it sends (`triggerChannel`), or has stopped after an error.
`handled` is a history of the search requests handled per round.

*Actions.* `Upload` stores a chunk, or the metafile when no chunk is left;
`AskPeer`, `Resend`, `GiveUp`, `Answered`, `Downloaded` are the loop of `Download`
and `getDataFromRemotePeer`; `SearchFirst`, `ExpandRing`, `StopSearch`,
`LeaveSearch` (the deferred `deleteChannel`, which waits for the lock) and
`Receive` are those of `SearchFirst`; `SearchAll` and `RetrieveFilenames` its two
halves. The handlers are one action each, except that of a search reply, which
looks the channel up (`ExecSearchReply`) before it takes the lock (`Trigger`).
`Relay` passes a packet on to its destination. A data request from a node without
a route back is an error, and ends the listener.

*Abstraction.* The hash of a blob is the blob: a file is its metahash with its
name. A request's random ID is its call and the blob it asks for, so that the
sendings of one request are one packet in the set `net`: that a second answer comes
after the first is kept, two equal packets at once are one. Reading the naming
store in map order is a choice in `LocalFiles`.

### WebPage

*State.* `node` is a version number per resource of the node, `view` the version
each view shows with the call that wrote it; `calls` are the methods that wait for
a file, for the node to handle their request, or for its answer; `stream` the
chats under way in the event stream. `ownPeer` says whether the node has its own
address among its neighbours, `echo` holds the broadcasts that it has sent to itself. `acked`, `best`, `last`, `overlapped` and
`failed` are histories.

*Actions.* One per button (`PressSend`, `PressSearch`, ...) up to the method's
first await, and one per continuation (`TableShown`, `RoutingChanged`,
`SearchDone`, ...); `FetchFails` is the catch of the method. `Serve` is the node
handling a request at some moment between its sending and its answer.
The button `addPeer` takes any address, the own one too, and `nodeRT` keeps it: from
then on a broadcast may go to the node itself, which handles it once when it is made
(`Serve`) and once more when it comes back (`EchoHandled`).
`PacketMessage`, `StreamOpens` and `PacketError` are the listeners of the stream.
An update of the routing is one call with two requests: `table`, then `graph`.

### Stimulus

*State.* `parent` and `attr` are the document: the tree and the controller tokens
of each element. `records` are the mutation records not yet processed, `transient`
the nodes that were removed and are still observed. `elements`, `tokens`, `refs`,
`scopes`, `modules`, `contexts`, `connected` are the fields of the observers, the
router and the modules. `lives` and `missed` are histories.

*Actions.* Scripts change the document (`SetAttribute`, `InsertNode`,
`RemoveNode`) and call `register`, `unload`, `start` and `stop`; the microtask
`Deliver`s the records and processes one per step. What one record does goes down
the chain from the ElementObserver to the contexts in one step: `Replace` or
`RefreshTokens`, then `Rematch`, `Route`, `ConnectContexts`. JavaScript lets nothing
come between. The chain looks at the document as it is and not as it was when the
record was made; that is the point of the model.

*Assumption.* The methods `connect` and `disconnect` of a controller run during the
microtask, in the middle of the chain (`stimulus.js:1794-1807`). They are assumed
not to change the document and not to register or unload anything. The controllers
of `main.js` have no such methods, and in their `initialize`, which runs there as well,
they send requests, open the event stream and write the address of the node as a text,
which changes no element with a controller.

### Bounds

In `DataSharing`, `MaxLoss` bounds the packets lost and `After` the overlap of the
calls: the search for all names waits for the two others, which run at the same
time with the upload. Two rounds of the ring and one resend are enough for a second
reply to meet a channel that has gone, and a reply to come when the call has left.

In `WebPage`, `MaxPresses` bounds the presses of a button, or of any, `MaxFailures`
the requests and streams that fail, `MaxOthers` what other nodes do.
`ListsItself` says whether the node may have its own address as a peer from the start
(both in `web_page`); in `web_overlap` no button makes it so.
`FlashEnds` happens only while no call waits that is sure to be answered; nothing reads
the messages on display, so that it makes no difference when they go. With one
press of each kind all methods happen; with two the answers of two calls may cross.

In `Stimulus`, scripts run while at most `MaxRecords` = 3 records are pending:
enough for a node to be removed, put back and changed before the first of the
records is processed.

In `Gossip`, `MaxSequence` bounds the broadcasts of a node and `MaxLoss` the
packets lost. `Capacity` bounds the packets on the way: what is sent into a full
network is lost, so that the bound adds behaviours of a lossy network and
hides only those that need more than two packets at once. `MaxTraffic` lets the
ticker of the anti-entropy fire only in a quiet network. Two packets are
enough for one to overtake the other and for an old status to meet a newer
rumor; the second broadcast of one origin is what order is about.

`MaxSteps` closes the model: a node that reaches it takes no more rumors, and
no proposer starts a phase there. `MaxID` bounds the ballots, and with them the
number of times the tickers fire (`MayRetry`). `Serial` is a bound on the
interleavings, not on the protocol: for the peers of that set a section and its
broadcast are one step. `Serial = {}` is the code's grain. It is used wherever
TLC finishes with it (`two_nodes`, and the runs that look for a violation where
it is the counterexample's cause); with three peers the exact grain exceeds
five million states, and `three_nodes` and `three_steps` make all peers serial.
The theorems have no such bound: they hold for every `Serial`, the empty set
included.

## 3. What TLC checks

| Run | Instance | Properties |
|---|---|---|
| `two_nodes` | 2 peers, threshold 2, both propose, 2 steps, no retry, exact grain | `TypeOK`, `Agreement`, `ChainLinked`, `FirstStepEnds`, `CatchUp` |
| `retry` | 2 peers, both propose, 2 steps, IDs up to 3 (p1 retries once), p2 serial | `TagReturnsStored`, `PromisesHold` |
| `three_nodes` | 3 peers, threshold 2, p1 and p2 propose, 1 step | `Agreement`, `AcceptorInv` |
| `three_steps` | 3 peers, threshold 2, both calls on p1, 2 steps | `TLCBacked`, `TLCStored`, `ChainLinked` |
| `gossip_order` | 3 nodes in a line, two broadcasts of one end, 1 loss, 2 packets on the way | `TypeOK`, `RumorsComplete`, `OwnOnce`, `ImplementsChannel` |
| `gossip_delivery` | 3 nodes in a ring, the origin with two neighbours, one broadcast, 1 loss | `NeighboursDirect`, `Delivered` |
| `data_sharing` | 3 nodes in a line, an upload, both searches and a download, 1 loss, a node with or without a route back | `TypeOK`, `BudgetKept`, `CatalogTrue`, `FoundIsThere`, `AnswerHasBlob`, `SearchEnds`, `DownloadEnds` |
| `web_page` | every button, one press, one failure, one event of another node, a node that is its own peer or not | `TypeOK`, `OwnChatCopies`, `NothingSilent`, `PageSettles` |
| `web_overlap` | two presses of the buttons whose calls meet, one failure | `AckedChangeSeen`, `LastAnswerShown`, `GraphNotOlder`, `SearchingMeansRunning`, `OwnClassSettles` |
| `stimulus` | 2 elements, one perhaps in the other, 2 identifiers, a list with a duplicate | `TypeOK`, `InSync`, `ChainAgrees`, `ConnectAlternates`, `SyncAgain` |

The smallest instances in which the interesting cases happen: with two
proposers a prepare overtakes a proposal; with three peers and threshold 2 a
peer may miss a ballot, promise late, or end its step through the TLC messages
of the others; with two steps messages of a step reach a node that is ahead or
behind, and the second call waits for the instance of the first; with a retry
promises and accepts of two ballots of one proposer meet.

*Fairness* (`FairSpec`, used by `two_nodes`): weak fairness of each goroutine's
handling, of a blocked send, of each call's steps and of each call's ticker. A
goroutine that is ready to run is run; a ticker that is due fires; gossip
delivers a rumor that stays at the head of its queue (acks and anti-entropy
resend it). Fairness of the ticker does not say when it fires, so every race of
a timeout with an answer remains. In `two_nodes` no ID is left for a retry:
`FirstStepEnds` and `CatchUp` say that two competing proposers need none.

`Gossip`'s `FairSpec` assumes that every node goes on (weak fairness of its
listener, of `waitAck` and of its own handling together) and that the
anti-entropy picks each other node again and again whenever it can (strong
fairness: the ticker fires for ever and the neighbours are shuffled). Nothing is
assumed of the acks, of the continued mongering or of the network beyond
`MaxLoss` and the room it has.

`DataSharing`'s `FairSpec`: the goroutine of a search or a download runs and its
ticker fires, and the listener of a node that searches goes on when it can. Of
the other nodes and the network nothing is assumed: calls end by their tickers.
`SearchEnds` names its one exception, `Stranded`: `SearchFirst` gives up when the
listener has just taken the lock to send to it; both wait for ever, and the node
handles no more packets (`channelsHandler.go:74`). TLC reaches this state, and the
property says that it is the only way in which a search does not end; a download
of that node ends all the same.

`WebPage`'s `FairSpec`: the node handles the requests that only concern itself (its
tables, its catalog, its stores, adding peers, an upload); of those in `Waits` it may
handle any or none: a tag waits for a consensus, a search may be `Stranded`, and a
download or a chat sends packets without a limit on the time that it takes
(`transport/channel/mod.go:104`). Answers arrive, files are read, the timers of the
messages fire. `PageSettles` excepts the calls that are never answered and nothing
else: every other call ends, and every message goes, beside any number of those.
`Stimulus`'s: the browser runs the microtask, and the microtask its loop.

What the properties of the page exclude is what the code does not do: a view
whose calls overlapped may show the older answer (`overlapped` in
`LastAnswerShown`), the "searching..." of a failed search stays (`failed`), a file
that cannot be read gives no message, a unicast to oneself is shown twice, by `send`
and as a packet, and so is, as two packets, a broadcast of a node that is its own
peer; and a chat that comes before the own address is known is classed as received. The elements in `missed` are those whose attribute
changed while Stimulus was stopped: `start` keeps the tokens it had.

Two runs exhibit behaviour that a comment or a test of the repository excludes:

| Run | Violated | What happens |
|---|---|---|
| `retry_agreement` | `Agreement` | the promises of p1's first ballot fill its promise channel (`paxosHandler.go:277`), but the ticker is chosen and p1 prepares ID 3 (`datasharing.go:164-181`); p2's value is accepted by both in ballot 2; p1 then reads the value that is still in the channel and proposes it with ID 3, with no promise of that ballot counted. Both accept it too, the accepts of both values reach the threshold, and the two peers store different blocks |
| `lost_tag` | `TagReturnsStored` | the accepted value is cleared between the promise and its marshalling; the proposer takes the zero value and `Tag` returns nil (`paxosHandler.go:203`, `datasharing.go:140`) |

More observations, which no run repeats:

* A node that is given its own address as a peer keeps it among its neighbours
  (`nodeRT.go:34-41`; the comments say that this has no effect, `peer/messaging.go:31`,
  or that only an address "different from node address" is added,
  `peer/impl/messaging.go:68`; `Test_HW0_Messaging_AddPeer` only looks at the table). It
  sends broadcasts to itself and handles them twice (`callbacks.go:51`).
* Ending a step makes a new `TLCMap`, so that TLC messages of later steps are lost
  (`paxosHandler.go:99`).
* A second `Tag` of a name that waits for the first does not look at the store again,
  and renames it (`datasharing.go:103-123`).
* An ack deletes the channel of its own ID, so that the wait of the acknowledged packet
  goes on and the rumor goes to every neighbour (`callbacks.go:167`).
* With a retry the node can lock itself (`paxosHandler.go:277`). The promises of the
  first ballot put a value into the promise channel; the ticker is chosen instead, the
  new prepare resets the phase, and the promises of the second ballot send again, to a
  full channel, with the lock held. If it is the proposer's own goroutine that handles
  the last of them, within its `Broadcast`, nobody is left to receive. In the constants
  of `retry_agreement` TLC reaches this after 22 steps. Without a retry there is
  one threshold of promises in a step, and the channel has room for it
  (`PromisesCorrect`).
* With three calls of `Tag`, two of them on one node, the chains differ without any
  retry: two peers, threshold 2, two steps, every section with its broadcast; TLC finds
  it in 51 states. The first call of p1 has received its value, but not yet proposed it,
  when p2's value ends the step. The second call of p1 prepares in the next step, with
  the same ID, and is promised; now the first call proposes: the step and the ID are
  those of now (`createProposeMessage`), the value that of the step before. The second
  call proposes its own with the same step and ID, the acceptors accept both, and each
  peer stores the one whose accepts it counts first.
* With three proposers on three peers the chains differ without any retry (TLC finds it
  by simulation), because an acceptor keeps the first value that it accepted, with its
  ID, when it accepts that of a higher ID (`paxosHandler.go:234`), and the third
  proposer may take the first value although the second was decided.

So `Agreement` holds in the checked instances without a retry and with two calls,
and `TagReturnsStored` where the peer that answers is serial: the runs
say where the border lies. Without a retry `Agreement` is also proved, for any
number of nodes and steps (section 4), for two competing proposers.
`TLCStored` matters for the loop of `catchUp`, which stores
the blocks of further steps from TLC messages that were counted before. In two
steps the loop has nothing to do: senders announce their steps in order, so that a
threshold for the step to come is never there before that of the current one. From
three steps on it is, because the end of a step forgets the messages counted for
the next: a node may then hold a threshold for step 2 while it lacks one for step
1. Three steps of three peers exceed the time of a run; that the blocks stored in
this way are those of other peers at that place, and leave the chain linked while
the peers agree, is proved for every number of steps (`TLCAlwaysStored`,
`LinkedWhereAgreed`).

## 4. What is proved

TLAPS checks, for every value of the constants that satisfies the named
assumptions of `PaxosTLC` (`PopulationAssumption`, `ConfigAssumption`,
`ValueAssumption`):

* `TypeCorrect`: `Spec => []TypeOK`. `TypeOK` is inductive with one conjunct
  beyond the ranges: a call in phase 2 has a value, without which the proposal
  would not be a message. One lemma per action; the lemmas on `Sends`,
  `Answers`, `Marshalled` and the stores are shared.
* `AcceptorCorrect`: `Spec => []AcceptorInv`, and its corollary `PromisesKept`:
  `Spec => []PromisesHold`. `PromisesHold` is not inductive: nothing in it
  excludes a promise of a step its acceptor has yet to reach, or an acceptor
  with a value and no ID. `AcceptorInv` adds both. The argument is in two
  halves. What an acceptor knows only advances: within a step its promise rises
  and its value is written once, at the promise of that moment; the end of a
  step clears both and raises the step (`Advances`, and `KeptAdvances`: a
  promise that holds survives an advance). And what a node has under way is
  what it had, or what its last action answered (the lemmas on `UnderWay`).
  Marshalling late is harmless to promises of the current step, because the
  value read then is the value pointed to at the promise.
* `TLCAlwaysBacked`, `TLCAlwaysStored` and `LinkedWhereAgreed`:
  `Spec => []TLCBacked`, `Spec => []TLCStored` and
  `Spec => [](Agreement => ChainLinked)`, all from `TLCInv` (`TLCCorrect`).
  `TLCBacked` compares two counts and is not inductive: it does not say where the
  message is that a node has yet to announce. `TLCInv` follows a TLC message through
  its places, held by the goroutine that ended the step (`HeldInv`), in an inbox
  (`FlightInv`), counted (`CountInv`), and never handled by its own sender
  (`LocalInv`). Every action is then one of five kinds: it moves no TLC message
  (`Quiet`) or no variable of theirs at all, `Announces` one, `Counts` one or `Ends` a
  step; one lemma per kind shows the invariant, one per action which kind it is. The
  second half, `StoreInv`, says that a message announces what its sender has stored,
  that what was counted somebody stored, and that each block is `Joined` to a block
  that some node has at the place before. Agreement makes that node's block the own
  one, so that the chain is linked. The hypothesis is needed: with retries peers may
  disagree (`retry_agreement`), and a peer that then takes over the block of another
  has a chain with a wrong hash in it. The population is assumed finite, for
  the messages of a step are counted.
* `PromisesCorrect`: under `NoRetry` (no proposer has an ID left for a retry,
  `FirstID[n] + TotalPeers > MaxID`) and `Majority` (two thresholds are more than the
  nodes, as `conf.PaxosThreshold` computes by default), `Spec => []PromisesInv`, for
  any number of calls, several on one node included. `respondToPromiseMsg` looks
  neither at the sender of a promise nor at its ID, so it has to be shown that a
  proposer counts at most one promise of each voter in a step: it has one under way at most (`PromiseTraffic`),
  whose sender it has not counted (`PromiseCount`), and a voter that has promised
  does not promise the same ID again. The voters counted are nowhere in the program:
  the invariant asks for each step that some assignment `Q` of voters to proposers,
  and some set `F` of those that have filled their channel, exist. The messages of a
  node to a node are followed through `out`, `inbox` and `local` (`Going`, `One`), and
  every step of the program is shown to be of one of eleven kinds (`StepKinds`). It is
  what `ChainsAgree` rests on.
* `ChainsAgree` and `ChainsLinked`: under `NoRetry`, `Majority` and `TwoProposers` (at
  most two calls, on nodes with different IDs), `Spec => []Agreement` and
  `Spec => []ChainLinked`. The constants of `two_nodes` and `three_nodes` satisfy the
  three; the population, the number of steps and the interleaving are free. Without
  the first `Agreement` is false (`retry_agreement`). The third is what the code's
  promises bear: an acceptor keeps the first value it accepted and its ID when it
  accepts another (`paxosHandler.go:234`), and a proposer ranks the promises by their
  own IDs (`paxosHandler.go:268`), so that with a third ID the value reported need not
  be the one that was decided, and `Agreement` is false; so it is with two calls of
  one node, which propose with the same ID, and a third elsewhere (section 3). `AgreeInv` says that for each step some votes exist that are in accord with
  the state (`Voting`): the value each call proposed, `P`; the nodes that accepted it,
  `A`; the accepts each node counted, `G`; the nodes that prepared, `R`; and the `F` and
  `Q` of `PromisesInv`. The messages under way carry what the votes say (`Ballots`); a
  proposer proposes only what is `Safe`, that is, no other value of a lower ID has a
  threshold or can still get one, for the nodes that promised it are `Blocked`
  (`ProposerAt`, `BestAt`); acceptors (`AcceptorAt`), counts (`CountedAt`) and stored
  blocks (`DecidedAt`) have their votes. Two things of this code that Paxos does not
  have need their own parts: a promise marshalled after its step, which reads the
  accepted value of the next (`LateAt`), and a proposal that has the step of now with
  the value of a step that is over (`StaleHeld`, `StaleQueued`): it comes before its
  proposer's prepare of that step, so nobody accepts it. From the invariant, two
  thresholds meet in a node (`ThresholdsMeet`), a step has one decided value
  (`OneDecided`), and chains with the same values are the same, for a block commits to
  those before it (`ValuesMakeChains`: the least place at which two differ).
  `AcceptorInv` and `TLCInv` are used in every step.

From `GossipAssumption`:

* `GossipTypeCorrect`, `RumorsCorrect` and `RoutesCorrect`: `Spec => []TypeOK`,
  `Spec => []RumorsComplete` and `Spec => []NeighboursDirect`. The first two
  follow from `RumorInv` (`RumorsTrue`), which adds where rumors come from: a rumor
  on the way, in the loop of the listener, in a goroutine of `waitAck` or yet to be
  handled was broadcast by its origin (`Told`), and nobody is ahead of an origin
  (`Behind`). Without that, a node could take a rumor of its own for a new one.
* `OwnOnceCorrect` and `ChannelImplemented`: `Spec => []OwnOnce` and
  `Spec => ImplementsChannel`, under the hypothesis `NoOwnPeer`, that no node was
  given itself as a peer, which `AddPeer` leaves to its caller; with
  `Peers[n] = {n}` a broadcast of `n` is sent to `n`, and `OwnOnce` fails. Then no packet comes back to its sender (`Apart`), for
  no node takes a rumor of its own as new and so becomes its own neighbour. `Effect`
  says what a step does to the sequence numbers and to what was handled;
  `HandledKeeps` shows that these lists stay in order and without repetition, and
  `EffectImplements` that a step is one of `OrderedBroadcast` or nothing to it.

From `DataSharingAssumption`:

* `CatalogCorrect` and `FoundCorrect`: `Spec => []CatalogTrue` and
  `Spec => []FoundIsThere`. Both follow from `SearchInv` (`SearchTrue`). Nothing takes a
  blob from a store or an entry from a catalog (`Grows`), so that what a reply says
  of its sender when it is made is true when it arrives, however late. The
  invariant follows this from the reply into the catalog, from there to the
  listener that has found a file, and on to the call that receives it. A step that
  only loses packets or changes a call adds nothing to be true (`NothingNew`).

* `SharingTypeCorrect` and `AnswersHaveBlobs`: `Spec => []TypeOK` and
  `Spec => []AnswerHasBlob`, the first from `SharingInv` (`SharingCorrect`). A step of a call changes
  the state of that call alone (`StepOf`), and one lemma (`StepTyped`) shows that it
  keeps the types; the types include that a download waits only for a peer it has asked over a
  route and that no request is made with a budget of zero, which the shares that
  a node hands on must exclude. The second needs two facts of the packets under way and
  of the calls (`AnswerInv`): a request that a download has sent goes to a peer that has
  the blob, and a reply carries it, so that a reply to the request whose
  channel it closes stores the blob that is waited for, while one to an earlier request of the
  call closes nothing. That the peer asked still has the blob rests on `SearchInv`: with
  `UpdateCatalog`, which is not modelled, a catalog may hold a false entry.
* `BudgetCorrect`: `Spec => []BudgetKept`, from `BudgetInv`. The requests of a round are
  counted by their `Units`, the pairs of a request and a number up to its budget, so that
  sums are cardinalities: the units of a union, a part or a set without one request
  (`UnitsUnion`, `UnitsSubset`, `UnitsWithout`). `DealtOut` is the lemma on the shares: as
  many units as the budget that is distributed, which needs that the remainder is the
  number of the shares that get one more. The invariant adds that a round that has not
  begun has no requests; `BudgetOfRound` is the one induction, over the rounds.

From `WebPageAssumption`:

* A theorem for each safety property of the page, from `WebInv` (`WebCorrect`). A
  step is one of fourteen kinds, told by what it does to the calls, the views and the
  messages (`Kind`, `StepKinds`): a method is begun, refused or cut, its request served, its
  view written, and so on. Each part of the invariant is shown kind by kind. The
  parts that the properties lack: every call was begun by a press or by the change it
  follows (the count in `CallsInv`, which bounds the numbers that `TypeOK` names); no
  view, answer or acknowledgement is newer than the node (`VersionsInv`); a view whose
  calls never overlapped has one call at most, its last (`LastInv`); a graph on its way
  is not older than the table (`GraphInv`); and where a chat can be, as a call, in the
  stream, among those on their way back to the node and among the messages, at most
  once of each kind (`OnceInv`). `NothingIsSilent` is an action property: it
  follows from the invariant action by action.

From `StimulusAssumption`:

* `ChainCorrect` and `ConnectCorrect`: `Spec => []ChainAgrees` and
  `Spec => []ConnectAlternates`, from `ChainInv` (`ChainTrue`). One lemma carries the
  argument, `RematchKeeps`: the tokens that go are the end of the list stored, so
  that a count never falls below what is left (`OccurrencesConcat`); a scope is left
  only when its count falls to zero and joined only when it rises from there.
  `ReplaceKeeps` and `RefreshKeeps` show that `Replace` and `RefreshTokens` keep to
  its hypothesis, `ModuleKeeps` that a module's contexts are disconnected before they
  are forgotten. The invariant adds to the two properties the types, that a record is
  there when one is processed, and that contexts belong to registered modules,
  without which `Unload` and `Register` could disconnect what is not connected.
* `StimulusTypeCorrect` and `SyncCorrect`: `Spec => []TypeOK` and `Spec => []InSync`,
  from `SyncInv` (`SyncTrue`). `InSync` speaks of the moments at which no record is
  pending; between them every difference between the document and the observers
  must have a record that will settle it, and settle it against the document as it
  will be then. That is `Pending`: an element to be added has a record that adds it or
  its ancestor (`ToAdd`), one whose attribute differs has a record of that
  (`ToRefresh`), one that has left has a removal, or is observed until the delivery
  because an ancestor of it is `transient` (`ToRemove`); and a removal that is pending
  for an element of the document is followed by the addition that put it back
  (`PutBack`), for `ProcessRemovedNode` does not look whether the element is still
  out. While the microtask runs, the document does not change: that `connect` and
  `disconnect` keep to this is the assumption of section 2. `Ancestors` is the least
  set of nodes that is closed under `parent`, so that the lemmas on it (`Above`, of two
  states) need no induction over the height of the tree.

Only model-checked:

* `TagReturnsStored` is false of the specification in general (`lost_tag`): it holds in
  the instances that the runs name. `Agreement` and `ChainLinked` are false with a
  retry, and proved for two proposers where there is none; with a retry `ChainLinked` is
  proved from `Agreement` (`LinkedWhereAgreed`).
* The liveness properties `FirstStepEnds`, `CatchUp`, `Delivered`, `SearchEnds`,
  `DownloadEnds`, `PageSettles` and `SyncAgain`: fairness and ENABLED are out of the
  provers' reach.

No module uses a RECURSIVE operator. The library's induction theorems take an operator as a
parameter, which the provers do not instantiate; where a recursive function is proved about
(`Budget`) the proof takes the least number for which the fact fails (`LeastNumber`).

## 5. What is not modelled

In the consensus component: the exits of `Tag` on `stopChannel`, `Tag` of a lone
peer (a `Get` and a `Set`), errors of marshalling and of the socket, messages
that no peer sends (the unit tests inject some), and a crash. In the gossip
component: handlers that return an error, which stops the rest of a batch and
the listener; `AckTimeout` 0, with which `waitAck` never resends; `AddPeer` and
`SetRoutingEntry` after the start; a node that is given itself as a peer
(`Gossip` allows it in `Peers`, no run does it; `WebPage` has what it does to chats); `Unicast` and the relay of packets
for others, which `DataSharing` has; two origins at a time, which with losses exceed the time of
a run. In data sharing: `Resolve`, `GetCatalog` and `UpdateCatalog` (a read and a
write), chunks that are empty or repeated, an empty upload, a catalog that names
the node itself, and the stop. Of the page: the panel of all packets, the
collapsible sections, the handlers that no button calls; of Stimulus: the
bindings of actions to events, the targets, values and classes of a controller, and
scripts that change the document within `connect` and `disconnect`;
all of the graph library, a compiled renderer, and of the settings of the linter.

Not modelled at all: the lifecycle, whose stop meets every goroutine of the other
modules; the registry (the dispatch to a handler is in every `Exec` action, its
notifications are the `stream` of `WebPage`); the transports, which are sockets, HTTP
and one bounded channel; the stores, which are maps and files; the social layer and
the structures it uses, stubs so far; the tools. `PROJECT.json` has the reason for
each.

## 6. Plan

Done: `PaxosTLC` with its four proof modules, `Gossip` with `OrderedBroadcast`,
`DataSharing`, `WebPage` and `Stimulus` with one proof module each. What would come next:

1. `Lifecycle`: `Start`, `Stop`, the listener, `waitAck`, the mechanisms, the
   registry with its notifications, the stop exits of `Tag` and of the searches.
   Property: `Stop` returns, and nobody is left waiting.
2. `Bindings`: the actions of Stimulus bound to event listeners, on top of the
   contexts of `Stimulus`.
3. Proofs: `TagReturnsStored` where every node that answers is serial and nobody
   retries, on top of `AgreeInv`.
4. In `Gossip`, two origins at a time.
