----------------------------- MODULE DataSharing -----------------------------
(***************************************************************************)
(* Data sharing (src/peer/impl/datasharing.go, channelsHandler.go and the  *)
(* data and search handlers of callbacks.go): Upload, Download, SearchAll, *)
(* SearchFirst with its expanding ring, and the channels through which the *)
(* listener tells a waiting call of its reply.                             *)
(*                                                                         *)
(* A file is named by its metahash, a blob is a metafile or a chunk, and a *)
(* metafile lists its chunks.  A goroutine runs each call and the listener *)
(* of a node handles one packet at a time.  A step is what a goroutine     *)
(* does between two of its accesses to state that others change.  The lock *)
(* of the searchsHandler is held across a step only by a listener that     *)
(* sends on a channel (triggerChannel).                                    *)
(***************************************************************************)
EXTENDS Naturals, Sequences, FiniteSets, SequencesExt

CONSTANTS
  Nodes, None,
  Files,        \* the files, each with its name and its metahash
  Chunks,       \* Chunks[f]: the list of the chunks of file f
  Neighbours,   \* Neighbours[n]: the neighbours of n
  Tables,       \* the routing tables that the nodes may have: [n -> [dest -> relay or None]]
  Stored,       \* Stored[n]: the blobs in n's store at the start
  Known,        \* Known[n]: the names in n's naming store at the start
  Calls,        \* the calls, each made once
  Kind,         \* "upload", "download", "all" or "first"
  Caller,       \* the node that makes a call
  Matching,     \* the files that a search looks for, or the file of the other calls
  Initial, Factor, Retry,  \* peer.ExpandingRing; SearchAll has the budget Initial
  DataRetry,    \* Backoff.Retry of the data requests
  After,        \* bound: After[c] are the calls that end before c begins
  MaxLoss       \* bound: the packets that the network loses

Blobs == Files \cup UNION {ToSet(Chunks[f]) : f \in Files}
BlobList(f) == <<f>> \o Chunks[f]

ASSUME DataSharingAssumption ==
  /\ None \notin Nodes \cup Blobs
  /\ IsFiniteSet(Nodes) /\ IsFiniteSet(Files) /\ IsFiniteSet(Calls)
  /\ \A f \in Files : Chunks[f] \in Seq(Blobs)
  /\ Neighbours \in [Nodes -> SUBSET Nodes]
  /\ Tables \subseteq [Nodes -> [Nodes -> Nodes \cup {None}]]
  /\ Stored \in [Nodes -> SUBSET Blobs] /\ Known \in [Nodes -> SUBSET Files]
  /\ Kind \in [Calls -> {"upload", "download", "all", "first"}]
  /\ Caller \in [Calls -> Nodes] /\ Matching \in [Calls -> SUBSET Files]
  /\ After \in [Calls -> SUBSET Calls]
  /\ \A c \in Calls : Kind[c] \in {"upload", "download"} => Cardinality(Matching[c]) = 1
  /\ {Initial, Factor, DataRetry, MaxLoss} \subseteq Nat /\ Retry \in Nat \ {0}

VARIABLES
  blobs,      \* the data blob store of each node
  names,      \* its naming store
  catalog,    \* its catalog: pairs of a blob and a node that has it
  routes,     \* its routing table, which does not change here
  listener,   \* its listener: what of a reply it has found out, and whether it runs
  pc,         \* where each call is
  result,     \* what it has found, None if nothing
  trials,     \* how often it has sent its request, and the budget of the last
  budget,
  channel,    \* whether its channel is in the map of its handler; for SearchAll,
              \* whether the store has an entry for its request
  remote,     \* the names in that entry
  asked,      \* the blob that a download asks for
  net,        \* the packets on their way: at is the node whose socket has it
  lost,       \* what MaxLoss counts
  handled     \* history: the requests of each round of a search that were handled

call == <<pc, result, trials, budget, channel, remote, asked>>
stores == <<blobs, names, catalog>>
vars == <<stores, routes, listener, call, net, lost, handled>>

Idle == [at |-> "idle", call |-> None, file |-> None]

Rounds == 1 .. Retry

\* The budget of a round of SearchFirst
Budget[round \in Rounds] == IF round = 1 THEN Initial ELSE Budget[round - 1] * Factor

-----------------------------------------------------------------------------
(* Sending *)

\* sendSearchReq: the budget is dealt out one by one over the shuffled neighbours, so that
\* the rest of an even share goes to some of them
Distributions(ns, b) ==
  LET share == b \div Cardinality(ns)
  IN  {d \in [ns -> {share, share + 1}] :
         Cardinality({n \in ns : d[n] = share + 1}) = b % Cardinality(ns)}

SearchRequests(c, round, n, d) ==
  {[type |-> "searchRequest", call |-> c, round |-> round, source |-> n, at |-> o,
    dest |-> o, budget |-> d[o]] : o \in {o \in DOMAIN d : d[o] > 0}}

\* sendSearchReq of a call to all the neighbours
Search(c, round, b) ==
  LET n == Caller[c] IN
  IF Neighbours[n] = {} THEN UNCHANGED net
  ELSE \E d \in Distributions(Neighbours[n], b) :
         net' = net \cup SearchRequests(c, round, n, d)

DataRequest(c, key, peer) ==
  [type |-> "dataRequest", call |-> c, key |-> key, source |-> Caller[c],
   at |-> routes[Caller[c]][peer], dest |-> peer]

-----------------------------------------------------------------------------
(* Upload *)

TheFile(c) == CHOOSE f \in Files : f \in Matching[c]

\* The positions in its list of the blobs that are not in the store
Missing(c) ==
  LET list == BlobList(TheFile(c))
  IN  {i \in 1 .. Len(list) : list[i] \notin blobs[Caller[c]]}

\* Blob b is the first of those at some positions
FirstOf(positions, c, b) ==
  \E i \in positions : b = BlobList(TheFile(c))[i] /\ \A j \in positions : i <= j

\* Upload stores one chunk after the other, and the metafile when it has them all
Upload(c) ==
  /\ Kind[c] = "upload" /\ pc[c] = "idle"
  /\ LET chunks == Missing(c) \ {1}
     IN  \/ /\ chunks = {}
            /\ blobs' = [blobs EXCEPT ![Caller[c]] = @ \cup {TheFile(c)}]
            /\ pc' = [pc EXCEPT ![c] = "done"]
         \/ /\ \E b \in Blobs : /\ FirstOf(chunks, c, b)
                                /\ blobs' = [blobs EXCEPT ![Caller[c]] = @ \cup {b}]
            /\ UNCHANGED pc
  /\ UNCHANGED <<names, catalog, routes, listener, result, trials, budget, channel, remote,
                 asked, net, lost, handled>>

-----------------------------------------------------------------------------
(* SearchAll and SearchFirst *)

Whole(f, n) == ToSet(BlobList(f)) \subseteq blobs[n]

\* localFullyKnowsFile: the names are visited in any order, up to the first whole file
\* that matches or the first name that does not match
LocalFiles(c) ==
  LET n == Caller[c]
      found == {f \in Matching[c] \cap names[n] : Whole(f, n)}
  IN  IF found = {} \/ ~(names[n] \subseteq Matching[c]) THEN found \cup {None} ELSE found

\* createChannel waits for the lock of the searchsHandler
Unlocked(n) == listener[n].at # "sending"

SearchFirst(c) ==
  /\ Kind[c] = "first" /\ pc[c] = "idle"
  /\ \E f \in LocalFiles(c) :
       \/ /\ f # None
          /\ pc' = [pc EXCEPT ![c] = "done"] /\ result' = [result EXCEPT ![c] = f]
          /\ UNCHANGED <<trials, budget, channel, net>>
       \/ /\ f = None /\ Unlocked(Caller[c])
          /\ channel' = [channel EXCEPT ![c] = TRUE]
          /\ pc' = [pc EXCEPT ![c] = "waiting"]
          /\ trials' = [trials EXCEPT ![c] = 1] /\ budget' = [budget EXCEPT ![c] = Initial]
          /\ Search(c, 1, Initial)
          /\ UNCHANGED result
  /\ UNCHANGED <<stores, routes, listener, remote, asked, lost, handled>>

\* Variant for TypeOK: the ring expands without counting the trials
ExpandsFreely(c) ==
  /\ budget' = [budget EXCEPT ![c] = @ * Factor]
  /\ trials' = [trials EXCEPT ![c] = @ + 1]
  /\ Search(c, trials[c] + 1, budget[c] * Factor)

\* The ticker of SearchFirst fires: the ring expands
Expands(c) ==
  /\ trials[c] < Retry
  /\ budget' = [budget EXCEPT ![c] = @ * Factor]
  /\ trials' = [trials EXCEPT ![c] = @ + 1]
  /\ Search(c, trials[c] + 1, budget[c] * Factor)

ExpandRing(c) ==
  /\ Kind[c] = "first" /\ pc[c] = "waiting"
  /\ Expands(c)
  /\ UNCHANGED <<stores, routes, listener, pc, result, channel, remote, asked, lost, handled>>

\* or the search stops after too many trials
StopSearch(c) ==
  /\ Kind[c] = "first" /\ pc[c] = "waiting" /\ trials[c] >= Retry
  /\ pc' = [pc EXCEPT ![c] = "leaving"]
  /\ UNCHANGED <<stores, routes, listener, result, trials, budget, channel, remote, asked,
                 net, lost, handled>>

\* The deferred deleteChannel, which waits for the lock
LeaveSearch(c) ==
  /\ pc[c] = "leaving" /\ Unlocked(Caller[c])
  /\ channel' = [channel EXCEPT ![c] = FALSE]
  /\ pc' = [pc EXCEPT ![c] = "done"]
  /\ UNCHANGED <<stores, routes, listener, result, trials, budget, remote, asked, net,
                 lost, handled>>

\* SearchAll makes the entry of the store and sends; it sleeps, reads and deletes the entry
SearchAll(c) ==
  /\ Kind[c] = "all" /\ pc[c] = "idle"
  /\ channel' = [channel EXCEPT ![c] = TRUE]
  /\ pc' = [pc EXCEPT ![c] = "waiting"]
  /\ Search(c, 1, Initial)
  /\ UNCHANGED <<stores, routes, listener, result, trials, budget, remote, asked, lost, handled>>

RetrieveFilenames(c) ==
  /\ Kind[c] = "all" /\ pc[c] = "waiting"
  /\ result' = [result EXCEPT ![c] = (names[Caller[c]] \cap Matching[c]) \cup remote[c]]
  /\ channel' = [channel EXCEPT ![c] = FALSE]
  /\ remote' = [remote EXCEPT ![c] = {}]
  /\ pc' = [pc EXCEPT ![c] = "done"]
  /\ UNCHANGED <<stores, routes, listener, trials, budget, asked, net, lost, handled>>

-----------------------------------------------------------------------------
(* Download *)

\* Download goes through the metafile and the chunks in their order and asks for each that
\* the store lacks.  Since stores only grow, that is to ask for the first that misses, and to
\* end when none does.
Complete(c) == Missing(c) = {}

Downloaded(c) ==
  /\ Kind[c] = "download" /\ pc[c] \in {"idle", "next"} /\ Complete(c)
  /\ pc' = [pc EXCEPT ![c] = "done"]
  /\ result' = [result EXCEPT ![c] = TheFile(c)]
  /\ UNCHANGED <<stores, routes, listener, trials, budget, channel, remote, asked, net,
                 lost, handled>>

\* getDataFromRemotePeer: a peer of the catalog is asked for the first blob that misses
AskPeer(c) ==
  /\ Kind[c] = "download" /\ pc[c] \in {"idle", "next"} /\ ~Complete(c)
  /\ \E key \in Blobs :
       /\ FirstOf(Missing(c), c, key)
       /\ LET peers == {o \in Nodes : <<key, o>> \in catalog[Caller[c]]}
          IN  \/ /\ peers = {} \/ \E o \in peers : routes[Caller[c]][o] = None
                 /\ pc' = [pc EXCEPT ![c] = "failed"]
                 /\ UNCHANGED <<asked, channel, trials, net>>
              \/ \E o \in peers :
                   /\ routes[Caller[c]][o] # None
                   /\ asked' = [asked EXCEPT ![c] = [key |-> key, peer |-> o]]
                   /\ channel' = [channel EXCEPT ![c] = TRUE]
                   /\ trials' = [trials EXCEPT ![c] = 1]
                   /\ net' = net \cup {DataRequest(c, key, o)}
                   /\ pc' = [pc EXCEPT ![c] = "waiting"]
  /\ UNCHANGED <<stores, routes, listener, result, budget, remote, lost, handled>>

\* The ticker fires: the request is sent again, or the download fails after too many
\* trials, its channel staying in the map
\* Variant for DownloadEnds: the trials are not counted
AskAgainForEver(c) ==
  /\ net' = net \cup {DataRequest(c, asked[c].key, asked[c].peer)}
  /\ UNCHANGED trials
AskAgain(c) ==
  /\ trials[c] <= DataRetry
  /\ trials' = [trials EXCEPT ![c] = @ + 1]
  /\ net' = net \cup {DataRequest(c, asked[c].key, asked[c].peer)}

Resend(c) ==
  /\ Kind[c] = "download" /\ pc[c] = "waiting"
  /\ AskAgain(c)
  /\ UNCHANGED <<stores, routes, listener, pc, result, budget, channel, remote, asked,
                 lost, handled>>

GiveUp(c) ==
  /\ Kind[c] = "download" /\ pc[c] = "waiting" /\ trials[c] > DataRetry
  /\ pc' = [pc EXCEPT ![c] = "failed"]
  /\ UNCHANGED <<stores, routes, listener, result, trials, budget, channel, remote, asked,
                 net, lost, handled>>

\* The channel is closed: the store has the blob, or the download fails
Answered(c) ==
  /\ Kind[c] = "download" /\ pc[c] = "waiting" /\ ~channel[c]
  /\ pc' = [pc EXCEPT ![c] = IF asked[c].key \in blobs[Caller[c]] THEN "next" ELSE "failed"]
  /\ UNCHANGED <<stores, routes, listener, result, trials, budget, channel, remote, asked,
                 net, lost, handled>>

-----------------------------------------------------------------------------
(* The listener and the handlers *)

Receives(n, type, p) ==
  p \in net /\ p.at = n /\ p.dest = n /\ p.type = type /\ listener[n] = Idle

\* A packet for another node is sent to it, whatever the routing table says
Relay(n) ==
  /\ listener[n] = Idle
  /\ \E p \in net : p.at = n /\ p.dest # n /\ net' = (net \ {p}) \cup {[p EXCEPT !.at = p.dest]}
  /\ UNCHANGED <<stores, routes, listener, call, lost, handled>>

\* ExecDataRequestMessage: the blob, or nothing, goes back by Unicast; without a route
\* that is an error, which ends the listener
ExecDataRequest(n, p) ==
  /\ Receives(n, "dataRequest", p)
  /\ IF routes[n][p.source] = None
       THEN /\ listener' = [listener EXCEPT ![n].at = "stopped"]
            /\ net' = net \ {p}
       ELSE /\ net' = (net \ {p}) \cup
                 {[type |-> "dataReply", call |-> p.call, key |-> p.key,
                   value |-> p.key \in blobs[n], at |-> routes[n][p.source],
                   dest |-> p.source]}
            /\ UNCHANGED listener
  /\ UNCHANGED <<stores, routes, call, lost, handled>>

\* Variant for AnswerHasBlob: the channel belongs to the download, not to the request
WakesAny(p) == asked[p.call] # None

\* The channel of a request has the ID of the request, which is made for one blob of one
\* download and sent again with the same ID
Wakes(p) == asked[p.call] # None /\ asked[p.call].key = p.key

\* ExecDataReplyMessage: a value is stored, and the channel of the request closed
ExecDataReply(n, p) ==
  /\ Receives(n, "dataReply", p)
  /\ net' = net \ {p}
  /\ blobs' = IF p.value THEN [blobs EXCEPT ![n] = @ \cup {p.key}] ELSE blobs
  /\ channel' = IF Wakes(p) THEN [channel EXCEPT ![p.call] = FALSE] ELSE channel
  /\ UNCHANGED <<names, catalog, routes, listener, pc, result, trials, budget, remote, asked,
                 lost, handled>>

\* Variant for BudgetKept: the budget is handed on whole
HandedOn(p) == p.budget

\* What is left of the budget of a request, for the other neighbours
LeftOver(p) == p.budget - 1

\* ExecSearchRequestMessage: the files that match and whose metafile is here, with what
\* is here of each, go back through the node that sent the request; what is left of the
\* budget goes to the neighbours but that node and the origin
ExecSearchRequest(n, p) ==
  /\ Receives(n, "searchRequest", p)
  /\ LET origin == Caller[p.call]
         files == Matching[p.call] \cap names[n] \cap blobs[n]
         have == blobs[n] \cap UNION {ToSet(BlobList(f)) : f \in files}
         reply == [type |-> "searchReply", call |-> p.call, source |-> n, at |-> p.source,
                   dest |-> origin, files |-> files, blobs |-> have]
         others == Neighbours[n] \ {p.source, origin}
     IN  IF others = {} THEN net' = (net \ {p}) \cup {reply}
         ELSE \E d \in Distributions(others, LeftOver(p)) :
                net' = (net \ {p}) \cup {reply} \cup SearchRequests(p.call, p.round, n, d)
  /\ handled' = [handled EXCEPT ![p.call][p.round] = @ + 1]
  /\ UNCHANGED <<stores, routes, listener, call, lost>>

\* Variant for CatalogTrue: the chunks that the peer lacks are entered as well
EntriesOfAll(p) == (UNION {ToSet(BlobList(f)) : f \in p.files}) \X {p.source}

\* updateStoreAndCatalog and the loop over the chunks
Entries(p) == p.blobs \X {p.source}

\* Variant for FoundIsThere: a file with missing chunks is a match
AnyFiles(p) == p.files

\* The files of a reply without a missing chunk
WholeFiles(p) == {f \in p.files : ToSet(Chunks[f]) \subseteq p.blobs}

\* ExecSearchReplyMessage: what the reply tells is entered, and SearchFirst is to be told
\* of a whole file, if it still has its channel
ExecSearchReply(n, p) ==
  /\ Receives(n, "searchReply", p)
  /\ net' = net \ {p}
  /\ names' = [names EXCEPT ![n] = @ \cup p.files]
  /\ catalog' = [catalog EXCEPT ![n] = @ \cup Entries(p)]
  /\ remote' = IF Kind[p.call] = "all" /\ channel[p.call]
               THEN [remote EXCEPT ![p.call] = @ \cup p.files] ELSE remote
  /\ IF Kind[p.call] = "first" /\ channel[p.call] /\ WholeFiles(p) # {}
       THEN \E f \in WholeFiles(p) :
              listener' = [listener EXCEPT ![n] = [at |-> "found", call |-> p.call, file |-> f]]
       ELSE UNCHANGED listener
  /\ UNCHANGED <<blobs, routes, pc, result, trials, budget, channel, asked, lost, handled>>

\* triggerChannel takes the lock and looks the channel up; it keeps the lock for its send
Trigger(n) ==
  /\ listener[n].at = "found"
  /\ listener' = [listener EXCEPT ![n] = IF channel[@.call] THEN [@ EXCEPT !.at = "sending"]
                                         ELSE Idle]
  /\ UNCHANGED <<stores, routes, call, net, lost, handled>>

\* Variant for SearchEnds: the channel stays in the map
KeepsChannel(c) == UNCHANGED channel

DeletesChannel(c) == channel' = [channel EXCEPT ![c] = FALSE]

\* SearchFirst receives, which ends the send; the channel is deleted and the lock released
Receive(n) ==
  /\ listener[n].at = "sending"
  /\ LET c == listener[n].call IN
       /\ pc[c] = "waiting"
       /\ result' = [result EXCEPT ![c] = listener[n].file]
       /\ pc' = [pc EXCEPT ![c] = "leaving"]
       /\ DeletesChannel(c)
  /\ listener' = [listener EXCEPT ![n] = Idle]
  /\ UNCHANGED <<stores, routes, trials, budget, remote, asked, net, lost, handled>>

Lose ==
  /\ lost < MaxLoss /\ lost' = lost + 1
  /\ \E p \in net : net' = net \ {p}
  /\ UNCHANGED <<stores, routes, listener, call, handled>>

-----------------------------------------------------------------------------
(* Specification *)

Init ==
  /\ blobs = Stored /\ names = Known /\ catalog = [n \in Nodes |-> {}]
  /\ routes \in Tables
  /\ listener = [n \in Nodes |-> Idle]
  /\ pc = [c \in Calls |-> "idle"]
  /\ result = [c \in Calls |-> None]
  /\ trials = [c \in Calls |-> 0] /\ budget = [c \in Calls |-> 0]
  /\ channel = [c \in Calls |-> FALSE]
  /\ remote = [c \in Calls |-> {}] /\ asked = [c \in Calls |-> None]
  /\ net = {} /\ lost = 0
  /\ handled = [c \in Calls |-> [round \in Rounds |-> 0]]

\* A step of a call after its first, which its goroutine takes when it can
Continue(c) ==
  \/ ExpandRing(c) \/ StopSearch(c) \/ LeaveSearch(c) \/ RetrieveFilenames(c)
  \/ pc[c] = "next" /\ (Downloaded(c) \/ AskPeer(c))
  \/ Resend(c) \/ GiveUp(c) \/ Answered(c)

Begin(c) ==
  /\ \A d \in After[c] : pc[d] \in {"done", "failed"}
  /\ \/ Upload(c) \/ SearchAll(c) \/ SearchFirst(c)
     \/ pc[c] = "idle" /\ (Downloaded(c) \/ AskPeer(c))

Listen(n) ==
  \/ \E p \in net : \/ ExecDataRequest(n, p) \/ ExecDataReply(n, p)
                     \/ ExecSearchRequest(n, p) \/ ExecSearchReply(n, p)
  \/ Relay(n) \/ Trigger(n) \/ Receive(n)

Next == (\E c \in Calls : Begin(c) \/ Continue(c)) \/ (\E n \in Nodes : Listen(n)) \/ Lose

Spec == Init /\ [][Next]_vars

\* The goroutine of a search or a download runs and its ticker fires, and the listener of
\* its node goes on when it is not blocked; nothing is assumed of other nodes
FairSpec ==
  /\ Spec
  /\ \A c \in Calls : Kind[c] \in {"first", "download"} => WF_vars(Continue(c))
  /\ \A n \in {Caller[c] : c \in {d \in Calls : Kind[d] = "first"}} : WF_vars(Listen(n))

-----------------------------------------------------------------------------
(* Properties *)

Packet ==
  [type : {"searchRequest"}, call : Calls, round : Rounds, source : Nodes, at : Nodes,
   dest : Nodes, budget : Nat \ {0}]
  \cup [type : {"searchReply"}, call : Calls, source : Nodes, at : Nodes, dest : Nodes,
        files : SUBSET Files, blobs : SUBSET Blobs]
  \cup [type : {"dataRequest"}, call : Calls, key : Blobs, source : Nodes, at : Nodes,
        dest : Nodes]
  \cup [type : {"dataReply"}, call : Calls, key : Blobs, value : BOOLEAN, at : Nodes,
        dest : Nodes]

\* Every packet has a node to go to, and no search request is without a budget, with which
\* the unsigned budget of its receiver would wrap around
TypeOK ==
  /\ blobs \in [Nodes -> SUBSET Blobs] /\ names \in [Nodes -> SUBSET Files]
  /\ catalog \in [Nodes -> SUBSET (Blobs \X Nodes)] /\ routes \in Tables
  /\ listener \in [Nodes -> [at : {"idle", "found", "sending", "stopped"},
                             call : Calls \cup {None}, file : Files \cup {None}]]
  /\ pc \in [Calls -> {"idle", "waiting", "leaving", "next", "done", "failed"}]
  /\ \A c \in Calls : IF Kind[c] = "all" THEN result[c] \in (SUBSET Files) \cup {None}
                      ELSE result[c] \in Files \cup {None}
  /\ \A c \in Calls : trials[c] <= IF Kind[c] = "first" THEN Retry ELSE DataRetry + 1
  /\ budget \in [Calls -> Nat] /\ channel \in [Calls -> BOOLEAN]
  /\ remote \in [Calls -> SUBSET Files]
  /\ asked \in [Calls -> [key : Blobs, peer : Nodes] \cup {None}]
  /\ net \subseteq Packet /\ lost \in 0 .. MaxLoss
  /\ handled \in [Calls -> [Rounds -> Nat]]

\* The requests of a round of a search that are under way
Requests(c, round) ==
  {p \in net : p.type = "searchRequest" /\ p.call = c /\ p.round = round}

\* The units of the budgets of some requests
Units(requests) == UNION {{p} \X (1 .. p.budget) : p \in requests}

\* No round of a search is handled by more nodes than its budget says, whichever way its
\* requests go: what is handled and what is left in the requests under way never exceeds
\* it (sendSearchReq, ExecSearchRequestMessage).
BudgetKept ==
  \A c \in Calls : \A round \in Rounds :
    handled[c][round] + Cardinality(Units(Requests(c, round))) <= Budget[round]

\* What a catalog says another node has it has, although replies are older than what the
\* stores hold now (updateStoreAndCatalog).
CatalogTrue == \A n \in Nodes : \A e \in catalog[n] : e[1] \in blobs[e[2]]

\* A file is whole at a node: at n, or at one that n's catalog names for every blob of it
Available(f, n) ==
  \E o \in Nodes :
    /\ Whole(f, o)
    /\ o = n \/ \A b \in ToSet(BlobList(f)) : <<b, o>> \in catalog[n]

\* A file that SearchFirst returns is whole at one node, which its caller can find: replies
\* come late, and of a file that several nodes have parts of.
FoundIsThere ==
  \A c \in Calls : Kind[c] = "first" /\ result[c] # None => Available(result[c], Caller[c])

\* A download whose channel is closed finds the blob that it asked for last in its store: a
\* second or late reply to an earlier request of the same download does not wake it, and a
\* peer that is asked because of an old search reply still has the blob
\* (ExecDataReplyMessage, getDataFromRemotePeer, which looks in the store afterwards).
AnswerHasBlob ==
  \A c \in Calls : Kind[c] = "download" /\ pc[c] = "waiting" /\ ~channel[c] =>
    asked[c].key \in blobs[Caller[c]]

\* SearchFirst gave up when the listener was about to send to it, with the lock held that
\* its deleteChannel waits for: neither goes on, and the node handles no more packets.
Stranded(c) ==
  /\ pc[c] = "leaving" /\ result[c] = None
  /\ listener[Caller[c]].at = "sending" /\ listener[Caller[c]].call = c

\* A search that waits ends, unless it or another search of the node is stranded: that is
\* the only way in which the channels block anybody (triggerChannel, deleteChannel).
SearchEnds ==
  \A c \in Calls : Kind[c] = "first" =>
    (pc[c] \in {"waiting", "leaving"} ~>
       pc[c] = "done" \/ \E d \in Calls : Caller[d] = Caller[c] /\ Stranded(d))

\* A download ends, also when replies are lost, when the listener of the peer that it asks
\* has stopped, and when its own listener is stranded (getDataFromRemotePeer).
DownloadEnds ==
  \A c \in Calls : Kind[c] = "download" =>
    (pc[c] \in {"waiting", "next"} ~> pc[c] \in {"done", "failed"})
===============================================================================
