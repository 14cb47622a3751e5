------------------------------- MODULE WebPage -------------------------------
(***************************************************************************)
(* The page of a node in the browser (src/gui/web/assets/scripts/main.js): *)
(* what its controllers do when a button is pressed, when an answer of the *)
(* node comes back and when the node notifies a packet.                    *)
(*                                                                         *)
(* Concurrency.  JavaScript runs one task at a time, but every method is   *)
(* cut at its awaits: while a call of one method waits for the node, any   *)
(* button may be pressed again and the answers come back in any order.  A  *)
(* step here is what runs between two awaits; the node handles a request   *)
(* at some moment between its sending and its answer.                      *)
(*                                                                         *)
(* Data.  What the node has is a version number per resource, and a view   *)
(* holds the version it shows and the call that brought it.  Texts,        *)
(* layout, scrolling and the panel of all packets are left out.            *)
(***************************************************************************)
EXTENDS Naturals, Sequences, FiniteSets

CONSTANTS
  Buttons,      \* the methods bound to a button that the user presses
  ListsItself,  \* whether the node has its own address as a peer already when the page
                \* is loaded: the values that this may have
  MaxPresses,   \* bound: the number of times that buttons are pressed
  MaxFailures,  \* bound: the number of requests or streams that fail
  MaxOthers     \* bound: the changes and chats that come from other nodes

Updates == {"routing.update", "catalog.update"}
Changes == {"addPeer", "setEntry", "add", "tag"}
Chats == {"send", "sendChat", "sendPrivate"}
Searches == {"searchAll", "searchFirst"}
Methods == Updates \cup Changes \cup Chats \cup Searches
             \cup {"upload", "download", "resolve"}

ASSUME WebPageAssumption ==
  /\ Buttons \subseteq Methods /\ ListsItself \subseteq BOOLEAN
  /\ MaxPresses \in Nat /\ MaxFailures \in Nat /\ MaxOthers \in Nat

-----------------------------------------------------------------------------
(* Data *)

\* What a request is for.  An update of the routing asks for the table and then,
\* as the same call, for the graph.  "resolveNothing" is resolve with an empty name.
Op == (Methods \ Updates)
        \cup {"socketAddr", "table", "graph", "catalog", "resolveNothing"}

Resource == {"routing", "catalog", "naming", "other"}
View == {"table", "graph", "catalog", "name", "searchAll", "searchFirst",
         "uploadResult"}

\* The resource that a request reads or changes: a search looks for names, and the
\* version of what no view compares does not change
ResourceOf(op) ==
  CASE op \in {"table", "graph", "addPeer", "setEntry"} -> "routing"
    [] op \in {"catalog", "add"} -> "catalog"
    [] op \in Searches \cup {"resolve", "tag"} -> "naming"
    [] OTHER -> "other"

\* The views that a call is still to write
ViewsOf(op) ==
  CASE op = "table" -> {"table", "graph"}
    [] op \in {"resolve", "resolveNothing"} -> {"name"}
    [] op = "upload" -> {"uploadResult"}
    [] OTHER -> {op} \cap View

MaxCalls == 3 + 2 * MaxPresses
CallID == 1 .. MaxCalls

\* A method that waits: for its file, for the node to handle its request, or for
\* the answer, which carries the version that the node had
Call == [id : CallID, op : Op, at : {"reading", "sent", "answered"}, got : Nat]

\* A chat, by the call that sent it, or 0 and "other" for one of another node.  It is
\* shown by the page, or because the node handled it: once when it was sent or received,
\* and once more ("echo") when the node had sent it to itself.
Chat == [id : 0 .. MaxCalls, op : Chats \cup {"other"}, by : {"node", "echo"}]
Message == [id : 0 .. MaxCalls, op : Chats \cup {"other"},
            by : {"page", "node", "echo"}, class : {"sent", "received"}]

VARIABLES
  node,        \* the version that the node has of each resource
  ownPeer,     \* whether the node has its own address among its neighbours
  echo,        \* the chats that the node has sent to itself and not yet handled
  calls,       \* the calls that wait
  view,        \* what each view shows: a version (0: nothing, or "searching...")
               \* and the call that wrote it
  address,     \* whether peerInfo.socketAddr is the address of the node
  open,        \* whether the event stream of the packets is connected
  stream,      \* the chats on their way in it
  messages,    \* the chat messages that the page shows
  flash,       \* how many success and error messages are on display
  presses, failures, others,   \* what the bounds count
  made,        \* the number of calls so far
  acked,       \* history: per resource, the newest version whose change the page
               \* knows to have succeeded
  best,        \* history: the newest version that each view has shown
  last,        \* history: the last call that is to write each view
  overlapped,  \* history: the views whose last call began while another waited
  failed       \* history: the views for which a call failed since the last began

page == <<view, address, messages, flash>>
ours == <<ownPeer, echo>>
counters == <<presses, failures, others>>
history == <<made, acked, best, last, overlapped, failed>>
vars == <<node, ours, calls, open, stream, page, counters, history>>

-----------------------------------------------------------------------------
(* BaseElement and Flash *)

PrintSuccess == flash' = [flash EXCEPT !.success = @ + 1]
PrintError == flash' = [flash EXCEPT !.error = @ + 1]

\* The node may leave a request of these without an answer for ever: a tag waits for a
\* consensus, a search for its timer, which a late reply can strand, and these, a download
\* and a chat send packets without a limit on the time that it takes.
Waits == {"tag", "download"} \cup Searches \cup Chats
Unanswered(c) == c.op \in Waits /\ c.at = "sent"

\* Variant for PageSettles: only the messages of a success have a timer
SuccessEnds ==
  /\ \A c \in calls : Unanswered(c)
  /\ flash.success > 0 /\ flash' = [flash EXCEPT !.success = @ - 1]
  /\ UNCHANGED <<node, ours, calls, open, stream, view, address, messages, counters, history>>

\* A flash message is removed by its timer, or before by its close button.  Nothing
\* reads what is on display, so that it makes no difference when: as a bound on the
\* interleavings, it happens while no call waits that is sure to be answered.
FlashEnds ==
  /\ \A c \in calls : Unanswered(c)
  /\ \E class \in {"success", "error"} :
       flash[class] > 0 /\ flash' = [flash EXCEPT ![class] = @ - 1]
  /\ UNCHANGED <<node, ours, calls, open, stream, view, address, messages, counters, history>>

\* A method with operation op begins, the calls rest being those that wait
Begin(rest, op, at) ==
  /\ made' = made + 1
  /\ calls' = rest \cup {[id |-> made + 1, op |-> op, at |-> at, got |-> 0]}
  /\ last' = [v \in View |-> IF v \in ViewsOf(op) THEN made + 1 ELSE last[v]]
  /\ overlapped' = (overlapped \ ViewsOf(op)) \cup
       {v \in ViewsOf(op) : \E d \in rest : v \in ViewsOf(d.op)}
  /\ failed' = failed \ ViewsOf(op)

\* Call c ends, and no other begins
End(c) ==
  /\ calls' = calls \ {c}
  /\ UNCHANGED <<made, last, overlapped, failed>>

\* Variant for GraphNotOlder: the graph that was there before is not cleared
ShowOverGraph(v, c) ==
  /\ view' = IF v = "graph" /\ view[v].from # 0 THEN view
             ELSE [view EXCEPT ![v] = [from |-> c.id, version |-> c.got]]
  /\ best' = [best EXCEPT ![v] = IF c.got > @ THEN c.got ELSE @]

Show(v, c) ==
  /\ view' = [view EXCEPT ![v] = [from |-> c.id, version |-> c.got]]
  /\ best' = [best EXCEPT ![v] = IF c.got > @ THEN c.got ELSE @]

Press(b) ==
  /\ b \in Buttons /\ presses < MaxPresses
  /\ presses' = presses + 1
  /\ UNCHANGED <<node, ours, address, open, stream, messages, failures, others,
                 acked, best>>

\* Variant for NothingSilent: checkInputs only returns false
CheckFailsSilently(b) ==
  /\ Press(b)
  /\ UNCHANGED <<flash, calls, view, made, last, overlapped, failed>>

\* checkInputs finds an empty input: an error, and the method returns
CheckFails(b) ==
  /\ Press(b)
  /\ PrintError
  /\ UNCHANGED <<calls, view, made, last, overlapped, failed>>

-----------------------------------------------------------------------------
(* The controllers: what a press does up to the request, and what its answer does *)

\* A press whose request is sent at once
Request(b, op) ==
  /\ Press(b)
  /\ Begin(calls, op, "sent")
  /\ UNCHANGED <<view, flash>>

Answered(c, ops) == c \in calls /\ c.op \in ops /\ c.at = "answered"

\* What the answer of a call never touches
Unchanged == UNCHANGED <<node, ours, open, stream, counters>>

\* PeerInfo.initialize
SocketAddress(c) ==
  /\ Answered(c, {"socketAddr"})
  /\ address' = TRUE
  /\ End(c)
  /\ Unchanged /\ UNCHANGED <<view, messages, flash, acked, best>>

\* Messaging.addMsg
AddMsg(m) == messages' = Append(messages, m)

\* Unicast.send: the page adds the message itself
PressSend(b) == b = "send" /\ (CheckFails(b) \/ Request(b, b))
Sent(c) ==
  /\ Answered(c, {"send"})
  /\ AddMsg([id |-> c.id, op |-> c.op, by |-> "page", class |-> "sent"])
  /\ End(c)
  /\ Unchanged /\ UNCHANGED <<view, address, flash, acked, best>>

\* Broadcast.sendChat and sendPrivate: the message comes back as a packet
PressBroadcast(b) ==
  /\ b \in {"sendChat", "sendPrivate"}
  /\ CheckFails(b) \/ Request(b, b)
\* Variant for OwnChatCopies: the message is added as send does
BroadcastedShown(c) ==
  /\ Answered(c, {"sendChat", "sendPrivate"})
  /\ AddMsg([id |-> c.id, op |-> c.op, by |-> "page", class |-> "sent"])
  /\ PrintSuccess
  /\ End(c)
  /\ Unchanged /\ UNCHANGED <<view, address, acked, best>>
Broadcasted(c) ==
  /\ Answered(c, {"sendChat", "sendPrivate"})
  /\ PrintSuccess
  /\ End(c)
  /\ Unchanged /\ UNCHANGED <<view, address, messages, acked, best>>

\* Routing.update: the answer with the table is shown and the graph requested
PressRoutingUpdate(b) == b = "routing.update" /\ Request(b, "table")
\* Variant for TypeOK: the call for the table goes on beside that for the graph
AndGraph(c) ==
  /\ calls' = calls \cup {[c EXCEPT !.op = "graph", !.at = "sent", !.got = 0]}
  /\ UNCHANGED <<made, last, overlapped>>
ThenGraph(c) ==
  /\ calls' = (calls \ {c}) \cup {[c EXCEPT !.op = "graph", !.at = "sent", !.got = 0]}
  /\ UNCHANGED <<made, last, overlapped>>
TableShown(c) ==
  /\ Answered(c, {"table"})
  /\ Show("table", c)
  /\ PrintSuccess
  /\ ThenGraph(c)
  /\ Unchanged /\ UNCHANGED <<address, messages, acked, failed>>
GraphShown(c) ==
  /\ Answered(c, {"graph"})
  /\ Show("graph", c)
  /\ End(c)
  /\ Unchanged /\ UNCHANGED <<address, messages, flash, acked>>

\* Routing.addPeer and setEntry: a change that succeeds is followed by an update
PressRoutingChange(b) ==
  b \in {"addPeer", "setEntry"} /\ (CheckFails(b) \/ Request(b, b))
Acknowledge(c) ==
  acked' = [acked EXCEPT ![ResourceOf(c.op)] = IF c.got > @ THEN c.got ELSE @]
\* Variant for AckedChangeSeen: no update after the change
RoutingChangedOnly(c) ==
  /\ Answered(c, {"addPeer", "setEntry"})
  /\ PrintSuccess
  /\ Acknowledge(c)
  /\ End(c)
  /\ Unchanged /\ UNCHANGED <<view, address, messages, best>>
RoutingChanged(c) ==
  /\ Answered(c, {"addPeer", "setEntry"})
  /\ PrintSuccess
  /\ Acknowledge(c)
  /\ Begin(calls \ {c}, "table", "sent")
  /\ Unchanged /\ UNCHANGED <<view, address, messages, best>>

\* Catalog.update and add
PressCatalogUpdate(b) == b = "catalog.update" /\ Request(b, "catalog")
\* Variant for LastAnswerShown: an empty catalog returns before the old one is cleared
CatalogKept(c) ==
  /\ Answered(c, {"catalog"})
  /\ Show("catalog", c) \/ UNCHANGED <<view, best>>
  /\ PrintSuccess
  /\ End(c)
  /\ Unchanged /\ UNCHANGED <<address, messages, acked>>
CatalogShown(c) ==
  /\ Answered(c, {"catalog"})
  /\ Show("catalog", c)
  /\ PrintSuccess
  /\ End(c)
  /\ Unchanged /\ UNCHANGED <<address, messages, acked>>
PressAdd(b) == b = "add" /\ (CheckFails(b) \/ Request(b, b))
EntryAdded(c) ==
  /\ Answered(c, {"add"})
  /\ Acknowledge(c)
  /\ Begin(calls \ {c}, "catalog", "sent")
  /\ Unchanged /\ UNCHANGED <<view, address, messages, flash, best>>

\* DataSharing.upload: the file is read, and its load event makes the request; a
\* progress event may come before.  Nothing listens to the error event.
PressUpload(b) ==
  /\ b = "upload"
  /\ \/ CheckFails(b)
     \/ Press(b) /\ Begin(calls, b, "reading") /\ UNCHANGED <<view, flash>>
FileLoaded(c) ==
  /\ c \in calls /\ c.at = "reading"
  /\ calls' = (calls \ {c}) \cup {[c EXCEPT !.at = "sent"]}
  /\ PrintSuccess \/ UNCHANGED flash
  /\ UNCHANGED <<node, ours, open, stream, view, address, messages, counters, history>>
FileUnreadable(c) ==
  /\ c \in calls /\ c.at = "reading"
  /\ failures < MaxFailures /\ failures' = failures + 1
  /\ calls' = calls \ {c}
  /\ failed' = failed \cup ViewsOf(c.op)
  /\ UNCHANGED <<node, ours, open, stream, page, presses, others,
                 made, acked, best, last, overlapped>>
Uploaded(c) ==
  /\ Answered(c, {"upload"})
  /\ Show("uploadResult", c)
  /\ PrintSuccess
  /\ End(c)
  /\ Unchanged /\ UNCHANGED <<address, messages, acked>>

\* DataSharing.download
PressDownload(b) == b = "download" /\ (CheckFails(b) \/ Request(b, b))
Downloaded(c) ==
  /\ Answered(c, {"download"})
  /\ PrintSuccess
  /\ End(c)
  /\ Unchanged /\ UNCHANGED <<view, address, messages, acked, best>>

\* Search.searchAll and searchFirst: "searching..." takes the place of the result
\* before the request is sent
\* Variant for SearchingMeansRunning: the inputs are checked after that
PressSearchUnchecked(b) ==
  /\ b \in Searches
  /\ Press(b)
  /\ view' = [view EXCEPT ![b] = [from |-> made + 1, version |-> 0]]
  /\ \/ PrintError /\ UNCHANGED <<calls, made, last, overlapped, failed>>
     \/ Begin(calls, b, "sent") /\ UNCHANGED flash
PressSearch(b) ==
  /\ b \in Searches
  /\ \/ CheckFails(b)
     \/ /\ Press(b)
        /\ view' = [view EXCEPT ![b] = [from |-> made + 1, version |-> 0]]
        /\ Begin(calls, b, "sent")
        /\ UNCHANGED flash
SearchDone(c) ==
  /\ Answered(c, Searches)
  /\ Show(c.op, c)
  /\ flash' = [flash EXCEPT !.success = @ + IF c.op = "searchFirst" THEN 2 ELSE 1]
  /\ End(c)
  /\ Unchanged /\ UNCHANGED <<address, messages, acked>>

\* Naming.resolve: an empty name is an error and is sent all the same
PressResolve(b) ==
  /\ b = "resolve"
  /\ \/ Request(b, "resolve")
     \/ Press(b) /\ PrintError /\ Begin(calls, "resolveNothing", "sent") /\ UNCHANGED view
Resolved(c) ==
  /\ Answered(c, {"resolve"})
  /\ Show("name", c)
  /\ PrintSuccess
  /\ End(c)
  /\ Unchanged /\ UNCHANGED <<address, messages, acked>>

\* Naming.tag
PressTag(b) == b = "tag" /\ (CheckFails(b) \/ Request(b, b))
Tagged(c) ==
  /\ Answered(c, {"tag"})
  /\ PrintSuccess
  /\ End(c)
  /\ Unchanged /\ UNCHANGED <<view, address, messages, acked, best>>

\* The fetch of a call fails, or its status is not 200: every method prints the error, and
\* an update of the routing goes on to the graph.  PeerInfo.initialize does not look at the
\* status: it takes the text of an error for the address, and says nothing.
FetchFails(c) ==
  /\ c \in calls /\ c.at \in {"sent", "answered"}
  /\ \/ c.op = "resolveNothing" /\ UNCHANGED failures
     \/ failures < MaxFailures /\ failures' = failures + 1
  /\ PrintError \/ (c.op = "socketAddr" /\ UNCHANGED flash)
  /\ IF c.op = "table"
       THEN ThenGraph(c) /\ failed' = failed \cup {"table"}
       ELSE /\ calls' = calls \ {c}
            /\ failed' = failed \cup ViewsOf(c.op)
            /\ UNCHANGED <<made, last, overlapped>>
  /\ UNCHANGED <<node, ours, open, stream, view, address, messages, presses, others,
                 acked, best>>

-----------------------------------------------------------------------------
(* Packets and the node *)

\* The browser connects the EventSource, and again when its connection broke
\* Variant for OwnClassSettles: the page is initialised again, the address not yet known
StreamOpensAfresh ==
  /\ ~open /\ open' = TRUE
  /\ address' = FALSE
  /\ UNCHANGED <<node, ours, calls, stream, view, messages, flash, counters, history>>
StreamOpens ==
  /\ ~open /\ open' = TRUE
  /\ UNCHANGED <<node, ours, calls, stream, page, counters, history>>

\* Packets.packetError: what was on its way is lost
PacketError ==
  /\ failures < MaxFailures /\ failures' = failures + 1
  /\ open' = FALSE /\ stream' = <<>>
  /\ PrintError
  /\ UNCHANGED <<node, ours, calls, view, address, messages, presses, others, history>>

\* Packets.packetMessage, for a chat: its class is "sent" if its source is the address
\* that peerInfo has
PacketMessage ==
  /\ stream # <<>>
  /\ LET pkt == Head(stream)
         own == pkt.id # 0
     IN  AddMsg([id |-> pkt.id, op |-> pkt.op, by |-> pkt.by,
                 class |-> IF own /\ address THEN "sent" ELSE "received"])
  /\ stream' = Tail(stream)
  /\ UNCHANGED <<node, ours, calls, open, view, address, flash, counters, history>>

\* pktNotifyGet sends a chat that the node processes to a page that listens
Notify(chat) == stream' = IF open THEN Append(stream, chat) ELSE stream

\* The node handles a request.  A change makes a new version.  A broadcast is a chat that
\* it processes; so is a unicast or private message if it is among the destinations.  A
\* node that has itself as a neighbour may send the rumor of a broadcast to itself, at
\* most once; addPeer takes any address.
Serve(c) ==
  /\ c \in calls /\ c.at = "sent" /\ c.op # "resolveNothing"
  /\ LET r == ResourceOf(c.op)
         now == IF c.op \in Changes THEN [node EXCEPT ![r] = @ + 1] ELSE node
     IN  /\ node' = now
         /\ calls' = (calls \ {c}) \cup {[c EXCEPT !.at = "answered", !.got = now[r]]}
  /\ \/ /\ c.op \in Chats /\ Notify([id |-> c.id, op |-> c.op, by |-> "node"])
        /\ \/ UNCHANGED echo
           \/ /\ ownPeer /\ c.op # "send"
              /\ echo' = echo \cup {[id |-> c.id, op |-> c.op, by |-> "echo"]}
     \/ c.op # "sendChat" /\ UNCHANGED <<stream, echo>>
  /\ \/ UNCHANGED ownPeer
     \/ c.op = "addPeer" /\ ownPeer' = TRUE
  /\ UNCHANGED <<open, page, counters, history>>

\* The node receives its own rumor: its source is its destination, and it is processed
\* again, whatever the node has of this origin
EchoHandled ==
  /\ \E chat \in echo : Notify(chat) /\ echo' = echo \ {chat}
  /\ UNCHANGED <<node, ownPeer, calls, open, page, counters, history>>

\* A rumor, a data reply or a tag of another node changes what this one has
OtherChange ==
  /\ others < MaxOthers /\ others' = others + 1
  /\ \E r \in Resource \ {"other"} : node' = [node EXCEPT ![r] = @ + 1]
  /\ UNCHANGED <<calls, ours, open, stream, page, presses, failures, history>>

OtherChat ==
  /\ others < MaxOthers /\ others' = others + 1
  /\ Notify([id |-> 0, op |-> "other", by |-> "node"])
  /\ UNCHANGED <<node, ours, calls, open, page, presses, failures, history>>

-----------------------------------------------------------------------------
(* Specification *)

\* The page after main: the controllers are initialised in the order of node.html, so
\* that the address, the routing table and the catalog are requested, in this order.  A
\* page before this one may have added the own address to the peers (ListsItself).
Init ==
  /\ node = [r \in Resource |-> 1]
  /\ ownPeer \in ListsItself /\ echo = {}
  /\ calls = {[id |-> 1, op |-> "socketAddr", at |-> "sent", got |-> 0],
              [id |-> 2, op |-> "table", at |-> "sent", got |-> 0],
              [id |-> 3, op |-> "catalog", at |-> "sent", got |-> 0]}
  /\ view = [v \in View |-> [from |-> 0, version |-> 0]]
  /\ address = FALSE
  /\ open = FALSE /\ stream = <<>>
  /\ messages = <<>>
  /\ flash = [success |-> 0, error |-> 0]
  /\ presses = 0 /\ failures = 0 /\ others = 0
  /\ made = 3
  /\ acked = [r \in Resource |-> 0]
  /\ best = [v \in View |-> 0]
  /\ last = [v \in View |-> CASE v \in {"table", "graph"} -> 2
                              [] v = "catalog" -> 3
                              [] OTHER -> 0]
  /\ overlapped = {} /\ failed = {}

PressButton(b) ==
  \/ PressSend(b) \/ PressBroadcast(b) \/ PressRoutingUpdate(b) \/ PressRoutingChange(b)
  \/ PressCatalogUpdate(b) \/ PressAdd(b) \/ PressUpload(b) \/ PressDownload(b)
  \/ PressSearch(b) \/ PressResolve(b) \/ PressTag(b)

\* What a method does when its fetch returns
Continue(c) ==
  \/ SocketAddress(c) \/ Sent(c) \/ Broadcasted(c) \/ TableShown(c) \/ GraphShown(c)
  \/ RoutingChanged(c) \/ CatalogShown(c) \/ EntryAdded(c) \/ Uploaded(c)
  \/ Downloaded(c) \/ SearchDone(c) \/ Resolved(c) \/ Tagged(c)

Next ==
  \/ \E b \in Buttons : PressButton(b)
  \/ \E c \in calls : Continue(c) \/ FileLoaded(c) \/ FileUnreadable(c) \/ FetchFails(c)
                        \/ Serve(c)
  \/ FlashEnds \/ StreamOpens \/ PacketError \/ PacketMessage
  \/ EchoHandled \/ OtherChange \/ OtherChat

Spec == Init /\ [][Next]_vars

\* The node handles the requests that only concern itself; it refuses that without a name.
\* Of the others (Waits) it may handle any or none.  Answers arrive, files are read, timers
\* fire.
Progress ==
  \E c \in calls :
    \/ c.op \notin Waits /\ Serve(c)
    \/ Continue(c) \/ FileLoaded(c)
    \/ c.op = "resolveNothing" /\ FetchFails(c)

FairSpec == Spec /\ WF_vars(Progress) /\ WF_vars(FlashEnds)

-----------------------------------------------------------------------------
(* Properties *)

\* Calls have distinct numbers, and every view shows what the node has had
TypeOK ==
  /\ node \in [Resource -> Nat \ {0}]
  /\ ownPeer \in BOOLEAN /\ echo \subseteq Chat
  /\ calls \subseteq Call /\ \A c, d \in calls : c.id = d.id => c = d
  /\ view \in [View -> [from : 0 .. made, version : Nat]]
  /\ address \in BOOLEAN /\ open \in BOOLEAN
  /\ stream \in Seq(Chat) /\ messages \in Seq(Message)
  /\ flash \in [{"success", "error"} -> Nat]
  /\ presses \in 0 .. MaxPresses /\ failures \in 0 .. MaxFailures /\ others \in 0 .. MaxOthers
  /\ made \in CallID
  /\ acked \in [Resource -> Nat] /\ best \in [View -> Nat] /\ last \in [View -> 0 .. made]
  /\ overlapped \subseteq View /\ failed \subseteq View

Waiting(v) == \E c \in calls : v \in ViewsOf(c.op)

\* A change that addPeer, setEntry or add has been told to be done has been shown, or
\* an update is under way that the node is still to handle or has answered with it,
\* or such an update failed (main.js:326, 365, 591).
AckedChangeSeen ==
  \A v \in {"table", "graph", "catalog"} :
    LET version == acked[ResourceOf(v)] IN
    \/ best[v] >= version
    \/ v \in failed
    \/ \E c \in calls : v \in ViewsOf(c.op) /\ (c.op # v \/ c.at = "sent" \/ c.got >= version)

\* A view that no call is to write shows what the last call for it brought, unless
\* that call began while another waited (the late answer of the older one may have
\* come last) or failed.
LastAnswerShown ==
  \A v \in View \ (overlapped \cup failed) : Waiting(v) \/ view[v].from = last[v]

\* The graph of the routing is not older than the table above it, although two requests
\* bring them: an update asks for the graph after it has the table.
GraphNotOlder ==
  {"table", "graph"} \cap (overlapped \cup failed) = {} /\ ~Waiting("graph") =>
    view["graph"].version >= view["table"].version

\* "searching..." stands only while a search runs, or after one that failed (the catch
\* of searchAll and searchFirst leaves it).
SearchingMeansRunning ==
  \A v \in Searches :
    view[v].from # 0 /\ view[v].version = 0 => Waiting(v) \/ v \in failed

\* Two messages that show the same chat of the user are either those of a unicast to the
\* own node, by send and as a packet (main.js:246, 404), or the two packets of a broadcast
\* that a node with its own address among its peers has sent to itself
\* (nodeRT.go:34, callbacks.go:51); there are never three, nor two for another reason.
OwnChatCopies ==
  \A i, j \in 1 .. Len(messages) :
    messages[i].id # 0 /\ messages[i].id = messages[j].id /\ i # j =>
      \/ messages[i].op = "send" /\ {messages[i].by, messages[j].by} = {"page", "node"}
      \/ /\ messages[i].op # "send" /\ ownPeer
         /\ {messages[i].by, messages[j].by} = {"node", "echo"}

\* A packet of this node that packetMessage takes for a received one came before those
\* that it takes for sent: the address is unknown at first, and never again.
OwnClassSettles ==
  \A i, j \in 1 .. Len(messages) :
    messages[i].id # 0 /\ messages[i].by # "page" /\ messages[i].class = "received"
      /\ messages[j].by # "page" /\ messages[j].class = "sent" => i < j

\* No press and no end of a call is silent: it flashes, adds a message or begins a call.
\* The exceptions are a file that cannot be read, the address, and the graph.
Noticed ==
  LET ended == {c \in calls : \A d \in calls' : d.id # c.id}
      silent == {c \in calls : c.at = "reading" \/ c.op \in {"socketAddr", "graph"}}
  IN  (presses' # presses \/ ~(ended \subseteq silent)) =>
        \/ flash'.success > flash.success \/ flash'.error > flash.error
        \/ Len(messages') > Len(messages)
        \/ made' > made
NothingSilent == [][Noticed]_vars

\* When the user leaves the buttons alone, every call ends and every flash message goes,
\* except calls that the node does not answer: fetch has no timeout (main.js:74, 130).
PageSettles ==
  <>[](flash = [success |-> 0, error |-> 0] /\ \A c \in calls : Unanswered(c))
===============================================================================
