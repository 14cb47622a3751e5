---------------------------- MODULE WebPageProofs ----------------------------
(***************************************************************************)
(* The page of a node, for every choice of its buttons and every number of *)
(* presses, failures and changes of other nodes: what its views show       *)
(* (AckedChangeSeen, LastAnswerShown, GraphNotOlder, SearchingMeansRunning), *)
(* how often and as what it shows a chat (OwnChatCopies, OwnClassSettles), *)
(* and that it reports every press and every answer (NothingSilent).       *)
(*                                                                         *)
(* For the views, a step is one of fourteen kinds (StepKinds): what it     *)
(* does to the calls that wait, to the views and to the messages.  Each    *)
(* invariant is shown kind by kind.                                        *)
(***************************************************************************)
EXTENDS WebPage, FiniteSetTheorems, SequenceTheorems, TLAPS

-----------------------------------------------------------------------------
(* The inductive invariant *)

\* The changes of the own node that are followed by an update
Followed == {"addPeer", "setEntry", "add"}
WaitingChanges == {c \in calls : c.op \in Followed}

\* Calls have distinct numbers; every call is one of the first three, was begun by a
\* press, or by the answer of a change that a press began
CallsInv ==
  /\ made \in Nat \ {0} /\ presses \in Nat
  /\ IsFiniteSet(calls)
  /\ calls \subseteq [id : 1 .. made, op : Op, at : {"reading", "sent", "answered"}, got : Nat]
  /\ \A c, d \in calls : c.id = d.id => c = d
  /\ made + Cardinality(WaitingChanges) <= 3 + 2 * presses

\* The types of what is beside the calls
CountersInv ==
  /\ flash \in [{"success", "error"} -> Nat]
  /\ presses \in 0 .. MaxPresses /\ failures \in 0 .. MaxFailures /\ others \in 0 .. MaxOthers
  /\ open \in BOOLEAN

ViewsInv ==
  /\ node \in [Resource -> Nat \ {0}]
  /\ view \in [View -> [from : 0 .. made, version : Nat]]
  /\ acked \in [Resource -> Nat] /\ best \in [View -> Nat] /\ last \in [View -> 0 .. made]
  /\ overlapped \subseteq View /\ failed \subseteq View

\* The chats that calls up to number k can be of, and their messages
ChatUpTo(k) == [id : 0 .. k, op : Chats \cup {"other"}, by : {"node", "echo"}]
MessageUpTo(k) == [id : 0 .. k, op : Chats \cup {"other"},
                   by : {"page", "node", "echo"}, class : {"sent", "received"}]

ChatsInv ==
  /\ address \in BOOLEAN /\ ownPeer \in BOOLEAN
  /\ echo \subseteq ChatUpTo(made)
  /\ stream \in Seq(ChatUpTo(made))
  /\ messages \in Seq(MessageUpTo(made))

\* The answer of a call is not newer than what the node has, and not empty
Current(c) ==
  /\ c.got <= node[ResourceOf(c.op)]
  /\ c.at = "answered" => c.got > 0

\* No version is newer than what the node has
VersionsInv ==
  /\ \A c \in calls : Current(c)
  /\ \A r \in Resource : acked[r] <= node[r]
  /\ view["table"].version <= node["routing"]

\* The calls that are to write a view are its last one, if that met no other
LastInv ==
  \A v \in View \ overlapped : \A c \in calls : v \in ViewsOf(c.op) => c.id = last[v]

\* The graph on its way is not older than the table
GraphInv ==
  {"table", "graph"} \cap (overlapped \cup failed) = {} =>
    \A c \in calls : c.op = "graph" /\ c.at = "answered" => c.got >= view["table"].version

\* A chat that the page adds was sent by unicast, one that the node sent to itself was not,
\* and then the node has its own address as a peer
Fits(x) ==
  /\ x.by = "page" => x.op = "send"
  /\ x.by = "echo" => x.op # "send" /\ ownPeer

\* Two copies of the same chat come by different ways
Differ(x, y) == x.id = y.id /\ x.id # 0 => x.op = y.op /\ x.by # y.by

\* If the call of a chat still waits, then for its answer to be handled
Answers(x) == \A c \in calls : c.id = x.id => c.at = "answered" /\ c.op = x.op

\* What is true of the chats in the messages, in the stream and on their way to it
OnceInv ==
  /\ \A i \in 1 .. Len(messages) :
       /\ Fits(messages[i]) /\ Answers(messages[i])
       /\ messages[i].by = "page" => \A c \in calls : c.id # messages[i].id
  /\ \A i \in 1 .. Len(stream) : Fits(stream[i]) /\ Answers(stream[i])
  /\ \A e \in echo : Fits(e) /\ Answers(e) /\ e.id # 0 /\ e.by = "echo"
  /\ \A i, j \in 1 .. Len(messages) : i # j => Differ(messages[i], messages[j])
  /\ \A i, j \in 1 .. Len(stream) : i # j => Differ(stream[i], stream[j])
  /\ \A e, f \in echo : e # f => Differ(e, f)
  /\ \A i \in 1 .. Len(stream) : \A j \in 1 .. Len(messages) : Differ(stream[i], messages[j])
  /\ \A e \in echo : \A j \in 1 .. Len(messages) : Differ(e, messages[j])
  /\ \A e \in echo : \A i \in 1 .. Len(stream) : Differ(e, stream[i])

\* A packet was taken for a sent one only once the address was known
ClassInv ==
  /\ ~address => \A i \in 1 .. Len(messages) :
                   ~(messages[i].by # "page" /\ messages[i].class = "sent")
  /\ OwnClassSettles

WebInv ==
  /\ CallsInv /\ CountersInv /\ ViewsInv /\ ChatsInv /\ VersionsInv
  /\ LastInv /\ LastAnswerShown /\ GraphInv /\ GraphNotOlder /\ AckedChangeSeen
  /\ SearchingMeansRunning /\ OnceInv /\ ClassInv

-----------------------------------------------------------------------------
(* The kinds of steps *)

\* What a step on the views leaves alone
talk == <<ours, address, stream, messages>>

\* Nothing but a flash message, a counter or the connection changes
Aside ==
  /\ UNCHANGED <<calls, made, last, overlapped, failed, presses>>
  /\ UNCHANGED <<node, view, acked, best>> /\ UNCHANGED talk

\* A press that begins no call
Refused ==
  /\ presses' = presses + 1
  /\ UNCHANGED <<calls, made, last, overlapped, failed>>
  /\ UNCHANGED <<node, view, acked, best>> /\ UNCHANGED talk

\* A press that begins a call
Begun(op, at) ==
  /\ at = "reading" => op = "upload"
  /\ presses' = presses + 1
  /\ Begin(calls, op, at)
  /\ IF op \in Searches THEN view' = [view EXCEPT ![op] = [from |-> made + 1, version |-> 0]]
     ELSE UNCHANGED view
  /\ UNCHANGED <<node, acked, best>> /\ UNCHANGED talk

\* A change has succeeded, and its update is requested
Done(c) ==
  /\ c.op \in Followed /\ c.at = "answered"
  /\ Acknowledge(c)
  /\ Begin(calls \ {c}, IF c.op = "add" THEN "catalog" ELSE "table", "sent")
  /\ UNCHANGED <<node, view, best, presses>> /\ UNCHANGED talk

\* A call ends that writes no view; that of a unicast adds its message
Closed(c) ==
  /\ c.at = "answered" /\ ViewsOf(c.op) = {}
  /\ End(c)
  /\ UNCHANGED <<node, view, acked, best, presses>>
  /\ UNCHANGED <<ours, stream>> /\ address' \in {address, TRUE}
  /\ IF c.op = "send"
       THEN AddMsg([id |-> c.id, op |-> c.op, by |-> "page", class |-> "sent"])
       ELSE UNCHANGED messages

\* A call writes its only view and ends
Written(c, v) ==
  /\ c.at = "answered" /\ ViewsOf(c.op) = {v} /\ v # "table"
  /\ Show(v, c)
  /\ End(c)
  /\ UNCHANGED <<node, acked, presses>> /\ UNCHANGED talk

\* The table is shown, or not, and the graph requested
Tabled(c) ==
  /\ c.op = "table" /\ c.at \in {"sent", "answered"}
  /\ ThenGraph(c)
  /\ \/ c.at = "answered" /\ Show("table", c) /\ UNCHANGED failed
     \/ failed' = failed \cup {"table"} /\ UNCHANGED <<view, best>>
  /\ UNCHANGED <<node, acked, presses>> /\ UNCHANGED talk

\* A call fails
Dropped(c) ==
  /\ calls' = calls \ {c} /\ failed' = failed \cup ViewsOf(c.op)
  /\ UNCHANGED <<made, last, overlapped, presses>>
  /\ UNCHANGED <<node, view, acked, best>> /\ UNCHANGED talk

\* A file is read
Loaded(c) ==
  /\ c.at = "reading"
  /\ calls' = (calls \ {c}) \cup {[c EXCEPT !.at = "sent"]}
  /\ UNCHANGED <<made, last, overlapped, failed, presses>>
  /\ UNCHANGED <<node, view, acked, best>> /\ UNCHANGED talk

\* A chat is handled: the page may be told, and the node may send it to itself
Handled(c) ==
  /\ c.op \in Chats
  /\ stream' \in {stream, Append(stream, [id |-> c.id, op |-> c.op, by |-> "node"])}
  /\ \/ UNCHANGED echo
     \/ /\ ownPeer /\ c.op # "send"
        /\ echo' = echo \cup {[id |-> c.id, op |-> c.op, by |-> "echo"]}

\* The node handles a request, here with the version that it has then
Served(c, r) ==
  /\ c.at = "sent" /\ r = ResourceOf(c.op)
  /\ node' = IF c.op \in Changes THEN [node EXCEPT ![r] = @ + 1] ELSE node
  /\ calls' = (calls \ {c}) \cup {[c EXCEPT !.at = "answered", !.got = node'[r]]}
  /\ UNCHANGED <<made, last, overlapped, failed, presses>>
  /\ UNCHANGED <<view, acked, best>> /\ UNCHANGED <<address, messages>>
  /\ ownPeer' \in {ownPeer, TRUE}
  /\ \/ UNCHANGED <<stream, echo>>
     \/ Handled(c)

\* A packet of the stream becomes a message
Received ==
  /\ PacketMessage
  /\ UNCHANGED presses

\* The stream is lost, or has one more chat of another node
Streamed ==
  /\ UNCHANGED <<calls, made, last, overlapped, failed, presses>>
  /\ UNCHANGED <<node, view, acked, best>> /\ UNCHANGED <<ours, address, messages>>
  /\ stream' \in {stream, <<>>, Append(stream, [id |-> 0, op |-> "other", by |-> "node"])}

\* The node handles a chat that it sent to itself
Echoed ==
  /\ UNCHANGED <<calls, made, last, overlapped, failed, presses>>
  /\ UNCHANGED <<node, view, acked, best>> /\ UNCHANGED <<ownPeer, address, messages>>
  /\ \E chat \in echo : echo' = echo \ {chat} /\ stream' \in {stream, Append(stream, chat)}

\* What the node has changes
Changed(r) ==
  /\ UNCHANGED <<calls, made, last, overlapped, failed, presses>>
  /\ UNCHANGED <<view, acked, best>> /\ UNCHANGED talk
  /\ node' = [node EXCEPT ![r] = @ + 1]

Kind ==
  \/ Aside \/ Refused \/ Received \/ Streamed \/ Echoed
  \/ \E op \in Op, at \in {"reading", "sent"} : Begun(op, at)
  \/ \E c \in calls : \/ Done(c) \/ Closed(c) \/ Tabled(c) \/ Dropped(c) \/ Loaded(c)
                      \/ \E v \in View : Written(c, v)
                      \/ \E r \in Resource : Served(c, r)
  \/ \E r \in Resource : Changed(r)
-----------------------------------------------------------------------------
(* Operators *)

\* The views that each request writes
LEMMA ViewsOfOp ==
  /\ ViewsOf("table") = {"table", "graph"} /\ ViewsOf("graph") = {"graph"}
  /\ ViewsOf("catalog") = {"catalog"} /\ ViewsOf("upload") = {"uploadResult"}
  /\ \A op \in Searches : ViewsOf(op) = {op}
  /\ \A op \in {"resolve", "resolveNothing"} : ViewsOf(op) = {"name"}
  /\ \A op \in {"socketAddr", "send", "sendChat", "sendPrivate", "addPeer", "setEntry",
                "add", "tag", "download"} : ViewsOf(op) = {}
  BY DEF ViewsOf, View, Searches

\* The views that a request may write, seen from the view
LEMMA WritersOf ==
  ASSUME NEW op \in Op
  PROVE  /\ ViewsOf(op) \subseteq View
         /\ "table" \in ViewsOf(op) <=> op = "table"
         /\ "graph" \in ViewsOf(op) <=> op \in {"table", "graph"}
         /\ "catalog" \in ViewsOf(op) <=> op = "catalog"
         /\ \A v \in Searches : v \in ViewsOf(op) <=> op = v
  BY DEF ViewsOf, View, Searches, Op, Methods, Updates, Changes, Chats

\* The resource that each request reads or changes
LEMMA ResourceOfOp ==
  /\ \A op \in Op : ResourceOf(op) \in Resource
  /\ \A op \in {"table", "graph", "addPeer", "setEntry"} : ResourceOf(op) = "routing"
  /\ \A op \in {"catalog", "add"} : ResourceOf(op) = "catalog"
  BY DEF ResourceOf, Resource, Searches

\* The requests
LEMMA Ops ==
  Op = {"socketAddr", "table", "graph", "catalog", "resolveNothing", "addPeer", "setEntry",
        "add", "tag", "send", "sendChat", "sendPrivate", "searchAll", "searchFirst",
        "upload", "download", "resolve"}
  BY DEF Op, Methods, Updates, Changes, Chats, Searches

-----------------------------------------------------------------------------
(* Every step is of one of the kinds *)

\* A press is refused or begins a call.
LEMMA PressKinds ==
  ASSUME NEW b \in Buttons, PressButton(b)
  PROVE  Refused \/ \E op \in Op, at \in {"reading", "sent"} : Begun(op, at)
<1> USE DEF talk
<1>1. ASSUME CheckFails(b) PROVE Refused
  BY <1>1 DEF CheckFails, Press, Refused
<1>2. ASSUME NEW op \in Op, op \notin Searches, Request(b, op) PROVE Begun(op, "sent")
  BY <1>2 DEF Request, Press, Begun
<1>3. CASE PressSend(b) BY <1>1, <1>2, <1>3, Ops DEF PressSend, Searches
<1>4. CASE PressBroadcast(b) BY <1>1, <1>2, <1>4, Ops DEF PressBroadcast, Searches
<1>5. CASE PressRoutingUpdate(b) BY <1>1, <1>2, <1>5, Ops DEF PressRoutingUpdate, Searches
<1>6. CASE PressRoutingChange(b) BY <1>1, <1>2, <1>6, Ops DEF PressRoutingChange, Searches
<1>7. CASE PressCatalogUpdate(b) BY <1>1, <1>2, <1>7, Ops DEF PressCatalogUpdate, Searches
<1>8. CASE PressAdd(b) BY <1>1, <1>2, <1>8, Ops DEF PressAdd, Searches
<1>9. CASE PressUpload(b)
  <2>1. ASSUME Press(b), Begin(calls, b, "reading"), UNCHANGED <<view, flash>>
        PROVE  Begun("upload", "reading")
    BY <1>9, <2>1 DEF PressUpload, Press, Begun, Searches
  <2> QED BY <1>1, <1>9, <2>1, Ops DEF PressUpload
<1>10. CASE PressDownload(b) BY <1>1, <1>2, <1>10, Ops DEF PressDownload, Searches
<1>11. CASE PressSearch(b)
  <2>1. b \in Searches /\ b \in Op BY <1>11, Ops DEF PressSearch, Searches
  <2>2. CASE CheckFails(b) BY <1>1, <2>2
  <2>3. CASE ~CheckFails(b)
    <3>1. Begun(b, "sent") BY <1>11, <2>1, <2>3 DEF PressSearch, Press, Begun
    <3> QED BY <2>1, <3>1
  <2> QED BY <2>2, <2>3
<1>12. CASE PressResolve(b)
  <2>1. CASE Request(b, "resolve") BY <1>2, <2>1, Ops DEF Searches
  <2>2. CASE Press(b) /\ PrintError /\ Begin(calls, "resolveNothing", "sent") /\ UNCHANGED view
    <3>1. Begun("resolveNothing", "sent") BY <2>2 DEF Press, Begun, Searches
    <3> QED BY <3>1, Ops
  <2> QED BY <1>12, <2>1, <2>2 DEF PressResolve
<1>13. CASE PressTag(b) BY <1>1, <1>2, <1>13, Ops DEF PressTag, Searches
<1> QED
  BY <1>3, <1>4, <1>5, <1>6, <1>7, <1>8, <1>9, <1>10, <1>11, <1>12, <1>13 DEF PressButton

\* What an answer does is to write a view, to request the graph or an update, or neither.
LEMMA ContinueKinds ==
  ASSUME NEW c \in calls, Continue(c)
  PROVE  Done(c) \/ Closed(c) \/ Tabled(c) \/ \E v \in View : Written(c, v)
<1> USE DEF Answered, Unchanged, counters, talk
<1>1. CASE SocketAddress(c) BY <1>1, ViewsOfOp DEF SocketAddress, Closed
<1>2. CASE Sent(c) BY <1>2, ViewsOfOp DEF Sent, Closed
<1>3. CASE Broadcasted(c) BY <1>3, ViewsOfOp DEF Broadcasted, Closed
<1>4. CASE TableShown(c) BY <1>4 DEF TableShown, Tabled
<1>5. CASE GraphShown(c)
  <2>1. Written(c, "graph") BY <1>5, ViewsOfOp DEF GraphShown, Written
  <2> QED BY <2>1 DEF View
<1>6. CASE RoutingChanged(c) BY <1>6 DEF RoutingChanged, Done, Followed
<1>7. CASE CatalogShown(c)
  <2>1. Written(c, "catalog") BY <1>7, ViewsOfOp DEF CatalogShown, Written
  <2> QED BY <2>1 DEF View
<1>8. CASE EntryAdded(c) BY <1>8 DEF EntryAdded, Done, Followed
<1>9. CASE Uploaded(c)
  <2>1. Written(c, "uploadResult") BY <1>9, ViewsOfOp DEF Uploaded, Written
  <2> QED BY <2>1 DEF View
<1>10. CASE Downloaded(c) BY <1>10, ViewsOfOp DEF Downloaded, Closed
<1>11. CASE SearchDone(c)
  <2>1. Written(c, c.op) BY <1>11, ViewsOfOp DEF SearchDone, Written, Searches
  <2> QED BY <1>11, <2>1 DEF SearchDone, View, Searches
<1>12. CASE Resolved(c)
  <2>1. Written(c, "name") BY <1>12, ViewsOfOp DEF Resolved, Written
  <2> QED BY <2>1 DEF View
<1>13. CASE Tagged(c) BY <1>13, ViewsOfOp DEF Tagged, Closed
<1> QED
  BY <1>1, <1>2, <1>3, <1>4, <1>5, <1>6, <1>7, <1>8, <1>9, <1>10, <1>11, <1>12, <1>13
  DEF Continue

\* A step of the page or of the node is of one of the kinds.
LEMMA StepKinds ==
  ASSUME CallsInv, [Next]_vars
  PROVE  Kind
<1> USE DEF page, counters, history, talk
<1>1. CASE UNCHANGED vars BY <1>1 DEF vars, Kind, Aside
<1>2. ASSUME NEW b \in Buttons, PressButton(b) PROVE Kind BY <1>2, PressKinds DEF Kind
<1>3. ASSUME NEW c \in calls,
             Continue(c) \/ FileLoaded(c) \/ FileUnreadable(c) \/ FetchFails(c) \/ Serve(c)
      PROVE  Kind
  <2>1. CASE Continue(c) BY <2>1, ContinueKinds DEF Kind
  <2>2. CASE FileLoaded(c)
    <3>1. Loaded(c) BY <2>2 DEF FileLoaded, Loaded
    <3> QED BY <3>1 DEF Kind
  <2>3. CASE FileUnreadable(c)
    <3>1. Dropped(c) BY <2>3 DEF FileUnreadable, Dropped
    <3> QED BY <3>1 DEF Kind
  <2>4. CASE FetchFails(c)
    <3>1. CASE c.op = "table"
      <4>1. Tabled(c) BY <2>4, <3>1 DEF FetchFails, Tabled
      <4> QED BY <4>1 DEF Kind
    <3>2. CASE c.op # "table"
      <4>1. Dropped(c) BY <2>4, <3>2 DEF FetchFails, Dropped
      <4> QED BY <4>1 DEF Kind
    <3> QED BY <3>1, <3>2
  <2>5. CASE Serve(c)
    <3>1. c.op \in Op BY DEF CallsInv
    <3>2. PICK r \in Resource : r = ResourceOf(c.op) BY <3>1, ResourceOfOp
    <3>3. node' = IF c.op \in Changes THEN [node EXCEPT ![r] = @ + 1] ELSE node
      BY <2>5, <3>2 DEF Serve
    <3>4. calls' = (calls \ {c}) \cup {[c EXCEPT !.at = "answered", !.got = node'[r]]}
      BY <2>5, <3>2 DEF Serve
    <3>5. UNCHANGED <<stream, echo>> \/ Handled(c)
      BY <2>5 DEF Serve, Notify, Handled
    <3>6. ownPeer' \in {ownPeer, TRUE} BY <2>5 DEF Serve
    <3>7. /\ UNCHANGED <<made, last, overlapped, failed, presses>>
          /\ UNCHANGED <<view, acked, best>> /\ UNCHANGED <<address, messages>>
          /\ c.at = "sent"
      BY <2>5 DEF Serve
    <3>8. Served(c, r) BY <3>2, <3>3, <3>4, <3>5, <3>6, <3>7 DEF Served
    <3> QED BY <3>8 DEF Kind
  <2> QED BY <1>3, <2>1, <2>2, <2>3, <2>4, <2>5
<1>4. CASE FlashEnds BY <1>4 DEF FlashEnds, Kind, Aside
<1>5. CASE StreamOpens BY <1>5 DEF StreamOpens, Kind, Aside
<1>6. CASE PacketError BY <1>6 DEF PacketError, Kind, Streamed
<1>7. CASE PacketMessage BY <1>7 DEF PacketMessage, Kind, Received
<1>8. CASE OtherChange
  <2>1. PICK r \in Resource : node' = [node EXCEPT ![r] = @ + 1] BY <1>8 DEF OtherChange
  <2>2. Changed(r) BY <1>8, <2>1 DEF OtherChange, Changed
  <2> QED BY <2>2 DEF Kind
<1>9. CASE OtherChat BY <1>9 DEF OtherChat, Notify, Kind, Streamed
<1>10. CASE EchoHandled
  <2>1. Echoed BY <1>10 DEF EchoHandled, Notify, Echoed
  <2> QED BY <2>1 DEF Kind
<1> QED BY <1>1, <1>2, <1>3, <1>4, <1>5, <1>6, <1>7, <1>8, <1>9, <1>10 DEF Next
-----------------------------------------------------------------------------
(* The calls *)

CallsUpTo(k) == [id : 1 .. k, op : Op, at : {"reading", "sent", "answered"}, got : Nat]

\* One more element
LEMMA CountOneMore ==
  ASSUME NEW S, NEW x, IsFiniteSet(S)
  PROVE  /\ Cardinality(S) \in Nat /\ Cardinality(S \cup {x}) \in Nat
         /\ Cardinality(S \cup {x}) <= Cardinality(S) + 1
<1>1. IsFiniteSet(S \cup {x}) BY FS_AddElement
<1>2. Cardinality(S) \in Nat /\ Cardinality(S \cup {x}) \in Nat BY <1>1, FS_CardinalityType
<1>3. Cardinality(S \cup {x}) = IF x \in S THEN Cardinality(S) ELSE Cardinality(S) + 1
  BY FS_AddElement
<1> QED BY <1>2, <1>3

\* A call that begins beside some that wait has a number of its own.
LEMMA BeginCalls ==
  ASSUME CallsInv, NEW rest \in SUBSET calls, NEW op \in Op, NEW at \in {"reading", "sent"},
         Begin(rest, op, at), presses' \in Nat,
         made + 1 + Cardinality({c \in rest : c.op \in Followed})
           + (IF op \in Followed THEN 1 ELSE 0) <= 3 + 2 * presses'
  PROVE  CallsInv'
<1> DEFINE d == [id |-> made + 1, op |-> op, at |-> at, got |-> 0]
           F == {c \in rest : c.op \in Followed}
<1>1. made' = made + 1 /\ calls' = rest \cup {d} BY DEF Begin
<1>2. made \in Nat \ {0} /\ IsFiniteSet(calls) /\ calls \subseteq CallsUpTo(made)
      /\ \A x, y \in calls : x.id = y.id => x = y
  BY DEF CallsInv, CallsUpTo
<1>3. d \in CallsUpTo(made + 1) BY <1>2 DEF CallsUpTo
<1>4. \A x \in rest : x \in CallsUpTo(made + 1) /\ x.id # made + 1 BY <1>2 DEF CallsUpTo
<1>5. IsFiniteSet(rest) BY <1>2, FS_Subset
<1>6. IsFiniteSet(F) BY <1>5, FS_Subset
<1>7. IsFiniteSet(rest \cup {d}) BY <1>5, FS_AddElement
<1>8. WaitingChanges' = IF op \in Followed THEN F \cup {d} ELSE F
  BY <1>1 DEF WaitingChanges
<1>9. Cardinality(F \cup {d}) <= Cardinality(F) + 1 BY <1>6, CountOneMore
<1>10. Cardinality(F) \in Nat BY <1>6, FS_CardinalityType
<1>11. Cardinality(F \cup {d}) \in Nat BY <1>6, CountOneMore
<1>12. made + 1 + Cardinality(F) + (IF op \in Followed THEN 1 ELSE 0) <= 3 + 2 * presses'
  OBVIOUS
<1> HIDE DEF F
<1>13. made' + Cardinality(WaitingChanges') <= 3 + 2 * presses'
  <2>1. CASE op \in Followed
    <3>1. WaitingChanges' = F \cup {d} BY <1>8, <2>1
    <3>2. made + 1 + Cardinality(F) + 1 <= 3 + 2 * presses' BY <1>12, <2>1
    <3> HIDE DEF d
    <3> QED BY <1>1, <1>2, <1>9, <1>10, <1>11, <3>1, <3>2
  <2>2. CASE op \notin Followed
    <3>1. WaitingChanges' = F BY <1>8, <2>2
    <3>2. made + 1 + Cardinality(F) <= 3 + 2 * presses' BY <1>10, <1>12, <1>2, <2>2
    <3> QED BY <1>1, <3>1, <3>2
  <2> QED BY <2>1, <2>2
<1>14. \A x, y \in rest \cup {d} : x.id = y.id => x = y BY <1>2, <1>4
<1>15. calls' \subseteq CallsUpTo(made') BY <1>1, <1>3, <1>4
<1>16. made' \in Nat \ {0} BY <1>1, <1>2
<1> QED BY <1>1, <1>7, <1>13, <1>14, <1>15, <1>16 DEF CallsInv, CallsUpTo

\* A call that ends leaves the others.
LEMMA EndCalls ==
  ASSUME CallsInv, NEW c \in calls, calls' = calls \ {c}, UNCHANGED <<made, presses>>
  PROVE  CallsInv'
<1>1. IsFiniteSet(calls) BY DEF CallsInv
<1>2. IsFiniteSet(calls \ {c}) BY <1>1, FS_Subset
<1>3. IsFiniteSet(WaitingChanges) BY <1>1, FS_Subset DEF WaitingChanges
<1>4. WaitingChanges' \subseteq WaitingChanges BY DEF WaitingChanges
<1>5. Cardinality(WaitingChanges') <= Cardinality(WaitingChanges) BY <1>3, <1>4, FS_Subset
<1>6. Cardinality(WaitingChanges') \in Nat /\ Cardinality(WaitingChanges) \in Nat
  BY <1>3, <1>4, FS_Subset, FS_CardinalityType
<1>7. made \in Nat /\ presses \in Nat /\ made + Cardinality(WaitingChanges) <= 3 + 2 * presses
  BY DEF CallsInv
<1>8. made' + Cardinality(WaitingChanges') <= 3 + 2 * presses' BY <1>5, <1>6, <1>7
<1> QED BY <1>2, <1>8 DEF CallsInv

\* A call that goes on keeps its number.
LEMMA MoveCalls ==
  ASSUME CallsInv, NEW c \in calls, NEW d \in CallsUpTo(made), d.id = c.id,
         d.op \in Followed => c.op \in Followed,
         calls' = (calls \ {c}) \cup {d}, UNCHANGED <<made, presses>>
  PROVE  CallsInv'
<1> DEFINE W == WaitingChanges
<1>1. IsFiniteSet(calls) /\ calls \subseteq CallsUpTo(made)
      /\ \A x, y \in calls : x.id = y.id => x = y
  BY DEF CallsInv, CallsUpTo
<1>2. IsFiniteSet(calls') BY <1>1, FS_Subset, FS_AddElement
<1>3. IsFiniteSet(W) BY <1>1, FS_Subset DEF WaitingChanges
<1>4. IsFiniteSet(W \ {c}) BY <1>3, FS_Subset
<1>5. Cardinality(W \ {c}) = IF c \in W THEN Cardinality(W) - 1 ELSE Cardinality(W)
  BY <1>3, FS_RemoveElement
<1>6. Cardinality((W \ {c}) \cup {d}) <= Cardinality(W \ {c}) + 1
  BY <1>4, CountOneMore
<1>7. /\ Cardinality(W) \in Nat /\ Cardinality(W \ {c}) \in Nat
      /\ Cardinality((W \ {c}) \cup {d}) \in Nat
  BY <1>3, <1>4, CountOneMore
<1>8. made \in Nat /\ presses \in Nat /\ made + Cardinality(W) <= 3 + 2 * presses
  BY DEF CallsInv
<1>9. W' = IF d.op \in Followed THEN (W \ {c}) \cup {d} ELSE W \ {c}
  BY DEF WaitingChanges
<1>10. d.op \in Followed => c \in W BY DEF WaitingChanges
<1> HIDE DEF W
<1>11. Cardinality(W') <= Cardinality(W)
  <2>1. CASE d.op \in Followed
    <3>1. W' = (W \ {c}) \cup {d} /\ Cardinality(W \ {c}) = Cardinality(W) - 1
      BY <1>5, <1>9, <1>10, <2>1
    <3> QED BY <1>6, <1>7, <3>1
  <2>2. CASE d.op \notin Followed
    <3>1. W' = W \ {c} BY <1>9, <2>2
    <3>2. Cardinality(W \ {c}) <= Cardinality(W) BY <1>5, <1>7
    <3> QED BY <3>1, <3>2
  <2> QED BY <2>1, <2>2
<1>12. Cardinality(W') \in Nat BY <1>7, <1>9
<1>13. made' + Cardinality(W') <= 3 + 2 * presses' BY <1>7, <1>8, <1>11, <1>12
<1>14. made' + Cardinality(WaitingChanges') <= 3 + 2 * presses' BY <1>13 DEF W
<1>15. \A x, y \in calls' : x.id = y.id => x = y BY <1>1
<1>16. calls' \subseteq CallsUpTo(made') BY <1>1
<1> QED BY <1>2, <1>14, <1>15, <1>16 DEF CallsInv, CallsUpTo

\* The request that takes the place of another
LEMMA Moved ==
  ASSUME CallsInv, NEW c \in calls
  PROVE  /\ [c EXCEPT !.at = "sent"] \in CallsUpTo(made)
         /\ [c EXCEPT !.op = "graph", !.at = "sent", !.got = 0] \in CallsUpTo(made)
         /\ \A k \in Nat : [c EXCEPT !.at = "answered", !.got = k] \in CallsUpTo(made)
  BY Ops DEF CallsInv, CallsUpTo

\* A step keeps the calls distinct and their number bounded.
LEMMA CallsKept ==
  ASSUME CallsInv, ViewsInv, Kind
  PROVE  CallsInv'
<1>1. CASE Aside BY <1>1 DEF Aside, CallsInv, WaitingChanges
<1>2. CASE Refused
  <2>1. made \in Nat /\ presses \in Nat /\ Cardinality(WaitingChanges) \in Nat
    BY FS_Subset, FS_CardinalityType DEF CallsInv, WaitingChanges
  <2>2. made + Cardinality(WaitingChanges) <= 3 + 2 * presses BY DEF CallsInv
  <2>3. made' + Cardinality(WaitingChanges') <= 3 + 2 * presses'
    BY <1>2, <2>1, <2>2 DEF Refused, WaitingChanges
  <2> QED BY <1>2, <2>3 DEF Refused, CallsInv
<1>3. CASE Received \/ Streamed \/ Echoed \/ \E r \in Resource : Changed(r)
  <2>1. UNCHANGED <<calls, made, presses>>
    BY <1>3 DEF Received, PacketMessage, Streamed, Echoed, Changed, counters, history
  <2> QED BY <2>1 DEF CallsInv, WaitingChanges
<1>4. ASSUME NEW op \in Op, NEW at \in {"reading", "sent"}, Begun(op, at) PROVE CallsInv'
  <2>1. made \in Nat /\ presses \in Nat /\ Cardinality(WaitingChanges) \in Nat
    BY FS_Subset, FS_CardinalityType DEF CallsInv, WaitingChanges
  <2>2. made + Cardinality(WaitingChanges) <= 3 + 2 * presses BY DEF CallsInv
  <2>3. presses' = presses + 1 BY <1>4 DEF Begun
  <2>4. made + 1 + Cardinality(WaitingChanges) + (IF op \in Followed THEN 1 ELSE 0)
          <= 3 + 2 * presses'
    BY <2>1, <2>2, <2>3
  <2>5. Begin(calls, op, at) /\ presses' \in Nat BY <1>4, <2>1, <2>3 DEF Begun
  <2>6. made + 1 + Cardinality({c \in calls : c.op \in Followed})
          + (IF op \in Followed THEN 1 ELSE 0) <= 3 + 2 * presses'
    BY <2>4 DEF WaitingChanges
  <2>7. calls \in SUBSET calls OBVIOUS
  <2> QED BY <2>5, <2>6, <2>7, BeginCalls
<1>5. ASSUME NEW c \in calls, Done(c) PROVE CallsInv'
  <2> DEFINE W == WaitingChanges
             V == {d \in calls \ {c} : d.op \in Followed}
             op == IF c.op = "add" THEN "catalog" ELSE "table"
  <2>1. made \in Nat /\ presses \in Nat /\ IsFiniteSet(W) /\ Cardinality(W) \in Nat
    BY FS_Subset, FS_CardinalityType DEF CallsInv, WaitingChanges
  <2>2. made + Cardinality(W) <= 3 + 2 * presses BY DEF CallsInv
  <2>3. c \in W /\ V = W \ {c} BY <1>5 DEF Done, WaitingChanges
  <2>4. Cardinality(V) = Cardinality(W) - 1 BY <2>1, <2>3, FS_RemoveElement
  <2>5. presses' = presses /\ Begin(calls \ {c}, op, "sent") BY <1>5 DEF Done
  <2>6. op \in Op /\ op \notin Followed BY Ops DEF Followed
  <2> HIDE DEF W, V
  <2>7. made + 1 + Cardinality(V) + 0 <= 3 + 2 * presses' BY <2>1, <2>2, <2>4, <2>5
  <2>8. made + 1 + Cardinality(V) + (IF op \in Followed THEN 1 ELSE 0) <= 3 + 2 * presses'
    BY <2>6, <2>7
  <2> HIDE DEF op
  <2> QED BY <2>1, <2>5, <2>6, <2>8, BeginCalls DEF V
<1>6. ASSUME NEW c \in calls, Closed(c) \/ Dropped(c) \/ \E v \in View : Written(c, v)
      PROVE CallsInv'
  BY <1>6, EndCalls DEF Closed, Dropped, Written, End
<1>7. ASSUME NEW c \in calls, Tabled(c) PROVE CallsInv'
  <2> DEFINE d == [c EXCEPT !.op = "graph", !.at = "sent", !.got = 0]
  <2>1. d \in CallsUpTo(made) BY Moved
  <2>2. d.id = c.id /\ d.op \notin Followed BY <2>1 DEF CallsInv, Followed
  <2>3. calls' = (calls \ {c}) \cup {d} /\ UNCHANGED <<made, presses>>
    BY <1>7 DEF Tabled, ThenGraph
  <2> QED BY <2>1, <2>2, <2>3, MoveCalls
<1>8. ASSUME NEW c \in calls, Loaded(c) PROVE CallsInv'
  <2> DEFINE d == [c EXCEPT !.at = "sent"]
  <2>1. d \in CallsUpTo(made) BY Moved
  <2>2. d.id = c.id /\ d.op = c.op BY DEF CallsInv
  <2>3. calls' = (calls \ {c}) \cup {d} /\ UNCHANGED <<made, presses>> BY <1>8 DEF Loaded
  <2> QED BY <2>1, <2>2, <2>3, MoveCalls
<1>9. ASSUME NEW c \in calls, NEW r \in Resource, Served(c, r) PROVE CallsInv'
  <2>1. node'[r] \in Nat BY <1>9 DEF Served, ViewsInv
  <2>2. PICK k \in Nat : k = node'[r] BY <2>1
  <2> DEFINE d == [c EXCEPT !.at = "answered", !.got = k]
  <2>3. d \in CallsUpTo(made) BY Moved
  <2>4. d.id = c.id /\ d.op = c.op BY DEF CallsInv
  <2>5. calls' = (calls \ {c}) \cup {d} /\ UNCHANGED <<made, presses>> BY <1>9, <2>2 DEF Served
  <2> QED BY <2>3, <2>4, <2>5, MoveCalls
<1> QED BY <1>1, <1>2, <1>3, <1>4, <1>5, <1>6, <1>7, <1>8, <1>9 DEF Kind
-----------------------------------------------------------------------------
(* The types of the rest *)

\* The messages on display are counted.
LEMMA FlashKept ==
  ASSUME flash \in [{"success", "error"} -> Nat]
  PROVE  /\ \A k \in Nat : [flash EXCEPT !.success = k] \in [{"success", "error"} -> Nat]
         /\ \A k \in Nat : [flash EXCEPT !.error = k] \in [{"success", "error"} -> Nat]
         /\ flash.success \in Nat /\ flash.error \in Nat
         /\ flash.success + 1 \in Nat /\ flash.error + 1 \in Nat /\ flash.success + 2 \in Nat
  OBVIOUS

\* What a step does to the counters
Counted ==
  /\ \/ UNCHANGED flash \/ PrintSuccess \/ PrintError
     \/ flash' = [flash EXCEPT !.success = @ + 2]
     \/ \E class \in {"success", "error"} :
          flash[class] > 0 /\ flash' = [flash EXCEPT ![class] = @ - 1]
  /\ UNCHANGED presses \/ (presses < MaxPresses /\ presses' = presses + 1)
  /\ UNCHANGED failures \/ (failures < MaxFailures /\ failures' = failures + 1)
  /\ UNCHANGED others \/ (others < MaxOthers /\ others' = others + 1)
  /\ open' \in {open, TRUE, FALSE}

\* A press counts as one, and may print an error.
LEMMA PressCounted == ASSUME NEW b \in Buttons, PressButton(b) PROVE Counted
<1>1. Press(b) /\ (UNCHANGED flash \/ PrintError)
  BY DEF PressButton, PressSend, PressBroadcast, PressRoutingUpdate, PressRoutingChange,
         PressCatalogUpdate, PressAdd, PressUpload, PressDownload, PressSearch, PressResolve,
         PressTag, CheckFails, Request
<1> QED BY <1>1 DEF Press, Counted

\* An answer may print a success, that of searchFirst two.
LEMMA AnswerCounted ==
  ASSUME NEW c \in calls, Continue(c), flash \in [{"success", "error"} -> Nat]
  PROVE  Counted
<1> USE DEF Unchanged, counters
<1>1. CASE SearchDone(c)
  <2>1. flash' = [flash EXCEPT !.success = @ + 2] \/ PrintSuccess
    BY <1>1 DEF SearchDone, PrintSuccess
  <2> QED BY <1>1, <2>1 DEF SearchDone, Counted
<1>2. CASE SocketAddress(c) BY <1>2 DEF SocketAddress, Counted
<1>3. CASE Sent(c) BY <1>3 DEF Sent, Counted
<1>4. CASE Broadcasted(c) BY <1>4 DEF Broadcasted, Counted
<1>5. CASE TableShown(c) BY <1>5 DEF TableShown, Counted
<1>6. CASE GraphShown(c) BY <1>6 DEF GraphShown, Counted
<1>7. CASE RoutingChanged(c) BY <1>7 DEF RoutingChanged, Counted
<1>8. CASE CatalogShown(c) BY <1>8 DEF CatalogShown, Counted
<1>9. CASE EntryAdded(c) BY <1>9 DEF EntryAdded, Counted
<1>10. CASE Uploaded(c) BY <1>10 DEF Uploaded, Counted
<1>11. CASE Downloaded(c) BY <1>11 DEF Downloaded, Counted
<1>12. CASE Resolved(c) BY <1>12 DEF Resolved, Counted
<1>13. CASE Tagged(c) BY <1>13 DEF Tagged, Counted
<1> QED
  BY <1>1, <1>2, <1>3, <1>4, <1>5, <1>6, <1>7, <1>8, <1>9, <1>10, <1>11, <1>12, <1>13
  DEF Continue

\* The counters stay within their bounds.
LEMMA CountersKept ==
  ASSUME CountersInv, [Next]_vars
  PROVE  CountersInv'
<1> USE DEF page, counters, history
<1>1. Counted
  <2>1. CASE UNCHANGED vars BY <2>1 DEF vars, Counted
  <2>2. ASSUME NEW b \in Buttons, PressButton(b) PROVE Counted BY <2>2, PressCounted
  <2>3. ASSUME NEW c \in calls,
               Continue(c) \/ FileLoaded(c) \/ FileUnreadable(c) \/ FetchFails(c) \/ Serve(c)
        PROVE  Counted
    <3>1. CASE Continue(c) BY <3>1, AnswerCounted DEF CountersInv
    <3>2. CASE FileLoaded(c) BY <3>2 DEF FileLoaded, Counted
    <3>3. CASE FileUnreadable(c) BY <3>3 DEF FileUnreadable, Counted
    <3>4. CASE FetchFails(c) BY <3>4 DEF FetchFails, Counted
    <3>5. CASE Serve(c) BY <3>5 DEF Serve, Counted
    <3> QED BY <2>3, <3>1, <3>2, <3>3, <3>4, <3>5
  <2>4. CASE FlashEnds BY <2>4 DEF FlashEnds, Counted
  <2>5. CASE StreamOpens BY <2>5 DEF StreamOpens, Counted
  <2>6. CASE PacketError BY <2>6 DEF PacketError, Counted
  <2>7. CASE PacketMessage BY <2>7 DEF PacketMessage, Counted
  <2>8. CASE OtherChange BY <2>8 DEF OtherChange, Counted
  <2>9. CASE OtherChat BY <2>9 DEF OtherChat, Counted
  <2>10. CASE EchoHandled BY <2>10 DEF EchoHandled, Counted
  <2> QED BY <2>1, <2>2, <2>3, <2>4, <2>5, <2>6, <2>7, <2>8, <2>9, <2>10 DEF Next
<1>2. flash' \in [{"success", "error"} -> Nat]
  <2>1. flash \in [{"success", "error"} -> Nat] BY DEF CountersInv
  <2>2. CASE UNCHANGED flash BY <2>1, <2>2
  <2>3. CASE PrintSuccess BY <2>1, <2>3, FlashKept DEF PrintSuccess
  <2>4. CASE PrintError BY <2>1, <2>4, FlashKept DEF PrintError
  <2>5. CASE flash' = [flash EXCEPT !.success = @ + 2] BY <2>1, <2>5, FlashKept
  <2>6. ASSUME NEW class \in {"success", "error"},
               flash[class] > 0, flash' = [flash EXCEPT ![class] = @ - 1]
        PROVE  flash' \in [{"success", "error"} -> Nat]
    <3>1. flash[class] - 1 \in Nat BY <2>1, <2>6
    <3> QED BY <2>1, <2>6, <3>1
  <2> QED BY <1>1, <2>2, <2>3, <2>4, <2>5, <2>6 DEF Counted
<1>3. presses' \in 0 .. MaxPresses
  <2>1. presses \in 0 .. MaxPresses /\ MaxPresses \in Nat
    BY WebPageAssumption DEF CountersInv
  <2>2. UNCHANGED presses \/ (presses < MaxPresses /\ presses' = presses + 1)
    BY <1>1 DEF Counted
  <2> QED BY <2>1, <2>2
<1>4. failures' \in 0 .. MaxFailures
  <2>1. failures \in 0 .. MaxFailures /\ MaxFailures \in Nat
    BY WebPageAssumption DEF CountersInv
  <2>2. UNCHANGED failures \/ (failures < MaxFailures /\ failures' = failures + 1)
    BY <1>1 DEF Counted
  <2> QED BY <2>1, <2>2
<1>5. others' \in 0 .. MaxOthers
  <2>1. others \in 0 .. MaxOthers /\ MaxOthers \in Nat
    BY WebPageAssumption DEF CountersInv
  <2>2. UNCHANGED others \/ (others < MaxOthers /\ others' = others + 1)
    BY <1>1 DEF Counted
  <2> QED BY <2>1, <2>2
<1>6. open' \in BOOLEAN BY <1>1, Zenon DEF Counted, CountersInv
<1> QED BY <1>2, <1>3, <1>4, <1>5, <1>6 DEF CountersInv

\* A view keeps its type when a call writes it.
LEMMA ShowTyped ==
  ASSUME NEW c \in CallsUpTo(made), NEW v \in View, Show(v, c), made \in Nat,
         view \in [View -> [from : 0 .. made, version : Nat]], best \in [View -> Nat]
  PROVE  view' \in [View -> [from : 0 .. made, version : Nat]] /\ best' \in [View -> Nat]
<1>1. [from |-> c.id, version |-> c.got] \in [from : 0 .. made, version : Nat] BY DEF CallsUpTo
<1>2. c.got \in Nat /\ best[v] \in Nat BY DEF CallsUpTo
<1>3. (IF c.got > best[v] THEN c.got ELSE best[v]) \in Nat BY <1>2
<1> QED BY <1>1, <1>3 DEF Show

\* The record of the calls keeps its type when one begins.
LEMMA BeginTyped ==
  ASSUME CallsInv, ViewsInv, NEW rest, NEW op \in Op, NEW at, Begin(rest, op, at)
  PROVE  /\ made' = made + 1 /\ made' \in Nat /\ made \in Nat
         /\ last' \in [View -> 0 .. made'] /\ overlapped' \subseteq View /\ failed' \subseteq View
<1>1. made' = made + 1 /\ made \in Nat /\ made' \in Nat BY DEF Begin, CallsInv
<1>2. ViewsOf(op) \subseteq View BY WritersOf
<1>3. last' \in [View -> 0 .. made'] BY <1>1 DEF Begin, ViewsInv
<1> QED BY <1>1, <1>2, <1>3 DEF Begin, ViewsInv

\* The views, the versions and the record of the calls keep their types.
LEMMA ViewsKept ==
  ASSUME CallsInv, ViewsInv, Kind
  PROVE  ViewsInv'
<1>1. CASE Aside BY <1>1 DEF Aside, ViewsInv
<1>2. CASE Refused BY <1>2 DEF Refused, ViewsInv
<1>3. CASE Received BY <1>3 DEF Received, PacketMessage, ViewsInv, counters, history
<1>4. CASE Streamed \/ Echoed BY <1>4 DEF Streamed, Echoed, ViewsInv
<1>5. ASSUME NEW op \in Op, NEW at \in {"reading", "sent"}, Begun(op, at) PROVE ViewsInv'
  <2>1. /\ made' = made + 1 /\ made' \in Nat /\ made \in Nat
        /\ last' \in [View -> 0 .. made'] /\ overlapped' \subseteq View /\ failed' \subseteq View
    BY <1>5, BeginTyped DEF Begun
  <2>2. view \in [View -> [from : 0 .. made', version : Nat]] BY <2>1 DEF ViewsInv
  <2>3. [from |-> made + 1, version |-> 0] \in [from : 0 .. made', version : Nat] BY <2>1
  <2>4. view' \in [View -> [from : 0 .. made', version : Nat]]
    BY <1>5, <2>2, <2>3 DEF Begun
  <2> QED BY <1>5, <2>1, <2>4 DEF Begun, ViewsInv
<1>6. ASSUME NEW c \in calls, Done(c) PROVE ViewsInv'
  <2> DEFINE op == IF c.op = "add" THEN "catalog" ELSE "table"
  <2>1. op \in Op BY Ops
  <2>2. Begin(calls \ {c}, op, "sent") BY <1>6 DEF Done
  <2>3. /\ made' = made + 1 /\ made' \in Nat /\ made \in Nat
        /\ last' \in [View -> 0 .. made'] /\ overlapped' \subseteq View /\ failed' \subseteq View
    BY <2>1, <2>2, BeginTyped
  <2>4. view \in [View -> [from : 0 .. made', version : Nat]] BY <2>3 DEF ViewsInv
  <2>5. c.got \in Nat /\ acked \in [Resource -> Nat] /\ ResourceOf(c.op) \in Resource
    BY ResourceOfOp DEF CallsInv, ViewsInv
  <2>6. (IF c.got > acked[ResourceOf(c.op)] THEN c.got ELSE acked[ResourceOf(c.op)]) \in Nat
    BY <2>5
  <2>7. acked' \in [Resource -> Nat] BY <1>6, <2>5, <2>6 DEF Done, Acknowledge
  <2> QED BY <1>6, <2>3, <2>4, <2>7 DEF Done, ViewsInv
<1>7. ASSUME NEW c \in calls, Closed(c) PROVE ViewsInv' BY <1>7 DEF Closed, End, ViewsInv
<1>8. ASSUME NEW c \in calls, NEW v \in View, Written(c, v) PROVE ViewsInv'
  <2>1. c \in CallsUpTo(made) /\ made \in Nat BY DEF CallsInv, CallsUpTo
  <2>2. view' \in [View -> [from : 0 .. made, version : Nat]] /\ best' \in [View -> Nat]
    BY <1>8, <2>1, ShowTyped DEF Written, ViewsInv
  <2> QED BY <1>8, <2>2 DEF Written, End, ViewsInv
<1>9. ASSUME NEW c \in calls, Tabled(c) PROVE ViewsInv'
  <2>1. c \in CallsUpTo(made) /\ made \in Nat /\ "table" \in View BY DEF CallsInv, CallsUpTo, View
  <2>2. view' \in [View -> [from : 0 .. made, version : Nat]] /\ best' \in [View -> Nat]
    BY <1>9, <2>1, ShowTyped DEF Tabled, ViewsInv
  <2>3. failed' \subseteq View BY <1>9, <2>1 DEF Tabled, ViewsInv
  <2> QED BY <1>9, <2>2, <2>3 DEF Tabled, ThenGraph, ViewsInv
<1>10. ASSUME NEW c \in calls, Dropped(c) PROVE ViewsInv'
  <2>1. ViewsOf(c.op) \subseteq View BY WritersOf DEF CallsInv
  <2> QED BY <1>10, <2>1 DEF Dropped, ViewsInv
<1>11. ASSUME NEW c \in calls, Loaded(c) PROVE ViewsInv' BY <1>11 DEF Loaded, ViewsInv
<1>12. ASSUME NEW r \in Resource,
              (\E c \in calls : Served(c, r)) \/ Changed(r)
       PROVE  ViewsInv'
  <2>1. node' \in {node, [node EXCEPT ![r] = @ + 1]} BY <1>12 DEF Served, Changed
  <2>2. node' \in [Resource -> Nat \ {0}] BY <2>1 DEF ViewsInv
  <2> QED BY <1>12, <2>2 DEF Served, Changed, ViewsInv
<1> QED BY <1>1, <1>2, <1>3, <1>4, <1>5, <1>6, <1>7, <1>8, <1>9, <1>10, <1>11, <1>12 DEF Kind
-----------------------------------------------------------------------------
(* The chats *)

\* The number of calls does not go down.
LEMMA MadeGrows ==
  ASSUME CallsInv, Kind
  PROVE  made \in Nat /\ made' \in Nat /\ made <= made'
<1>1. made \in Nat BY DEF CallsInv
<1>2. made' = made \/ made' = made + 1
  BY DEF Kind, Aside, Refused, Received, PacketMessage, history, Streamed, Echoed, Begun, Begin,
         Done, Closed, End, Tabled, ThenGraph, Dropped, Loaded, Written, Served, Changed
<1> QED BY <1>1, <1>2

\* What a step does to the chats: none, or the page adds one, the node handles one, again
\* or for the first time, or has one of another node, or one becomes a message, or those
\* on their way are lost
PageAdds(c) ==
  /\ c.op = "send" /\ c.at = "answered" /\ calls' = calls \ {c}
  /\ UNCHANGED <<ours, stream, made>>
  /\ AddMsg([id |-> c.id, op |-> c.op, by |-> "page", class |-> "sent"])
ChatServed(c) ==
  /\ c.at = "sent" /\ Handled(c)
  /\ \E k : calls' = (calls \ {c}) \cup {[c EXCEPT !.at = "answered", !.got = k]}
  /\ UNCHANGED <<messages, made>>
ChatSteps ==
  /\ address' \in {address, TRUE} /\ ownPeer' \in {ownPeer, TRUE}
  /\ \/ UNCHANGED <<echo, stream, messages>>
     \/ \E c \in calls : PageAdds(c) \/ ChatServed(c)
     \/ PacketMessage
     \/ Echoed /\ UNCHANGED made
     \/ /\ UNCHANGED <<ours, calls, made, messages>>
        /\ stream' \in {<<>>, Append(stream, [id |-> 0, op |-> "other", by |-> "node"])}

\* Every kind of step is one of these for the chats.
LEMMA KindChats == ASSUME Kind PROVE ChatSteps
<1>1. CASE \E c \in calls : \E r \in Resource : Served(c, r)
  <2>1. PICK c \in calls, r \in Resource : Served(c, r) BY <1>1
  <2>2. CASE UNCHANGED <<stream, echo>> BY <2>1, <2>2, Zenon DEF Served, ChatSteps
  <2>3. CASE Handled(c)
    <3>1. /\ address' \in {address, TRUE} /\ ownPeer' \in {ownPeer, TRUE}
          /\ UNCHANGED <<messages, made>> /\ c.at = "sent"
      BY <2>1, Zenon DEF Served
    <3>2. PICK k : k = node'[r] OBVIOUS
    <3>3. calls' = (calls \ {c}) \cup {[c EXCEPT !.at = "answered", !.got = k]}
      BY <2>1, <3>2 DEF Served
    <3>4. ChatServed(c) BY <2>3, <3>1, <3>3, Zenon DEF ChatServed
    <3> QED BY <3>1, <3>4, Zenon DEF ChatSteps
  <2> QED BY <2>1, <2>2, <2>3 DEF Served
<1>2. CASE \E c \in calls : Closed(c)
  <2>1. PICK c \in calls : Closed(c) BY <1>2
  <2>2. address' \in {address, TRUE} /\ ownPeer' \in {ownPeer, TRUE}
    BY <2>1, Zenon DEF Closed, ours
  <2>3. CASE c.op = "send"
    <3>1. PageAdds(c) BY <2>1, <2>3, Zenon DEF Closed, End, PageAdds
    <3> QED BY <2>2, <3>1, Zenon DEF ChatSteps
  <2>4. CASE c.op # "send" BY <2>1, <2>2, <2>4, Zenon DEF Closed, ChatSteps, ours
  <2> QED BY <2>3, <2>4
<1>3. CASE Streamed
  <2>1. /\ address' \in {address, TRUE} /\ ownPeer' \in {ownPeer, TRUE}
        /\ UNCHANGED <<ours, calls, made, messages>>
    BY <1>3, Zenon DEF Streamed, ours
  <2>2. CASE UNCHANGED stream BY <2>1, <2>2, Zenon DEF ChatSteps, ours
  <2>3. CASE stream' \in {<<>>, Append(stream, [id |-> 0, op |-> "other", by |-> "node"])}
    BY <2>1, <2>3, Zenon DEF ChatSteps
  <2> QED BY <1>3, <2>2, <2>3 DEF Streamed
<1>4. CASE Received BY <1>4, Zenon DEF Received, PacketMessage, ChatSteps, ours
<1>5. CASE Echoed BY <1>5, Zenon DEF Echoed, ChatSteps
<1>6. CASE \/ Aside \/ Refused \/ \E r \in Resource : Changed(r)
           \/ \E op \in Op, at \in {"reading", "sent"} : Begun(op, at)
           \/ \E c \in calls : Done(c) \/ Tabled(c) \/ Dropped(c) \/ Loaded(c)
                               \/ \E v \in View : Written(c, v)
  <2>1. UNCHANGED talk
    BY <1>6 DEF Aside, Refused, Changed, Begun, Done, Tabled, Dropped, Loaded, Written
  <2>2. UNCHANGED <<address, ownPeer, echo, stream, messages>> BY <2>1, Zenon DEF talk, ours
  <2> QED BY <2>2, Zenon DEF ChatSteps
<1> QED BY <1>1, <1>2, <1>3, <1>4, <1>5, <1>6, Zenon DEF Kind

\* The message that a packet becomes
Taken == [id |-> Head(stream).id, op |-> Head(stream).op, by |-> Head(stream).by,
          class |-> IF Head(stream).id # 0 /\ address THEN "sent" ELSE "received"]

\* A packet leaves the stream and is added to the messages.
LEMMA PacketTaken ==
  ASSUME CallsInv, ChatsInv, PacketMessage
  PROVE  /\ stream \in Seq(ChatUpTo(made)) /\ stream # <<>>
         /\ Head(stream) = stream[1] /\ stream[1] \in ChatUpTo(made)
         /\ Taken \in MessageUpTo(made)
         /\ messages' = Append(messages, Taken)
         /\ stream' = Tail(stream) /\ stream' \in Seq(ChatUpTo(made))
         /\ Len(stream) \in Nat \ {0} /\ Len(stream') = Len(stream) - 1
         /\ \A i \in 1 .. Len(stream') : stream'[i] = stream[i + 1]
         /\ UNCHANGED <<calls, made, address, ownPeer, echo>>
<1>1. stream \in Seq(ChatUpTo(made)) BY DEF ChatsInv
<1>2. stream # <<>> /\ stream' = Tail(stream) BY DEF PacketMessage
<1>3. /\ Head(stream) \in ChatUpTo(made) /\ Tail(stream) \in Seq(ChatUpTo(made))
      /\ Len(Tail(stream)) = Len(stream) - 1
      /\ \A i \in 1 .. Len(Tail(stream)) : Tail(stream)[i] = stream[i + 1]
  BY <1>1, <1>2, HeadTailProperties
<1>4. Head(stream) = stream[1] BY <1>1
<1>5. Len(stream) \in Nat \ {0} BY <1>1, <1>2, EmptySeq, LenProperties
<1>6. Taken \in MessageUpTo(made) BY <1>3 DEF Taken, ChatUpTo, MessageUpTo
<1>7. messages' = Append(messages, Taken) BY DEF PacketMessage, AddMsg, Taken
<1>8. UNCHANGED <<calls, made, address, ownPeer, echo>>
  BY DEF PacketMessage, history, ours
<1> QED BY <1>1, <1>2, <1>3, <1>4, <1>5, <1>6, <1>7, <1>8

\* The chats keep their types.
LEMMA ChatsKept ==
  ASSUME CallsInv, ChatsInv, Kind
  PROVE  ChatsInv'
<1>1. stream \in Seq(ChatUpTo(made)) /\ messages \in Seq(MessageUpTo(made))
        /\ echo \subseteq ChatUpTo(made)
  BY DEF ChatsInv
<1>2. ChatSteps BY KindChats
<1>3. made \in Nat /\ made' \in Nat /\ made <= made' BY MadeGrows
<1>4. ChatUpTo(made) \subseteq ChatUpTo(made') /\ MessageUpTo(made) \subseteq MessageUpTo(made')
  BY <1>3 DEF ChatUpTo, MessageUpTo
<1>5. stream \in Seq(ChatUpTo(made')) /\ messages \in Seq(MessageUpTo(made'))
        /\ echo \subseteq ChatUpTo(made')
  BY <1>1, <1>4, SeqMonotonic
<1> DEFINE Typed == /\ stream' \in Seq(ChatUpTo(made')) /\ messages' \in Seq(MessageUpTo(made'))
                    /\ echo' \subseteq ChatUpTo(made')
<1>6. Typed
  <2>1. CASE UNCHANGED <<echo, stream, messages>> BY <1>5, <2>1
  <2>2. ASSUME NEW c \in calls, PageAdds(c) PROVE Typed
    <3>1. [id |-> c.id, op |-> c.op, by |-> "page", class |-> "sent"] \in MessageUpTo(made')
      BY <1>3, <2>2 DEF PageAdds, CallsInv, MessageUpTo, Chats
    <3>2. messages' = Append(messages, [id |-> c.id, op |-> c.op, by |-> "page", class |-> "sent"])
      BY <2>2 DEF PageAdds, AddMsg
    <3>3. messages' \in Seq(MessageUpTo(made')) BY <1>5, <3>1, <3>2, AppendProperties
    <3>4. stream' = stream /\ echo' = echo BY <2>2 DEF PageAdds, ours
    <3> QED BY <1>5, <3>3, <3>4
  <2>3. ASSUME NEW c \in calls, ChatServed(c) PROVE Typed
    <3>1. c.op \in Chats /\ c.id \in 0 .. made' BY <1>3, <2>3 DEF ChatServed, Handled, CallsInv
    <3>2. /\ [id |-> c.id, op |-> c.op, by |-> "node"] \in ChatUpTo(made')
          /\ [id |-> c.id, op |-> c.op, by |-> "echo"] \in ChatUpTo(made')
      BY <3>1 DEF ChatUpTo
    <3>3. Append(stream, [id |-> c.id, op |-> c.op, by |-> "node"]) \in Seq(ChatUpTo(made'))
      BY <1>5, <3>2, AppendProperties
    <3>4. stream' \in Seq(ChatUpTo(made')) BY <1>5, <2>3, <3>3 DEF ChatServed, Handled
    <3>5. echo' \subseteq ChatUpTo(made') BY <1>5, <2>3, <3>2 DEF ChatServed, Handled
    <3>6. messages' = messages BY <2>3 DEF ChatServed
    <3> QED BY <1>5, <3>4, <3>5, <3>6
  <2>4. CASE PacketMessage
    <3>1. /\ messages' = Append(messages, Taken) /\ Taken \in MessageUpTo(made)
          /\ stream' \in Seq(ChatUpTo(made)) /\ made' = made /\ echo' = echo
      BY <2>4, PacketTaken
    <3> QED BY <1>1, <3>1, AppendProperties
  <2>5. CASE Echoed
    <3>1. PICK chat \in echo : /\ echo' = echo \ {chat}
                               /\ stream' \in {stream, Append(stream, chat)}
      BY <2>5 DEF Echoed
    <3>2. Append(stream, chat) \in Seq(ChatUpTo(made')) BY <1>5, AppendProperties
    <3>3. messages' = messages BY <2>5 DEF Echoed
    <3> QED BY <1>5, <3>1, <3>2, <3>3
  <2>6. CASE /\ UNCHANGED <<ours, calls, made, messages>>
             /\ stream' \in {<<>>, Append(stream, [id |-> 0, op |-> "other", by |-> "node"])}
    <3>1. [id |-> 0, op |-> "other", by |-> "node"] \in ChatUpTo(made') BY <1>3 DEF ChatUpTo
    <3>2. <<>> \in Seq(ChatUpTo(made')) BY EmptySeq
    <3>3. Append(stream, [id |-> 0, op |-> "other", by |-> "node"]) \in Seq(ChatUpTo(made'))
      BY <1>5, <3>1, AppendProperties
    <3>4. stream' \in Seq(ChatUpTo(made')) BY <2>6, <3>2, <3>3
    <3>5. messages' = messages /\ echo' = echo BY <2>6 DEF ours
    <3> QED BY <1>5, <3>4, <3>5
  <2> QED BY <1>2, <2>1, <2>2, <2>3, <2>4, <2>5, <2>6, Zenon DEF ChatSteps
<1>7. address' \in BOOLEAN /\ ownPeer' \in BOOLEAN BY <1>2, Zenon DEF ChatSteps, ChatsInv
<1> QED BY <1>6, <1>7 DEF ChatsInv
-----------------------------------------------------------------------------
(* Versions *)

\* The types that the next lemmas keep needing
LEMMA CallTypes ==
  ASSUME CallsInv, ViewsInv, NEW c \in calls
  PROVE  /\ c.id \in 1 .. made /\ c.id \in Nat /\ c.op \in Op /\ c.got \in Nat
         /\ c.at \in {"reading", "sent", "answered"}
         /\ ResourceOf(c.op) \in Resource
         /\ node[ResourceOf(c.op)] \in Nat /\ acked[ResourceOf(c.op)] \in Nat
  BY ResourceOfOp DEF CallsInv, ViewsInv

\* What a call becomes in a step that moves it
LEMMA MovedFields ==
  ASSUME CallsInv, NEW c \in calls
  PROVE  /\ \A k : LET d == [c EXCEPT !.at = "answered", !.got = k]
                   IN  d.id = c.id /\ d.op = c.op /\ d.at = "answered" /\ d.got = k
         /\ LET d == [c EXCEPT !.at = "sent"]
            IN  d.id = c.id /\ d.op = c.op /\ d.at = "sent" /\ d.got = c.got
         /\ LET d == [c EXCEPT !.op = "graph", !.at = "sent", !.got = 0]
            IN  d.id = c.id /\ d.op = "graph" /\ d.at = "sent" /\ d.got = 0
  BY DEF CallsInv

\* What the node has does not go back.
LEMMA NodeGrows ==
  ASSUME ViewsInv, NEW r \in Resource, node' \in {node, [node EXCEPT ![r] = @ + 1]}
  PROVE  \A s \in Resource : node'[s] \in Nat \ {0} /\ node[s] \in Nat /\ node[s] <= node'[s]
  BY DEF ViewsInv

\* The versions stay behind those of the node.
LEMMA VersionsKept ==
  ASSUME CallsInv, ViewsInv, VersionsInv, Kind
  PROVE  VersionsInv'
<1>1. CASE Aside \/ Refused \/ Received \/ Streamed \/ Echoed
  <2>1. UNCHANGED <<calls, node, acked, view>>
    BY <1>1 DEF Aside, Refused, Received, PacketMessage, Streamed, Echoed, history
  <2> QED BY <2>1 DEF VersionsInv, Current
<1>2. ASSUME NEW rest \in SUBSET calls, NEW op \in Op, NEW at \in {"reading", "sent"},
             Begin(rest, op, at), UNCHANGED node
      PROVE  \A d \in calls' : Current(d)'
  <2>1. ResourceOf(op) \in Resource BY ResourceOfOp
  <2>2. node[ResourceOf(op)] \in Nat BY <2>1 DEF ViewsInv
  <2>3. ASSUME NEW d \in calls' PROVE Current(d)'
    <3>1. CASE d \in calls BY <1>2, <3>1 DEF VersionsInv, Current
    <3>2. CASE d = [id |-> made + 1, op |-> op, at |-> at, got |-> 0]
      BY <1>2, <2>2, <3>2 DEF Current
    <3> QED BY <1>2, <2>3, <3>1, <3>2 DEF Begin
  <2> QED BY <2>3
<1>3. "table" \in View /\ "routing" \in Resource /\ "table" \notin Searches
  BY DEF View, Resource, Searches
<1>4. ASSUME NEW op \in Op, NEW at \in {"reading", "sent"}, Begun(op, at) PROVE VersionsInv'
  <2>1. \A d \in calls' : Current(d)' BY <1>2, <1>4 DEF Begun
  <2>2. view'["table"] = view["table"] BY <1>3, <1>4 DEF Begun, ViewsInv
  <2> QED BY <1>4, <2>1, <2>2 DEF Begun, VersionsInv
<1>5. ASSUME NEW c \in calls, Done(c) PROVE VersionsInv'
  <2> DEFINE op == IF c.op = "add" THEN "catalog" ELSE "table"
  <2>1. op \in Op BY Ops
  <2>2. Begin(calls \ {c}, op, "sent") /\ UNCHANGED <<node, view>> BY <1>5 DEF Done
  <2>3. \A d \in calls' : Current(d)' BY <1>2, <2>1, <2>2
  <2>4. PICK r \in Resource : r = ResourceOf(c.op) BY CallTypes
  <2>5. acked' = [acked EXCEPT ![r] = IF c.got > @ THEN c.got ELSE @]
    BY <1>5, <2>4 DEF Done, Acknowledge
  <2>6. c.got <= node[r] BY <2>4 DEF VersionsInv, Current
  <2>7. \A s \in Resource : acked[s] <= node[s] BY DEF VersionsInv
  <2>8. \A s \in Resource : acked'[s] <= node[s] BY <2>5, <2>6, <2>7 DEF ViewsInv
  <2> QED BY <2>2, <2>3, <2>8 DEF VersionsInv
<1>6. ASSUME NEW c \in calls, Closed(c) \/ Dropped(c) PROVE VersionsInv'
  <2>1. UNCHANGED <<node, acked, view>> /\ calls' \subseteq calls
    BY <1>6 DEF Closed, Dropped, End
  <2> QED BY <2>1 DEF VersionsInv, Current
<1>7. ASSUME NEW c \in calls, NEW v \in View, Written(c, v) PROVE VersionsInv'
  <2>1. UNCHANGED <<node, acked>> /\ calls' \subseteq calls /\ v # "table" /\ Show(v, c)
    BY <1>7 DEF Written, End
  <2>2. view'["table"] = view["table"] BY <1>3, <2>1 DEF Show, ViewsInv
  <2> QED BY <2>1, <2>2 DEF VersionsInv, Current
<1>8. ASSUME NEW c \in calls, Tabled(c) PROVE VersionsInv'
  <2> DEFINE d == [c EXCEPT !.op = "graph", !.at = "sent", !.got = 0]
  <2>1. calls' = (calls \ {c}) \cup {d} /\ UNCHANGED <<node, acked>>
    BY <1>8 DEF Tabled, ThenGraph
  <2>2. d.op = "graph" /\ d.at = "sent" /\ d.got = 0 BY MovedFields
  <2>3. ResourceOf("graph") = "routing" /\ ResourceOf(c.op) = "routing"
    BY <1>8, ResourceOfOp DEF Tabled
  <2>4. node["routing"] \in Nat BY <1>3 DEF ViewsInv
  <2> HIDE DEF d
  <2>5. Current(d)' BY <2>1, <2>2, <2>3, <2>4 DEF Current
  <2>6. \A e \in calls' : Current(e)' BY <2>1, <2>5 DEF VersionsInv, Current
  <2>7. view'["table"].version <= node["routing"]
    <3>1. CASE Show("table", c)
      <4>1. view'["table"].version = c.got BY <1>3, <3>1 DEF Show, ViewsInv
      <4> QED BY <2>3, <4>1 DEF VersionsInv, Current
    <3>2. CASE UNCHANGED view BY <3>2 DEF VersionsInv
    <3> QED BY <1>8, <3>1, <3>2 DEF Tabled
  <2> QED BY <2>1, <2>6, <2>7 DEF VersionsInv
<1>9. ASSUME NEW c \in calls, Loaded(c) PROVE VersionsInv'
  <2> DEFINE d == [c EXCEPT !.at = "sent"]
  <2>1. calls' = (calls \ {c}) \cup {d} /\ UNCHANGED <<node, acked, view>> BY <1>9 DEF Loaded
  <2>2. d.op = c.op /\ d.at = "sent" /\ d.got = c.got BY MovedFields
  <2> HIDE DEF d
  <2>3. Current(d)' BY <2>1, <2>2 DEF VersionsInv, Current
  <2>4. \A e \in calls' : Current(e)' BY <2>1, <2>3 DEF VersionsInv, Current
  <2> QED BY <2>1, <2>4 DEF VersionsInv
<1>10. ASSUME NEW r \in Resource, (\E c \in calls : Served(c, r)) \/ Changed(r)
       PROVE  VersionsInv'
  <2>1. node' \in {node, [node EXCEPT ![r] = @ + 1]} /\ UNCHANGED <<acked, view>>
    BY <1>10 DEF Served, Changed
  <2>2. \A s \in Resource : node'[s] \in Nat \ {0} /\ node[s] \in Nat /\ node[s] <= node'[s]
    BY <2>1, NodeGrows
  <2>3. \A e \in calls : Current(e)'
    <3> SUFFICES ASSUME NEW e \in calls PROVE Current(e)' OBVIOUS
    <3>1. PICK s \in Resource : s = ResourceOf(e.op) BY CallTypes
    <3>2. e.got \in Nat /\ e.got <= node[s] BY <3>1, CallTypes DEF VersionsInv, Current
    <3>3. e.got <= node'[s] BY <2>2, <3>2
    <3> QED BY <3>1, <3>3 DEF VersionsInv, Current
  <2>4. \A e \in calls' : Current(e)'
    <3>1. CASE Changed(r) BY <2>3, <3>1 DEF Changed
    <3>2. ASSUME NEW c \in calls, Served(c, r) PROVE \A e \in calls' : Current(e)'
      <4>1. PICK k : k = node'[r] OBVIOUS
      <4> DEFINE d == [c EXCEPT !.at = "answered", !.got = k]
      <4>2. calls' = (calls \ {c}) \cup {d} /\ r = ResourceOf(c.op) BY <3>2, <4>1 DEF Served
      <4>3. d.op = c.op /\ d.got = k BY MovedFields
      <4>4. k \in Nat \ {0} /\ k <= node'[r] BY <2>2, <4>1
      <4> HIDE DEF d
      <4>5. Current(d)' BY <4>2, <4>3, <4>4 DEF Current
      <4> QED BY <2>3, <4>2, <4>5
    <3> QED BY <1>10, <3>1, <3>2
  <2>5. \A s \in Resource : acked[s] <= node'[s]
    BY <2>2 DEF VersionsInv, ViewsInv
  <2>6. view["table"].version <= node'["routing"]
    <3>1. view["table"].version \in Nat BY <1>3 DEF ViewsInv
    <3>2. view["table"].version <= node["routing"] BY DEF VersionsInv
    <3> QED BY <1>3, <2>2, <3>1, <3>2
  <2> QED BY <2>1, <2>4, <2>5, <2>6 DEF VersionsInv
<1> QED BY <1>1, <1>4, <1>5, <1>6, <1>7, <1>8, <1>9, <1>10 DEF Kind
-----------------------------------------------------------------------------
(* The last call for a view *)

\* A call that goes on does so for the same views, or for the graph after the table.
LEMMA Moves ==
  ASSUME CallsInv, NEW c \in calls,
         Tabled(c) \/ Loaded(c) \/ \E r \in Resource : Served(c, r)
  PROVE  \E d : /\ calls' = (calls \ {c}) \cup {d} /\ d.id = c.id
                /\ \/ d.op = c.op
                   \/ c.op = "table" /\ d.op = "graph"
                /\ Tabled(c) => d.op = "graph" /\ d.at = "sent"
                /\ Loaded(c) => c.at = "reading" /\ d.op = c.op /\ d.at = "sent" /\ d.got = c.got
                /\ \A r \in Resource : Served(c, r) =>
                     c.at = "sent" /\ d.op = c.op /\ d.at = "answered" /\ d.got = node'[r]
                /\ UNCHANGED <<made, last, overlapped>>
                /\ failed \subseteq failed' /\ failed' \subseteq failed \cup {"table"}
<1>1. CASE Tabled(c)
  <2>1. PICK d : d = [c EXCEPT !.op = "graph", !.at = "sent", !.got = 0] OBVIOUS
  <2>2. calls' = (calls \ {c}) \cup {d} BY <1>1, <2>1 DEF Tabled, ThenGraph
  <2>3. d.id = c.id /\ d.op = "graph" /\ d.at = "sent" BY <2>1, MovedFields
  <2>4. UNCHANGED <<made, last, overlapped>> /\ c.op = "table"
        /\ failed \subseteq failed' /\ failed' \subseteq failed \cup {"table"}
    BY <1>1 DEF Tabled, ThenGraph
  <2>5. ~Loaded(c) /\ \A r \in Resource : ~Served(c, r)
    <3>1. d \in calls' /\ d.op = "graph" /\ d.id = c.id /\ c.op = "table" BY <2>2, <2>3, <2>4
    <3>2. ASSUME NEW e, e.id = c.id, e.op = c.op, calls' = (calls \ {c}) \cup {e} PROVE FALSE
      <4>1. d # e BY <2>3, <2>4, <3>2
      <4>2. d \in calls \ {c} BY <2>2, <3>2, <4>1
      <4> QED BY <2>3, <4>2 DEF CallsInv
    <3>3. ~Loaded(c)
      <4>1. PICK e : e = [c EXCEPT !.at = "sent"] OBVIOUS
      <4>2. e.id = c.id /\ e.op = c.op BY <4>1, MovedFields
      <4> QED BY <3>2, <4>1, <4>2 DEF Loaded
    <3>4. ASSUME NEW r \in Resource, Served(c, r) PROVE FALSE
      <4>1. PICK k : k = node'[r] OBVIOUS
      <4>2. PICK e : e = [c EXCEPT !.at = "answered", !.got = k] OBVIOUS
      <4>3. e.id = c.id /\ e.op = c.op BY <4>2, MovedFields
      <4> QED BY <3>2, <3>4, <4>1, <4>2, <4>3 DEF Served
    <3> QED BY <3>3, <3>4
  <2> QED BY <2>2, <2>3, <2>4, <2>5
<1>2. CASE Loaded(c)
  <2>1. PICK d : d = [c EXCEPT !.at = "sent"] OBVIOUS
  <2>2. calls' = (calls \ {c}) \cup {d} BY <1>2, <2>1 DEF Loaded
  <2>3. d.id = c.id /\ d.op = c.op /\ d.at = "sent" /\ d.got = c.got BY <2>1, MovedFields
  <2>4. UNCHANGED <<made, last, overlapped, failed>> /\ c.at = "reading" BY <1>2 DEF Loaded
  <2>5. ~Tabled(c) /\ \A r \in Resource : ~Served(c, r) BY <2>4 DEF Tabled, Served
  <2> QED BY <1>2, <2>2, <2>3, <2>4, <2>5
<1>3. CASE ~Tabled(c) /\ \E r \in Resource : Served(c, r)
  <2>1. PICK r \in Resource : Served(c, r) BY <1>3
  <2>2. PICK k : k = node'[r] OBVIOUS
  <2>3. PICK d : d = [c EXCEPT !.at = "answered", !.got = k] OBVIOUS
  <2>4. calls' = (calls \ {c}) \cup {d} BY <2>1, <2>2, <2>3 DEF Served
  <2>5. d.id = c.id /\ d.op = c.op /\ d.at = "answered" /\ d.got = k BY <2>3, MovedFields
  <2>6. UNCHANGED <<made, last, overlapped, failed>> /\ c.at = "sent" BY <2>1 DEF Served
  <2>7. ~Loaded(c) BY <2>6 DEF Loaded
  <2>8. \A s \in Resource : Served(c, s) => s = r BY <2>1 DEF Served
  <2> QED BY <1>3, <2>1, <2>2, <2>4, <2>5, <2>6, <2>7, <2>8
<1> QED BY <1>1, <1>2, <1>3

\* The calls that go on, each with the views that it is still to write, are some of those
\* that waited.
LEMMA GoesOn ==
  ASSUME CallsInv, NEW c \in calls,
         \/ Closed(c) \/ Dropped(c) \/ Tabled(c) \/ Loaded(c)
         \/ \E v \in View : Written(c, v)
         \/ \E r \in Resource : Served(c, r)
  PROVE  /\ \A d \in calls' : \E e \in calls :
              d.id = e.id /\ ViewsOf(d.op) \subseteq ViewsOf(e.op)
         /\ UNCHANGED <<made, last, overlapped>>
         /\ failed \subseteq failed'
<1>1. CASE Closed(c) \/ Dropped(c) \/ \E v \in View : Written(c, v)
  <2>1. calls' = calls \ {c} /\ UNCHANGED <<made, last, overlapped>> /\ failed \subseteq failed'
    BY <1>1 DEF Closed, Dropped, Written, End
  <2> QED BY <2>1
<1>2. CASE Tabled(c) \/ Loaded(c) \/ \E r \in Resource : Served(c, r)
  <2>1. PICK d : /\ calls' = (calls \ {c}) \cup {d} /\ d.id = c.id
                 /\ d.op = c.op \/ (c.op = "table" /\ d.op = "graph")
                 /\ UNCHANGED <<made, last, overlapped>> /\ failed \subseteq failed'
    BY <1>2, Moves
  <2>2. ViewsOf(d.op) \subseteq ViewsOf(c.op) BY <2>1, ViewsOfOp
  <2> QED BY <2>1, <2>2
<1> QED BY <1>1, <1>2

\* A view whose last call met no other is written by none but that.
LEMMA LastKept ==
  ASSUME CallsInv, ViewsInv, LastInv, Kind
  PROVE  LastInv'
<1>1. CASE Aside \/ Refused \/ Received \/ Streamed \/ Echoed \/ \E r \in Resource : Changed(r)
  <2>1. UNCHANGED <<calls, last, overlapped>>
    BY <1>1 DEF Aside, Refused, Received, PacketMessage, Streamed, Echoed, Changed, history
  <2> QED BY <2>1 DEF LastInv
<1>2. ASSUME NEW rest \in SUBSET calls, NEW op \in Op, NEW at \in {"reading", "sent"},
             Begin(rest, op, at)
      PROVE  LastInv'
  <2> DEFINE d == [id |-> made + 1, op |-> op, at |-> at, got |-> 0]
  <2>1. calls' = rest \cup {d} /\ d.id = made + 1 /\ d.op = op BY <1>2 DEF Begin
  <2> HIDE DEF d
  <2> SUFFICES ASSUME NEW v \in View \ overlapped', NEW e \in calls', v \in ViewsOf(e.op)
               PROVE  e.id = last'[v]
    BY DEF LastInv
  <2>2. last'[v] = IF v \in ViewsOf(op) THEN made + 1 ELSE last[v] BY <1>2 DEF Begin
  <2>3. CASE v \in ViewsOf(op)
    <3>1. \A x \in rest : v \notin ViewsOf(x.op) BY <1>2, <2>3 DEF Begin
    <3> QED BY <2>1, <2>2, <2>3, <3>1
  <2>4. CASE v \notin ViewsOf(op)
    <3>1. v \notin overlapped /\ e \in calls BY <1>2, <2>1, <2>4 DEF Begin
    <3> QED BY <2>2, <2>4, <3>1 DEF LastInv
  <2> QED BY <2>3, <2>4
<1>3. ASSUME NEW op \in Op, NEW at \in {"reading", "sent"}, Begun(op, at) PROVE LastInv'
  BY <1>2, <1>3 DEF Begun
<1>4. ASSUME NEW c \in calls, Done(c) PROVE LastInv'
  <2>1. PICK op \in Op : Begin(calls \ {c}, op, "sent") BY <1>4, Ops DEF Done
  <2> QED BY <1>2, <2>1
<1>5. ASSUME NEW c \in calls,
             \/ Closed(c) \/ Dropped(c) \/ Tabled(c) \/ Loaded(c)
             \/ \E v \in View : Written(c, v)
             \/ \E r \in Resource : Served(c, r)
      PROVE  LastInv'
  <2>1. /\ \A d \in calls' : \E e \in calls :
             d.id = e.id /\ ViewsOf(d.op) \subseteq ViewsOf(e.op)
        /\ UNCHANGED <<last, overlapped>>
    BY <1>5, GoesOn
  <2> QED BY <2>1 DEF LastInv
<1> QED BY <1>1, <1>3, <1>4, <1>5 DEF Kind

\* A view that waits, and goes on to
LEMMA StillWaiting ==
  ASSUME CallsInv, NEW c \in calls, NEW v \in View, Waiting(v),
         \/ calls' = calls \ {c} /\ v \notin ViewsOf(c.op)
         \/ Loaded(c) \/ \E r \in Resource : Served(c, r)
         \/ Tabled(c) /\ v # "table"
  PROVE  Waiting(v)'
<1>1. PICK e \in calls : v \in ViewsOf(e.op) BY DEF Waiting
<1>2. CASE calls' = calls \ {c} /\ v \notin ViewsOf(c.op) BY <1>1, <1>2 DEF Waiting
<1>3. CASE (Tabled(c) /\ v # "table") \/ Loaded(c) \/ \E r \in Resource : Served(c, r)
  <2>1. PICK d : /\ calls' = (calls \ {c}) \cup {d}
                 /\ d.op = c.op \/ (c.op = "table" /\ d.op = "graph")
                 /\ Tabled(c) => d.op = "graph"
                 /\ Loaded(c) => d.op = c.op
                 /\ \A r \in Resource : Served(c, r) => d.op = c.op
    BY <1>3, Moves
  <2>2. e = c => v \in ViewsOf(d.op)
    <3>1. CASE d.op = c.op BY <1>1, <3>1
    <3>2. CASE Tabled(c) /\ v # "table"
      BY <1>1, <2>1, <3>2, ViewsOfOp DEF Tabled
    <3> QED BY <1>3, <2>1, <3>1, <3>2
  <2> QED BY <1>1, <2>1, <2>2 DEF Waiting
<1> QED BY <1>2, <1>3

\* A call that begins leaves those that wait for other views.
LEMMA BeginWaiting ==
  ASSUME NEW rest, NEW op \in Op, NEW at, Begin(rest, op, at), NEW v \in View
  PROVE  /\ v \in ViewsOf(op) => Waiting(v)'
         /\ (\E d \in rest : v \in ViewsOf(d.op)) => Waiting(v)'
         /\ v \notin ViewsOf(op) => /\ last'[v] = last[v]
                                    /\ v \in overlapped' <=> v \in overlapped
                                    /\ v \in failed' <=> v \in failed
         /\ v \in ViewsOf(op) => v \notin failed'
<1> DEFINE d == [id |-> made + 1, op |-> op, at |-> at, got |-> 0]
<1>1. calls' = rest \cup {d} /\ d.op = op BY DEF Begin
<1> HIDE DEF d
<1>2. v \in ViewsOf(op) => Waiting(v)' BY <1>1 DEF Waiting
<1>3. (\E x \in rest : v \in ViewsOf(x.op)) => Waiting(v)' BY <1>1 DEF Waiting
<1>4. v \notin ViewsOf(op) => /\ last'[v] = last[v]
                              /\ v \in overlapped' <=> v \in overlapped
                              /\ v \in failed' <=> v \in failed
  BY DEF Begin
<1>5. v \in ViewsOf(op) => v \notin failed' BY DEF Begin
<1> QED BY <1>2, <1>3, <1>4, <1>5

\* A view that no call is to write shows what its last call brought.
LEMMA LastShownKept ==
  ASSUME CallsInv, ViewsInv, LastInv, LastAnswerShown, Kind
  PROVE  LastAnswerShown'
<1> SUFFICES ASSUME NEW v \in View \ (overlapped' \cup failed')
             PROVE  Waiting(v)' \/ view'[v].from = last'[v]
  BY DEF LastAnswerShown
<1>0. v \notin overlapped \cup failed => Waiting(v) \/ view[v].from = last[v]
  BY DEF LastAnswerShown
<1>1. CASE Aside \/ Refused \/ Received \/ Streamed \/ Echoed \/ \E r \in Resource : Changed(r)
  <2>1. UNCHANGED <<calls, last, overlapped, failed, view>>
    BY <1>1 DEF Aside, Refused, Received, PacketMessage, Streamed, Echoed, Changed, history
  <2> QED BY <1>0, <2>1 DEF Waiting
<1>2. ASSUME NEW op \in Op, NEW at \in {"reading", "sent"}, Begun(op, at)
      PROVE  Waiting(v)' \/ view'[v].from = last'[v]
  <2>1. Begin(calls, op, at) BY <1>2 DEF Begun
  <2>2. CASE v \in ViewsOf(op) BY <2>1, <2>2, BeginWaiting
  <2>3. CASE v \notin ViewsOf(op)
    <3>1. v # op \/ op \notin Searches BY <2>3, ViewsOfOp
    <3>2. view'[v] = view[v] BY <1>2, <3>1 DEF Begun, ViewsInv
    <3>3. last'[v] = last[v] /\ v \notin overlapped \cup failed BY <2>1, <2>3, BeginWaiting
    <3>4. Waiting(v) => Waiting(v)' BY <2>1, BeginWaiting DEF Waiting
    <3> QED BY <1>0, <3>2, <3>3, <3>4
  <2> QED BY <2>2, <2>3
<1>3. ASSUME NEW c \in calls, Done(c)
      PROVE  Waiting(v)' \/ view'[v].from = last'[v]
  <2>1. PICK op \in Op : Begin(calls \ {c}, op, "sent") BY <1>3, Ops DEF Done
  <2>2. ViewsOf(c.op) = {} BY <1>3, ViewsOfOp DEF Done, Followed
  <2>3. CASE v \in ViewsOf(op) BY <2>1, <2>3, BeginWaiting
  <2>4. CASE v \notin ViewsOf(op)
    <3>1. last'[v] = last[v] /\ v \notin overlapped \cup failed BY <2>1, <2>4, BeginWaiting
    <3>2. Waiting(v) => Waiting(v)' BY <2>1, <2>2, BeginWaiting DEF Waiting
    <3>3. view' = view BY <1>3 DEF Done
    <3> QED BY <1>0, <3>1, <3>2, <3>3
  <2> QED BY <2>3, <2>4
<1>4. ASSUME NEW c \in calls, Closed(c) \/ Dropped(c)
      PROVE  Waiting(v)' \/ view'[v].from = last'[v]
  <2>1. calls' = calls \ {c} /\ UNCHANGED <<view, last, overlapped>>
        /\ failed \subseteq failed' /\ v \notin ViewsOf(c.op)
    BY <1>4 DEF Closed, Dropped, End
  <2> QED BY <1>0, <2>1, StillWaiting
<1>5. ASSUME NEW c \in calls, NEW w \in View, Written(c, w)
      PROVE  Waiting(v)' \/ view'[v].from = last'[v]
  <2>1. calls' = calls \ {c} /\ UNCHANGED <<last, overlapped, failed>>
        /\ ViewsOf(c.op) = {w} /\ Show(w, c)
    BY <1>5 DEF Written, End
  <2>2. CASE v = w
    <3>1. view'[v].from = c.id BY <2>1, <2>2 DEF Show, ViewsInv
    <3>2. c.id = last[v] BY <2>1, <2>2 DEF LastInv
    <3> QED BY <2>1, <3>1, <3>2
  <2>3. CASE v # w
    <3>1. view'[v] = view[v] BY <2>1, <2>3 DEF Show, ViewsInv
    <3>2. Waiting(v) => Waiting(v)' BY <2>1, <2>3, StillWaiting
    <3> QED BY <1>0, <2>1, <3>1, <3>2
  <2> QED BY <2>2, <2>3
<1>6. ASSUME NEW c \in calls, Tabled(c)
      PROVE  Waiting(v)' \/ view'[v].from = last'[v]
  <2>1. UNCHANGED <<last, overlapped>> /\ failed \subseteq failed' /\ c.op = "table"
    BY <1>6 DEF Tabled, ThenGraph
  <2>2. CASE v = "table"
    <3>1. Show("table", c) BY <1>6, <2>2 DEF Tabled
    <3>2. view'[v].from = c.id BY <2>2, <3>1 DEF Show, ViewsInv
    <3>3. c.id = last[v] BY <2>1, <2>2, ViewsOfOp DEF LastInv
    <3> QED BY <2>1, <3>2, <3>3
  <2>3. CASE v # "table"
    <3>1. view'[v] = view[v] BY <1>6, <2>3 DEF Tabled, Show, ViewsInv
    <3>2. Waiting(v) => Waiting(v)' BY <1>6, <2>3, StillWaiting
    <3> QED BY <1>0, <2>1, <3>1, <3>2
  <2> QED BY <2>2, <2>3
<1>7. ASSUME NEW c \in calls, Loaded(c) \/ \E r \in Resource : Served(c, r)
      PROVE  Waiting(v)' \/ view'[v].from = last'[v]
  <2>1. UNCHANGED <<view, last, overlapped, failed>> BY <1>7 DEF Loaded, Served
  <2>2. Waiting(v) => Waiting(v)' BY <1>7, StillWaiting
  <2> QED BY <1>0, <2>1, <2>2
<1> QED BY <1>1, <1>2, <1>3, <1>4, <1>5, <1>6, <1>7 DEF Kind
-----------------------------------------------------------------------------
(* The graph and the table *)

Quiet == {"table", "graph"} \cap (overlapped \cup failed) = {}

\* A call that begins does not bring an older graph.
LEMMA BeginGraph ==
  ASSUME CallsInv, GraphInv, GraphNotOlder, NEW rest \in SUBSET calls, NEW op \in Op,
         NEW at \in {"reading", "sent"}, Begin(rest, op, at),
         \A e \in calls \ rest : "graph" \notin ViewsOf(e.op),
         view'["table"] = view["table"], view'["graph"] = view["graph"]
  PROVE  GraphInv' /\ GraphNotOlder'
<1> DEFINE d == [id |-> made + 1, op |-> op, at |-> at, got |-> 0]
<1>1. calls' = rest \cup {d} /\ d.op = op /\ d.at # "answered" BY DEF Begin
<1> HIDE DEF d
<1>2. "table" \in View /\ "graph" \in View BY DEF View
<1>3. CASE "graph" \in ViewsOf(op)
  <2>1. Waiting("graph")' BY <1>2, <1>3, BeginWaiting
  <2>2. ASSUME Quiet' PROVE \A e \in rest : "graph" \notin ViewsOf(e.op)
    BY <1>3, <2>2 DEF Quiet, Begin
  <2>3. Quiet' => \A e \in calls' : e.op = "graph" => e.at # "answered"
    BY <1>1, <2>2, ViewsOfOp
  <2> QED BY <2>1, <2>3 DEF GraphInv, GraphNotOlder, Quiet
<1>4. CASE "graph" \notin ViewsOf(op)
  <2>1. "table" \notin ViewsOf(op) BY <1>4, WritersOf
  <2>2. Quiet' => Quiet BY <1>4, <2>1 DEF Begin, Quiet
  <2>3. \A e \in calls' : e.at = "answered" => e \in calls BY <1>1
  <2>4. Waiting("graph") => Waiting("graph")' BY <1>1 DEF Waiting
  <2> QED BY <2>2, <2>3, <2>4 DEF GraphInv, GraphNotOlder, Quiet
<1> QED BY <1>3, <1>4

\* The graph is not older than the table, and will not be.
LEMMA GraphKept ==
  ASSUME CallsInv, ViewsInv, VersionsInv, LastInv, GraphInv, GraphNotOlder, Kind
  PROVE  GraphInv' /\ GraphNotOlder'
<1>0. "table" \in View /\ "graph" \in View /\ "table" \notin Searches /\ "graph" \notin Searches
      /\ "routing" \in Resource
  BY DEF View, Searches, Resource
<1>1. CASE Aside \/ Refused \/ Received \/ Streamed \/ Echoed \/ \E r \in Resource : Changed(r)
  <2>1. UNCHANGED <<calls, overlapped, failed, view>>
    BY <1>1 DEF Aside, Refused, Received, PacketMessage, Streamed, Echoed, Changed, history
  <2> QED BY <2>1 DEF GraphInv, GraphNotOlder, Waiting
<1>2. ASSUME NEW op \in Op, NEW at \in {"reading", "sent"}, Begun(op, at)
      PROVE  GraphInv' /\ GraphNotOlder'
  <2>1. Begin(calls, op, at) BY <1>2 DEF Begun
  <2>2. view'["table"] = view["table"] /\ view'["graph"] = view["graph"]
    BY <1>0, <1>2 DEF Begun, ViewsInv
  <2>3. calls \in SUBSET calls /\ \A e \in calls \ calls : "graph" \notin ViewsOf(e.op) OBVIOUS
  <2> QED BY <2>1, <2>2, <2>3, BeginGraph
<1>3. ASSUME NEW c \in calls, Done(c) PROVE GraphInv' /\ GraphNotOlder'
  <2>1. PICK op \in Op : Begin(calls \ {c}, op, "sent") BY <1>3, Ops DEF Done
  <2>2. view' = view /\ ViewsOf(c.op) = {} BY <1>3, ViewsOfOp DEF Done, Followed
  <2>3. calls \ {c} \in SUBSET calls
        /\ \A e \in calls \ (calls \ {c}) : "graph" \notin ViewsOf(e.op)
    BY <2>2
  <2> QED BY <2>1, <2>2, <2>3, BeginGraph
<1>4. ASSUME NEW c \in calls, Closed(c) \/ Dropped(c) PROVE GraphInv' /\ GraphNotOlder'
  <2>1. calls' = calls \ {c} /\ UNCHANGED <<view, overlapped>> /\ failed \subseteq failed'
    BY <1>4 DEF Closed, Dropped, End
  <2>2. Quiet' => Quiet /\ "graph" \notin ViewsOf(c.op)
    BY <1>0, <1>4, <2>1 DEF Closed, Dropped, Quiet
  <2>3. Quiet' /\ Waiting("graph") => Waiting("graph")'
    BY <1>0, <2>1, <2>2, StillWaiting
  <2> QED BY <2>1, <2>2, <2>3 DEF GraphInv, GraphNotOlder, Quiet
<1>5. ASSUME NEW c \in calls, NEW v \in View, Written(c, v) PROVE GraphInv' /\ GraphNotOlder'
  <2>1. calls' = calls \ {c} /\ UNCHANGED <<overlapped, failed>> /\ v # "table"
        /\ ViewsOf(c.op) = {v} /\ Show(v, c) /\ c.at = "answered" /\ c.op \in Op
    BY <1>5 DEF Written, End, CallsInv
  <2>2. view'["table"] = view["table"] BY <1>0, <2>1 DEF Show, ViewsInv
  <2>3. GraphInv' BY <2>1, <2>2 DEF GraphInv
  <2>4. CASE v = "graph"
    <3>1. c.op = "graph"
      <4>1. "graph" \in ViewsOf(c.op) /\ "table" \notin ViewsOf(c.op) BY <2>1, <2>4
      <4> QED BY <2>1, <4>1, WritersOf
    <3>2. Quiet => c.got >= view["table"].version BY <2>1, <3>1 DEF GraphInv, Quiet
    <3>3. view'["graph"].version = c.got BY <2>1, <2>4 DEF Show, ViewsInv
    <3> QED BY <2>1, <2>2, <2>3, <3>2, <3>3 DEF GraphNotOlder, Quiet
  <2>5. CASE v # "graph"
    <3>1. view'["graph"] = view["graph"] BY <1>0, <2>1, <2>5 DEF Show, ViewsInv
    <3>2. Waiting("graph") => Waiting("graph")' BY <1>0, <2>1, <2>5, StillWaiting
    <3> QED BY <2>1, <2>2, <2>3, <3>1, <3>2 DEF GraphNotOlder
  <2> QED BY <2>4, <2>5
<1>6. ASSUME NEW c \in calls, Tabled(c) PROVE GraphInv' /\ GraphNotOlder'
  <2>1. PICK d : /\ calls' = (calls \ {c}) \cup {d} /\ d.op = "graph" /\ d.at = "sent"
                 /\ UNCHANGED overlapped
    BY <1>6, Moves
  <2>2. Waiting("graph")' BY <2>1, ViewsOfOp DEF Waiting
  <2>3. ASSUME Quiet', NEW e \in calls', e.op = "graph", e.at = "answered" PROVE FALSE
    <3>1. e \in calls /\ e # c BY <1>6, <2>1, <2>3 DEF Tabled
    <3>2. "graph" \in View \ overlapped BY <1>0, <2>1, <2>3 DEF Quiet
    <3>3. "graph" \in ViewsOf(e.op) /\ "graph" \in ViewsOf(c.op)
      BY <1>6, <2>3, ViewsOfOp DEF Tabled
    <3>4. e.id = c.id BY <3>1, <3>2, <3>3 DEF LastInv
    <3> QED BY <3>1, <3>4 DEF CallsInv
  <2> QED BY <2>2, <2>3 DEF GraphInv, GraphNotOlder, Quiet
<1>7. ASSUME NEW c \in calls, Loaded(c) \/ \E r \in Resource : Served(c, r)
      PROVE  GraphInv' /\ GraphNotOlder'
  <2>1. UNCHANGED <<view, overlapped, failed>> BY <1>7 DEF Loaded, Served
  <2>2. Waiting("graph") => Waiting("graph")' BY <1>0, <1>7, StillWaiting
  <2>3. PICK d : /\ calls' = (calls \ {c}) \cup {d}
                 /\ Loaded(c) => d.at = "sent"
                 /\ \A r \in Resource : Served(c, r) => d.op = c.op /\ d.got = node'[r]
    BY <1>7, Moves
  <2>4. d.op = "graph" /\ d.at = "answered" => d.got >= view["table"].version
    <3> SUFFICES ASSUME d.op = "graph", d.at = "answered"
                 PROVE  d.got >= view["table"].version
      OBVIOUS
    <3>1. PICK r \in Resource : Served(c, r) BY <1>7, <2>3
    <3>2. r = ResourceOf(c.op) /\ c.op = "graph" /\ d.got = node'[r] BY <2>3, <3>1 DEF Served
    <3>3. r = "routing" BY <3>2, ResourceOfOp
    <3>4. node' \in {node, [node EXCEPT ![r] = @ + 1]} BY <3>1 DEF Served
    <3>5. node'["routing"] \in Nat /\ node["routing"] \in Nat /\ node["routing"] <= node'["routing"]
      BY <1>0, <3>4, NodeGrows
    <3>6. view["table"].version \in Nat /\ view["table"].version <= node["routing"]
      BY <1>0 DEF ViewsInv, VersionsInv
    <3> QED BY <3>2, <3>3, <3>5, <3>6
  <2> QED BY <2>1, <2>2, <2>3, <2>4 DEF GraphInv, GraphNotOlder
<1> QED BY <1>1, <1>2, <1>3, <1>4, <1>5, <1>6, <1>7 DEF Kind

-----------------------------------------------------------------------------
(* Searches *)

\* "searching..." stays only while its search runs or if it failed.
LEMMA SearchingKept ==
  ASSUME CallsInv, ViewsInv, VersionsInv, SearchingMeansRunning, Kind
  PROVE  SearchingMeansRunning'
<1> SUFFICES ASSUME NEW v \in Searches, view'[v].from # 0, view'[v].version = 0
             PROVE  Waiting(v)' \/ v \in failed'
  BY DEF SearchingMeansRunning
<1>0. v \in View /\ v # "table" /\ v # "graph" /\ ViewsOf(v) = {v}
  BY ViewsOfOp DEF View, Searches
<1>1. ASSUME view'[v] = view[v] PROVE Waiting(v) \/ v \in failed
  BY <1>1 DEF SearchingMeansRunning
<1>2. CASE Aside \/ Refused \/ Received \/ Streamed \/ Echoed \/ \E r \in Resource : Changed(r)
  <2>1. UNCHANGED <<calls, failed, view>>
    BY <1>2 DEF Aside, Refused, Received, PacketMessage, Streamed, Echoed, Changed, history
  <2> QED BY <1>1, <2>1 DEF Waiting
<1>3. ASSUME NEW op \in Op, NEW at \in {"reading", "sent"}, Begun(op, at)
      PROVE  Waiting(v)' \/ v \in failed'
  <2>1. Begin(calls, op, at) BY <1>3 DEF Begun
  <2>2. CASE v \in ViewsOf(op) BY <1>0, <2>1, <2>2, BeginWaiting
  <2>3. CASE v \notin ViewsOf(op)
    <3>1. view'[v] = view[v] BY <1>0, <1>3, <2>3 DEF Begun, ViewsInv
    <3>2. Waiting(v) => Waiting(v)' BY <1>0, <2>1, BeginWaiting DEF Waiting
    <3> QED BY <1>0, <1>1, <2>1, <2>3, <3>1, <3>2, BeginWaiting
  <2> QED BY <2>2, <2>3
<1>4. ASSUME NEW c \in calls, Done(c) PROVE Waiting(v)' \/ v \in failed'
  <2>1. PICK op \in Op : Begin(calls \ {c}, op, "sent") BY <1>4, Ops DEF Done
  <2>2. view' = view /\ ViewsOf(c.op) = {} BY <1>4, ViewsOfOp DEF Done, Followed
  <2>3. Waiting(v) => Waiting(v)' BY <1>0, <2>1, <2>2, BeginWaiting DEF Waiting
  <2> QED BY <1>0, <1>1, <2>1, <2>2, <2>3, BeginWaiting
<1>5. ASSUME NEW c \in calls, Closed(c) \/ Dropped(c) PROVE Waiting(v)' \/ v \in failed'
  <2>1. calls' = calls \ {c} /\ view' = view /\ failed \subseteq failed'
        /\ (ViewsOf(c.op) = {} \/ ViewsOf(c.op) \subseteq failed')
    BY <1>5 DEF Closed, Dropped, End
  <2> QED BY <1>0, <1>1, <2>1, StillWaiting
<1>6. ASSUME NEW c \in calls, NEW w \in View, Written(c, w) PROVE Waiting(v)' \/ v \in failed'
  <2>1. calls' = calls \ {c} /\ UNCHANGED failed /\ ViewsOf(c.op) = {w} /\ Show(w, c)
        /\ c.at = "answered"
    BY <1>6 DEF Written, End
  <2>2. CASE v = w
    <3>1. view'[v].version = c.got /\ c.got > 0
      BY <1>0, <2>1, <2>2 DEF Show, ViewsInv, VersionsInv, Current
    <3>2. c.got \in Nat BY CallTypes
    <3> QED BY <3>1, <3>2
  <2>3. CASE v # w
    <3>1. view'[v] = view[v] BY <1>0, <2>1, <2>3 DEF Show, ViewsInv
    <3>2. Waiting(v) => Waiting(v)' BY <1>0, <2>1, <2>3, StillWaiting
    <3> QED BY <1>1, <2>1, <3>1, <3>2
  <2> QED BY <2>2, <2>3
<1>7. ASSUME NEW c \in calls, Tabled(c) \/ Loaded(c) \/ \E r \in Resource : Served(c, r)
      PROVE  Waiting(v)' \/ v \in failed'
  <2>1. failed \subseteq failed' BY <1>7 DEF Tabled, Loaded, Served
  <2>2. view'[v] = view[v] BY <1>0, <1>7 DEF Tabled, Loaded, Served, Show, ViewsInv
  <2>3. Waiting(v) => Waiting(v)' BY <1>0, <1>7, StillWaiting
  <2> QED BY <1>1, <2>1, <2>2, <2>3
<1> QED BY <1>2, <1>3, <1>4, <1>5, <1>6, <1>7 DEF Kind
-----------------------------------------------------------------------------
(* Changes that are acknowledged *)

\* Call c is to bring a version of view v that is not older than k
Brings(c, v, k) == v \in ViewsOf(c.op) /\ (c.op # v \/ c.at = "sent" \/ c.got >= k)

\* A call that goes on still brings what it was to bring.
LEMMA StillBrings ==
  ASSUME CallsInv, ViewsInv, VersionsInv, NEW c \in calls, NEW v \in {"table", "graph", "catalog"},
         NEW e \in calls, Brings(e, v, acked[ResourceOf(v)]),
         \/ calls' = calls \ {c} /\ e # c
         \/ Loaded(c) \/ \E r \in Resource : Served(c, r)
         \/ Tabled(c) /\ (v # "table" \/ e # c)
  PROVE  \E d \in calls' : Brings(d, v, acked[ResourceOf(v)])
<1>1. CASE calls' = calls \ {c} /\ e # c BY <1>1
<1>2. CASE \/ Loaded(c) \/ \E r \in Resource : Served(c, r)
           \/ Tabled(c) /\ (v # "table" \/ e # c)
  <2>1. PICK d : /\ calls' = (calls \ {c}) \cup {d}
                 /\ Tabled(c) => d.op = "graph" /\ d.at = "sent"
                 /\ Loaded(c) => d.op = c.op /\ d.at = "sent"
                 /\ \A r \in Resource : Served(c, r) => d.op = c.op /\ d.got = node'[r]
    BY <1>2, Moves
  <2>2. CASE e # c BY <2>1, <2>2
  <2>3. CASE e = c
    <3>1. CASE Tabled(c) /\ v # "table"
      <4>1. v = "graph" BY <2>3, <3>1, ViewsOfOp DEF Brings, Tabled
      <4> QED BY <2>1, <3>1, <4>1, ViewsOfOp DEF Brings
    <3>2. CASE Loaded(c) BY <2>1, <2>3, <3>2 DEF Brings
    <3>3. ASSUME NEW r \in Resource, Served(c, r)
          PROVE  \E x \in calls' : Brings(x, v, acked[ResourceOf(v)])
      <4>1. r = ResourceOf(c.op) /\ node' \in {node, [node EXCEPT ![r] = @ + 1]}
            /\ d.op = c.op /\ d.got = node'[r]
        BY <2>1, <3>3 DEF Served
      <4>2. node'[r] \in Nat /\ node[r] \in Nat /\ node[r] <= node'[r] BY <4>1, NodeGrows
      <4>3. acked[r] \in Nat /\ acked[r] <= node[r] BY DEF ViewsInv, VersionsInv
      <4>4. d.got >= acked[r] BY <4>1, <4>2, <4>3
      <4> QED BY <2>1, <2>3, <4>1, <4>4 DEF Brings
    <3> QED BY <1>2, <2>3, <3>1, <3>2, <3>3
  <2> QED BY <2>2, <2>3
<1> QED BY <1>1, <1>2

\* What the page was told to have changed is shown, or is coming, or failed to come.
LEMMA SeenKept ==
  ASSUME CallsInv, ViewsInv, VersionsInv, AckedChangeSeen, Kind
  PROVE  AckedChangeSeen'
<1> DEFINE Seen(v) == \/ best[v] >= acked[ResourceOf(v)]
                      \/ v \in failed
                      \/ \E c \in calls : Brings(c, v, acked[ResourceOf(v)])
<1>a. SUFFICES ASSUME NEW v \in {"table", "graph", "catalog"} PROVE Seen(v)'
  BY DEF AckedChangeSeen, Brings
<1>b. Seen(v) BY DEF AckedChangeSeen, Brings
<1>c. v \in View /\ v \notin Searches /\ ResourceOf(v) \in Resource /\ v \in Op
  BY Ops, ResourceOfOp DEF View, Searches
<1>d. best[v] \in Nat /\ acked[ResourceOf(v)] \in Nat BY <1>c DEF ViewsInv
<1>1. CASE Aside \/ Refused \/ Received \/ Streamed \/ Echoed \/ \E r \in Resource : Changed(r)
  <2>1. UNCHANGED <<calls, failed, best, acked>>
    BY <1>1 DEF Aside, Refused, Received, PacketMessage, Streamed, Echoed, Changed, history
  <2> QED BY <1>b, <2>1
<1>2. ASSUME NEW op \in Op, NEW at \in {"reading", "sent"}, Begun(op, at) PROVE Seen(v)'
  <2>1. Begin(calls, op, at) /\ UNCHANGED <<best, acked>> BY <1>2 DEF Begun
  <2>2. PICK d : d = [id |-> made + 1, op |-> op, at |-> at, got |-> 0] OBVIOUS
  <2>3. calls' = calls \cup {d} /\ d.op = op /\ d.at = at BY <2>1, <2>2 DEF Begin
  <2>4. CASE v \in ViewsOf(op)
    <3>1. op # v \/ at = "sent" BY <1>2 DEF Begun
    <3>2. Brings(d, v, acked[ResourceOf(v)]) BY <2>3, <2>4, <3>1 DEF Brings
    <3> QED BY <2>1, <2>3, <3>2
  <2>5. CASE v \notin ViewsOf(op)
    <3>1. v \in failed' <=> v \in failed BY <1>c, <2>1, <2>5, BeginWaiting
    <3> QED BY <1>b, <2>1, <2>3, <3>1
  <2> QED BY <2>4, <2>5
<1>3. ASSUME NEW c \in calls, Done(c) PROVE Seen(v)'
  <2>1. PICK op : op = (IF c.op = "add" THEN "catalog" ELSE "table") OBVIOUS
  <2>2. op \in Op /\ Begin(calls \ {c}, op, "sent") /\ UNCHANGED best
    BY <1>3, <2>1, Ops DEF Done
  <2>3. PICK d : d = [id |-> made + 1, op |-> op, at |-> "sent", got |-> 0] OBVIOUS
  <2>4. calls' = (calls \ {c}) \cup {d} /\ d.op = op /\ d.at = "sent"
    BY <2>2, <2>3 DEF Begin
  <2>5. CASE v \in ViewsOf(op)
    <3>1. Brings(d, v, acked'[ResourceOf(v)]) BY <2>4, <2>5 DEF Brings
    <3> QED BY <2>4, <3>1
  <2>6. CASE v \notin ViewsOf(op)
    <3>1. ResourceOf(c.op) # ResourceOf(v)
      BY <1>3, <2>1, <2>6, ViewsOfOp, ResourceOfOp DEF Done, Followed
    <3>2. acked'[ResourceOf(v)] = acked[ResourceOf(v)]
      BY <1>3, <1>c, <3>1 DEF Done, Acknowledge, ViewsInv
    <3>3. v \in failed' <=> v \in failed BY <1>c, <2>2, <2>6, BeginWaiting
    <3>4. ViewsOf(c.op) = {} BY <1>3, ViewsOfOp DEF Done, Followed
    <3>5. ~Brings(c, v, acked[ResourceOf(v)]) BY <3>4 DEF Brings
    <3> QED BY <1>b, <2>2, <2>4, <3>2, <3>3, <3>5
  <2> QED BY <2>5, <2>6
<1>4. ASSUME NEW c \in calls, Closed(c) \/ Dropped(c) PROVE Seen(v)'
  <2>1. calls' = calls \ {c} /\ UNCHANGED <<best, acked>> /\ failed \subseteq failed'
        /\ (ViewsOf(c.op) = {} \/ ViewsOf(c.op) \subseteq failed')
    BY <1>4 DEF Closed, Dropped, End
  <2>2. Brings(c, v, acked[ResourceOf(v)]) => v \in failed' BY <2>1 DEF Brings
  <2> QED BY <1>b, <2>1, <2>2
<1>5. ASSUME NEW c \in calls, NEW w \in View, Written(c, w) PROVE Seen(v)'
  <2>1. calls' = calls \ {c} /\ UNCHANGED <<acked, failed>> /\ ViewsOf(c.op) = {w}
        /\ Show(w, c) /\ c.at = "answered" /\ w # "table"
    BY <1>5 DEF Written, End
  <2>2. c.got \in Nat /\ c.op \in Op BY CallTypes
  <2>3. best'[v] = IF v = w /\ c.got > best[v] THEN c.got ELSE best[v]
    BY <1>c, <2>1 DEF Show, ViewsInv
  <2>4. best'[v] \in Nat /\ best'[v] >= best[v] BY <1>d, <2>2, <2>3
  <2>5. CASE Brings(c, v, acked[ResourceOf(v)])
    <3>1. v = w BY <2>1, <2>5 DEF Brings
    <3>2. c.op = v BY <2>1, <2>2, <3>1, WritersOf
    <3>3. c.got >= acked[ResourceOf(v)] BY <2>1, <2>5, <3>2 DEF Brings
    <3>4. best'[v] >= c.got BY <1>d, <2>2, <2>3, <3>1
    <3>5. best'[v] >= acked[ResourceOf(v)] BY <1>d, <2>2, <2>4, <3>3, <3>4
    <3> QED BY <2>1, <3>5
  <2>6. CASE ~Brings(c, v, acked[ResourceOf(v)])
    <3>1. best[v] >= acked[ResourceOf(v)] => best'[v] >= acked[ResourceOf(v)] BY <1>d, <2>4
    <3> QED BY <1>b, <2>1, <2>6, <3>1
  <2> QED BY <2>5, <2>6
<1>6. ASSUME NEW c \in calls, Tabled(c) PROVE Seen(v)'
  <2>1. UNCHANGED acked /\ failed \subseteq failed' /\ c.op = "table" BY <1>6 DEF Tabled
  <2>2. c.got \in Nat BY CallTypes
  <2>3. best'[v] \in Nat /\ best'[v] >= best[v]
    <3>1. CASE Show("table", c)
      <4>1. best'[v] = IF v = "table" /\ c.got > best[v] THEN c.got ELSE best[v]
        BY <1>c, <3>1 DEF Show, ViewsInv
      <4> QED BY <1>d, <2>2, <4>1
    <3>2. CASE UNCHANGED best BY <1>d, <3>2
    <3> QED BY <1>6, <3>1, <3>2 DEF Tabled
  <2>4. best[v] >= acked[ResourceOf(v)] => best'[v] >= acked[ResourceOf(v)] BY <1>d, <2>3
  <2>5. CASE v = "table" /\ Brings(c, v, acked[ResourceOf(v)])
    <3>1. CASE c.at = "answered" /\ Show("table", c)
      <4>1. c.got >= acked[ResourceOf(v)] BY <2>1, <2>5, <3>1 DEF Brings
      <4>2. best'[v] = IF c.got > best[v] THEN c.got ELSE best[v]
        BY <1>c, <2>5, <3>1 DEF Show, ViewsInv
      <4>3. best'[v] >= acked[ResourceOf(v)] BY <1>d, <2>2, <4>1, <4>2
      <4> QED BY <2>1, <4>3
    <3>2. CASE failed' = failed \cup {"table"} BY <2>5, <3>2
    <3> QED BY <1>6, <3>1, <3>2 DEF Tabled
  <2>6. CASE v # "table" \/ ~Brings(c, v, acked[ResourceOf(v)])
    <3>1. ASSUME NEW e \in calls, Brings(e, v, acked[ResourceOf(v)])
          PROVE  \E d \in calls' : Brings(d, v, acked[ResourceOf(v)])
      BY <1>6, <2>6, <3>1, StillBrings
    <3> QED BY <1>b, <2>1, <2>4, <3>1
  <2> QED BY <2>5, <2>6
<1>7. ASSUME NEW c \in calls, Loaded(c) \/ \E r \in Resource : Served(c, r) PROVE Seen(v)'
  <2>1. UNCHANGED <<best, acked, failed>> BY <1>7 DEF Loaded, Served
  <2>2. ASSUME NEW e \in calls, Brings(e, v, acked[ResourceOf(v)])
        PROVE  \E d \in calls' : Brings(d, v, acked[ResourceOf(v)])
    BY <1>7, <2>2, StillBrings
  <2> QED BY <1>b, <2>1, <2>2
<1> QED BY <1>1, <1>2, <1>3, <1>4, <1>5, <1>6, <1>7 DEF Kind
-----------------------------------------------------------------------------
(* The copies of a chat *)

\* A call after a step was there before, is new, or was another that no chat can be of.
LEMMA CallsBefore ==
  ASSUME CallsInv, Kind, NEW d \in calls'
  PROVE  \/ d \in calls
         \/ d.id = made + 1
         \/ \E c \in calls : c.id = d.id /\ (c.at # "answered" \/ c.op = "table")
<1>1. CASE Aside \/ Refused \/ Received \/ Streamed \/ Echoed \/ \E r \in Resource : Changed(r)
  BY <1>1 DEF Aside, Refused, Received, PacketMessage, Streamed, Echoed, Changed, history
<1>2. CASE \/ \E op \in Op, at \in {"reading", "sent"} : Begun(op, at)
           \/ \E c \in calls : Done(c)
  <2>1. ASSUME NEW rest \in SUBSET calls, NEW op, NEW at, Begin(rest, op, at)
        PROVE  d \in calls \/ d.id = made + 1
    <3>1. d \in rest \/ d = [id |-> made + 1, op |-> op, at |-> at, got |-> 0]
      BY <2>1 DEF Begin
    <3> QED BY <2>1, <3>1
  <2>2. ASSUME NEW op, NEW at, Begun(op, at) PROVE d \in calls \/ d.id = made + 1
    <3>1. Begin(calls, op, at) BY <2>2 DEF Begun
    <3> QED BY <2>1, <3>1
  <2>3. ASSUME NEW c \in calls, Done(c) PROVE d \in calls \/ d.id = made + 1
    <3>1. Begin(calls \ {c}, IF c.op = "add" THEN "catalog" ELSE "table", "sent")
      BY <2>3 DEF Done
    <3> QED BY <2>1, <3>1
  <2> QED BY <1>2, <2>2, <2>3
<1>3. CASE \E c \in calls : Closed(c) \/ Dropped(c) \/ \E v \in View : Written(c, v)
  BY <1>3 DEF Closed, Dropped, Written, End
<1>4. ASSUME NEW c \in calls, Tabled(c) \/ Loaded(c) \/ \E r \in Resource : Served(c, r)
      PROVE  \/ d \in calls
             \/ \E e \in calls : e.id = d.id /\ (e.at # "answered" \/ e.op = "table")
  <2>1. PICK e : calls' = (calls \ {c}) \cup {e} /\ e.id = c.id BY <1>4, Moves
  <2>2. c.at # "answered" \/ c.op = "table" BY <1>4 DEF Tabled, Loaded, Served
  <2> QED BY <2>1, <2>2
<1> QED BY <1>1, <1>2, <1>3, <1>4 DEF Kind

\* The chats in the stream and in the messages have the types of ChatsInv.
LEMMA ChatTypes ==
  ASSUME CallsInv, ChatsInv
  PROVE  /\ made \in Nat /\ Len(stream) \in Nat /\ Len(messages) \in Nat
         /\ \A i \in 1 .. Len(stream) :
              stream[i] \in ChatUpTo(made) /\ stream[i].id \in 0 .. made /\ stream[i].op # "table"
         /\ \A i \in 1 .. Len(messages) :
              messages[i].id \in 0 .. made /\ messages[i].op # "table"
         /\ \A e \in echo : e \in ChatUpTo(made) /\ e.id \in 0 .. made /\ e.op # "table"
<1>1. stream \in Seq(ChatUpTo(made)) /\ messages \in Seq(MessageUpTo(made))
  BY DEF ChatsInv
<1>2. Len(stream) \in Nat /\ Len(messages) \in Nat BY <1>1, LenProperties
<1>3. \A i \in 1 .. Len(stream) : stream[i] \in ChatUpTo(made) BY <1>1, ElementOfSeq
<1>4. \A i \in 1 .. Len(messages) : messages[i] \in MessageUpTo(made) BY <1>1, ElementOfSeq
<1>5. made \in Nat BY DEF CallsInv
<1>6. \A e \in echo : e \in ChatUpTo(made) BY DEF ChatsInv
<1> QED BY <1>2, <1>3, <1>4, <1>5, <1>6 DEF ChatUpTo, MessageUpTo, Chats

\* A message more
LEMMA MessageAdded ==
  ASSUME CallsInv, ChatsInv, NEW m \in MessageUpTo(made), messages' = Append(messages, m)
  PROVE  /\ Len(messages') = Len(messages) + 1 /\ Len(messages) \in Nat
         /\ \A i \in 1 .. Len(messages) : messages'[i] = messages[i]
         /\ messages'[Len(messages) + 1] = m
<1>1. messages \in Seq(MessageUpTo(made)) BY DEF ChatsInv
<1> QED BY <1>1, AppendProperties, LenProperties

\* What the stream holds after a chat more, or none
Streams(p) ==
  \A i \in 1 .. Len(stream') : \/ i \in 1 .. Len(stream) /\ stream'[i] = stream[i]
                               \/ i = Len(stream) + 1 /\ stream'[i] = p
LEMMA ChatAdded ==
  ASSUME CallsInv, ChatsInv, NEW p \in ChatUpTo(made), stream' \in {stream, Append(stream, p)}
  PROVE  Streams(p)
<1>1. stream \in Seq(ChatUpTo(made)) BY DEF ChatsInv
<1>2. CASE stream' = stream BY <1>2 DEF Streams
<1>3. CASE stream' = Append(stream, p)
  <2>1. /\ Len(stream') = Len(stream) + 1 /\ Len(stream) \in Nat
        /\ \A i \in 1 .. Len(stream) : stream'[i] = stream[i]
        /\ stream'[Len(stream) + 1] = p
    BY <1>1, <1>3, AppendProperties, LenProperties
  <2> QED BY <2>1 DEF Streams
<1> QED BY <1>2, <1>3

\* A chat whose call has been answered, or has gone, keeps to that, and its copies to the
\* ways they may come by.
LEMMA ChatStays ==
  ASSUME CallsInv, Kind, NEW x, x.id \in 0 .. made, x.op # "table", Answers(x), Fits(x)
  PROVE  /\ \A d \in calls' : d.id = x.id => d \in calls /\ d.at = "answered" /\ d.op = x.op
         /\ (x.by = "page" => x.op = "send") /\ (x.by = "echo" => x.op # "send" /\ ownPeer')
<1>1. made \in Nat BY DEF CallsInv
<1>2. ASSUME NEW d \in calls', d.id = x.id
      PROVE  d \in calls /\ d.at = "answered" /\ d.op = x.op
  <2>1. d.id # made + 1 BY <1>1, <1>2
  <2>2. ASSUME NEW c \in calls, c.id = d.id PROVE c.at = "answered" /\ c.op # "table"
    BY <1>2, <2>2 DEF Answers
  <2>3. d \in calls BY <2>1, <2>2, CallsBefore
  <2> QED BY <1>2, <2>3 DEF Answers
<1>3. ownPeer => ownPeer' BY KindChats, Zenon DEF ChatSteps
<1> QED BY <1>2, <1>3 DEF Fits

\* Copies of the same chat come by different ways, and there is a reason for each.
LEMMA OnceKept ==
  ASSUME CallsInv, ChatsInv, OnceInv, Kind
  PROVE  OnceInv'
<1> DEFINE FitsNow(x) == /\ x.by = "page" => x.op = "send"
                         /\ x.by = "echo" => x.op # "send" /\ ownPeer'
           AnswersNow(x) == \A c \in calls' : c.id = x.id => c.at = "answered" /\ c.op = x.op
           Stays(x) == FitsNow(x) /\ AnswersNow(x)
<1>0. /\ made \in Nat /\ Len(stream) \in Nat /\ Len(messages) \in Nat
      /\ \A i \in 1 .. Len(stream) : stream[i].id \in 0 .. made /\ stream[i].op # "table"
      /\ \A i \in 1 .. Len(messages) : messages[i].id \in 0 .. made /\ messages[i].op # "table"
      /\ \A e \in echo : e.id \in 0 .. made /\ e.op # "table"
  BY ChatTypes
<1>1. /\ \A i \in 1 .. Len(messages) :
           /\ Fits(messages[i]) /\ Answers(messages[i])
           /\ messages[i].by = "page" => \A c \in calls : c.id # messages[i].id
      /\ \A i \in 1 .. Len(stream) : Fits(stream[i]) /\ Answers(stream[i])
      /\ \A e \in echo : Fits(e) /\ Answers(e) /\ e.id # 0 /\ e.by = "echo"
  BY DEF OnceInv
<1>2. /\ \A i, j \in 1 .. Len(messages) : i # j => Differ(messages[i], messages[j])
      /\ \A i, j \in 1 .. Len(stream) : i # j => Differ(stream[i], stream[j])
      /\ \A e, f \in echo : e # f => Differ(e, f)
      /\ \A i \in 1 .. Len(stream) : \A j \in 1 .. Len(messages) : Differ(stream[i], messages[j])
      /\ \A e \in echo : \A j \in 1 .. Len(messages) : Differ(e, messages[j])
      /\ \A e \in echo : \A i \in 1 .. Len(stream) : Differ(e, stream[i])
  BY DEF OnceInv
<1>3. /\ \A i \in 1 .. Len(messages) :
           /\ Stays(messages[i])
           /\ messages[i].by = "page" => \A c \in calls' : c.id # messages[i].id
      /\ \A i \in 1 .. Len(stream) : Stays(stream[i])
      /\ \A e \in echo : Stays(e)
  BY <1>0, <1>1, ChatStays
<1>4. \A c \in calls : c.id \in 1 .. made /\ c.id # 0 /\ c.op \in Op BY DEF CallsInv
<1>5. \A c, e \in calls : c.id = e.id => c = e BY DEF CallsInv
<1>6. ASSUME \A i \in 1 .. Len(messages') :
               /\ Stays(messages'[i])
               /\ messages'[i].by = "page" => \A c \in calls' : c.id # messages'[i].id,
             \A i \in 1 .. Len(stream') : Stays(stream'[i]),
             \A e \in echo' : Stays(e) /\ e.id # 0 /\ e.by = "echo",
             \A i, j \in 1 .. Len(messages') : i # j => Differ(messages'[i], messages'[j]),
             \A i, j \in 1 .. Len(stream') : i # j => Differ(stream'[i], stream'[j]),
             \A e, f \in echo' : e # f => Differ(e, f),
             \A i \in 1 .. Len(stream') : \A j \in 1 .. Len(messages') :
               Differ(stream'[i], messages'[j]),
             \A e \in echo' : \A j \in 1 .. Len(messages') : Differ(e, messages'[j]),
             \A e \in echo' : \A i \in 1 .. Len(stream') : Differ(e, stream'[i])
      PROVE  OnceInv'
  BY <1>6 DEF OnceInv, Fits, Answers, Differ
<1>7. CASE UNCHANGED <<echo, stream, messages>>
  <2> HIDE DEF Stays
  <2> QED BY <1>1, <1>2, <1>3, <1>6, <1>7
<1>8. ASSUME NEW c \in calls, PageAdds(c) PROVE OnceInv'
  <2>1. PICK m : m = [id |-> c.id, op |-> c.op, by |-> "page", class |-> "sent"] OBVIOUS
  <2>2. m.id = c.id /\ m.op = "send" /\ m.by = "page" BY <1>8, <2>1 DEF PageAdds
  <2>3. m \in MessageUpTo(made) BY <1>0, <1>4, <1>8, <2>1 DEF PageAdds, MessageUpTo, Chats
  <2>4. messages' = Append(messages, m) BY <1>8, <2>1 DEF PageAdds, AddMsg
  <2>5. /\ Len(messages') = Len(messages) + 1
        /\ \A i \in 1 .. Len(messages) : messages'[i] = messages[i]
        /\ messages'[Len(messages) + 1] = m
    BY <2>3, <2>4, MessageAdded
  <2>6. \A i \in 1 .. Len(messages') : i \in 1 .. Len(messages) \/ i = Len(messages) + 1
    BY <1>0, <2>5
  <2>7. stream' = stream /\ echo' = echo BY <1>8 DEF PageAdds, ours
  <2>8. \A d \in calls' : d.id # m.id BY <1>5, <1>8, <2>2 DEF PageAdds
  <2>9. Stays(m) BY <2>2, <2>8
  <2>10. /\ \A i \in 1 .. Len(messages) : Differ(messages[i], m) /\ Differ(m, messages[i])
         /\ \A i \in 1 .. Len(stream) : Differ(stream[i], m)
         /\ \A e \in echo : Differ(e, m)
    <3>1. ASSUME NEW x, Answers(x), x.by # "page" PROVE Differ(x, m) /\ Differ(m, x)
      BY <1>8, <2>2, <3>1 DEF PageAdds, Answers, Differ
    <3>2. \A i \in 1 .. Len(messages) : messages[i].id = m.id => messages[i].by # "page"
      BY <1>1, <2>2
    <3>3. \A i \in 1 .. Len(messages) : Differ(messages[i], m) /\ Differ(m, messages[i])
      BY <1>1, <3>1, <3>2 DEF Differ
    <3>4. \A i \in 1 .. Len(stream) : stream[i].by # "page"
      BY ChatTypes DEF ChatUpTo
    <3> QED BY <1>1, <3>1, <3>3, <3>4
  <2> HIDE DEF Stays
  <2>11. /\ \A i \in 1 .. Len(messages') : Stays(messages'[i])
         /\ \A i \in 1 .. Len(messages') :
              messages'[i].by = "page" => \A d \in calls' : d.id # messages'[i].id
    BY <1>3, <2>5, <2>6, <2>8, <2>9
  <2>12. /\ \A i, j \in 1 .. Len(messages') : i # j => Differ(messages'[i], messages'[j])
         /\ \A i \in 1 .. Len(stream) : \A j \in 1 .. Len(messages') :
              Differ(stream[i], messages'[j])
         /\ \A e \in echo : \A j \in 1 .. Len(messages') : Differ(e, messages'[j])
    BY <1>2, <2>5, <2>6, <2>10
  <2> QED BY <1>1, <1>2, <1>3, <1>6, <2>7, <2>11, <2>12
<1>9. ASSUME NEW c \in calls, ChatServed(c) PROVE OnceInv'
  <2>1. PICK p, q : /\ p = [id |-> c.id, op |-> c.op, by |-> "node"]
                    /\ q = [id |-> c.id, op |-> c.op, by |-> "echo"]
    OBVIOUS
  <2>2. /\ p.id = c.id /\ p.op = c.op /\ p.by = "node"
        /\ q.id = c.id /\ q.op = c.op /\ q.by = "echo"
    BY <2>1
  <2>3. c.op \in Chats /\ c.at = "sent" BY <1>9 DEF ChatServed, Handled
  <2>4. p \in ChatUpTo(made) BY <1>0, <1>4, <2>1, <2>3 DEF ChatUpTo
  <2>5. Streams(p) BY <1>9, <2>1, <2>4, ChatAdded DEF ChatServed, Handled
  <2>6. \A e \in echo' : e \in echo \/ (e = q /\ ownPeer /\ c.op # "send")
    BY <1>9, <2>1 DEF ChatServed, Handled
  <2>7. PICK k : calls' = (calls \ {c}) \cup {[c EXCEPT !.at = "answered", !.got = k]}
    BY <1>9 DEF ChatServed
  <2>8. PICK d : d = [c EXCEPT !.at = "answered", !.got = k] OBVIOUS
  <2>9. d.id = c.id /\ d.op = c.op /\ d.at = "answered" BY <2>8, MovedFields
  <2>10. AnswersNow(p) /\ AnswersNow(q)
    <3>1. \A e \in calls' : e.id = c.id => e = d BY <1>5, <2>7, <2>8
    <3> QED BY <2>2, <2>9, <3>1
  <2>11. ownPeer => ownPeer' BY KindChats, Zenon DEF ChatSteps
  <2>12. Stays(p) /\ (ownPeer /\ c.op # "send" => Stays(q)) BY <2>2, <2>10, <2>11
  <2>13. /\ \A i \in 1 .. Len(stream) : stream[i].id # c.id
         /\ \A i \in 1 .. Len(messages) : messages[i].id # c.id
         /\ \A e \in echo : e.id # c.id
    BY <1>1, <2>3 DEF Answers
  <2>14. messages' = messages BY <1>9 DEF ChatServed
  <2> HIDE DEF Stays
  <2>15. /\ \A i \in 1 .. Len(stream') : Stays(stream'[i])
         /\ \A e \in echo' : Stays(e) /\ e.id # 0 /\ e.by = "echo"
    BY <1>1, <1>3, <1>4, <2>2, <2>5, <2>6, <2>12 DEF Streams
  <2>16. /\ \A i, j \in 1 .. Len(stream') : i # j => Differ(stream'[i], stream'[j])
         /\ \A i \in 1 .. Len(stream') : \A j \in 1 .. Len(messages) :
              Differ(stream'[i], messages[j])
    <3>1. /\ \A i \in 1 .. Len(stream) : Differ(stream[i], p) /\ Differ(p, stream[i])
          /\ \A j \in 1 .. Len(messages) : Differ(p, messages[j])
      BY <2>2, <2>13 DEF Differ
    <3> QED BY <1>2, <2>5, <3>1 DEF Streams
  <2>17. /\ \A e, f \in echo' : e # f => Differ(e, f)
         /\ \A e \in echo' : \A j \in 1 .. Len(messages) : Differ(e, messages[j])
    BY <1>2, <2>2, <2>6, <2>13 DEF Differ
  <2>18. \A e \in echo' : \A i \in 1 .. Len(stream') : Differ(e, stream'[i])
    BY <1>2, <2>2, <2>5, <2>6, <2>13 DEF Streams, Differ
  <2> QED BY <1>2, <1>3, <1>6, <2>14, <2>15, <2>16, <2>17, <2>18
<1>10. CASE PacketMessage
  <2>1. /\ stream[1] = Head(stream)
        /\ Taken \in MessageUpTo(made) /\ messages' = Append(messages, Taken)
        /\ Len(stream) \in Nat \ {0} /\ Len(stream') = Len(stream) - 1
        /\ \A i \in 1 .. Len(stream') : stream'[i] = stream[i + 1]
        /\ UNCHANGED <<calls, made, echo, ownPeer>>
        /\ stream[1] \in ChatUpTo(made)
    BY <1>10, PacketTaken
  <2>2. Taken.id = stream[1].id /\ Taken.op = stream[1].op /\ Taken.by = stream[1].by
    BY <2>1 DEF Taken
  <2>3. PICK m : m = Taken OBVIOUS
  <2>4. /\ Len(messages') = Len(messages) + 1
        /\ \A i \in 1 .. Len(messages) : messages'[i] = messages[i]
        /\ messages'[Len(messages) + 1] = m
    BY <2>1, <2>3, MessageAdded
  <2>5. \A i \in 1 .. Len(messages') : i \in 1 .. Len(messages) \/ i = Len(messages) + 1
    BY <1>0, <2>4
  <2>6. m.id = stream[1].id /\ m.op = stream[1].op /\ m.by = stream[1].by BY <2>2, <2>3
  <2>7. m.by # "page" BY <2>1, <2>6 DEF ChatUpTo
  <2>8. 1 \in 1 .. Len(stream)
          /\ \A i \in 1 .. Len(stream') : i + 1 \in 1 .. Len(stream) /\ i + 1 # 1
    BY <2>1
  <2>9. Stays(stream[1]) BY <1>3, <2>8
  <2>10. Stays(m) BY <2>6, <2>9
  <2>11. /\ \A i \in 1 .. Len(messages) : Differ(messages[i], m) /\ Differ(m, messages[i])
         /\ \A i \in 2 .. Len(stream) : Differ(stream[i], m)
         /\ \A e \in echo : Differ(e, m)
    BY <1>2, <2>6, <2>8 DEF Differ
  <2> HIDE DEF Stays
  <2>12. \A i \in 1 .. Len(messages') :
           /\ Stays(messages'[i])
           /\ messages'[i].by = "page" => \A c \in calls' : c.id # messages'[i].id
    BY <1>3, <2>4, <2>5, <2>7, <2>10
  <2>13. \A i \in 1 .. Len(stream') : Stays(stream'[i]) BY <1>3, <2>1, <2>8
  <2>14. \A i, j \in 1 .. Len(messages') : i # j => Differ(messages'[i], messages'[j])
    BY <1>2, <2>4, <2>5, <2>11
  <2>15. \A i, j \in 1 .. Len(stream') : i # j => Differ(stream'[i], stream'[j])
    <3> SUFFICES ASSUME NEW i \in 1 .. Len(stream'), NEW j \in 1 .. Len(stream'), i # j
                 PROVE  Differ(stream'[i], stream'[j])
      OBVIOUS
    <3>1. i + 1 # j + 1 /\ i + 1 \in 1 .. Len(stream) /\ j + 1 \in 1 .. Len(stream) BY <2>8
    <3> QED BY <1>2, <2>1, <3>1
  <2>16. \A i \in 1 .. Len(stream') : \A j \in 1 .. Len(messages') :
           Differ(stream'[i], messages'[j])
    <3> SUFFICES ASSUME NEW i \in 1 .. Len(stream'), NEW j \in 1 .. Len(messages')
                 PROVE  Differ(stream[i + 1], messages'[j])
      BY <2>1
    <3>1. i + 1 \in 2 .. Len(stream) /\ i + 1 \in 1 .. Len(stream) BY <2>1
    <3> QED BY <1>2, <2>4, <2>5, <2>11, <3>1
  <2>17. /\ \A e \in echo : \A j \in 1 .. Len(messages') : Differ(e, messages'[j])
         /\ \A e \in echo : \A i \in 1 .. Len(stream') : Differ(e, stream'[i])
    BY <1>2, <2>1, <2>4, <2>5, <2>8, <2>11
  <2>18. echo' = echo BY <2>1
  <2> QED BY <1>1, <1>2, <1>3, <1>6, <2>12, <2>13, <2>14, <2>15, <2>16, <2>17, <2>18
<1>11. CASE Echoed
  <2>1. PICK p \in echo : echo' = echo \ {p} /\ stream' \in {stream, Append(stream, p)}
    BY <1>11 DEF Echoed
  <2>2. Streams(p) BY <2>1, ChatTypes, ChatAdded
  <2>3. messages' = messages BY <1>11 DEF Echoed
  <2>4. Stays(p) BY <1>3
  <2> HIDE DEF Stays
  <2>5. \A i \in 1 .. Len(stream') : Stays(stream'[i]) BY <1>3, <2>2, <2>4 DEF Streams
  <2>6. /\ \A i \in 1 .. Len(stream) : Differ(p, stream[i]) /\ Differ(stream[i], p)
        /\ \A e \in echo' : Differ(e, p)
    BY <1>2, <2>1 DEF Differ
  <2>7. /\ \A i, j \in 1 .. Len(stream') : i # j => Differ(stream'[i], stream'[j])
        /\ \A i \in 1 .. Len(stream') : \A j \in 1 .. Len(messages) :
             Differ(stream'[i], messages[j])
        /\ \A e \in echo' : \A i \in 1 .. Len(stream') : Differ(e, stream'[i])
    BY <1>2, <2>1, <2>2, <2>6 DEF Streams
  <2> QED BY <1>1, <1>2, <1>3, <1>6, <2>1, <2>3, <2>5, <2>7
<1>12. CASE /\ UNCHANGED <<ours, calls, made, messages>>
            /\ stream' \in {<<>>, Append(stream, [id |-> 0, op |-> "other", by |-> "node"])}
  <2>1. PICK p : p = [id |-> 0, op |-> "other", by |-> "node"] OBVIOUS
  <2>2. p \in ChatUpTo(made) /\ p.id = 0 /\ p.by = "node" BY <1>0, <2>1 DEF ChatUpTo
  <2>3. Streams(p)
    <3>1. CASE stream' = <<>>
      <4>1. Len(stream') = 0 BY <3>1, EmptySeq
      <4> QED BY <4>1 DEF Streams
    <3>2. CASE stream' = Append(stream, p) BY <2>2, <3>2, ChatAdded
    <3> QED BY <1>12, <2>1, <3>1, <3>2
  <2>4. messages' = messages /\ calls' = calls /\ echo' = echo BY <1>12 DEF ours
  <2>5. Stays(p) BY <1>4, <2>2, <2>4
  <2> HIDE DEF Stays
  <2>6. \A i \in 1 .. Len(stream') : Stays(stream'[i]) BY <1>3, <2>3, <2>5 DEF Streams
  <2>7. /\ \A i, j \in 1 .. Len(stream') : i # j => Differ(stream'[i], stream'[j])
        /\ \A i \in 1 .. Len(stream') : \A j \in 1 .. Len(messages) :
             Differ(stream'[i], messages[j])
        /\ \A e \in echo : \A i \in 1 .. Len(stream') : Differ(e, stream'[i])
    <3>1. \A x : Differ(x, p) /\ Differ(p, x) BY <2>2 DEF Differ
    <3> QED BY <1>2, <2>3, <3>1 DEF Streams
  <2> QED BY <1>1, <1>2, <1>3, <1>6, <2>4, <2>6, <2>7
<1>13. ChatSteps BY KindChats
<1> HIDE DEF Stays
<1> QED BY <1>7, <1>8, <1>9, <1>10, <1>11, <1>12, <1>13, Zenon DEF ChatSteps

\* Copies that come by different ways are those that OwnChatCopies allows.
LEMMA CopiesAllowed == ChatsInv /\ OnceInv => OwnChatCopies
<1> SUFFICES ASSUME ChatsInv, OnceInv, NEW i \in 1 .. Len(messages), NEW j \in 1 .. Len(messages),
                    messages[i].id # 0, messages[i].id = messages[j].id, i # j
             PROVE  \/ /\ messages[i].op = "send"
                       /\ {messages[i].by, messages[j].by} = {"page", "node"}
                    \/ /\ messages[i].op # "send" /\ ownPeer
                       /\ {messages[i].by, messages[j].by} = {"node", "echo"}
  BY DEF OwnChatCopies
<1>1. PICK x, y : x = messages[i] /\ y = messages[j] OBVIOUS
<1>2. x \in MessageUpTo(made) /\ y \in MessageUpTo(made) BY <1>1, ElementOfSeq DEF ChatsInv
<1>3. x.by \in {"page", "node", "echo"} /\ y.by \in {"page", "node", "echo"}
  BY <1>2 DEF MessageUpTo
<1>4. x.op = y.op /\ x.by # y.by BY <1>1 DEF OnceInv, Differ
<1>5. Fits(x) /\ Fits(y) BY <1>1 DEF OnceInv
<1>6. CASE x.op = "send"
  <2>1. x.by \in {"page", "node"} /\ y.by \in {"page", "node"}
    BY <1>3, <1>4, <1>5, <1>6 DEF Fits
  <2> QED BY <1>1, <1>4, <1>6, <2>1
<1>7. CASE x.op # "send"
  <2>1. x.by \in {"node", "echo"} /\ y.by \in {"node", "echo"}
    BY <1>3, <1>4, <1>5, <1>7 DEF Fits
  <2>2. ownPeer BY <1>4, <1>5, <2>1 DEF Fits
  <2> QED BY <1>1, <1>4, <1>7, <2>1, <2>2
<1> QED BY <1>6, <1>7

\* The packets of the own node that are taken for received ones come first.
LEMMA ClassKept ==
  ASSUME CallsInv, ChatsInv, ClassInv, Kind
  PROVE  ClassInv'
<1>0. Len(messages) \in Nat BY ChatTypes
<1>1. /\ ~address => \A i \in 1 .. Len(messages) :
                       ~(messages[i].by # "page" /\ messages[i].class = "sent")
      /\ \A i, j \in 1 .. Len(messages) :
           messages[i].id # 0 /\ messages[i].by # "page" /\ messages[i].class = "received"
             /\ messages[j].by # "page" /\ messages[j].class = "sent" => i < j
  BY DEF ClassInv, OwnClassSettles
<1>2. ChatSteps BY KindChats
<1>3. ~address' => ~address BY <1>2, Zenon DEF ChatSteps
<1>4. CASE UNCHANGED messages BY <1>1, <1>3, <1>4 DEF ClassInv, OwnClassSettles
<1>5. ASSUME NEW m \in MessageUpTo(made), messages' = Append(messages, m),
             m.by = "page" \/ ((m.class = "received" => m.id = 0 \/ ~address)
                                 /\ (m.class = "sent" => address')),
             m.class \in {"sent", "received"}
      PROVE  ClassInv'
  <2>1. /\ Len(messages') = Len(messages) + 1
        /\ \A i \in 1 .. Len(messages) : messages'[i] = messages[i]
        /\ messages'[Len(messages) + 1] = m
    BY <1>5, MessageAdded
  <2>2. \A i \in 1 .. Len(messages') : i \in 1 .. Len(messages) \/ i = Len(messages) + 1
    BY <1>0, <2>1
  <2>3. ~address' => \A i \in 1 .. Len(messages') :
                       ~(messages'[i].by # "page" /\ messages'[i].class = "sent")
    BY <1>1, <1>3, <1>5, <2>1, <2>2
  <2>4. ASSUME NEW i \in 1 .. Len(messages'), NEW j \in 1 .. Len(messages'),
               messages'[i].id # 0, messages'[i].by # "page", messages'[i].class = "received",
               messages'[j].by # "page", messages'[j].class = "sent"
        PROVE  i < j
    <3>1. CASE i \in 1 .. Len(messages) /\ j \in 1 .. Len(messages) BY <1>1, <2>1, <2>4, <3>1
    <3>2. CASE i \in 1 .. Len(messages) /\ j = Len(messages) + 1 BY <1>0, <3>2
    <3>3. CASE i = Len(messages) + 1 /\ j \in 1 .. Len(messages)
      <4>1. ~address BY <1>5, <2>1, <2>4, <3>3
      <4> QED BY <1>1, <2>1, <2>4, <3>3, <4>1
    <3>4. CASE i = Len(messages) + 1 /\ j = Len(messages) + 1 BY <2>1, <2>4, <3>4
    <3> QED BY <2>2, <3>1, <3>2, <3>3, <3>4
  <2> QED BY <2>3, <2>4 DEF ClassInv, OwnClassSettles
<1>6. ASSUME NEW c \in calls, PageAdds(c) PROVE ClassInv'
  <2>1. PICK m : m = [id |-> c.id, op |-> c.op, by |-> "page", class |-> "sent"] OBVIOUS
  <2>2. m \in MessageUpTo(made) /\ m.by = "page" /\ m.class = "sent"
    BY <1>6, <2>1 DEF PageAdds, CallsInv, MessageUpTo, Chats
  <2>3. messages' = Append(messages, m) BY <1>6, <2>1 DEF PageAdds, AddMsg
  <2> QED BY <1>5, <2>2, <2>3
<1>7. CASE PacketMessage
  <2>1. Taken \in MessageUpTo(made) /\ messages' = Append(messages, Taken)
    BY <1>7, PacketTaken
  <2>2. address' = address BY <1>7 DEF PacketMessage
  <2>3. PICK m : m = Taken OBVIOUS
  <2>4. m.id = Head(stream).id
        /\ m.class = (IF Head(stream).id # 0 /\ address THEN "sent" ELSE "received")
    BY <2>3 DEF Taken
  <2>5. m.class \in {"sent", "received"} BY <2>4
  <2>6. m.class = "received" => m.id = 0 \/ ~address BY <2>4
  <2>7. m.class = "sent" => address BY <2>4
  <2>8. m.class = "sent" => address' BY <2>2, <2>7, Zenon
  <2> QED BY <1>5, <2>1, <2>3, <2>4, <2>5, <2>6, <2>8
<1>8. \A c \in calls : ChatServed(c) => UNCHANGED messages BY DEF ChatServed
<1>9. Echoed => UNCHANGED messages BY DEF Echoed
<1> QED BY <1>2, <1>4, <1>6, <1>7, <1>8, <1>9, Zenon DEF ChatSteps
-----------------------------------------------------------------------------
(* What is reported *)

Reported ==
  \/ flash'.success > flash.success \/ flash'.error > flash.error
  \/ Len(messages') > Len(messages)
  \/ made' > made

\* A step that reports, or that ends no call but one that goes in silence, is noticed.
LEMMA NoticedIf ==
  ASSUME \/ Reported
         \/ /\ UNCHANGED presses
            /\ \A c \in calls : (\E d \in calls' : d.id = c.id) \/ c.at = "reading"
                                \/ c.op \in {"socketAddr", "graph"}
  PROVE  Noticed
  BY DEF Noticed, Reported

\* A message of success or of an error is one more on display.
LEMMA FlashReports ==
  ASSUME CountersInv, \/ PrintSuccess \/ PrintError
                      \/ flash' = [flash EXCEPT !.success = @ + 1]
                      \/ flash' = [flash EXCEPT !.success = @ + 2]
  PROVE  Reported
<1>1. flash \in [{"success", "error"} -> Nat] BY DEF CountersInv
<1>2. flash.success \in Nat /\ flash.error \in Nat BY <1>1
<1>3. CASE PrintSuccess \/ flash' = [flash EXCEPT !.success = @ + 1]
  <2>1. flash'.success = flash.success + 1 BY <1>1, <1>3 DEF PrintSuccess
  <2> QED BY <1>2, <2>1 DEF Reported
<1>4. CASE PrintError
  <2>1. flash'.error = flash.error + 1 BY <1>1, <1>4 DEF PrintError
  <2> QED BY <1>2, <2>1 DEF Reported
<1>5. CASE flash' = [flash EXCEPT !.success = @ + 2]
  <2>1. flash'.success = flash.success + 2 BY <1>1, <1>5
  <2> QED BY <1>2, <2>1 DEF Reported
<1> QED BY <1>3, <1>4, <1>5

\* So is a call that begins.
LEMMA BeginReports ==
  ASSUME CallsInv, NEW rest, NEW op, NEW at, Begin(rest, op, at)
  PROVE  Reported
<1>1. made \in Nat BY DEF CallsInv
<1> QED BY <1>1 DEF Begin, Reported

\* A press reports.
LEMMA PressReports ==
  ASSUME CallsInv, CountersInv, NEW b \in Buttons, PressButton(b)
  PROVE  Reported
<1>1. PrintError \/ \E rest, op, at : Begin(rest, op, at)
  <2>1. ASSUME CheckFails(b) PROVE PrintError BY <2>1 DEF CheckFails
  <2>2. ASSUME NEW op, Request(b, op) PROVE \E r, o, at : Begin(r, o, at)
    BY <2>2, Zenon DEF Request
  <2>3. CASE PressUpload(b) BY <2>1, <2>3, Zenon DEF PressUpload
  <2>4. CASE PressSearch(b) BY <2>1, <2>4, Zenon DEF PressSearch
  <2>5. CASE PressResolve(b) BY <2>2, <2>5, Zenon DEF PressResolve
  <2>6. CASE \/ PressSend(b) \/ PressBroadcast(b) \/ PressRoutingUpdate(b)
             \/ PressRoutingChange(b) \/ PressCatalogUpdate(b) \/ PressAdd(b)
             \/ PressDownload(b) \/ PressTag(b)
    BY <2>1, <2>2, <2>6, Zenon
    DEF PressSend, PressBroadcast, PressRoutingUpdate, PressRoutingChange, PressCatalogUpdate,
        PressAdd, PressDownload, PressTag
  <2> QED BY <2>3, <2>4, <2>5, <2>6, Zenon DEF PressButton
<1> QED BY <1>1, FlashReports, BeginReports

\* An answer reports, but for those of the address and of the graph.
LEMMA AnswerReports ==
  ASSUME CallsInv, CountersInv, ChatsInv, NEW c \in calls, Continue(c)
  PROVE  Reported \/ (c.op \in {"socketAddr", "graph"} /\ calls' = calls \ {c} /\ UNCHANGED presses)
<1>1. CASE SocketAddress(c)
  BY <1>1 DEF SocketAddress, Answered, End, Unchanged, counters
<1>2. CASE GraphShown(c) BY <1>2 DEF GraphShown, Answered, End, Unchanged, counters
<1>3. CASE Sent(c)
  <2>1. PICK m : m = [id |-> c.id, op |-> c.op, by |-> "page", class |-> "sent"] OBVIOUS
  <2>2. m \in MessageUpTo(made)
    BY <1>3, <2>1 DEF Sent, Answered, CallsInv, MessageUpTo, Chats
  <2>3. messages' = Append(messages, m) BY <1>3, <2>1 DEF Sent, AddMsg
  <2>4. Len(messages') = Len(messages) + 1 /\ Len(messages) \in Nat
    BY <2>2, <2>3, MessageAdded
  <2> QED BY <2>4 DEF Reported
<1>4. CASE SearchDone(c)
  <2>1. flash' = [flash EXCEPT !.success = @ + 1] \/ flash' = [flash EXCEPT !.success = @ + 2]
    BY <1>4 DEF SearchDone
  <2> QED BY <2>1, FlashReports
<1>5. CASE EntryAdded(c) BY <1>5, BeginReports DEF EntryAdded
<1>6. CASE \/ Broadcasted(c) \/ TableShown(c) \/ RoutingChanged(c) \/ CatalogShown(c)
           \/ Uploaded(c) \/ Downloaded(c) \/ Resolved(c) \/ Tagged(c)
  <2>1. PrintSuccess
    BY <1>6 DEF Broadcasted, TableShown, RoutingChanged, CatalogShown, Uploaded, Downloaded,
                Resolved, Tagged
  <2> QED BY <2>1, FlashReports
<1> QED BY <1>1, <1>2, <1>3, <1>4, <1>5, <1>6 DEF Continue

\* No step is silent that should not be.
LEMMA StepNoticed ==
  ASSUME CallsInv, CountersInv, ViewsInv, ChatsInv, [Next]_vars
  PROVE  [Noticed]_vars
<1> SUFFICES ASSUME Next PROVE Noticed OBVIOUS
<1>1. ASSUME NEW b \in Buttons, PressButton(b) PROVE Noticed
  BY <1>1, PressReports, NoticedIf
<1>2. ASSUME NEW c \in calls, Continue(c) PROVE Noticed
  <2>1. CASE Reported BY <2>1, NoticedIf
  <2>2. CASE c.op \in {"socketAddr", "graph"} /\ calls' = calls \ {c} /\ UNCHANGED presses
    <3>1. \A e \in calls : (\E d \in calls' : d.id = e.id) \/ e.op \in {"socketAddr", "graph"}
      BY <2>2
    <3> QED BY <2>2, <3>1, NoticedIf
  <2> QED BY <1>2, <2>1, <2>2, AnswerReports
<1>3. ASSUME NEW c \in calls, FileLoaded(c) \/ Serve(c) PROVE Noticed
  <2>1. PICK k : k = IF c.op \in Changes
                       THEN [node EXCEPT ![ResourceOf(c.op)] = @ + 1][ResourceOf(c.op)]
                       ELSE node[ResourceOf(c.op)]
    OBVIOUS
  <2>2. \/ calls' = (calls \ {c}) \cup {[c EXCEPT !.at = "sent"]}
        \/ calls' = (calls \ {c}) \cup {[c EXCEPT !.at = "answered", !.got = k]}
    <3>1. CASE FileLoaded(c) BY <3>1 DEF FileLoaded
    <3>2. CASE Serve(c) /\ c.op \in Changes BY <2>1, <3>2 DEF Serve
    <3>3. CASE Serve(c) /\ c.op \notin Changes BY <2>1, <3>3 DEF Serve
    <3> QED BY <1>3, <3>1, <3>2, <3>3
  <2>3. PICK d : /\ calls' = (calls \ {c}) \cup {d}
                 /\ d = [c EXCEPT !.at = "sent"] \/ d = [c EXCEPT !.at = "answered", !.got = k]
    BY <2>2
  <2>4. d.id = c.id BY <2>3 DEF CallsInv
  <2>5. UNCHANGED presses BY <1>3 DEF FileLoaded, Serve, counters
  <2>6. \A e \in calls : \E x \in calls' : x.id = e.id BY <2>3, <2>4
  <2> QED BY <2>5, <2>6, NoticedIf
<1>4. ASSUME NEW c \in calls, FileUnreadable(c) PROVE Noticed
  <2>1. calls' = calls \ {c} /\ c.at = "reading" /\ UNCHANGED presses
    BY <1>4 DEF FileUnreadable
  <2>2. \A e \in calls : (\E d \in calls' : d.id = e.id) \/ e.at = "reading" BY <2>1
  <2> QED BY <2>1, <2>2, NoticedIf
<1>5. ASSUME NEW c \in calls, FetchFails(c) PROVE Noticed
  <2>1. CASE PrintError BY <2>1, FlashReports, NoticedIf
  <2>2. CASE ~PrintError
    <3>1. c.op = "socketAddr" /\ calls' = calls \ {c} /\ UNCHANGED presses
      BY <1>5, <2>2 DEF FetchFails
    <3>2. \A e \in calls : (\E d \in calls' : d.id = e.id) \/ e.op \in {"socketAddr", "graph"}
      BY <3>1
    <3> QED BY <3>1, <3>2, NoticedIf
  <2> QED BY <2>1, <2>2
<1>6. CASE \/ FlashEnds \/ StreamOpens \/ PacketError \/ PacketMessage \/ EchoHandled
           \/ OtherChange \/ OtherChat
  <2>1. UNCHANGED <<calls, presses>>
    BY <1>6 DEF FlashEnds, StreamOpens, PacketError, PacketMessage, EchoHandled, OtherChange,
                OtherChat, counters
  <2>2. \A e \in calls : \E d \in calls' : d.id = e.id BY <2>1
  <2> QED BY <2>1, <2>2, NoticedIf
<1> QED BY <1>1, <1>2, <1>3, <1>4, <1>5, <1>6 DEF Next

-----------------------------------------------------------------------------
(* Theorems *)

\* The page after main has what its invariant says.
LEMMA InitWebInv == Init => WebInv
<1> SUFFICES ASSUME Init PROVE WebInv OBVIOUS
<1>0. calls = {[id |-> 1, op |-> "socketAddr", at |-> "sent", got |-> 0],
               [id |-> 2, op |-> "table", at |-> "sent", got |-> 0],
               [id |-> 3, op |-> "catalog", at |-> "sent", got |-> 0]}
  BY DEF Init
<1>1. CallsInv
  <2>1. IsFiniteSet(calls)
    <3>0. PICK x, y, z : calls = {x, y, z} BY <1>0
    <3>1. calls = ({x} \cup {y}) \cup {z} BY <3>0
    <3>2. IsFiniteSet({x}) BY FS_Singleton
    <3>3. IsFiniteSet({x} \cup {y}) BY <3>2, FS_AddElement
    <3> QED BY <3>1, <3>3, FS_AddElement
  <2>2. WaitingChanges = {} BY <1>0 DEF WaitingChanges, Followed
  <2>3. Cardinality(WaitingChanges) = 0 BY <2>2, FS_EmptySet
  <2>4. calls \subseteq [id : 1 .. 3, op : Op, at : {"reading", "sent", "answered"}, got : Nat]
    BY <1>0, Ops
  <2>5. \A c, d \in calls : c.id = d.id => c = d BY <1>0
  <2> QED BY <2>1, <2>3, <2>4, <2>5 DEF CallsInv, Init
<1>2. CountersInv
  <2>1. flash = [success |-> 0, error |-> 0] BY DEF Init
  <2>2. flash \in [{"success", "error"} -> Nat] BY <2>1
  <2>3. open \in BOOLEAN BY DEF Init
  <2>4. presses \in 0 .. MaxPresses /\ failures \in 0 .. MaxFailures /\ others \in 0 .. MaxOthers
    BY WebPageAssumption DEF Init
  <2> QED BY <2>2, <2>3, <2>4, Zenon DEF CountersInv
<1>3. ViewsInv BY DEF ViewsInv, Init
<1>4. ChatsInv
  <2>1. stream = <<>> /\ messages = <<>> /\ echo = {} /\ ownPeer \in BOOLEAN /\ address \in BOOLEAN
    BY WebPageAssumption DEF Init
  <2> QED BY <2>1, EmptySeq DEF ChatsInv
<1>5. VersionsInv
  <2>1. \A c \in calls : c.got = 0 /\ c.at = "sent" /\ ResourceOf(c.op) \in Resource
    BY <1>0, ResourceOfOp, Ops
  <2>2. \A c \in calls : Current(c) BY <2>1 DEF Current, Init
  <2> QED BY <2>2 DEF VersionsInv, Init, View, Resource
<1>6. LastInv
  <2>1. \A v \in View : \A c \in calls : v \in ViewsOf(c.op) => c.id = last[v]
    BY <1>0, ViewsOfOp DEF Init, View
  <2> QED BY <2>1 DEF LastInv
<1>7. Waiting("table") /\ Waiting("graph") /\ Waiting("catalog")
  BY <1>0, ViewsOfOp DEF Waiting
<1>8. LastAnswerShown
  <2>1. \A v \in View : v \notin {"table", "graph", "catalog"} => view[v].from = last[v]
    BY DEF Init
  <2> QED BY <1>7, <2>1 DEF LastAnswerShown
<1>9. GraphInv /\ GraphNotOlder BY <1>0, <1>7 DEF GraphInv, GraphNotOlder
<1>10. AckedChangeSeen
  <2>1. \A v \in {"table", "graph", "catalog"} : best[v] = 0 /\ acked[ResourceOf(v)] = 0
    BY ResourceOfOp DEF Init, View, Resource
  <2> QED BY <2>1 DEF AckedChangeSeen
<1>11. SearchingMeansRunning BY DEF SearchingMeansRunning, Init, View, Searches
<1>12. stream = <<>> /\ messages = <<>> /\ Len(stream) = 0 /\ Len(messages) = 0 /\ echo = {}
  BY EmptySeq DEF Init
<1>13. OnceInv BY <1>12 DEF OnceInv
<1>14. ClassInv BY <1>12 DEF ClassInv, OwnClassSettles
<1> QED
  BY <1>1, <1>2, <1>3, <1>4, <1>5, <1>6, <1>8, <1>9, <1>10, <1>11, <1>13, <1>14 DEF WebInv

\* Every step keeps it.
LEMMA NextWebInv == WebInv /\ [Next]_vars => WebInv'
<1> SUFFICES ASSUME WebInv, [Next]_vars PROVE WebInv' OBVIOUS
<1>1. /\ CallsInv /\ CountersInv /\ ViewsInv /\ ChatsInv /\ VersionsInv
      /\ LastInv /\ LastAnswerShown /\ GraphInv /\ GraphNotOlder /\ AckedChangeSeen
      /\ SearchingMeansRunning /\ OnceInv /\ ClassInv
  BY DEF WebInv
<1>2. Kind BY <1>1, StepKinds
<1>3. CallsInv' BY <1>1, <1>2, CallsKept
<1>4. CountersInv' BY <1>1, CountersKept
<1>5. ViewsInv' BY <1>1, <1>2, ViewsKept
<1>6. ChatsInv' BY <1>1, <1>2, ChatsKept
<1>7. VersionsInv' BY <1>1, <1>2, VersionsKept
<1>8. LastInv' BY <1>1, <1>2, LastKept
<1>9. LastAnswerShown' BY <1>1, <1>2, LastShownKept
<1>10. GraphInv' /\ GraphNotOlder' BY <1>1, <1>2, GraphKept
<1>11. AckedChangeSeen' BY <1>1, <1>2, SeenKept
<1>12. SearchingMeansRunning' BY <1>1, <1>2, SearchingKept
<1>13. OnceInv' BY <1>1, <1>2, OnceKept
<1>14. ClassInv' BY <1>1, <1>2, ClassKept
<1> QED
  BY <1>3, <1>4, <1>5, <1>6, <1>7, <1>8, <1>9, <1>10, <1>11, <1>12, <1>13, <1>14 DEF WebInv

\* The invariant of the page holds in every state.
THEOREM WebCorrect == Spec => []WebInv
<1> QED BY InitWebInv, NextWebInv, PTL DEF Spec

\* What the invariant says of the types is TypeOK.
LEMMA WebTypes == WebInv => TypeOK
<1> SUFFICES ASSUME WebInv PROVE TypeOK OBVIOUS
<1>1. CallsInv /\ CountersInv /\ ViewsInv /\ ChatsInv BY DEF WebInv
<1>2. made \in CallID /\ MaxCalls \in Nat
  <2>1. made \in Nat \ {0} /\ made + Cardinality(WaitingChanges) <= 3 + 2 * presses
    BY <1>1 DEF CallsInv
  <2>2. IsFiniteSet(WaitingChanges) BY <1>1, FS_Subset DEF CallsInv, WaitingChanges
  <2>3. Cardinality(WaitingChanges) \in Nat BY <2>2, FS_CardinalityType
  <2>4. presses \in Nat /\ MaxPresses \in Nat /\ presses <= MaxPresses
    BY <1>1, WebPageAssumption DEF CountersInv
  <2>5. made <= 3 + 2 * MaxPresses BY <2>1, <2>3, <2>4
  <2> QED BY <2>1, <2>4, <2>5 DEF CallID, MaxCalls
<1>3. made \in Nat /\ made <= MaxCalls BY <1>2 DEF CallID
<1>4. calls \subseteq Call /\ \A c, d \in calls : c.id = d.id => c = d
  BY <1>1, <1>2, <1>3 DEF CallsInv, Call, CallID
<1>5. ChatUpTo(made) \subseteq Chat /\ MessageUpTo(made) \subseteq Message
  BY <1>2, <1>3 DEF ChatUpTo, MessageUpTo, Chat, Message
<1>6. /\ stream \in Seq(ChatUpTo(made)) /\ messages \in Seq(MessageUpTo(made))
      /\ echo \subseteq ChatUpTo(made)
  BY <1>1 DEF ChatsInv
<1>7. stream \in Seq(Chat) /\ messages \in Seq(Message) /\ echo \subseteq Chat
  BY <1>5, <1>6, SeqMonotonic
<1>8. address \in BOOLEAN /\ open \in BOOLEAN /\ ownPeer \in BOOLEAN
  BY <1>1, Zenon DEF ChatsInv, CountersInv
<1>9. /\ node \in [Resource -> Nat \ {0}]
      /\ view \in [View -> [from : 0 .. made, version : Nat]]
      /\ acked \in [Resource -> Nat] /\ best \in [View -> Nat] /\ last \in [View -> 0 .. made]
      /\ overlapped \subseteq View /\ failed \subseteq View
  BY <1>1, Zenon DEF ViewsInv
<1>10. /\ flash \in [{"success", "error"} -> Nat]
       /\ presses \in 0 .. MaxPresses /\ failures \in 0 .. MaxFailures /\ others \in 0 .. MaxOthers
  BY <1>1, Zenon DEF CountersInv
<1> QED BY <1>2, <1>4, <1>7, <1>8, <1>9, <1>10, Zenon DEF TypeOK

\* Every variable has its type; in particular every method called has a number of its
\* own, and there are at most two calls for each press.
THEOREM WebTypeCorrect == Spec => []TypeOK
<1> QED BY WebCorrect, WebTypes, PTL

\* A change of the routing or the catalog that the node acknowledged is shown, or an
\* update that will show it is under way or has failed.
THEOREM AckedChangesSeen == Spec => []AckedChangeSeen
<1>1. WebInv => AckedChangeSeen BY DEF WebInv
<1> QED BY <1>1, WebCorrect, PTL

\* A view shows what its last call brought, unless calls for it overlapped or failed.
THEOREM LastAnswersShown == Spec => []LastAnswerShown
<1>1. WebInv => LastAnswerShown BY DEF WebInv
<1> QED BY <1>1, WebCorrect, PTL

\* The graph of an update is not older than its table.
THEOREM GraphsNotOlder == Spec => []GraphNotOlder
<1>1. WebInv => GraphNotOlder BY DEF WebInv
<1> QED BY <1>1, WebCorrect, PTL

\* "searching..." is shown only while the search runs, or if it failed.
THEOREM SearchingRuns == Spec => []SearchingMeansRunning
<1>1. WebInv => SearchingMeansRunning BY DEF WebInv
<1> QED BY <1>1, WebCorrect, PTL

\* A chat of the user is shown twice only if it is a unicast to the own node or a broadcast
\* that a node with its own address as a peer sent to itself, and never three times.
THEOREM OwnChatsCopied == Spec => []OwnChatCopies
<1>1. WebInv => OwnChatCopies BY CopiesAllowed DEF WebInv
<1> QED BY <1>1, WebCorrect, PTL

\* The packets of the own node taken for received ones come before those taken for sent.
THEOREM OwnClassesSettle == Spec => []OwnClassSettles
<1>1. WebInv => OwnClassSettles BY DEF WebInv, ClassInv
<1> QED BY <1>1, WebCorrect, PTL

\* Every press and every end of a call is reported, but for the listed exceptions.
THEOREM NothingIsSilent == Spec => NothingSilent
<1>1. WebInv /\ [Next]_vars => [Noticed]_vars BY StepNoticed DEF WebInv
<1> QED BY <1>1, WebCorrect, PTL DEF Spec, NothingSilent


=============================================================================
