--------------------------- MODULE DataSharingProofs ---------------------------
(***************************************************************************)
(* For every network, routing table, set of files and set of calls: what a *)
(* search tells is true (CatalogTrue, FoundIsThere), the packets and the   *)
(* calls are what they should be (TypeOK), a download that is woken has    *)
(* the blob that it asked for (AnswerHasBlob), and no more nodes handle a  *)
(* search than its budget says (BudgetKept).                               *)
(*                                                                         *)
(* Stores only grow.  What a reply says of its sender was true when it was *)
(* made, and is so when it arrives, however late; from the reply it comes  *)
(* into the catalog, from there to the listener that has found a file, and *)
(* from the listener to the call (SearchInv).  No step takes any of it     *)
(* back (the lemmas on what grows).                                        *)
(*                                                                         *)
(* The second part is about types (SharingInv).  A step of a call changes  *)
(* the state of that call alone (StepOf); the lemmas on requests say that  *)
(* a share of a budget that is sent is not zero.                           *)
(*                                                                         *)
(* The third part follows a data request to its reply (AnswerInv): the     *)
(* catalog being true, the peer that is asked has the blob, and a reply    *)
(* that wakes a download is one to the request that it waits for.          *)
(*                                                                         *)
(* The fourth part counts (BudgetInv).  What sendSearchReq deals out is not *)
(* more than it has (DealtOut); a request that is handled gives one unit   *)
(* and hands on the others.  The budgets themselves are a recursive        *)
(* function, which exists by induction (RingExists).                       *)
(***************************************************************************)
EXTENDS DataSharing, FiniteSetTheorems, SequenceTheorems, TLAPS

\* What the proof needs of the types: the functions, and two fields of every packet
Shape ==
  /\ blobs = [n \in Nodes |-> blobs[n]]
  /\ catalog = [n \in Nodes |-> catalog[n]]
  /\ listener \in [Nodes -> [at : {"idle", "found", "sending", "stopped"},
                             call : Calls \cup {None}, file : Files \cup {None}]]
  /\ result = [c \in Calls |-> result[c]]
  /\ \A p \in net : "type" \in DOMAIN p /\ "call" \in DOMAIN p /\ p.call \in Calls

\* A reply, which goes to the caller, has the metafile of every file that it names, and
\* its sender has what it says
TrueReply(p) ==
  /\ p = [type |-> "searchReply", call |-> p.call, source |-> p.source, at |-> p.at,
          dest |-> p.dest, files |-> p.files, blobs |-> p.blobs]
  /\ p.source \in Nodes /\ p.dest = Caller[p.call]
  /\ p.files \subseteq Files \cap p.blobs
  /\ p.blobs \subseteq blobs[p.source]

RepliesTrue == \A p \in net : p.type = "searchReply" => TrueReply(p)

\* Entries of the catalog name nodes
EntriesTrue == \A n \in Nodes : \A e \in catalog[n] : e[2] \in Nodes /\ e[1] \in blobs[e[2]]

\* A listener that is to tell a call of a file is that of its caller
ListenersTrue ==
  \A n \in Nodes : listener[n].at \in {"found", "sending"} =>
    /\ listener[n].call \in Calls /\ Caller[listener[n].call] = n
    /\ Available(listener[n].file, n)

SearchInv == Shape /\ RepliesTrue /\ EntriesTrue /\ ListenersTrue /\ FoundIsThere

-----------------------------------------------------------------------------
(* Blobs of a file *)

\* The blobs of a file are its metafile and its chunks.
LEMMA BlobsOfFile ==
  ASSUME NEW f \in Files
  PROVE  ToSet(BlobList(f)) = {f} \cup ToSet(Chunks[f])
<1>0. f \in Blobs BY DEF Blobs
<1>1. <<f>> \in Seq(Blobs) /\ Len(<<f>>) = 1 /\ <<f>>[1] = f /\ Chunks[f] \in Seq(Blobs)
  BY <1>0, DataSharingAssumption DEF DataSharingAssumption
<1> DEFINE list == <<f>> \o Chunks[f]
<1>2. /\ list \in Seq(Blobs) /\ Len(list) = 1 + Len(Chunks[f])
      /\ \A i \in 1 .. 1 + Len(Chunks[f]) : list[i] = IF i <= 1 THEN f ELSE Chunks[f][i - 1]
  BY <1>1, ConcatProperties
<1>3. DOMAIN list = 1 .. 1 + Len(Chunks[f]) /\ DOMAIN Chunks[f] = 1 .. Len(Chunks[f])
      /\ Len(Chunks[f]) \in Nat
  BY <1>1, <1>2, LenProperties
<1> HIDE DEF list
<1>4. ASSUME NEW i \in DOMAIN list PROVE list[i] \in {f} \cup ToSet(Chunks[f])
  <2>1. CASE i <= 1 BY <1>2, <1>3, <2>1
  <2>2. CASE ~(i <= 1)
    <3>1. i - 1 \in DOMAIN Chunks[f] BY <1>3, <2>2
    <3> QED BY <1>2, <1>3, <2>2, <3>1 DEF ToSet
  <2> QED BY <2>1, <2>2
<1>5. f \in ToSet(list)
  <2>1. 1 \in DOMAIN list /\ list[1] = f BY <1>2, <1>3
  <2> QED BY <2>1 DEF ToSet
<1>6. ASSUME NEW i \in DOMAIN Chunks[f] PROVE Chunks[f][i] \in ToSet(list)
  <2>1. i + 1 \in DOMAIN list /\ list[i + 1] = Chunks[f][i] BY <1>2, <1>3
  <2> QED BY <2>1 DEF ToSet
<1> QED BY <1>4, <1>5, <1>6 DEF ToSet, BlobList, list

-----------------------------------------------------------------------------
(* What grows *)

\* No store and no catalog loses anything in a step.
Grows == \A n \in Nodes : blobs[n] \subseteq blobs'[n] /\ catalog[n] \subseteq catalog'[n]

\* A file that was available to a node still is.
LEMMA AvailableGrows ==
  ASSUME Grows, NEW f, NEW n \in Nodes, Available(f, n)
  PROVE  Available(f, n)'
<1>1. PICK o \in Nodes : /\ Whole(f, o)
                         /\ o = n \/ \A b \in ToSet(BlobList(f)) : <<b, o>> \in catalog[n]
  BY DEF Available
<1>2. Whole(f, o)' BY <1>1 DEF Grows, Whole, BlobList
<1>3. (o = n \/ \A b \in ToSet(BlobList(f)) : <<b, o>> \in catalog[n])'
  BY <1>1 DEF Grows, BlobList
<1> QED BY <1>2, <1>3 DEF Available

\* A reply that was true still is, however late it comes.
LEMMA ReplyGrows ==
  ASSUME Grows, NEW p, TrueReply(p)
  PROVE  TrueReply(p)'
BY DEF Grows, TrueReply

\* A step that tells nothing new: what was true stays so.
LEMMA NothingNew ==
  ASSUME SearchInv, Grows, Shape',
         \A p \in net' : p \in net \/ p.type # "searchReply",
         catalog' = catalog,
         \A n \in Nodes : \/ listener'[n] = listener[n]
                          \/ listener'[n].at \notin {"found", "sending"},
         \A c \in Calls : result'[c] = result[c] \/ Kind[c] # "first"
  PROVE  SearchInv'
<1>1. RepliesTrue' BY ReplyGrows DEF SearchInv, RepliesTrue
<1>2. EntriesTrue' BY DEF SearchInv, EntriesTrue, Grows
<1>3. ListenersTrue'
  <2> SUFFICES ASSUME NEW n \in Nodes, listener'[n].at \in {"found", "sending"}
               PROVE  (/\ listener[n].call \in Calls /\ Caller[listener[n].call] = n
                       /\ Available(listener[n].file, n))'
    BY DEF ListenersTrue
  <2>1. listener'[n] = listener[n] OBVIOUS
  <2>2. PICK f : f = listener[n].file OBVIOUS
  <2>3. Available(f, n)' BY <2>1, <2>2, AvailableGrows DEF SearchInv, ListenersTrue
  <2> QED BY <2>1, <2>2, <2>3 DEF SearchInv, ListenersTrue
<1>4. FoundIsThere'
  <2> SUFFICES ASSUME NEW c \in Calls, Kind[c] = "first", result'[c] # None
               PROVE  Available(result[c], Caller[c])'
    BY DEF FoundIsThere
  <2>1. PICK f : f = result[c] OBVIOUS
  <2>2. Caller[c] \in Nodes BY DataSharingAssumption DEF DataSharingAssumption
  <2>3. Available(f, Caller[c])' BY <2>1, <2>2, AvailableGrows DEF SearchInv, FoundIsThere
  <2> QED BY <2>1, <2>3
<1> QED BY <1>1, <1>2, <1>3, <1>4 DEF SearchInv

-----------------------------------------------------------------------------
(* The calls *)

\* A reply is no search request.
LEMMA RequestsOfSearch ==
  ASSUME NEW c \in Calls, NEW round, NEW b, Search(c, round, b)
  PROVE  \A p \in net' : \/ p \in net
                          \/ /\ p.type = "searchRequest" /\ p.call = c
                             /\ "type" \in DOMAIN p /\ "call" \in DOMAIN p
BY DEF Search, SearchRequests

\* Upload adds blobs to the caller's store.
LEMMA UploadKeeps ==
  ASSUME SearchInv, NEW c \in Calls, Upload(c)
  PROVE  SearchInv'
<1>1. Grows BY DEF Upload, SearchInv, Shape, Grows
<1>2. Shape' BY DEF Upload, SearchInv, Shape
<1> QED BY <1>1, <1>2, NothingNew DEF Upload

\* SearchFirst returns a file that is whole at the caller, or sends its request.
LEMMA SearchFirstKeeps ==
  ASSUME SearchInv, NEW c \in Calls, SearchFirst(c)
  PROVE  SearchInv'
<1>1. PICK f \in LocalFiles(c) :
        \/ f # None /\ result' = [result EXCEPT ![c] = f] /\ UNCHANGED net
        \/ f = None /\ UNCHANGED result /\ Search(c, 1, Initial)
  BY DEF SearchFirst
<1>2. UNCHANGED <<blobs, catalog, listener>> BY DEF SearchFirst, stores
<1>3. Grows BY <1>2 DEF Grows
<1>4. Shape'
  BY <1>1, <1>2, RequestsOfSearch DEF SearchInv, Shape
<1>5. CASE f = None
  <2>1. UNCHANGED result BY <1>1, <1>5
  <2>2. \A p \in net' : p \in net \/ p.type # "searchReply" BY <1>1, <1>5, RequestsOfSearch
  <2> QED BY <1>2, <1>3, <1>4, <2>1, <2>2, NothingNew
<1>6. CASE f # None
  <2>1. result' = [result EXCEPT ![c] = f] /\ UNCHANGED net BY <1>1, <1>6
  <2>2. Caller[c] \in Nodes BY DataSharingAssumption DEF DataSharingAssumption
  <2>3. Available(f, Caller[c]) BY <1>6, <2>2 DEF LocalFiles, Available
  <2>4. RepliesTrue' BY <2>1, <1>3, ReplyGrows DEF SearchInv, RepliesTrue
  <2>5. EntriesTrue' BY <1>2 DEF SearchInv, EntriesTrue
  <2>6. ListenersTrue' BY <1>2 DEF SearchInv, ListenersTrue, Available, Whole
  <2>7. FoundIsThere'
    <3> SUFFICES ASSUME NEW d \in Calls, Kind[d] = "first", result'[d] # None
                 PROVE  Available(result[d], Caller[d])'
      BY DEF FoundIsThere
    <3>1. CASE d = c
      <4>1. result'[d] = f BY <2>1, <3>1 DEF SearchInv, Shape
      <4> QED BY <4>1, <3>1, <2>2, <2>3, <1>3, AvailableGrows
    <3>2. CASE d # c
      <4>1. result'[d] = result[d] BY <2>1, <3>2 DEF SearchInv, Shape
      <4> QED BY <4>1, <1>2 DEF SearchInv, FoundIsThere, Available, Whole
    <3> QED BY <3>1, <3>2
  <2> QED BY <1>4, <2>4, <2>5, <2>6, <2>7 DEF SearchInv
<1> QED BY <1>5, <1>6

\* The other steps of a call tell nothing.
LEMMA CallKeeps ==
  ASSUME SearchInv, NEW c \in Calls,
         \/ ExpandRing(c) \/ StopSearch(c) \/ LeaveSearch(c)
         \/ SearchAll(c) \/ RetrieveFilenames(c)
         \/ Downloaded(c) \/ AskPeer(c) \/ Resend(c) \/ GiveUp(c) \/ Answered(c)
  PROVE  SearchInv'
<1>1. UNCHANGED <<blobs, catalog, listener>>
  BY DEF ExpandRing, StopSearch, LeaveSearch, SearchAll, RetrieveFilenames, Downloaded,
         AskPeer, Resend, GiveUp, Answered, stores
<1> DEFINE NoReply == \A p \in net' : \/ p \in net
                                        \/ /\ p.type # "searchReply" /\ p.call = c
                                           /\ "type" \in DOMAIN p /\ "call" \in DOMAIN p
<1>2. NoReply
  <2>1. CASE ExpandRing(c) \/ SearchAll(c)
    <3>1. PICK round, b : Search(c, round, b) BY <2>1 DEF ExpandRing, Expands, SearchAll
    <3> QED BY <3>1, RequestsOfSearch
  <2>2. CASE AskPeer(c) \/ Resend(c)
    <3>1. \/ UNCHANGED net
          \/ \E key, o : net' = net \cup {DataRequest(c, key, o)}
      <4>1. CASE Resend(c) BY <4>1 DEF Resend, AskAgain
      <4>2. CASE AskPeer(c)
        <5> HIDE DEF NoReply
        <5> QED BY <4>2 DEF AskPeer
      <4> QED BY <2>2, <4>1, <4>2
    <3> QED BY <3>1 DEF DataRequest
  <2>3. CASE \/ StopSearch(c) \/ LeaveSearch(c) \/ RetrieveFilenames(c)
             \/ Downloaded(c) \/ GiveUp(c) \/ Answered(c)
    BY <2>3 DEF StopSearch, LeaveSearch, RetrieveFilenames, Downloaded, GiveUp, Answered
  <2> HIDE DEF NoReply
  <2> QED BY <2>1, <2>2, <2>3
<1>3. \/ UNCHANGED result
      \/ Kind[c] # "first" /\ \E v : result' = [result EXCEPT ![c] = v]
  BY DEF ExpandRing, StopSearch, LeaveSearch, SearchAll, RetrieveFilenames, Downloaded,
         AskPeer, Resend, GiveUp, Answered
<1>4. result' = [d \in Calls |-> result'[d]]
      /\ \A d \in Calls : result'[d] = result[d] \/ Kind[d] # "first"
  BY <1>3 DEF SearchInv, Shape
<1>5. Grows BY <1>1 DEF Grows
<1>6. Shape' BY <1>1, <1>2, <1>4 DEF SearchInv, Shape
<1> QED BY <1>1, <1>2, <1>4, <1>5, <1>6, NothingNew

-----------------------------------------------------------------------------
(* The listener *)

\* A reply that is relayed says what it said.
LEMMA RelayKeeps ==
  ASSUME SearchInv, NEW n \in Nodes, Relay(n)
  PROVE  SearchInv'
<1>1. UNCHANGED <<blobs, catalog, listener, result>> BY DEF Relay, stores, call
<1>2. PICK p \in net : net' = (net \ {p}) \cup {[p EXCEPT !.at = p.dest]} BY DEF Relay
<1> DEFINE q == [p EXCEPT !.at = p.dest]
<1>3. Grows BY <1>1 DEF Grows
<1>4. /\ "type" \in DOMAIN q /\ "call" \in DOMAIN q
      /\ q.type = p.type /\ q.call = p.call
  BY DEF SearchInv, Shape
<1>5. Shape' BY <1>1, <1>2, <1>4 DEF SearchInv, Shape
<1>6. RepliesTrue'
  <2>1. ASSUME q.type = "searchReply" PROVE TrueReply(q)
    <3>1. TrueReply(p) BY <1>4, <2>1 DEF SearchInv, RepliesTrue
    <3> QED BY <3>1 DEF TrueReply
  <2> HIDE DEF q
  <2> QED BY <1>2, <1>3, <2>1, ReplyGrows DEF SearchInv, RepliesTrue, q
<1>7. EntriesTrue' BY <1>1 DEF SearchInv, EntriesTrue
<1>8. ListenersTrue' BY <1>1 DEF SearchInv, ListenersTrue, Available, Whole
<1>9. FoundIsThere' BY <1>1 DEF SearchInv, FoundIsThere, Available, Whole
<1> QED BY <1>5, <1>6, <1>7, <1>8, <1>9 DEF SearchInv

\* A node that answers a data request says nothing of what it has; without a route back
\* its listener stops.
LEMMA ExecDataRequestKeeps ==
  ASSUME SearchInv, NEW n \in Nodes, NEW p \in net, ExecDataRequest(n, p)
  PROVE  SearchInv'
<1>1. UNCHANGED <<blobs, catalog, result>> BY DEF ExecDataRequest, stores, call
<1>2. \/ UNCHANGED listener
      \/ listener' = [listener EXCEPT ![n].at = "stopped"]
  BY DEF ExecDataRequest
<1>3. \A q \in net' : \/ q \in net
                       \/ /\ q.type # "searchReply" /\ q.call = p.call
                          /\ "type" \in DOMAIN q /\ "call" \in DOMAIN q
  BY DEF ExecDataRequest
<1>4. Grows BY <1>1 DEF Grows
<1>5. Shape' BY <1>1, <1>2, <1>3 DEF SearchInv, Shape
<1>6. \A m \in Nodes : \/ listener'[m] = listener[m]
                       \/ listener'[m].at \notin {"found", "sending"}
  BY <1>2 DEF SearchInv, Shape
<1> QED BY <1>1, <1>3, <1>4, <1>5, <1>6, NothingNew

\* A data reply adds a blob to the store of the node that asked for it.
LEMMA ExecDataReplyKeeps ==
  ASSUME SearchInv, NEW n \in Nodes, NEW p \in net, ExecDataReply(n, p)
  PROVE  SearchInv'
<1>1. UNCHANGED <<catalog, listener, result>> /\ net' \subseteq net
  BY DEF ExecDataReply
<1>2. Grows BY <1>1 DEF ExecDataReply, SearchInv, Shape, Grows
<1>3. Shape' BY <1>1 DEF ExecDataReply, SearchInv, Shape
<1> QED BY <1>1, <1>2, <1>3, NothingNew

\* A node answers with what it has.
LEMMA ExecSearchRequestKeeps ==
  ASSUME SearchInv, NEW n \in Nodes, NEW p \in net, ExecSearchRequest(n, p)
  PROVE  SearchInv'
<1> DEFINE files == Matching[p.call] \cap names[n] \cap blobs[n]
           have == blobs[n] \cap UNION {ToSet(BlobList(f)) : f \in files}
           reply == [type |-> "searchReply", call |-> p.call, source |-> n,
                     at |-> p.source, dest |-> Caller[p.call], files |-> files,
                     blobs |-> have]
           others == Neighbours[n] \ {p.source, Caller[p.call]}
<1>1. UNCHANGED <<blobs, catalog, listener, result>>
  BY DEF ExecSearchRequest, stores, call
<1>2. p.call \in Calls BY DEF SearchInv, Shape
<1>3. TrueReply(reply)
  <2>1. files \subseteq Files
    BY <1>2, DataSharingAssumption DEF DataSharingAssumption
  <2>2. files \subseteq have BY <2>1, BlobsOfFile
  <2>3. have \subseteq blobs[n] OBVIOUS
  <2> HIDE DEF files, have
  <2> QED BY <2>1, <2>2, <2>3 DEF TrueReply
<1>4. \A q \in net' : \/ q \in net \/ q = reply
                       \/ /\ q.type # "searchReply" /\ q.call = p.call
                          /\ "type" \in DOMAIN q /\ "call" \in DOMAIN q
  <2>1. \/ net' = (net \ {p}) \cup {reply}
        \/ \E d : net' = (net \ {p}) \cup {reply} \cup SearchRequests(p.call, p.round, n, d)
    BY DEF ExecSearchRequest
  <2> HIDE DEF reply
  <2> QED BY <2>1 DEF SearchRequests
<1>5. Grows BY <1>1 DEF Grows
<1>6. Shape'
  <2>1. "type" \in DOMAIN reply /\ "call" \in DOMAIN reply /\ reply.call = p.call OBVIOUS
  <2> HIDE DEF reply
  <2> QED BY <1>1, <1>2, <1>4, <2>1 DEF SearchInv, Shape
<1>7. RepliesTrue'
  <2> HIDE DEF reply
  <2> SUFFICES ASSUME NEW q \in net', q.type = "searchReply"
               PROVE  TrueReply(q)'
    BY DEF RepliesTrue
  <2>1. TrueReply(q) BY <1>3, <1>4 DEF SearchInv, RepliesTrue
  <2> QED BY <2>1, <1>5, ReplyGrows
<1>8. EntriesTrue' BY <1>1 DEF SearchInv, EntriesTrue
<1>9. ListenersTrue' BY <1>1 DEF SearchInv, ListenersTrue, Available, Whole
<1>10. FoundIsThere' BY <1>1 DEF SearchInv, FoundIsThere, Available, Whole
<1> QED BY <1>6, <1>7, <1>8, <1>9, <1>10 DEF SearchInv

\* A reply that arrives is still true, so that its entries are, and a whole file in it is
\* whole at its sender.
LEMMA ExecSearchReplyKeeps ==
  ASSUME SearchInv, NEW n \in Nodes, NEW p \in net, ExecSearchReply(n, p)
  PROVE  SearchInv'
<1>1. UNCHANGED <<blobs, result>> /\ net' \subseteq net BY DEF ExecSearchReply
<1>2. TrueReply(p) /\ p.dest = n /\ p.call \in Calls
  BY DEF ExecSearchReply, Receives, SearchInv, RepliesTrue, Shape
<1>3. catalog' = [catalog EXCEPT ![n] = @ \cup Entries(p)] BY DEF ExecSearchReply
<1>4. \/ UNCHANGED listener
      \/ \E f \in WholeFiles(p) :
           listener' = [listener EXCEPT ![n] = [at |-> "found", call |-> p.call, file |-> f]]
  BY DEF ExecSearchReply
<1>5. Grows BY <1>1, <1>3 DEF SearchInv, Shape, Grows
<1>6. Shape'
  <2>1. WholeFiles(p) \subseteq Files BY <1>2 DEF WholeFiles, TrueReply
  <2>2. catalog' = [m \in Nodes |-> catalog'[m]] BY <1>3 DEF SearchInv, Shape
  <2>3. listener' \in [Nodes -> [at : {"idle", "found", "sending", "stopped"},
                                call : Calls \cup {None}, file : Files \cup {None}]]
    BY <1>2, <1>4, <2>1 DEF SearchInv, Shape
  <2> QED BY <1>1, <2>2, <2>3 DEF SearchInv, Shape
<1>7. RepliesTrue' BY <1>1, <1>5, ReplyGrows DEF SearchInv, RepliesTrue
<1>8. EntriesTrue'
  <2>1. \A e \in Entries(p) : e[2] \in Nodes /\ e[1] \in blobs[e[2]]
    BY <1>2 DEF Entries, TrueReply
  <2>2. \A m \in Nodes : \A e \in catalog'[m] : e \in catalog[m] \/ e \in Entries(p)
    BY <1>3 DEF SearchInv, Shape
  <2> QED BY <1>1, <2>1, <2>2 DEF SearchInv, EntriesTrue
<1>9. ASSUME NEW f \in WholeFiles(p) PROVE Available(f, n)'
  <2>1. f \in Files /\ ToSet(BlobList(f)) \subseteq p.blobs
    BY <1>2, BlobsOfFile DEF WholeFiles, TrueReply
  <2>2. p.source \in Nodes /\ p.blobs \subseteq blobs[p.source] BY <1>2 DEF TrueReply
  <2>3. \A b \in p.blobs : <<b, p.source>> \in catalog'[n]
    BY <1>3 DEF SearchInv, Shape, Entries
  <2> QED BY <1>1, <2>1, <2>2, <2>3 DEF Available, Whole, BlobList
<1>10. ListenersTrue'
  <2> SUFFICES ASSUME NEW m \in Nodes, listener'[m].at \in {"found", "sending"}
               PROVE  (/\ listener[m].call \in Calls /\ Caller[listener[m].call] = m
                       /\ Available(listener[m].file, m))'
    BY DEF ListenersTrue
  <2>1. CASE listener'[m] = listener[m]
    <3>1. PICK f : f = listener[m].file OBVIOUS
    <3>2. Available(f, m)' BY <1>5, <2>1, <3>1, AvailableGrows DEF SearchInv, ListenersTrue
    <3> QED BY <2>1, <3>1, <3>2 DEF SearchInv, ListenersTrue
  <2>2. CASE listener'[m] # listener[m]
    <3>1. PICK f \in WholeFiles(p) :
            listener' = [listener EXCEPT ![n] = [at |-> "found", call |-> p.call, file |-> f]]
      BY <1>4, <2>2
    <3>2. m = n /\ listener'[m] = [at |-> "found", call |-> p.call, file |-> f]
      BY <2>2, <3>1 DEF SearchInv, Shape
    <3>3. Available(f, n)' BY <1>9
    <3>4. m = n /\ listener'[m].call = p.call /\ listener'[m].file = f BY <3>2
    <3>5. p.call \in Calls /\ Caller[p.call] = n BY <1>2 DEF TrueReply
    <3> QED BY <3>3, <3>4, <3>5
  <2> QED BY <2>1, <2>2
<1>11. FoundIsThere'
  <2> SUFFICES ASSUME NEW c \in Calls, Kind[c] = "first", result'[c] # None
               PROVE  Available(result[c], Caller[c])'
    BY DEF FoundIsThere
  <2>1. PICK f : f = result[c] OBVIOUS
  <2>2. Caller[c] \in Nodes BY DataSharingAssumption DEF DataSharingAssumption
  <2>3. Available(f, Caller[c])'
    BY <1>1, <1>5, <2>1, <2>2, AvailableGrows DEF SearchInv, FoundIsThere
  <2> QED BY <1>1, <2>1, <2>3
<1> QED BY <1>6, <1>7, <1>8, <1>10, <1>11 DEF SearchInv

\* triggerChannel goes on to send the file that was found, or finds no channel.
LEMMA TriggerKeeps ==
  ASSUME SearchInv, NEW n \in Nodes, Trigger(n)
  PROVE  SearchInv'
<1>1. UNCHANGED <<blobs, catalog, result, net>> BY DEF Trigger, stores, call
<1>2. \/ listener' = [listener EXCEPT ![n] = [@ EXCEPT !.at = "sending"]]
      \/ listener' = [listener EXCEPT ![n] = Idle]
  BY DEF Trigger
<1>3. Shape' BY <1>1, <1>2 DEF SearchInv, Shape, Idle
<1>4. ListenersTrue'
  <2>1. \A m \in Nodes : \/ listener'[m] = listener[m]
                         \/ listener'[m].at \notin {"found", "sending"}
                         \/ /\ m = n /\ listener[m].at = "found"
                            /\ listener'[m].call = listener[m].call
                            /\ listener'[m].file = listener[m].file
    BY <1>2 DEF SearchInv, Shape, Idle, Trigger
  <2> QED BY <1>1, <2>1 DEF SearchInv, ListenersTrue, Available, Whole
<1> QED BY <1>1, <1>3, <1>4 DEF SearchInv, RepliesTrue, TrueReply, EntriesTrue,
                                 FoundIsThere, Available, Whole

\* The call receives what its listener has found.
LEMMA ReceiveKeeps ==
  ASSUME SearchInv, NEW n \in Nodes, Receive(n)
  PROVE  SearchInv'
<1> DEFINE c == listener[n].call
<1>1. /\ UNCHANGED <<blobs, catalog, net>>
      /\ listener' = [listener EXCEPT ![n] = Idle]
      /\ result' = [result EXCEPT ![c] = listener[n].file]
  BY DEF Receive, stores
<1>2. c \in Calls /\ Caller[c] = n /\ Available(listener[n].file, n)
  BY DEF Receive, SearchInv, ListenersTrue
<1> HIDE DEF c
<1>3. Shape' BY <1>1 DEF SearchInv, Shape, Idle
<1>4. ListenersTrue'
  <2>1. \A m \in Nodes : \/ listener'[m] = listener[m]
                         \/ listener'[m].at \notin {"found", "sending"}
    BY <1>1 DEF SearchInv, Shape, Idle
  <2> QED BY <1>1, <2>1 DEF SearchInv, ListenersTrue, Available, Whole
<1>5. FoundIsThere'
  <2>1. \A d \in Calls : result'[d] = IF d = c THEN listener[n].file ELSE result[d]
    BY <1>1 DEF SearchInv, Shape
  <2> QED BY <1>1, <1>2, <2>1 DEF SearchInv, FoundIsThere, Available, Whole
<1> QED BY <1>1, <1>3, <1>4, <1>5 DEF SearchInv, RepliesTrue, TrueReply, EntriesTrue

-----------------------------------------------------------------------------
(* The specification *)

\* Nothing is said at the start.
LEMMA InitSearchInv ==
  ASSUME Init
  PROVE  SearchInv
<1>1. Shape
  <2>1. Stored = [n \in Nodes |-> Stored[n]]
    BY DataSharingAssumption DEF DataSharingAssumption
  <2> QED BY <2>1 DEF Init, Shape, Idle
<1> QED BY <1>1 DEF Init, SearchInv, RepliesTrue, EntriesTrue, ListenersTrue, Idle, FoundIsThere

\* Every step keeps what is said true.
LEMMA NextSearchInv ==
  ASSUME SearchInv, [Next]_vars
  PROVE  SearchInv'
<1>1. ASSUME NEW c \in Calls, Begin(c) \/ Continue(c) PROVE SearchInv'
  BY <1>1, UploadKeeps, SearchFirstKeeps, CallKeeps DEF Begin, Continue
<1>2. ASSUME NEW n \in Nodes, Listen(n) PROVE SearchInv'
  BY <1>2, ExecDataRequestKeeps, ExecDataReplyKeeps, ExecSearchRequestKeeps,
     ExecSearchReplyKeeps, RelayKeeps, TriggerKeeps, ReceiveKeeps DEF Listen
<1>3. CASE Lose
  <2>1. UNCHANGED <<blobs, catalog, listener, result>> /\ net' \subseteq net
    BY <1>3 DEF Lose, stores, call
  <2>2. Grows /\ Shape' BY <2>1 DEF Grows, SearchInv, Shape
  <2> QED BY <2>1, <2>2, NothingNew
<1>4. CASE UNCHANGED vars
  <2>1. UNCHANGED <<blobs, catalog, listener, result, net>> BY <1>4 DEF vars, stores, call
  <2>2. Grows /\ Shape' BY <2>1 DEF Grows, SearchInv, Shape
  <2> QED BY <2>1, <2>2, NothingNew
<1> QED BY <1>1, <1>2, <1>3, <1>4 DEF Next

\* Whatever is said of a node's blobs, in a packet, a catalog, a listener or a result, is
\* true (ExecSearchRequestMessage to SearchFirst).
THEOREM SearchTrue == Spec => []SearchInv
<1>1. Init => SearchInv BY InitSearchInv
<1>2. SearchInv /\ [Next]_vars => SearchInv' BY NextSearchInv
<1> QED BY <1>1, <1>2, PTL DEF Spec

\* Every entry of a catalog is true, whenever it is looked at (updateStoreAndCatalog).
THEOREM CatalogCorrect == Spec => []CatalogTrue
<1>1. SearchInv => CatalogTrue BY DEF SearchInv, EntriesTrue, CatalogTrue
<1> QED BY <1>1, SearchTrue, PTL

\* A file that SearchFirst returns is whole at a node that its caller can find
\* (checkAvailabilityAndTrigger).
THEOREM FoundCorrect == Spec => []FoundIsThere
<1>1. SearchInv => FoundIsThere BY DEF SearchInv
<1> QED BY <1>1, SearchTrue, PTL

-----------------------------------------------------------------------------
(* Types, and what a download has when it ends *)

\* Blobs, names, true entries and a routing table in the stores of the nodes
StoresTyped ==
  /\ blobs \in [Nodes -> SUBSET Blobs] /\ names \in [Nodes -> SUBSET Files]
  /\ catalog \in [Nodes -> SUBSET (Blobs \X Nodes)] /\ routes \in Tables

\* A listener that has found a file is to tell a call of SearchFirst
ListenersTyped ==
  /\ listener \in [Nodes -> [at : {"idle", "found", "sending", "stopped"},
                             call : Calls \cup {None}, file : Files \cup {None}]]
  /\ \A n \in Nodes : listener[n].at \in {"found", "sending"} =>
       listener[n].call \in Calls /\ Kind[listener[n].call] = "first"

\* Only a search leaves, and a download that waits has asked a peer to which it has a route
CallsTyped ==
  /\ pc \in [Calls -> {"idle", "waiting", "leaving", "next", "done", "failed"}]
  /\ \A c \in Calls : pc[c] = "leaving" => Kind[c] = "first"
  /\ trials \in [Calls -> Nat]
  /\ \A c \in Calls : trials[c] <= IF Kind[c] = "first" THEN Retry ELSE DataRetry + 1
  /\ budget \in [Calls -> Nat] /\ channel \in [Calls -> BOOLEAN]
  /\ remote \in [Calls -> SUBSET Files]
  /\ asked \in [Calls -> [key : Blobs, peer : Nodes] \cup {None}]
  /\ \A c \in Calls : Kind[c] = "download" /\ pc[c] = "waiting" =>
       asked[c] \in [key : Blobs, peer : Nodes] /\ routes[Caller[c]][asked[c].peer] # None

\* A set of files for SearchAll, one file for the other calls
ResultsTyped ==
  /\ result = [c \in Calls |-> result[c]]
  /\ \A c \in Calls : IF Kind[c] = "all" THEN result[c] \in (SUBSET Files) \cup {None}
                      ELSE result[c] \in Files \cup {None}

\* Packets with a node to go to, and a count of the requests handled
WireTyped ==
  /\ net \subseteq Packet /\ lost \in 0 .. MaxLoss
  /\ handled \in [Calls -> [Rounds -> Nat]]

\* The invariant that the actions keep
SharingInv ==
  StoresTyped /\ ListenersTyped /\ CallsTyped /\ ResultsTyped /\ WireTyped

\* What the assumptions say of the constants
LEMMA Constants ==
  /\ \A c \in Calls : Caller[c] \in Nodes /\ Matching[c] \subseteq Files
  /\ \A n \in Nodes : Neighbours[n] \subseteq Nodes /\ IsFiniteSet(Neighbours[n])
  /\ Initial \in Nat /\ Factor \in Nat /\ DataRetry \in Nat /\ MaxLoss \in Nat
  /\ Retry \in Nat /\ 1 <= Retry /\ 1 \in Rounds
  /\ \A t \in Tables : \A n, o \in Nodes : t[n][o] \in Nodes \cup {None}
  /\ None \notin Nodes /\ None \notin Blobs /\ Files \subseteq Blobs
<1>1. \A n \in Nodes : IsFiniteSet(Neighbours[n])
  BY FS_Subset, DataSharingAssumption DEF DataSharingAssumption
<1>2. \A c \in Calls : Caller[c] \in Nodes /\ Matching[c] \subseteq Files
  BY DataSharingAssumption DEF DataSharingAssumption
<1>3. \A n \in Nodes : Neighbours[n] \subseteq Nodes
  BY DataSharingAssumption DEF DataSharingAssumption
<1>4. /\ Initial \in Nat /\ Factor \in Nat /\ DataRetry \in Nat /\ MaxLoss \in Nat
      /\ Retry \in Nat /\ 1 <= Retry
  BY DataSharingAssumption DEF DataSharingAssumption
<1>5. \A t \in Tables : \A n, o \in Nodes : t[n][o] \in Nodes \cup {None}
  BY DataSharingAssumption DEF DataSharingAssumption
<1>6. None \notin Nodes /\ None \notin Blobs /\ Files \subseteq Blobs
  BY DataSharingAssumption DEF DataSharingAssumption, Blobs
<1> QED BY <1>1, <1>2, <1>3, <1>4, <1>5, <1>6 DEF Rounds

\* The file of an upload or a download
LEMMA FileOfCall ==
  ASSUME NEW c \in Calls, Kind[c] \in {"upload", "download"}
  PROVE  TheFile(c) \in Files
<1>1. Cardinality(Matching[c]) = 1 /\ Matching[c] \subseteq Files /\ IsFiniteSet(Files)
  BY DataSharingAssumption DEF DataSharingAssumption
<1>2. IsFiniteSet(Matching[c]) BY <1>1, FS_Subset
<1>3. Matching[c] # {} BY <1>1, <1>2, FS_EmptySet
<1>4. \E f \in Files : f \in Matching[c] BY <1>1, <1>3
<1> QED BY <1>4 DEF TheFile

\* The fields of a packet
LEMMA PacketFields ==
  ASSUME NEW p \in Packet
  PROVE  /\ p.call \in Calls /\ p.at \in Nodes /\ p.dest \in Nodes
         /\ p.type = "searchRequest" => /\ p.round \in Rounds /\ p.source \in Nodes
                                        /\ p.budget \in Nat \ {0}
         /\ p.type = "searchReply" => /\ p.source \in Nodes /\ p.files \subseteq Files
                                      /\ p.blobs \subseteq Blobs
         /\ p.type = "dataRequest" => p.key \in Blobs /\ p.source \in Nodes
         /\ p.type = "dataReply" => p.key \in Blobs
         /\ [p EXCEPT !.at = p.dest] \in Packet
  BY DEF Packet

\* A search request that is sent has a part of the budget.
LEMMA RequestsTyped ==
  ASSUME NEW c \in Calls, NEW round \in Rounds, NEW n \in Nodes, NEW ns \in SUBSET Nodes,
         IsFiniteSet(ns), ns # {}, NEW b \in Nat, NEW d \in Distributions(ns, b)
  PROVE  SearchRequests(c, round, n, d) \subseteq Packet
<1>1. Cardinality(ns) \in Nat /\ Cardinality(ns) # 0
  BY FS_CardinalityType, FS_EmptySet
<1>2. PICK k \in Nat : k = Cardinality(ns) BY <1>1
<1>3. k # 0 BY <1>1, <1>2
<1>4. PICK share : share = b \div k OBVIOUS
<1>5. share \in Nat /\ share + 1 \in Nat BY <1>3, <1>4
<1>6. d \in [ns -> {share, share + 1}] BY <1>2, <1>4 DEF Distributions
<1>7. \A o \in ns : d[o] \in Nat BY <1>5, <1>6
<1>8. DOMAIN d = ns BY <1>6
<1> QED BY <1>7, <1>8 DEF SearchRequests, Packet

\* What a search sends are packets.
LEMMA SearchTyped ==
  ASSUME NEW c \in Calls, NEW round \in Rounds, NEW b \in Nat, net \subseteq Packet,
         Search(c, round, b)
  PROVE  net' \subseteq Packet
<1>1. Caller[c] \in Nodes BY Constants
<1>2. Neighbours[Caller[c]] \in SUBSET Nodes /\ IsFiniteSet(Neighbours[Caller[c]])
  BY <1>1, Constants
<1>3. CASE Neighbours[Caller[c]] = {} BY <1>3 DEF Search
<1>4. CASE Neighbours[Caller[c]] # {}
  <2>1. PICK d \in Distributions(Neighbours[Caller[c]], b) :
          net' = net \cup SearchRequests(c, round, Caller[c], d)
    BY <1>4 DEF Search
  <2> QED BY <1>1, <1>2, <1>4, <2>1, RequestsTyped
<1> QED BY <1>3, <1>4

\* A data request is a packet, if there is a route.
LEMMA DataRequestTyped ==
  ASSUME NEW c \in Calls, NEW key \in Blobs, NEW o \in Nodes, routes \in Tables,
         routes[Caller[c]][o] # None
  PROVE  DataRequest(c, key, o) \in Packet
<1>1. Caller[c] \in Nodes /\ routes[Caller[c]][o] \in Nodes BY Constants
<1> QED BY <1>1 DEF DataRequest, Packet

\* The part of CallsTyped about one call
CallTyped(c) ==
  /\ pc[c] \in {"idle", "waiting", "leaving", "next", "done", "failed"}
  /\ pc[c] = "leaving" => Kind[c] = "first"
  /\ trials[c] \in Nat
  /\ trials[c] <= IF Kind[c] = "first" THEN Retry ELSE DataRetry + 1
  /\ budget[c] \in Nat /\ channel[c] \in BOOLEAN
  /\ remote[c] \in SUBSET Files
  /\ asked[c] \in [key : Blobs, peer : Nodes] \cup {None}
  /\ Kind[c] = "download" /\ pc[c] = "waiting" =>
       asked[c] \in [key : Blobs, peer : Nodes] /\ routes[Caller[c]][asked[c].peer] # None

\* A step that changes the state of no call but c
StepOf(c) ==
  /\ pc' = [pc EXCEPT ![c] = pc'[c]] /\ trials' = [trials EXCEPT ![c] = trials'[c]]
  /\ budget' = [budget EXCEPT ![c] = budget'[c]]
  /\ channel' = [channel EXCEPT ![c] = channel'[c]]
  /\ remote' = [remote EXCEPT ![c] = remote'[c]] /\ asked' = [asked EXCEPT ![c] = asked'[c]]
  /\ UNCHANGED routes

\* What is typed stays so if the new state of that call is.
LEMMA StepTyped ==
  ASSUME SharingInv, NEW c \in Calls, StepOf(c), CallTyped(c)'
  PROVE  CallsTyped'
<1>1. /\ pc' \in [Calls -> {"idle", "waiting", "leaving", "next", "done", "failed"}]
      /\ \A d \in Calls : d # c => pc'[d] = pc[d]
  BY DEF SharingInv, CallsTyped, CallTyped, StepOf
<1>2. \A d \in Calls : pc'[d] = "leaving" => Kind[d] = "first"
  BY <1>1 DEF SharingInv, CallsTyped, CallTyped
<1>3. trials' \in [Calls -> Nat] /\ \A d \in Calls : d # c => trials'[d] = trials[d]
  BY DEF SharingInv, CallsTyped, CallTyped, StepOf
<1>4. \A d \in Calls : trials'[d] <= IF Kind[d] = "first" THEN Retry ELSE DataRetry + 1
  BY <1>3 DEF SharingInv, CallsTyped, CallTyped
<1>5. budget' \in [Calls -> Nat] BY DEF SharingInv, CallsTyped, CallTyped, StepOf
<1>6. channel' \in [Calls -> BOOLEAN] BY DEF SharingInv, CallsTyped, CallTyped, StepOf
<1>7. remote' \in [Calls -> SUBSET Files] BY DEF SharingInv, CallsTyped, CallTyped, StepOf
<1>8. /\ asked' \in [Calls -> [key : Blobs, peer : Nodes] \cup {None}]
      /\ \A d \in Calls : d # c => asked'[d] = asked[d]
  BY DEF SharingInv, CallsTyped, CallTyped, StepOf
<1>9. \A d \in Calls : Kind[d] = "download" /\ pc'[d] = "waiting" =>
        /\ asked'[d] \in [key : Blobs, peer : Nodes]
        /\ routes'[Caller[d]][asked'[d].peer] # None
  <2> SUFFICES ASSUME NEW d \in Calls, Kind[d] = "download", pc'[d] = "waiting"
               PROVE  /\ asked'[d] \in [key : Blobs, peer : Nodes]
                      /\ routes'[Caller[d]][asked'[d].peer] # None
    OBVIOUS
  <2>1. CASE d = c BY <2>1 DEF CallTyped
  <2>2. CASE d # c BY <2>2, <1>1, <1>8 DEF SharingInv, CallsTyped, StepOf
  <2> QED BY <2>1, <2>2
<1> QED BY <1>1, <1>2, <1>3, <1>4, <1>5, <1>6, <1>7, <1>8, <1>9 DEF CallsTyped

\* The state of a call, which is a function's
LEMMA CallValues ==
  ASSUME SharingInv, NEW c \in Calls
  PROVE  CallTyped(c)
  BY DEF SharingInv, CallsTyped, CallTyped

\* The state of the calls is made of functions.
LEMMA CallFunctions ==
  ASSUME SharingInv, NEW c \in Calls
  PROVE  /\ DOMAIN pc = Calls /\ DOMAIN trials = Calls /\ DOMAIN channel = Calls
         /\ DOMAIN budget = Calls /\ DOMAIN remote = Calls /\ DOMAIN asked = Calls
         /\ pc = [pc EXCEPT ![c] = pc[c]] /\ trials = [trials EXCEPT ![c] = trials[c]]
         /\ budget = [budget EXCEPT ![c] = budget[c]]
         /\ channel = [channel EXCEPT ![c] = channel[c]]
         /\ remote = [remote EXCEPT ![c] = remote[c]] /\ asked = [asked EXCEPT ![c] = asked[c]]
  BY DEF SharingInv, CallsTyped

\* What a step leaves alone
LEMMA StoresSame ==
  ASSUME SharingInv, UNCHANGED <<stores, routes>>
  PROVE  StoresTyped' /\ \A n \in Nodes : blobs[n] \subseteq blobs'[n]
  BY DEF SharingInv, StoresTyped, stores

\* The same listeners are typed as before
LEMMA ListenersSame ==
  ASSUME SharingInv, UNCHANGED listener
  PROVE  ListenersTyped'
  BY DEF SharingInv, ListenersTyped

\* and the same results
LEMMA ResultsSame ==
  ASSUME SharingInv, UNCHANGED result
  PROVE  ResultsTyped'
  BY DEF SharingInv, ResultsTyped

\* and packets when those that are new are.
LEMMA WireSame ==
  ASSUME SharingInv, UNCHANGED <<lost, handled>>, net' \subseteq Packet
  PROVE  WireTyped'
  BY DEF SharingInv, WireTyped

\* A result of the right kind
LEMMA ResultTyped ==
  ASSUME SharingInv, NEW c \in Calls, NEW r, result' = [result EXCEPT ![c] = r],
         IF Kind[c] = "all" THEN r \in (SUBSET Files) \cup {None} ELSE r \in Files \cup {None}
  PROVE  ResultsTyped'
<1>1. result' = [d \in Calls |-> IF d = c THEN r ELSE result[d]] BY DEF SharingInv, ResultsTyped
<1>2. \A d \in Calls : result'[d] = IF d = c THEN r ELSE result[d] BY <1>1
<1>3. result' = [d \in Calls |-> result'[d]] BY <1>1
<1> QED BY <1>2, <1>3 DEF SharingInv, ResultsTyped
\* Upload stores blobs.
LEMMA UploadTyped ==
  ASSUME SharingInv, NEW c \in Calls, Upload(c)
  PROVE  SharingInv'
<1>1. Caller[c] \in Nodes /\ TheFile(c) \in Blobs
  BY Constants, FileOfCall DEF Upload
<1>2. PICK b \in Blobs, p \in {"done", pc[c]} :
        /\ blobs' = [blobs EXCEPT ![Caller[c]] = @ \cup {b}]
        /\ pc' = [pc EXCEPT ![c] = p]
  BY <1>1, CallFunctions DEF Upload
<1>3. blobs' \in [Nodes -> SUBSET Blobs] /\ \A n \in Nodes : blobs[n] \subseteq blobs'[n]
  BY <1>1, <1>2 DEF SharingInv, StoresTyped
<1>4. StoresTyped' BY <1>3 DEF Upload, SharingInv, StoresTyped
<1>5. CallsTyped'
  <2>1. StepOf(c) BY <1>2, CallFunctions DEF Upload, StepOf
  <2>2. CallTyped(c)' BY <1>2, CallValues, CallFunctions DEF Upload, CallTyped
  <2> QED BY <2>1, <2>2, StepTyped
<1> QED BY <1>4, <1>5, ListenersSame, ResultsSame, WireSame
        DEF Upload, SharingInv, WireTyped

\* SearchFirst finds a whole file in the caller's store, or sends its first request.
LEMMA SearchFirstTyped ==
  ASSUME SharingInv, NEW c \in Calls, SearchFirst(c)
  PROVE  SharingInv'
<1>1. PICK f \in LocalFiles(c) :
        \/ /\ f # None /\ pc' = [pc EXCEPT ![c] = "done"] /\ result' = [result EXCEPT ![c] = f]
           /\ UNCHANGED <<trials, budget, channel, net>>
        \/ /\ channel' = [channel EXCEPT ![c] = TRUE] /\ pc' = [pc EXCEPT ![c] = "waiting"]
           /\ trials' = [trials EXCEPT ![c] = 1] /\ budget' = [budget EXCEPT ![c] = Initial]
           /\ Search(c, 1, Initial) /\ UNCHANGED result
  BY DEF SearchFirst
<1>2. f \in Files \cup {None} BY Constants DEF LocalFiles
<1>3. /\ Kind[c] = "first" /\ UNCHANGED <<stores, routes, listener, remote, asked, lost, handled>>
  BY DEF SearchFirst
<1>4. StoresTyped' /\ ListenersTyped' BY <1>3, StoresSame, ListenersSame
<1>5. net' \subseteq Packet BY <1>1, Constants, SearchTyped DEF SharingInv, WireTyped
<1>6. CallsTyped'
  <2>1. CASE pc' = [pc EXCEPT ![c] = "done"] /\ UNCHANGED <<trials, budget, channel>>
    <3>1. StepOf(c) BY <2>1, <1>3, CallFunctions DEF StepOf
    <3>2. CallTyped(c)' BY <2>1, <1>3, CallValues, CallFunctions DEF CallTyped
    <3> QED BY <3>1, <3>2, StepTyped
  <2>2. CASE /\ channel' = [channel EXCEPT ![c] = TRUE] /\ pc' = [pc EXCEPT ![c] = "waiting"]
             /\ trials' = [trials EXCEPT ![c] = 1] /\ budget' = [budget EXCEPT ![c] = Initial]
    <3>1. StepOf(c) BY <2>2, <1>3, CallFunctions DEF StepOf
    <3>2. CallTyped(c)' BY <2>2, <1>3, CallValues, CallFunctions, Constants DEF CallTyped
    <3> QED BY <3>1, <3>2, StepTyped
  <2> QED BY <1>1, <2>1, <2>2
<1>7. ResultsTyped'
  <2>1. CASE result' = [result EXCEPT ![c] = f] BY <2>1, <1>2, <1>3, ResultTyped
  <2>2. CASE UNCHANGED result BY <2>2, ResultsSame
  <2> QED BY <1>1, <2>1, <2>2
<1> QED BY <1>3, <1>4, <1>5, <1>6, <1>7, WireSame DEF SharingInv

\* The ring expands at most Retry - 1 times.
LEMMA ExpandRingTyped ==
  ASSUME SharingInv, NEW c \in Calls, ExpandRing(c)
  PROVE  SharingInv'
<1>1. /\ Kind[c] = "first" /\ pc[c] = "waiting" /\ trials[c] < Retry
      /\ budget' = [budget EXCEPT ![c] = @ * Factor]
      /\ trials' = [trials EXCEPT ![c] = @ + 1]
      /\ Search(c, trials[c] + 1, budget[c] * Factor)
      /\ UNCHANGED <<stores, routes, listener, pc, result, channel, remote, asked, lost, handled>>
  BY DEF ExpandRing, Expands
<1>2. PICK t \in Nat, b \in Nat : t = trials[c] /\ b = budget[c] BY CallValues DEF CallTyped
<1>3. t + 1 \in Nat /\ t + 1 \in Rounds /\ t + 1 <= Retry /\ b * Factor \in Nat
  BY <1>1, <1>2, Constants DEF Rounds
<1>4. trials' = [trials EXCEPT ![c] = t + 1] /\ budget' = [budget EXCEPT ![c] = b * Factor]
  BY <1>1, <1>2
<1>5. net' \subseteq Packet
  BY <1>1, <1>2, <1>3, SearchTyped DEF SharingInv, WireTyped
<1>6. CallsTyped'
  <2>1. StepOf(c) BY <1>1, <1>4, CallFunctions DEF StepOf
  <2>2. CallTyped(c)' BY <1>1, <1>3, <1>4, CallValues, CallFunctions DEF CallTyped
  <2> QED BY <2>1, <2>2, StepTyped
<1> QED BY <1>1, <1>5, <1>6, StoresSame, ListenersSame, ResultsSame, WireSame DEF SharingInv

\* A step that only changes where one call is, and its channel
LEMMA MovesTyped ==
  ASSUME SharingInv, NEW c \in Calls,
         NEW p \in {"leaving", "next", "done", "failed"}, NEW h \in BOOLEAN,
         pc' = [pc EXCEPT ![c] = p], channel' = [channel EXCEPT ![c] = h],
         p = "leaving" => Kind[c] = "first",
         UNCHANGED <<stores, routes, listener, result, trials, budget, remote, asked, net,
                     lost, handled>>
  PROVE  SharingInv'
<1>1. CallsTyped'
  <2>1. StepOf(c) BY CallFunctions DEF StepOf
  <2>2. CallTyped(c)' BY CallValues, CallFunctions DEF CallTyped
  <2> QED BY <2>1, <2>2, StepTyped
<1> QED BY <1>1, StoresSame, ListenersSame, ResultsSame, WireSame DEF SharingInv, WireTyped

\* The steps that end a call without a new result
LEMMA EndTyped ==
  ASSUME SharingInv, NEW c \in Calls,
         StopSearch(c) \/ LeaveSearch(c) \/ GiveUp(c) \/ Answered(c)
  PROVE  SharingInv'
<1>1. CASE StopSearch(c) BY <1>1, CallValues, CallFunctions, MovesTyped DEF StopSearch, CallTyped
<1>2. CASE LeaveSearch(c)
  <2>1. Kind[c] = "first" BY <1>2, CallValues DEF LeaveSearch, CallTyped
  <2> QED BY <1>2, <2>1, MovesTyped DEF LeaveSearch
<1>3. CASE GiveUp(c) BY <1>3, CallValues, CallFunctions, MovesTyped DEF GiveUp, CallTyped
<1>4. CASE Answered(c)
  <2>1. PICK p \in {"next", "failed"} : pc' = [pc EXCEPT ![c] = p] BY <1>4 DEF Answered
  <2> QED BY <1>4, <2>1, CallValues, CallFunctions, MovesTyped DEF Answered, CallTyped
<1> QED BY <1>1, <1>2, <1>3, <1>4
\* SearchAll sends its request, and reads what came.
LEMMA SearchAllTyped ==
  ASSUME SharingInv, NEW c \in Calls, SearchAll(c) \/ RetrieveFilenames(c)
  PROVE  SharingInv'
<1>1. CASE SearchAll(c)
  <2>1. net' \subseteq Packet
    BY <1>1, Constants, SearchTyped DEF SearchAll, SharingInv, WireTyped
  <2>2. StepOf(c) BY <1>1, CallFunctions DEF SearchAll, StepOf
  <2>3. CallTyped(c)' BY <1>1, CallValues, CallFunctions DEF SearchAll, CallTyped
  <2> QED BY <1>1, <2>1, <2>2, <2>3, StepTyped, StoresSame, ListenersSame, ResultsSame,
             WireSame DEF SearchAll, SharingInv
<1>2. CASE RetrieveFilenames(c)
  <2>1. PICK r : r = (names[Caller[c]] \cap Matching[c]) \cup remote[c] OBVIOUS
  <2>2. r \subseteq Files
    <3>1. remote[c] \subseteq Files BY CallValues DEF CallTyped
    <3> QED BY <2>1, <3>1, Constants
  <2>3. ResultsTyped' BY <1>2, <2>1, <2>2, ResultTyped DEF RetrieveFilenames
  <2>4. StepOf(c) BY <1>2, CallFunctions DEF RetrieveFilenames, StepOf
  <2>5. CallTyped(c)' BY <1>2, CallValues, CallFunctions DEF RetrieveFilenames, CallTyped
  <2> QED BY <1>2, <2>3, <2>4, <2>5, StepTyped, StoresSame, ListenersSame, WireSame
          DEF RetrieveFilenames, SharingInv, WireTyped
<1> QED BY <1>1, <1>2

\* A download ends when nothing is missing.
LEMMA DownloadedTyped ==
  ASSUME SharingInv, NEW c \in Calls, Downloaded(c)
  PROVE  SharingInv'
<1>1. TheFile(c) \in Files BY FileOfCall DEF Downloaded
<1>2. ResultsTyped' BY <1>1, ResultTyped DEF Downloaded
<1>3. StepOf(c) BY CallFunctions DEF Downloaded, StepOf
<1>4. CallTyped(c)' BY CallValues, CallFunctions DEF Downloaded, CallTyped
<1> QED BY <1>2, <1>3, <1>4, StepTyped, StoresSame, ListenersSame, WireSame
        DEF Downloaded, SharingInv, WireTyped

\* A peer is asked over a route, or the download fails.
LEMMA AskPeerTyped ==
  ASSUME SharingInv, NEW c \in Calls, AskPeer(c)
  PROVE  SharingInv'
<1>1. /\ Kind[c] = "download"
      /\ UNCHANGED <<stores, routes, listener, result, budget, remote, lost, handled>>
  BY DEF AskPeer
<1>2. CASE pc' = [pc EXCEPT ![c] = "failed"] /\ UNCHANGED <<asked, channel, trials, net>>
  BY <1>1, <1>2, CallFunctions, CallValues, MovesTyped DEF CallTyped
<1>3. ASSUME NEW key \in Blobs, NEW o \in Nodes, routes[Caller[c]][o] # None,
             asked' = [asked EXCEPT ![c] = [key |-> key, peer |-> o]],
             channel' = [channel EXCEPT ![c] = TRUE], trials' = [trials EXCEPT ![c] = 1],
             net' = net \cup {DataRequest(c, key, o)}, pc' = [pc EXCEPT ![c] = "waiting"]
      PROVE  SharingInv'
  <2>1. net' \subseteq Packet
    BY <1>3, DataRequestTyped DEF SharingInv, StoresTyped, WireTyped
  <2>2. StepOf(c) BY <1>1, <1>3, CallFunctions DEF StepOf
  <2>3. CallTyped(c)'
    <3>1. 1 <= DataRetry + 1 BY Constants
    <3>2. /\ pc'[c] = "waiting" /\ trials'[c] = 1 /\ budget'[c] = budget[c]
          /\ channel'[c] = TRUE /\ remote'[c] = remote[c]
          /\ asked'[c] = [key |-> key, peer |-> o]
      BY <1>1, <1>3, CallFunctions
    <3>3. asked'[c] \in [key : Blobs, peer : Nodes] /\ asked'[c].peer = o BY <3>2
    <3>4. UNCHANGED routes /\ routes[Caller[c]][o] # None BY <1>1, <1>3
    <3>5. /\ budget[c] \in Nat /\ remote[c] \in SUBSET Files BY CallValues DEF CallTyped
    <3>6. trials'[c] <= IF Kind[c] = "first" THEN Retry ELSE DataRetry + 1
      BY <1>1, <3>1, <3>2
    <3>7. asked'[c] \in [key : Blobs, peer : Nodes] /\ routes'[Caller[c]][asked'[c].peer] # None
      BY <3>3, <3>4
    <3>8. /\ (pc[c] \in {"idle", "waiting", "leaving", "next", "done", "failed"})'
          /\ (pc[c] = "leaving" => Kind[c] = "first")' BY <3>2
    <3>9. (trials[c] \in Nat)' BY <3>2
    <3>10. (budget[c] \in Nat /\ channel[c] \in BOOLEAN)' BY <3>2, <3>5
    <3>11. (remote[c] \in SUBSET Files)' BY <3>2, <3>5
    <3>12. (asked[c] \in [key : Blobs, peer : Nodes] \cup {None})' BY <3>7
    <3> QED BY <3>6, <3>7, <3>8, <3>9, <3>10, <3>11, <3>12 DEF CallTyped
  <2> QED BY <1>1, <2>1, <2>2, <2>3, StepTyped, StoresSame, ListenersSame, ResultsSame,
             WireSame DEF SharingInv
<1> QED BY <1>2, <1>3 DEF AskPeer
\* A data request is sent again, at most DataRetry times.
LEMMA ResendTyped ==
  ASSUME SharingInv, NEW c \in Calls, Resend(c)
  PROVE  SharingInv'
<1>1. /\ Kind[c] = "download" /\ pc[c] = "waiting" /\ trials[c] <= DataRetry
      /\ trials' = [trials EXCEPT ![c] = @ + 1]
      /\ net' = net \cup {DataRequest(c, asked[c].key, asked[c].peer)}
      /\ UNCHANGED <<stores, routes, listener, pc, result, budget, channel, remote, asked,
                     lost, handled>>
  BY DEF Resend, AskAgain
<1>2. net' \subseteq Packet
  <2>1. PICK a : a = asked[c] OBVIOUS
  <2>2. a \in [key : Blobs, peer : Nodes] /\ routes[Caller[c]][a.peer] # None
    BY <1>1, <2>1, CallValues DEF CallTyped
  <2>3. DataRequest(c, a.key, a.peer) \in Packet
    BY <2>2, DataRequestTyped DEF SharingInv, StoresTyped
  <2> QED BY <1>1, <2>1, <2>3 DEF SharingInv, WireTyped
<1>3. StepOf(c)
  <2>1. trials' = [trials EXCEPT ![c] = trials'[c]] BY <1>1 DEF SharingInv, CallsTyped
  <2> QED BY <1>1, <2>1, CallFunctions DEF StepOf
<1>4. CallTyped(c)'
  <2>1. PICK t \in Nat : t = trials[c] BY CallValues DEF CallTyped
  <2>2. t + 1 \in Nat /\ t + 1 <= DataRetry + 1 BY <1>1, <2>1, Constants
  <2>3. trials'[c] = t + 1 BY <1>1, <2>1, CallFunctions
  <2> QED BY <1>1, <2>2, <2>3, CallValues, CallFunctions DEF CallTyped
<1> QED BY <1>1, <1>2, <1>3, <1>4, StepTyped, StoresSame, ListenersSame, ResultsSame,
           WireSame DEF SharingInv

\* A step that only moves packets
LEMMA PacketsTyped ==
  ASSUME SharingInv, UNCHANGED <<stores, routes, call>>, net' \subseteq Packet,
         lost' \in 0 .. MaxLoss, handled' \in [Calls -> [Rounds -> Nat]], ListenersTyped'
  PROVE  SharingInv'
<1>1. CallsTyped' BY DEF SharingInv, CallsTyped, call
<1> QED BY <1>1, StoresSame, ResultsSame DEF SharingInv, WireTyped, call

\* A packet is lost or moved, or nothing happens.
LEMMA LoseTyped ==
  ASSUME SharingInv, Lose \/ (\E n \in Nodes : Relay(n)) \/ UNCHANGED vars
  PROVE  SharingInv'
<1>1. CASE Lose
  <2>1. lost' \in 0 .. MaxLoss
    <3>1. PICK k \in Nat : k = lost /\ lost < MaxLoss /\ lost' = lost + 1
      BY <1>1 DEF Lose, SharingInv, WireTyped
    <3> QED BY <3>1, Constants
  <2>2. net' \subseteq Packet BY <1>1 DEF Lose, SharingInv, WireTyped
  <2> QED BY <1>1, <2>1, <2>2, PacketsTyped, ListenersSame DEF Lose, SharingInv, WireTyped
<1>2. ASSUME NEW n \in Nodes, Relay(n) PROVE SharingInv'
  <2>1. PICK p \in net : net' = (net \ {p}) \cup {[p EXCEPT !.at = p.dest]}
    BY <1>2 DEF Relay
  <2>2. p \in Packet BY DEF SharingInv, WireTyped
  <2>3. net' \subseteq Packet BY <2>1, <2>2, PacketFields DEF SharingInv, WireTyped
  <2> QED BY <1>2, <2>3, PacketsTyped, ListenersSame DEF Relay, SharingInv, WireTyped
<1>3. CASE UNCHANGED vars
  <2>1. UNCHANGED <<stores, routes, call, listener, net, lost, handled>> BY <1>3 DEF vars
  <2> QED BY <2>1, PacketsTyped, ListenersSame DEF SharingInv, WireTyped
<1> QED BY <1>1, <1>2, <1>3

\* The state of a listener changes, but to nothing that it would tell a call
LEMMA ListenerTyped ==
  ASSUME SharingInv, NEW n \in Nodes, NEW v, listener' = [listener EXCEPT ![n] = v],
         v \in [at : {"idle", "found", "sending", "stopped"},
                call : Calls \cup {None}, file : Files \cup {None}],
         v.at \in {"found", "sending"} => v.call \in Calls /\ Kind[v.call] = "first"
  PROVE  ListenersTyped'
<1>1. \A o \in Nodes : listener'[o] = IF o = n THEN v ELSE listener[o]
  BY DEF SharingInv, ListenersTyped
<1>2. listener' \in [Nodes -> [at : {"idle", "found", "sending", "stopped"},
                               call : Calls \cup {None}, file : Files \cup {None}]]
  BY DEF SharingInv, ListenersTyped
<1> QED BY <1>1, <1>2 DEF SharingInv, ListenersTyped

\* A data reply is a packet.
LEMMA DataReplyTyped ==
  ASSUME NEW c \in Calls, NEW key \in Blobs, NEW value \in BOOLEAN, NEW at \in Nodes,
         NEW dest \in Nodes
  PROVE  [type |-> "dataReply", call |-> c, key |-> key, value |-> value, at |-> at,
          dest |-> dest] \in Packet
  BY DEF Packet

\* A data request is answered, or ends the listener.
LEMMA ExecDataRequestTyped ==
  ASSUME SharingInv, NEW n \in Nodes, NEW p \in net, ExecDataRequest(n, p)
  PROVE  SharingInv'
<1>1. p \in Packet /\ p.type = "dataRequest" /\ listener[n] = Idle
  BY DEF SharingInv, WireTyped, ExecDataRequest, Receives
<1>2. p.call \in Calls /\ p.key \in Blobs /\ p.source \in Nodes BY <1>1, PacketFields
<1>3. UNCHANGED <<stores, routes, call, lost, handled>> BY DEF ExecDataRequest
<1>4. CASE routes[n][p.source] = None
  <2>1. listener' = [listener EXCEPT ![n].at = "stopped"] /\ net' = net \ {p}
    BY <1>4 DEF ExecDataRequest
  <2>2. listener' = [listener EXCEPT ![n] = [Idle EXCEPT !.at = "stopped"]]
    BY <1>1, <2>1 DEF SharingInv, ListenersTyped
  <2>3. ListenersTyped' BY <2>2, ListenerTyped DEF Idle
  <2> QED BY <1>3, <2>1, <2>3, PacketsTyped DEF SharingInv, WireTyped
<1>5. CASE routes[n][p.source] # None
  <2>1. PICK r : r = [type |-> "dataReply", call |-> p.call, key |-> p.key,
                      value |-> p.key \in blobs[n], at |-> routes[n][p.source],
                      dest |-> p.source]
    OBVIOUS
  <2>2. net' = (net \ {p}) \cup {r} /\ UNCHANGED listener
    BY <1>5, <2>1 DEF ExecDataRequest
  <2>3. r \in Packet
    <3>1. routes[n][p.source] \in Nodes BY <1>2, <1>5, Constants DEF SharingInv, StoresTyped
    <3>2. (p.key \in blobs[n]) \in BOOLEAN OBVIOUS
    <3> QED BY <1>2, <2>1, <3>1, <3>2, DataReplyTyped, Zenon
  <2>4. net' \subseteq Packet BY <2>2, <2>3 DEF SharingInv, WireTyped
  <2> QED BY <1>3, <2>2, <2>4, PacketsTyped, ListenersSame DEF SharingInv, WireTyped
<1> QED BY <1>4, <1>5
\* A value that comes is a blob.
LEMMA ExecDataReplyTyped ==
  ASSUME SharingInv, NEW n \in Nodes, NEW p \in net, ExecDataReply(n, p)
  PROVE  SharingInv'
<1>1. p \in Packet /\ p.type = "dataReply" BY DEF SharingInv, WireTyped, ExecDataReply, Receives
<1>2. p.call \in Calls /\ p.key \in Blobs BY <1>1, PacketFields
<1>3. UNCHANGED <<names, catalog, routes, listener, pc, result, trials, budget, remote, asked,
                  lost, handled>> /\ net' \subseteq Packet
  BY DEF ExecDataReply, SharingInv, WireTyped
<1>4. blobs' \in [Nodes -> SUBSET Blobs] /\ \A o \in Nodes : blobs[o] \subseteq blobs'[o]
  <2>1. blobs \in [Nodes -> SUBSET Blobs] BY DEF SharingInv, StoresTyped
  <2>2. blobs' = blobs \/ blobs' = [blobs EXCEPT ![n] = @ \cup {p.key}] BY DEF ExecDataReply
  <2>3. CASE blobs' = [blobs EXCEPT ![n] = @ \cup {p.key}] BY <2>1, <2>3, <1>2
  <2> QED BY <2>1, <2>2, <2>3
<1>5. StoresTyped' BY <1>3, <1>4 DEF SharingInv, StoresTyped
<1>6. channel' \in [Calls -> BOOLEAN]
  <2>1. channel' = channel \/ channel' = [channel EXCEPT ![p.call] = FALSE] BY DEF ExecDataReply
  <2> QED BY <2>1 DEF SharingInv, CallsTyped
<1>7. CallsTyped' BY <1>3, <1>6 DEF SharingInv, CallsTyped
<1> QED BY <1>3, <1>5, <1>7, ListenersSame, ResultsSame, WireSame DEF SharingInv

\* A search request that is handed on has a budget that is not zero, so that what is left of
\* it is a number.
LEMMA ExecSearchRequestTyped ==
  ASSUME SharingInv, NEW n \in Nodes, NEW p \in net, ExecSearchRequest(n, p)
  PROVE  SharingInv'
<1> DEFINE origin == Caller[p.call]
           files == Matching[p.call] \cap names[n] \cap blobs[n]
           have == blobs[n] \cap UNION {ToSet(BlobList(f)) : f \in files}
           reply == [type |-> "searchReply", call |-> p.call, source |-> n, at |-> p.source,
                     dest |-> origin, files |-> files, blobs |-> have]
           others == Neighbours[n] \ {p.source, origin}
<1>1. p \in Packet /\ p.type = "searchRequest"
  BY DEF SharingInv, WireTyped, ExecSearchRequest, Receives
<1>2. p.call \in Calls /\ p.round \in Rounds /\ p.source \in Nodes /\ p.budget \in Nat \ {0}
  BY <1>1, PacketFields
<1>3. origin \in Nodes /\ files \subseteq Files /\ have \subseteq Blobs
  BY <1>2, Constants DEF SharingInv, StoresTyped
<1>4. reply \in Packet
  <2> HIDE DEF origin, files, have
  <2> QED BY <1>2, <1>3 DEF Packet
<1>5. others \in SUBSET Nodes /\ IsFiniteSet(others)
  BY Constants, FS_Subset
<1>6. LeftOver(p) \in Nat
  <2>1. PICK b \in Nat \ {0} : b = p.budget BY <1>2
  <2>2. b - 1 \in Nat BY <2>1
  <2> QED BY <2>1, <2>2 DEF LeftOver
<1>7. /\ \/ others = {} /\ net' = (net \ {p}) \cup {reply}
         \/ others # {} /\ \E d \in Distributions(others, LeftOver(p)) :
              net' = (net \ {p}) \cup {reply} \cup SearchRequests(p.call, p.round, n, d)
      /\ handled' = [handled EXCEPT ![p.call][p.round] = @ + 1]
      /\ UNCHANGED <<stores, routes, listener, call, lost>>
  BY DEF ExecSearchRequest
<1> HIDE DEF origin, files, have, reply, others
<1>8. net' \subseteq Packet
  <2>1. net \subseteq Packet BY DEF SharingInv, WireTyped
  <2>2. CASE others = {} BY <1>4, <1>7, <2>1, <2>2
  <2>3. CASE others # {}
    <3>1. PICK d \in Distributions(others, LeftOver(p)) :
            net' = (net \ {p}) \cup {reply} \cup SearchRequests(p.call, p.round, n, d)
      BY <1>7, <2>3
    <3>2. SearchRequests(p.call, p.round, n, d) \subseteq Packet
      BY <1>2, <1>5, <1>6, <2>3, RequestsTyped
    <3> QED BY <1>4, <2>1, <3>1, <3>2
  <2> QED BY <2>2, <2>3
<1>9. handled' \in [Calls -> [Rounds -> Nat]]
  <2>1. handled \in [Calls -> [Rounds -> Nat]] BY DEF SharingInv, WireTyped
  <2>2. PICK k \in Nat : k = handled[p.call][p.round] BY <1>2, <2>1
  <2>3. k + 1 \in Nat BY <2>2
  <2>4. handled' = [handled EXCEPT ![p.call] = [handled[p.call] EXCEPT ![p.round] = k + 1]]
    BY <1>7, <2>2
  <2>5. [handled[p.call] EXCEPT ![p.round] = k + 1] \in [Rounds -> Nat]
    BY <1>2, <2>1, <2>3
  <2> QED BY <1>2, <2>1, <2>4, <2>5
<1> QED BY <1>7, <1>8, <1>9, PacketsTyped, ListenersSame DEF SharingInv, WireTyped

\* What a reply says of files and blobs comes into the names, the catalog, the entry of a
\* SearchAll and the listener.
LEMMA ExecSearchReplyTyped ==
  ASSUME SharingInv, NEW n \in Nodes, NEW p \in net, ExecSearchReply(n, p)
  PROVE  SharingInv'
<1>1. p \in Packet /\ p.type = "searchReply"
  BY DEF SharingInv, WireTyped, ExecSearchReply, Receives
<1>2. p.call \in Calls /\ p.source \in Nodes /\ p.files \subseteq Files /\ p.blobs \subseteq Blobs
  BY <1>1, PacketFields
<1>3. /\ names' = [names EXCEPT ![n] = @ \cup p.files]
      /\ catalog' = [catalog EXCEPT ![n] = @ \cup Entries(p)]
      /\ remote' = [remote EXCEPT ![p.call] = @ \cup p.files] \/ remote' = remote
      /\ UNCHANGED <<blobs, routes, pc, result, trials, budget, channel, asked, lost, handled>>
      /\ net' \subseteq Packet
  BY DEF ExecSearchReply, SharingInv, WireTyped
<1>4. StoresTyped'
  <2>1. names' \in [Nodes -> SUBSET Files] BY <1>2, <1>3 DEF SharingInv, StoresTyped
  <2>2. Entries(p) \subseteq Blobs \X Nodes BY <1>2 DEF Entries
  <2>3. catalog' \in [Nodes -> SUBSET (Blobs \X Nodes)]
    BY <1>3, <2>2 DEF SharingInv, StoresTyped
  <2> QED BY <1>3, <2>1, <2>3 DEF SharingInv, StoresTyped
<1>5. CallsTyped'
  <2>1. remote' \in [Calls -> SUBSET Files] BY <1>2, <1>3 DEF SharingInv, CallsTyped
  <2> QED BY <1>3, <2>1 DEF SharingInv, CallsTyped
<1>6. ListenersTyped'
  <2>1. CASE UNCHANGED listener BY <2>1, ListenersSame
  <2>2. CASE Kind[p.call] = "first" /\ ~UNCHANGED listener
    <3>1. PICK f \in WholeFiles(p) :
            listener' = [listener EXCEPT ![n] = [at |-> "found", call |-> p.call, file |-> f]]
      BY <2>2 DEF ExecSearchReply
    <3>2. f \in Files BY <1>2 DEF WholeFiles
    <3> QED BY <1>2, <2>2, <3>1, <3>2, ListenerTyped
  <2> QED BY <2>1, <2>2 DEF ExecSearchReply
<1> QED BY <1>3, <1>4, <1>5, <1>6, ResultsSame, WireSame DEF SharingInv

\* The listener tells the call of SearchFirst of a file, or nobody.
LEMMA TellTyped ==
  ASSUME SharingInv, NEW n \in Nodes, Trigger(n) \/ Receive(n)
  PROVE  SharingInv'
<1>1. PICK v : v = listener[n] OBVIOUS
<1>2. /\ v \in [at : {"idle", "found", "sending", "stopped"},
                call : Calls \cup {None}, file : Files \cup {None}]
      /\ v.at \in {"found", "sending"} => v.call \in Calls /\ Kind[v.call] = "first"
      /\ DOMAIN listener = Nodes
  BY <1>1 DEF SharingInv, ListenersTyped
<1>3. ASSUME listener' = [listener EXCEPT ![n] = Idle] PROVE ListenersTyped'
  BY <1>3, ListenerTyped DEF Idle
<1>4. CASE Trigger(n)
  <2>1. \/ listener' = [listener EXCEPT ![n] = [v EXCEPT !.at = "sending"]]
        \/ listener' = [listener EXCEPT ![n] = Idle]
    BY <1>1, <1>4 DEF Trigger
  <2>2. ASSUME listener' = [listener EXCEPT ![n] = [v EXCEPT !.at = "sending"]]
        PROVE  ListenersTyped'
    <3>1. v.call \in Calls /\ Kind[v.call] = "first" BY <1>1, <1>2, <1>4 DEF Trigger
    <3>2. PICK w : w = [v EXCEPT !.at = "sending"] OBVIOUS
    <3>3. /\ w \in [at : {"idle", "found", "sending", "stopped"},
                    call : Calls \cup {None}, file : Files \cup {None}]
          /\ w.call = v.call
      BY <1>2, <3>2
    <3> QED BY <2>2, <3>1, <3>2, <3>3, ListenerTyped
  <2>3. ListenersTyped' BY <1>3, <2>1, <2>2
  <2> QED BY <1>4, <2>3, PacketsTyped DEF Trigger, SharingInv, WireTyped
<1>5. CASE Receive(n)
  <2>1. PICK c : c = v.call OBVIOUS
  <2>2. c \in Calls /\ Kind[c] = "first" BY <1>1, <1>2, <1>5, <2>1 DEF Receive
  <2>3. /\ result' = [result EXCEPT ![c] = v.file] /\ pc' = [pc EXCEPT ![c] = "leaving"]
        /\ channel' = [channel EXCEPT ![c] = FALSE]
        /\ listener' = [listener EXCEPT ![n] = Idle]
        /\ UNCHANGED <<stores, routes, trials, budget, remote, asked, net, lost, handled>>
    BY <1>1, <1>5, <2>1 DEF Receive, DeletesChannel
  <2>4. ResultsTyped' BY <1>2, <2>2, <2>3, ResultTyped
  <2>5. StepOf(c) BY <2>2, <2>3, CallFunctions DEF StepOf
  <2>6. CallTyped(c)' BY <2>2, <2>3, CallFunctions, CallValues DEF CallTyped
  <2> QED BY <1>3, <2>2, <2>3, <2>4, <2>5, <2>6, StepTyped, StoresSame, WireSame
          DEF SharingInv, WireTyped
<1> QED BY <1>4, <1>5
\* Nothing is under way at the start.
LEMMA InitTyped ==
  ASSUME Init
  PROVE  SharingInv
<1>1. StoresTyped
  <2>1. Stored \in [Nodes -> SUBSET Blobs] /\ Known \in [Nodes -> SUBSET Files]
    BY DataSharingAssumption DEF DataSharingAssumption
  <2> QED BY <2>1 DEF Init, StoresTyped
<1>2. ListenersTyped BY DEF Init, ListenersTyped, Idle
<1>3. CallsTyped
  <2>1. 0 <= Retry /\ 0 <= DataRetry + 1 BY Constants
  <2> QED BY <2>1 DEF Init, CallsTyped
<1>4. ResultsTyped BY DEF Init, ResultsTyped
<1>5. WireTyped BY Constants DEF Init, WireTyped
<1> QED BY <1>1, <1>2, <1>3, <1>4, <1>5 DEF SharingInv

\* Every step keeps the types.
LEMMA NextTyped ==
  ASSUME SharingInv, [Next]_vars
  PROVE  SharingInv'
<1>1. ASSUME NEW c \in Calls, Begin(c) \/ Continue(c) PROVE SharingInv'
  BY <1>1, UploadTyped, SearchFirstTyped, ExpandRingTyped, EndTyped, SearchAllTyped,
     DownloadedTyped, AskPeerTyped, ResendTyped DEF Begin, Continue
<1>2. ASSUME NEW n \in Nodes, Listen(n) PROVE SharingInv'
  BY <1>2, ExecDataRequestTyped, ExecDataReplyTyped, ExecSearchRequestTyped,
     ExecSearchReplyTyped, LoseTyped, TellTyped DEF Listen
<1>3. CASE Lose BY <1>3, LoseTyped
<1>4. CASE UNCHANGED vars BY <1>4, LoseTyped
<1> QED BY <1>1, <1>2, <1>3, <1>4 DEF Next

\* The calls, the listeners and the packets are what they should be, and a call that waits
\* for data has a route over which it asks again.
THEOREM SharingCorrect == Spec => []SharingInv
<1>1. Init => SharingInv BY InitTyped
<1>2. SharingInv /\ [Next]_vars => SharingInv' BY NextTyped
<1> QED BY <1>1, <1>2, PTL DEF Spec

\* Every packet has a node to go to, no search request is without a budget, and no call tries
\* more often than it may, in every network and for every budget (sendSearchReq, SearchFirst,
\* getDataFromRemotePeer).
THEOREM SharingTypeCorrect == Spec => []TypeOK
<1>1. SharingInv => TypeOK
  BY DEF SharingInv, StoresTyped, ListenersTyped, CallsTyped, ResultsTyped, WireTyped, TypeOK
<1> QED BY <1>1, SharingCorrect, PTL

-----------------------------------------------------------------------------
(* The answer to a download *)

\* A data request that is under way goes to a node that has the blob; its reply has the value
\* and goes to the caller.
AnswerOnItsWay(p) ==
  /\ p.type = "dataRequest" => p.source = Caller[p.call] /\ p.key \in blobs[p.dest]
  /\ p.type = "dataReply" => p.dest = Caller[p.call] /\ p.value

\* The peer that a download asks has the blob, and a download that is woken has it.
CallAnswered(c) ==
  Kind[c] = "download" /\ pc[c] = "waiting" =>
    /\ asked[c].key \in blobs[asked[c].peer]
    /\ channel[c] \/ asked[c].key \in blobs[Caller[c]]

AnswerInv == (\A p \in net : AnswerOnItsWay(p)) /\ \A c \in Calls : CallAnswered(c)

\* Stores only grow.
LEMMA StoresGrow ==
  ASSUME SharingInv, [Next]_vars
  PROVE  \A n \in Nodes : blobs[n] \subseteq blobs'[n]
<1>0. blobs \in [Nodes -> SUBSET Blobs] BY DEF SharingInv, StoresTyped
<1>1. ASSUME NEW c \in Calls, Upload(c) PROVE \A n \in Nodes : blobs[n] \subseteq blobs'[n]
  BY <1>0, <1>1 DEF Upload
<1>2. ASSUME NEW n \in Nodes, NEW p \in net, ExecDataReply(n, p)
      PROVE  \A o \in Nodes : blobs[o] \subseteq blobs'[o]
  BY <1>0, <1>2 DEF ExecDataReply
<1>3. ASSUME NEW c \in Calls, ~Upload(c), Begin(c) \/ Continue(c) PROVE UNCHANGED blobs
  BY <1>3 DEF Begin, Continue, SearchFirst, SearchAll, Downloaded, AskPeer, ExpandRing,
              StopSearch, LeaveSearch, RetrieveFilenames, Resend, GiveUp, Answered, stores
<1>4. ASSUME NEW n \in Nodes, Listen(n), ~\E p \in net : ExecDataReply(n, p)
      PROVE  UNCHANGED blobs
  BY <1>4 DEF Listen, ExecDataRequest, ExecSearchRequest, ExecSearchReply, Relay, Trigger,
              Receive, stores
<1>5. CASE Lose \/ UNCHANGED vars BY <1>5 DEF Lose, vars, stores
<1> QED BY <1>1, <1>2, <1>3, <1>4, <1>5 DEF Next

\* A request or reply under way stays true when stores grow.
LEMMA AnswerStays ==
  ASSUME SharingInv, \A n \in Nodes : blobs[n] \subseteq blobs'[n],
         NEW p \in Packet, AnswerOnItsWay(p)
  PROVE  AnswerOnItsWay(p)' /\ AnswerOnItsWay([p EXCEPT !.at = p.dest])'
<1>1. p.dest \in Nodes BY PacketFields
<1>2. PICK q : q = [p EXCEPT !.at = p.dest] OBVIOUS
<1>3. /\ q.type = p.type /\ q.call = p.call /\ q.dest = p.dest
      /\ p.type = "dataRequest" => q.source = p.source /\ q.key = p.key
      /\ p.type = "dataReply" => q.value = p.value
  BY <1>2 DEF Packet
<1> QED BY <1>1, <1>2, <1>3 DEF AnswerOnItsWay

\* So does a call whose part of the state is the same or that waits for no data.
LEMMA CallAnsweredStays ==
  ASSUME SharingInv, NEW c \in Calls, \A n \in Nodes : blobs[n] \subseteq blobs'[n],
         CallAnswered(c),
         \/ pc'[c] = pc[c] /\ asked'[c] = asked[c] /\ channel'[c] = channel[c]
         \/ Kind[c] = "download" => pc'[c] # "waiting"
  PROVE  CallAnswered(c)'
<1>1. Caller[c] \in Nodes BY Constants
<1>2. Kind[c] = "download" /\ pc[c] = "waiting" => asked[c].peer \in Nodes
  BY CallValues DEF CallTyped
<1> QED BY <1>1, <1>2 DEF CallAnswered

\* A step that makes no data request or reply and wakes no download
LEMMA AnswersKept ==
  ASSUME SharingInv, AnswerInv, \A n \in Nodes : blobs[n] \subseteq blobs'[n],
         \A p \in net' : p \in net \/ p.type \notin {"dataRequest", "dataReply"},
         \A c \in Calls : \/ pc'[c] = pc[c] /\ asked'[c] = asked[c] /\ channel'[c] = channel[c]
                          \/ Kind[c] = "download" => pc'[c] # "waiting"
  PROVE  AnswerInv'
<1>1. \A p \in net : AnswerOnItsWay(p)'
  BY AnswerStays DEF AnswerInv, SharingInv, WireTyped
<1>2. ASSUME NEW p, p.type \notin {"dataRequest", "dataReply"} PROVE AnswerOnItsWay(p)'
  BY <1>2 DEF AnswerOnItsWay
<1>3. \A c \in Calls : CallAnswered(c)' BY CallAnsweredStays DEF AnswerInv
<1> QED BY <1>1, <1>2, <1>3 DEF AnswerInv

\* What a search sends is no data request and no reply.
LEMMA SearchSendsNoData ==
  ASSUME NEW c \in Calls, NEW round, NEW b, Search(c, round, b)
  PROVE  \A p \in net' : p \in net \/ p.type \notin {"dataRequest", "dataReply"}
  BY DEF Search, SearchRequests

\* The calls that are no downloads
LEMMA OtherCallsAnswer ==
  ASSUME SharingInv, AnswerInv, \A n \in Nodes : blobs[n] \subseteq blobs'[n],
         NEW c \in Calls,
         \/ Upload(c) \/ SearchAll(c) \/ SearchFirst(c) \/ ExpandRing(c) \/ StopSearch(c)
         \/ LeaveSearch(c) \/ RetrieveFilenames(c)
  PROVE  AnswerInv'
<1>1. Kind[c] # "download"
  <2>1. pc[c] = "leaving" => Kind[c] = "first" BY CallValues DEF CallTyped
  <2> QED BY <2>1 DEF Upload, SearchAll, SearchFirst, ExpandRing, StopSearch, LeaveSearch,
                      RetrieveFilenames
<1>2. \A d \in Calls \ {c} : pc'[d] = pc[d] /\ asked'[d] = asked[d] /\ channel'[d] = channel[d]
  BY DEF Upload, SearchAll, SearchFirst, ExpandRing, StopSearch, LeaveSearch,
         RetrieveFilenames, SharingInv, CallsTyped
<1>3. \A p \in net' : p \in net \/ p.type \notin {"dataRequest", "dataReply"}
  <2>1. CASE UNCHANGED net BY <2>1
  <2>2. CASE \E round, b : Search(c, round, b) BY <2>2, SearchSendsNoData
  <2> QED BY <2>1, <2>2 DEF Upload, SearchAll, SearchFirst, ExpandRing, Expands, StopSearch,
                            LeaveSearch, RetrieveFilenames
<1> QED BY <1>1, <1>2, <1>3, AnswersKept

\* A download ends, or goes on with its next blob.
LEMMA DownloadMoves ==
  ASSUME SharingInv, AnswerInv, \A n \in Nodes : blobs[n] \subseteq blobs'[n],
         NEW c \in Calls, Downloaded(c) \/ GiveUp(c) \/ Answered(c)
  PROVE  AnswerInv'
<1>1. PICK p \in {"done", "failed", "next"} : pc' = [pc EXCEPT ![c] = p]
  BY DEF Downloaded, GiveUp, Answered
<1>2. UNCHANGED <<channel, asked, net>> BY DEF Downloaded, GiveUp, Answered
<1>3. pc'[c] # "waiting" /\ \A d \in Calls \ {c} : pc'[d] = pc[d]
  BY <1>1, CallFunctions
<1> QED BY <1>2, <1>3, AnswersKept

\* A download asks a peer that the catalog names.
LEMMA AskPeerAnswers ==
  ASSUME SharingInv, AnswerInv, CatalogTrue, NEW c \in Calls, AskPeer(c),
         \A n \in Nodes : blobs[n] \subseteq blobs'[n]
  PROVE  AnswerInv'
<1>1. UNCHANGED <<stores, routes>> BY DEF AskPeer
<1>2. CASE pc' = [pc EXCEPT ![c] = "failed"] /\ UNCHANGED <<asked, channel, trials, net>>
  <2>1. pc'[c] # "waiting" /\ \A d \in Calls \ {c} : pc'[d] = pc[d] BY <1>2, CallFunctions
  <2> QED BY <1>2, <2>1, AnswersKept
<1>3. ASSUME NEW key \in Blobs, NEW o \in Nodes, <<key, o>> \in catalog[Caller[c]],
             asked' = [asked EXCEPT ![c] = [key |-> key, peer |-> o]],
             channel' = [channel EXCEPT ![c] = TRUE],
             net' = net \cup {DataRequest(c, key, o)}, pc' = [pc EXCEPT ![c] = "waiting"]
      PROVE  AnswerInv'
  <2>1. Caller[c] \in Nodes BY Constants
  <2>2. key \in blobs[o] BY <1>3, <2>1 DEF CatalogTrue
  <2>3. PICK q : q = DataRequest(c, key, o) OBVIOUS
  <2>4. q.type = "dataRequest" /\ q.source = Caller[q.call] /\ q.key = key /\ q.dest = o
    BY <2>3 DEF DataRequest
  <2>5. AnswerOnItsWay(q)' BY <1>1, <2>2, <2>4 DEF AnswerOnItsWay, stores
  <2>6. \A p \in net : AnswerOnItsWay(p)' BY AnswerStays DEF AnswerInv, SharingInv, WireTyped
  <2>7. CallAnswered(c)'
    <3>1. asked'[c] = [key |-> key, peer |-> o] /\ channel'[c] = TRUE
      BY <1>3, CallFunctions
    <3> QED BY <1>1, <2>2, <3>1 DEF CallAnswered, stores
  <2>8. ASSUME NEW d \in Calls, d # c PROVE CallAnswered(d)'
    <3>1. pc'[d] = pc[d] /\ asked'[d] = asked[d] /\ channel'[d] = channel[d]
      BY <1>3, <2>8, CallFunctions
    <3> QED BY <3>1, CallAnsweredStays DEF AnswerInv
  <2> QED BY <1>3, <2>3, <2>5, <2>6, <2>7, <2>8 DEF AnswerInv
<1> QED BY <1>2, <1>3 DEF AskPeer

\* The request is sent again to the same peer.
LEMMA ResendAnswers ==
  ASSUME SharingInv, AnswerInv, NEW c \in Calls, Resend(c),
         \A n \in Nodes : blobs[n] \subseteq blobs'[n]
  PROVE  AnswerInv'
<1>1. /\ Kind[c] = "download" /\ pc[c] = "waiting"
      /\ net' = net \cup {DataRequest(c, asked[c].key, asked[c].peer)}
      /\ UNCHANGED <<stores, pc, channel, asked>>
  BY DEF Resend, AskAgain
<1>2. asked[c].key \in blobs[asked[c].peer] BY <1>1 DEF AnswerInv, CallAnswered
<1>3. PICK q : q = DataRequest(c, asked[c].key, asked[c].peer) OBVIOUS
<1>4. /\ q.type = "dataRequest" /\ q.source = Caller[q.call] /\ q.key = asked[c].key
      /\ q.dest = asked[c].peer
  BY <1>3 DEF DataRequest
<1>5. AnswerOnItsWay(q)' BY <1>1, <1>2, <1>4 DEF AnswerOnItsWay, stores
<1>6. \A p \in net : AnswerOnItsWay(p)' BY AnswerStays DEF AnswerInv, SharingInv, WireTyped
<1>7. \A d \in Calls : CallAnswered(d)' BY <1>1, CallAnsweredStays DEF AnswerInv
<1> QED BY <1>1, <1>3, <1>5, <1>6, <1>7 DEF AnswerInv

\* The peer that is asked has the blob and answers with it.
LEMMA ExecDataRequestAnswers ==
  ASSUME SharingInv, AnswerInv, NEW n \in Nodes, NEW p \in net, ExecDataRequest(n, p),
         \A o \in Nodes : blobs[o] \subseteq blobs'[o]
  PROVE  AnswerInv'
<1>1. p.type = "dataRequest" /\ p.dest = n BY DEF ExecDataRequest, Receives
<1>2. UNCHANGED <<stores, pc, channel, asked>> BY DEF ExecDataRequest, call
<1>3. p.source = Caller[p.call] /\ p.key \in blobs[n] BY <1>1 DEF AnswerInv, AnswerOnItsWay
<1>4. \A q \in net' : \/ q \in net
                      \/ q.type = "dataReply" /\ q.dest = p.source /\ q.call = p.call /\ q.value
  <2>1. PICK r : r = [type |-> "dataReply", call |-> p.call, key |-> p.key,
                      value |-> p.key \in blobs[n], at |-> routes[n][p.source],
                      dest |-> p.source]
    OBVIOUS
  <2>2. r.type = "dataReply" /\ r.dest = p.source /\ r.call = p.call /\ r.value
    BY <1>3, <2>1
  <2>3. net' \subseteq net \cup {r} BY <2>1 DEF ExecDataRequest
  <2> QED BY <2>2, <2>3
<1>5. \A q \in net' : AnswerOnItsWay(q)'
  <2>1. \A q \in net : AnswerOnItsWay(q)' BY AnswerStays DEF AnswerInv, SharingInv, WireTyped
  <2> QED BY <1>3, <1>4, <2>1 DEF AnswerOnItsWay
<1>6. \A d \in Calls : CallAnswered(d)' BY <1>2, CallAnsweredStays DEF AnswerInv
<1> QED BY <1>5, <1>6 DEF AnswerInv

\* A reply that wakes a download is to its last request and brings the value.
LEMMA ExecDataReplyAnswers ==
  ASSUME SharingInv, AnswerInv, NEW n \in Nodes, NEW p \in net, ExecDataReply(n, p),
         \A o \in Nodes : blobs[o] \subseteq blobs'[o]
  PROVE  AnswerInv'
<1>1. p.type = "dataReply" /\ p.dest = n /\ p \in Packet
  BY DEF ExecDataReply, Receives, SharingInv, WireTyped
<1>2. n = Caller[p.call] /\ p.value BY <1>1 DEF AnswerInv, AnswerOnItsWay
<1>3. UNCHANGED <<pc, asked>> /\ net' \subseteq net BY DEF ExecDataReply
<1>4. p.key \in blobs'[n] BY <1>2 DEF ExecDataReply, SharingInv, StoresTyped
<1>5. ASSUME NEW d \in Calls PROVE CallAnswered(d)'
  <2>1. CASE channel'[d] = channel[d] BY <1>3, <2>1, CallAnsweredStays DEF AnswerInv
  <2>2. CASE channel'[d] # channel[d]
    <3>1. d = p.call /\ asked[d].key = p.key
      <4>1. Wakes(p) /\ channel' = [channel EXCEPT ![p.call] = FALSE]
        BY <2>2 DEF ExecDataReply
      <4>2. d = p.call BY <2>2, <4>1, CallFunctions
      <4> QED BY <4>1, <4>2 DEF Wakes
    <3>2. Kind[d] = "download" /\ pc[d] = "waiting" =>
            /\ asked[d].key \in blobs[asked[d].peer] /\ asked[d].peer \in Nodes
      BY CallValues DEF AnswerInv, CallAnswered, CallTyped
    <3> QED BY <1>2, <1>3, <1>4, <3>1, <3>2 DEF CallAnswered
  <2> QED BY <2>1, <2>2
<1>6. \A q \in net' : AnswerOnItsWay(q)'
  BY <1>3, AnswerStays DEF AnswerInv, SharingInv, WireTyped
<1> QED BY <1>5, <1>6 DEF AnswerInv

\* What the listener does with the packets of a search wakes no download.
LEMMA ListenAnswers ==
  ASSUME SharingInv, AnswerInv, NEW n \in Nodes, \A o \in Nodes : blobs[o] \subseteq blobs'[o],
         \/ \E p \in net : ExecSearchRequest(n, p) \/ ExecSearchReply(n, p)
         \/ Trigger(n) \/ Receive(n)
  PROVE  AnswerInv'
<1>1. ASSUME NEW p \in net, ExecSearchRequest(n, p) PROVE AnswerInv'
  <2>1. UNCHANGED <<pc, channel, asked>> BY <1>1 DEF ExecSearchRequest, call
  <2>2. \A q \in net' : q \in net \/ q.type \notin {"dataRequest", "dataReply"}
    BY <1>1 DEF ExecSearchRequest, SearchRequests
  <2> QED BY <2>1, <2>2, AnswersKept
<1>2. ASSUME NEW p \in net, ExecSearchReply(n, p) PROVE AnswerInv'
  BY <1>2, AnswersKept DEF ExecSearchReply
<1>3. CASE Trigger(n) BY <1>3, AnswersKept DEF Trigger, call
<1>4. CASE Receive(n)
  <2>1. PICK c : c = listener[n].call OBVIOUS
  <2>2. c \in Calls /\ Kind[c] # "download"
    BY <1>4, <2>1 DEF Receive, SharingInv, ListenersTyped
  <2>3. /\ pc' = [pc EXCEPT ![c] = "leaving"] /\ channel' = [channel EXCEPT ![c] = FALSE]
        /\ UNCHANGED <<asked, net>>
    BY <1>4, <2>1 DEF Receive, DeletesChannel
  <2>4. \A d \in Calls \ {c} : pc'[d] = pc[d] /\ channel'[d] = channel[d]
    BY <2>2, <2>3, CallFunctions
  <2> QED BY <2>2, <2>3, <2>4, AnswersKept
<1> QED BY <1>1, <1>2, <1>3, <1>4

\* Every step keeps it.
LEMMA NextAnswers ==
  ASSUME SharingInv, AnswerInv, CatalogTrue, [Next]_vars
  PROVE  AnswerInv'
<1>1. \A n \in Nodes : blobs[n] \subseteq blobs'[n] BY StoresGrow
<1>2. ASSUME NEW c \in Calls, Begin(c) \/ Continue(c) PROVE AnswerInv'
  BY <1>1, <1>2, OtherCallsAnswer, DownloadMoves, AskPeerAnswers, ResendAnswers
  DEF Begin, Continue
<1>3. ASSUME NEW n \in Nodes, Relay(n) PROVE AnswerInv'
  <2>1. PICK p \in net : net' = (net \ {p}) \cup {[p EXCEPT !.at = p.dest]}
    BY <1>3 DEF Relay
  <2>2. UNCHANGED <<pc, channel, asked>> BY <1>3 DEF Relay, call
  <2>3. \A q \in net : AnswerOnItsWay(q)' /\ AnswerOnItsWay([q EXCEPT !.at = q.dest])'
    BY <1>1, AnswerStays DEF AnswerInv, SharingInv, WireTyped
  <2>4. \A d \in Calls : CallAnswered(d)' BY <1>1, <2>2, CallAnsweredStays DEF AnswerInv
  <2> QED BY <2>1, <2>3, <2>4 DEF AnswerInv
<1>4. ASSUME NEW n \in Nodes, Listen(n) PROVE AnswerInv'
  BY <1>1, <1>3, <1>4, ExecDataRequestAnswers, ExecDataReplyAnswers, ListenAnswers DEF Listen
<1>5. CASE Lose BY <1>1, <1>5, AnswersKept DEF Lose, call
<1>6. CASE UNCHANGED vars BY <1>1, <1>6, AnswersKept DEF vars, call
<1> QED BY <1>2, <1>4, <1>5, <1>6 DEF Next

\* A download that is woken has the blob that it waits for, whatever replies are lost, late or
\* sent twice (ExecDataReplyMessage, getDataFromRemotePeer).
THEOREM AnswersHaveBlobs == Spec => []AnswerHasBlob
<1>1. Init => AnswerInv BY DEF Init, AnswerInv, CallAnswered
<1>2. SharingInv /\ AnswerInv /\ CatalogTrue /\ [Next]_vars => AnswerInv' BY NextAnswers
<1>3. AnswerInv => AnswerHasBlob BY DEF AnswerInv, CallAnswered, AnswerHasBlob
<1> QED BY <1>1, <1>2, <1>3, SharingCorrect, CatalogCorrect, PTL DEF Spec

-----------------------------------------------------------------------------
(* The budget of a search *)

\* Every set of numbers that is not empty has a least one: induction without a predicate for
\* a parameter.
LEMMA LeastNumber ==
  ASSUME NEW T \in SUBSET Nat, T # {}
  PROVE  \E n \in T : \A m \in T : n <= m
<1> DEFINE F == {0 .. n : n \in T}
           R == StrictSubsetOrdering(Nat)
<1>1. F \subseteq FiniteSubsetsOf(Nat) /\ F # {}
  <2>1. \A n \in T : 0 .. n \in SUBSET Nat /\ IsFiniteSet(0 .. n) BY FS_Interval
  <2> QED BY <2>1 DEF FiniteSubsetsOf
<1>2. \E s \in F : \A t \in F : <<t, s>> \notin R
  <2> HIDE DEF F
  <2> QED BY <1>1, FS_StrictSubsetOrderingWellFounded, WFMin
<1>3. PICK n \in T : \A m \in T : <<0 .. m, 0 .. n>> \notin R BY <1>2
<1>4. ASSUME NEW m \in T, m < n PROVE FALSE
  <2>1. 0 .. m \subseteq 0 .. n /\ n \in 0 .. n /\ n \notin 0 .. m BY <1>4
  <2>2. <<0 .. m, 0 .. n>> \in (SUBSET Nat) \X (SUBSET Nat) OBVIOUS
  <2> QED BY <1>3, <2>1, <2>2 DEF StrictSubsetOrdering
<1> QED BY <1>4

\* A function that gives the first n rounds their budgets
Ring(g, n) ==
  /\ g \in [1 .. n -> Nat]
  /\ \A r \in 1 .. n : g[r] = IF r = 1 THEN Initial ELSE g[r - 1] * Factor

\* There is one for every n.
LEMMA RingExists ==
  ASSUME NEW n \in Nat
  PROVE  \E g : Ring(g, n)
<1> DEFINE T == {m \in Nat : ~ \E g : Ring(g, m)}
<1> SUFFICES ASSUME T # {} PROVE FALSE OBVIOUS
<1>1. PICK m \in T : \A k \in T : m <= k BY LeastNumber
<1>2. CASE m = 0
  <2>1. Ring([r \in 1 .. 0 |-> 0], 0) BY DEF Ring
  <2> QED BY <1>2, <2>1
<1>3. CASE m # 0
  <2>1. m - 1 \in Nat /\ m - 1 \notin T BY <1>1, <1>3
  <2>2. PICK g : Ring(g, m - 1) BY <2>1
  <2>3. PICK b \in Nat : b = IF m = 1 THEN Initial ELSE g[m - 1] * Factor
    <3>1. CASE m = 1 BY <3>1, Constants
    <3>2. CASE m # 1
      <4>1. m - 1 \in 1 .. m - 1 BY <1>3, <3>2
      <4>2. PICK x \in Nat : x = g[m - 1] BY <4>1, <2>2 DEF Ring
      <4>3. x * Factor \in Nat BY Constants
      <4> QED BY <3>2, <4>2, <4>3
    <3> QED BY <3>1, <3>2
  <2>4. PICK h : h = [r \in 1 .. m |-> IF r = m THEN b ELSE g[r]] OBVIOUS
  <2>5. h \in [1 .. m -> Nat]
    <3>1. \A r \in 1 .. m : r # m => r \in 1 .. m - 1 BY <1>3
    <3> QED BY <2>2, <2>3, <2>4, <3>1 DEF Ring
  <2>6. ASSUME NEW r \in 1 .. m PROVE h[r] = IF r = 1 THEN Initial ELSE h[r - 1] * Factor
    <3>1. CASE r = m
      <4>1. r # 1 => r - 1 \in 1 .. m /\ r - 1 # m BY <3>1, <1>3
      <4> QED BY <3>1, <4>1, <2>3, <2>4
    <3>2. CASE r # m
      <4>1. r \in 1 .. m - 1 /\ (r # 1 => r - 1 \in 1 .. m /\ r - 1 # m) BY <3>2, <1>3
      <4>2. g[r] = IF r = 1 THEN Initial ELSE g[r - 1] * Factor BY <4>1, <2>2 DEF Ring
      <4> QED BY <3>2, <4>1, <4>2, <2>4
    <3> QED BY <3>1, <3>2
  <2> QED BY <1>3, <2>5, <2>6 DEF Ring
<1> QED BY <1>2, <1>3

\* The budgets of the rounds, as they are defined
LEMMA BudgetOfRound ==
  /\ \A r \in Rounds : Budget[r] \in Nat
  /\ Budget[1] = Initial
  /\ \A r \in Rounds : r # 1 => Budget[r] = Budget[r - 1] * Factor
<1>1. PICK g : Ring(g, Retry) BY RingExists, Constants
<1>2. g = [r \in Rounds |-> IF r = 1 THEN Initial ELSE g[r - 1] * Factor]
  BY <1>1 DEF Ring, Rounds
<1>3. Budget = [r \in Rounds |-> IF r = 1 THEN Initial ELSE Budget[r - 1] * Factor]
  BY <1>2 DEF Budget
<1>4. \A r \in Rounds : Budget[r] = IF r = 1 THEN Initial ELSE Budget[r - 1] * Factor
  BY <1>3
<1>5. \A r \in Rounds : Budget[r] \in Nat
  <2> DEFINE T == {r \in Rounds : Budget[r] \notin Nat}
  <2> SUFFICES ASSUME T # {} PROVE FALSE OBVIOUS
  <2>1. T \in SUBSET Nat BY DEF Rounds
  <2>2. PICK r \in T : \A k \in T : r <= k BY <2>1, LeastNumber
  <2>3. r # 1 /\ r \in Rounds BY <1>4, Constants
  <2>4. r - 1 \in Rounds /\ r - 1 < r /\ r - 1 \in Nat BY <2>3, Constants DEF Rounds
  <2>5. PICK b \in Nat : b = Budget[r - 1] BY <2>1, <2>2, <2>4
  <2>6. b * Factor \in Nat BY Constants
  <2> QED BY <1>4, <2>2, <2>3, <2>5, <2>6
<1> QED BY <1>4, <1>5, Constants

\* The requests of some packets
IsRequest(p) == p \in Packet /\ p.type = "searchRequest"

\* There are finitely many units in finitely many requests, and more requests have no fewer.
LEMMA UnitsFinite ==
  ASSUME NEW S, IsFiniteSet(S), \A p \in S : IsRequest(p)
  PROVE  IsFiniteSet(Units(S)) /\ Cardinality(Units(S)) \in Nat
<1> DEFINE parts == {{p} \X (1 .. p.budget) : p \in S}
<1>1. IsFiniteSet(parts)
  <2>1. PICK f : f = [p \in S |-> {p} \X (1 .. p.budget)] OBVIOUS
  <2>2. f \in Surjection(S, parts) BY <2>1 DEF Surjection
  <2> QED BY <2>2, FS_Surjection
<1>2. ASSUME NEW p \in S PROVE IsFiniteSet({p} \X (1 .. p.budget))
  <2>1. PICK b \in Nat : b = p.budget BY PacketFields DEF IsRequest
  <2>2. IsFiniteSet(1 .. b) BY FS_Interval
  <2>3. IsFiniteSet({p}) BY FS_Singleton
  <2> QED BY <2>1, <2>2, <2>3, FS_Product
<1>3. IsFiniteSet(UNION parts) BY <1>1, <1>2, FS_UNION
<1> QED BY <1>3, FS_CardinalityType DEF Units

\* The units of two sets of requests are those of their union, at most.
LEMMA UnitsUnion ==
  ASSUME NEW S, IsFiniteSet(S), \A p \in S : IsRequest(p),
         NEW T, IsFiniteSet(T), \A p \in T : IsRequest(p)
  PROVE  Cardinality(Units(S \cup T)) <= Cardinality(Units(S)) + Cardinality(Units(T))
<1>1. Units(S \cup T) = Units(S) \cup Units(T) BY DEF Units
<1>2. /\ IsFiniteSet(Units(S)) /\ IsFiniteSet(Units(T))
      /\ Cardinality(Units(S)) \in Nat /\ Cardinality(Units(T)) \in Nat
  BY UnitsFinite
<1>3. PICK x, y : x = Units(S) /\ y = Units(T) OBVIOUS
<1>4. Cardinality(x \cap y) \in Nat
  BY <1>2, <1>3, FS_Intersection, FS_CardinalityType
<1>5. Cardinality(x \cup y) = Cardinality(x) + Cardinality(y) - Cardinality(x \cap y)
  BY <1>2, <1>3, FS_Union
<1>6. PICK i, j, k \in Nat : i = Cardinality(x) /\ j = Cardinality(y) /\ k = Cardinality(x \cap y)
  BY <1>2, <1>3, <1>4
<1>7. i + j - k <= i + j OBVIOUS
<1>8. Units(S \cup T) = x \cup y BY <1>1, <1>3
<1> QED BY <1>3, <1>5, <1>6, <1>7, <1>8

\* Fewer requests have no more units.
LEMMA UnitsSubset ==
  ASSUME NEW S, IsFiniteSet(S), \A p \in S : IsRequest(p), NEW T \in SUBSET S
  PROVE  Cardinality(Units(T)) <= Cardinality(Units(S))
<1>1. Units(T) \subseteq Units(S) BY DEF Units
<1> QED BY <1>1, UnitsFinite, FS_Subset

\* A request that is taken away takes its budget with it.
LEMMA UnitsWithout ==
  ASSUME NEW S, IsFiniteSet(S), \A p \in S : IsRequest(p), NEW p \in S
  PROVE  Cardinality(Units(S)) = Cardinality(Units(S \ {p})) + p.budget
<1>1. PICK b \in Nat : b = p.budget BY PacketFields DEF IsRequest
<1> DEFINE own == {p} \X (1 .. b)
<1>2. Units(S) = Units(S \ {p}) \cup own /\ Units(S \ {p}) \cap own = {}
  BY <1>1 DEF Units
<1>3. IsFiniteSet(own) /\ Cardinality(own) = b
  <2>1. IsFiniteSet(1 .. b) /\ Cardinality(1 .. b) = b BY FS_Interval
  <2>2. IsFiniteSet({p}) /\ Cardinality({p}) = 1 BY FS_Singleton
  <2>3. IsFiniteSet(own) /\ Cardinality(own) = 1 * b BY <2>1, <2>2, FS_Product
  <2> QED BY <2>3
<1>4. IsFiniteSet(S \ {p}) BY FS_Subset
<1>5. IsFiniteSet(Units(S \ {p})) /\ Cardinality(Units(S \ {p})) \in Nat BY <1>4, UnitsFinite
<1>6. PICK x, y : x = Units(S \ {p}) /\ y = own OBVIOUS
<1>7. IsFiniteSet(x) /\ IsFiniteSet(y) /\ x \cap y = {} BY <1>2, <1>3, <1>5, <1>6
<1>8. Cardinality(x \cup y) = Cardinality(x) + Cardinality(y) - 0
  BY <1>7, FS_Union, FS_EmptySet
<1> QED BY <1>1, <1>2, <1>3, <1>5, <1>6, <1>8

\* What sendSearchReq deals out is not more than what it has: every neighbour gets a share,
\* and as many of them as the rest says one more.
LEMMA DealtOut ==
  ASSUME NEW c \in Calls, NEW round \in Rounds, NEW n \in Nodes, NEW ns \in SUBSET Nodes,
         IsFiniteSet(ns), ns # {}, NEW b \in Nat, NEW d \in Distributions(ns, b)
  PROVE  /\ IsFiniteSet(SearchRequests(c, round, n, d))
         /\ \A p \in SearchRequests(c, round, n, d) : IsRequest(p)
         /\ Cardinality(Units(SearchRequests(c, round, n, d))) <= b
<1>1. PICK k \in Nat : k = Cardinality(ns) /\ k # 0 BY FS_CardinalityType, FS_EmptySet
<1>2. PICK share, rest \in Nat : share = b \div k /\ rest = b % k /\ share * k + rest = b
  <2>1. b \div k \in Nat /\ b % k \in Nat /\ (b \div k) * k + (b % k) = b BY <1>1
  <2> QED BY <2>1
<1> DEFINE more == {o \in ns : d[o] = share + 1}
           sent == SearchRequests(c, round, n, d)
           units == (ns \X (1 .. share)) \cup (more \X {share + 1})
<1>3. /\ d \in [ns -> {share, share + 1}] /\ Cardinality(more) = rest
  BY <1>1, <1>2 DEF Distributions
<1>4. \A p \in sent : IsRequest(p)
  <2>1. sent \subseteq Packet BY RequestsTyped
  <2> QED BY <2>1 DEF IsRequest, SearchRequests
<1>5. IsFiniteSet(units) /\ Cardinality(units) <= b
  <2>1. IsFiniteSet(1 .. share) /\ Cardinality(1 .. share) = share BY FS_Interval
  <2>2. IsFiniteSet(ns \X (1 .. share)) /\ Cardinality(ns \X (1 .. share)) = k * share
    BY <1>1, <2>1, FS_Product
  <2>3. IsFiniteSet(more) BY FS_Subset
  <2>4. IsFiniteSet({share + 1}) /\ Cardinality({share + 1}) = 1 BY FS_Singleton
  <2>5. IsFiniteSet(more \X {share + 1}) /\ Cardinality(more \X {share + 1}) = rest * 1
    BY <1>3, <2>3, <2>4, FS_Product
  <2>6. PICK x, y : x = ns \X (1 .. share) /\ y = more \X {share + 1} OBVIOUS
  <2>7. Cardinality(x \cap y) \in Nat BY <2>2, <2>6, FS_Intersection, FS_CardinalityType
  <2>8. IsFiniteSet(x \cup y)
        /\ Cardinality(x \cup y) = Cardinality(x) + Cardinality(y) - Cardinality(x \cap y)
    <3>1. IsFiniteSet(x) /\ IsFiniteSet(y) BY <2>2, <2>5, <2>6
    <3> HIDE DEF more, sent, units
    <3> QED BY <3>1, FS_Union
  <2>9. k * share = share * k /\ k * share \in Nat BY <1>1, <1>2
  <2>10. Cardinality(x \cup y) <= b
    <3>1. Cardinality(x) = share * k /\ Cardinality(y) = rest BY <2>2, <2>5, <2>6, <2>9
    <3>2. PICK i, j \in Nat : i = share * k /\ j = Cardinality(x \cap y) BY <2>7, <2>9
    <3> QED BY <1>2, <2>8, <3>1, <3>2
  <2> QED BY <2>6, <2>8, <2>10
<1>6. IsFiniteSet(sent)
  <2>1. PICK f : f = [p \in sent |-> p.dest] OBVIOUS
  <2>2. \A p \in sent : p.dest \in ns BY <1>3 DEF SearchRequests
  <2>3. \A p, q \in sent : p.dest = q.dest => p = q BY DEF SearchRequests
  <2>4. f \in Injection(sent, ns) BY <2>1, <2>2, <2>3 DEF Injection, IsInjective
  <2> QED BY <2>4, FS_Injection
<1>7. Cardinality(Units(sent)) <= Cardinality(units)
  <2>1. PICK f : f = [u \in Units(sent) |-> <<u[1].dest, u[2]>>] OBVIOUS
  <2>2. ASSUME NEW u \in Units(sent)
        PROVE  /\ u[1] \in sent /\ u = <<u[1], u[2]>> /\ f[u] = <<u[1].dest, u[2]>>
               /\ f[u] \in units
    <3>1. PICK p \in sent : u \in {p} \X (1 .. p.budget) BY DEF Units
    <3>2. p.dest \in ns /\ p.budget = d[p.dest] BY <1>3 DEF SearchRequests
    <3>3. u = <<p, u[2]>> /\ u[1] = p /\ u[2] \in 1 .. d[p.dest] BY <3>1, <3>2
    <3>4. CASE d[p.dest] = share
      <4>1. u[2] \in 1 .. share BY <3>3, <3>4
      <4> QED BY <2>1, <3>2, <3>3, <4>1
    <3>5. CASE d[p.dest] = share + 1
      <4>1. p.dest \in more BY <3>2, <3>5
      <4>2. u[2] \in 1 .. share \/ u[2] = share + 1 BY <3>3, <3>5
      <4> QED BY <2>1, <3>2, <3>3, <4>1, <4>2
    <3> QED BY <1>3, <3>2, <3>4, <3>5
  <2>3. \A p, q \in sent : p.dest = q.dest => p = q BY DEF SearchRequests
  <2> HIDE DEF sent, units
  <2>4. f \in Injection(Units(sent), units)
    <3>1. f \in [Units(sent) -> units] BY <2>1, <2>2
    <3>2. ASSUME NEW u \in Units(sent), NEW v \in Units(sent), f[u] = f[v] PROVE u = v
      <4>1. <<u[1].dest, u[2]>> = <<v[1].dest, v[2]>> BY <2>2, <3>2
      <4>2. u[1].dest = v[1].dest /\ u[2] = v[2] BY <4>1
      <4>3. u[1] = v[1] BY <2>2, <2>3, <4>2
      <4> QED BY <2>2, <4>2, <4>3
    <3> QED BY <2>1, <3>1, <3>2 DEF Injection, IsInjective
  <2> QED BY <1>5, <2>4, FS_Injection
<1>8. Cardinality(Units(sent)) \in Nat BY <1>4, <1>6, UnitsFinite
<1>9. Cardinality(units) \in Nat BY <1>5, FS_CardinalityType
<1> QED BY <1>4, <1>5, <1>6, <1>7, <1>8, <1>9

\* No request of a round of a search has been sent
Unsent(c, round) == pc[c] = "idle" \/ (Kind[c] = "first" /\ round > trials[c])

RoundKept(c, round) ==
  /\ handled[c][round] + Cardinality(Units(Requests(c, round))) <= Budget[round]
  /\ Unsent(c, round) => handled[c][round] = 0 /\ Requests(c, round) = {}

\* A search that waits has the budget of the round that it is in, and there is nothing yet of
\* the rounds to come
BudgetInv ==
  /\ SharingInv
  /\ IsFiniteSet(net)
  /\ \A p \in net : p.type = "searchRequest" => p.at = p.dest
  /\ \A c \in Calls : Kind[c] = "first" /\ pc[c] = "waiting" =>
       trials[c] \in Rounds /\ budget[c] = Budget[trials[c]]
  /\ \A c \in Calls : \A round \in Rounds : RoundKept(c, round)

\* The requests under way are requests, and finitely many.
LEMMA RequestsUnderWay ==
  ASSUME BudgetInv, NEW c \in Calls, NEW round \in Rounds
  PROVE  /\ IsFiniteSet(Requests(c, round)) /\ \A p \in Requests(c, round) : IsRequest(p)
         /\ handled[c][round] \in Nat /\ Cardinality(Units(Requests(c, round))) \in Nat
<1>1. IsFiniteSet(Requests(c, round)) BY FS_Subset DEF BudgetInv, Requests
<1>2. \A p \in Requests(c, round) : IsRequest(p)
  BY DEF BudgetInv, SharingInv, WireTyped, Requests, IsRequest
<1>3. handled[c][round] \in Nat BY DEF BudgetInv, SharingInv, WireTyped
<1> QED BY <1>1, <1>2, <1>3, UnitsFinite

\* A round keeps its budget when no request of it is made or handled.
LEMMA QuietRound ==
  ASSUME BudgetInv, NEW c \in Calls, NEW round \in Rounds,
         Requests(c, round)' \subseteq Requests(c, round),
         handled'[c][round] = handled[c][round], Unsent(c, round)' => Unsent(c, round)
  PROVE  RoundKept(c, round)'
<1>1. RoundKept(c, round) BY DEF BudgetInv
<1>2. PICK S, T : S = Requests(c, round) /\ T = Requests(c, round)' OBVIOUS
<1>3. IsFiniteSet(S) /\ (\A p \in S : IsRequest(p)) /\ T \in SUBSET S
  BY <1>2, RequestsUnderWay
<1>4. Cardinality(Units(T)) <= Cardinality(Units(S)) BY <1>3, UnitsSubset
<1>5. IsFiniteSet(T) /\ (\A p \in T : IsRequest(p)) BY <1>3, FS_Subset
<1>6. PICK i, j, k, b \in Nat : /\ i = Cardinality(Units(S)) /\ j = Cardinality(Units(T))
                               /\ k = handled[c][round] /\ b = Budget[round]
  BY <1>3, <1>5, UnitsFinite, RequestsUnderWay, BudgetOfRound
<1>7. Units(Requests(c, round))' = Units(T) BY <1>2 DEF Units
<1>8. k + j <= b BY <1>1, <1>2, <1>4, <1>6 DEF RoundKept
<1>9. (handled[c][round] + Cardinality(Units(Requests(c, round))) <= Budget[round])'
  BY <1>6, <1>7, <1>8
<1>10. Unsent(c, round)' => (handled[c][round] = 0 /\ Requests(c, round) = {})'
  BY <1>1 DEF RoundKept
<1> QED BY <1>9, <1>10 DEF RoundKept

\* Every step that sends no search request, handles none and begins no search keeps the
\* budgets.
LEMMA QuietStep ==
  ASSUME BudgetInv, SharingInv', NEW q, q.type # "searchRequest", net' \subseteq net \cup {q},
         handled' = handled,
         \A c \in Calls :
           /\ pc'[c] = "idle" => pc[c] = "idle"
           /\ Kind[c] = "first" => /\ trials'[c] = trials[c] /\ budget'[c] = budget[c]
                                   /\ pc'[c] = "waiting" => pc[c] = "waiting"
  PROVE  BudgetInv'
<1>1. IsFiniteSet(net')
  <2>1. IsFiniteSet(net \cup {q}) BY FS_AddElement DEF BudgetInv
  <2> QED BY <2>1, FS_Subset
<1>2. \A p \in net' : p.type = "searchRequest" => p.at = p.dest BY DEF BudgetInv
<1>3. \A c \in Calls : Kind[c] = "first" /\ pc'[c] = "waiting" =>
        trials'[c] \in Rounds /\ budget'[c] = Budget[trials'[c]]
  BY DEF BudgetInv
<1>4. ASSUME NEW c \in Calls, NEW round \in Rounds PROVE RoundKept(c, round)'
  <2>1. Requests(c, round)' \subseteq Requests(c, round) BY DEF Requests
  <2>2. Unsent(c, round)' => Unsent(c, round) BY DEF Unsent
  <2> QED BY <2>1, <2>2, QuietRound
<1> QED BY <1>1, <1>2, <1>3, <1>4 DEF BudgetInv

\* What sendSearchReq of a call sends is of that call and its round.
LEMMA SearchSends ==
  ASSUME BudgetInv, NEW c \in Calls, NEW round \in Rounds, NEW b \in Nat, Search(c, round, b)
  PROVE  \E sent : /\ net' = net \cup sent
                   /\ IsFiniteSet(sent) /\ \A p \in sent : IsRequest(p)
                   /\ \A p \in sent : p.call = c /\ p.round = round /\ p.at = p.dest
                   /\ Cardinality(Units(sent)) <= b
<1>1. Caller[c] \in Nodes BY Constants
<1>2. Neighbours[Caller[c]] \in SUBSET Nodes /\ IsFiniteSet(Neighbours[Caller[c]])
  BY <1>1, Constants
<1>3. CASE Neighbours[Caller[c]] = {}
  <2>1. net' = net \cup {} BY <1>3 DEF Search
  <2>2. Units({}) = {} BY DEF Units
  <2> QED BY <2>1, <2>2, FS_EmptySet
<1>4. CASE Neighbours[Caller[c]] # {}
  <2>1. PICK d \in Distributions(Neighbours[Caller[c]], b) :
          net' = net \cup SearchRequests(c, round, Caller[c], d)
    BY <1>4 DEF Search
  <2>2. \A p \in SearchRequests(c, round, Caller[c], d) :
          p.call = c /\ p.round = round /\ p.at = p.dest
    BY DEF SearchRequests
  <2> QED BY <1>1, <1>2, <1>4, <2>1, <2>2, DealtOut
<1> QED BY <1>3, <1>4

\* A round that begins: its requests have its budget, and no other round has a new one.
LEMMA SearchKeeps ==
  ASSUME BudgetInv, SharingInv', NEW c \in Calls, NEW round \in Rounds, Unsent(c, round),
         Search(c, round, Budget[round]), handled' = handled,
         pc'[c] # "idle", Kind[c] = "first" => trials'[c] = round /\ budget'[c] = Budget[round],
         \A r \in Rounds : r > round /\ Kind[c] = "first" => Unsent(c, r),
         \A d \in Calls : d # c => /\ pc'[d] = pc[d] /\ trials'[d] = trials[d]
                                   /\ budget'[d] = budget[d]
  PROVE  BudgetInv'
<1>0. Budget[round] \in Nat BY BudgetOfRound
<1>1. PICK sent : /\ net' = net \cup sent
                  /\ IsFiniteSet(sent) /\ \A p \in sent : IsRequest(p)
                  /\ \A p \in sent : p.call = c /\ p.round = round /\ p.at = p.dest
                  /\ Cardinality(Units(sent)) <= Budget[round]
  BY <1>0, SearchSends
<1>2. IsFiniteSet(net') BY <1>1, FS_Union DEF BudgetInv
<1>3. \A p \in net' : p.type = "searchRequest" => p.at = p.dest BY <1>1 DEF BudgetInv
<1>4. \A d \in Calls : Kind[d] = "first" /\ pc'[d] = "waiting" =>
        trials'[d] \in Rounds /\ budget'[d] = Budget[trials'[d]]
  BY DEF BudgetInv
<1>5. ASSUME NEW d \in Calls, NEW r \in Rounds PROVE RoundKept(d, r)'
  <2>1. CASE d = c /\ r = round
    <3>1. handled[c][round] = 0 /\ Requests(c, round) = {} BY DEF BudgetInv, RoundKept
    <3>2. Requests(c, round)' = sent BY <1>1, <3>1 DEF Requests, IsRequest
    <3>3. Units(Requests(c, round))' = Units(sent) BY <3>2 DEF Units
    <3>4. PICK k \in Nat : k = Cardinality(Units(sent)) BY <1>1, UnitsFinite
    <3>5. handled'[c][round] + Cardinality(Units(sent)) <= Budget[round]
      BY <1>1, <3>1, <3>4
    <3>6. ~Unsent(c, round)' BY DEF Unsent, Rounds
    <3> QED BY <2>1, <3>3, <3>5, <3>6 DEF RoundKept
  <2>2. CASE d # c \/ r # round
    <3>1. Requests(d, r)' \subseteq Requests(d, r) BY <1>1, <2>2 DEF Requests
    <3>2. Unsent(d, r)' => Unsent(d, r)
      <4>1. CASE d # c BY <4>1 DEF Unsent
      <4>2. CASE d = c BY <4>2 DEF Unsent
      <4> QED BY <4>1, <4>2
    <3> QED BY <3>1, <3>2, QuietRound
  <2> QED BY <2>1, <2>2
<1> QED BY <1>2, <1>3, <1>4, <1>5 DEF BudgetInv

\* SearchFirst and SearchAll begin with the budget of the first round.
LEMMA BeginKeeps ==
  ASSUME BudgetInv, SharingInv', NEW c \in Calls, SearchFirst(c) \/ SearchAll(c)
  PROVE  BudgetInv'
<1>1. 1 \in Rounds /\ Budget[1] = Initial BY Constants, BudgetOfRound
<1>2. pc[c] = "idle" /\ Unsent(c, 1) /\ \A r \in Rounds : Unsent(c, r)
  BY DEF SearchFirst, SearchAll, Unsent
<1>3. /\ DOMAIN pc = Calls /\ DOMAIN trials = Calls /\ DOMAIN budget = Calls
      /\ handled' = handled
  BY CallFunctions DEF BudgetInv, SearchFirst, SearchAll
<1>4. CASE SearchAll(c)
  <2>1. /\ Kind[c] = "all" /\ pc' = [pc EXCEPT ![c] = "waiting"] /\ Search(c, 1, Initial)
        /\ UNCHANGED <<trials, budget>>
    BY <1>4 DEF SearchAll
  <2>2. /\ pc'[c] # "idle"
        /\ \A d \in Calls : d # c => /\ pc'[d] = pc[d] /\ trials'[d] = trials[d]
                                     /\ budget'[d] = budget[d]
    BY <1>3, <2>1
  <2> QED BY <1>1, <1>2, <1>3, <2>1, <2>2, SearchKeeps
<1>5. CASE SearchFirst(c)
  <2>1. CASE /\ pc' = [pc EXCEPT ![c] = "done"] /\ UNCHANGED <<trials, budget, net>>
    <3>1. PICK q : q = [type |-> "searchReply"] OBVIOUS
    <3>2. q.type # "searchRequest" BY <3>1
    <3>3. \A d \in Calls : pc'[d] = IF d = c THEN "done" ELSE pc[d] BY <1>3, <2>1
    <3> QED BY <1>3, <2>1, <3>2, <3>3, QuietStep
  <2>2. CASE /\ pc' = [pc EXCEPT ![c] = "waiting"] /\ trials' = [trials EXCEPT ![c] = 1]
             /\ budget' = [budget EXCEPT ![c] = Initial] /\ Search(c, 1, Initial)
    <3>1. /\ pc'[c] # "idle" /\ trials'[c] = 1 /\ budget'[c] = Initial
          /\ \A d \in Calls : d # c => /\ pc'[d] = pc[d] /\ trials'[d] = trials[d]
                                       /\ budget'[d] = budget[d]
      BY <1>3, <2>2
    <3> QED BY <1>1, <1>2, <1>3, <2>2, <3>1, SearchKeeps
  <2> QED BY <1>5, <2>1, <2>2 DEF SearchFirst
<1> QED BY <1>4, <1>5

\* The ring expands to the budget of the next round.
LEMMA ExpandKeeps ==
  ASSUME BudgetInv, SharingInv', NEW c \in Calls, ExpandRing(c)
  PROVE  BudgetInv'
<1>1. /\ Kind[c] = "first" /\ pc[c] = "waiting" /\ trials[c] < Retry
      /\ budget' = [budget EXCEPT ![c] = @ * Factor]
      /\ trials' = [trials EXCEPT ![c] = @ + 1]
      /\ Search(c, trials[c] + 1, budget[c] * Factor)
      /\ pc' = pc /\ handled' = handled
  BY DEF ExpandRing, Expands
<1>2. PICK t \in Rounds : t = trials[c] /\ budget[c] = Budget[t] BY <1>1 DEF BudgetInv
<1>3. t + 1 \in Rounds /\ t + 1 # 1 /\ t + 1 - 1 = t /\ t \in Nat
  BY <1>1, <1>2, Constants DEF Rounds
<1>4. Budget[t + 1] = Budget[t] * Factor BY <1>3, BudgetOfRound
<1>5. /\ trials'[c] = t + 1 /\ budget'[c] = Budget[t + 1]
      /\ \A d \in Calls : d # c => trials'[d] = trials[d] /\ budget'[d] = budget[d]
  BY <1>1, <1>2, <1>4, CallFunctions DEF BudgetInv
<1>6. \A r \in Rounds : r > t => Unsent(c, r) BY <1>1, <1>2 DEF Unsent
<1>7. Unsent(c, t + 1) /\ \A r \in Rounds : r > t + 1 => Unsent(c, r)
  BY <1>3, <1>6 DEF Rounds
<1>8. Search(c, t + 1, Budget[t + 1]) BY <1>1, <1>2, <1>4
<1> QED BY <1>1, <1>3, <1>5, <1>7, <1>8, SearchKeeps

\* The other steps of the calls send no search request.
LEMMA CallKeepsBudget ==
  ASSUME BudgetInv, SharingInv', NEW c \in Calls, Begin(c) \/ Continue(c)
  PROVE  BudgetInv'
<1>1. CASE SearchFirst(c) \/ SearchAll(c) BY <1>1, BeginKeeps
<1>2. CASE ExpandRing(c) BY <1>2, ExpandKeeps
<1>3. CASE ~(SearchFirst(c) \/ SearchAll(c) \/ ExpandRing(c))
  <2>0. DOMAIN pc = Calls /\ DOMAIN trials = Calls BY CallFunctions DEF BudgetInv
  <2>1. /\ handled' = handled /\ budget' = budget
        /\ \A d \in Calls : d # c => pc'[d] = pc[d] /\ trials'[d] = trials[d]
        /\ \/ pc'[c] = pc[c]
           \/ Kind[c] # "first" /\ pc'[c] # "idle"
           \/ pc'[c] \in {"leaving", "done"}
        /\ Kind[c] = "first" => trials'[c] = trials[c]
        /\ net' = net \/ \E key, o : net' = net \cup {DataRequest(c, key, o)}
    <3>1. CASE Upload(c)
      <4>1. UNCHANGED <<trials, budget, net, handled>> /\ Kind[c] = "upload" BY <3>1 DEF Upload
      <4>2. UNCHANGED pc \/ pc' = [pc EXCEPT ![c] = "done"] BY <3>1 DEF Upload
      <4>3. \A d \in Calls : pc'[d] = pc[d] \/ (d = c /\ pc'[d] = "done") BY <2>0, <4>2
      <4> QED BY <4>1, <4>3
    <3>2. CASE Downloaded(c) BY <2>0, <3>2 DEF Downloaded
    <3>3. CASE AskPeer(c) BY <2>0, <3>3 DEF AskPeer
    <3>4. CASE StopSearch(c) BY <2>0, <3>4 DEF StopSearch
    <3>5. CASE LeaveSearch(c) BY <2>0, <3>5 DEF LeaveSearch
    <3>6. CASE RetrieveFilenames(c) BY <2>0, <3>6 DEF RetrieveFilenames
    <3>7. CASE Resend(c) BY <2>0, <3>7 DEF Resend, AskAgain
    <3>8. CASE GiveUp(c) BY <2>0, <3>8 DEF GiveUp
    <3>9. CASE Answered(c) BY <2>0, <3>9 DEF Answered
    <3> QED BY <1>3, <3>1, <3>2, <3>3, <3>4, <3>5, <3>6, <3>7, <3>8, <3>9
            DEF Begin, Continue
  <2>2. \E q : q.type # "searchRequest" /\ net' \subseteq net \cup {q}
    <3>1. \A key, o : DataRequest(c, key, o).type # "searchRequest" BY DEF DataRequest
    <3> QED BY <2>1, <3>1
  <2>3. \A d \in Calls :
          /\ pc'[d] = "idle" => pc[d] = "idle"
          /\ Kind[d] = "first" => /\ trials'[d] = trials[d] /\ budget'[d] = budget[d]
                                  /\ pc'[d] = "waiting" => pc[d] = "waiting"
    BY <2>0, <2>1
  <2> QED BY <2>1, <2>2, <2>3, QuietStep
<1> QED BY <1>1, <1>2, <1>3

\* A request that is handled takes one unit, and hands on what is left over at most.
LEMMA ExecSearchRequestKeepsBudget ==
  ASSUME BudgetInv, SharingInv', NEW n \in Nodes, NEW p \in net, ExecSearchRequest(n, p)
  PROVE  BudgetInv'
<1> DEFINE others == Neighbours[n] \ {p.source, Caller[p.call]}
<1>1. p \in Packet /\ p.type = "searchRequest"
  BY DEF BudgetInv, SharingInv, WireTyped, ExecSearchRequest, Receives
<1>2. p.call \in Calls /\ p.round \in Rounds /\ p.budget \in Nat \ {0} BY <1>1, PacketFields
<1>3. PICK c \in Calls, round \in Rounds, b \in Nat :
        p.call = c /\ p.round = round /\ p.budget = b + 1 /\ LeftOver(p) = b
  <2>1. PICK k \in Nat \ {0} : k = p.budget BY <1>2
  <2>2. k - 1 \in Nat /\ k = (k - 1) + 1 BY <2>1
  <2> QED BY <1>2, <2>1, <2>2 DEF LeftOver
<1>4. others \in SUBSET Nodes /\ IsFiniteSet(others)
  BY Constants, FS_Subset
<1>5. PICK reply : /\ reply.type = "searchReply"
                   /\ \/ net' = (net \ {p}) \cup {reply}
                      \/ others # {} /\ \E d \in Distributions(others, b) :
                           net' = (net \ {p}) \cup {reply} \cup SearchRequests(c, round, n, d)
  BY <1>3 DEF ExecSearchRequest
<1> HIDE DEF others
<1>6. PICK sent : /\ net' = (net \ {p}) \cup {reply} \cup sent
                  /\ \/ sent = {}
                     \/ others # {} /\ \E d \in Distributions(others, b) :
                                         sent = SearchRequests(c, round, n, d)
  <2>1. CASE net' = (net \ {p}) \cup {reply}
    <3>1. net' = (net \ {p}) \cup {reply} \cup {} BY <2>1
    <3> QED BY <3>1
  <2>2. CASE net' # (net \ {p}) \cup {reply}
    <3>1. PICK d \in Distributions(others, b) :
            net' = (net \ {p}) \cup {reply} \cup SearchRequests(c, round, n, d)
      BY <1>5, <2>2
    <3> QED BY <1>5, <2>2, <3>1
  <2> QED BY <2>1, <2>2
<1>7. /\ IsFiniteSet(sent) /\ \A q \in sent : IsRequest(q)
      /\ Cardinality(Units(sent)) <= b
      /\ \A q \in sent : q.call = c /\ q.round = round /\ q.at = q.dest
  <2>1. CASE sent = {}
    <3>1. Units({}) = {} BY DEF Units
    <3> QED BY <2>1, <3>1, FS_EmptySet
  <2>2. CASE sent # {}
    <3>1. PICK d \in Distributions(others, b) : sent = SearchRequests(c, round, n, d)
      BY <1>5, <1>6, <2>2
    <3>2. \A q \in sent : q.call = c /\ q.round = round /\ q.at = q.dest
      BY <3>1 DEF SearchRequests
    <3> QED BY <1>4, <1>5, <1>6, <2>2, <3>1, <3>2, DealtOut
  <2> QED BY <2>1, <2>2
<1>8. /\ pc' = pc /\ trials' = trials /\ budget' = budget
      /\ handled' = [handled EXCEPT ![c][round] = @ + 1]
  BY <1>3 DEF ExecSearchRequest, call
<1>9. /\ handled'[c][round] = handled[c][round] + 1
      /\ \A d \in Calls, r \in Rounds : d # c \/ r # round => handled'[d][r] = handled[d][r]
  BY <1>8 DEF BudgetInv, SharingInv, WireTyped
<1>10. IsFiniteSet(net')
  <2>1. IsFiniteSet(net \ {p}) BY FS_Subset DEF BudgetInv
  <2>2. IsFiniteSet((net \ {p}) \cup {reply}) BY <2>1, FS_AddElement
  <2> QED BY <1>5, <1>6, <1>7, <2>2, FS_Union
<1>11. \A q \in net' : q.type = "searchRequest" => q.at = q.dest
  BY <1>5, <1>6, <1>7 DEF BudgetInv
<1>12. RoundKept(c, round)'
  <2>1. PICK S : S = Requests(c, round) OBVIOUS
  <2>2. p \in S /\ RoundKept(c, round) BY <1>1, <1>3, <2>1 DEF BudgetInv, Requests
  <2>3. Requests(c, round)' = (S \ {p}) \cup sent
    BY <1>5, <1>6, <1>7, <2>1 DEF Requests, IsRequest
  <2>4. IsFiniteSet(S) /\ \A q \in S : IsRequest(q) BY <2>1, RequestsUnderWay
  <2>5. Cardinality(Units(S)) = Cardinality(Units(S \ {p})) + p.budget
    BY <2>2, <2>4, UnitsWithout
  <2>6. IsFiniteSet(S \ {p}) /\ \A q \in S \ {p} : IsRequest(q) BY <2>4, FS_Subset
  <2>7. /\ Cardinality(Units((S \ {p}) \cup sent))
             <= Cardinality(Units(S \ {p})) + Cardinality(Units(sent))
        /\ IsFiniteSet((S \ {p}) \cup sent) /\ \A q \in (S \ {p}) \cup sent : IsRequest(q)
    BY <1>7, <2>6, UnitsUnion, FS_Union
  <2>8. PICK i, j, k, l, h, m \in Nat :
          /\ i = Cardinality(Units(S)) /\ j = Cardinality(Units(S \ {p}))
          /\ k = Cardinality(Units(sent)) /\ l = Cardinality(Units((S \ {p}) \cup sent))
          /\ h = handled[c][round] /\ m = Budget[round]
    BY <1>7, <2>4, <2>6, <2>7, UnitsFinite, RequestsUnderWay, BudgetOfRound
  <2>9. /\ h + i <= m /\ i = j + (b + 1) /\ l <= j + k /\ k <= b
    BY <1>3, <1>7, <2>1, <2>2, <2>5, <2>7, <2>8 DEF RoundKept
  <2>10. (h + 1) + l <= m BY <2>8, <2>9
  <2>11. Units(Requests(c, round))' = Units((S \ {p}) \cup sent) BY <2>3 DEF Units
  <2>12. (handled[c][round] + Cardinality(Units(Requests(c, round))) <= Budget[round])'
    BY <1>9, <2>8, <2>10, <2>11
  <2>13. ~Unsent(c, round)' BY <1>8, <2>1, <2>2 DEF Unsent, RoundKept
  <2> QED BY <2>12, <2>13 DEF RoundKept
<1>13. ASSUME NEW d \in Calls, NEW r \in Rounds, d # c \/ r # round PROVE RoundKept(d, r)'
  <2>1. Requests(d, r)' \subseteq Requests(d, r) BY <1>5, <1>6, <1>7, <1>13 DEF Requests
  <2>2. Unsent(d, r)' => Unsent(d, r) BY <1>8 DEF Unsent
  <2> QED BY <1>9, <1>13, <2>1, <2>2, QuietRound
<1> QED BY <1>8, <1>10, <1>11, <1>12, <1>13 DEF BudgetInv

\* No other packet is a search request, and a request is where it is to go.
LEMMA ListenKeepsBudget ==
  ASSUME BudgetInv, SharingInv', NEW n \in Nodes, Listen(n)
  PROVE  BudgetInv'
<1>1. ASSUME NEW p \in net, ExecSearchRequest(n, p) PROVE BudgetInv'
  BY <1>1, ExecSearchRequestKeepsBudget
<1>2. CASE Receive(n)
  <2>1. PICK c : c = listener[n].call OBVIOUS
  <2>2. /\ pc' = [pc EXCEPT ![c] = "leaving"] /\ UNCHANGED <<trials, budget, net, handled>>
    BY <1>2, <2>1 DEF Receive
  <2>3. \A d \in Calls : pc'[d] = pc[d] \/ pc'[d] = "leaving"
    BY <2>2, CallFunctions DEF BudgetInv, SharingInv, CallsTyped
  <2>4. PICK q : q.type = "searchReply"
    <3>1. [type |-> "searchReply"].type = "searchReply" OBVIOUS
    <3> QED BY <3>1
  <2> QED BY <2>2, <2>3, <2>4, QuietStep
<1>3. CASE \/ \E p \in net : \/ ExecDataRequest(n, p) \/ ExecDataReply(n, p)
                              \/ ExecSearchReply(n, p)
           \/ Relay(n) \/ Trigger(n)
  <2>1. /\ handled' = handled /\ UNCHANGED <<pc, trials, budget>>
    BY <1>3 DEF ExecDataRequest, ExecDataReply, ExecSearchReply, Relay, Trigger, call
  <2>2. \E q : q.type # "searchRequest" /\ net' \subseteq net \cup {q}
    <3>1. ASSUME Relay(n) PROVE \E q : q.type # "searchRequest" /\ net' \subseteq net \cup {q}
      <4>1. PICK p \in net : /\ p.at = n /\ p.dest # n
                             /\ net' = (net \ {p}) \cup {[p EXCEPT !.at = p.dest]}
        BY <3>1 DEF Relay
      <4>2. p \in Packet /\ p.type # "searchRequest"
        BY <4>1 DEF BudgetInv, SharingInv, WireTyped
      <4>3. [p EXCEPT !.at = p.dest].type # "searchRequest" BY <4>2 DEF Packet
      <4> QED BY <4>1, <4>3
    <3>2. ASSUME NEW p \in net, ExecDataRequest(n, p)
          PROVE  \E q : q.type # "searchRequest" /\ net' \subseteq net \cup {q}
      <4>1. PICK q : q.type = "dataReply" /\ net' \subseteq net \cup {q}
        <5>1. CASE routes[n][p.source] = None
          <6>1. [type |-> "dataReply"].type = "dataReply" OBVIOUS
          <6> QED BY <3>2, <5>1, <6>1 DEF ExecDataRequest
        <5>2. CASE routes[n][p.source] # None BY <3>2, <5>2 DEF ExecDataRequest
        <5> QED BY <5>1, <5>2
      <4> QED BY <4>1
    <3>3. ASSUME net' \subseteq net
          PROVE  \E q : q.type # "searchRequest" /\ net' \subseteq net \cup {q}
      <4>1. [type |-> "dataReply"].type # "searchRequest" OBVIOUS
      <4> QED BY <3>3, <4>1
    <3> QED BY <1>3, <3>1, <3>2, <3>3 DEF ExecDataReply, ExecSearchReply, Trigger
  <2> QED BY <2>1, <2>2, QuietStep
<1> QED BY <1>1, <1>2, <1>3 DEF Listen

\* Nothing is handled at the start, and no request under way.
LEMMA InitBudget ==
  ASSUME Init
  PROVE  BudgetInv
<1>1. SharingInv BY InitTyped
<1>2. IsFiniteSet(net) /\ \A c \in Calls, round \in Rounds : Requests(c, round) = {}
  BY FS_EmptySet DEF Init, Requests
<1>3. ASSUME NEW c \in Calls, NEW round \in Rounds PROVE RoundKept(c, round)
  <2>1. handled[c][round] = 0 BY DEF Init
  <2>2. Units(Requests(c, round)) = {} BY <1>2 DEF Units
  <2>3. Budget[round] \in Nat /\ Cardinality({}) = 0 BY BudgetOfRound, FS_EmptySet
  <2> QED BY <1>2, <2>1, <2>2, <2>3 DEF RoundKept
<1> QED BY <1>1, <1>2, <1>3 DEF Init, BudgetInv

\* Every step keeps the budgets.
LEMMA NextBudget ==
  ASSUME BudgetInv, [Next]_vars
  PROVE  BudgetInv'
<1>1. SharingInv' BY NextTyped DEF BudgetInv
<1>2. CASE Lose \/ UNCHANGED vars
  <2>1. net' \subseteq net /\ UNCHANGED <<pc, trials, budget, handled>>
    BY <1>2 DEF Lose, vars, call
  <2>2. PICK q : q.type = "dataReply"
    <3>1. [type |-> "dataReply"].type = "dataReply" OBVIOUS
    <3> QED BY <3>1
  <2> QED BY <1>1, <2>1, <2>2, QuietStep
<1> QED BY <1>1, <1>2, CallKeepsBudget, ListenKeepsBudget DEF Next

\* The budget of a round of a search is that of the ring, and no more nodes handle its
\* requests than it says, in every network and however the budget is dealt out
\* (sendSearchReq, SearchFirst, ExecSearchRequestMessage).
THEOREM BudgetCorrect == Spec => []BudgetKept
<1>1. Init => BudgetInv BY InitBudget
<1>2. BudgetInv /\ [Next]_vars => BudgetInv' BY NextBudget
<1>3. BudgetInv => BudgetKept BY DEF BudgetInv, RoundKept, BudgetKept
<1> QED BY <1>1, <1>2, <1>3, PTL DEF Spec

=============================================================================
