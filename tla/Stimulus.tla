------------------------------- MODULE Stimulus -------------------------------
(***************************************************************************)
(* How the controllers of the page follow its DOM: the observers, router,  *)
(* modules and contexts of src/gui/web/assets/scripts/stimulus.js.         *)
(*                                                                         *)
(* An element with a data-controller attribute has one controller for each *)
(* identifier in it that is registered.  Scripts change the DOM; the       *)
(* MutationObserver records what they do, and the records are processed    *)
(* later, all in one microtask, by code that looks at the DOM as it is     *)
(* then and not as it was when the record was made.                        *)
(*                                                                         *)
(* The observers form a chain, Element-, Attribute-, TokenList-, ValueList-*)
(* and ScopeObserver, each the delegate of the one before; what one record *)
(* does to the whole chain is one action.  A scope is a pair of an element *)
(* and an identifier, and so is the context that a module keeps for it.    *)
(* Bindings, targets and values of a controller are left out.  Its methods *)
(* connect and disconnect, which the chain calls, are assumed not to       *)
(* change the document and not to register or unload anything.             *)
(***************************************************************************)
EXTENDS Naturals, Sequences, FiniteSets, SequencesExt

CONSTANTS
  Elements,     \* the elements that may have the attribute
  Root,         \* the document
  None,         \* no parent, no attribute
  Identifiers,  \* the names of the controllers
  Values,       \* Values[e]: the token lists that scripts give to e's attribute
  MaxRecords    \* bound: scripts run while at most this many records are pending

ASSUME StimulusAssumption ==
  /\ Root \notin Elements /\ None \notin Elements /\ None # Root
  /\ IsFiniteSet(Elements)
  /\ Values \in [Elements -> SUBSET Seq(Identifiers)]
  /\ None \notin UNION {Values[e] : e \in Elements}
  /\ MaxRecords \in Nat

Scopes == Elements \X Identifiers
Record == [type : {"attributes", "removed", "added"}, element : Elements]

VARIABLES
  parent,      \* the DOM: the parent of each element, None when it has none
  attr,        \* the DOM: the tokens of data-controller, None without attribute
  records,     \* the records of the MutationObserver that are pending
  transient,   \* the nodes removed since the last delivery, observed until the next
  delivering,  \* whether the records are being processed
  started,     \* ElementObserver.started
  elements,    \* ElementObserver.elements
  tokens,      \* TokenListObserver.tokensByElement
  refs,        \* ScopeObserver.scopeReferenceCounts
  scopes,      \* Router.scopesByIdentifier
  modules,     \* the identifiers in Router.modulesByIdentifier
  contexts,    \* Module.contextsByScope of the modules
  connected,   \* Module.connectedContexts of the modules
  lives,       \* history: the calls of connect less those of disconnect, per scope
  missed       \* history: the elements that changed unobserved and were not read since

dom == <<parent, attr>>
observer == <<records, transient, delivering, started>>
chain == <<elements, tokens, refs, scopes, contexts, connected, lives>>
vars == <<dom, observer, chain, modules, missed>>

-----------------------------------------------------------------------------
(* The DOM and the MutationObserver *)

\* The nodes of the document
Nodes == Elements \cup {Root}

\* A node with its ancestors: what is in every set of nodes that has it and, with an element,
\* its parent
Ancestors(node) ==
  {x \in Nodes : \A S \in SUBSET Nodes :
     node \in S /\ (\A e \in S \cap Elements : parent[e] \in S \cup {None}) => x \in S}

InTree(e) == Root \in Ancestors(e)

\* matchElementsInTree: the elements with the attribute at a node and below it
MatchElementsInTree(node) == {e \in Elements : attr[e] # None /\ node \in Ancestors(e)}

\* A change at node is recorded if the document is observed and has the node, or if the
\* node has left it since the last delivery, alone or with an ancestor
Observed(node) == started /\ (InTree(node) \/ Ancestors(node) \cap transient # {})

\* Variant for TypeOK: a record holds the node that changed and not the one that moved
RecordedTarget(node, type, e) ==
  records' = IF Observed(node) THEN Append(records, [type |-> type, element |-> node]) ELSE records

Recorded(node, type, e) ==
  records' = IF Observed(node) THEN Append(records, [type |-> type, element |-> e]) ELSE records

\* A script runs when no records are processed: JavaScript has one thread
Script == ~delivering /\ Len(records) < MaxRecords

SetAttribute(e) ==
  /\ Script
  /\ attr' \in {[attr EXCEPT ![e] = v] : v \in (Values[e] \cup {None}) \ {attr[e]}}
  /\ Recorded(e, "attributes", e)
  /\ missed' = IF started THEN missed ELSE missed \cup ({e} \cap elements)
  /\ UNCHANGED <<parent, transient, delivering, started, chain, modules>>

RemoveNode(e) ==
  /\ Script
  /\ parent[e] # None
  /\ parent' = [parent EXCEPT ![e] = None]
  /\ Recorded(parent[e], "removed", e)
  /\ transient' = IF Observed(parent[e]) THEN transient \cup {e} ELSE transient
  /\ UNCHANGED <<attr, delivering, started, chain, modules, missed>>

InsertNode(e, node) ==
  /\ Script
  /\ parent[e] = None
  /\ node \in Elements => e \notin Ancestors(node)
  /\ parent' = [parent EXCEPT ![e] = node]
  /\ Recorded(node, "added", e)
  /\ UNCHANGED <<attr, transient, delivering, started, chain, modules, missed>>

-----------------------------------------------------------------------------
(* Tokens, scopes and contexts *)

Occurrences(list, id) == Cardinality({k \in DOMAIN list : list[k] = id})

NoTokens == [e \in Elements |-> <<>>]

\* Context.connect for the contexts joined and disconnect for those left
Called(left, joined) ==
  lives' = [c \in Scopes |-> lives[c] + (IF c \in joined THEN 1 ELSE 0)
                                      - (IF c \in left THEN 1 ELSE 0)]

\* The modules disconnect the contexts left and then connect those joined, which they
\* have made if they are not in kept
ConnectContexts(kept, left, joined) ==
  /\ contexts' = kept \cup joined
  /\ connected' = (connected \ left) \cup joined
  /\ Called(left, joined)

\* Router.scopeDisconnected for the scopes in leave and then scopeConnected for those in join
Route(leave, join) ==
  /\ scopes' = (scopes \ leave) \cup join
  /\ ConnectContexts(contexts, {c \in leave : c[2] \in modules} \cap contexts,
                     {c \in join : c[2] \in modules})

\* What the count of a scope is without the tokens gone, and what the tokens come add:
\* ScopeObserver counts the tokens of each scope
Kept(c, gone) ==
  LET n == Occurrences(gone[c[1]], c[2]) IN IF refs[c] > n THEN refs[c] - n ELSE 0
New(c, come) == Occurrences(come[c[1]], c[2])

\* The Multimap of the tokens, when those gone, the ends of its lists, make room for come
Retained(gone, come) ==
  [e \in Elements |-> SubSeq(tokens[e], 1, Len(tokens[e]) - Len(gone[e])) \o come[e]]

\* tokensUnmatched of the tokens gone and then tokensMatched of those come.  The router is
\* told of the first token of a scope that comes and the last that goes.
Rematch(gone, come) ==
  /\ tokens' = Retained(gone, come)
  /\ refs' = [c \in Scopes |-> Kept(c, gone) + New(c, come)]
  /\ Route({c \in Scopes : refs[c] > 0 /\ Kept(c, gone) = 0},
           {c \in Scopes : Kept(c, gone) = 0 /\ New(c, come) > 0})

\* removeElement for the elements out, and then addElement for those in
Replace(out, in) ==
  LET gone == [e \in Elements |-> IF e \in out THEN tokens[e] ELSE <<>>]
      come == [e \in Elements |-> IF e \in in THEN attr[e] ELSE <<>>]
  IN  /\ elements' = (elements \ out) \cup in
      /\ Rematch(gone, come)
      /\ missed' = missed \ (out \cup in)

\* elementAttributeValueChanged: the tokens from the first that differs are replaced
RefreshTokens(e) ==
  LET same == Len(LongestCommonPrefix({tokens[e], attr[e]}))
      Rest(list) == [NoTokens EXCEPT ![e] = SubSeq(list, same + 1, Len(list))]
  IN  /\ Rematch(Rest(tokens[e]), Rest(attr[e]))
      /\ missed' = missed \ {e}
      /\ UNCHANGED elements

-----------------------------------------------------------------------------
(* Records *)

\* The microtask of the MutationObserver takes all the records that there are
Deliver ==
  /\ ~delivering /\ records # <<>>
  /\ delivering' = TRUE
  /\ transient' = {}
  /\ UNCHANGED <<dom, records, started, chain, modules, missed>>

ProcessAttributeChange(e) ==
  \/ e \in elements /\ attr[e] # None /\ RefreshTokens(e)
  \/ e \in elements /\ attr[e] = None /\ Replace({e}, {})
  \/ e \notin elements /\ attr[e] # None /\ Replace({}, {e} \cap {x \in Elements : InTree(x)})
  \/ e \notin elements /\ attr[e] = None /\ UNCHANGED <<chain, missed>>

\* Variant for SyncAgain: only the node itself, not what is below it
ProcessRemovedOnly(e) == Replace({e} \cap elements, {})
ProcessRemovedNode(e) == Replace(MatchElementsInTree(e) \cap elements, {})

\* Variant for InSync: the node may have left the document again
ProcessAddedAnyway(e) == Replace({}, MatchElementsInTree(e) \ elements)
ProcessAddedNode(e) ==
  Replace({}, IF InTree(e) THEN MatchElementsInTree(e) \ elements ELSE {})

ProcessMutation ==
  /\ delivering /\ started
  /\ LET record == Head(records) IN
       \/ record.type = "attributes" /\ ProcessAttributeChange(record.element)
       \/ record.type = "removed" /\ ProcessRemovedNode(record.element)
       \/ record.type = "added" /\ ProcessAddedNode(record.element)
  /\ records' = Tail(records)
  /\ delivering' = (Tail(records) # <<>>)
  /\ UNCHANGED <<dom, transient, started, modules>>

-----------------------------------------------------------------------------
(* Application *)

\* Application.start, once the document is loaded: ElementObserver.refresh takes the
\* elements that match now, and keeps as they are those that it has already
Start ==
  /\ Script /\ ~started
  /\ started' = TRUE
  /\ LET matches == {e \in MatchElementsInTree(Root) : InTree(e)}
     IN  Replace(elements \ matches, matches \ elements)
  /\ UNCHANGED <<dom, records, transient, delivering, modules>>

\* Application.stop: the observer is disconnected and its records dropped; the contexts
\* stay connected
Stop ==
  /\ Script /\ started
  /\ started' = FALSE
  /\ records' = <<>> /\ transient' = {}
  /\ missed' = missed \cup
       {e \in elements : Contains(records, [type |-> "attributes", element |-> e])}
  /\ UNCHANGED <<dom, delivering, chain, modules>>

Others(id) == {c \in contexts : c[2] # id}
ScopesOf(id) == {c \in scopes : c[2] = id}

\* Router.unloadIdentifier: the module is disconnected from its scopes and forgotten
\* Variant for ChainAgrees: it is forgotten with its contexts connected
UnloadOnly(id) ==
  /\ Script /\ id \in modules
  /\ modules' = modules \ {id}
  /\ ConnectContexts(Others(id), {}, {})
  /\ UNCHANGED <<dom, observer, elements, tokens, refs, scopes, missed>>

Unload(id) ==
  /\ Script /\ id \in modules
  /\ modules' = modules \ {id}
  /\ ConnectContexts(Others(id), ScopesOf(id) \cap contexts, {})
  /\ UNCHANGED <<dom, observer, elements, tokens, refs, scopes, missed>>

\* Router.loadDefinition: the module that has the identifier is unloaded, and the new one
\* connected to the scopes
\* Variant for ConnectAlternates: the module that has the identifier is not unloaded
RegisterOver(id) ==
  /\ Script
  /\ modules' = modules \cup {id}
  /\ ConnectContexts(Others(id), {}, ScopesOf(id))
  /\ UNCHANGED <<dom, observer, elements, tokens, refs, scopes, missed>>

Register(id) ==
  /\ Script
  /\ modules' = modules \cup {id}
  /\ ConnectContexts(Others(id), ScopesOf(id) \cap contexts, ScopesOf(id))
  /\ UNCHANGED <<dom, observer, elements, tokens, refs, scopes, missed>>

-----------------------------------------------------------------------------
(* Specification *)

Init ==
  /\ parent = [e \in Elements |-> None] /\ attr = [e \in Elements |-> None]
  /\ records = <<>> /\ transient = {} /\ delivering = FALSE /\ started = FALSE
  /\ elements = {} /\ tokens = NoTokens
  /\ refs = [c \in Scopes |-> 0] /\ lives = [c \in Scopes |-> 0]
  /\ scopes = {} /\ modules = {} /\ contexts = {} /\ connected = {}
  /\ missed = {}

Next ==
  \/ \E e \in Elements :
       \/ SetAttribute(e) \/ RemoveNode(e)
       \/ \E node \in Nodes : InsertNode(e, node)
  \/ Deliver \/ ProcessMutation
  \/ Start \/ Stop
  \/ \E id \in Identifiers : Register(id) \/ Unload(id)

Spec == Init /\ [][Next]_vars

\* The browser runs the microtask, and the microtask its loop
FairSpec == Spec /\ WF_vars(Deliver) /\ WF_vars(ProcessMutation)

-----------------------------------------------------------------------------
(* Properties *)

\* The state of the observers, the router and the modules
TypeOK ==
  /\ parent \in [Elements -> Elements \cup {Root, None}]
  /\ \A e \in Elements : attr[e] \in Values[e] \cup {None}
  /\ records \in Seq(Record) /\ transient \subseteq Elements
  /\ delivering \in BOOLEAN /\ started \in BOOLEAN
  /\ elements \subseteq Elements /\ missed \subseteq Elements
  /\ tokens \in [Elements -> Seq(Identifiers)]
  /\ refs \in [Scopes -> Nat]
  /\ scopes \subseteq Scopes /\ modules \subseteq Identifiers
  /\ contexts \subseteq Scopes /\ connected \subseteq Scopes

\* What should be connected: the registered identifiers in the attribute of the elements
\* of the document
Wanted == {c \in Scopes : /\ InTree(c[1]) /\ attr[c[1]] # None
                          /\ c[2] \in ToSet(attr[c[1]]) /\ c[2] \in modules}

\* The controllers that are connected are those that the document asks for.  The exception
\* are elements whose attribute changed while the application was stopped: start keeps
\* the tokens that it read before.
Agree == {c \in connected : c[1] \notin missed} = {c \in Wanted : c[1] \notin missed}

\* Once all records are processed, controllers and document agree, however it changed
\* between the records and their processing, which looks at the document as it is then.
\* (That connect and disconnect leave the document alone is assumed, stimulus.js:1794-1807.)
InSync == started /\ records = <<>> => Agree

\* Whatever scripts do, controllers and document agree again and again.
SyncAgain == []<>(started => Agree)

\* At any moment the counts of the ScopeObserver are those of the stored tokens, the
\* router has the scopes that are counted, and the contexts connected are the scopes of
\* registered identifiers.
ChainAgrees ==
  /\ \A c \in Scopes : refs[c] = Occurrences(tokens[c[1]], c[2])
  /\ scopes = {c \in Scopes : refs[c] > 0}
  /\ connected = {c \in scopes : c[2] \in modules}
  /\ \A e \in Elements \ elements : tokens[e] = <<>>

\* connect and disconnect of a controller alternate, connect first: its context is
\* connected when connect was called once more, and otherwise both as often.
ConnectAlternates == \A c \in Scopes : lives[c] = IF c \in connected THEN 1 ELSE 0
===============================================================================
