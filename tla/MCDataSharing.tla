---------------------------- MODULE MCDataSharing ----------------------------
(***************************************************************************)
(* Instances of DataSharing: three nodes in a line.  File f has one chunk; *)
(* p3 has its metafile and p2 the chunk, and p2 uploads it.  All nodes     *)
(* know the names, as after Tag.  The node p3 may have no route to p1.     *)
(* The caller of the searches and of the download is p1.                   *)
(***************************************************************************)
EXTENDS DataSharing, TLC

CONSTANTS p1, p2, p3,      \* nodes
          f, g,            \* files
          c1,              \* a chunk
          up, first, all, get

OneChunk == f :> <<c1>> @@ g :> <<c1>>
Line == p1 :> {p2} @@ p2 :> {p1, p3} @@ p3 :> {p2}
Route(back) == p1 :> (p1 :> p1 @@ p2 :> p2 @@ p3 :> p2)
            @@ p2 :> (p1 :> p1 @@ p2 :> p2 @@ p3 :> p3)
            @@ p3 :> (p1 :> back @@ p2 :> p2 @@ p3 :> p3)
LineTables == {Route(p2), Route(None)}
Parts == p1 :> {} @@ p2 :> {c1} @@ p3 :> {f}
AllNames == p1 :> {f, g} @@ p2 :> {f, g} @@ p3 :> {f, g}
Kinds == [c \in Calls |-> CASE c = up -> "upload" [] c = get -> "download"
                           [] c = all -> "all" [] c = first -> "first"]
Callers == [c \in Calls |-> IF c = up THEN p2 ELSE p1]
AllLast == [c \in Calls |-> IF c = all THEN {first, get} ELSE {}]
ForF == [c \in Calls |-> {f}]
===============================================================================
