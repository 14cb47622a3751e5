---------------------------- MODULE StimulusProofs ----------------------------
(***************************************************************************)
(* The observers, the router and the modules agree (ChainAgrees), connect  *)
(* and disconnect alternate (ConnectAlternates), and once the records are  *)
(* processed the controllers are those of the document (InSync), for every *)
(* document, set of controllers and number of records.                     *)
(*                                                                         *)
(* ChainInv: the counts are those of the tokens; the router has the scopes *)
(* that are counted; connected are those of them that a module is          *)
(* registered for; and lives counts them.  The chain keeps this because    *)
(* what goes is the end of a token list, so that no count is taken below   *)
(* zero, and because it leaves a scope only when its count falls to zero   *)
(* and joins it only when it rises from there (RematchKeeps); the router   *)
(* because it disconnects all of a module before it forgets it.            *)
(*                                                                         *)
(* SyncInv: an element for which document and observer differ has a record *)
(* that will settle it, and a removal of what is in the document again is  *)
(* followed by the record of its return (Pending).  What has left the      *)
(* document is still observed, since it is transient until the delivery;   *)
(* then no script runs before the last record is processed.                *)
(***************************************************************************)
EXTENDS Stimulus, FiniteSetTheorems, SequenceTheorems, WellFoundedInduction, TLAPS

TokenLists == [Elements -> Seq(Identifiers)]

Typed ==
  /\ attr \in [Elements -> Seq(Identifiers) \cup {None}]
  /\ records \in Seq(Record) /\ (delivering => records # <<>>)
  /\ tokens \in TokenLists
  /\ refs \in [Scopes -> Nat]
  /\ modules \subseteq Identifiers

Lives(live) == [c \in Scopes |-> IF c \in live THEN 1 ELSE 0]

\* The router has the scopes counted, and of these the modules those of their identifier
Routed ==
  /\ scopes = {c \in Scopes : refs[c] > 0}
  /\ connected = {c \in scopes : c[2] \in modules}
  /\ connected \subseteq contexts
  /\ contexts \subseteq {c \in Scopes : c[2] \in modules}
  /\ lives = Lives(connected)

\* The counts are those of the tokens, and only elements that are known have any
Counted == \A c \in Scopes : refs[c] = Occurrences(tokens[c[1]], c[2])
Bare == \A e \in Elements \ elements : tokens[e] = <<>>

ChainInv == Typed /\ Routed /\ Counted /\ Bare

-----------------------------------------------------------------------------
(* Lists of tokens *)

\* How often an identifier is in a list is a natural number.
LEMMA OccurrencesNat ==
  ASSUME NEW list \in Seq(Identifiers), NEW id
  PROVE  Occurrences(list, id) \in Nat
<1>1. IsFiniteSet(DOMAIN list)
  <2>1. DOMAIN list = 1 .. Len(list) /\ Len(list) \in Nat BY LenProperties
  <2> QED BY <2>1, FS_Interval
<1>2. IsFiniteSet({k \in DOMAIN list : list[k] = id}) BY <1>1, FS_Subset
<1> QED BY <1>2, FS_CardinalityType DEF Occurrences

\* A part of a list is a list.
LEMMA PartOfList ==
  ASSUME NEW list \in Seq(Identifiers), NEW m \in Nat \ {0}, NEW n \in Int, n <= Len(list)
  PROVE  SubSeq(list, m, n) \in Seq(Identifiers)
<1>1. \A i \in m .. n : list[i] \in Identifiers
  <2> SUFFICES ASSUME NEW i \in m .. n PROVE list[i] \in Identifiers OBVIOUS
  <2>1. Len(list) \in Nat BY LenProperties
  <2>2. i \in 1 .. Len(list) BY <2>1
  <2> QED BY <2>2, ElementOfSeq
<1>2. m \in Int OBVIOUS
<1> QED BY <1>1, <1>2, SubSeqProperties

\* An identifier that occurs in a list is one of its tokens.
LEMMA OccurrencesPositive ==
  ASSUME NEW list \in Seq(Identifiers), NEW id
  PROVE  Occurrences(list, id) > 0 <=> id \in ToSet(list)
<1> DEFINE at == {k \in DOMAIN list : list[k] = id}
<1>1. IsFiniteSet(at)
  <2>1. DOMAIN list = 1 .. Len(list) /\ Len(list) \in Nat BY LenProperties
  <2>2. IsFiniteSet(DOMAIN list) BY <2>1, FS_Interval
  <2> QED BY <2>2, FS_Subset
<1>2. id \in ToSet(list) <=> at # {} BY DEF ToSet
<1> HIDE DEF at
<1>3. Cardinality(at) \in Nat /\ (Cardinality(at) = 0 <=> at = {})
  BY <1>1, FS_CardinalityType, FS_EmptySet
<1>4. Cardinality(at) > 0 <=> at # {} BY <1>3
<1> QED BY <1>2, <1>4 DEF Occurrences, at

\* An identifier is in two lists together as often as in both.
LEMMA OccurrencesConcat ==
  ASSUME NEW s \in Seq(Identifiers), NEW t \in Seq(Identifiers), NEW id
  PROVE  Occurrences(s \o t, id) = Occurrences(s, id) + Occurrences(t, id)
<1> DEFINE A == {k \in DOMAIN s : s[k] = id}
           B == {k \in DOMAIN t : t[k] = id}
           f == [k \in B |-> Len(s) + k]
           shifted == {Len(s) + k : k \in B}
<1>1. /\ Len(s) \in Nat /\ DOMAIN s = 1 .. Len(s)
      /\ Len(t) \in Nat /\ DOMAIN t = 1 .. Len(t)
  BY LenProperties
<1>2. IsFiniteSet(A) /\ IsFiniteSet(B)
  <2>1. IsFiniteSet(1 .. Len(s)) /\ IsFiniteSet(1 .. Len(t)) BY <1>1, FS_Interval
  <2>2. A \subseteq 1 .. Len(s) /\ B \subseteq 1 .. Len(t) BY <1>1
  <2> QED BY <2>1, <2>2, FS_Subset
<1>3. IsFiniteSet(shifted) /\ Cardinality(shifted) = Cardinality(B)
  <2>1. B \subseteq Nat BY <1>1
  <2>2. f \in Surjection(B, shifted) BY DEF Surjection
  <2>3. f \in Injection(B, shifted)
    <3> HIDE DEF B
    <3> QED BY <1>1, <2>1 DEF Injection, IsInjective
  <2>4. f \in Bijection(B, shifted) BY <2>2, <2>3 DEF Bijection
  <2> HIDE DEF f, B, shifted
  <2>5. ExistsBijection(B, shifted) BY <2>4 DEF ExistsBijection
  <2> QED BY <1>2, <2>5, FS_Bijection
<1>4. {k \in DOMAIN (s \o t) : (s \o t)[k] = id} = A \cup shifted
  <2>1. /\ s \o t \in Seq(Identifiers) /\ Len(s \o t) = Len(s) + Len(t)
        /\ \A i \in 1 .. Len(s) + Len(t) :
              (s \o t)[i] = IF i <= Len(s) THEN s[i] ELSE t[i - Len(s)]
    BY ConcatProperties
  <2>2. DOMAIN (s \o t) = 1 .. Len(s) + Len(t) BY <2>1, LenProperties
  <2> DEFINE st == s \o t
  <2>3. ASSUME NEW k \in DOMAIN st, st[k] = id PROVE k \in A \cup shifted
    <3>1. CASE k <= Len(s) BY <1>1, <2>1, <2>2, <2>3, <3>1
    <3>2. CASE ~ (k <= Len(s))
      <4>1. k - Len(s) \in B BY <1>1, <2>1, <2>2, <2>3, <3>2
      <4>2. k = Len(s) + (k - Len(s)) BY <1>1, <2>2
      <4> QED BY <4>1, <4>2
    <3> QED BY <3>1, <3>2
  <2>4. ASSUME NEW k \in A PROVE k \in DOMAIN st /\ st[k] = id
    BY <1>1, <2>1, <2>2
  <2>5. ASSUME NEW k \in B PROVE Len(s) + k \in DOMAIN st /\ st[Len(s) + k] = id
    BY <1>1, <2>1, <2>2
  <2> HIDE DEF st, A, B
  <2>6. {k \in DOMAIN st : st[k] = id} = A \cup shifted BY <2>3, <2>4, <2>5
  <2> QED BY <2>6 DEF st
<1>5. A \cap shifted = {} BY <1>1
<1> HIDE DEF A, B, shifted
<1>6. Cardinality(A \cup shifted) = Cardinality(A) + Cardinality(B)
  <2>1. Cardinality(A) \in Nat /\ Cardinality(B) \in Nat BY <1>2, FS_CardinalityType
  <2>2. Cardinality(A \cap shifted) = 0 BY <1>5, FS_EmptySet
  <2>3. Cardinality(A \cup shifted)
          = Cardinality(A) + Cardinality(shifted) - Cardinality(A \cap shifted)
    BY <1>2, <1>3, FS_Union
  <2> QED BY <1>3, <2>1, <2>2, <2>3
<1> QED BY <1>4, <1>6 DEF Occurrences, A, B

\* A set of natural numbers has a smallest.
LEMMA SmallestOfNaturals ==
  ASSUME NEW T \in SUBSET Nat, T # {}
  PROVE  \E x \in T : \A y \in T : x <= y
<1> DEFINE below == {ss \in Nat \X Nat : ss[1] < ss[2]}
<1>1. IsWellFoundedOn(below, Nat) BY NatLessThanWellFounded DEF OpToRel
<1> HIDE DEF below
<1>2. PICK x \in T : \A y \in T : ~ (<<y, x>> \in below) BY <1>1, WFMin
<1>3. ASSUME NEW y \in T PROVE x <= y
  <2>1. x \in Nat /\ y \in Nat /\ ~ (<<y, x>> \in below) BY <1>2
  <2>2. ~ (y < x) BY <2>1 DEF below
  <2> QED BY <2>1, <2>2
<1> QED BY <1>3

\* The lists that two lists have in common at their start have a longest.
LEMMA CommonPrefix ==
  ASSUME NEW s \in Seq(Identifiers), NEW t \in Seq(Identifiers)
  PROVE  LET same == Len(LongestCommonPrefix({s, t})) IN
         same \in 0 .. Len(s) /\ same \in 0 .. Len(t) /\ SubSeq(s, 1, same) = SubSeq(t, 1, same)
<1> DEFINE common == CommonPrefixes({s, t})
<1>1. <<>> \in common
  <2>1. SubSeq(s, 1, 0) = <<>> /\ SubSeq(t, 1, 0) = <<>> BY SubSeqEmpty
  <2>2. 0 \in 0 .. Len(s) BY LenProperties
  <2>3. <<>> \in Prefixes(s) BY <2>1, <2>2 DEF Prefixes
  <2>4. Len(<<>>) = 0 /\ Len(s) \in Nat /\ Len(t) \in Nat BY LenProperties
  <2>5. SubSeq(<<>>, 1, 0) = <<>> BY SubSeqEmpty
  <2>6. IsPrefix(<<>>, s) /\ IsPrefix(<<>>, t) BY <2>1, <2>4, <2>5 DEF IsPrefix
  <2> QED BY <2>3, <2>6 DEF CommonPrefixes
<1>2. ASSUME NEW p \in common
      PROVE  /\ Len(p) \in Nat /\ Len(p) <= Len(s) /\ Len(p) <= Len(t)
             /\ SubSeq(s, 1, Len(p)) = SubSeq(t, 1, Len(p))
  <2>1. PICK u \in {s, t} : p \in Prefixes(u) BY DEF CommonPrefixes
  <2>2. PICK l \in 0 .. Len(u) : p = SubSeq(u, 1, l) BY <2>1 DEF Prefixes
  <2>3. u \in Seq(Identifiers) /\ Len(u) \in Nat BY LenProperties
  <2>4. p \in Seq(Identifiers) BY <2>2, <2>3, PartOfList
  <2>5. IsPrefix(p, s) /\ IsPrefix(p, t) BY DEF CommonPrefixes
  <2>6. Len(p) \in Nat BY <2>4, LenProperties
  <2> QED BY <2>5, <2>6 DEF IsPrefix
<1> HIDE DEF common
<1> DEFINE shorter == {Len(s) - Len(p) : p \in common}
<1>3. Len(s) \in Nat /\ Len(t) \in Nat BY LenProperties
<1>4. shorter \in SUBSET Nat /\ shorter # {} BY <1>1, <1>2, <1>3
<1> HIDE DEF shorter
<1>5. \E k \in shorter : \A j \in shorter : k <= j
  BY <1>4, SmallestOfNaturals
<1>6. PICK longest \in common : \A other \in common :
                                   Len(s) - Len(longest) <= Len(s) - Len(other)
  BY <1>5 DEF shorter
<1>7. \A other \in common : Len(other) <= Len(longest)
  <2> SUFFICES ASSUME NEW other \in common PROVE Len(other) <= Len(longest) OBVIOUS
  <2>1. Len(other) \in Nat /\ Len(longest) \in Nat BY <1>2
  <2> QED BY <1>3, <1>6, <2>1
<1>8. LongestCommonPrefix({s, t}) \in common
  BY <1>6, <1>7 DEF LongestCommonPrefix, common
<1>9. PICK same : same = Len(LongestCommonPrefix({s, t})) OBVIOUS
<1>10. /\ same \in Nat /\ same <= Len(s) /\ same <= Len(t)
       /\ SubSeq(s, 1, same) = SubSeq(t, 1, same)
  BY <1>2, <1>8, <1>9
<1>11. same \in 0 .. Len(s) /\ same \in 0 .. Len(t) BY <1>3, <1>10
<1> QED BY <1>9, <1>10, <1>11

\* A list is a part at its start and the rest of it.
LEMMA RestOfList ==
  ASSUME NEW list \in Seq(Identifiers), NEW n \in 0 .. Len(list)
  PROVE  LET rest == SubSeq(list, n + 1, Len(list)) IN
         /\ rest \in Seq(Identifiers) /\ Len(list) - Len(rest) = n
         /\ SubSeq(list, 1, n) \o rest = list
<1> DEFINE rest == SubSeq(list, n + 1, Len(list))
<1>1. Len(list) \in Nat BY LenProperties
<1>2. Len(rest) = Len(list) - n
  <2>1. \A i \in n + 1 .. Len(list) : list[i] \in Identifiers
    <3> SUFFICES ASSUME NEW i \in n + 1 .. Len(list) PROVE list[i] \in Identifiers OBVIOUS
    <3>1. i \in 1 .. Len(list) BY <1>1
    <3> QED BY <3>1, ElementOfSeq
  <2>2. n + 1 \in Int BY <1>1
  <2>3. Len(rest) = IF n + 1 <= Len(list) THEN Len(list) - (n + 1) + 1 ELSE 0
    BY <1>1, <2>1, <2>2, SubSeqProperties
  <2> QED BY <1>1, <2>3
<1>3. SubSeq(list, 1, n) \o rest = list
  <2>1. 1 \in 1 .. Len(list) + 1 /\ n \in 1 - 1 .. Len(list) /\ Len(list) \in n .. Len(list)
    BY <1>1
  <2>2. SubSeq(list, 1, n) \o rest = SubSeq(list, 1, Len(list))
    BY <2>1, ConcatAdjacentSubSeq
  <2> QED BY <2>2, SubSeqFull
<1>4. rest \in Seq(Identifiers) BY <1>1, PartOfList
<1> HIDE DEF rest
<1>5. Len(list) - Len(rest) = n BY <1>1, <1>2
<1> QED BY <1>3, <1>4, <1>5 DEF rest

-----------------------------------------------------------------------------
(* The chain *)

\* Contexts that are connected are left and others joined: lives follows connected.
LEMMA LivesFollow ==
  ASSUME NEW kept, NEW left \in SUBSET connected, NEW joined \in SUBSET Scopes,
         joined \cap (connected \ left) = {}, lives = Lives(connected),
         connected \subseteq Scopes, ConnectContexts(kept, left, joined)
  PROVE  lives' = Lives(connected')
<1>1. connected' = (connected \ left) \cup joined BY DEF ConnectContexts
<1>2. ASSUME NEW c \in Scopes PROVE lives'[c] = IF c \in connected' THEN 1 ELSE 0
  <2>1. lives'[c] = lives[c] + (IF c \in joined THEN 1 ELSE 0) - (IF c \in left THEN 1 ELSE 0)
    BY DEF ConnectContexts, Called
  <2>2. lives[c] = IF c \in connected THEN 1 ELSE 0 BY DEF Lives
  <2> QED BY <1>1, <2>1, <2>2
<1>3. lives' = [c \in Scopes |-> lives'[c]] BY DEF ConnectContexts, Called
<1> QED BY <1>2, <1>3 DEF Lives

\* Scopes that the router has are left and others joined.
LEMMA RouteKeeps ==
  ASSUME connected = {c \in scopes : c[2] \in modules}, connected \subseteq contexts,
         contexts \subseteq {c \in Scopes : c[2] \in modules},
         lives = Lives(connected), scopes \subseteq Scopes,
         NEW leave \in SUBSET scopes, NEW join \in SUBSET Scopes,
         join \cap (scopes \ leave) = {}, Route(leave, join), UNCHANGED modules
  PROVE  /\ connected' = {c \in scopes' : c[2] \in modules'}
         /\ connected' \subseteq contexts' /\ contexts' \subseteq {c \in Scopes : c[2] \in modules'}
         /\ lives' = Lives(connected')
<1> DEFINE left == {c \in leave : c[2] \in modules} \cap contexts
           joined == {c \in join : c[2] \in modules}
<1>1. scopes' = (scopes \ leave) \cup join /\ ConnectContexts(contexts, left, joined)
  BY DEF Route
<1>2. left = {c \in leave : c[2] \in modules} /\ left \subseteq connected OBVIOUS
<1>3. joined \subseteq Scopes /\ joined \cap (connected \ left) = {} BY <1>2
<1>4. contexts' = contexts \cup joined /\ connected' = (connected \ left) \cup joined
  BY <1>1 DEF ConnectContexts
<1>5. connected' = {c \in scopes' : c[2] \in modules'} BY <1>1, <1>2, <1>4
<1>6. /\ connected' \subseteq contexts'
      /\ contexts' \subseteq {c \in Scopes : c[2] \in modules'}
  BY <1>4
<1> HIDE DEF left, joined
<1>7. connected \subseteq Scopes OBVIOUS
<1>8. lives' = Lives(connected') BY <1>1, <1>2, <1>3, <1>7, LivesFollow
<1> QED BY <1>5, <1>6, <1>8

\* Whatever tokens go and come, the chain keeps its view: a scope is left when its count
\* falls to zero and joined when it rises from there.
LEMMA RematchKeeps ==
  ASSUME ChainInv, NEW gone \in TokenLists, NEW come \in TokenLists,
         \A e \in Elements :
           tokens[e] = SubSeq(tokens[e], 1, Len(tokens[e]) - Len(gone[e])) \o gone[e],
         Rematch(gone, come), UNCHANGED modules
  PROVE  tokens' \in TokenLists /\ refs' \in [Scopes -> Nat] /\ Routed' /\ Counted'
<1> DEFINE Stay(e) == SubSeq(tokens[e], 1, Len(tokens[e]) - Len(gone[e]))
<1>0. ASSUME NEW e \in Elements PROVE Stay(e) \in Seq(Identifiers)
  <2>1. tokens[e] \in Seq(Identifiers) /\ gone[e] \in Seq(Identifiers)
    BY DEF ChainInv, Typed, TokenLists
  <2>2. Len(tokens[e]) \in Nat /\ Len(gone[e]) \in Nat BY <2>1, LenProperties
  <2> QED BY <2>1, <2>2, PartOfList
<1>1. ASSUME NEW c \in Scopes PROVE Kept(c, gone) \in Nat /\ New(c, come) \in Nat
                                   /\ (refs[c] = 0 => Kept(c, gone) = 0)
  <2>1. c[1] \in Elements BY DEF Scopes
  <2>2. gone[c[1]] \in Seq(Identifiers) /\ come[c[1]] \in Seq(Identifiers)
    BY <2>1 DEF TokenLists
  <2>3. Occurrences(gone[c[1]], c[2]) \in Nat /\ Occurrences(come[c[1]], c[2]) \in Nat
    BY <2>2, OccurrencesNat
  <2>4. refs[c] \in Nat BY DEF ChainInv, Typed
  <2> QED BY <2>3, <2>4 DEF Kept, New
<1> DEFINE leave == {c \in Scopes : refs[c] > 0 /\ Kept(c, gone) = 0}
           join == {c \in Scopes : Kept(c, gone) = 0 /\ New(c, come) > 0}
<1>2. /\ refs' = [c \in Scopes |-> Kept(c, gone) + New(c, come)]
      /\ Route(leave, join) /\ tokens' = Retained(gone, come)
  BY DEF Rematch
<1>3. refs' \in [Scopes -> Nat] BY <1>1, <1>2
<1>4. tokens' \in TokenLists
  <2> SUFFICES ASSUME NEW e \in Elements PROVE Stay(e) \o come[e] \in Seq(Identifiers)
    BY <1>2 DEF Retained, TokenLists
  <2>1. come[e] \in Seq(Identifiers) BY DEF TokenLists
  <2> QED BY <1>0, <2>1, ConcatProperties
<1>5. scopes = {c \in Scopes : refs[c] > 0} BY DEF ChainInv, Routed
<1>6. leave \subseteq scopes /\ join \subseteq Scopes /\ scopes \subseteq Scopes BY <1>5
<1>7. join \cap (scopes \ leave) = {} BY <1>5
<1>8. scopes' = (scopes \ leave) \cup join BY <1>2 DEF Route
<1>9. scopes' = {c \in Scopes : refs'[c] > 0}
  <2>1. ASSUME NEW c \in Scopes PROVE c \in scopes' <=> refs'[c] > 0
    <3>1. refs'[c] = Kept(c, gone) + New(c, come) BY <1>2
    <3>2. refs[c] \in Nat BY DEF ChainInv, Typed
    <3> QED BY <1>1, <1>5, <1>8, <3>1, <3>2
  <2> QED BY <1>6, <1>8, <2>1
<1> HIDE DEF leave, join
<1>10. /\ connected' = {c \in scopes' : c[2] \in modules'}
       /\ connected' \subseteq contexts' /\ contexts' \subseteq {c \in Scopes : c[2] \in modules'}
       /\ lives' = Lives(connected')
  <2>1. /\ connected = {c \in scopes : c[2] \in modules} /\ connected \subseteq contexts
        /\ contexts \subseteq {c \in Scopes : c[2] \in modules}
        /\ lives = Lives(connected)
    BY DEF ChainInv, Routed
  <2> QED BY <1>2, <1>6, <1>7, <2>1, RouteKeeps
<1>11. Counted'
  <2> SUFFICES ASSUME NEW c \in Scopes PROVE refs'[c] = Occurrences(tokens'[c[1]], c[2])
    BY DEF Counted
  <2> DEFINE e == c[1]
  <2>1. e \in Elements BY DEF Scopes
  <2>2. gone[e] \in Seq(Identifiers) /\ come[e] \in Seq(Identifiers) /\ Stay(e) \in Seq(Identifiers)
    BY <1>0, <2>1 DEF TokenLists
  <2>3. tokens'[e] = Stay(e) \o come[e] BY <1>2, <2>1 DEF Retained
  <2>4. tokens[e] = Stay(e) \o gone[e] BY <2>1
  <2> HIDE DEF Stay
  <2>5. /\ Occurrences(tokens'[e], c[2]) = Occurrences(Stay(e), c[2]) + Occurrences(come[e], c[2])
        /\ Occurrences(tokens[e], c[2]) = Occurrences(Stay(e), c[2]) + Occurrences(gone[e], c[2])
    BY <2>2, <2>3, <2>4, OccurrencesConcat
  <2>6. refs[c] = Occurrences(tokens[e], c[2]) BY DEF ChainInv, Counted
  <2>7. /\ Occurrences(Stay(e), c[2]) \in Nat /\ Occurrences(gone[e], c[2]) \in Nat
        /\ Occurrences(come[e], c[2]) \in Nat
    BY <2>2, OccurrencesNat
  <2>8. Kept(c, gone) = Occurrences(Stay(e), c[2]) BY <2>5, <2>6, <2>7 DEF Kept
  <2> QED BY <1>2, <2>5, <2>8 DEF New
<1> QED BY <1>3, <1>4, <1>9, <1>10, <1>11 DEF Routed

\* The elements out lose their tokens, and those in, which have the attribute, get them.
LEMMA ReplaceKeeps ==
  ASSUME ChainInv, NEW out, NEW in \in SUBSET Elements, \A e \in in : attr[e] # None,
         Replace(out, in), UNCHANGED modules
  PROVE  tokens' \in TokenLists /\ refs' \in [Scopes -> Nat] /\ Routed' /\ Counted' /\ Bare'
<1> DEFINE gone == [e \in Elements |-> IF e \in out THEN tokens[e] ELSE <<>>]
           come == [e \in Elements |-> IF e \in in THEN attr[e] ELSE <<>>]
<1>1. <<>> \in Seq(Identifiers) /\ Len(<<>>) = 0 BY EmptySeq
<1>2. \A e \in Elements : tokens[e] \in Seq(Identifiers) BY DEF ChainInv, Typed, TokenLists
<1>3. \A e \in in : attr[e] \in Seq(Identifiers) BY DEF ChainInv, Typed
<1>4. gone \in TokenLists /\ come \in TokenLists BY <1>1, <1>2, <1>3 DEF TokenLists
<1>5. Rematch(gone, come) /\ elements' = (elements \ out) \cup in BY DEF Replace
<1>6. ASSUME NEW e \in Elements
      PROVE  /\ gone[e] = IF e \in out THEN tokens[e] ELSE <<>>
             /\ e \notin in => come[e] = <<>>
  OBVIOUS
<1> HIDE DEF gone, come
<1>7. ASSUME NEW e \in Elements
      PROVE  tokens[e] = SubSeq(tokens[e], 1, Len(tokens[e]) - Len(gone[e])) \o gone[e]
  <2>1. Len(tokens[e]) \in Nat BY <1>2, LenProperties
  <2>2. CASE gone[e] = tokens[e]
    <3>1. SubSeq(tokens[e], 1, 0) = <<>> BY SubSeqEmpty
    <3>2. <<>> \o tokens[e] = tokens[e] BY <1>2, ConcatEmptySeq
    <3>3. Len(tokens[e]) - Len(gone[e]) = 0 BY <2>1, <2>2
    <3> QED BY <2>2, <3>1, <3>2, <3>3
  <2>3. CASE gone[e] = <<>>
    <3>1. SubSeq(tokens[e], 1, Len(tokens[e])) = tokens[e] BY <1>2, SubSeqFull
    <3>2. tokens[e] \o <<>> = tokens[e] BY <1>2, ConcatEmptySeq
    <3>3. Len(tokens[e]) - Len(gone[e]) = Len(tokens[e]) BY <1>1, <2>1, <2>3
    <3> QED BY <2>3, <3>1, <3>2, <3>3
  <2> QED BY <1>6, <2>2, <2>3
<1>8. Bare'
  <2> SUFFICES ASSUME NEW e \in Elements \ elements' PROVE tokens'[e] = <<>>
    BY DEF Bare
  <2>1. come[e] = <<>> BY <1>5, <1>6
  <2>2. tokens[e] = gone[e]
    <3>1. e \in out \/ tokens[e] = <<>> BY <1>5 DEF ChainInv, Bare
    <3> QED BY <1>6, <3>1
  <2>3. Len(tokens[e]) \in Nat /\ Len(tokens[e]) - Len(gone[e]) = 0
    BY <1>2, <2>2, LenProperties
  <2>4. SubSeq(tokens[e], 1, 0) = <<>> BY SubSeqEmpty
  <2>5. tokens'[e] = SubSeq(tokens[e], 1, Len(tokens[e]) - Len(gone[e])) \o come[e]
    BY <1>5 DEF Rematch, Retained
  <2>6. <<>> \o <<>> = <<>> BY <1>1, ConcatEmptySeq
  <2> QED BY <2>1, <2>3, <2>4, <2>5, <2>6
<1> QED BY <1>4, <1>5, <1>7, <1>8, RematchKeeps

\* The tokens from the first that differs are replaced.
LEMMA RefreshKeeps ==
  ASSUME ChainInv, NEW e \in Elements, e \in elements, attr[e] # None, RefreshTokens(e),
         UNCHANGED modules
  PROVE  /\ tokens' \in TokenLists /\ refs' \in [Scopes -> Nat]
         /\ Routed' /\ Counted' /\ Bare'
         /\ tokens'[e] = attr[e] /\ \A x \in Elements \ {e} : tokens'[x] = tokens[x]
<1> DEFINE same == Len(LongestCommonPrefix({tokens[e], attr[e]}))
           Rest(list) == [NoTokens EXCEPT ![e] = SubSeq(list, same + 1, Len(list))]
<1>1. <<>> \in Seq(Identifiers) /\ Len(<<>>) = 0 BY EmptySeq
<1>2. \A x \in Elements : tokens[x] \in Seq(Identifiers) BY DEF ChainInv, Typed, TokenLists
<1>3. attr[e] \in Seq(Identifiers) BY DEF ChainInv, Typed
<1>4. Rematch(Rest(tokens[e]), Rest(attr[e])) BY DEF RefreshTokens
<1>5. /\ same \in 0 .. Len(tokens[e]) /\ Len(tokens[e]) \in Nat /\ same \in 0 .. Len(attr[e])
      /\ SubSeq(tokens[e], 1, same) = SubSeq(attr[e], 1, same)
  BY LenProperties, <1>2, <1>3, CommonPrefix
<1> HIDE DEF same
<1>6. ASSUME NEW list \in Seq(Identifiers)
      PROVE  /\ Rest(list) \in TokenLists
             /\ Rest(list)[e] = SubSeq(list, same + 1, Len(list))
             /\ \A x \in Elements \ {e} : Rest(list)[x] = <<>>
  <2>1. Len(list) \in Nat BY LenProperties
  <2>2. SubSeq(list, same + 1, Len(list)) \in Seq(Identifiers)
    BY <1>5, <2>1, PartOfList
  <2>3. NoTokens \in TokenLists BY <1>1 DEF NoTokens, TokenLists
  <2>4. Rest(list)[e] = SubSeq(list, same + 1, Len(list)) BY <2>3 DEF TokenLists
  <2>5. \A x \in Elements \ {e} : Rest(list)[x] = <<>> BY DEF NoTokens
  <2>6. Rest(list) \in TokenLists BY <2>2, <2>3 DEF TokenLists
  <2> QED BY <2>4, <2>5, <2>6
<1> HIDE DEF Rest
<1>7. ASSUME NEW x \in Elements
      PROVE  tokens[x] = SubSeq(tokens[x], 1, Len(tokens[x]) - Len(Rest(tokens[e])[x]))
                           \o Rest(tokens[e])[x]
  <2>1. Len(tokens[x]) \in Nat BY <1>2, LenProperties
  <2>2. CASE x = e
    <3> DEFINE rest == SubSeq(tokens[e], same + 1, Len(tokens[e]))
    <3>1. Rest(tokens[e])[e] = rest BY <1>2, <1>6
    <3>2. Len(tokens[e]) - Len(rest) = same /\ SubSeq(tokens[e], 1, same) \o rest = tokens[e]
      BY <1>2, <1>5, RestOfList
    <3> HIDE DEF rest
    <3> QED BY <2>2, <3>1, <3>2
  <2>3. CASE x # e
    <3>1. Rest(tokens[e])[x] = <<>> BY <1>2, <1>6, <2>3
    <3>2. SubSeq(tokens[x], 1, Len(tokens[x])) = tokens[x] BY <1>2, SubSeqFull
    <3>3. tokens[x] \o <<>> = tokens[x] BY <1>2, ConcatEmptySeq
    <3>4. Len(tokens[x]) - Len(<<>>) = Len(tokens[x]) BY <1>1, <2>1
    <3> QED BY <3>1, <3>2, <3>3, <3>4
  <2> QED BY <2>2, <2>3
<1>8. Rest(tokens[e]) \in TokenLists /\ Rest(attr[e]) \in TokenLists
  BY <1>2, <1>3, <1>6
<1>9. Bare'
  <2> SUFFICES ASSUME NEW x \in Elements \ elements' PROVE tokens'[x] = <<>>
    BY DEF Bare
  <2>1. x # e /\ tokens[x] = <<>> BY DEF RefreshTokens, ChainInv, Bare
  <2>2. Rest(tokens[e])[x] = <<>> /\ Rest(attr[e])[x] = <<>> BY <1>2, <1>3, <1>6, <2>1
  <2>3. tokens'[x] = SubSeq(tokens[x], 1, Len(tokens[x]) - Len(Rest(tokens[e])[x]))
                       \o Rest(attr[e])[x]
    BY <1>4 DEF Rematch, Retained
  <2>4. SubSeq(<<>>, 1, 0) = <<>> /\ <<>> \o <<>> = <<>> BY <1>1, SubSeqEmpty, ConcatEmptySeq
  <2>5. Len(tokens[x]) - Len(Rest(tokens[e])[x]) = 0 BY <1>1, <2>1, <2>2
  <2> QED BY <2>1, <2>2, <2>3, <2>4, <2>5
<1>10. ASSUME NEW x \in Elements
       PROVE  tokens'[x] = SubSeq(tokens[x], 1, Len(tokens[x]) - Len(Rest(tokens[e])[x]))
                             \o Rest(attr[e])[x]
  BY <1>4 DEF Rematch, Retained
<1>11. tokens'[e] = attr[e]
  <2> DEFINE rest == SubSeq(tokens[e], same + 1, Len(tokens[e]))
             new == SubSeq(attr[e], same + 1, Len(attr[e]))
  <2>1. Rest(tokens[e])[e] = rest /\ Rest(attr[e])[e] = new BY <1>2, <1>3, <1>6
  <2>2. Len(tokens[e]) - Len(rest) = same BY <1>2, <1>5, RestOfList
  <2>3. SubSeq(attr[e], 1, same) \o new = attr[e] BY <1>3, <1>5, RestOfList
  <2> HIDE DEF rest, new
  <2> QED BY <1>5, <1>10, <2>1, <2>2, <2>3
<1>12. ASSUME NEW x \in Elements \ {e} PROVE tokens'[x] = tokens[x]
  <2>1. Rest(tokens[e])[x] = <<>> /\ Rest(attr[e])[x] = <<>> BY <1>2, <1>3, <1>6
  <2>2. tokens[x] = SubSeq(tokens[x], 1, Len(tokens[x]) - Len(Rest(tokens[e])[x]))
                      \o Rest(tokens[e])[x]
    BY <1>7
  <2> QED BY <1>10, <2>1, <2>2
<1> QED BY <1>4, <1>7, <1>8, <1>9, <1>11, <1>12, RematchKeeps

-----------------------------------------------------------------------------
(* The actions *)

\* A record is appended, or none.
LEMMA RecordedType ==
  ASSUME ChainInv, NEW node, NEW type \in {"attributes", "removed", "added"},
         NEW e \in Elements, Recorded(node, type, e), Script
  PROVE  records' \in Seq(Record)
<1>1. [type |-> type, element |-> e] \in Record BY DEF Record
<1>2. records \in Seq(Record) BY DEF ChainInv, Typed
<1>3. Append(records, [type |-> type, element |-> e]) \in Seq(Record)
  BY <1>1, <1>2, AppendProperties
<1> QED BY <1>2, <1>3 DEF Recorded

\* Scripts change the document and the records; the chain stays as it is.
LEMMA ScriptKeeps ==
  ASSUME ChainInv, NEW e \in Elements,
         SetAttribute(e) \/ RemoveNode(e) \/ \E node \in Nodes : InsertNode(e, node)
  PROVE  ChainInv'
<1>1. CASE SetAttribute(e)
  <2>1. PICK v \in (Values[e] \cup {None}) \ {attr[e]} : attr' = [attr EXCEPT ![e] = v]
    BY <1>1 DEF SetAttribute
  <2>2. v \in Seq(Identifiers) \cup {None} BY <2>1, StimulusAssumption
  <2>3. attr' \in [Elements -> Seq(Identifiers) \cup {None}]
    BY <2>1, <2>2 DEF ChainInv, Typed
  <2>4. records' \in Seq(Record) BY <1>1, RecordedType DEF SetAttribute
  <2>5. ~delivering' /\ UNCHANGED <<chain, modules>> BY <1>1 DEF SetAttribute, Script
  <2> QED BY <2>3, <2>4, <2>5 DEF ChainInv, Typed, Routed, Counted, Bare, chain
<1>2. CASE RemoveNode(e)
  <2>1. records' \in Seq(Record) BY <1>2, RecordedType DEF RemoveNode
  <2>2. ~delivering' /\ UNCHANGED <<attr, chain, modules>> BY <1>2 DEF RemoveNode, Script
  <2> QED BY <2>1, <2>2 DEF ChainInv, Typed, Routed, Counted, Bare, chain
<1>3. CASE \E node \in Nodes : InsertNode(e, node)
  <2>1. records' \in Seq(Record) BY <1>3, RecordedType DEF InsertNode
  <2>2. ~delivering' /\ UNCHANGED <<attr, chain, modules>> BY <1>3 DEF InsertNode, Script
  <2> QED BY <2>1, <2>2 DEF ChainInv, Typed, Routed, Counted, Bare, chain
<1> QED BY <1>1, <1>2, <1>3

\* A record is processed: it is there, and what it does to the chain keeps its view.
LEMMA ProcessKeeps ==
  ASSUME ChainInv, ProcessMutation
  PROVE  ChainInv'
<1>1. records \in Seq(Record) /\ records # <<>> BY DEF ChainInv, Typed, ProcessMutation
<1>2. Head(records) \in Record /\ Tail(records) \in Seq(Record) BY <1>1, HeadTailProperties
<1> DEFINE e == Head(records).element
<1>3. e \in Elements BY <1>2 DEF Record
<1>4. UNCHANGED <<attr, modules>> BY DEF ProcessMutation, dom
<1>5. tokens' \in TokenLists /\ refs' \in [Scopes -> Nat] /\ Routed' /\ Counted' /\ Bare'
  <2>1. CASE ProcessAttributeChange(e)
    <3>1. CASE e \in elements /\ attr[e] # None /\ RefreshTokens(e)
      BY <1>3, <1>4, <3>1, RefreshKeeps
    <3>2. CASE Replace({e}, {}) BY <1>4, <3>2, ReplaceKeeps
    <3>3. CASE attr[e] # None /\ Replace({}, {e} \cap {x \in Elements : InTree(x)})
      <4> DEFINE in == {e} \cap {x \in Elements : InTree(x)}
      <4>1. in \subseteq Elements /\ \A x \in in : attr[x] # None BY <3>3
      <4>2. Replace({}, in) BY <3>3
      <4> HIDE DEF in
      <4> QED BY <1>4, <4>1, <4>2, ReplaceKeeps
    <3>4. CASE UNCHANGED <<chain, missed>>
      BY <1>4, <3>4 DEF ChainInv, Typed, Routed, Counted, Bare, chain
    <3> QED BY <2>1, <3>1, <3>2, <3>3, <3>4 DEF ProcessAttributeChange
  <2>2. CASE ProcessRemovedNode(e) BY <1>4, <2>2, ReplaceKeeps DEF ProcessRemovedNode
  <2>3. CASE ProcessAddedNode(e)
    <3> DEFINE in == IF InTree(e) THEN MatchElementsInTree(e) \ elements ELSE {}
    <3>1. in \subseteq Elements /\ \A x \in in : attr[x] # None BY DEF MatchElementsInTree
    <3>2. Replace({}, in) BY <2>3 DEF ProcessAddedNode
    <3> HIDE DEF in
    <3> QED BY <1>4, <3>1, <3>2, ReplaceKeeps
  <2> QED BY <2>1, <2>2, <2>3 DEF ProcessMutation
<1>6. records' \in Seq(Record) /\ (delivering' => records' # <<>>)
  BY <1>2 DEF ProcessMutation
<1> QED BY <1>4, <1>5, <1>6 DEF ChainInv, Typed

\* The application is started: the elements that match now replace those that do not.
LEMMA StartKeeps ==
  ASSUME ChainInv, Start
  PROVE  ChainInv'
<1> DEFINE matches == {e \in MatchElementsInTree(Root) : InTree(e)}
           in == matches \ elements
<1>1. in \subseteq Elements /\ \A e \in in : attr[e] # None BY DEF MatchElementsInTree
<1>2. Replace(elements \ matches, in) /\ UNCHANGED <<attr, records, delivering, modules>>
  BY DEF Start, dom
<1> HIDE DEF matches, in
<1>3. tokens' \in TokenLists /\ refs' \in [Scopes -> Nat] /\ Routed' /\ Counted' /\ Bare'
  BY <1>1, <1>2, ReplaceKeeps
<1> QED BY <1>2, <1>3 DEF ChainInv, Typed

\* The contexts of a module are disconnected before they are forgotten or connected anew.
LEMMA ModuleKeeps ==
  ASSUME ChainInv, NEW id \in Identifiers, NEW joined,
         ConnectContexts(Others(id), ScopesOf(id) \cap contexts, joined),
         \/ joined = ScopesOf(id) /\ modules' = modules \cup {id}
         \/ joined = {} /\ modules' = modules \ {id},
         UNCHANGED scopes
  PROVE  /\ modules' \subseteq Identifiers
         /\ connected' = {c \in scopes' : c[2] \in modules'}
         /\ connected' \subseteq contexts' /\ contexts' \subseteq {c \in Scopes : c[2] \in modules'}
         /\ lives' = Lives(connected')
<1> DEFINE left == ScopesOf(id) \cap contexts
<1>1. /\ scopes \subseteq Scopes /\ connected = {c \in scopes : c[2] \in modules}
      /\ connected \subseteq contexts /\ lives = Lives(connected)
      /\ (contexts \subseteq {c \in Scopes : c[2] \in modules}) /\ modules \subseteq Identifiers
  BY DEF ChainInv, Routed, Typed
<1>2. left \subseteq connected /\ connected \ left = {c \in connected : c[2] # id}
  BY <1>1 DEF ScopesOf
<1>3. joined \subseteq Scopes /\ joined \cap (connected \ left) = {}
  BY <1>1, <1>2 DEF ScopesOf
<1>4. contexts' = Others(id) \cup joined /\ connected' = (connected \ left) \cup joined
  BY DEF ConnectContexts
<1>5. connected' = {c \in scopes' : c[2] \in modules'}
  <2>1. CASE joined = ScopesOf(id) /\ modules' = modules \cup {id}
    BY <1>1, <1>2, <1>4, <2>1 DEF ScopesOf
  <2>2. CASE joined = {} /\ modules' = modules \ {id}
    BY <1>1, <1>2, <1>4, <2>2
  <2> QED BY <2>1, <2>2
<1>6. connected' \subseteq contexts' /\ contexts' \subseteq {c \in Scopes : c[2] \in modules'}
  BY <1>1, <1>2, <1>4 DEF Others, ScopesOf
<1>7. ConnectContexts(Others(id), left, joined) OBVIOUS
<1> HIDE DEF left
<1>8. connected \subseteq Scopes BY <1>1
<1>9. lives' = Lives(connected') BY <1>1, <1>2, <1>3, <1>7, <1>8, LivesFollow
<1> QED BY <1>1, <1>5, <1>6, <1>9

-----------------------------------------------------------------------------
(* Theorems *)

\* The chain begins empty.
LEMMA InitChainInv == Init => ChainInv
<1> SUFFICES ASSUME Init PROVE ChainInv OBVIOUS
<1>1. attr \in [Elements -> Seq(Identifiers) \cup {None}] BY DEF Init
<1>2. records \in Seq(Record) /\ (delivering => records # <<>>) BY EmptySeq DEF Init
<1>3. tokens \in TokenLists BY EmptySeq DEF Init, NoTokens, TokenLists
<1>4. refs \in [Scopes -> Nat] /\ modules \subseteq Identifiers BY DEF Init
<1>5. Routed BY DEF Init, Routed, Lives
<1>6. Counted
  <2>1. \A id : Occurrences(<<>>, id) = 0 BY FS_EmptySet DEF Occurrences
  <2> QED BY <2>1 DEF Init, NoTokens, Counted, Scopes
<1>7. Bare BY DEF Init, NoTokens, Bare
<1> QED BY <1>1, <1>2, <1>3, <1>4, <1>5, <1>6, <1>7 DEF ChainInv, Typed

\* Every step keeps the chain's view.
LEMMA NextChainInv == ChainInv /\ [Next]_vars => ChainInv'
<1> SUFFICES ASSUME ChainInv, [Next]_vars PROVE ChainInv' OBVIOUS
<1>1. CASE \E e \in Elements :
             SetAttribute(e) \/ RemoveNode(e) \/ \E node \in Nodes : InsertNode(e, node)
  BY <1>1, ScriptKeeps
<1>2. CASE Deliver
  <2>1. records # <<>> /\ UNCHANGED <<dom, records, chain, modules>> BY <1>2 DEF Deliver
  <2> QED BY <2>1 DEF ChainInv, Typed, Routed, Counted, Bare, chain, dom
<1>3. CASE ProcessMutation BY <1>3, ProcessKeeps
<1>4. CASE Start BY <1>4, StartKeeps
<1>5. CASE Stop
  <2>1. ~delivering' /\ records' = <<>> /\ UNCHANGED <<dom, chain, modules>>
    BY <1>5 DEF Stop, Script
  <2>2. records' \in Seq(Record) BY <2>1, EmptySeq
  <2> QED BY <2>1, <2>2 DEF ChainInv, Typed, Routed, Counted, Bare, chain, dom
<1>6. ASSUME NEW id \in Identifiers, Register(id) \/ Unload(id) PROVE ChainInv'
  <2>1. UNCHANGED <<dom, observer, elements, tokens, refs, scopes>>
    BY <1>6 DEF Register, Unload
  <2>2. /\ modules' \subseteq Identifiers
        /\ connected' = {c \in scopes' : c[2] \in modules'}
        /\ connected' \subseteq contexts' /\ contexts' \subseteq {c \in Scopes : c[2] \in modules'}
        /\ lives' = Lives(connected')
    BY <1>6, <2>1, ModuleKeeps DEF Register, Unload
  <2> QED BY <2>1, <2>2 DEF ChainInv, Typed, Routed, Counted, Bare, dom, observer
<1>7. CASE UNCHANGED vars
  BY <1>7 DEF ChainInv, Typed, Routed, Counted, Bare, vars, dom, observer, chain
<1> QED BY <1>1, <1>2, <1>3, <1>4, <1>5, <1>6, <1>7 DEF Next

\* The invariant: ScopeObserver counts what the TokenListObserver stores, the router has
\* what is counted, and the modules connect what the router has.
THEOREM ChainTrue == Spec => []ChainInv
<1> QED BY InitChainInv, NextChainInv, PTL DEF Spec

\* The counts are those of the tokens, the router has the scopes that are counted, and
\* connected are those of them whose identifier is registered: the observers and
\* Router.loadDefinition and unloadIdentifier keep to it, whatever scripts do.
THEOREM ChainCorrect == Spec => []ChainAgrees
<1>1. ChainInv => ChainAgrees BY DEF ChainInv, Routed, Counted, Bare, ChainAgrees
<1> QED BY <1>1, ChainTrue, PTL

\* connect and disconnect of a controller alternate, connect first (Context.connect and
\* disconnect, called by Module.connectContextForScope and disconnectContextForScope).
THEOREM ConnectCorrect == Spec => []ConnectAlternates
<1>1. ChainInv => ConnectAlternates BY DEF ChainInv, Routed, Lives, ConnectAlternates
<1> QED BY <1>1, ChainTrue, PTL

-----------------------------------------------------------------------------
(* Controllers and document *)

\* The document, and which of its elements are known
DomTyped ==
  /\ parent \in [Elements -> Nodes \cup {None}]
  /\ \A e \in Elements : attr[e] \in Values[e] \cup {None}
  /\ transient \subseteq Elements
  /\ delivering \in BOOLEAN /\ started \in BOOLEAN
  /\ elements \subseteq Elements /\ missed \subseteq Elements

Is(record, type, e) == record.type = type /\ record.element = e

\* A record about an element or what it is in
Covers(record, type, e) == record.type = type /\ record.element \in Ancestors(e)

\* Nothing is observed until the application is started, a delivery ends what transient
\* is for, and until then what is in it has its record
Observing ==
  /\ ~started => records = <<>> /\ transient = {} /\ ~delivering
  /\ delivering => transient = {}
  /\ ~delivering => \A x \in transient : \E i \in 1 .. Len(records) : Is(records[i], "removed", x)

\* An element of the document with a removal that is pending was put back later
PutBack(e) ==
  InTree(e) => \A i \in 1 .. Len(records) : Covers(records[i], "removed", e) =>
                 \E j \in i + 1 .. Len(records) : Covers(records[j], "added", e)

\* An element that is to be added has a record that adds it
ToAdd(e) ==
  InTree(e) /\ attr[e] # None /\ e \notin elements =>
    \E i \in 1 .. Len(records) : \/ Covers(records[i], "added", e)
                                 \/ Is(records[i], "attributes", e)

\* An element that has left is observed until the delivery of a record that removes it
ToRemove(e) ==
  e \in elements /\ ~InTree(e) =>
    IF delivering
    THEN attr[e] # None => \E i \in 1 .. Len(records) : Covers(records[i], "removed", e)
    ELSE Ancestors(e) \cap transient # {}

\* An element whose attribute is not the one that was read has a record of it
ToRefresh(e) ==
  e \in elements /\ (attr[e] = None \/ (e \notin missed /\ tokens[e] # attr[e])) =>
    \E i \in 1 .. Len(records) : Is(records[i], "attributes", e)

Pending(e) == PutBack(e) /\ ToAdd(e) /\ ToRemove(e) /\ ToRefresh(e)

\* What changed while nothing was observed
MissedAll ==
  ~started => \A e \in elements : attr[e] # None /\ tokens[e] # attr[e] => e \in missed

\* The invariant: what is pending brings controllers and document together.
SyncInv ==
  /\ ChainInv /\ DomTyped /\ Observing /\ MissedAll
  /\ started => \A e \in Elements : Pending(e)
\* Ancestors for any parents, to compare those of two states
Above(up, node) ==
  {x \in Nodes : \A S \in SUBSET Nodes :
     node \in S /\ (\A e \in S \cap Elements : up[e] \in S \cup {None}) => x \in S}

\* The ancestors are what is above a node in a state and in the next.
LEMMA AncestorsAbove ==
  \A node : Ancestors(node) = Above(parent, node) /\ Ancestors(node)' = Above(parent', node)
BY DEF Ancestors, Above

Parents == [Elements -> Nodes \cup {None}]

\* The nodes above a node have it, and with an element its parent.
LEMMA AboveClosed ==
  ASSUME NEW up \in Parents, NEW node \in Nodes
  PROVE  /\ node \in Above(up, node) /\ Above(up, node) \in SUBSET Nodes
         /\ \A e \in Above(up, node) \cap Elements : up[e] \in Above(up, node) \cup {None}
<1>1. ASSUME NEW e \in Above(up, node) \cap Elements, up[e] # None
      PROVE  up[e] \in Above(up, node)
  <2>1. up[e] \in Nodes BY <1>1 DEF Parents
  <2>2. ASSUME NEW S \in SUBSET Nodes, node \in S,
               \A x \in S \cap Elements : up[x] \in S \cup {None}
        PROVE  up[e] \in S
    BY <1>1, <2>2 DEF Above
  <2> QED BY <2>1, <2>2 DEF Above
<1> QED BY <1>1 DEF Above

\* They are the least such set.
LEMMA AboveLeast ==
  ASSUME NEW up, NEW node, NEW S \in SUBSET Nodes, node \in S,
         \A e \in S \cap Elements : up[e] \in S \cup {None}
  PROVE  Above(up, node) \subseteq S
BY DEF Above

\* Above the root is nothing else.
LEMMA AboveRoot ==
  ASSUME NEW up \in Parents
  PROVE  Above(up, Root) = {Root}
<1>1. Root \in Nodes /\ {Root} \in SUBSET Nodes /\ Root \notin Elements
  BY StimulusAssumption DEF Nodes
<1>2. Above(up, Root) \subseteq {Root}
  <2> DEFINE S == {Root}
  <2>1. S \in SUBSET Nodes /\ Root \in S /\ S \cap Elements = {} BY <1>1
  <2> HIDE DEF S
  <2>2. Above(up, Root) \subseteq S BY <2>1, AboveLeast
  <2> QED BY <2>2 DEF S
<1> QED BY <1>1, <1>2, AboveClosed

\* Above an element are its parent and what is above that.
LEMMA AboveStep ==
  ASSUME NEW up \in Parents, NEW e \in Elements
  PROVE  /\ up[e] = None => Above(up, e) = {e}
         /\ up[e] # None => Above(up, e) = {e} \cup Above(up, up[e])
<1>1. e \in Nodes BY DEF Nodes
<1>2. e \in Above(up, e) BY <1>1, AboveClosed
<1>3. CASE up[e] = None
  <2> DEFINE S == {e}
  <2>1. S \in SUBSET Nodes /\ e \in S /\ \A x \in S \cap Elements : up[x] \in S \cup {None}
    BY <1>1, <1>3
  <2> HIDE DEF S
  <2>2. Above(up, e) \subseteq S BY <2>1, AboveLeast
  <2> QED BY <1>2, <1>3, <2>2 DEF S
<1>4. CASE up[e] # None
  <2> DEFINE w == up[e]
             S == {e} \cup Above(up, w)
  <2>1. w \in Nodes BY <1>4 DEF Parents
  <2>2. /\ w \in Above(up, w) /\ Above(up, w) \in SUBSET Nodes
        /\ \A x \in Above(up, w) \cap Elements : up[x] \in Above(up, w) \cup {None}
    BY <2>1, AboveClosed
  <2>3. S \in SUBSET Nodes /\ \A x \in S \cap Elements : up[x] \in S \cup {None}
    BY <1>1, <2>2
  <2>4. Above(up, e) \subseteq S BY <2>3, AboveLeast
  <2>5. Above(up, w) \subseteq Above(up, e)
    <3>1. /\ Above(up, e) \in SUBSET Nodes /\ w \in Above(up, e)
          /\ \A x \in Above(up, e) \cap Elements : up[x] \in Above(up, e) \cup {None}
      BY <1>1, <1>2, <1>4, AboveClosed
    <3> QED BY <3>1, AboveLeast
  <2> QED BY <1>2, <1>4, <2>4, <2>5
<1> QED BY <1>3, <1>4

\* What is above a node above is above.
LEMMA AboveTransitive ==
  ASSUME NEW up \in Parents, NEW e \in Nodes, NEW x \in Above(up, e)
  PROVE  Above(up, x) \subseteq Above(up, e)
<1>1. /\ Above(up, e) \in SUBSET Nodes
      /\ \A y \in Above(up, e) \cap Elements : up[y] \in Above(up, e) \cup {None}
  BY AboveClosed
<1> QED BY <1>1, AboveLeast

\* Everything above a node of the document is in the document.
LEMMA AboveRooted ==
  ASSUME NEW up \in Parents, NEW e \in Nodes, Root \in Above(up, e), NEW x \in Above(up, e)
  PROVE  Root \in Above(up, x)
<1> DEFINE S == {z \in Above(up, e) : Root \in Above(up, z)}
<1>1. /\ e \in Above(up, e) /\ Above(up, e) \in SUBSET Nodes
      /\ \A y \in Above(up, e) \cap Elements : up[y] \in Above(up, e) \cup {None}
  BY AboveClosed
<1>2. ASSUME NEW z \in S \cap Elements PROVE up[z] \in S
  <2>1. Root # z /\ Root \in Above(up, z) BY StimulusAssumption
  <2>2. up[z] # None BY <2>1, AboveStep
  <2>3. Root \in Above(up, up[z]) BY <2>1, <2>2, AboveStep
  <2> QED BY <1>1, <2>2, <2>3
<1>3. S \in SUBSET Nodes /\ e \in S BY <1>1
<1>4. Above(up, e) \subseteq S BY <1>2, <1>3, AboveLeast
<1> QED BY <1>4

\* An element is taken from its parent: what was below it is not in the document.
LEMMA AboveRemoved ==
  ASSUME NEW up \in Parents, NEW z \in Elements, up[z] # None, NEW e \in Nodes
  PROVE  LET down == [up EXCEPT ![z] = None] IN
         /\ z \notin Above(up, e) => Above(down, e) = Above(up, e)
         /\ z \in Above(up, e) =>
              /\ z \in Above(down, e) /\ Root \notin Above(down, e)
              /\ Above(up, e) \subseteq Above(down, e) \cup Above(up, up[z])
<1> DEFINE down == [up EXCEPT ![z] = None]
<1>1. down \in Parents /\ down[z] = None /\ \A x \in Elements \ {z} : down[x] = up[x]
  BY DEF Parents
<1> HIDE DEF down
<1>2. /\ e \in Above(up, e) /\ Above(up, e) \in SUBSET Nodes
      /\ \A y \in Above(up, e) \cap Elements : up[y] \in Above(up, e) \cup {None}
  BY AboveClosed
<1>3. /\ e \in Above(down, e) /\ Above(down, e) \in SUBSET Nodes
      /\ \A y \in Above(down, e) \cap Elements : down[y] \in Above(down, e) \cup {None}
  BY <1>1, AboveClosed
<1>4. Above(down, e) \subseteq Above(up, e) BY <1>1, <1>2, AboveLeast
<1>5. ASSUME z \notin Above(down, e) PROVE Above(up, e) \subseteq Above(down, e)
  BY <1>1, <1>3, <1>5, AboveLeast
<1>6. ASSUME z \in Above(up, e)
      PROVE  /\ z \in Above(down, e) /\ Root \notin Above(down, e)
             /\ Above(up, e) \subseteq Above(down, e) \cup Above(up, up[z])
  <2>1. z \in Above(down, e) BY <1>5, <1>6
  <2>2. Root \notin Above(down, e)
    <3>1. Above(down, z) = {z} /\ z # Root BY <1>1, AboveStep, StimulusAssumption
    <3> QED BY <1>1, <2>1, <3>1, AboveRooted
  <2>3. Above(up, e) \subseteq Above(down, e) \cup Above(up, up[z])
    <3> DEFINE w == up[z]
               S == Above(down, e) \cup Above(up, w)
    <3>1. w \in Nodes BY DEF Parents
    <3>2. /\ w \in Above(up, w) /\ Above(up, w) \in SUBSET Nodes
          /\ \A y \in Above(up, w) \cap Elements : up[y] \in Above(up, w) \cup {None}
      BY <3>1, AboveClosed
    <3>3. S \in SUBSET Nodes /\ e \in S BY <1>3, <3>2
    <3>4. \A y \in S \cap Elements : up[y] \in S \cup {None} BY <1>1, <1>3, <3>2
    <3> HIDE DEF S
    <3>5. Above(up, e) \subseteq S BY <3>3, <3>4, AboveLeast
    <3> QED BY <3>5 DEF S
  <2> QED BY <2>1, <2>2, <2>3
<1>7. z \notin Above(up, e) => Above(down, e) = Above(up, e) BY <1>4, <1>5
<1> QED BY <1>6, <1>7 DEF down

\* An element without parent is put into a node w: the document gets what was below it.
LEMMA AboveInserted ==
  ASSUME NEW up \in Parents, NEW z \in Elements, up[z] = None, NEW w \in Nodes,
         w \in Elements => z \notin Above(up, w), NEW e \in Nodes
  PROVE  LET down == [up EXCEPT ![z] = w] IN
         /\ z \notin Above(up, e) => Above(down, e) = Above(up, e)
         /\ Above(up, e) \subseteq Above(down, e)
         /\ z \in Above(up, e) => Root \notin Above(up, e)
         /\ Root \in Above(down, e) /\ Root \notin Above(up, e) =>
              z \in Above(up, e) /\ Root \in Above(up, w)
<1> DEFINE down == [up EXCEPT ![z] = w]
<1>1. down \in Parents /\ down[z] = w /\ \A x \in Elements \ {z} : down[x] = up[x]
  BY DEF Parents
<1> HIDE DEF down
<1>2. ASSUME NEW x \in Nodes PROVE Above(up, x) \subseteq Above(down, x)
  <2>1. /\ x \in Above(down, x) /\ Above(down, x) \in SUBSET Nodes
        /\ \A y \in Above(down, x) \cap Elements : down[y] \in Above(down, x) \cup {None}
    BY <1>1, AboveClosed
  <2> QED BY <1>1, <2>1, AboveLeast
<1>3. ASSUME NEW x \in Nodes, z \notin Above(up, x) PROVE Above(down, x) = Above(up, x)
  <2>1. /\ x \in Above(up, x) /\ Above(up, x) \in SUBSET Nodes
        /\ \A y \in Above(up, x) \cap Elements : up[y] \in Above(up, x) \cup {None}
    BY AboveClosed
  <2>2. Above(down, x) \subseteq Above(up, x) BY <1>1, <1>3, <2>1, AboveLeast
  <2> QED BY <1>2, <2>2
<1>4. z \in Above(up, e) => Root \notin Above(up, e)
  <2>1. Above(up, z) = {z} /\ z # Root BY AboveStep, StimulusAssumption
  <2> QED BY <2>1, AboveRooted
<1>5. ASSUME Root \in Above(down, e), Root \notin Above(up, e)
      PROVE  z \in Above(up, e) /\ Root \in Above(up, w)
  <2>1. z \in Above(up, e) BY <1>3, <1>5
  <2>2. z \in Above(down, e) BY <1>2, <2>1
  <2>3. Root \in Above(down, z) BY <1>1, <1>5, <2>2, AboveRooted
  <2>4. w # None /\ z # Root BY StimulusAssumption DEF Nodes
  <2>5. Root \in Above(down, w) BY <1>1, <2>3, <2>4, AboveStep
  <2>6. CASE w = Root
    <3>1. Above(up, Root) = {Root} BY AboveRoot
    <3> QED BY <2>1, <2>6, <3>1
  <2>7. CASE w # Root
    <3>1. w \in Elements BY <2>7 DEF Nodes
    <3>2. Above(down, w) = Above(up, w) BY <1>3, <3>1
    <3> QED BY <2>1, <2>5, <3>2
  <2> QED BY <2>1, <2>6, <2>7
<1> QED BY <1>2, <1>3, <1>4, <1>5 DEF down
-----------------------------------------------------------------------------
(* Scripts and records *)

\* What was recorded stays recorded.
Appends ==
  /\ Len(records) \in Nat /\ Len(records') \in Nat /\ Len(records) <= Len(records')
  /\ \A i \in 1 .. Len(records) : records'[i] = records[i]

\* A script appends a record of what it does, if that is observed.
LEMMA RecordedAppends ==
  ASSUME SyncInv, NEW node, NEW type \in {"attributes", "removed", "added"}, NEW e \in Elements,
         Recorded(node, type, e)
  PROVE  /\ Appends
         /\ \A i \in Len(records) + 1 .. Len(records') : Is(records'[i], type, e)
         /\ Observed(node) => Len(records) + 1 \in 1 .. Len(records')
         /\ ~Observed(node) => records' = records
<1>1. records \in Seq(Record) BY DEF SyncInv, ChainInv, Typed
<1>2. Len(records) \in Nat BY <1>1, LenProperties
<1> DEFINE r == [type |-> type, element |-> e]
<1>3. r \in Record /\ Is(r, type, e) BY DEF Record, Is
<1>4. CASE Observed(node)
  <2>1. records' = Append(records, r) BY <1>4 DEF Recorded
  <2>2. /\ Len(records') = Len(records) + 1 /\ records'[Len(records) + 1] = r
        /\ \A i \in 1 .. Len(records) : records'[i] = records[i]
    BY <1>1, <1>3, <2>1, AppendProperties
  <2> HIDE DEF r
  <2>3. Appends /\ Len(records) + 1 \in 1 .. Len(records') BY <1>2, <2>2 DEF Appends
  <2>4. \A i \in Len(records) + 1 .. Len(records') : i = Len(records) + 1 BY <1>2, <2>2
  <2> QED BY <1>3, <1>4, <2>2, <2>3, <2>4
<1>5. CASE ~Observed(node)
  <2>1. records' = records BY <1>5 DEF Recorded
  <2> QED BY <1>2, <1>5, <2>1 DEF Appends
<1> QED BY <1>4, <1>5

\* The rest of what a script keeps, beside what is pending
LEMMA ObservingKept ==
  ASSUME SyncInv, Script, Appends, UNCHANGED <<delivering, started>>,
         ~started => records' = records /\ transient' = transient,
         \A x \in transient' : x \in transient \/ \E i \in 1 .. Len(records') :
                                                    Is(records'[i], "removed", x)
  PROVE  Observing'
<1>1. ~delivering /\ ~delivering' BY DEF Script
<1>2. \A x \in transient' : \E i \in 1 .. Len(records') : Is(records'[i], "removed", x)
  <2> SUFFICES ASSUME NEW x \in transient
               PROVE  \E i \in 1 .. Len(records') : Is(records'[i], "removed", x)
    OBVIOUS
  <2>1. PICK i \in 1 .. Len(records) : Is(records[i], "removed", x)
    BY <1>1 DEF SyncInv, Observing
  <2>2. i \in 1 .. Len(records') /\ records'[i] = records[i] BY DEF Appends
  <2> QED BY <2>1, <2>2
<1> QED BY <1>1, <1>2 DEF SyncInv, Observing

\* An element whose ancestors stay the same
LEMMA PutBackKept ==
  ASSUME SyncInv, started, Appends, NEW e \in Elements, Ancestors(e)' = Ancestors(e),
         \A i \in Len(records) + 1 .. Len(records') : ~Covers(records'[i], "removed", e)
  PROVE  PutBack(e)'
<1> SUFFICES ASSUME InTree(e)', NEW i \in 1 .. Len(records'), Covers(records[i], "removed", e)'
             PROVE  \E j \in i + 1 .. Len(records') : Covers(records[j], "added", e)'
  BY DEF PutBack
<1>1. InTree(e) BY DEF InTree
<1>2. Covers(records'[i], "removed", e) BY DEF Covers
<1>3. Len(records) \in Nat /\ Len(records') \in Nat BY DEF Appends
<1>4. i \in 1 .. Len(records) BY <1>2, <1>3
<1>5. Covers(records[i], "removed", e) BY <1>2, <1>4 DEF Appends
<1>6. PICK j \in i + 1 .. Len(records) : Covers(records[j], "added", e)
  BY <1>1, <1>4, <1>5 DEF SyncInv, Pending, PutBack
<1>7. j \in 1 .. Len(records) /\ j \in i + 1 .. Len(records') BY <1>3, <1>4 DEF Appends
<1>8. records'[j] = records[j] BY <1>7 DEF Appends
<1>9. Covers(records[j], "added", e)' BY <1>6, <1>8 DEF Covers
<1> QED BY <1>7, <1>9

\* A record that adds the element is still there.
LEMMA ToAddKept ==
  ASSUME SyncInv, started, Appends, NEW e \in Elements, Ancestors(e)' = Ancestors(e),
         attr'[e] # None => attr[e] # None, UNCHANGED elements
  PROVE  ToAdd(e)'
<1> SUFFICES ASSUME InTree(e)', attr'[e] # None, e \notin elements
             PROVE  (\E i \in 1 .. Len(records) : \/ Covers(records[i], "added", e)
                                                  \/ Is(records[i], "attributes", e))'
  BY DEF ToAdd
<1>1. InTree(e) BY DEF InTree
<1>2. PICK i \in 1 .. Len(records) : \/ Covers(records[i], "added", e)
                                     \/ Is(records[i], "attributes", e)
  BY <1>1 DEF SyncInv, Pending, ToAdd
<1>3. i \in 1 .. Len(records') /\ records'[i] = records[i] BY DEF Appends
<1>4. Covers(records[i], "added", e)' \/ Is(records[i], "attributes", e)'
  BY <1>2, <1>3 DEF Covers, Is
<1> QED BY <1>3, <1>4

\* A record of its attribute is still there.
LEMMA ToRefreshKept ==
  ASSUME SyncInv, started, Appends, NEW e \in Elements,
         attr'[e] = attr[e], UNCHANGED <<elements, tokens, missed>>
  PROVE  ToRefresh(e)'
<1> SUFFICES ASSUME e \in elements, attr[e] = None \/ (e \notin missed /\ tokens[e] # attr[e])
             PROVE  \E i \in 1 .. Len(records') : Is(records'[i], "attributes", e)
  BY DEF ToRefresh
<1>1. PICK i \in 1 .. Len(records) : Is(records[i], "attributes", e)
  BY DEF SyncInv, Pending, ToRefresh
<1>2. i \in 1 .. Len(records') /\ records'[i] = records[i] BY DEF Appends
<1> QED BY <1>1, <1>2

\* What is outside of the document and known is observed.
LEMMA KnownIsObserved ==
  ASSUME SyncInv, started, Script, NEW e \in elements
  PROVE  Observed(e)
BY DEF SyncInv, DomTyped, Pending, ToRemove, Script, Observed

\* A change of an attribute that matters is recorded.
LEMMA SetAttributeSyncs ==
  ASSUME SyncInv, NEW x \in Elements, SetAttribute(x)
  PROVE  SyncInv'
<1>1. PICK v \in (Values[x] \cup {None}) \ {attr[x]} : attr' = [attr EXCEPT ![x] = v]
  BY DEF SetAttribute
<1>2. /\ attr'[x] = v /\ \A e \in Elements \ {x} : attr'[e] = attr[e]
  BY <1>1 DEF SyncInv, ChainInv, Typed
<1>3. /\ Script /\ Recorded(x, "attributes", x)
      /\ missed' = IF started THEN missed ELSE missed \cup ({x} \cap elements)
      /\ UNCHANGED <<parent, transient, delivering, started, elements, tokens>>
  BY DEF SetAttribute, chain
<1>4. ChainInv' BY ScriptKeeps DEF SyncInv
<1>5. /\ Appends
      /\ \A i \in Len(records) + 1 .. Len(records') : Is(records'[i], "attributes", x)
      /\ Observed(x) => Len(records) + 1 \in 1 .. Len(records')
      /\ ~Observed(x) => records' = records
  BY <1>3, RecordedAppends
<1>6. \A e : Ancestors(e)' = Ancestors(e) BY <1>3, AncestorsAbove
<1>7. DomTyped' BY <1>2, <1>3 DEF SyncInv, DomTyped
<1>8. Observing' BY <1>3, <1>5, ObservingKept DEF Observed
<1>9. MissedAll'
  <2>1. elements \subseteq Elements BY DEF SyncInv, DomTyped
  <2> QED BY <1>2, <1>3, <2>1 DEF SyncInv, MissedAll
<1>10. ASSUME started, NEW e \in Elements PROVE Pending(e)'
  <2>1. PutBack(e)'
    <3>1. \A i \in Len(records) + 1 .. Len(records') : ~Covers(records'[i], "removed", e)
      BY <1>5 DEF Is, Covers
    <3> QED BY <1>5, <1>6, <1>10, <3>1, PutBackKept
  <2>2. ASSUME Observed(x) PROVE \E i \in 1 .. Len(records') : Is(records'[i], "attributes", x)
    <3>1. Len(records) + 1 \in Len(records) + 1 .. Len(records')
      BY <1>5, <2>2 DEF Appends
    <3> QED BY <1>5, <2>2, <3>1
  <2>3. ToAdd(e)'
    <3>1. CASE e # x BY <1>2, <1>3, <1>5, <1>6, <1>10, <3>1, ToAddKept
    <3>2. CASE e = x
      <4>1. InTree(x)' => Observed(x) BY <1>6, <1>10 DEF InTree, Observed
      <4>2. InTree(x)' => (\E i \in 1 .. Len(records) : Is(records[i], "attributes", x))'
        BY <2>2, <4>1
      <4> QED BY <3>2, <4>2 DEF ToAdd
    <3> QED BY <3>1, <3>2
  <2>4. ToRemove(e)'
    <3>1. ~delivering BY <1>3 DEF Script
    <3>2. ToRemove(e) BY <1>10 DEF SyncInv, Pending
    <3> QED BY <1>3, <1>6, <3>1, <3>2 DEF ToRemove, InTree
  <2>5. ToRefresh(e)'
    <3>1. CASE e # x BY <1>2, <1>3, <1>5, <1>10, <3>1, ToRefreshKept
    <3>2. CASE e = x
      <4>1. x \in elements => Observed(x) BY <1>3, <1>10, KnownIsObserved
      <4> QED BY <1>3, <2>2, <3>2, <4>1 DEF ToRefresh
    <3> QED BY <3>1, <3>2
  <2> QED BY <2>1, <2>3, <2>4, <2>5 DEF Pending
<1> QED BY <1>3, <1>4, <1>7, <1>8, <1>9, <1>10 DEF SyncInv
\* What a move of an element leaves as it is
LEMMA MoveKeeps ==
  ASSUME SyncInv, Script, NEW z \in Elements, NEW w \in Nodes \cup {None},
         parent' = [parent EXCEPT ![z] = w],
         UNCHANGED <<attr, delivering, started, chain, modules, missed>>,
         transient' \subseteq Elements
  PROVE  /\ DomTyped' /\ MissedAll' /\ parent \in Parents /\ parent' \in Parents
         /\ UNCHANGED <<elements, tokens>>
<1>1. parent \in Parents BY DEF SyncInv, DomTyped, Parents
<1>2. parent' \in Parents BY <1>1 DEF Parents
<1>3. UNCHANGED <<elements, tokens>> BY DEF chain
<1>4. DomTyped' BY <1>2, <1>3 DEF SyncInv, DomTyped, Parents
<1>5. MissedAll' BY <1>3 DEF SyncInv, MissedAll
<1> QED BY <1>1, <1>2, <1>3, <1>4, <1>5

\* An element that leaves the document, or something that has left it, is transient.
LEMMA RemoveNodeSyncs ==
  ASSUME SyncInv, NEW z \in Elements, RemoveNode(z)
  PROVE  SyncInv'
<1> DEFINE w == parent[z]
<1>1. /\ Script /\ w # None /\ parent' = [parent EXCEPT ![z] = None]
      /\ Recorded(w, "removed", z)
      /\ transient' = IF Observed(w) THEN transient \cup {z} ELSE transient
      /\ UNCHANGED <<attr, delivering, started, chain, modules, missed>>
  BY DEF RemoveNode
<1>2. transient' \subseteq Elements BY <1>1 DEF SyncInv, DomTyped
<1>3. /\ DomTyped' /\ MissedAll' /\ parent \in Parents /\ parent' \in Parents
      /\ UNCHANGED <<elements, tokens>>
  BY <1>1, <1>2, MoveKeeps
<1>4. ChainInv' BY ScriptKeeps DEF SyncInv
<1>5. /\ Appends
      /\ \A i \in Len(records) + 1 .. Len(records') : Is(records'[i], "removed", z)
      /\ Observed(w) => Len(records) + 1 \in 1 .. Len(records')
      /\ ~Observed(w) => records' = records
  BY <1>1, RecordedAppends
<1>6. Observing'
  <2>1. Observed(w) => \E i \in 1 .. Len(records') : Is(records'[i], "removed", z)
    <3> SUFFICES ASSUME Observed(w)
                 PROVE  \E i \in 1 .. Len(records') : Is(records'[i], "removed", z)
      OBVIOUS
    <3>1. Len(records) + 1 \in Len(records) + 1 .. Len(records') BY <1>5 DEF Appends
    <3> QED BY <1>5, <3>1
  <2>2. \A x \in transient' : x \in transient \/ \E i \in 1 .. Len(records') :
                                                   Is(records'[i], "removed", x)
    BY <1>1, <2>1
  <2>3. ~started => records' = records /\ transient' = transient BY <1>1, <1>5 DEF Observed
  <2> QED BY <1>1, <1>5, <2>2, <2>3, ObservingKept
<1>7. ASSUME started, NEW e \in Elements PROVE Pending(e)'
  <2>1. e \in Nodes /\ z \in Nodes /\ w \in Nodes BY <1>1, <1>3 DEF Nodes, Parents
  <2> HIDE DEF w
  <2>2. /\ z \notin Ancestors(e) => Ancestors(e)' = Ancestors(e)
        /\ z \in Ancestors(e) => /\ z \in Ancestors(e)' /\ ~InTree(e)'
                                 /\ Ancestors(e) \subseteq Ancestors(e)' \cup Ancestors(w)
    <3>1. LET down == [parent EXCEPT ![z] = None] IN
          /\ z \notin Above(parent, e) => Above(down, e) = Above(parent, e)
          /\ z \in Above(parent, e) =>
               /\ z \in Above(down, e) /\ Root \notin Above(down, e)
               /\ Above(parent, e) \subseteq Above(down, e) \cup Above(parent, parent[z])
      BY <1>1, <1>3, <2>1, AboveRemoved DEF w
    <3> QED BY <1>1, <3>1, AncestorsAbove DEF InTree, w
  <2>3. ~delivering BY <1>1 DEF Script
  <2>4. PutBack(e)'
    <3>1. CASE z \in Ancestors(e) BY <2>2, <3>1 DEF PutBack
    <3>2. CASE z \notin Ancestors(e)
      <4>1. \A i \in Len(records) + 1 .. Len(records') : ~Covers(records'[i], "removed", e)
        BY <1>5, <3>2 DEF Is, Covers
      <4> QED BY <1>5, <1>7, <2>2, <3>2, <4>1, PutBackKept
    <3> QED BY <3>1, <3>2
  <2>5. ToAdd(e)'
    <3>1. CASE z \in Ancestors(e) BY <2>2, <3>1 DEF ToAdd
    <3>2. CASE z \notin Ancestors(e) BY <1>1, <1>3, <1>5, <1>7, <2>2, <3>2, ToAddKept
    <3> QED BY <3>1, <3>2
  <2>6. ToRefresh(e)' BY <1>1, <1>3, <1>5, <1>7, ToRefreshKept
  <2>7. ToRemove(e)'
    <3> SUFFICES ASSUME e \in elements, ~InTree(e)'
                 PROVE  Ancestors(e)' \cap transient' # {}
      BY <1>1, <1>3, <2>3 DEF ToRemove
    <3>1. CASE z \notin Ancestors(e)
      <4>1. ~InTree(e) BY <2>2, <3>1 DEF InTree
      <4>2. Ancestors(e) \cap transient # {}
        BY <1>7, <2>3, <4>1 DEF SyncInv, Pending, ToRemove
      <4> QED BY <1>1, <2>2, <3>1, <4>2
    <3>2. CASE z \in Ancestors(e) /\ InTree(e)
      <4>1. Root \in Above(parent, z)
        BY <1>3, <2>1, <3>2, AncestorsAbove, AboveRooted DEF InTree
      <4>2. z # Root BY StimulusAssumption
      <4>3. Root \in Above(parent, w) BY <1>1, <1>3, <4>1, <4>2, AboveStep DEF w
      <4>4. Observed(w) BY <1>7, <4>3, AncestorsAbove DEF Observed, InTree
      <4> QED BY <1>1, <2>2, <3>2, <4>4
    <3>3. CASE z \in Ancestors(e) /\ ~InTree(e)
      <4>1. PICK y \in transient : y \in Ancestors(e)
        BY <1>7, <2>3, <3>3 DEF SyncInv, Pending, ToRemove
      <4>2. CASE y \in Ancestors(e)' BY <1>1, <4>1, <4>2
      <4>3. CASE y \in Ancestors(w)
        <5>1. Observed(w) BY <1>7, <4>1, <4>3 DEF Observed
        <5> QED BY <1>1, <2>2, <3>3, <5>1
      <4> QED BY <2>2, <3>3, <4>1, <4>2, <4>3
    <3> QED BY <3>1, <3>2, <3>3
  <2> QED BY <2>4, <2>5, <2>6, <2>7 DEF Pending
<1> QED BY <1>1, <1>3, <1>4, <1>6, <1>7 DEF SyncInv

\* What comes into the document has a record of the element that was inserted.
LEMMA InsertNodeSyncs ==
  ASSUME SyncInv, NEW z \in Elements, NEW w \in Nodes, InsertNode(z, w)
  PROVE  SyncInv'
<1>1. /\ Script /\ parent[z] = None /\ parent' = [parent EXCEPT ![z] = w]
      /\ w \in Elements => z \notin Ancestors(w)
      /\ Recorded(w, "added", z)
      /\ UNCHANGED <<attr, transient, delivering, started, chain, modules, missed>>
  BY DEF InsertNode
<1>2. transient' \subseteq Elements BY <1>1 DEF SyncInv, DomTyped
<1>3. /\ DomTyped' /\ MissedAll' /\ parent \in Parents /\ parent' \in Parents
      /\ UNCHANGED <<elements, tokens>>
  BY <1>1, <1>2, MoveKeeps
<1>4. ChainInv' BY ScriptKeeps DEF SyncInv
<1>5. /\ Appends
      /\ \A i \in Len(records) + 1 .. Len(records') : Is(records'[i], "added", z)
      /\ Observed(w) => Len(records) + 1 \in 1 .. Len(records')
      /\ ~Observed(w) => records' = records
  BY <1>1, RecordedAppends
<1>6. Observing' BY <1>1, <1>5, ObservingKept DEF Observed
<1>7. ASSUME started, NEW e \in Elements PROVE Pending(e)'
  <2>1. e \in Nodes BY DEF Nodes
  <2>2. /\ z \notin Ancestors(e) => Ancestors(e)' = Ancestors(e)
        /\ Ancestors(e) \subseteq Ancestors(e)'
        /\ z \in Ancestors(e) => ~InTree(e)
        /\ InTree(e)' /\ ~InTree(e) => z \in Ancestors(e) /\ InTree(w)
    <3>1. LET down == [parent EXCEPT ![z] = w] IN
          /\ z \notin Above(parent, e) => Above(down, e) = Above(parent, e)
          /\ Above(parent, e) \subseteq Above(down, e)
          /\ z \in Above(parent, e) => Root \notin Above(parent, e)
          /\ Root \in Above(down, e) /\ Root \notin Above(parent, e) =>
               z \in Above(parent, e) /\ Root \in Above(parent, w)
      <4>1. w \in Elements => z \notin Above(parent, w) BY <1>1, AncestorsAbove
      <4> QED BY <1>1, <1>3, <2>1, <4>1, AboveInserted
    <3> QED BY <1>1, <3>1, AncestorsAbove DEF InTree
  <2>3. ~delivering BY <1>1 DEF Script
  <2>4. ASSUME InTree(e)', ~InTree(e)
        PROVE  \E j : /\ j = Len(records) + 1 /\ j \in 1 .. Len(records')
                      /\ Covers(records[j], "added", e)'
    <3>1. z \in Ancestors(e)' /\ Observed(w) BY <1>7, <2>2, <2>4 DEF Observed
    <3>2. PICK j : j = Len(records) + 1 OBVIOUS
    <3>3. j \in Len(records) + 1 .. Len(records') /\ j \in 1 .. Len(records')
      BY <1>5, <3>1, <3>2 DEF Appends
    <3>4. Is(records'[j], "added", z) BY <1>5, <3>3
    <3>5. Covers(records[j], "added", e)' BY <3>1, <3>4 DEF Is, Covers
    <3> QED BY <3>2, <3>3, <3>5
  <2>5. PutBack(e)'
    <3>1. CASE InTree(e)
      <4>1. \A i \in Len(records) + 1 .. Len(records') : ~Covers(records'[i], "removed", e)
        BY <1>5 DEF Is, Covers
      <4> QED BY <1>5, <1>7, <2>2, <3>1, <4>1, PutBackKept
    <3>2. CASE ~InTree(e)
      <4> SUFFICES ASSUME InTree(e)', NEW i \in 1 .. Len(records'),
                          Covers(records[i], "removed", e)'
                   PROVE  \E j \in i + 1 .. Len(records') : Covers(records[j], "added", e)'
        BY DEF PutBack
      <4>1. Len(records) \in Nat /\ Len(records') \in Nat BY <1>5 DEF Appends
      <4>2. i \notin Len(records) + 1 .. Len(records') BY <1>5 DEF Is, Covers
      <4>3. i < Len(records) + 1 BY <4>1, <4>2
      <4>4. PICK j : /\ j = Len(records) + 1 /\ j \in 1 .. Len(records')
                     /\ Covers(records[j], "added", e)'
        BY <2>4, <3>2
      <4>5. j \in i + 1 .. Len(records') BY <4>1, <4>3, <4>4
      <4> QED BY <4>4, <4>5
    <3> QED BY <3>1, <3>2
  <2>6. ToAdd(e)'
    <3>1. CASE InTree(e) BY <1>1, <1>3, <1>5, <1>7, <2>2, <3>1, ToAddKept
    <3>2. CASE ~InTree(e)
      <4>1. InTree(e)' => \E j \in 1 .. Len(records') : Covers(records[j], "added", e)'
        BY <2>4, <3>2
      <4> QED BY <4>1 DEF ToAdd
    <3> QED BY <3>1, <3>2
  <2>7. ToRefresh(e)' BY <1>1, <1>3, <1>5, <1>7, ToRefreshKept
  <2>8. ToRemove(e)'
    <3> SUFFICES ASSUME e \in elements, ~InTree(e)'
                 PROVE  Ancestors(e)' \cap transient' # {}
      BY <1>1, <1>3, <2>3 DEF ToRemove
    <3>1. ~InTree(e) BY <2>2 DEF InTree
    <3>2. Ancestors(e) \cap transient # {}
      BY <1>7, <2>3, <3>1 DEF SyncInv, Pending, ToRemove
    <3> QED BY <1>1, <2>2, <3>2
  <2> QED BY <2>5, <2>6, <2>7, <2>8 DEF Pending
<1> QED BY <1>1, <1>3, <1>4, <1>6, <1>7 DEF SyncInv
-----------------------------------------------------------------------------
(* The processing of records *)

\* The elements that come in have the tokens of their attribute; the others keep theirs.
LEMMA ReplaceReads ==
  ASSUME ChainInv, NEW out, NEW in \in SUBSET Elements, in \cap elements = {},
         \A e \in in : attr[e] # None, Replace(out, in)
  PROVE  /\ elements' = (elements \ out) \cup in /\ missed' = missed \ (out \cup in)
         /\ \A e \in in : tokens'[e] = attr[e]
         /\ \A e \in Elements \ (out \cup in) : tokens'[e] = tokens[e]
<1> DEFINE gone == [e \in Elements |-> IF e \in out THEN tokens[e] ELSE <<>>]
           come == [e \in Elements |-> IF e \in in THEN attr[e] ELSE <<>>]
<1>1. elements' = (elements \ out) \cup in /\ missed' = missed \ (out \cup in) BY DEF Replace
<1>2. tokens' = Retained(gone, come) BY DEF Replace, Rematch
<1>3. <<>> \in Seq(Identifiers) /\ Len(<<>>) = 0 /\ SubSeq(<<>>, 1, 0) = <<>>
  BY EmptySeq, SubSeqEmpty
<1>4. ASSUME NEW e \in Elements
      PROVE  tokens'[e] = SubSeq(tokens[e], 1, Len(tokens[e]) - Len(gone[e])) \o come[e]
  BY <1>2 DEF Retained
<1>5. ASSUME NEW e \in in PROVE tokens'[e] = attr[e]
  <2>1. tokens[e] = <<>> BY DEF ChainInv, Bare
  <2>2. gone[e] = <<>> /\ come[e] = attr[e] BY <2>1
  <2>3. attr[e] \in Seq(Identifiers) BY DEF ChainInv, Typed
  <2>4. <<>> \o attr[e] = attr[e] BY <2>3, ConcatEmptySeq
  <2>5. Len(tokens[e]) - Len(gone[e]) = 0 BY <1>3, <2>1, <2>2
  <2>6. tokens'[e] = SubSeq(tokens[e], 1, Len(tokens[e]) - Len(gone[e])) \o come[e] BY <1>4
  <2> HIDE DEF gone, come
  <2> QED BY <1>3, <2>1, <2>2, <2>4, <2>5, <2>6
<1>6. ASSUME NEW e \in Elements \ (out \cup in) PROVE tokens'[e] = tokens[e]
  <2>1. gone[e] = <<>> /\ come[e] = <<>> OBVIOUS
  <2>2. tokens[e] \in Seq(Identifiers) BY DEF ChainInv, Typed, TokenLists
  <2>3. Len(tokens[e]) \in Nat BY <2>2, LenProperties
  <2>4. SubSeq(tokens[e], 1, Len(tokens[e])) = tokens[e] /\ tokens[e] \o <<>> = tokens[e]
    BY <2>2, SubSeqFull, ConcatEmptySeq
  <2>5. tokens'[e] = SubSeq(tokens[e], 1, Len(tokens[e]) - Len(gone[e])) \o come[e] BY <1>4
  <2> HIDE DEF gone, come
  <2>6. Len(tokens[e]) - Len(gone[e]) = Len(tokens[e]) BY <1>3, <2>1, <2>3
  <2> QED BY <2>1, <2>4, <2>5, <2>6
<1> QED BY <1>1, <1>5, <1>6
\* The records that are left
LEMMA RecordsLeft ==
  ASSUME SyncInv, ProcessMutation
  PROVE  /\ Len(records) \in Nat /\ 1 \in 1 .. Len(records) /\ Head(records) = records[1]
         /\ records[1] \in Record
         /\ Len(records') = Len(records) - 1 /\ (Len(records') = 0 <=> ~delivering')
         /\ \A i \in 1 .. Len(records') : records'[i] = records[i + 1]
         /\ UNCHANGED <<parent, attr, transient, started>> /\ started /\ delivering
<1>1. records \in Seq(Record) /\ records # <<>> /\ records' = Tail(records) /\ delivering
  BY DEF SyncInv, ChainInv, Typed, ProcessMutation
<1>2. /\ Head(records) = records[1] /\ records[1] \in Record /\ Tail(records) \in Seq(Record)
      /\ Len(Tail(records)) = Len(records) - 1
      /\ \A i \in 1 .. Len(Tail(records)) : Tail(records)[i] = records[i + 1]
  BY <1>1, HeadTailProperties
<1>3. Len(records) \in Nat /\ 1 \in 1 .. Len(records) BY <1>1, LenProperties, EmptySeq
<1>4. Len(records') = 0 <=> ~delivering'
  <2>1. Len(Tail(records)) = 0 <=> Tail(records) = <<>> BY <1>2, EmptySeq
  <2> QED BY <1>1, <2>1 DEF ProcessMutation
<1>5. UNCHANGED <<parent, attr, transient, started>> /\ started BY DEF ProcessMutation, dom
<1>6. Len(records') = Len(records) - 1 /\ \A i \in 1 .. Len(records') : records'[i] = records[i + 1]
  BY <1>1, <1>2
<1> QED BY <1>1, <1>2, <1>3, <1>4, <1>5, <1>6

\* What a record does to an element
LEMMA ProcessReads ==
  ASSUME SyncInv, ProcessMutation, NEW e \in Elements
  PROVE  /\ e \in elements' /\ e \notin elements =>
              InTree(e) /\ attr[e] # None /\ tokens'[e] = attr[e]
         /\ e \in elements' /\ e \in elements =>
              \/ tokens'[e] = attr[e]
              \/ tokens'[e] = tokens[e] /\ (e \in missed => e \in missed')
         /\ e \in elements /\ e \notin elements' =>
              attr[e] = None \/ Covers(records[1], "removed", e)
         /\ /\ InTree(e) /\ attr[e] # None
            /\ Covers(records[1], "added", e) \/ Is(records[1], "attributes", e)
            => e \in elements'
         /\ Covers(records[1], "removed", e) /\ attr[e] # None => e \notin elements'
         /\ Is(records[1], "attributes", e) /\ e \in elements' =>
              attr[e] # None /\ tokens'[e] = attr[e]
         /\ elements' \subseteq Elements /\ missed' \subseteq missed
<1> DEFINE x == records[1].element
<1>1. x \in Elements /\ Head(records) = records[1] BY RecordsLeft DEF Record
<1>2. ChainInv /\ elements \subseteq Elements BY DEF SyncInv, DomTyped
<1>3. UNCHANGED modules BY DEF ProcessMutation
<1> HIDE DEF x
<1>4. CASE records[1].type = "attributes" /\ ProcessAttributeChange(x)
  <2>1. ~Covers(records[1], "removed", e) /\ ~Covers(records[1], "added", e)
        /\ (Is(records[1], "attributes", e) <=> x = e)
    BY <1>4 DEF Covers, Is, x
  <2>2. CASE x \in elements /\ attr[x] # None /\ RefreshTokens(x)
    <3>1. tokens'[x] = attr[x] /\ \A y \in Elements \ {x} : tokens'[y] = tokens[y]
      BY <1>1, <1>2, <1>3, <2>2, RefreshKeeps
    <3>2. elements' = elements /\ missed' = missed \ {x} BY <2>2 DEF RefreshTokens
    <3> QED BY <1>2, <2>1, <2>2, <3>1, <3>2
  <2>3. CASE x \in elements /\ attr[x] = None /\ Replace({x}, {})
    <3>1. /\ elements' = (elements \ {x}) \cup {} /\ missed' = missed \ ({x} \cup {})
          /\ \A y \in Elements \ ({x} \cup {}) : tokens'[y] = tokens[y]
      BY <1>2, <2>3, ReplaceReads
    <3> QED BY <1>2, <2>1, <2>3, <3>1
  <2>4. CASE /\ x \notin elements /\ attr[x] # None
             /\ Replace({}, {x} \cap {y \in Elements : InTree(y)})
    <3> DEFINE in == {x} \cap {y \in Elements : InTree(y)}
    <3>1. /\ in \in SUBSET Elements /\ in \cap elements = {} /\ \A y \in in : attr[y] # None
          /\ Replace({}, in)
      BY <1>1, <2>4
    <3> HIDE DEF in
    <3>2. /\ elements' = (elements \ {}) \cup in /\ missed' = missed \ ({} \cup in)
          /\ \A y \in in : tokens'[y] = attr[y]
          /\ \A y \in Elements \ ({} \cup in) : tokens'[y] = tokens[y]
      BY <1>2, <3>1, ReplaceReads
    <3>3. e \in in <=> x = e /\ InTree(e) BY DEF in
    <3> QED BY <1>2, <2>1, <2>4, <3>1, <3>2, <3>3
  <2>5. CASE x \notin elements /\ attr[x] = None /\ UNCHANGED <<chain, missed>>
    BY <1>2, <2>1, <2>5 DEF chain
  <2> QED BY <1>4, <2>2, <2>3, <2>4, <2>5 DEF ProcessAttributeChange
<1>5. CASE records[1].type = "removed" /\ ProcessRemovedNode(x)
  <2> DEFINE out == MatchElementsInTree(x) \cap elements
  <2>1. ~Covers(records[1], "added", e) /\ ~Is(records[1], "attributes", e)
        /\ (Covers(records[1], "removed", e) <=> x \in Ancestors(e))
    BY <1>5 DEF Covers, Is, x
  <2>2. Replace(out, {}) BY <1>5 DEF ProcessRemovedNode
  <2>3. e \in out <=> e \in elements /\ attr[e] # None /\ x \in Ancestors(e)
    BY DEF MatchElementsInTree
  <2> HIDE DEF out
  <2>4. /\ elements' = (elements \ out) \cup {} /\ missed' = missed \ (out \cup {})
        /\ \A y \in Elements \ (out \cup {}) : tokens'[y] = tokens[y]
    BY <1>2, <2>2, ReplaceReads
  <2> QED BY <1>2, <2>1, <2>3, <2>4
<1>6. CASE records[1].type = "added" /\ ProcessAddedNode(x)
  <2> DEFINE in == IF InTree(x) THEN MatchElementsInTree(x) \ elements ELSE {}
  <2>1. ~Covers(records[1], "removed", e) /\ ~Is(records[1], "attributes", e)
        /\ (Covers(records[1], "added", e) <=> x \in Ancestors(e))
    BY <1>6 DEF Covers, Is, x
  <2>2. /\ in \in SUBSET Elements /\ in \cap elements = {} /\ \A y \in in : attr[y] # None
        /\ Replace({}, in)
    BY <1>6 DEF ProcessAddedNode, MatchElementsInTree
  <2>3. e \in in <=> e \notin elements /\ attr[e] # None /\ x \in Ancestors(e) /\ InTree(e)
    <3>1. parent \in Parents /\ e \in Nodes BY DEF SyncInv, DomTyped, Parents, Nodes
    <3>2. x \in Ancestors(e) => (InTree(x) <=> InTree(e))
      BY <3>1, AncestorsAbove, AboveTransitive, AboveRooted DEF InTree
    <3> QED BY <3>2 DEF MatchElementsInTree
  <2> HIDE DEF in
  <2>4. /\ elements' = (elements \ {}) \cup in /\ missed' = missed \ ({} \cup in)
        /\ \A y \in in : tokens'[y] = attr[y]
        /\ \A y \in Elements \ ({} \cup in) : tokens'[y] = tokens[y]
    BY <1>2, <2>2, ReplaceReads
  <2> QED BY <1>2, <2>1, <2>2, <2>3, <2>4
<1> QED BY <1>1, <1>4, <1>5, <1>6 DEF ProcessMutation, x
\* A record that is processed has done what it was needed for.
LEMMA ProcessSyncs ==
  ASSUME SyncInv, ProcessMutation
  PROVE  SyncInv'
<1>1. /\ Len(records) \in Nat /\ 1 \in 1 .. Len(records) /\ Len(records') = Len(records) - 1
      /\ (Len(records') = 0 <=> ~delivering')
      /\ \A i \in 1 .. Len(records') : records'[i] = records[i + 1]
      /\ UNCHANGED <<parent, attr, transient, started>> /\ started /\ delivering
  BY RecordsLeft
<1>2. \A e : Ancestors(e)' = Ancestors(e) /\ (InTree(e)' <=> InTree(e))
  BY <1>1, AncestorsAbove DEF InTree
<1>3. ChainInv' BY ProcessKeeps DEF SyncInv
<1>4. DomTyped'
  <2>1. elements' \subseteq Elements /\ missed' \subseteq Elements /\ delivering' \in BOOLEAN
    <3>1. CASE Elements = {}
      <4>1. records[1] \in Record BY RecordsLeft
      <4> QED BY <3>1, <4>1 DEF Record
    <3>2. CASE Elements # {}
      <4>1. elements' \subseteq Elements /\ missed' \subseteq missed BY <3>2, ProcessReads
      <4> QED BY <4>1 DEF SyncInv, DomTyped, ProcessMutation
    <3> QED BY <3>1, <3>2
  <2> QED BY <1>1, <2>1 DEF SyncInv, DomTyped
<1>5. Observing'
  <2>1. transient = {} BY <1>1 DEF SyncInv, Observing
  <2> QED BY <1>1, <2>1 DEF Observing
<1>6. MissedAll' BY <1>1 DEF MissedAll
<1>7. ASSUME NEW i \in 1 .. Len(records), i # 1
      PROVE  \E j \in 1 .. Len(records') : i = j + 1 /\ records'[j] = records[i]
  <2>1. i - 1 \in 1 .. Len(records') /\ (i - 1) + 1 = i BY <1>1, <1>7
  <2> QED BY <1>1, <2>1
<1>8. ASSUME NEW e \in Elements PROVE Pending(e)'
  <2>1. PutBack(e) /\ ToAdd(e) /\ ToRemove(e) /\ ToRefresh(e) BY <1>1, <1>8 DEF SyncInv, Pending
  <2>2. \A r : \A type : Covers(r, type, e)' <=> Covers(r, type, e)
    BY <1>2 DEF Covers
  <2>3. PutBack(e)'
    <3> SUFFICES ASSUME InTree(e), NEW i \in 1 .. Len(records'),
                        Covers(records'[i], "removed", e)
                 PROVE  \E j \in i + 1 .. Len(records') : Covers(records'[j], "added", e)
      BY <1>2 DEF PutBack, Covers
    <3>1. i + 1 \in 1 .. Len(records) /\ records'[i] = records[i + 1] BY <1>1
    <3>2. PICK k \in (i + 1) + 1 .. Len(records) : Covers(records[k], "added", e)
      BY <2>1, <3>1 DEF PutBack
    <3>3. k \in 1 .. Len(records) /\ k # 1 BY <1>1, <3>1
    <3>4. PICK j \in 1 .. Len(records') : k = j + 1 /\ records'[j] = records[k]
      BY <1>7, <3>3
    <3>5. j \in i + 1 .. Len(records') BY <1>1, <3>1, <3>4
    <3> QED BY <3>2, <3>4, <3>5
  <2>4. ToAdd(e)'
    <3> SUFFICES ASSUME InTree(e), attr[e] # None, e \notin elements'
                 PROVE  \E j \in 1 .. Len(records') : \/ Covers(records'[j], "added", e)
                                                      \/ Is(records'[j], "attributes", e)
      BY <1>1, <1>2 DEF ToAdd, Covers, Is
    <3>1. CASE e \in elements
      <4>1. Covers(records[1], "removed", e) BY <1>8, <3>1, ProcessReads
      <4>2. PICK k \in 1 + 1 .. Len(records) : Covers(records[k], "added", e)
        BY <1>1, <2>1, <4>1 DEF PutBack
      <4>3. k \in 1 .. Len(records) /\ k # 1 BY <1>1
      <4> QED BY <1>7, <4>2, <4>3
    <3>2. CASE e \notin elements
      <4>1. PICK k \in 1 .. Len(records) : \/ Covers(records[k], "added", e)
                                           \/ Is(records[k], "attributes", e)
        BY <2>1, <3>2 DEF ToAdd
      <4>2. k # 1 BY <1>8, <4>1, ProcessReads
      <4> QED BY <1>7, <4>1, <4>2
    <3> QED BY <3>1, <3>2
  <2>5. ASSUME e \in elements', attr[e] = None \/ (e \notin missed' /\ tokens'[e] # attr[e])
        PROVE  \E j \in 1 .. Len(records') : Is(records'[j], "attributes", e)
    <3>1. e \in elements BY <1>8, <2>5, ProcessReads, StimulusAssumption
    <3>2. attr[e] = None \/ (e \notin missed /\ tokens[e] # attr[e])
      BY <1>8, <2>5, <3>1, ProcessReads
    <3>3. PICK k \in 1 .. Len(records) : Is(records[k], "attributes", e)
      BY <2>1, <3>1, <3>2 DEF ToRefresh
    <3>4. k # 1 BY <1>8, <2>5, <3>3, ProcessReads
    <3> QED BY <1>7, <3>3, <3>4
  <2>6. ToRefresh(e)' BY <1>1, <2>5 DEF ToRefresh, Is
  <2>7. ToRemove(e)'
    <3> SUFFICES ASSUME e \in elements', ~InTree(e)
                 PROVE  /\ attr[e] # None =>
                             \E j \in 1 .. Len(records') : Covers(records'[j], "removed", e)
                        /\ delivering'
      BY <1>1, <1>2 DEF ToRemove, Covers
    <3>1. e \in elements BY <1>8, ProcessReads
    <3>2. ASSUME attr[e] # None
          PROVE  \E j \in 1 .. Len(records') : Covers(records'[j], "removed", e)
      <4>1. PICK k \in 1 .. Len(records) : Covers(records[k], "removed", e)
        BY <1>1, <2>1, <3>1, <3>2 DEF ToRemove
      <4>2. k # 1 BY <1>8, <3>2, <4>1, ProcessReads
      <4> QED BY <1>7, <4>1, <4>2
    <3>3. \E j : j \in 1 .. Len(records') BY <2>5, <3>2
    <3>4. Len(records') # 0 BY <1>1, <3>3
    <3> QED BY <1>1, <1>4, <3>2, <3>4 DEF DomTyped
  <2> QED BY <2>3, <2>4, <2>6, <2>7 DEF Pending
<1> QED BY <1>3, <1>4, <1>5, <1>6, <1>8 DEF SyncInv

\* The delivery has the records of what was transient.
LEMMA DeliverSyncs ==
  ASSUME SyncInv, Deliver
  PROVE  SyncInv'
<1>1. /\ ~delivering /\ records # <<>> /\ delivering' = TRUE /\ transient' = {}
      /\ UNCHANGED <<parent, attr, records, started, modules, missed, elements, tokens, refs,
                     scopes, contexts, connected, lives>>
  BY DEF Deliver, dom, chain
<1>2. \A e : Ancestors(e)' = Ancestors(e) BY <1>1, AncestorsAbove
<1>3. ChainInv' BY <1>1 DEF SyncInv, ChainInv, Typed, Routed, Counted, Bare
<1>4. DomTyped' BY <1>1 DEF SyncInv, DomTyped
<1>5. started /\ Observing'
  <2>1. started BY <1>1 DEF SyncInv, Observing
  <2> QED BY <1>1, <2>1 DEF Observing
<1>6. MissedAll' BY <1>1 DEF SyncInv, MissedAll
<1>7. ASSUME NEW e \in Elements PROVE Pending(e)'
  <2>1. PutBack(e) /\ ToAdd(e) /\ ToRemove(e) /\ ToRefresh(e)
    BY <1>5, <1>7 DEF SyncInv, Pending
  <2>2. PutBack(e)' BY <1>1, <1>2, <2>1 DEF PutBack, InTree, Covers
  <2>3. ToAdd(e)' BY <1>1, <1>2, <2>1 DEF ToAdd, InTree, Covers, Is
  <2>4. ToRefresh(e)' BY <1>1, <2>1 DEF ToRefresh, Is
  <2>5. ASSUME e \in elements, ~InTree(e)
        PROVE  \E i \in 1 .. Len(records) : Covers(records[i], "removed", e)
    <3>1. PICK x \in transient : x \in Ancestors(e) BY <1>1, <2>1, <2>5 DEF ToRemove
    <3>2. PICK i \in 1 .. Len(records) : Is(records[i], "removed", x)
      BY <1>1 DEF SyncInv, Observing
    <3> QED BY <3>1, <3>2 DEF Is, Covers
  <2>6. ToRemove(e)' BY <1>1, <1>2, <2>5 DEF ToRemove, InTree, Covers
  <2> QED BY <2>2, <2>3, <2>4, <2>6 DEF Pending
<1> QED BY <1>3, <1>4, <1>5, <1>6, <1>7 DEF SyncInv

\* The application takes the elements that match; those that it has already, and whose
\* attribute changed, are missed.
LEMMA StartSyncs ==
  ASSUME SyncInv, Start
  PROVE  SyncInv'
<1> DEFINE matches == {e \in MatchElementsInTree(Root) : InTree(e)}
           out == elements \ matches
           in == matches \ elements
<1>1. /\ ~started /\ started' = TRUE /\ Replace(out, in)
      /\ UNCHANGED <<parent, attr, records, transient, delivering, modules>>
  BY DEF Start, dom
<1>2. \A e : e \in matches <=> e \in Elements /\ attr[e] # None /\ InTree(e)
  BY DEF MatchElementsInTree, InTree
<1>3. /\ in \in SUBSET Elements /\ in \cap elements = {} /\ \A e \in in : attr[e] # None
      /\ elements \subseteq Elements /\ missed \subseteq Elements
  BY <1>2 DEF SyncInv, DomTyped
<1>4. out = elements \ matches /\ in = matches \ elements OBVIOUS
<1> HIDE DEF matches, out, in
<1>5. /\ elements' = (elements \ out) \cup in /\ missed' = missed \ (out \cup in)
      /\ \A e \in in : tokens'[e] = attr[e]
      /\ \A e \in Elements \ (out \cup in) : tokens'[e] = tokens[e]
  BY <1>1, <1>3, ReplaceReads DEF SyncInv
<1>6. elements' = matches BY <1>2, <1>3, <1>4, <1>5
<1>7. \A e : Ancestors(e)' = Ancestors(e) /\ (InTree(e)' <=> InTree(e))
  BY <1>1, AncestorsAbove DEF InTree
<1>8. ChainInv' BY StartKeeps DEF SyncInv
<1>9. DomTyped' BY <1>1, <1>2, <1>3, <1>5, <1>6 DEF SyncInv, DomTyped
<1>10. records = <<>> /\ Len(records) = 0 /\ transient = {} /\ ~delivering
  BY <1>1, EmptySeq DEF SyncInv, Observing
<1>11. Observing' BY <1>1, <1>10 DEF Observing
<1>12. MissedAll' BY <1>1 DEF MissedAll
<1>13. ASSUME NEW e \in Elements PROVE Pending(e)'
  <2>1. PutBack(e)' BY <1>1, <1>10 DEF PutBack
  <2>2. ToAdd(e)' BY <1>1, <1>2, <1>6, <1>7, <1>13 DEF ToAdd
  <2>3. ToRemove(e)' BY <1>2, <1>6, <1>7 DEF ToRemove
  <2>4. e \in elements' => attr[e] # None /\ (tokens'[e] = attr[e] \/ e \in missed')
    <3> SUFFICES ASSUME e \in elements'
                 PROVE  attr[e] # None /\ (tokens'[e] = attr[e] \/ e \in missed')
      OBVIOUS
    <3>1. e \in matches /\ attr[e] # None BY <1>2, <1>6
    <3>2. CASE e \in in BY <1>5, <3>1, <3>2
    <3>3. CASE e \notin in
      <4>1. e \in elements /\ e \notin out BY <1>4, <3>1, <3>3
      <4>2. tokens'[e] = tokens[e] BY <1>5, <1>13, <3>3, <4>1
      <4>3. tokens[e] = attr[e] \/ e \in missed BY <1>1, <3>1, <4>1 DEF SyncInv, MissedAll
      <4> QED BY <1>5, <3>1, <3>3, <4>1, <4>2, <4>3
    <3> QED BY <3>2, <3>3
  <2>5. ToRefresh(e)' BY <1>1, <2>4 DEF ToRefresh
  <2> QED BY <2>1, <2>2, <2>3, <2>5 DEF Pending
<1> QED BY <1>8, <1>9, <1>11, <1>12, <1>13 DEF SyncInv

\* What is pending when the application stops is missed.
LEMMA StopSyncs ==
  ASSUME SyncInv, Stop
  PROVE  SyncInv'
<1> DEFINE dropped == {e \in elements :
                         Contains(records, [type |-> "attributes", element |-> e])}
<1>1. /\ ~delivering /\ started /\ started' = FALSE /\ records' = <<>> /\ transient' = {}
      /\ missed' = missed \cup dropped
      /\ UNCHANGED <<parent, attr, delivering, modules, elements, tokens, refs, scopes, contexts,
                     connected, lives>>
  BY DEF Stop, Script, dom, chain
<1>2. ChainInv'
  <2>1. records' \in Seq(Record) BY <1>1, EmptySeq
  <2> QED BY <1>1, <2>1 DEF SyncInv, ChainInv, Typed, Routed, Counted, Bare
<1>3. DomTyped' BY <1>1 DEF SyncInv, DomTyped
<1>4. Observing' BY <1>1 DEF Observing
<1>5. MissedAll'
  <2> SUFFICES ASSUME NEW e \in elements, attr[e] # None, tokens[e] # attr[e], e \notin missed
               PROVE  e \in dropped
    BY <1>1 DEF MissedAll
  <2>1. e \in Elements BY DEF SyncInv, DomTyped
  <2>2. PICK i \in 1 .. Len(records) : Is(records[i], "attributes", e)
    BY <1>1, <2>1 DEF SyncInv, Pending, ToRefresh
  <2>3. records[i] \in Record
    <3>1. records \in Seq(Record) BY DEF SyncInv, ChainInv, Typed
    <3> QED BY <3>1, ElementOfSeq
  <2>4. records[i] = [type |-> "attributes", element |-> e] BY <2>2, <2>3 DEF Is, Record
  <2>5. Contains(records, [type |-> "attributes", element |-> e]) BY <2>4 DEF Contains
  <2> QED BY <2>5
<1> QED BY <1>1, <1>2, <1>3, <1>4, <1>5 DEF SyncInv

\* A step that leaves the document, the observer and the tokens as they are
LEMMA SameSyncs ==
  ASSUME SyncInv, ChainInv',
         UNCHANGED <<parent, attr, records, transient, delivering, started, elements, tokens,
                     missed>>
  PROVE  SyncInv'
<1>1. \A e : Ancestors(e)' = Ancestors(e) BY AncestorsAbove
<1>2. DomTyped' BY DEF SyncInv, DomTyped
<1>3. Observing' BY DEF SyncInv, Observing, Is
<1>4. MissedAll' BY DEF SyncInv, MissedAll
<1>5. ASSUME started, NEW e \in Elements PROVE Pending(e)'
  <2>1. PutBack(e) /\ ToAdd(e) /\ ToRemove(e) /\ ToRefresh(e)
    BY <1>5 DEF SyncInv, Pending
  <2>2. PutBack(e)' BY <1>1, <2>1 DEF PutBack, InTree, Covers
  <2>3. ToAdd(e)' BY <1>1, <2>1 DEF ToAdd, InTree, Covers, Is
  <2>4. ToRefresh(e)' BY <2>1 DEF ToRefresh, Is
  <2>5. ToRemove(e)' BY <1>1, <2>1 DEF ToRemove, InTree, Covers
  <2> QED BY <2>2, <2>3, <2>4, <2>5 DEF Pending
<1> QED BY <1>2, <1>3, <1>4, <1>5 DEF SyncInv

-----------------------------------------------------------------------------
(* Theorems on controllers and document *)

\* Nothing is observed at the start.
LEMMA InitSyncInv == Init => SyncInv
<1> SUFFICES ASSUME Init PROVE SyncInv OBVIOUS
<1>1. ChainInv BY InitChainInv
<1>2. DomTyped BY DEF Init, DomTyped
<1>3. Observing /\ MissedAll /\ ~started BY DEF Init, Observing, MissedAll
<1> QED BY <1>1, <1>2, <1>3 DEF SyncInv

\* Every step keeps what is pending enough.
LEMMA NextSyncInv == SyncInv /\ [Next]_vars => SyncInv'
<1> SUFFICES ASSUME SyncInv, [Next]_vars PROVE SyncInv' OBVIOUS
<1>1. ChainInv' BY NextChainInv DEF SyncInv
<1>2. ASSUME NEW e \in Elements,
             SetAttribute(e) \/ RemoveNode(e) \/ \E node \in Nodes : InsertNode(e, node)
      PROVE  SyncInv'
  BY <1>2, SetAttributeSyncs, RemoveNodeSyncs, InsertNodeSyncs
<1>3. ASSUME NEW id \in Identifiers, Register(id) \/ Unload(id) PROVE SyncInv'
  <2>1. UNCHANGED <<dom, observer, elements, tokens, missed>> BY <1>3 DEF Register, Unload
  <2> QED BY <1>1, <2>1, SameSyncs DEF dom, observer
<1>4. CASE UNCHANGED vars BY <1>1, <1>4, SameSyncs DEF vars, dom, observer, chain
<1> QED BY <1>2, <1>3, <1>4, ProcessSyncs, DeliverSyncs, StartSyncs, StopSyncs DEF Next

\* Whatever differs between document and observers has its record, or was missed while the
\* application was stopped.
THEOREM SyncTrue == Spec => []SyncInv
<1> QED BY InitSyncInv, NextSyncInv, PTL DEF Spec

\* The parts of the page are what they should be, however it changes.
THEOREM StimulusTypeCorrect == Spec => []TypeOK
<1>1. SyncInv => TypeOK
  <2> SUFFICES ASSUME SyncInv PROVE TypeOK OBVIOUS
  <2>1. parent \in [Elements -> Elements \cup {Root, None}]
    <3>1. Elements \cup {Root, None} = Nodes \cup {None} BY DEF Nodes
    <3> QED BY <3>1 DEF SyncInv, DomTyped
  <2>2. /\ \A e \in Elements : attr[e] \in Values[e] \cup {None}
        /\ transient \subseteq Elements /\ delivering \in BOOLEAN /\ started \in BOOLEAN
        /\ elements \subseteq Elements /\ missed \subseteq Elements
    BY DEF SyncInv, DomTyped
  <2>3. /\ records \in Seq(Record) /\ tokens \in [Elements -> Seq(Identifiers)]
        /\ refs \in [Scopes -> Nat] /\ modules \subseteq Identifiers
    BY DEF SyncInv, ChainInv, Typed, TokenLists
  <2>4. scopes \subseteq Scopes /\ contexts \subseteq Scopes /\ connected \subseteq Scopes
    BY DEF SyncInv, ChainInv, Routed
  <2> QED BY <2>1, <2>2, <2>3, <2>4 DEF TypeOK
<1> QED BY <1>1, SyncTrue, PTL

\* Once the records are processed, the controllers that are connected are those that the
\* document asks for, for every document and every order of changes, which the processing of
\* their records sees only in the end (ElementObserver.processMutations to Module.
\* connectContextForScope), if the controllers leave the document alone in connect and
\* disconnect.
THEOREM SyncCorrect == Spec => []InSync
<1>1. ASSUME SyncInv, started, records = <<>> PROVE Agree
  <2>1. Len(records) = 0 /\ ~delivering /\ transient = {}
    <3>1. ~delivering BY <1>1 DEF SyncInv, ChainInv, Typed
    <3>2. Len(records) = 0 BY <1>1, EmptySeq
    <3> QED BY <1>1, <3>1, <3>2 DEF SyncInv, Observing
  <2>2. ASSUME NEW c \in Scopes, c[1] \notin missed PROVE c \in connected <=> c \in Wanted
    <3> DEFINE e == c[1]
    <3>1. e \in Elements /\ c[2] \in Identifiers BY DEF Scopes
    <3>2. c \in connected <=> refs[c] > 0 /\ c[2] \in modules
      BY <1>1 DEF SyncInv, ChainInv, Routed
    <3>3. refs[c] = Occurrences(tokens[e], c[2]) BY <1>1 DEF SyncInv, ChainInv, Counted
    <3>4. e \in elements <=> InTree(e) /\ attr[e] # None
      BY <1>1, <2>1, <3>1 DEF SyncInv, Pending, ToAdd, ToRemove, ToRefresh
    <3>5. e \in elements => tokens[e] = attr[e]
      BY <1>1, <2>1, <2>2, <3>1 DEF SyncInv, Pending, ToRefresh
    <3>6. e \notin elements => tokens[e] = <<>>
      BY <1>1, <3>1 DEF SyncInv, ChainInv, Bare
    <3>7. tokens[e] \in Seq(Identifiers)
      BY <1>1, <3>1 DEF SyncInv, ChainInv, Typed, TokenLists
    <3>8. Occurrences(tokens[e], c[2]) > 0 <=> c[2] \in ToSet(tokens[e])
      BY <3>7, OccurrencesPositive
    <3>9. ToSet(<<>>) = {} BY EmptySeq DEF ToSet
    <3> HIDE DEF e
    <3>10. CASE e \in elements
      BY <3>2, <3>3, <3>4, <3>5, <3>8, <3>10 DEF Wanted, e
    <3>11. CASE e \notin elements
      BY <3>2, <3>3, <3>4, <3>6, <3>8, <3>9, <3>11 DEF Wanted, e
    <3> QED BY <3>10, <3>11
  <2>3. connected \subseteq Scopes BY <1>1 DEF SyncInv, ChainInv, Routed
  <2> QED BY <2>2, <2>3 DEF Agree, Wanted
<1>2. SyncInv => InSync BY <1>1 DEF InSync
<1> QED BY <1>2, SyncTrue, PTL

=============================================================================
