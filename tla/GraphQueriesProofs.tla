------------------------- MODULE GraphQueriesProofs -------------------------
(* internal/graph for every list of files and every series of queries:      *)
(* the loop invariants of Build, the graph they leave behind, and what a    *)
(* query on it answers.                                                     *)
EXTENDS GraphQueries, FiniteSetTheorems, TLAPS

-----------------------------------------------------------------------------
(* Reachability in any graph. *)

(* Reach is the least closed set that holds the seeds. *)
LEMMA ReachLeast ==
    ASSUME NEW graph, NEW from, NEW set \in SUBSET DOMAIN graph,
           from \subseteq set, ClosedUnder(graph, set)
    PROVE  Reach(graph, from) \subseteq set
  BY DEF Reach

(* It holds the seeds that are nodes ... *)
LEMMA ReachSeeds ==
    ASSUME NEW graph, NEW from, from \subseteq DOMAIN graph
    PROVE  from \subseteq Reach(graph, from)
  BY DEF Reach

(* ... and is closed, if edges lead to nodes. *)
LEMMA ReachClosed ==
    ASSUME NEW graph, NEW from, \A n \in DOMAIN graph : graph[n] \subseteq DOMAIN graph
    PROVE  ClosedUnder(graph, Reach(graph, from))
  BY DEF Reach, ClosedUnder

(* More edges and more seeds reach more. *)
LEMMA ReachMonotone ==
    ASSUME NEW graph, NEW wider, NEW from, NEW more,
           DOMAIN graph = DOMAIN wider, from \subseteq more,
           \A n \in DOMAIN graph : graph[n] \subseteq wider[n]
    PROVE  Reach(graph, from) \subseteq Reach(wider, more)
<1>1. \A set : ClosedUnder(wider, set) /\ set \subseteq DOMAIN graph => ClosedUnder(graph, set)
  BY DEF ClosedUnder
<1> QED
  BY <1>1 DEF Reach

(* q is in the forward closure of p exactly when p is in the reverse        *)
(* closure of q: ForwardClosure and ReverseClosure agree on any graph.      *)
THEOREM ReachDuality ==
    ASSUME NEW graph, \A n \in DOMAIN graph : graph[n] \subseteq DOMAIN graph,
           NEW p \in DOMAIN graph, NEW q \in DOMAIN graph
    PROVE  q \in Reach(graph, {p}) <=> p \in Reach(Transpose(graph), {q})
<1>d. DOMAIN Transpose(graph) = DOMAIN graph
  BY DEF Transpose
<1>e. \A m, n \in DOMAIN graph : m \in Transpose(graph)[n] <=> n \in graph[m]
  BY DEF Transpose
<1>f. \A n \in DOMAIN graph : Transpose(graph)[n] \subseteq DOMAIN graph
  BY DEF Transpose
<1>1. ASSUME q \in Reach(graph, {p}) PROVE p \in Reach(Transpose(graph), {q})
  <2> DEFINE Back == {n \in DOMAIN graph : n \notin Reach(Transpose(graph), {q})}
  <2>1. ClosedUnder(Transpose(graph), Reach(Transpose(graph), {q}))
    BY <1>d, <1>f, ReachClosed
  <2>2. ClosedUnder(graph, Back)
    <3> SUFFICES ASSUME NEW n \in Back, NEW m \in graph[n],
                        m \in Reach(Transpose(graph), {q})
                 PROVE  FALSE
      BY DEF ClosedUnder
    <3>1. m \in DOMAIN graph
      OBVIOUS
    <3>2. n \in Transpose(graph)[m]
      BY <1>e, <3>1
    <3> QED
      BY <2>1, <3>2 DEF ClosedUnder
  <2>3. q \notin Back
    BY <1>d, ReachSeeds
  <2>4. p \in Back => q \in Back
    BY <1>1, <2>2, ReachLeast
  <2> QED
    BY <2>3, <2>4
<1>2. ASSUME p \in Reach(Transpose(graph), {q}) PROVE q \in Reach(graph, {p})
  <2> DEFINE Rest == {n \in DOMAIN graph : n \notin Reach(graph, {p})}
  <2>1. ClosedUnder(graph, Reach(graph, {p}))
    BY ReachClosed
  <2>2. ClosedUnder(Transpose(graph), Rest)
    <3> SUFFICES ASSUME NEW n \in Rest, NEW m \in Transpose(graph)[n],
                        m \in Reach(graph, {p})
                 PROVE  FALSE
      BY <1>f DEF ClosedUnder
    <3>1. n \in graph[m]
      BY DEF Transpose
    <3> QED
      BY <2>1, <3>1 DEF ClosedUnder
  <2>3. p \notin Rest
    BY ReachSeeds
  <2>4. q \in Rest => p \in Rest
    <3>1. SUFFICES ASSUME q \in Rest PROVE p \in Rest
      OBVIOUS
    <3>2. Rest \in SUBSET DOMAIN Transpose(graph) /\ {q} \subseteq Rest
      BY <1>d, <3>1
    <3>3. Reach(Transpose(graph), {q}) \subseteq Rest
      <4> HIDE DEF Rest
      <4> QED
        BY <2>2, <3>2, ReachLeast
    <3> QED
      BY <1>2, <3>3
  <2> QED
    BY <2>3, <2>4
<1> QED
  BY <1>1, <1>2

(* Nodes that no edge of the graph leads to add nothing: the maps of        *)
(* internal/graph speak of every path, a closure of the known packages.     *)
LEMMA ReachRestrict ==
    ASSUME NEW graph, NEW wide, NEW from,
           DOMAIN graph \subseteq DOMAIN wide, from \subseteq DOMAIN graph,
           \A n \in DOMAIN graph : graph[n] \subseteq DOMAIN graph /\ wide[n] = graph[n]
    PROVE  Reach(wide, from) = Reach(graph, from)
<1> DEFINE R == Reach(graph, from)
           W == Reach(wide, from) \cap DOMAIN graph
<1>1. ClosedUnder(graph, R) /\ from \subseteq R /\ R \subseteq DOMAIN graph
  BY ReachClosed, ReachSeeds DEF Reach
<1>2. Reach(wide, from) \subseteq R
  <2>1. R \in SUBSET DOMAIN wide /\ ClosedUnder(wide, R)
    BY <1>1 DEF ClosedUnder
  <2> HIDE DEF R
  <2> QED
    BY <1>1, <2>1, ReachLeast
<1>3. from \subseteq Reach(wide, from)
  BY ReachSeeds
<1>4. ClosedUnder(graph, W)
  <2> SUFFICES ASSUME NEW n \in W, NEW m \in graph[n] PROVE m \in W
    BY DEF ClosedUnder
  <2>1. m \in DOMAIN graph /\ m \in wide[n] /\ n \in Reach(wide, from)
    OBVIOUS
  <2>2. m \in Reach(wide, from)
    BY <2>1 DEF Reach, ClosedUnder
  <2> QED
    BY <2>1, <2>2
<1>5. R \subseteq W
  <2>1. W \in SUBSET DOMAIN graph /\ from \subseteq W
    BY <1>3
  <2> HIDE DEF W
  <2> QED
    BY <1>4, <2>1, ReachLeast
<1> QED
  BY <1>2, <1>5

(* A reverse closure finds the packages from which a seed is reachable.     *)
THEOREM ReverseReach ==
    ASSUME NEW graph, \A n \in DOMAIN graph : graph[n] \subseteq DOMAIN graph,
           NEW from, from \subseteq DOMAIN graph
    PROVE  Reach(Transpose(graph), from) =
                {p \in DOMAIN graph : Reach(graph, {p}) \cap from # {}}
<1> DEFINE T == Transpose(graph)
           S == {p \in DOMAIN graph : Reach(graph, {p}) \cap from # {}}
<1>d. DOMAIN T = DOMAIN graph /\ \A m, n \in DOMAIN graph : m \in T[n] <=> n \in graph[m]
  BY DEF Transpose
<1>e. \A n \in DOMAIN graph : T[n] \subseteq DOMAIN graph
  BY DEF Transpose
<1>1. from \subseteq S
  <2> SUFFICES ASSUME NEW p \in from PROVE p \in S
    OBVIOUS
  <2>1. p \in Reach(graph, {p})
    BY ReachSeeds
  <2> QED
    BY <2>1
<1>2. ClosedUnder(T, S)
  <2> SUFFICES ASSUME NEW p \in S, NEW m \in T[p] PROVE m \in S
    BY DEF ClosedUnder
  <2>1. p \in DOMAIN graph /\ m \in DOMAIN graph /\ p \in graph[m]
    BY <1>d, <1>e
  <2>2. ClosedUnder(graph, Reach(graph, {m})) /\ m \in Reach(graph, {m})
    BY <2>1, ReachClosed, ReachSeeds
  <2>3. {p} \subseteq Reach(graph, {m}) /\ Reach(graph, {m}) \in SUBSET DOMAIN graph
    BY <2>1, <2>2 DEF ClosedUnder, Reach
  <2>4. Reach(graph, {p}) \subseteq Reach(graph, {m})
    BY <2>2, <2>3, ReachLeast
  <2> QED
    BY <2>1, <2>4
<1>3. Reach(T, from) \subseteq S
  <2>1. S \in SUBSET DOMAIN T
    BY <1>d
  <2> HIDE DEF S, T
  <2> QED
    BY <1>1, <1>2, <2>1, ReachLeast
<1>4. ASSUME NEW p \in S PROVE p \in Reach(T, from)
  <2>1. PICK q \in from : q \in Reach(graph, {p})
    OBVIOUS
  <2>2. p \in Reach(T, {q})
    BY <2>1, ReachDuality
  <2>3. Reach(T, {q}) \subseteq Reach(T, from)
    BY ReachMonotone
  <2> QED
    BY <2>2, <2>3
<1> QED
  BY <1>3, <1>4

-----------------------------------------------------------------------------
(* What TLC checks as TypeOK, with the shape of the input spelled out. *)
Input ==
    /\ files \in Seq(SourceFile)
    /\ \A k \in 1..Len(files) :
        /\ files[k] \in SourceFile
        /\ files[k].path \in FileId
        /\ files[k].pkg \in Path \cup {NoPath}
        /\ files[k].imports \in Seq(Import)
        /\ \A i \in 1..Len(files[k].imports) :
            files[k].imports[i].resolved \in Path \cup {NoPath}

LEMMA InputShape == files \in Inputs => Input
<1> SUFFICES ASSUME files \in Inputs PROVE Input
  OBVIOUS
<1>1. files \in Seq(SourceFile)
  BY InputsAssumption
<1>2. ASSUME NEW k \in 1..Len(files)
      PROVE  files[k] \in SourceFile
  BY <1>1
<1>3. ASSUME NEW k \in 1..Len(files)
      PROVE  /\ files[k].path \in FileId
             /\ files[k].pkg \in Path \cup {NoPath}
             /\ files[k].imports \in Seq(Import)
  BY <1>2 DEF SourceFile
<1>4. ASSUME NEW k \in 1..Len(files), NEW i \in 1..Len(files[k].imports)
      PROVE  files[k].imports[i].resolved \in Path \cup {NoPath}
  <2>1. files[k].imports[i] \in Import
    BY <1>3
  <2> QED
    BY <2>1 DEF Import
<1> QED
  BY <1>1, <1>2, <1>3, <1>4 DEF Input

(* The source and the target of the import the second loop is at are packages. *)
LEMMA SourceTarget ==
    ASSUME TypeOK, AtImport
    PROVE  /\ file \in 1..Len(files)
           /\ Current = files[file]
           /\ Current.path \in FileId
           /\ imp \in 1..Len(Current.imports)
           /\ Len(Current.imports) \in Nat
           /\ CurrentImport.resolved \in Path \cup {NoPath}
           /\ Source \in Package
           /\ ~Ignored(CurrentImport) => Target \in Package
<1>1. Input
  BY InputShape DEF TypeOK
<1>2. file \in 1..Len(files)
  BY <1>1 DEF TypeOK, AtImport, Input
<1>3. /\ Current = files[file]
      /\ Current.path \in FileId
      /\ Current.pkg \in Path
      /\ Current.imports \in Seq(Import)
  BY <1>1, <1>2 DEF Input, Current, AtImport
<1>4. /\ Len(Current.imports) \in Nat
      /\ imp \in 1..Len(Current.imports)
  BY <1>3 DEF TypeOK, AtImport
<1>5. CurrentImport.resolved \in Path \cup {NoPath}
  BY <1>1, <1>2, <1>3, <1>4 DEF Input, CurrentImport
<1>6. Source \in Package
  BY <1>3 DEF Source, Package
<1>7. ~Ignored(CurrentImport) => Target \in Package
  BY <1>5 DEF Ignored, Target, Package
<1> QED
  BY <1>2, <1>3, <1>4, <1>5, <1>6, <1>7

LEMMA TypeInit == Init => TypeOK
<1> SUFFICES ASSUME Init PROVE TypeOK
  OBVIOUS
<1>1. Len(files) \in Nat
  BY InputShape DEF Init, Input
<1> QED
  BY <1>1 DEF Init, TypeOK, NoEdges

LEMMA TypeStep == TypeOK /\ [Next]_vars => TypeOK'
<1> SUFFICES ASSUME TypeOK, [Next]_vars PROVE TypeOK'
  OBVIOUS
<1>1. Len(files) \in Nat
  BY InputShape DEF TypeOK, Input
<1>2. CASE Register
  <2>1. CASE Current.pkg = NoPath
    BY <1>1, <1>2, <2>1 DEF TypeOK, Register
  <2>2. CASE Current.pkg # NoPath
    <3>1. Clean[Current.pkg] \in Package
      <4>1. Input /\ file \in 1..Len(files)
        BY <1>1, <1>2, InputShape DEF TypeOK, Register
      <4> QED
        BY <4>1, <2>2 DEF Input, Current, Package
    <3>2. /\ known' \subseteq Package
          /\ forward' \in [Package -> [Package -> SUBSET FileId]]
          /\ reverse' \in [Package -> SUBSET Package]
      <4>1. EmptyEntry(Clean[Current.pkg])
        BY <1>2, <2>2 DEF Register
      <4>2. NoEdges \in [Package -> SUBSET FileId]
        BY DEF NoEdges
      <4> QED
        BY <3>1, <4>1, <4>2 DEF TypeOK, EmptyEntry
    <3> QED
      BY <1>1, <1>2, <3>2 DEF TypeOK, Register
  <2> QED
    BY <2>1, <2>2
<1>3. CASE BeginLinking
  BY <1>1, <1>3 DEF TypeOK, BeginLinking
<1>4. CASE NextFile
  BY <1>1, <1>4 DEF TypeOK, NextFile
<1>5. CASE SkipImport
  BY <1>5 DEF TypeOK, SkipImport
<1>6. CASE SelfImport
  BY <1>6, SourceTarget DEF TypeOK, SelfImport
<1>7. CASE LinkImport
  <2>1. /\ known' \subseteq Package
        /\ forward' \in [Package -> [Package -> SUBSET FileId]]
        /\ reverse' \in [Package -> SUBSET Package]
        /\ imported' \subseteq Package
    BY <1>7, SourceTarget DEF TypeOK, LinkImport, AddEdge
  <2> QED
    BY <1>7, <2>1 DEF TypeOK, LinkImport
<1>8. CASE Return
  BY <1>8 DEF TypeOK, Return
<1>9. CASE Returned \/ UNCHANGED vars
  BY <1>9 DEF TypeOK, Returned, vars
<1> QED
  BY <1>2, <1>3, <1>4, <1>5, <1>6, <1>7, <1>8, <1>9 DEF Next

(* The variables of Build keep their types, for every list of files. *)
THEOREM TypeCorrect == Spec => []TypeOK
  BY TypeInit, TypeStep, PTL DEF Spec

-----------------------------------------------------------------------------
(* One step of Build passes at most one import. *)

Passed(k, i, p, q) == Linked(k, i) /\ Imports(k, i, p, q)

(* The step records import i of file k as an import of q by p. *)
Records(k, i, p, q) ==
    /\ SelfImport \/ LinkImport
    /\ k = file /\ i = imp /\ p = Source /\ q = Target

LEMMA PassedStep ==
    ASSUME TypeOK, [Next]_vars, NEW k \in 1..Len(files),
           NEW i \in 1..Len(files[k].imports), NEW p, NEW q
    PROVE  Passed(k, i, p, q)' <=> Passed(k, i, p, q) \/ Records(k, i, p, q)
<1>1. Input
  BY InputShape DEF TypeOK
<1>2. /\ Len(files) \in Nat
      /\ file \in Nat /\ imp \in Nat
      /\ Len(files[k].imports) \in Nat
      /\ k \in Nat /\ i \in Nat
  BY <1>1 DEF TypeOK, Input
<1>3. files' = files /\ (Imports(k, i, p, q)' <=> Imports(k, i, p, q))
  BY DEF Next, vars, Register, BeginLinking, NextFile, SkipImport, SelfImport,
         LinkImport, Return, Returned, Imports, Ignored
<1>4. CASE Register \/ BeginLinking
  BY <1>2, <1>3, <1>4 DEF Register, BeginLinking, Passed, Linked, Records,
         SelfImport, LinkImport, AtImport
<1>5. CASE NextFile
  <2>1. ~Records(k, i, p, q)
    BY <1>2, <1>5 DEF NextFile, Records, SelfImport, LinkImport, AtImport
  <2>2. Imports(k, i, p, q) => (Linked(k, i)' <=> Linked(k, i))
    BY <1>2, <1>3, <1>5 DEF NextFile, Linked, Imports, Current
  <2> QED
    BY <1>3, <2>1, <2>2 DEF Passed
<1>6. CASE SkipImport
  <2>1. ~Records(k, i, p, q)
    BY <1>6 DEF SkipImport, Records, SelfImport, LinkImport
  <2>2. Imports(k, i, p, q) => (Linked(k, i)' <=> Linked(k, i))
    BY <1>2, <1>3, <1>6 DEF SkipImport, AtImport, Linked, Imports, Current, CurrentImport
  <2> QED
    BY <1>3, <2>1, <2>2 DEF Passed
<1>7. CASE SelfImport \/ LinkImport
  <2>1. AtImport /\ ~Ignored(CurrentImport)
    BY <1>7 DEF SelfImport, LinkImport
  <2>2. Linked(k, i)' <=> Linked(k, i) \/ (k = file /\ i = imp)
    BY <1>2, <1>7 DEF SelfImport, LinkImport, AtImport, Linked
  <2>3. k = file /\ i = imp =>
            (Imports(k, i, p, q) <=> p = Source /\ q = Target)
    BY <2>1 DEF AtImport, Imports, Current, CurrentImport, Source, Target
  <2> QED
    BY <1>3, <1>7, <2>2, <2>3 DEF Passed, Records
<1>8. CASE Return
  BY <1>2, <1>3, <1>8 DEF Return, Passed, Linked, Records, SelfImport, LinkImport, AtImport
<1>9. CASE Returned \/ UNCHANGED vars
  <2>1. UNCHANGED vars
    BY <1>9 DEF Returned
  <2>2. ~Records(k, i, p, q)
    BY <1>2, <2>1 DEF vars, Records, SelfImport, LinkImport
  <2> QED
    BY <1>3, <2>1, <2>2 DEF vars, Passed, Linked
<1> QED
  BY <1>4, <1>5, <1>6, <1>7, <1>8, <1>9 DEF Next

-----------------------------------------------------------------------------
(* The inductive invariant: each map, element by element, is what the       *)
(* imports passed so far say.                                               *)

FormsEdge(f, p, q) ==
    \E k \in 1..Len(files) :
        /\ files[k].path = f
        /\ \E i \in 1..Len(files[k].imports) : Passed(k, i, p, q)

HasEdge(p, q) ==
    \E k \in 1..Len(files) : \E i \in 1..Len(files[k].imports) : Passed(k, i, p, q)

(* The first loop has passed file k. *)
Registered(k) == phase # "register" \/ k < file

Belongs(k, p) == files[k].pkg # NoPath /\ Clean[files[k].pkg] = p

ForwardInv ==
    \A p, q \in Package : \A f \in FileId :
        f \in forward[p][q] <=> p # q /\ FormsEdge(f, p, q)

ReverseInv ==
    \A p, q \in Package : p \in reverse[q] <=> p # q /\ HasEdge(p, q)

ImportedInv ==
    \A q \in Package : q \in imported <=> \E p \in Package : HasEdge(p, q)

KnownInv ==
    \A p \in Package :
        p \in known <=>
            \/ \E k \in 1..Len(files) : Registered(k) /\ Belongs(k, p)
            \/ \E q \in Package : HasEdge(q, p)

Inv == TypeOK /\ ForwardInv /\ ReverseInv /\ ImportedInv /\ KnownInv

(* How the two existential facts change in one step. *)
LEMMA EdgeStep ==
    ASSUME TypeOK, [Next]_vars, NEW f, NEW p, NEW q
    PROVE  /\ FormsEdge(f, p, q)' <=>
                \/ FormsEdge(f, p, q)
                \/ (SelfImport \/ LinkImport) /\ f = Current.path /\ p = Source /\ q = Target
           /\ HasEdge(p, q)' <=>
                \/ HasEdge(p, q)
                \/ (SelfImport \/ LinkImport) /\ p = Source /\ q = Target
<1>1. files' = files
  BY DEF Next, vars, Register, BeginLinking, NextFile, SkipImport, SelfImport,
         LinkImport, Return, Returned
<1>2. \A k \in 1..Len(files) : \A i \in 1..Len(files[k].imports) :
        Passed(k, i, p, q)' <=> Passed(k, i, p, q) \/ Records(k, i, p, q)
  BY PassedStep
<1>3. ASSUME SelfImport \/ LinkImport
      PROVE  /\ file \in 1..Len(files) /\ imp \in 1..Len(files[file].imports)
             /\ Current = files[file]
  BY <1>3, SourceTarget DEF SelfImport, LinkImport
<1>4. FormsEdge(f, p, q)' <=>
        \E k \in 1..Len(files) :
            /\ files[k].path = f
            /\ \E i \in 1..Len(files[k].imports) :
                Passed(k, i, p, q) \/ Records(k, i, p, q)
  BY <1>1, <1>2 DEF FormsEdge
<1>5. HasEdge(p, q)' <=>
        \E k \in 1..Len(files) : \E i \in 1..Len(files[k].imports) :
            Passed(k, i, p, q) \/ Records(k, i, p, q)
  BY <1>1, <1>2 DEF HasEdge
<1>6. (\E k \in 1..Len(files) :
            files[k].path = f /\ \E i \in 1..Len(files[k].imports) : Records(k, i, p, q))
      <=> (SelfImport \/ LinkImport) /\ f = Current.path /\ p = Source /\ q = Target
  BY <1>3 DEF Records
<1>7. (\E k \in 1..Len(files) : \E i \in 1..Len(files[k].imports) : Records(k, i, p, q))
      <=> (SelfImport \/ LinkImport) /\ p = Source /\ q = Target
  BY <1>3 DEF Records
<1>8. FormsEdge(f, p, q)' <=>
        \/ FormsEdge(f, p, q)
        \/ \E k \in 1..Len(files) :
            files[k].path = f /\ \E i \in 1..Len(files[k].imports) : Records(k, i, p, q)
  BY <1>4 DEF FormsEdge
<1>9. HasEdge(p, q)' <=>
        \/ HasEdge(p, q)
        \/ \E k \in 1..Len(files) : \E i \in 1..Len(files[k].imports) : Records(k, i, p, q)
  BY <1>5 DEF HasEdge
<1> QED
  BY <1>6, <1>7, <1>8, <1>9

(* While the first loop runs no edge is known and no import is passed. *)
LEMMA NothingPassed ==
    ASSUME phase = "register"
    PROVE  \A f, p, q : ~FormsEdge(f, p, q) /\ ~HasEdge(p, q)
  BY DEF FormsEdge, HasEdge, Passed, Linked

LEMMA InvInit == Init => Inv
<1> SUFFICES ASSUME Init PROVE Inv
  OBVIOUS
<1>1. phase = "register" /\ file = 1
  BY DEF Init
<1>2. ForwardInv /\ ReverseInv /\ ImportedInv
  BY <1>1, NothingPassed DEF Init, NoEdges, ForwardInv, ReverseInv, ImportedInv
<1>3. Len(files) \in Nat
  BY InputShape DEF Init, Input
<1>4. KnownInv
  BY <1>1, <1>3, NothingPassed DEF Init, KnownInv, Registered
<1> QED
  BY <1>2, <1>4, TypeInit DEF Inv

LEMMA ForwardStep ==
    ASSUME Inv, [Next]_vars PROVE ForwardInv'
<1> SUFFICES ASSUME NEW p \in Package, NEW q \in Package, NEW f \in FileId
             PROVE  f \in forward'[p][q] <=> p # q /\ FormsEdge(f, p, q)'
  BY DEF ForwardInv
<1>t. TypeOK
  BY DEF Inv
<1>1. f \in forward[p][q] <=> p # q /\ FormsEdge(f, p, q)
  BY DEF Inv, ForwardInv
<1>2. FormsEdge(f, p, q)' <=>
        \/ FormsEdge(f, p, q)
        \/ (SelfImport \/ LinkImport) /\ f = Current.path /\ p = Source /\ q = Target
  BY <1>t, EdgeStep
<1>3. CASE LinkImport
  <2>1. Source \in Package /\ Target \in Package /\ Source # Target
    BY <1>t, <1>3, SourceTarget DEF LinkImport
  <2>2. forward' = [forward EXCEPT ![Source][Target] = @ \cup {Current.path}]
    BY <1>3 DEF LinkImport, AddEdge
  <2>3. f \in forward'[p][q] <=>
            f \in forward[p][q] \/ (p = Source /\ q = Target /\ f = Current.path)
    BY <1>t, <2>1, <2>2 DEF TypeOK
  <2> QED
    BY <1>1, <1>2, <1>3, <2>1, <2>3
<1>4. CASE Register
  <2>1. phase = "register" /\ ~SelfImport /\ ~LinkImport
    BY <1>4 DEF Register, SelfImport, LinkImport, AtImport
  <2>2. ~FormsEdge(f, p, q) /\ f \notin forward[p][q]
    BY <1>1, <2>1, NothingPassed
  <2>3. f \notin forward'[p][q]
    BY <1>t, <1>4, <2>2 DEF Register, EmptyEntry, NoEdges, TypeOK
  <2> QED
    BY <1>2, <2>1, <2>2, <2>3
<1>5. CASE SelfImport
  BY <1>1, <1>2, <1>5 DEF SelfImport, LinkImport
<1>6. CASE ~Register /\ ~SelfImport /\ ~LinkImport
  <2>1. forward' = forward
    BY <1>6 DEF Next, vars, BeginLinking, NextFile, SkipImport, Return, Returned
  <2> QED
    BY <1>1, <1>2, <1>6, <2>1
<1> QED
  BY <1>3, <1>4, <1>5, <1>6

LEMMA ReverseStep ==
    ASSUME Inv, [Next]_vars PROVE ReverseInv'
<1> SUFFICES ASSUME NEW p \in Package, NEW q \in Package
             PROVE  p \in reverse'[q] <=> p # q /\ HasEdge(p, q)'
  BY DEF ReverseInv
<1>t. TypeOK
  BY DEF Inv
<1>1. p \in reverse[q] <=> p # q /\ HasEdge(p, q)
  BY DEF Inv, ReverseInv
<1>2. HasEdge(p, q)' <=>
        HasEdge(p, q) \/ ((SelfImport \/ LinkImport) /\ p = Source /\ q = Target)
  BY <1>t, EdgeStep
<1>3. CASE LinkImport
  <2>1. Source \in Package /\ Target \in Package /\ Source # Target
    BY <1>t, <1>3, SourceTarget DEF LinkImport
  <2>2. reverse' = [reverse EXCEPT ![Target] = @ \cup {Source}]
    BY <1>3 DEF LinkImport, AddEdge
  <2>3. p \in reverse'[q] <=> p \in reverse[q] \/ (p = Source /\ q = Target)
    BY <1>t, <2>1, <2>2 DEF TypeOK
  <2> QED
    BY <1>1, <1>2, <1>3, <2>1, <2>3
<1>4. CASE Register
  <2>1. phase = "register" /\ ~SelfImport /\ ~LinkImport
    BY <1>4 DEF Register, SelfImport, LinkImport, AtImport
  <2>2. ~HasEdge(p, q) /\ p \notin reverse[q]
    BY <1>1, <2>1, NothingPassed
  <2>3. p \notin reverse'[q]
    BY <1>t, <1>4, <2>2 DEF Register, EmptyEntry, TypeOK
  <2> QED
    BY <1>2, <2>1, <2>2, <2>3
<1>5. CASE SelfImport
  BY <1>1, <1>2, <1>5 DEF SelfImport, LinkImport
<1>6. CASE ~Register /\ ~SelfImport /\ ~LinkImport
  <2>1. reverse' = reverse
    BY <1>6 DEF Next, vars, BeginLinking, NextFile, SkipImport, Return, Returned
  <2> QED
    BY <1>1, <1>2, <1>6, <2>1
<1> QED
  BY <1>3, <1>4, <1>5, <1>6

LEMMA ImportedStep ==
    ASSUME Inv, [Next]_vars PROVE ImportedInv'
<1> SUFFICES ASSUME NEW q \in Package
             PROVE  q \in imported' <=> \E p \in Package : HasEdge(p, q)'
  BY DEF ImportedInv
<1>t. TypeOK
  BY DEF Inv
<1>1. q \in imported <=> \E p \in Package : HasEdge(p, q)
  BY DEF Inv, ImportedInv
<1>2. \A p \in Package : HasEdge(p, q)' <=>
        HasEdge(p, q) \/ ((SelfImport \/ LinkImport) /\ p = Source /\ q = Target)
  BY <1>t, EdgeStep
<1>3. CASE SelfImport \/ LinkImport
  <2>1. Source \in Package /\ imported' = imported \cup {Target}
    BY <1>t, <1>3, SourceTarget DEF SelfImport, LinkImport
  <2> QED
    BY <1>1, <1>2, <1>3, <2>1
<1>4. CASE ~SelfImport /\ ~LinkImport
  <2>1. imported' = imported
    BY <1>4 DEF Next, vars, Register, BeginLinking, NextFile, SkipImport, Return, Returned
  <2> QED
    BY <1>1, <1>2, <1>4, <2>1
<1> QED
  BY <1>3, <1>4

LEMMA KnownStep ==
    ASSUME Inv, [Next]_vars PROVE KnownInv'
<1> DEFINE Owned(p) == \E k \in 1..Len(files) : Registered(k) /\ Belongs(k, p)
           Linkable(p) == \E q \in Package : HasEdge(q, p)
<1> SUFFICES ASSUME NEW p \in Package
             PROVE  p \in known' <=> Owned(p)' \/ Linkable(p)'
  BY DEF KnownInv
<1>t. TypeOK
  BY DEF Inv
<1>i. Input
  BY <1>t, InputShape DEF TypeOK
<1>1. p \in known <=> Owned(p) \/ Linkable(p)
  BY DEF Inv, KnownInv
<1>2. \A q \in Package : HasEdge(q, p)' <=>
        HasEdge(q, p) \/ ((SelfImport \/ LinkImport) /\ q = Source /\ p = Target)
  BY <1>t, EdgeStep
<1>3. CASE SelfImport \/ LinkImport
  <2>1. /\ Source \in Package /\ AtImport
        /\ file \in 1..Len(files) /\ Current = files[file]
        /\ ~Ignored(CurrentImport)
    BY <1>t, <1>3, SourceTarget DEF SelfImport, LinkImport
  <2>2. Linkable(p)' <=> Linkable(p) \/ p = Target
    BY <1>2, <1>3, <2>1
  <2>3. Owned(p)' <=> Owned(p)
    BY <1>3 DEF SelfImport, LinkImport, AtImport, Registered, Belongs
  <2>4. CASE LinkImport
    <3>1. known' = known \cup {Target}
      BY <2>4 DEF LinkImport, AddEdge
    <3> QED
      BY <1>1, <2>2, <2>3, <3>1
  <2>5. CASE SelfImport
    <3>1. known' = known /\ Source = Target
      BY <2>5 DEF SelfImport
    <3>2. Owned(Source)
      BY <2>1 DEF AtImport, Registered, Belongs, Source
    <3> QED
      BY <1>1, <2>2, <2>3, <3>1, <3>2
  <2> QED
    BY <1>3, <2>4, <2>5
<1>4. CASE ~SelfImport /\ ~LinkImport
  <2>1. Linkable(p)' <=> Linkable(p)
    BY <1>2, <1>4
  <2>2. CASE Register
    <3>1. /\ files' = files /\ phase = "register" /\ phase' = phase
          /\ file' = file + 1 /\ file \in 1..Len(files) /\ file \in Nat
          /\ Len(files) \in Nat
      BY <1>t, <1>i, <2>2 DEF Register, TypeOK, Input
    <3>2. Owned(p)' <=> Owned(p) \/ Belongs(file, p)
      BY <3>1 DEF Registered, Belongs
    <3>3. p \in known' <=> p \in known \/ Belongs(file, p)
      BY <2>2 DEF Register, EmptyEntry, Belongs, Current
    <3> QED
      BY <1>1, <2>1, <3>2, <3>3
  <2>3. CASE BeginLinking
    <3>1. Owned(p)' <=> Owned(p)
      BY <1>t, <1>i, <2>3 DEF BeginLinking, Registered, Belongs, TypeOK, Input
    <3> QED
      BY <1>1, <2>1, <2>3, <3>1 DEF BeginLinking
  <2>4. CASE ~Register /\ ~BeginLinking
    <3>1. /\ known' = known /\ files' = files
          /\ \/ phase' = phase /\ file' = file
             \/ phase # "register" /\ phase' # "register"
      <4>1. CASE UNCHANGED vars
        BY <4>1 DEF vars
      <4>2. CASE NextFile \/ SkipImport \/ Return
        BY <4>2 DEF NextFile, SkipImport, AtImport, Return
      <4> QED
        BY <1>4, <2>4, <4>1, <4>2 DEF Next, Returned
    <3>2. Owned(p)' <=> Owned(p)
      BY <3>1 DEF Registered, Belongs
    <3> QED
      BY <1>1, <2>1, <3>1, <3>2
  <2> QED
    BY <2>2, <2>3, <2>4
<1> QED
  BY <1>3, <1>4

LEMMA InvStep == Inv /\ [Next]_vars => Inv'
  BY TypeStep, ForwardStep, ReverseStep, ImportedStep, KnownStep DEF Inv

LEMMA Invariant == Spec => []Inv
  BY InvInit, InvStep, PTL DEF Spec

-----------------------------------------------------------------------------
(* The properties of the runs follow from the invariant. *)

LEMMA PropertiesHold ==
    ASSUME Inv
    PROVE  EdgesExact /\ ReverseIsTranspose /\ NoNilMapWrite
           /\ ImportedExact /\ KnownExact
<1>t. TypeOK /\ Input
  BY InputShape DEF Inv, TypeOK
<1>1. EdgesExact
  <2> SUFFICES ASSUME NEW p \in Package, NEW q \in Package
               PROVE  forward[p][q] =
                        {f \in FileId :
                            /\ p # q
                            /\ \E k \in 1..Len(files) :
                                /\ files[k].path = f
                                /\ \E i \in 1..Len(files[k].imports) :
                                    Linked(k, i) /\ Imports(k, i, p, q)}
    BY DEF EdgesExact
  <2>1. forward[p][q] \subseteq FileId
    BY <1>t DEF TypeOK
  <2>2. \A f \in FileId : f \in forward[p][q] <=> p # q /\ FormsEdge(f, p, q)
    BY DEF Inv, ForwardInv
  <2> QED
    BY <2>1, <2>2 DEF FormsEdge, Passed
<1>2. ReverseIsTranspose
  <2> SUFFICES ASSUME NEW p \in Package, NEW q \in Package
               PROVE  p \in reverse[q] <=> forward[p][q] # {}
    BY DEF ReverseIsTranspose
  <2>1. HasEdge(p, q) <=> \E f \in FileId : FormsEdge(f, p, q)
    BY <1>t DEF HasEdge, FormsEdge, Input
  <2>2. forward[p][q] \subseteq FileId
    BY <1>t DEF TypeOK
  <2> QED
    BY <2>1, <2>2 DEF Inv, ForwardInv, ReverseInv
<1>3. NoNilMapWrite
  <2>1. ASSUME AtImport PROVE Source \in known
    <3>1. file \in 1..Len(files) /\ Current = files[file] /\ Source \in Package
      BY <1>t, <2>1, SourceTarget
    <3>2. Registered(file) /\ Belongs(file, Source)
      BY <2>1, <3>1 DEF AtImport, Registered, Belongs, Source
    <3> QED
      BY <3>1, <3>2 DEF Inv, KnownInv
  <2>2. ASSUME NEW p \in Package, NEW q \in Package, forward[p][q] # {}
        PROVE  p \in known /\ q \in known
    <3>1. HasEdge(p, q)
      BY <1>t, <1>2, <2>2 DEF ReverseIsTranspose, Inv, ReverseInv
    <3>2. q \in known
      BY <3>1 DEF Inv, KnownInv
    <3>3. \E k \in 1..Len(files) : Registered(k) /\ Belongs(k, p)
      BY <3>1 DEF HasEdge, Passed, Linked, Imports, Registered, Belongs
    <3> QED
      BY <3>2, <3>3 DEF Inv, KnownInv
  <2> QED
    BY <2>1, <2>2 DEF NoNilMapWrite
<1>4. ImportedExact
  <2>1. imported \subseteq Package
    BY <1>t DEF TypeOK
  <2>2. \A p, q : HasEdge(p, q) <=> LinkedImport(p, q)
    BY DEF HasEdge, LinkedImport, Passed
  <2> QED
    BY <2>1, <2>2 DEF ImportedExact, Inv, ImportedInv
<1>5. KnownExact
  <2> SUFFICES ASSUME phase = "built"
               PROVE  known = {p \in Package :
                            \/ \E k \in 1..Len(files) :
                                files[k].pkg # NoPath /\ Clean[files[k].pkg] = p
                            \/ \E q \in Package : LinkedImport(q, p)}
    BY DEF KnownExact
  <2>1. known \subseteq Package
    BY <1>t DEF TypeOK
  <2>2. \A p, q : HasEdge(p, q) <=> LinkedImport(p, q)
    BY DEF HasEdge, LinkedImport, Passed
  <2>3. \A k, p : Registered(k) /\ Belongs(k, p) <=>
            files[k].pkg # NoPath /\ Clean[files[k].pkg] = p
    BY DEF Registered, Belongs
  <2> QED
    BY <2>1, <2>2, <2>3 DEF Inv, KnownInv
<1> QED
  BY <1>1, <1>2, <1>3, <1>4, <1>5

(* The provenance of every edge is exactly the files whose imports form it, *)
(* at every step and for every list of files.                               *)
THEOREM EdgesCorrect == Spec => []EdgesExact
  BY Invariant, PropertiesHold, PTL

(* forward and reverse describe one relation at every step. *)
THEOREM TransposeCorrect == Spec => []ReverseIsTranspose
  BY Invariant, PropertiesHold, PTL

(* Build never writes into a nil map. *)
THEOREM NilMapFree == Spec => []NoNilMapWrite
  BY Invariant, PropertiesHold, PTL

(* imported is exactly the set of local targets. *)
THEOREM ImportedCorrect == Spec => []ImportedExact
  BY Invariant, PropertiesHold, PTL

(* The keys of a finished graph are exactly the observed packages. *)
THEOREM KnownCorrect == Spec => []KnownExact
  BY Invariant, PropertiesHold, PTL

(* Build's three maps are the graph its input describes. *)
THEOREM MapsCorrect == Spec => []MapsExact
  BY Invariant, PropertiesHold, PTL DEF MapsExact

(* The second loop takes nothing back. *)
THEOREM GrowsOnly == Spec => OnlyGrows
<1>1. ASSUME TypeOK, [Next]_vars
      PROVE  phase # "register" =>
                /\ known \subseteq known'
                /\ imported \subseteq imported'
                /\ \A q \in Package :
                    /\ reverse[q] \subseteq reverse'[q]
                    /\ \A p \in Package : forward[p][q] \subseteq forward'[p][q]
  <2> SUFFICES ASSUME phase # "register"
               PROVE  /\ known \subseteq known' /\ imported \subseteq imported'
                      /\ \A q \in Package :
                            /\ reverse[q] \subseteq reverse'[q]
                            /\ \A p \in Package : forward[p][q] \subseteq forward'[p][q]
    OBVIOUS
  <2>1. CASE LinkImport
    <3>1. Source \in Package /\ Target \in Package
      BY <1>1, <2>1, SourceTarget DEF LinkImport
    <3> QED
      BY <1>1, <2>1, <3>1 DEF LinkImport, AddEdge, TypeOK
  <2>2. CASE ~LinkImport
    <3>1. UNCHANGED <<known, forward, reverse>> /\ imported \subseteq imported'
      BY <1>1, <2>2 DEF Next, vars, Register, BeginLinking, NextFile, SkipImport,
             SelfImport, Return, Returned
    <3> QED
      BY <3>1
  <2> QED
    BY <2>1, <2>2
<1>2. TypeOK /\ [Next]_vars =>
        [phase # "register" =>
            /\ known \subseteq known'
            /\ imported \subseteq imported'
            /\ \A q \in Package :
                /\ reverse[q] \subseteq reverse'[q]
                /\ \A p \in Package : forward[p][q] \subseteq forward'[p][q]]_vars
  BY <1>1
<1> QED
  BY <1>2, TypeCorrect, PTL DEF Spec, OnlyGrows


-----------------------------------------------------------------------------
(* The graph Matching reads from the files is the one Build returns. *)

(* SetToSeq lists the elements of a finite set. *)
LEMMA SetToSeqElements ==
    ASSUME NEW S, IsFiniteSet(S)
    PROVE  /\ SetToSeq(S) \in Seq(S)
           /\ {SetToSeq(S)[k] : k \in 1..Len(SetToSeq(S))} = S
<1> DEFINE n == Cardinality(S)
<1>1. n \in Nat /\ 1 \in Int /\ n \in Int
  BY FS_CardinalityType
<1>2. IsFiniteSet(1..n) /\ Cardinality(1..n) = n
  BY <1>1, FS_Interval
<1> HIDE DEF n
<1>3. ExistsBijection(1..n, S)
  BY <1>2, FS_SameCardinalityBij DEF n
<1>4. \E f \in [1..n -> S] : IsInjective(f)
  BY <1>3 DEF ExistsBijection, Bijection, Injection
<1> DEFINE list == SetToSeq(S)
<1>5. list \in [1..n -> S] /\ IsInjective(list)
  BY <1>4 DEF SetToSeq, n
<1> HIDE DEF list
<1>6. list \in Injection(1..n, S)
  BY <1>5 DEF Injection
<1>7. list \in Surjection(1..n, S)
  BY <1>2, <1>6, FS_Injection DEF n
<1>8. list \in Seq(S) /\ Len(list) = n
  BY <1>1, <1>5
<1>9. {list[k] : k \in 1..n} = S
  BY <1>5, <1>7 DEF Surjection
<1> QED
  BY <1>8, <1>9 DEF list

LEMMA CanonicalFiles ==
    ASSUME Input
    PROVE  Matching!FilesOf(Canonical) = {CanonicalFile(files[k]) : k \in NamedFiles}
<1> DEFINE S == {CanonicalFile(files[k]) : k \in NamedFiles}
           f == [k \in NamedFiles |-> CanonicalFile(files[k])]
<1>1. Len(files) \in Nat /\ DOMAIN files = 1..Len(files) /\ 1 \in Int
  BY DEF Input
<1>2. IsFiniteSet(NamedFiles)
  <2>1. IsFiniteSet(1..Len(files))
    BY <1>1, FS_Interval
  <2>2. NamedFiles \in SUBSET (1..Len(files))
    BY <1>1 DEF NamedFiles
  <2> QED
    BY <2>1, <2>2, FS_Subset
<1>3. f \in Surjection(NamedFiles, S)
  BY DEF Surjection
<1>4. IsFiniteSet(S)
  <2> HIDE DEF f, S
  <2> QED
    BY <1>2, <1>3, FS_Surjection
<1> HIDE DEF f, S
<1>5. {SetToSeq(S)[k] : k \in 1..Len(SetToSeq(S))} = S
  BY <1>4, SetToSeqElements
<1>6. Canonical = SetToSeq(S)
  BY DEF Canonical, S
<1> QED
  BY <1>5, <1>6 DEF Matching!FilesOf, S
(* What Matching reads of one of them. *)
LEMMA CanonicalFields ==
    ASSUME Input, NEW k \in NamedFiles
    PROVE  /\ k \in 1..Len(files)
           /\ CanonicalFile(files[k]).path = files[k].path
           /\ CanonicalFile(files[k]).pkg = Clean[files[k].pkg]
           /\ Clean[files[k].pkg] \in Package
           /\ Matching!LocalTargets(CanonicalFile(files[k])) =
                {Clean[files[k].imports[i].resolved] :
                    i \in {j \in 1..Len(files[k].imports) : ~Ignored(files[k].imports[j])}}
           /\ Matching!LocalTargets(CanonicalFile(files[k])) \subseteq Package
<1> DEFINE list == files[k].imports
           f == CanonicalFile(files[k])
<1>1. /\ k \in 1..Len(files) /\ files[k] \in SourceFile
      /\ files[k].pkg \in Path /\ files[k].imports \in Seq(Import)
  BY DEF Input, NamedFiles
<1>2. Clean[files[k].pkg] \in Package
  BY <1>1 DEF Package
<1>3. f = [files[k] EXCEPT !.pkg = Clean[@],
                           !.imports = [i \in DOMAIN list |-> CanonicalImport(list[i])]]
  BY DEF CanonicalFile
<1>4. DOMAIN files[k] = {"path", "pkg", "imports"}
  BY <1>1 DEF SourceFile
<1>5. /\ f.path = files[k].path /\ f.pkg = Clean[files[k].pkg]
      /\ f.imports = [i \in DOMAIN list |-> CanonicalImport(list[i])]
  BY <1>3, <1>4
<1>6. DOMAIN list = 1..Len(list) /\ Len(list) \in Nat
  BY <1>1
<1>7. DOMAIN f.imports = 1..Len(list) /\ Len(f.imports) = Len(list)
  BY <1>5, <1>6
<1>8. ASSUME NEW i \in 1..Len(list)
      PROVE  /\ f.imports[i].type = list[i].type
             /\ f.imports[i].resolved = "" <=> list[i].resolved = NoPath
             /\ list[i].resolved # NoPath =>
                    /\ f.imports[i].resolved = Clean[list[i].resolved]
                    /\ Clean[list[i].resolved] \in Package
  <2>1. list[i] \in Import
    BY <1>1
  <2>2. f.imports[i] = CanonicalImport(list[i])
    BY <1>5, <1>6
  <2>3. DOMAIN list[i] = {"type", "resolved"} /\ list[i].resolved \in Path \cup {NoPath}
    BY <2>1 DEF Import
  <2>4. CASE list[i].resolved = NoPath
    BY <2>2, <2>4, EmptyPathAssumption DEF CanonicalImport
  <2>5. CASE list[i].resolved # NoPath
    <3>1. f.imports[i] = [list[i] EXCEPT !.resolved = Clean[list[i].resolved]]
      BY <2>2, <2>5 DEF CanonicalImport
    <3>2. Clean[list[i].resolved] \in Path /\ Clean[list[i].resolved] \in Package
      BY <2>3, <2>5, CleanAssumption DEF Package
    <3>3. Clean[list[i].resolved] # ""
      BY <3>2, CleanAssumption, EmptyPathAssumption
    <3> QED
      BY <2>3, <2>5, <3>1, <3>2, <3>3
  <2> QED
    BY <2>4, <2>5
<1> HIDE DEF f, list
<1>9. \A i \in 1..Len(list) : Ignored(list[i]) <=> list[i].type # "local" \/ list[i].resolved = NoPath
  BY DEF Ignored
<1>10. Matching!LocalTargets(f) =
          {Clean[list[i].resolved] : i \in {j \in 1..Len(list) : ~Ignored(list[j])}}
  <2>1. Matching!LocalTargets(f) =
          {f.imports[i].resolved : i \in {j \in 1..Len(list) :
              f.imports[j].type = "local" /\ f.imports[j].resolved # ""}}
    BY <1>7 DEF Matching!LocalTargets
  <2>2. {j \in 1..Len(list) : f.imports[j].type = "local" /\ f.imports[j].resolved # ""}
          = {j \in 1..Len(list) : ~Ignored(list[j])}
    BY <1>8, <1>9
  <2>3. \A i \in {j \in 1..Len(list) : ~Ignored(list[j])} :
            f.imports[i].resolved = Clean[list[i].resolved]
    BY <1>8, <1>9
  <2> DEFINE Local == {j \in 1..Len(list) : ~Ignored(list[j])}
  <2>4. Matching!LocalTargets(f) = {f.imports[i].resolved : i \in Local}
    BY <2>1, <2>2
  <2> HIDE DEF Local
  <2>5. {f.imports[i].resolved : i \in Local} = {Clean[list[i].resolved] : i \in Local}
    BY <2>3 DEF Local
  <2> QED
    BY <2>4, <2>5 DEF Local
<1>11. Matching!LocalTargets(f) \subseteq Package
  BY <1>8, <1>9, <1>10
<1> QED
  BY <1>1, <1>2, <1>5, <1>10, <1>11 DEF f, list

(* The finished graph, seen from Matching. *)
LEMMA GraphOfFiles ==
    ASSUME Inv, phase = "built", NEW excluded
    PROVE  /\ known = Matching!Known(Canonical)
           /\ imported = Matching!Imported(Canonical)
           /\ DOMAIN Matching!Edges(Canonical, excluded) = known
           /\ \A p \in known :
                Matching!Edges(Canonical, excluded)[p] =
                    {q \in Package : forward[p][q] \ excluded # {}}
<1> DEFINE Targets(k) == Matching!LocalTargets(CanonicalFile(files[k]))
<1>t. TypeOK /\ Input /\ EdgesExact /\ NoNilMapWrite /\ ImportedExact /\ KnownExact
  BY InputShape, PropertiesHold DEF Inv, TypeOK
<1>f. Matching!FilesOf(Canonical) = {CanonicalFile(files[k]) : k \in NamedFiles}
  BY <1>t, CanonicalFiles
<1>n. \A k \in 1..Len(files) : k \in NamedFiles <=> files[k].pkg # NoPath
  BY <1>t DEF Input, NamedFiles
<1>k. \A k \in NamedFiles :
        /\ k \in 1..Len(files)
        /\ CanonicalFile(files[k]).path = files[k].path
        /\ CanonicalFile(files[k]).pkg = Clean[files[k].pkg]
        /\ Clean[files[k].pkg] \in Package
        /\ Targets(k) \subseteq Package
  BY <1>t, CanonicalFields
<1>m. \A k \in NamedFiles : \A q :
        q \in Targets(k) <=>
            \E i \in 1..Len(files[k].imports) :
                ~Ignored(files[k].imports[i]) /\ Clean[files[k].imports[i].resolved] = q
  <2> SUFFICES ASSUME NEW k \in NamedFiles, NEW q
               PROVE  q \in Targets(k) <=>
                        \E i \in 1..Len(files[k].imports) :
                            /\ ~Ignored(files[k].imports[i])
                            /\ Clean[files[k].imports[i].resolved] = q
    OBVIOUS
  <2>1. Targets(k) = {Clean[files[k].imports[i].resolved] :
                        i \in {j \in 1..Len(files[k].imports) : ~Ignored(files[k].imports[j])}}
    BY <1>t, CanonicalFields
  <2> QED
    BY <2>1
<1> HIDE DEF Targets
<1>p. \A p, q : LinkedImport(p, q) <=>
        \E k \in NamedFiles : Clean[files[k].pkg] = p /\ q \in Targets(k)
  <2> SUFFICES ASSUME NEW p, NEW q
               PROVE  LinkedImport(p, q) <=>
                        \E k \in NamedFiles : Clean[files[k].pkg] = p /\ q \in Targets(k)
    OBVIOUS
  <2>1. LinkedImport(p, q) <=>
            \E k \in 1..Len(files) :
                /\ files[k].pkg # NoPath /\ Clean[files[k].pkg] = p
                /\ \E i \in 1..Len(files[k].imports) :
                    ~Ignored(files[k].imports[i]) /\ Clean[files[k].imports[i].resolved] = q
    BY DEF LinkedImport, Linked, Imports
  <2> QED
    BY <1>n, <1>k, <1>m, <2>1
<1>1. Matching!Imported(Canonical) = UNION {Targets(k) : k \in NamedFiles}
  BY <1>f DEF Matching!Imported, Targets
<1>2. imported = Matching!Imported(Canonical)
  BY <1>t, <1>k, <1>p, <1>1 DEF ImportedExact
<1>3. {f.pkg : f \in Matching!FilesOf(Canonical)} = {Clean[files[k].pkg] : k \in NamedFiles}
  BY <1>f, <1>k
<1>4. known = Matching!Known(Canonical)
  <2>1. \A p : p \in Matching!Known(Canonical) <=>
            \/ \E k \in NamedFiles : Clean[files[k].pkg] = p
            \/ \E k \in NamedFiles : p \in Targets(k)
    BY <1>1, <1>3 DEF Matching!Known
  <2>2. \A p : p \in known <=>
            /\ p \in Package
            /\ \/ \E k \in NamedFiles : Clean[files[k].pkg] = p
               \/ \E q \in Package : LinkedImport(q, p)
    BY <1>t, <1>n, <1>k DEF KnownExact
  <2>3. \A p : p \in known <=> p \in Matching!Known(Canonical)
    BY <1>k, <1>p, <2>1, <2>2
  <2> QED
    BY <2>3
<1>5. /\ DOMAIN Matching!Edges(Canonical, excluded) = known
      /\ \A p \in known :
            Matching!Edges(Canonical, excluded)[p] =
                {q \in known \ {p} :
                    \E k \in NamedFiles : /\ Clean[files[k].pkg] = p
                                         /\ q \in Targets(k)
                                         /\ files[k].path \notin excluded}
  <2>1. \A p, q : (\E f \in Matching!FilesOf(Canonical) :
                    f.pkg = p /\ q \in Matching!LocalTargets(f) /\ f.path \notin excluded)
            <=> (\E k \in NamedFiles : /\ Clean[files[k].pkg] = p
                                       /\ q \in Targets(k)
                                       /\ files[k].path \notin excluded)
    BY <1>f, <1>k DEF Targets
  <2> QED
    BY <1>4, <2>1 DEF Matching!Edges
<1>6. ASSUME NEW p \in known, NEW q
      PROVE  q \in Matching!Edges(Canonical, excluded)[p] <=>
                q \in Package /\ forward[p][q] \ excluded # {}
  <2>1. p \in Package /\ known \subseteq Package
    BY <1>t DEF TypeOK
  <2>2. ASSUME q \in Package
        PROVE  forward[p][q] \ excluded # {} <=>
                /\ p # q
                /\ \E k \in NamedFiles : /\ Clean[files[k].pkg] = p
                                         /\ q \in Targets(k)
                                         /\ files[k].path \notin excluded
    <3>1. \A f : f \in forward[p][q] <=>
            /\ f \in FileId /\ p # q
            /\ \E k \in 1..Len(files) :
                /\ files[k].path = f
                /\ \E i \in 1..Len(files[k].imports) :
                    Linked(k, i) /\ Imports(k, i, p, q)
      BY <1>t, <2>1, <2>2 DEF EdgesExact
    <3>2. \A k \in 1..Len(files) :
            (\E i \in 1..Len(files[k].imports) : Linked(k, i) /\ Imports(k, i, p, q))
            <=> k \in NamedFiles /\ Clean[files[k].pkg] = p /\ q \in Targets(k)
      BY <1>n, <1>m DEF Linked, Imports
    <3>3. \A k \in 1..Len(files) : files[k].path \in FileId
      BY <1>t DEF Input
    <3> QED
      BY <1>k, <3>1, <3>2, <3>3
  <2>3. forward[p][q] \ excluded # {} /\ q \in Package => q \in known
    BY <1>t, <2>1 DEF NoNilMapWrite
  <2> QED
    BY <1>5, <2>1, <2>2, <2>3
<1>7. ASSUME NEW p \in known
      PROVE  Matching!Edges(Canonical, excluded)[p] =
                {q \in Package : forward[p][q] \ excluded # {}}
  BY <1>6
<1> QED
  BY <1>2, <1>4, <1>5, <1>7

-----------------------------------------------------------------------------
(* The search, as a query of the service runs it: the invariant of          *)
(* ClosureProofs, for the instance that works on Build's maps.              *)

KnownSeeds ==
    {Clean[seeds[i]] : i \in {j \in 1..Len(seeds) :
                                seeds[j] # NoPath /\ Clean[seeds[j]] \in known}}

SearchGraph ==
    /\ known \in SUBSET Package
    /\ succ \in [Package -> SUBSET Package]
    /\ \A p \in Package : succ[p] # {} => p \in known /\ succ[p] \subseteq known

SearchType ==
    /\ SearchGraph
    /\ seeds \in SeedLists
    /\ stage \in {"seed", "visit", "examine", "done"}
    /\ seed \in 1..(Len(seeds) + 1)
    /\ visited \subseteq Package
    /\ queue \in Seq(Package)
    /\ index \in 1..(Len(queue) + 1)
    /\ todo \subseteq Package

SeedsMarked ==
    /\ \A j \in 1..Len(seeds) :
        j < seed /\ seeds[j] # NoPath /\ Clean[seeds[j]] \in known
            => Clean[seeds[j]] \in visited
    /\ stage # "seed" => seed > Len(seeds)

Position ==
    /\ stage = "examine" =>
        /\ index <= Len(queue)
        /\ todo \subseteq succ[queue[index]]
    /\ stage = "done" => index > Len(queue)

MarkedReachable == visited \subseteq Reach(succ, KnownSeeds)

QueuedOnce ==
    /\ visited = {queue[i] : i \in 1..Len(queue)}
    /\ \A i, j \in 1..Len(queue) : queue[i] = queue[j] => i = j

ExpandedBehind ==
    \A i \in 1..Len(queue) :
        /\ i < index => succ[queue[i]] \subseteq visited
        /\ i = index /\ stage = "examine" => succ[queue[i]] \subseteq visited \cup todo

SearchInv ==
    /\ SearchType
    /\ SeedsMarked
    /\ Position
    /\ MarkedReachable
    /\ QueuedOnce
    /\ ExpandedBehind

LEMMA SeedTypes ==
    ASSUME SearchType
    PROVE  /\ Len(seeds) \in Nat
           /\ \A j \in 1..Len(seeds) : seeds[j] \in Path \cup {NoPath}
           /\ KnownSeeds \subseteq Package
<1>1. seeds \in Seq(Path \cup {NoPath})
  BY SeedListsAssumption DEF SearchType
<1>2. \A j \in 1..Len(seeds) : seeds[j] \in Path \cup {NoPath}
  BY <1>1
<1>3. KnownSeeds \subseteq known
  BY DEF KnownSeeds
<1> QED
  BY <1>1, <1>2, <1>3 DEF SearchType, SearchGraph

LEMMA ReachFacts ==
    ASSUME SearchType
    PROVE  /\ DOMAIN succ = Package
           /\ KnownSeeds \subseteq Reach(succ, KnownSeeds)
           /\ \A n \in Reach(succ, KnownSeeds) : succ[n] \subseteq Reach(succ, KnownSeeds)
<1>1. DOMAIN succ = Package /\ \A n \in DOMAIN succ : succ[n] \subseteq DOMAIN succ
  BY DEF SearchType, SearchGraph
<1>2. KnownSeeds \subseteq Reach(succ, KnownSeeds)
  BY <1>1, SeedTypes, ReachSeeds
<1>3. ClosedUnder(succ, Reach(succ, KnownSeeds))
  BY <1>1, ReachClosed
<1> QED
  BY <1>1, <1>2, <1>3 DEF ClosedUnder

(* A package that is marked and appended for the first time: what both      *)
(* discovering steps have in common.                                        *)
LEMMA DiscoverOne ==
    ASSUME SearchType, QueuedOnce, NEW p \in Package, p \notin visited, Search!Discover(p)
    PROVE  /\ visited' \subseteq Package
           /\ queue' \in Seq(Package)
           /\ Len(queue') = Len(queue) + 1
           /\ Len(queue) \in Nat
           /\ \A i \in 1..Len(queue) : queue'[i] = queue[i]
           /\ queue'[Len(queue) + 1] = p
           /\ visited' = {queue'[i] : i \in 1..Len(queue')}
           /\ \A i, j \in 1..Len(queue') : queue'[i] = queue'[j] => i = j
<1>1. queue \in Seq(Package) /\ queue' = Append(queue, p) /\ visited' = visited \cup {p}
  BY DEF SearchType, Search!Discover
<1>2. /\ queue' \in Seq(Package)
      /\ Len(queue') = Len(queue) + 1
      /\ Len(queue) \in Nat
      /\ \A i \in 1..Len(queue) : queue'[i] = queue[i]
      /\ queue'[Len(queue) + 1] = p
  BY <1>1
<1>3. visited' \subseteq Package
  BY <1>1 DEF SearchType
<1>4. \A i \in 1..Len(queue') : i \in 1..Len(queue) \/ i = Len(queue) + 1
  BY <1>2
<1>5. \A i \in 1..Len(queue) : queue[i] \in visited
  BY DEF QueuedOnce
<1>6. visited' = {queue'[i] : i \in 1..Len(queue')}
  <2>1. ASSUME NEW n \in visited' PROVE n \in {queue'[i] : i \in 1..Len(queue')}
    <3>1. CASE n = p
      BY <1>2, <3>1
    <3>2. CASE n # p
      <4>1. PICK i \in 1..Len(queue) : queue[i] = n
        BY <1>1, <3>2 DEF QueuedOnce
      <4>2. i \in 1..Len(queue') /\ queue'[i] = n
        BY <1>2, <4>1
      <4> QED
        BY <4>2
    <3> QED
      BY <3>1, <3>2
  <2>2. ASSUME NEW i \in 1..Len(queue') PROVE queue'[i] \in visited'
    BY <1>1, <1>2, <1>4, <1>5
  <2> QED
    BY <2>1, <2>2
<1>7. ASSUME NEW i \in 1..Len(queue'), NEW j \in 1..Len(queue'), queue'[i] = queue'[j]
      PROVE  i = j
  BY <1>2, <1>4, <1>5, <1>7 DEF QueuedOnce
<1> QED
  BY <1>2, <1>3, <1>6, <1>7

LEMMA AnswerStep ==
    ASSUME SearchInv, Search!Search, UNCHANGED known PROVE SearchInv'
<1> DEFINE R == Reach(succ, KnownSeeds)
<1>t. SearchType /\ SearchGraph
  BY DEF SearchInv, SearchType
<1>l. /\ Len(seeds) \in Nat /\ seed \in Nat /\ index \in Nat
      /\ Len(queue) \in Nat /\ queue \in Seq(Package)
  BY <1>t, SeedTypes DEF SearchType
<1>q. /\ visited = {queue[i] : i \in 1..Len(queue)}
      /\ \A i \in 1..Len(queue) : queue[i] \in visited /\ queue[i] \in Package
  BY <1>l DEF SearchInv, QueuedOnce
<1>r. /\ visited \subseteq R
      /\ \A n \in R : succ[n] \subseteq R
      /\ KnownSeeds \subseteq R
  BY <1>t, ReachFacts DEF SearchInv, MarkedReachable, KnownSeeds
<1>u. UNCHANGED <<known, succ, seeds>>
  BY DEF Search!Search, Search!TakeSeed, Search!SkipSeed, Search!BeginVisit, Search!Dequeue, Search!SkipSeen, Search!Enqueue,
         Search!Advance, Search!Return
<1>g. SearchGraph' /\ seeds' \in SeedLists
  BY <1>t, <1>u DEF SearchGraph, SearchType
<1>v. ASSUME visited' \subseteq R PROVE MarkedReachable'
  BY <1>u, <1>v DEF MarkedReachable, KnownSeeds
<1>1. CASE Search!TakeSeed
  <2> DEFINE p == Clean[seeds[seed]]
  <2>1. seed \in 1..Len(seeds) /\ seeds[seed] # NoPath /\ p \in known /\ p \notin visited
    BY <1>1, <1>l, <1>t DEF Search!TakeSeed, Search!Accepted, SearchType
  <2>2. p \in Package /\ p \in KnownSeeds
    BY <1>t, <2>1 DEF SearchGraph, KnownSeeds
  <2>3. Search!Discover(p)
    BY <1>1 DEF Search!TakeSeed
  <2>4. /\ visited' \subseteq Package
        /\ queue' \in Seq(Package)
        /\ Len(queue') = Len(queue) + 1
        /\ \A i \in 1..Len(queue) : queue'[i] = queue[i]
        /\ QueuedOnce'
    BY <1>t, <2>1, <2>2, <2>3, DiscoverOne DEF SearchInv, QueuedOnce
  <2>5. SearchType'
    BY <1>1, <1>g, <1>l, <1>t, <2>4 DEF SearchType, Search!TakeSeed
  <2>6. SeedsMarked'
    <3>1. ASSUME NEW j \in 1..Len(seeds), j < seed + 1, seeds[j] # NoPath,
                 Clean[seeds[j]] \in known
          PROVE  Clean[seeds[j]] \in visited'
      <4>1. CASE j = seed
        BY <2>3, <4>1 DEF Search!Discover
      <4>2. CASE j < seed
        BY <2>3, <3>1, <4>2 DEF Search!Discover, SearchInv, SeedsMarked
      <4> QED
        BY <1>l, <3>1, <4>1, <4>2
    <3> QED
      BY <1>1, <1>u, <3>1 DEF Search!TakeSeed, SeedsMarked
  <2>7. Position'
    BY <1>1 DEF Search!TakeSeed, Position
  <2>8. MarkedReachable'
    BY <1>r, <1>v, <2>2, <2>3 DEF Search!Discover
  <2>9. ExpandedBehind'
    BY <1>1, <1>t, <1>l, <2>4 DEF Search!TakeSeed, SearchType, ExpandedBehind, Search!Discover, SearchInv
  <2> QED
    BY <2>4, <2>5, <2>6, <2>7, <2>8, <2>9 DEF SearchInv
<1>2. CASE Search!SkipSeed
  <2>1. SearchType'
    BY <1>2, <1>g, <1>l, <1>t DEF SearchType, Search!SkipSeed
  <2>2. SeedsMarked'
    BY <1>2, <1>l DEF Search!SkipSeed, Search!Accepted, SeedsMarked, SearchInv
  <2> QED
    BY <1>2, <1>r, <1>v, <2>1, <2>2
       DEF Search!SkipSeed, SearchInv, Position, QueuedOnce, ExpandedBehind
<1>3. CASE Search!BeginVisit
  BY <1>3, <1>g, <1>r, <1>v, <1>t
     DEF Search!BeginVisit, SearchInv, SearchType, SeedsMarked, Position, QueuedOnce, ExpandedBehind
<1>4. CASE Search!Dequeue
  <2>1. index \in 1..Len(queue) /\ todo' = succ[queue[index]]
    BY <1>4, <1>l, <1>t DEF Search!Dequeue, SearchType
  <2>2. SearchType'
    BY <1>4, <1>g, <1>q, <1>t, <2>1 DEF Search!Dequeue, SearchType, SearchGraph
  <2>3. Position'
    BY <1>4, <2>1 DEF Search!Dequeue, Position
  <2>4. ExpandedBehind'
    BY <1>4, <2>1 DEF Search!Dequeue, ExpandedBehind, SearchInv
  <2> QED
    BY <1>4, <1>r, <1>v, <2>2, <2>3, <2>4 DEF Search!Dequeue, SearchInv, SeedsMarked, QueuedOnce
<1>5. CASE Search!SkipSeen
  <2>1. PICK next \in todo : next \in visited /\ todo' = todo \ {next}
    BY <1>5 DEF Search!SkipSeen
  <2>2. SearchType'
    BY <1>5, <1>g, <1>t, <2>1 DEF Search!SkipSeen, SearchType
  <2>3. Position'
    BY <1>5, <2>1 DEF Search!SkipSeen, Position, SearchInv
  <2>4. ExpandedBehind'
    BY <1>5, <2>1 DEF Search!SkipSeen, ExpandedBehind, SearchInv
  <2> QED
    BY <1>5, <1>r, <1>v, <2>2, <2>3, <2>4 DEF Search!SkipSeen, SearchInv, SeedsMarked, QueuedOnce
<1>6. CASE Search!Enqueue
  <2>1. PICK next \in todo : next \notin visited /\ Search!Discover(next) /\ todo' = todo \ {next}
    BY <1>6 DEF Search!Enqueue
  <2>2. stage = "examine" /\ index \in 1..Len(queue) /\ next \in succ[queue[index]]
    BY <1>6, <1>l, <1>t, <2>1 DEF Search!Enqueue, SearchInv, Position, SearchType
  <2>3. next \in Package /\ next \in R
    BY <1>q, <1>r, <1>t, <2>1, <2>2 DEF SearchType
  <2>4. /\ visited' \subseteq Package
        /\ queue' \in Seq(Package)
        /\ Len(queue') = Len(queue) + 1
        /\ \A i \in 1..Len(queue) : queue'[i] = queue[i]
        /\ QueuedOnce'
    BY <1>t, <2>1, <2>3, DiscoverOne DEF SearchInv, QueuedOnce
  <2>5. SearchType'
    BY <1>6, <1>g, <1>l, <1>t, <2>1, <2>4 DEF SearchType, Search!Enqueue
  <2>6. SeedsMarked'
    BY <1>6, <2>1 DEF Search!Enqueue, Search!Discover, SeedsMarked, SearchInv
  <2>7. Position'
    BY <1>6, <1>u, <1>l, <2>1, <2>2, <2>4 DEF Search!Enqueue, Position, SearchInv
  <2>8. MarkedReachable'
    BY <1>r, <1>v, <2>1, <2>3 DEF Search!Discover
  <2>9. ExpandedBehind'
    <3>1. ASSUME NEW i \in 1..Len(queue'), i < index
          PROVE  succ'[queue'[i]] \subseteq visited'
      <4>1. i \in 1..Len(queue) /\ queue'[i] = queue[i]
        BY <1>l, <2>2, <2>4, <3>1
      <4> QED
        BY <1>u, <2>1, <3>1, <4>1 DEF ExpandedBehind, SearchInv, Search!Discover
    <3>2. succ'[queue'[index]] \subseteq visited' \cup todo'
      BY <1>u, <2>1, <2>2, <2>4 DEF ExpandedBehind, SearchInv, Search!Discover
    <3> QED
      BY <1>6, <3>1, <3>2 DEF Search!Enqueue, ExpandedBehind
  <2> QED
    BY <2>4, <2>5, <2>6, <2>7, <2>8, <2>9 DEF SearchInv
<1>7. CASE Search!Advance
  <2>1. stage = "examine" /\ todo = {} /\ index \in 1..Len(queue) /\ index' = index + 1
    BY <1>7, <1>l, <1>t DEF Search!Advance, SearchInv, Position, SearchType
  <2>2. SearchType'
    BY <1>7, <1>g, <1>l, <1>t, <2>1 DEF Search!Advance, SearchType
  <2>3. ExpandedBehind'
    BY <1>7, <1>l, <2>1 DEF Search!Advance, ExpandedBehind, SearchInv
  <2> QED
    BY <1>7, <1>r, <1>v, <2>2, <2>3 DEF Search!Advance, SearchInv, SeedsMarked, Position, QueuedOnce
<1>8. CASE Search!Return
  BY <1>8, <1>g, <1>r, <1>v, <1>t
     DEF Search!Return, SearchInv, SearchType, SeedsMarked, Position, QueuedOnce, ExpandedBehind
<1> QED
  BY <1>1, <1>2, <1>3, <1>4, <1>5, <1>6, <1>7, <1>8 DEF Search!Search

(* A finished search has marked every reachable package. *)
LEMMA AnswerComplete ==
    ASSUME SearchInv, index > Len(queue), stage # "seed"
    PROVE  visited = Reach(succ, KnownSeeds)
<1>t. SearchType
  BY DEF SearchInv
<1>1. visited \in SUBSET DOMAIN succ
  BY <1>t DEF SearchType, SearchGraph
<1>2. KnownSeeds \subseteq visited
  BY <1>t, SeedTypes DEF KnownSeeds, SearchInv, SeedsMarked, SearchType
<1>3. ClosedUnder(succ, visited)
  <2> SUFFICES ASSUME NEW n \in visited PROVE succ[n] \subseteq visited
    BY DEF ClosedUnder
  <2>1. PICK i \in 1..Len(queue) : queue[i] = n
    BY DEF SearchInv, QueuedOnce
  <2>2. i < index
    BY <1>t, <2>1 DEF SearchType
  <2> QED
    BY <2>1, <2>2 DEF SearchInv, ExpandedBehind
<1>4. Reach(succ, KnownSeeds) \subseteq visited
  BY <1>1, <1>2, <1>3, ReachLeast
<1> QED
  BY <1>4 DEF SearchInv, MarkedReachable, KnownSeeds

-----------------------------------------------------------------------------
(* The service: a query starts from Build's finished maps and leaves them   *)
(* alone, so every query answers from the imports.                          *)

ServiceInv ==
    /\ Inv
    /\ stage # "idle" =>
        /\ phase = "built"
        /\ SearchInv
        /\ asked \in Queries
        /\ succ = Follow(asked)

(* The edges a query follows lead from key to key. *)
LEMMA FollowGraph ==
    ASSUME Inv, NEW query \in Queries
    PROVE  /\ known \in SUBSET Package
           /\ Follow(query) \in [Package -> SUBSET Package]
           /\ \A p \in Package :
                Follow(query)[p] # {} => p \in known /\ Follow(query)[p] \subseteq known
<1>1. TypeOK /\ NoNilMapWrite /\ ReverseIsTranspose
  BY PropertiesHold DEF Inv
<1>2. CASE query.direction = "forward"
  <2>1. \A p, q \in Package : q \in Follow(query)[p] <=> forward[p][q] \ query.excluded # {}
    BY <1>2 DEF Follow, AnyAccepted
  <2>2. Follow(query) \in [Package -> SUBSET Package]
    BY <1>2 DEF Follow
  <2>3. \A p, q \in Package : q \in Follow(query)[p] => p \in known /\ q \in known
    BY <1>1, <2>1 DEF NoNilMapWrite
  <2> QED
    BY <1>1, <2>2, <2>3 DEF TypeOK
<1>3. CASE query.direction # "forward"
  <2>1. Follow(query) = reverse
    BY <1>3 DEF Follow
  <2>2. reverse \in [Package -> SUBSET Package] /\ known \in SUBSET Package
    BY <1>1 DEF TypeOK
  <2>3. \A p, q \in Package : q \in reverse[p] => p \in known /\ q \in known
    BY <1>1 DEF NoNilMapWrite, ReverseIsTranspose
  <2> QED
    BY <2>1, <2>2, <2>3
<1> QED
  BY <1>2, <1>3

LEMMA ServiceInit == Setup => ServiceInv
  BY InvInit DEF Setup, ServiceInv

LEMMA BuildServes == ASSUME ServiceInv, Build PROVE ServiceInv'
<1>1. Next /\ UNCHANGED searchVars
  BY DEF Build
<1>2. Inv'
  BY <1>1, InvStep DEF ServiceInv
<1>3. CASE stage = "idle"
  BY <1>1, <1>2, <1>3 DEF ServiceInv, searchVars
<1>4. CASE stage # "idle"
  <2>1. UNCHANGED vars
    BY <1>1, <1>4 DEF ServiceInv, Next, Register, BeginLinking, NextFile, SkipImport, AtImport,
           SelfImport, LinkImport, Return, Returned
  <2>2. UNCHANGED <<phase, known, reverse, forward, searchVars>>
    BY <1>1, <2>1 DEF vars
  <2>3. SearchInv'
    BY <1>4, <2>2 DEF ServiceInv, searchVars, SearchInv, SearchType, SearchGraph, SeedsMarked,
           Position, MarkedReachable, KnownSeeds, QueuedOnce, ExpandedBehind
  <2> QED
    BY <1>2, <1>4, <2>2, <2>3 DEF ServiceInv, searchVars, Follow
<1> QED
  BY <1>3, <1>4

LEMMA AskServes == ASSUME ServiceInv, Ask PROVE ServiceInv'
<1>1. PICK query \in Queries, list \in SeedLists :
        asked' = query /\ succ' = Follow(query) /\ seeds' = list
  BY DEF Ask
<1>2. /\ phase = "built" /\ UNCHANGED vars
      /\ stage' = "seed" /\ seed' = 1 /\ visited' = {}
      /\ queue' = <<>> /\ index' = 1 /\ todo' = {}
  BY DEF Ask
<1>3. UNCHANGED <<files, phase, file, imp, known, forward, reverse, imported>>
  BY <1>2 DEF vars
<1>4. Inv'
  BY <1>2, InvStep DEF ServiceInv
<1>5. Len(list) \in Nat
  BY SeedListsAssumption
<1>6. SearchGraph'
  BY <1>1, <1>3, FollowGraph DEF ServiceInv, SearchGraph
<1>7. SearchType'
  BY <1>1, <1>2, <1>5, <1>6 DEF SearchType
<1>8. (SeedsMarked /\ Position /\ MarkedReachable /\ QueuedOnce /\ ExpandedBehind)'
  BY <1>1, <1>2, <1>5 DEF SeedsMarked, Position, MarkedReachable, QueuedOnce, ExpandedBehind
<1>9. SearchInv'
  BY <1>7, <1>8 DEF SearchInv
<1>10. Follow(query)' = Follow(query)
  BY <1>3 DEF Follow
<1> QED
  BY <1>1, <1>2, <1>3, <1>4, <1>9, <1>10 DEF ServiceInv

LEMMA AnswerServes == ASSUME ServiceInv, Answer PROVE ServiceInv'
<1>1. stage # "idle" /\ Search!Search /\ UNCHANGED <<vars, asked>>
  BY DEF Answer
<1>2. UNCHANGED <<phase, known, forward, reverse>>
  BY <1>1 DEF vars
<1>3. Inv'
  BY <1>1, InvStep DEF ServiceInv
<1>4. SearchInv'
  BY <1>1, <1>2, AnswerStep DEF ServiceInv
<1>5. succ' = succ
  BY <1>1 DEF Search!Search, Search!TakeSeed, Search!SkipSeed, Search!BeginVisit, Search!Dequeue,
         Search!SkipSeen, Search!Enqueue, Search!Advance, Search!Return
<1>6. succ' = Follow(asked)' /\ asked' \in Queries /\ phase' = "built"
  BY <1>1, <1>2, <1>5 DEF ServiceInv, Follow
<1> QED
  BY <1>3, <1>4, <1>6 DEF ServiceInv

LEMMA ServiceStep == ServiceInv /\ [Serve]_<<vars, searchVars>> => ServiceInv'
<1> SUFFICES ASSUME ServiceInv, [Serve]_<<vars, searchVars>> PROVE ServiceInv'
  OBVIOUS
<1>1. CASE UNCHANGED <<vars, searchVars>>
  <2>1. Inv'
    BY <1>1, InvStep DEF ServiceInv
  <2>2. stage = "idle" => stage' = "idle"
    BY <1>1 DEF searchVars
  <2>3. CASE stage # "idle"
    <3>1. SearchInv'
      BY <1>1, <2>3 DEF ServiceInv, vars, searchVars, SearchInv, SearchType, SearchGraph,
             SeedsMarked, Position, MarkedReachable, KnownSeeds, QueuedOnce, ExpandedBehind
    <3> QED
      BY <1>1, <2>1, <2>3, <3>1 DEF ServiceInv, vars, searchVars, Follow
  <2> QED
    BY <2>1, <2>2, <2>3 DEF ServiceInv
<1> QED
  BY <1>1, BuildServes, AskServes, AnswerServes DEF Serve

LEMMA ServiceInvariant == Service => []ServiceInv
  BY ServiceInit, ServiceStep, PTL DEF Service

(* The service runs Build and nothing else on Build's maps: what holds of a *)
(* Build holds while its graph is asked, however often.                     *)
THEOREM ServiceBuilds == Service => Spec
<1>1. Setup => Init
  BY DEF Setup
<1>2. [Serve]_<<vars, searchVars>> => [Next]_vars
  BY DEF Serve, Build, Ask, Answer
<1> QED
  BY <1>1, <1>2, PTL DEF Service, Spec

(* Build is exact for the caller who goes on to ask: the queries leave its  *)
(* maps as they are.                                                        *)
THEOREM MapsStay == Service => [](TypeOK /\ MapsExact /\ NoNilMapWrite) /\ OnlyGrows
  BY ServiceBuilds, TypeCorrect, MapsCorrect, NilMapFree, GrowsOnly, PTL

(* For every list of files, the graph Build returns is the graph the rules  *)
(* are evaluated on: nodes, imported packages, dependencies and dependents. *)
THEOREM GraphAgrees == Service => []SameGraph
<1>1. ASSUME ServiceInv, phase = "built"
      PROVE  /\ known = Matching!Known(Canonical)
             /\ imported = Matching!Imported(Canonical)
             /\ \A p \in known :
                 /\ Dependencies(p) = Matching!Dependencies(Canonical, p)
                 /\ reverse[p] = {q \in known : p \in Matching!Dependencies(Canonical, q)}
  <2>t. Inv /\ TypeOK /\ ReverseIsTranspose /\ NoNilMapWrite
    BY <1>1, PropertiesHold DEF ServiceInv, Inv
  <2>1. /\ known = Matching!Known(Canonical)
        /\ imported = Matching!Imported(Canonical)
        /\ \A p \in known :
             Matching!Edges(Canonical, {})[p] = {q \in Package : forward[p][q] # {}}
    BY <1>1, <2>t, GraphOfFiles
  <2>2. \A p \in known : Matching!Dependencies(Canonical, p) = {q \in Package : forward[p][q] # {}}
    BY <2>1 DEF Matching!Dependencies
  <2>3. ASSUME NEW p \in known PROVE p \in Package /\ p # NoPath /\ Clean[p] = p
    <3>1. p \in Package
      BY <2>t DEF TypeOK
    <3>2. PICK spelling \in Path : p = Clean[spelling]
      BY <3>1 DEF Package
    <3> QED
      BY <3>1, <3>2, CleanAssumption
  <2>4. \A p \in known : Dependencies(p) = Matching!Dependencies(Canonical, p)
    BY <2>2, <2>3 DEF Dependencies
  <2>5. ASSUME NEW p \in known
        PROVE  reverse[p] = {q \in known : p \in Matching!Dependencies(Canonical, q)}
    <3>1. p \in Package /\ reverse[p] \subseteq Package /\ known \subseteq Package
      BY <2>t, <2>3 DEF TypeOK
    <3>2. \A q \in Package : q \in reverse[p] <=> forward[q][p] # {}
      BY <2>t, <3>1 DEF ReverseIsTranspose
    <3>3. \A q \in Package : forward[q][p] # {} => q \in known
      BY <2>t, <3>1 DEF NoNilMapWrite
    <3> QED
      BY <2>2, <3>1, <3>2, <3>3
  <2> QED
    BY <2>1, <2>4, <2>5
<1>2. ServiceInv => SameGraph
  BY <1>1 DEF SameGraph
<1> QED
  BY <1>2, ServiceInvariant, PTL

(* For every list of files, every series of queries and every file filter:  *)
(* a closure holds exactly the packages that chains of imports by accepted  *)
(* files lead to from a known seed, or, in reverse, that lead to one.       *)
THEOREM AnswersCorrect == Service => []AnswersFromImports
<1> DEFINE edges == Matching!Edges(Canonical, asked.excluded)
           from == {Clean[seeds[i]] : i \in {j \in DOMAIN seeds : seeds[j] # NoPath}}
                               \cap Matching!Known(Canonical)
<1>1. ASSUME ServiceInv, stage = "done"
      PROVE  visited = IF asked.direction = "forward" THEN Reach(edges, from)
                       ELSE {p \in DOMAIN edges : Reach(edges, {p}) \cap from # {}}
  <2>t. /\ Inv /\ TypeOK /\ ReverseIsTranspose /\ NoNilMapWrite
        /\ SearchInv /\ SearchType /\ asked \in Queries /\ succ = Follow(asked)
        /\ phase = "built"
    BY <1>1, PropertiesHold DEF ServiceInv, Inv, SearchInv
  <2>1. visited = Reach(succ, KnownSeeds)
    BY <1>1, <2>t, AnswerComplete DEF SearchInv, Position
  <2>2. /\ known = Matching!Known(Canonical)
        /\ DOMAIN edges = known
        /\ \A p \in known : edges[p] = {q \in Package : forward[p][q] \ asked.excluded # {}}
    BY <2>t, GraphOfFiles
  <2>3. from = KnownSeeds
    <3>1. DOMAIN seeds = 1..Len(seeds)
      BY <2>t, SeedListsAssumption DEF SearchType
    <3> QED
      BY <2>2, <3>1 DEF KnownSeeds
  <2> HIDE DEF edges, from
  <2>4. known \subseteq Package /\ from \subseteq known
    BY <2>t, <2>3 DEF TypeOK, KnownSeeds
  <2>5. DOMAIN succ = Package /\ \A p \in known : succ[p] \subseteq known
    BY <2>t, <2>4 DEF SearchType, SearchGraph
  <2>6. \A p \in known : edges[p] \subseteq known
    BY <2>t, <2>2, <2>4 DEF NoNilMapWrite
  <2>7. CASE asked.direction = "forward"
    <3>1. \A p \in known : succ[p] = edges[p]
      BY <2>t, <2>2, <2>4, <2>7 DEF Follow, AnyAccepted
    <3>2. Reach(succ, from) = Reach(edges, from)
      BY <2>2, <2>4, <2>5, <2>6, <3>1, ReachRestrict
    <3> QED
      BY <2>1, <2>3, <2>7, <3>2
  <2>8. CASE asked.direction # "forward"
    <3>1. succ = reverse /\ asked.excluded = {}
      BY <2>t, <2>8 DEF Follow, Queries
    <3>2. DOMAIN Transpose(edges) = known
      BY <2>2 DEF Transpose
    <3>3. ASSUME NEW p \in known PROVE succ[p] = Transpose(edges)[p]
      <4>1. Transpose(edges)[p] = {q \in known : p \in edges[q]}
        BY <2>2 DEF Transpose
      <4>2. \A q \in known : p \in edges[q] <=> forward[q][p] # {}
        BY <2>2, <2>4, <3>1
      <4>3. \A q \in known : q \in reverse[p] <=> forward[q][p] # {}
        BY <2>t, <2>4 DEF ReverseIsTranspose
      <4> QED
        BY <2>5, <3>1, <4>1, <4>2, <4>3
    <3>4. \A p \in known : Transpose(edges)[p] \subseteq known
      BY <2>5, <3>3
    <3>5. Reach(succ, from) = Reach(Transpose(edges), from)
      BY <2>4, <2>5, <3>2, <3>3, <3>4, ReachRestrict
    <3>6. Reach(Transpose(edges), from) = {p \in DOMAIN edges : Reach(edges, {p}) \cap from # {}}
      <4>1. \A n \in DOMAIN edges : edges[n] \subseteq DOMAIN edges
        BY <2>2, <2>6
      <4>2. from \subseteq DOMAIN edges
        BY <2>2, <2>4
      <4> QED
        BY <4>1, <4>2, ReverseReach
    <3> QED
      BY <2>1, <2>3, <2>8, <3>5, <3>6
  <2> QED
    BY <2>7, <2>8
<1>2. ServiceInv => AnswersFromImports
  BY <1>1 DEF AnswersFromImports
<1> QED
  BY <1>2, ServiceInvariant, PTL
=============================================================================
