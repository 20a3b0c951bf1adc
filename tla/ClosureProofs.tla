--------------------------- MODULE ClosureProofs ----------------------------
(* The breadth-first search of internal/graph computes reachability, for    *)
(* every graph and every list of seeds.                                     *)
EXTENDS Closure, TLAPS

-----------------------------------------------------------------------------
(* Reachability in any graph. *)

(* Reach is the least closed set that holds the seeds. *)
LEMMA ReachLeast ==
    ASSUME NEW graph, NEW from, NEW set \in SUBSET DOMAIN graph,
           from \subseteq set, ClosedUnder(graph, set)
    PROVE  Reach(graph, from) \subseteq set
  BY DEF Reach

(* It holds the seeds that are nodes ... *)
LEMMA ReachSeeds ==
    ASSUME NEW graph, NEW from, from \subseteq DOMAIN graph
    PROVE  from \subseteq Reach(graph, from)
  BY DEF Reach

(* ... and is closed, if edges lead to nodes. *)
LEMMA ReachClosed ==
    ASSUME NEW graph, NEW from, \A n \in DOMAIN graph : graph[n] \subseteq DOMAIN graph
    PROVE  ClosedUnder(graph, Reach(graph, from))
  BY DEF Reach, ClosedUnder

-----------------------------------------------------------------------------
KnownSeeds == Abstract!KnownSeeds

-----------------------------------------------------------------------------
(* The inductive invariant of the search. *)

(* Every accepted seed the loop has passed is marked. *)
SeedsMarked ==
    /\ \A j \in 1..Len(seeds) :
        j < seed /\ seeds[j] # NoPath /\ Clean[seeds[j]] \in known
            => Clean[seeds[j]] \in visited
    /\ phase # "seed" => seed > Len(seeds)

(* The index is inside the queue while a package is examined, and behind it *)
(* when the search is over; what is left to examine is an edge from there.  *)
Position ==
    /\ phase = "examine" =>
        /\ index <= Len(queue)
        /\ todo \subseteq succ[queue[index]]
    /\ phase = "done" => index > Len(queue)

Inv ==
    /\ TypeOK
    /\ SeedsMarked
    /\ Position
    /\ VisitedReachable
    /\ QueuedOnce
    /\ ExpandedBehind

LEMMA SeedType ==
    ASSUME TypeOK
    PROVE  /\ Len(seeds) \in Nat
           /\ \A j \in 1..Len(seeds) : seeds[j] \in Path \cup {NoPath}
           /\ KnownSeeds \subseteq Package
<1>1. seeds \in Seq(Path \cup {NoPath})
  BY SeedListsAssumption DEF TypeOK
<1>2. \A j \in 1..Len(seeds) : seeds[j] \in Path \cup {NoPath}
  BY <1>1
<1>3. KnownSeeds \subseteq known
  BY DEF KnownSeeds, Abstract!KnownSeeds
<1> QED
  BY <1>1, <1>2, <1>3 DEF TypeOK, Graph

LEMMA ReachFacts ==
    ASSUME TypeOK
    PROVE  /\ DOMAIN succ = Package
           /\ KnownSeeds \subseteq Reach(succ, KnownSeeds)
           /\ \A n \in Reach(succ, KnownSeeds) : succ[n] \subseteq Reach(succ, KnownSeeds)
<1>1. DOMAIN succ = Package /\ \A n \in DOMAIN succ : succ[n] \subseteq DOMAIN succ
  BY DEF TypeOK, Graph
<1>2. KnownSeeds \subseteq Reach(succ, KnownSeeds)
  BY <1>1, SeedType, ReachSeeds
<1>3. ClosedUnder(succ, Reach(succ, KnownSeeds))
  BY <1>1, ReachClosed
<1> QED
  BY <1>1, <1>2, <1>3 DEF ClosedUnder

(* A package that is marked and appended for the first time: what both      *)
(* discovering steps have in common.                                        *)
LEMMA DiscoverStep ==
    ASSUME TypeOK, QueuedOnce, NEW p \in Package, p \notin visited, Discover(p)
    PROVE  /\ visited' \subseteq Package
           /\ queue' \in Seq(Package)
           /\ Len(queue') = Len(queue) + 1
           /\ Len(queue) \in Nat
           /\ \A i \in 1..Len(queue) : queue'[i] = queue[i]
           /\ queue'[Len(queue) + 1] = p
           /\ visited' = {queue'[i] : i \in 1..Len(queue')}
           /\ \A i, j \in 1..Len(queue') : queue'[i] = queue'[j] => i = j
<1>1. queue \in Seq(Package) /\ queue' = Append(queue, p) /\ visited' = visited \cup {p}
  BY DEF TypeOK, Discover
<1>2. /\ queue' \in Seq(Package)
      /\ Len(queue') = Len(queue) + 1
      /\ Len(queue) \in Nat
      /\ \A i \in 1..Len(queue) : queue'[i] = queue[i]
      /\ queue'[Len(queue) + 1] = p
  BY <1>1
<1>3. visited' \subseteq Package
  BY <1>1 DEF TypeOK
<1>4. \A i \in 1..Len(queue') : i \in 1..Len(queue) \/ i = Len(queue) + 1
  BY <1>2
<1>5. \A i \in 1..Len(queue) : queue[i] \in visited
  BY DEF QueuedOnce
<1>6. visited' = {queue'[i] : i \in 1..Len(queue')}
  <2>1. ASSUME NEW n \in visited' PROVE n \in {queue'[i] : i \in 1..Len(queue')}
    <3>1. CASE n = p
      BY <1>2, <3>1
    <3>2. CASE n # p
      <4>1. PICK i \in 1..Len(queue) : queue[i] = n
        BY <1>1, <3>2 DEF QueuedOnce
      <4>2. i \in 1..Len(queue') /\ queue'[i] = n
        BY <1>2, <4>1
      <4> QED
        BY <4>2
    <3> QED
      BY <3>1, <3>2
  <2>2. ASSUME NEW i \in 1..Len(queue') PROVE queue'[i] \in visited'
    BY <1>1, <1>2, <1>4, <1>5
  <2> QED
    BY <2>1, <2>2
<1>7. ASSUME NEW i \in 1..Len(queue'), NEW j \in 1..Len(queue'), queue'[i] = queue'[j]
      PROVE  i = j
  BY <1>2, <1>4, <1>5, <1>7 DEF QueuedOnce
<1> QED
  BY <1>2, <1>3, <1>6, <1>7

LEMMA InvInit == Init => Inv
<1> SUFFICES ASSUME Init PROVE Inv
  OBVIOUS
<1>1. Len(seeds) \in Nat
  BY SeedListsAssumption DEF Init
<1> QED
  BY <1>1 DEF Init, Start, Inv, TypeOK, Graph, SeedsMarked, Position, VisitedReachable,
         QueuedOnce, ExpandedBehind

LEMMA InvStep == Inv /\ [Next]_vars => Inv'
<1> SUFFICES ASSUME Inv, [Next]_vars PROVE Inv'
  OBVIOUS
<1> DEFINE R == Reach(succ, KnownSeeds)
<1>t. TypeOK /\ Graph
  BY DEF Inv, TypeOK
<1>l. /\ Len(seeds) \in Nat /\ seed \in Nat /\ index \in Nat
      /\ Len(queue) \in Nat /\ queue \in Seq(Package)
  BY <1>t, SeedType DEF TypeOK
<1>q. /\ visited = {queue[i] : i \in 1..Len(queue)}
      /\ \A i \in 1..Len(queue) : queue[i] \in visited /\ queue[i] \in Package
  BY <1>l DEF Inv, QueuedOnce
<1>r. /\ visited \subseteq R
      /\ \A n \in R : succ[n] \subseteq R
      /\ KnownSeeds \subseteq R
  BY <1>t, ReachFacts DEF Inv, VisitedReachable, KnownSeeds
<1>u. UNCHANGED <<known, succ, seeds>>
  BY DEF Next, Search, vars, TakeSeed, SkipSeed, BeginVisit, Dequeue, SkipSeen, Enqueue,
         Advance, Return, Returned
<1>g. Graph' /\ seeds' \in SeedLists
  BY <1>t, <1>u DEF Graph, TypeOK
<1>v. ASSUME visited' \subseteq R PROVE VisitedReachable'
  BY <1>u, <1>v DEF VisitedReachable, KnownSeeds, Abstract!KnownSeeds
<1>1. CASE TakeSeed
  <2> DEFINE p == Clean[seeds[seed]]
  <2>1. seed \in 1..Len(seeds) /\ seeds[seed] # NoPath /\ p \in known /\ p \notin visited
    BY <1>1, <1>l, <1>t DEF TakeSeed, Accepted, TypeOK
  <2>2. p \in Package /\ p \in KnownSeeds
    BY <1>t, <2>1 DEF Graph, KnownSeeds, Abstract!KnownSeeds
  <2>3. Discover(p)
    BY <1>1 DEF TakeSeed
  <2>4. /\ visited' \subseteq Package
        /\ queue' \in Seq(Package)
        /\ Len(queue') = Len(queue) + 1
        /\ \A i \in 1..Len(queue) : queue'[i] = queue[i]
        /\ QueuedOnce'
    BY <1>t, <2>1, <2>2, <2>3, DiscoverStep DEF Inv, QueuedOnce
  <2>5. TypeOK'
    BY <1>1, <1>g, <1>l, <1>t, <2>4 DEF TypeOK, TakeSeed
  <2>6. SeedsMarked'
    <3>1. ASSUME NEW j \in 1..Len(seeds), j < seed + 1, seeds[j] # NoPath,
                 Clean[seeds[j]] \in known
          PROVE  Clean[seeds[j]] \in visited'
      <4>1. CASE j = seed
        BY <2>3, <4>1 DEF Discover
      <4>2. CASE j < seed
        BY <2>3, <3>1, <4>2 DEF Discover, Inv, SeedsMarked
      <4> QED
        BY <1>l, <3>1, <4>1, <4>2
    <3> QED
      BY <1>1, <1>u, <3>1 DEF TakeSeed, SeedsMarked
  <2>7. Position'
    BY <1>1 DEF TakeSeed, Position
  <2>8. VisitedReachable'
    BY <1>r, <1>v, <2>2, <2>3 DEF Discover
  <2>9. ExpandedBehind'
    BY <1>1, <1>t, <1>l, <2>4 DEF TakeSeed, TypeOK, ExpandedBehind, Discover, Inv
  <2> QED
    BY <2>4, <2>5, <2>6, <2>7, <2>8, <2>9 DEF Inv
<1>2. CASE SkipSeed
  <2>1. TypeOK'
    BY <1>2, <1>g, <1>l, <1>t DEF TypeOK, SkipSeed
  <2>2. SeedsMarked'
    BY <1>2, <1>l DEF SkipSeed, Accepted, SeedsMarked, Inv
  <2> QED
    BY <1>2, <1>r, <1>v, <2>1, <2>2
       DEF SkipSeed, Inv, Position, QueuedOnce, ExpandedBehind
<1>3. CASE BeginVisit
  BY <1>3, <1>g, <1>r, <1>v, <1>t
     DEF BeginVisit, Inv, TypeOK, SeedsMarked, Position, QueuedOnce, ExpandedBehind
<1>4. CASE Dequeue
  <2>1. index \in 1..Len(queue) /\ todo' = succ[queue[index]]
    BY <1>4, <1>l, <1>t DEF Dequeue, TypeOK
  <2>2. TypeOK'
    BY <1>4, <1>g, <1>q, <1>t, <2>1 DEF Dequeue, TypeOK, Graph
  <2>3. Position'
    BY <1>4, <2>1 DEF Dequeue, Position
  <2>4. ExpandedBehind'
    BY <1>4, <2>1 DEF Dequeue, ExpandedBehind, Inv
  <2> QED
    BY <1>4, <1>r, <1>v, <2>2, <2>3, <2>4 DEF Dequeue, Inv, SeedsMarked, QueuedOnce
<1>5. CASE SkipSeen
  <2>1. PICK next \in todo : next \in visited /\ todo' = todo \ {next}
    BY <1>5 DEF SkipSeen
  <2>2. TypeOK'
    BY <1>5, <1>g, <1>t, <2>1 DEF SkipSeen, TypeOK
  <2>3. Position'
    BY <1>5, <2>1 DEF SkipSeen, Position, Inv
  <2>4. ExpandedBehind'
    BY <1>5, <2>1 DEF SkipSeen, ExpandedBehind, Inv
  <2> QED
    BY <1>5, <1>r, <1>v, <2>2, <2>3, <2>4 DEF SkipSeen, Inv, SeedsMarked, QueuedOnce
<1>6. CASE Enqueue
  <2>1. PICK next \in todo : next \notin visited /\ Discover(next) /\ todo' = todo \ {next}
    BY <1>6 DEF Enqueue
  <2>2. phase = "examine" /\ index \in 1..Len(queue) /\ next \in succ[queue[index]]
    BY <1>6, <1>l, <1>t, <2>1 DEF Enqueue, Inv, Position, TypeOK
  <2>3. next \in Package /\ next \in R
    BY <1>q, <1>r, <1>t, <2>1, <2>2 DEF TypeOK
  <2>4. /\ visited' \subseteq Package
        /\ queue' \in Seq(Package)
        /\ Len(queue') = Len(queue) + 1
        /\ \A i \in 1..Len(queue) : queue'[i] = queue[i]
        /\ QueuedOnce'
    BY <1>t, <2>1, <2>3, DiscoverStep DEF Inv, QueuedOnce
  <2>5. TypeOK'
    BY <1>6, <1>g, <1>l, <1>t, <2>1, <2>4 DEF TypeOK, Enqueue
  <2>6. SeedsMarked'
    BY <1>6, <2>1 DEF Enqueue, Discover, SeedsMarked, Inv
  <2>7. Position'
    BY <1>6, <1>u, <1>l, <2>1, <2>2, <2>4 DEF Enqueue, Position, Inv
  <2>8. VisitedReachable'
    BY <1>r, <1>v, <2>1, <2>3 DEF Discover
  <2>9. ExpandedBehind'
    <3>1. ASSUME NEW i \in 1..Len(queue'), i < index
          PROVE  succ'[queue'[i]] \subseteq visited'
      <4>1. i \in 1..Len(queue) /\ queue'[i] = queue[i]
        BY <1>l, <2>2, <2>4, <3>1
      <4> QED
        BY <1>u, <2>1, <3>1, <4>1 DEF ExpandedBehind, Inv, Discover
    <3>2. succ'[queue'[index]] \subseteq visited' \cup todo'
      BY <1>u, <2>1, <2>2, <2>4 DEF ExpandedBehind, Inv, Discover
    <3> QED
      BY <1>6, <3>1, <3>2 DEF Enqueue, ExpandedBehind
  <2> QED
    BY <2>4, <2>5, <2>6, <2>7, <2>8, <2>9 DEF Inv
<1>7. CASE Advance
  <2>1. phase = "examine" /\ todo = {} /\ index \in 1..Len(queue) /\ index' = index + 1
    BY <1>7, <1>l, <1>t DEF Advance, Inv, Position, TypeOK
  <2>2. TypeOK'
    BY <1>7, <1>g, <1>l, <1>t, <2>1 DEF Advance, TypeOK
  <2>3. ExpandedBehind'
    BY <1>7, <1>l, <2>1 DEF Advance, ExpandedBehind, Inv
  <2> QED
    BY <1>7, <1>r, <1>v, <2>2, <2>3 DEF Advance, Inv, SeedsMarked, Position, QueuedOnce
<1>8. CASE Return
  BY <1>8, <1>g, <1>r, <1>v, <1>t
     DEF Return, Inv, TypeOK, SeedsMarked, Position, QueuedOnce, ExpandedBehind
<1>9. CASE Returned \/ UNCHANGED vars
  <2>1. UNCHANGED vars
    BY <1>9 DEF Returned
  <2> QED
    BY <1>g, <1>r, <1>v, <2>1
       DEF vars, Inv, TypeOK, SeedsMarked, Position, QueuedOnce, ExpandedBehind
<1> QED
  BY <1>1, <1>2, <1>3, <1>4, <1>5, <1>6, <1>7, <1>8, <1>9 DEF Next, Search

LEMMA Invariant == Spec => []Inv
  BY InvInit, InvStep, PTL DEF Spec

(* The variables of the search keep their types. *)
THEOREM TypeCorrect == Spec => []TypeOK
  BY Invariant, PTL DEF Inv

(* The search never marks a package that is not reachable. *)
THEOREM Sound == Spec => []VisitedReachable
  BY Invariant, PTL DEF Inv

(* No package is queued twice. *)
THEOREM NoRepetition == Spec => []QueuedOnce
  BY Invariant, PTL DEF Inv

(* Every package behind the index has all its successors marked. *)
THEOREM Expanded == Spec => []ExpandedBehind
  BY Invariant, PTL DEF Inv

(* At every step the search is sound, without repetition, and complete up   *)
(* to the index.                                                            *)
THEOREM SearchCorrect == Spec => []SearchExact
  BY Invariant, PTL DEF Inv, SearchExact

(* A finished search has marked every reachable package. *)
LEMMA Complete ==
    ASSUME Inv, index > Len(queue), phase # "seed"
    PROVE  visited = Reach(succ, KnownSeeds)
<1>t. TypeOK
  BY DEF Inv
<1>1. visited \in SUBSET DOMAIN succ
  BY <1>t DEF TypeOK, Graph
<1>2. KnownSeeds \subseteq visited
  BY <1>t, SeedType DEF KnownSeeds, Abstract!KnownSeeds, Inv, SeedsMarked, TypeOK
<1>3. ClosedUnder(succ, visited)
  <2> SUFFICES ASSUME NEW n \in visited PROVE succ[n] \subseteq visited
    BY DEF ClosedUnder
  <2>1. PICK i \in 1..Len(queue) : queue[i] = n
    BY DEF Inv, QueuedOnce
  <2>2. i < index
    BY <1>t, <2>1 DEF TypeOK
  <2> QED
    BY <2>1, <2>2 DEF Inv, ExpandedBehind
<1>4. Reach(succ, KnownSeeds) \subseteq visited
  BY <1>1, <1>2, <1>3, ReachLeast
<1> QED
  BY <1>4 DEF Inv, VisitedReachable, KnownSeeds

(* The search refines the one-step query: whatever it returns is exactly    *)
(* the set of packages reachable from the known seeds.                      *)
THEOREM Refinement == Spec => Abstract!Init /\ [][Abstract!Next]_Abstract!vars
<1>1. Init => Abstract!Init
  BY DEF Init, Start, Abstract!Init, answer
<1>2. Inv /\ [Next]_vars => [Abstract!Next]_Abstract!vars
  <2> SUFFICES ASSUME Inv, [Next]_vars
               PROVE  Abstract!Next \/ UNCHANGED Abstract!vars
    OBVIOUS
  <2>1. CASE Return
    <3>1. visited = Reach(succ, Abstract!KnownSeeds)
      BY <2>1, Complete DEF Return, Inv, KnownSeeds
    <3>2. answer = Pending /\ answer' = visited
      BY <2>1 DEF Return, answer
    <3>3. UNCHANGED <<known, succ, seeds>>
      BY <2>1 DEF Return
    <3>4. Abstract!Reach(succ, Abstract!KnownSeeds) = Reach(succ, Abstract!KnownSeeds)
      BY DEF Abstract!Reach, Abstract!ClosedUnder, Reach, ClosedUnder
    <3> QED
      BY <3>1, <3>2, <3>3, <3>4 DEF Abstract!Next, Abstract!Answer
  <2>2. CASE TakeSeed \/ SkipSeed \/ BeginVisit \/ Dequeue \/ SkipSeen \/ Enqueue \/ Advance
    <3>1. UNCHANGED <<known, succ, seeds>> /\ phase # "done" /\ phase' # "done"
      BY <2>2 DEF TakeSeed, SkipSeed, BeginVisit, Dequeue, SkipSeen, Enqueue, Advance
    <3> QED
      BY <3>1 DEF Abstract!vars, answer
  <2>3. CASE Returned \/ UNCHANGED vars
    BY <2>3 DEF Returned, vars, Abstract!vars, answer
  <2> QED
    BY <2>1, <2>2, <2>3 DEF Next, Search
<1> QED
  BY <1>1, <1>2, Invariant, PTL DEF Spec
=============================================================================
