------------------------------ MODULE Closure -------------------------------
(***************************************************************************)
(* internal/graph: the breadth-first search behind ForwardClosure,         *)
(* ForwardClosureWithFilePredicate and ReverseClosure.                     *)
(*                                                                         *)
(* succ is the function nextPackages the three callers pass: the edges the *)
(* search may follow. The code examines the successors of a package in     *)
(* sorted order; the model examines them in any order.                     *)
(***************************************************************************)
EXTENDS Integers, Sequences, Reachability

CONSTANTS
    Path,       \* the spellings of package directories
    NoPath,     \* the empty path
    Clean,      \* path.Clean, a function on Path
    SeedLists,  \* the argument lists of a query
    Pending     \* no result yet

Package == {Clean[p] : p \in Path}

ASSUME CleanAssumption ==
    /\ Clean \in [Path -> Path]
    /\ \A p \in Path : Clean[Clean[p]] = Clean[p]
    /\ NoPath \notin Path

ASSUME SeedListsAssumption == SeedLists \subseteq Seq(Path \cup {NoPath})

ASSUME PendingAssumption == \A set \in SUBSET Package : set # Pending

VARIABLES
    known,      \* the keys of graph.forward
    succ,       \* nextPackages
    seeds,      \* packagePaths
    phase,      \* "seed", "visit", "examine" or "done"
    seed,       \* index of the next element of seeds
    visited,
    queue,
    index,      \* index into queue of the package being expanded
    todo        \* its successors not yet examined

vars == <<known, succ, seeds, phase, seed, visited, queue, index, todo>>

(* A graph as Build returns it: only keys have edges, and edges lead to keys. *)
Graph ==
    /\ known \in SUBSET Package
    /\ succ \in [Package -> SUBSET Package]
    /\ \A p \in Package : succ[p] # {} => p \in known /\ succ[p] \subseteq known

(* The state at the call, whatever the arguments. *)
Start ==
    /\ phase = "seed"
    /\ seed = 1
    /\ visited = {}
    /\ queue = <<>>
    /\ index = 1
    /\ todo = {}

Init == Graph /\ seeds \in SeedLists /\ Start

-----------------------------------------------------------------------------

(* The three tests of the seed loop. *)
Accepted(p) == p # NoPath /\ Clean[p] \in known /\ Clean[p] \notin visited

(* Mark and append: the two statements every discovery makes. *)
Discover(p) ==
    /\ visited' = visited \cup {p}
    /\ queue' = Append(queue, p)

TakeSeed ==
    /\ phase = "seed"
    /\ seed <= Len(seeds)
    /\ Accepted(seeds[seed])
    /\ Discover(Clean[seeds[seed]])
    /\ seed' = seed + 1
    /\ UNCHANGED <<known, succ, seeds, phase, index, todo>>

SkipSeed ==
    /\ phase = "seed"
    /\ seed <= Len(seeds)
    /\ ~Accepted(seeds[seed])
    /\ seed' = seed + 1
    /\ UNCHANGED <<known, succ, seeds, phase, visited, queue, index, todo>>

BeginVisit ==
    /\ phase = "seed"
    /\ seed > Len(seeds)
    /\ phase' = "visit"
    /\ UNCHANGED <<known, succ, seeds, seed, visited, queue, index, todo>>

Dequeue ==
    /\ phase = "visit"
    /\ index <= Len(queue)
    /\ phase' = "examine"
    /\ todo' = succ[queue[index]]
    /\ UNCHANGED <<known, succ, seeds, seed, visited, queue, index>>

SkipSeen ==
    /\ phase = "examine"
    /\ \E next \in todo :
        /\ next \in visited
        /\ todo' = todo \ {next}
    /\ UNCHANGED <<known, succ, seeds, phase, seed, visited, queue, index>>

Enqueue ==
    /\ phase = "examine"
    /\ \E next \in todo :
        /\ next \notin visited
        /\ Discover(next)
        /\ todo' = todo \ {next}
    /\ UNCHANGED <<known, succ, seeds, phase, seed, index>>

(* Mutated form of Advance: the rest of the successors is dropped after    *)
(* one that was seen.                                                      *)
AdvanceEarly ==
    /\ phase = "examine"
    /\ todo \cap visited # {} \/ todo = {}
    /\ index' = index + 1
    /\ todo' = {}
    /\ phase' = "visit"
    /\ UNCHANGED <<known, succ, seeds, seed, visited, queue>>

Advance ==
    /\ phase = "examine"
    /\ todo = {}
    /\ index' = index + 1
    /\ phase' = "visit"
    /\ UNCHANGED <<known, succ, seeds, seed, visited, queue, todo>>

(* Mutated form of Return: the last package of the queue is not expanded. *)
ReturnEarly ==
    /\ phase = "visit"
    /\ index >= Len(queue)
    /\ phase' = "done"
    /\ UNCHANGED <<known, succ, seeds, seed, visited, queue, index, todo>>

Return ==
    /\ phase = "visit"
    /\ index > Len(queue)
    /\ phase' = "done"
    /\ UNCHANGED <<known, succ, seeds, seed, visited, queue, index, todo>>

Returned == phase = "done" /\ UNCHANGED vars

Search ==
    \/ TakeSeed
    \/ SkipSeed
    \/ BeginVisit
    \/ Dequeue
    \/ SkipSeen
    \/ Enqueue
    \/ Advance
    \/ Return

Next == Search \/ Returned

Spec == Init /\ [][Next]_vars /\ WF_vars(Next)

-----------------------------------------------------------------------------
(* Properties *)

TypeOK ==
    /\ Graph
    /\ seeds \in SeedLists
    /\ phase \in {"seed", "visit", "examine", "done"}
    /\ seed \in 1..(Len(seeds) + 1)
    /\ visited \subseteq Package
    /\ queue \in Seq(Package)
    /\ index \in 1..(Len(queue) + 1)
    /\ todo \subseteq Package

(* What the query returns. *)
answer == IF phase = "done" THEN visited ELSE Pending

Abstract == INSTANCE ClosureSpec

(* The search computes reachability: it implements the one-step query, so   *)
(* it returns, and what it returns is exactly the set of packages reachable *)
(* from the seeds the graph knows, on cyclic graphs too.                    *)
ImplementsQuery == Abstract!Spec

(* Nothing unreachable is ever marked, not even for a while. *)
VisitedReachable == visited \subseteq Reach(succ, Abstract!KnownSeeds)

(* A package enters the queue once: the work is bounded by the number of    *)
(* packages whatever cycles and duplicate seeds the input has.              *)
QueuedOnce ==
    /\ visited = {queue[i] : i \in 1..Len(queue)}
    /\ \A i, j \in 1..Len(queue) : queue[i] = queue[j] => i = j

(* Every package behind the index is fully expanded, and the one at the     *)
(* index as far as it has been examined: what makes the result closed.      *)
ExpandedBehind ==
    \A i \in 1..Len(queue) :
        /\ i < index => succ[queue[i]] \subseteq visited
        /\ i = index /\ phase = "examine" => succ[queue[i]] \subseteq visited \cup todo

(* The search is exact at every step: what is marked is reachable and      *)
(* queued once, and everything behind the index is expanded.               *)
SearchExact == VisitedReachable /\ QueuedOnce /\ ExpandedBehind

=============================================================================
