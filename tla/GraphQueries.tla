---------------------------- MODULE GraphQueries ----------------------------
(***************************************************************************)
(* internal/graph as the engine uses it: one Build, then any number of     *)
(* closure queries on the graph it returned, each with a direction, seeds  *)
(* and a predicate on files. Composes PackageGraph and Closure, and links  *)
(* them to the graph Matching and Engine speak of.                         *)
(***************************************************************************)
EXTENDS PackageGraph, Reachability, SequencesExt

CONSTANTS
    SeedLists, Pending,     \* as in Closure
    Excluded                \* the sets of files a predicate may reject

ASSUME SeedListsAssumption == SeedLists \subseteq Seq(Path \cup {NoPath})

(* Matching writes the empty path as the code does. *)
ASSUME EmptyPathAssumption == NoPath = ""

VARIABLES
    succ, seeds, stage, seed, visited, queue, index, todo,      \* Closure
    asked           \* the query: its direction and the files it rejects

searchVars == <<succ, seeds, stage, seed, visited, queue, index, todo, asked>>

Search == INSTANCE Closure WITH phase <- stage

Setup ==
    /\ Init
    /\ succ = [p \in Package |-> {}]
    /\ seeds = <<>> /\ stage = "idle" /\ seed = 1 /\ visited = {}
    /\ queue = <<>> /\ index = 1 /\ todo = {}
    /\ asked = [direction |-> "none", excluded |-> {}]

Build == Next /\ UNCHANGED searchVars

-----------------------------------------------------------------------------
(* The function nextPackages of each query. *)

(* Mutated form of AnyAccepted: one rejected file is enough to drop an edge. *)
AnyAcceptedAll(set, excluded) == set # {} /\ set \cap excluded = {}

AnyAccepted(set, excluded) == set \ excluded # {}

Follow(query) ==
    IF query.direction = "forward"
    THEN [p \in Package |-> {q \in Package : AnyAccepted(forward[p][q], query.excluded)}]
    ELSE reverse

(* ForwardClosureWithFilePredicate, or ReverseClosure, which has no predicate. *)
Queries ==
    [direction : {"forward"}, excluded : Excluded] \cup
    [direction : {"reverse"}, excluded : {{}}]

Ask ==
    /\ phase = "built" /\ stage \in {"idle", "done"}
    /\ \E query \in Queries, list \in SeedLists :
        /\ asked' = query /\ succ' = Follow(query) /\ seeds' = list
    /\ stage' = "seed" /\ seed' = 1 /\ visited' = {}
    /\ queue' = <<>> /\ index' = 1 /\ todo' = {}
    /\ UNCHANGED vars

Answer == stage # "idle" /\ Search!Search /\ UNCHANGED <<vars, asked>>

Serve == Build \/ Ask \/ Answer

Service == Setup /\ [][Serve]_<<vars, searchVars>>

-----------------------------------------------------------------------------
(* Properties. Matching's files have canonical packages. *)

Matching == INSTANCE Matching

NamedFiles == {k \in DOMAIN files : files[k].pkg # NoPath}

CanonicalImport(i) == IF i.resolved = NoPath THEN i ELSE [i EXCEPT !.resolved = Clean[@]]

CanonicalFile(f) ==
    [f EXCEPT !.pkg = Clean[@],
              !.imports = [i \in DOMAIN f.imports |-> CanonicalImport(f.imports[i])]]

(* The files that have a package, in an order Matching does not depend on. *)
Canonical == SetToSeq({CanonicalFile(files[k]) : k \in NamedFiles})

(* The maps Build returns are the graph the engine is modelled with: what  *)
(* Matching calls known, imported, dependencies, FanIn and FanOut.         *)
SameGraph ==
    phase = "built" /\ stage = "idle" =>
        /\ known = Matching!Known(Canonical)
        /\ imported = Matching!Imported(Canonical)
        /\ \A p \in known :
            /\ Dependencies(p) = Matching!Dependencies(Canonical, p)
            /\ reverse[p] = {q \in known : p \in Matching!Dependencies(Canonical, q)}

(* A query answers from the imports: every package that a chain of local   *)
(* imports leads to from a known seed (or that leads to one), where each   *)
(* link is made by a file that is not rejected. Earlier queries on the     *)
(* same graph leave no trace in it.                                        *)
AnswersFromImports ==
    stage = "done" =>
        LET edges == Matching!Edges(Canonical, asked.excluded)
            from == {Clean[seeds[i]] : i \in {j \in DOMAIN seeds : seeds[j] # NoPath}}
                               \cap Matching!Known(Canonical)
        IN  visited = IF asked.direction = "forward" THEN Reach(edges, from)
                      ELSE {p \in DOMAIN edges : Reach(edges, {p}) \cap from # {}}
=============================================================================
