# A TLA+ model of godep-cruiser

godep-cruiser checks the imports of a Go module against rules. It scans the
files, builds the graph of the packages, evaluates forbidden, required and
allowed rules, hides what a baseline knows, and reports the rest through an exit
code or a failing test. This directory holds TLA+ modules of that program, the
TLC configurations that check them and proofs checked by TLAPS.

Paths below are those of the repository; a name in `code` is one of the source
or of a module. `PROJECT.json` maps every definition to the lines it models.

## The system

The program is sequential: one goroutine, no locks, no retries. What is hard in
it is elsewhere:

* loops that fill several maps whose agreement nothing in the code states
  (`graph.go`, `baseline.go`);
* a queue that grows while it is iterated, on graphs that have cycles;
* results whose order comes from a map, passed through an unstable sort;
* features that must agree with one another: `reachable: true` and `false`, module
  and folder scope, the names of rules and the identities of a baseline, the
  validator and the engine behind it;
* runs that follow one another over files people edit in between, with a baseline
  written by a shell redirection that empties the file before the program starts;
* texts that are read twice by two readers who must agree: a configuration by
  encoding/json and by a hand-written parser, a template by a scanner of captures
  and by the regular-expression compiler, a baseline by four passes, a rule by the
  loader and by the published JSON Schema.

| Part | Source | State | Operations | Correct when |
| --- | --- | --- | --- | --- |
| Package graph | `internal/graph` | `forward`, `reverse`, `imported` | `Build`, `Dependents`, `Dependencies`, `FanIn`, `FanOut`, `IsImported` | the maps say what the imports say and agree with each other |
| Closures | `internal/graph` | `visited`, `queue`, `index` | `closure` behind three queries | the result is the reachable set, on every graph |
| Rule engine | `internal/engine` | violations, `lowestLineByTarget` | `Evaluate` | rules that ask related questions give related answers; one order; no error |
| Configuration | `config` | parser index, names met | `Load`, `Parse`, `ExpandCaptures` | what it accepts, the engine can evaluate and the schema admits; both readings of a text agree |
| Baseline | `internal/baseline` | entries, identities seen and matched | `Generate`, `Write`, `Load`, `Apply` | violations are partitioned by identity; a generated baseline is canonical and exact |
| Facade | `cruiser` | options, result | `Validate`, `ErrorCount`, `WriteReport` | stages in order, failures end the run; a program's configuration keeps its meaning |
| Command line | `internal/cli` | arguments, exit code, streams | `Run` | status 0 exactly for clean inputs |
| Test helper | `archtest` | verdict of the test | `Check` | the same, for a test |
| Scanner, resolver | `internal/scanner` | module path, files found | `Scan`, `NewResolverFromGoMod`, `Resolve` | every file once, classified, in the coordinates of the module |
| Reporters | `internal/reporter` | nodes and edges drawn, summary | one writer per format | every violation told by every format, counts that agree with the exit code |

Interaction is by calls only: `Run` and `Check` call `Validate`; `Validate` calls
the validator again, then resolver, scanner, engine and baseline in this order;
the engine builds one graph and asks it queries. The shared state is the file
system, read at different moments and written by people and by the shell.

## Modules

| Module | Models | Notes |
| --- | --- | --- |
| `PackageGraph` | `graph.Build` and direct queries | one action per iteration and branch of the two loops |
| `Reachability` | the closed-set definition of reachability | reference definition, no recursion |
| `ClosureSpec` | what a closure query promises | one step |
| `Closure` | `Graph.closure` | any successor function, so all three callers; implements `ClosureSpec` |
| `GraphQueries` | `Build`, then any sequence of closures | composes `PackageGraph` and `Closure`, and compares them with `Matching`; its specification is `Service` |
| `Configuration` | the validator's rules between fields | decides which configurations `Engine` starts with |
| `JSONTree` | `parseJSON` | one action per token of the hand-written parser |
| `ConfigValidator` | `configValidator`, `parse`, and the JSON Schema | one action per rule and part of a rule; extends `Configuration`; run as a part of `Normalisation` |
| `Normalisation` | `Load` of a file, `normalizeConfiguration` and `MarshalJSON` of a program's configuration | both ways a configuration comes to the engine; composes `ConfigValidator` |
| `CaptureScanner` | `templates`, then `ExpandCaptures` | one action per branch of `rewriteCaptures` |
| `Matching` | `match.go` and the queries it makes | operators only |
| `Engine` | `Evaluate` | one action per rule, one per import for a reachable rule, one per element for the sort |
| `BaselineSpec` | what a baseline promises | one step |
| `Baseline` | `Generate`, entry validation, `Apply` | one action per iteration; implements `BaselineSpec` |
| `BaselineCodec` | `Load` of a document, `Write` as a document | one action per token, entry and pass |
| `Scanning` | `readModulePath`, `Resolve`, `Scan` | one action per line of go.mod and per directory entry |
| `Reports` | `buildViolationGraph`, the summary, `WriteReport` | one action per violation and per piece written |
| `Cruise` | `cli.Run`, `archtest.Check`, `cruiser.Validate` | composes the stages, with edits and the shell outside |
| `MC*` | small instances for TLC | inputs are enumerated here and nowhere else |
| `*Proofs` | theorems of the module they are named after | one each for `GraphQueries` (and `PackageGraph` in it), `Closure`, `Engine`, `Normalisation` (and `ConfigValidator` in it), `Baseline` (and `BaselineCodec` with it), `Scanning`, `Reports`, `Cruise` |

How they rest on one another: `Engine` does not repeat the loops of `Build` and
of the search. Its graph is the reference definition (`Edges`, `Known`,
`Imported` of `Matching`), and its closures are `Reach`: `GraphQueries` shows that
`Build` computes that graph (`SameGraph`) and that the queries on it return what
`Reach` says (`AnswersFromImports`). The configurations `Engine` starts with are
the `Valid` ones, and `ConfigValidator` shows that a document is accepted only
if its decoded form is one of them (`AcceptsValid`); `Normalisation` shows the
same of a configuration built by a program. `Cruise` takes the findings of a tree
as a function of what was read (`Evaluate` has one result: `OneOrder`, `NoError`)
and the effect of a baseline as the partition that `Baseline` shows `Apply` to
compute.

### State and actions

*PackageGraph.* The maps `forward` and `reverse` have one set of keys, `known`.
`Register` and `BeginLinking` are the loop at `graph.go:36`; `NextFile`,
`SkipImport`, `SelfImport`, `LinkImport` are the branches of the loop at `:45`.
A package path is a spelling, and `Clean` maps it to the canonical one.

*Closure.* `TakeSeed` and `SkipSeed` are the seed loop, `Dequeue`, `SkipSeen`,
`Enqueue`, `Advance` the search. The successors of a package are visited in any
order, which includes the sorted one of the code.

*Configuration, Matching.* A regular expression is the set of values it matches,
with the captured texts for `from.path`; a template of `to.path` is a set of
values for each text that may stand for its reference. An optional field is a
set of at most one value. A verdict is "yes", "no" or "error", and
`FirstVerdict` is a loop that stops at the first one that is not "no".
Instabilities are compared by cross-multiplication; the code divides floats,
which orders quotients of numbers of packages in the same way.

*Engine.* `EvaluateFolder`, `ReachableImport`/`ReachableFile`/`ReachableEnd`,
`EvaluateUnreachable`, `EvaluateSource`, `EvaluateEdges` are the branches of the
forbidden loop, in the order of its tests; `EvaluateAllowed` and
`EvaluateRequired` the other two. An error in any of them discards what was
found. The violations form a bag and `Emit` takes out any least one, which is
all that an unstable sort of a randomly ordered slice guarantees.

*JSONTree.* The state starts with a tree, its text with any choice of blanks, and
the offsets of its tokens; these are the texts encoding/json lets pass. The call
stack of the recursive parser is `stack`, one record per open container, and
`expect` is the place in the code: before a value, before a key, after a value.
`Open` is a container up to its first item, or the whole of an empty one.

*ConfigValidator.* A document is a tree of nodes as `parseJSON` returns it. An
operator named for a function of `validate.go` is the set of at most one cause
for which the function refuses; `First` is a sequence of early returns. Texts that
compile are the domains of `Groups` and `Reference`, numbers that fit an int the
domain of `Integer`. The operators that begin with S say what the JSON Schema
admits, in the words of JSON Schema and independently of the loader.

*Normalisation.* A Go slice is nil, empty or filled, a pointer nil or set, so that
omitempty can be modelled by what it leaves out. `origin` says which of the two ways
a document has come.

*CaptureScanner.* The five flags of the scanner are the record `scan`; each branch of
the loop is an action whose guard repeats the order of the tests. A replaced
reference is one character `Atom`. The compiler is external: `Tokens` says where
Go's regexp/syntax reads a token outside classes, POSIX classes and quoted
literals included. The names of the specification begin with `Template`, so that one
module can prove about it and about `Scanning`.

*BaselineCodec.* Values are trees; a value that is no JSON is "torn" and stops the pass
that meets it. `ReadValue` and `Close` are the recursion of `readJSONValue`. The
decoder is external: it takes the keys `Fold` names for a field, whatever their
case. `Nodes` are the values of a document level by level, down to `MaxNesting`, where
encoding/json itself gives up. The names of the specification begin with `Load`, so
that one module can prove about it and about `Baseline`. A document that `Write` made
is that of the entries in the order `sortEntries` gives them: `Sorted`, of which only
`SortedAssumption` is used, that it rearranges each list. Which order it is,
`Baseline` says (`Canonical`).

*Scanning.* A line of go.mod is its fields; lines are shorter than the 64 KiB at which
bufio gives up. A go.mod that has no resolver ends in "refused", a scan that fails in
"failed". A directory that cannot be listed is "closed" (the `walkErr` of the walk), a
file that does not parse is "broken". A place in the file system is a sequence
of names of one character each, so that its text and the text of an import are
sequences of characters and prefixes are those of strings. The walk visits
entries in any order, which includes the lexical one.

*Reports.* What a format writes is a sequence of items (violation, stale entry,
summary, node, edge). `err` and `html` write piece by piece and may stop anywhere;
the others write once, and a short write is an error. A box of the drawing carries
the number the code names it by, and the pieces after the violations (the stale
entries, the summary, the end of the page) are the sequence `EndPieces`.

*Baseline.* One behaviour is the life of a baseline: generated from one list of
violations or written by hand, validated, applied to another list. An entry is
its own identity (`identityFromEntry` is injective). Slices that a loop fills in
the order of another one are sets of positions.

*Cruise.* `disk` is the working tree, `read` what a run has read of it. Every
stage may fail where the code may fail; `Fail` is `runtimeError`, `usageError`
or `Fatalf`. External are `Edit` (a person) and `Opened`/`Closed` (the shell
that redirects the output of a generating run to the baseline: truncating it
first, or replacing it on success). `origin` is a history variable.

## Runs

| Run | Checks | Bounds |
| --- | --- | --- |
| `GraphQueries` | `TypeOK`, `MapsExact`, `NoNilMapWrite`, `OnlyGrows`, `SameGraph`, `AnswersFromImports` | all pairs of files with up to two imports, triples that form chains and cycles; three packages, one spelled in two ways; any number of queries |
| `Closure` | `SearchExact`, `ImplementsQuery` | all graphs of up to three packages, all lists of up to two seeds |
| `Engine` | `NoError`, `LowestLine`, `Split`, `FilterNarrows`, `ScopesAgree`, `UnstableAcyclic`, `OneOrder`, `IdentityDetermines`, `NothingSlips`, `Termination` | four files of three packages; three families of configurations, each with its scans: 32 with reachability rules on 48 scans, folder and module rules side by side on 54, all three lists with ignored severities and doubled imports |
| `EngineFilterLine` | `FilterKeepsLine`, violated | the reachability rules of `Engine` |
| `Baseline` | `RoundTrip`, `GeneratedAccepted`, `Canonical`, `StaleMeansFixed`, `ImplementsPartition` | up to three violations, two handwritten entries |
| `Configurations` | `AcceptsValid`, `SchemaAgrees`, `SameMeaning`, `SameRules` | documents of one rule with every combination of its fields, one stray field of any name and kind at eleven places, two rules in one or two lists; programs with every field nil, empty, good and bad, and all combinations of the three lists |
| `JSONTree` | `ReadsTheTree` | trees of up to three levels, strings with quotes, backslashes and closing characters, every choice of blanks |
| `CaptureScanner` | `ReadersAgree`, `ExpansionServed` | texts of up to three of 16 fragments and of four of 8; zero to two groups |
| `BaselineCodec` | `OneMeaning`, `LoadAfterWrite` | one entry of up to three of 12 fields, three entries, any two fields of the document, two values in a file; what `Write` makes of up to two entries |
| `Scanning` | `EveryFileOnce`, `OneNameSpace`, `OneModulePath` | module files of up to three lines; 1024 trees, three module roots, six scan roots, nine imports |
| `Reports` | `EveryViolationTold`, `SummaryAgrees` | lists of up to three of seven violations, six formats |
| `Cruise` | `PassesIffClean`, `Ratchet`, `FailsQuietly` | two runs, two edits, two files, two identities, one of them with 256 violations |

The configurations of `Engine` are the offered ones that the validator takes. Type
correctness of `PackageGraph` and of the searches is checked in `GraphQueries` and
proved; that of `Closure`, `Engine` (as a part of `Findings`), `Baseline`, `Cruise` and `Reports` is
proved and not checked again.

What the properties are about:

* `MapsExact` (`EdgesExact`, `ReverseIsTranspose`, `KnownExact`, `ImportedExact`) and
  `OnlyGrows`: no order of files loses an edge, a file of an edge or a package, and a
  package imported by its own external tests only is not an orphan. `NoNilMapWrite`:
  `Build` does not panic.
* `ImplementsQuery`: a search returns, and returns the reachable set; `SearchExact`
  (`VisitedReachable`, `QueuedOnce`, `ExpandedBehind`) says why.
* `NoError`: the validator's check that every `from.path` pattern has the groups
  the templates refer to is enough for the engine, whichever pattern matches.
* `LowestLine`: one violation for a file and a target, at the first import that
  leads there. `Split`: `reachable: true` and `false` never claim the same package,
  and divide the packages when the entry files are whole packages (`Whole`). Without
  this a package may be neither: one search starts from the imports of a file, the
  other from its package, and a sibling that is not an entry file may import more.
  `FilterNarrows`: excluding more files never makes more reachable.
* `ScopesAgree`: folder scope and module scope name the same package edges, for rules
  with `from: {}`. Conditions of `from` are matched with the paths of files in one scope
  and of packages in the other, so with them the two rules ask different things.
  `UnstableAcyclic`: moreUnstable never asks to reverse every edge of a cycle. The ends of
  an edge have a degree of at least one, so the case of a zero degree (`match.go:286`)
  is translated but plays no part in it.
* `OneOrder`: the output is deterministic. `IdentityDetermines`: a baseline entry
  stands for one finding. `NothingSlips`: fail-closed checking is complete.
* `RoundTrip`, `GeneratedAccepted`, `Canonical`, `StaleMeansFixed`,
  `ImplementsPartition`: see `Baseline.tla`.
* `SameGraph`, `AnswersFromImports`: the maps `Build` returns are the graph the
  engine's model speaks of, and every query on it answers from the imports,
  whatever was asked before. That queries do not share a list with the maps is read off
  the code, where `sortedKeys` copies it, and not checked: the maps are values here.
* `ReadsTheTree`: the second reading of a document ends, and returns the tree that was
  written, with the offset of each value and name.
* `AcceptsValid`: the engine is given valid configurations only.
  `SchemaAgrees` (`AcceptedAdmitted`, `RefusedForCause`): loader and schema differ only
  where the documentation says they do. `SameMeaning`, `SameRules`: a program's
  configuration loses no condition and is held to the rules of a file.
* `ReadersAgree` (`AtomsOnly`, `NoReferenceLeft`, `RefusedForCause`): scanner and
  compiler agree on what is a class and what is quoted, for templates in which every
  `[:` opens a POSIX class. `ExpansionServed`: a validated template never lacks a group.
* `OneMeaning` (`DuplicatesRefused`, `Faithful`), `LoadAfterWrite`: an accepted baseline means the
  entries it shows, and what is written is read back, in the order it was sorted to.
* `EveryFileOnce`, `OneNameSpace` (`SameCoordinates`, `LocalMeansInside`),
  `OneModulePath`: the scan
  misses no file, takes no directory that cannot be listed for an empty one, and the
  import path of a scanned directory resolves to the package its files are in,
  whichever part of the module is scanned. A go.mod is read exactly when one line of it
  begins with `module` and has a path that is not refused: a directive without a path
  or a second one, be it the same, is never passed over.
* `EveryViolationTold`, `SummaryAgrees`: violations that share boxes
  and edges of a drawing stay distinguishable; the summary counts what the exit
  code counts.
* `PassesIffClean`: status 0 (modulo 256) exactly when nothing failed and the
  files as read have no unknown error and no stale entry. `Ratchet`: a generated
  baseline suppresses everything in a later run on the inputs it came from.
  `FailsQuietly`: a failing run prints nothing where a baseline may be expected.

The bounds are enough for what the properties tell apart. An order of files
needs two files, a provenance two files for one edge, a spelling two names for a
package. A cycle through a third package, a diamond and a self edge are among
the graphs of three packages; a seed that is unknown, doubled or spelled
differently among the lists of two. Captures need two patterns, one with fewer
groups. A line that depends on the filter needs two imports. A shared identity
needs two violations, and an entry that is used up a third one. The ratchet
needs a generating run, a run that applies it and edits between them; 256 is the
count at which a status wraps. A class that looks closed to one reader and open to
the other takes an opening, a `[:`, a closing and a reference, hence texts of four
fragments. A string that hides a container's end takes one level around it; a
drop of a field by a later one takes two fields. Between a shared box and a
shared edge there are three violations. The proofs below do not depend on bounds.

### Findings

One run shows a difference between a document and the code, `EngineFilterLine`.
`DESIGN.ja.md:234` says that `reachableFilePathNot` changes neither the adoption
of the starting import nor the `from.line` of a violation. The closure is walked
with the filter from every import (`engine.go:251`) and the lowest line that
still reaches the target is kept (`engine.go:260`). A file imports `b` on line 3
and `sync` on line 4, and `b` reaches `sync` through a test file only: without the
filter the violation is at line 3, with it at line 4. The identity in a
baseline has no line and is not affected.

Five more differences were met. All but the fourth are preconditions of the properties
that hold without them:

* `ReadersAgree` asks that every `[:` inside a class opens a POSIX class
  (`PosixComplete`). The scanner takes any `[:` for an open one (`validate.go:810`),
  Go's compiler only when a `:]` follows. In `[[:][^]$1]` the scanner waits for a
  `:]` that never comes, and a reference is replaced inside a class, though the
  comment of `ExpandCaptures` (`validate.go:742`) says that a substituted text
  remains one atom.
* `OneMeaning` asks that the fields are spelled in the format's own way. `Load`
  looks for duplicates and for `entries` by exact name, but the decoder takes names
  without regard to case: `TO` with null erases the target of an entry, though the
  comment of `Load` (`codec.go:12`) and `README.md:322` say that unknown and
  duplicate fields are rejected.
* `LoadAfterWrite` asks that names are UTF-8. Others are different identities, but
  the encoder writes the same replacement character for what differs; `Load` then
  refuses the document that `Write` made.
* Of `module (`, the block form, which the go command accepts, the resolver reads the
  parenthesis as the path (`resolver.go:136`). `OneModulePath` says that a directive
  goes by its second field, and has no exception for this one.
* `OneNameSpace` asks that the module is not named `C`: `Resolve` takes that path for
  the import of cgo (`resolver.go:74`) before it looks at the module, so the root
  package of such a module is unresolved.

## Fairness

`Closure`, `Engine`, `Baseline` and `JSONTree` assume `WF_vars(Next)`: each is
a call in one goroutine, and a goroutine that can take a step takes one. No action
waits for another actor, so nothing stronger is needed. The last action of each
module stutters after the call has returned, so a deadlock would be found.
`Termination` is about the loops of `Evaluate` itself, to which a closure is one step
(`Reach`); that the search behind it ends is the liveness part of `ImplementsQuery`.
`ClosureSpec` and `BaselineSpec` assume weak fairness of their one deciding step,
and the implementations are shown to provide it. `Cruise` has no fairness and no
liveness property: a person may never start a run. `PackageGraph`, `GraphQueries`,
`Normalisation`, `CaptureScanner`, `BaselineCodec`, `Scanning` and `Reports` state
safety only and assume none; their loops are bounded by their inputs.

## Proofs

Proved for all values of the constants, under the assumptions each module names.
They say what the inputs of the program look like:

* `PackageGraph`, `Closure`, `GraphQueries`: `Clean` is idempotent, the inputs are
  lists of files, graphs of packages and lists of seeds, and the empty path is written
  as the code writes it.
* `Engine`: `QuestionsAssumption`, the configurations have the shape the loader
  produces, so that a pattern captures as many texts as it has groups; a scan has
  every file once, imports with a path, one resolution for one path, and no local
  import without a directory that is spelled like a package. `RankAssumption`,
  different strings are ordered.
* `Baseline`: the same of its rank, and lists of violations and entries.
* `BaselineCodec`: `DocumentsAssumption`, a document is a tree of JSON values no deeper than
  `MaxNesting`, with one array of entries; `BaselinesAssumption`, an entry has its three fields
  and at most one target; `FoldAssumption`, a field's own name is its field;
  `NestingAssumption`, the four levels of a written baseline are allowed;
  `SortedAssumption`, sorting rearranges a list.
* `CaptureScanner`: `TemplatesAssumption`, a template is a sequence of characters, none
  of which is the atom that stands for a replaced reference, and the number of groups
  is a natural number.
* `Cruise`: `FindingsAssumption`, a tree has finitely many findings; `ArgumentsAssumption`,
  a test does not generate.
* `Normalisation`: `TextsAssumption`, groups, references and ints are numbers;
  `DocumentsAssumption`, a document is a tree with sequences of members and items;
  `ProgramsAssumption`, a configuration is a value of its Go type: a slice is nil or a
  sequence, a pointer nil or set, an int that is not negative is written as digits that
  read back as that int, and required and allowed rules have no scope.
* `Reports`: `ReportsAssumption`, a violation has its five fields, one of the severities
  and at most one target. `Scanning`: `ScanningAssumption`, names contain no slash and no dot, a tree
  holds the directories of its entries, and go.mod is a list of lines.

What is proved, and along which argument:

* `GraphQueriesProofs`, of `Build`: type correctness, `EdgesExact`, `ReverseIsTranspose`,
  `NoNilMapWrite`, `ImportedExact`, `KnownExact`, `OnlyGrows`. The inductive
  invariant says of each map, element by element, what the imports passed so far
  put there. For the known packages it also says that the first loop has
  registered the packages of the files behind it, so all of them once linking
  starts: without this `AddEdge` could write to a map that is not there. That
  registration, which stores fresh maps, erases no edge follows from the same
  invariant, as no import has been passed while the first loop runs.
* `GraphQueriesProofs`, of the service: `Service` is `Build` followed by searches, and
  each of its steps is a step of `Build` or leaves the maps alone (`ServiceBuilds`,
  `MapsStay`), so what is proved of `Build` holds while queries run. `SameGraph`
  (`GraphAgrees`): the canonical form of a file is what `Matching` reads, and the exact
  maps are then its edges, packages and imported packages, element by element.
  `AnswersFromImports` (`AnswersCorrect`): a search on the maps is a search on a graph,
  with the invariant of `ClosureProofs` stated again for the successor function of the
  query, because theorems are not carried through INSTANCE. The maps hold paths nobody
  asked about, which adds nothing (`ReachRestrict`), a reverse query finds the packages
  that reach a seed (`ReverseReach`, from `ReachDuality` and `ReachMonotone`), and the
  filter of a query is the one of the edges it walks.
* Reachability itself: the reachable set holds the seeds, is closed, and is the least
  such set. The three proofs that use these facts (`Closure`, `Engine`, `GraphQueries`)
  each state them; `ReachMonotone` is with the rules that need it.
* `ClosureProofs`: type correctness, `VisitedReachable`, `QueuedOnce`,
  `ExpandedBehind`, and `Refinement`, the safety part of `ImplementsQuery`. The
  invariant adds that the seeds behind the cursor are visited (`SeedsMarked`), and
  that the index is in the queue while a package is examined and past it when the
  search is over (`Position`). At the end the visited set holds the seeds and is
  closed, so it contains the reachable set; by `VisitedReachable` it is contained in it.
* `EngineProofs`: every safety property of the run. `ErrorFree` comes first: the
  configuration stays a valid one, and each action that may fail finds a text for
  every reference, since a pattern that matches has the groups. The other eight rest
  on `Findings`, proved inductive in `FindingsCorrect`:
    - `Sound`: what has been found is owed to a rule already evaluated;
    - `Complete`: what such a rule owes has been found;
    - `Counted`: once for a file and a target, and once for each import that no
      allowed rule covers; the sort moves copies and loses none;
    - `Cursor`: the line map of a reachable rule holds, up to the current import,
      exactly the packages that the walks found, each with its lowest line;
    - `Shape`: the fields are of their types and the bag holds positive counts.

  Then `FirstLine` reads `LowestLine` off the cursor's statement at the last
  import. `OrderDetermined` compares two keys component by component; what a key
  leaves out, the package name, is fixed by the path. `FilterMonotone` is
  `ReachMonotone`. In `OppositesSplit` the closure of the entry packages is the set
  of entry packages and of what their imports lead to, which is closed exactly
  because the entry files are whole packages. `ScopesMeet` maps each import to its
  edge and back. `InstabilityOrdered` proves that comparing by cross-multiplication
  is transitive, degrees of zero included, so what a package reaches along reported
  edges is more unstable than itself. `IdentityUnique` goes by the list a name
  belongs to and the kind of the rule. `FailsClosed` counts copies of an import.
* `BaselineProofs`: type correctness, `Canonical`, `GeneratedAccepted`,
  `RoundTrip`, `StaleMeansFixed`, and `Refinement`, the safety part of
  `ImplementsPartition`. The invariant says what each loop has done up to its
  index: `seen` is the set of the entries, which are distinct and are the
  identities behind the index (`Generated`; all of them after the loop, since
  sorting permutes them); `known`, `reported` and `matched` (`Sorting`) and
  `stale` (`Expiring`) are exact up to the index; and only entries that passed
  validation are applied (`Vetted`).
* `BaselineProofs`, of `Load` and `Write`: `OneMeaning` and `LoadAfterWrite`, from the
  invariant `LoadInv`.
    - `TokensInv` relates the stack to the document: the values in the open frames are
      values of the document, and every value of the document is sound exactly when
      what is left in every frame is (`Stacked`). So a document passes only when it
      is sound (`CloseStep`), and is refused only when it is not (`RefuseStep`): a key
      already seen in its object, a torn value or a second value shows it. Nothing is
      lost or judged twice when a value is opened (`OpenValue`), taken (`TakeNext`) or
      closed. A value and all below it is a notion of every level (`Within`), and the
      recursive definition of the levels is shown to satisfy its equation first
      (`BelowDef`, by the least number without the property).
    - `DecodeInv`: what is loaded is, element by element, what the decoder makes of the
      elements behind the index, and each of them has passed the tests of the passes
      before. With distinct keys, of which none folds to another, the last member for a
      field is the only one (`FaithfulHolds`).
    - `WriteInv`: a document that `Write` made, of strings in UTF-8, is refused by no pass.
      Its values and their keys are listed level by level (`WrittenText`), and an entry
      decoded from its own text is that entry (`EntryReadBack`).
* `CruiseProofs`: type correctness, `FailsQuietly`, `PassesIffClean`, `Ratchet`. The
  invariant says of every baseline, on disk or read, that it holds exactly the
  findings of the inputs it came from (`History`), what a run has read at each stage
  (`Reading`), and that the result is the partition of what was read (`Decided`,
  `Ended`). `PassesIffClean` also needs that a finite sum of counts is zero only
  when each of them is.
* `NormalisationProofs`: `AcceptsValid`, `SameMeaning`, `SameRules`, `SchemaAgrees`, for every
  document and program. Each check of the validator is a series of early returns, so
  there is a lemma for each that says exactly what passes (`HeaderPasses`,
  `FromPasses`, `ToPasses`, ...). The invariant (`InvHolds`) says that the lists and rules
  behind the cursor passed, that their names differ and are exactly those collected,
  and that a document that came from a program is `Encode` of its configuration.
    - `AcceptsValid`: a rule that passed decodes to a valid one (`RuleValid`): the
      patterns the validator counts groups in are those the engine gets, and a
      matcher that is there is not empty. Names that differ in the lists differ
      after decoding, in the one space forbidden and required rules share.
    - `SameMeaning`: what is written for a slice, a flag, a count or a text is decoded
      as that slice, flag, count or text, so the clauses, rules and lists are
      decoded as `Meaning`. A negative count has no such reading and is refused.
    - `SameRules`: a written rule passes exactly if its texts compile and its meaning is
      valid (`RuleServed`, `RuleCompiles`), and no action refuses a document of such
      rules (`GoodGoes`, one lemma for each action).
    - `SchemaAgrees`: every definition of the schema admits what the check of the same
      name lets pass. In the other direction, a check that fails on what the schema
      admits fails for a text, for a field written twice, or for something between
      fields that makes the decoded configuration invalid (`Explained`): sixteen
      checks of `to` are gone through one by one, and for a template without a group and
      a name met before, the decoded rule that breaks the rule is found.
* `ReportsProofs`: type correctness, `SummaryAgrees`, `EveryViolationTold`. The counts are
  those of the violations behind the index. A table has a row for each piece to be
  written and in it the violations that piece tells; a new box adds an empty row, a
  label of an edge or a box one cell, so that the cells that hold a violation are as
  many as its occurrences behind the index. What has been written is a prefix of what
  is rendered, and all of it when no error is returned. The last step is a bijection
  between those cells and the occurrences.
* `ScanningProofs`: `OneModulePath`, `OneNameSpace`, `EveryFileOnce`, for every tree.
  Of the module file, the invariant is that the directives behind the cursor are the
  one that was read, if any, and that a refused file has no line that `Declares` its
  path. Of the walk, it is that what has been found is a source, that every
  source not yet found lies at or below a place that is pending, and that a closed
  directory is pending, hidden or below one that is pending.
* `ScanningProofs`, of templates: `ReadersAgree` and `ExpansionServed`, for templates of
  any length. `ClassFrom` and `Tokens`, by which the compiler reads, are recursive
  functions; lemmas first show that they satisfy their equations (`ClassFromDef`,
  `TokensDef`), and that a token of a text is a token of every beginning of the text
  that reaches its place (`SameTokens`). The compiler looks ahead, for the end
  of a class or of a literal, and the scanner does not; the invariant
  (`TemplateInvariant`) therefore speaks of every text that goes on from what has been
  written (`Continues`).
    - `AllFollowed`: if the compiler reads such a text up to the scanner's place, it is in
      a quoted literal where the scanner is, and else at one of its own places, and
      has met no `$` before a digit. This gives the second part of `ReadersAgree`.
    - `AllAligned`: if every `[:` of the template opens a POSIX class, the flags also say
      which item of which class the compiler has reached (`InClassAt`, `CopiesName`),
      and every replaced reference is a token. There is one lemma per action
      (`EscapeFlags`, `NegateFlags`, `ClosePosixFlags`, ...). This gives the other parts.
    - `Replays`: the checking pass that accepted the template visited a set of states,
      closed under the moves of the scanner up to the last (`Visited`, `Moved`), and the
      expanding pass is always at one of them. So it meets no refusal and no reference above `highest`,
      which is `ExpansionServed`.

Model-checked only: liveness (`Termination`, that the two refinements decide, that
`JSONTree` ends), and the module `JSONTree`. Liveness under fairness is out of the
prover's reach, and so is `JSONTree`, whose trees and texts need recursive operators.
Every other property of a passing run is stated by a theorem.

## Not modelled

* The wording of errors, and line and column, which `positionedError` counts from
  the offset that `JSONTree` checks.
* Layout, escaping and wording of the report formats; `Reports` is about what they
  say. This is why the reporters are only partly modelled.
* encoding/json, regexp/syntax and go/parser, other than as the external
  definitions named above: which documents are JSON, how a file is parsed, which
  letters fold. Ranges and repetitions are not among the characters of
  `CaptureScanner`, since neither reader treats them specially.
* Why an evaluation fails on an expanded template. `ExpansionServed` shows that every
  reference has a text, and `ReadersAgree` that what is replaced is a whole atom; nothing
  here shows that the second compilation (`match.go:316`) succeeds, since it may exceed a
  limit of regexp for a long captured text. `Cruise` lets any evaluation fail, and shows
  that such a run neither passes nor reports.
* Symbolic links and absolute paths in `Scan` and `NewResolverFromGoMod`: the roots of
  `Scanning` are resolved ones. Byte order mark, comments and quotes in go.mod.
* A second array under another spelling of `entries` (`BaselineCodec` assumes there is
  none): the decoder would overwrite the first one element by element.
* The test corpus harness, which is test infrastructure whose checks are single
  comparisons, and the two entry points, which only pass arguments on.

## Plan

Done: all the modules above and the proofs above. What is left are checks that would
need larger models: two arrays under two spellings of `entries`, and a configuration
that is edited while a run reads it, which the code reads in one call.
