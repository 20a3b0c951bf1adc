------------------------------ MODULE Matching ------------------------------
(***************************************************************************)
(* internal/engine: when a file, a package or an import matches a rule.    *)
(*                                                                         *)
(* The package graph is the one PackageGraph shows Build to compute, here  *)
(* given by its result; a closure is the set of packages Closure shows the *)
(* search to return.                                                       *)
(***************************************************************************)
EXTENDS Configuration, Reachability

(* A scanned file is a record [path, pkg, name, line, imports]; an import  *)
(* is a record [path, resolved, type, line] whose resolved is the package  *)
(* of the module if it is local, "" if unresolved and its path otherwise.  *)

-----------------------------------------------------------------------------
(* The package graph of a list of files. *)

FilesOf(files) == {files[k] : k \in 1..Len(files)}

LocalTargets(f) ==
    {f.imports[i].resolved : i \in {j \in 1..Len(f.imports) :
        f.imports[j].type = "local" /\ f.imports[j].resolved # ""}}

Imported(files) == UNION {LocalTargets(f) : f \in FilesOf(files)}

Known(files) == {f.pkg : f \in FilesOf(files)} \cup Imported(files)

(* The edges formed by at least one file that is not excluded. *)
Edges(files, excluded) ==
    [p \in Known(files) |->
        {q \in Known(files) \ {p} :
            \E f \in FilesOf(files) :
                f.pkg = p /\ q \in LocalTargets(f) /\ f.path \notin excluded}]

Dependencies(files, p) == Edges(files, {})[p]

FanOut(files, p) == Cardinality(Dependencies(files, p))

FanIn(files, p) == Cardinality({q \in Known(files) : p \in Dependencies(files, q)})

Orphan(files, f) == Len(f.imports) = 0 /\ f.pkg \notin Imported(files)

-----------------------------------------------------------------------------
(* fromMatcher *)

(* Where the loop over the patterns stops: at most one position. *)
FirstMatch(from, value) ==
    {i \in 1..Len(from.path) :
        /\ value \in DOMAIN from.path[i].on
        /\ \A j \in 1..(i - 1) : value \notin DOMAIN from.path[j].on}

MatchesPath(from, value) == Len(from.path) > 0 => FirstMatch(from, value) # {}

(* The texts captured by the first pattern that matches; the complete      *)
(* match, at index zero in the code, is left out.                          *)
Captures(from, value) ==
    IF Len(from.path) = 0 THEN <<>>
    ELSE from.path[CHOOSE i \in FirstMatch(from, value) : TRUE].on[value]

InRange(from, dependents) ==
    /\ \A n \in from.lessThan : dependents < n
    /\ \A n \in from.moreThan : dependents > n

MatchesFile(files, from, f) ==
    /\ MatchesPath(from, f.path)
    /\ f.path \notin from.pathNot
    /\ \A wanted \in from.orphan : Orphan(files, f) = wanted
    /\ \A names \in from.packageName : f.name \in names
    /\ InRange(from, FanIn(files, f.pkg))

(* Folder scope: the package stands for a file with no other facts. *)
MatchesFolder(files, from, p) ==
    /\ MatchesPath(from, p)
    /\ p \notin from.pathNot
    /\ from.orphan \subseteq {FALSE}
    /\ \A names \in from.packageName : "" \in names
    /\ InRange(from, FanIn(files, p))

-----------------------------------------------------------------------------
(* toMatcher: a verdict is "yes", "no" or "error". *)

TemplateVerdict(t, value, captures) ==
    IF t.ref > Len(captures) THEN "error"
    ELSE IF value \in t.on[IF t.ref = 0 THEN NoText ELSE captures[t.ref]]
         THEN "yes" ELSE "no"

(* A loop that stops at the first verdict other than "no". *)
FirstVerdict(verdicts) ==
    LET Reached(i) == \A j \in 1..(i - 1) : verdicts[j] = "no"
    IN  IF \E i \in DOMAIN verdicts : Reached(i) /\ verdicts[i] = "yes" THEN "yes"
        ELSE IF \E i \in DOMAIN verdicts : Reached(i) /\ verdicts[i] = "error" THEN "error"
        ELSE "no"

AnyTemplate(ts, value, captures) ==
    FirstVerdict([i \in 1..Len(ts) |-> TemplateVerdict(ts[i], value, captures)])

MatchesPackage(to, value, captures) ==
    LET path    == IF Len(to.path) = 0 THEN "yes" ELSE AnyTemplate(to.path, value, captures)
        pathNot == AnyTemplate(to.pathNot, value, captures)
    IN  IF path # "yes" THEN path
        ELSE CASE pathNot = "error" -> "error"
               [] pathNot = "yes"   -> "no"
               [] pathNot = "no"    -> "yes"

(* What the rules match a dependency by. *)
EffectivePath(d) == IF d.resolved # "" THEN d.resolved ELSE d.path

MatchesDependency(to, d, captures) ==
    LET path == MatchesPackage(to, EffectivePath(d), captures)
    IN  IF path # "yes" THEN path
        ELSE IF (to.types # {} /\ d.type \notin to.types) \/ d.type \in to.typesNot
             THEN "no" ELSE "yes"

(* Mutated form of MoreUnstable: equal values match. *)
MoreUnstableOrEqual(files, p, q) ==
    FanOut(files, q) * (FanIn(files, p) + FanOut(files, p))
        >= FanOut(files, p) * (FanIn(files, q) + FanOut(files, q))

(* q's share of outgoing edges is larger than p's. The quotients of the     *)
(* code are compared by cross-multiplication; a package without edges has   *)
(* instability zero.                                                        *)
MoreUnstable(files, p, q) ==
    LET degree(r) == FanIn(files, r) + FanOut(files, r)
    IN  IF degree(p) = 0 THEN FanOut(files, q) > 0
        ELSE FanOut(files, q) * degree(p) > FanOut(files, p) * degree(q)

MatchesModuleEdge(files, to, f, d, captures) ==
    LET verdict == MatchesDependency(to, d, captures)
    IN  IF verdict = "yes" /\ to.moreUnstable # {}
        THEN IF /\ to.moreUnstable = {TRUE}
                /\ d.type = "local" /\ d.resolved # ""
                /\ MoreUnstable(files, f.pkg, d.resolved)
             THEN "yes" ELSE "no"
        ELSE verdict

(* Mutated form of MatchesFolderEdge: the ends are swapped. *)
MatchesFolderEdgeSwapped(files, to, p, q, captures) ==
    LET verdict == MatchesPackage(to, q, captures)
    IN  IF verdict = "yes" /\ to.moreUnstable # {}
        THEN IF to.moreUnstable = {TRUE} /\ MoreUnstable(files, q, p)
             THEN "yes" ELSE "no"
        ELSE verdict

MatchesFolderEdge(files, to, p, q, captures) ==
    LET verdict == MatchesPackage(to, q, captures)
    IN  IF verdict = "yes" /\ to.moreUnstable # {}
        THEN IF to.moreUnstable = {TRUE} /\ MoreUnstable(files, p, q)
             THEN "yes" ELSE "no"
        ELSE verdict

SourceOnly(rule) ==
    /\ \/ rule.from.orphan # {}
       \/ rule.from.packageName # {}
       \/ rule.from.lessThan # {}
       \/ rule.from.moreThan # {}
    /\ [rule.to EXCEPT !.fileNot = {}] = AnyTo

=============================================================================
