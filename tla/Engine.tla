------------------------------- MODULE Engine -------------------------------
(***************************************************************************)
(* internal/engine.Evaluate: the rules applied to the files of a scan.     *)
(*                                                                         *)
(* One action evaluates one rule, as one iteration of Evaluate's loops     *)
(* does; a reachable rule takes a step per import, because it keeps a map  *)
(* from target packages to lines. A matching error ends the call and       *)
(* discards what was found. The violations found form a bag: the map is    *)
(* ranged over in any order and slices.SortFunc is not stable, so nothing  *)
(* but the comparison fixes the order of the result, and the model sorts   *)
(* by taking out any least element.                                        *)
(***************************************************************************)
EXTENDS Matching, Bags

CONSTANTS
    Questions,  \* sets of configurations, each set with the scans it is put to
    Rank        \* the order of strings: a function to the naturals

Strings == DOMAIN Rank

IsList(s) == s \in Seq({s[i] : i \in DOMAIN s})

(* Lists of rules with names and conditions, as the loader returns them. *)
Listed(c) ==
    /\ IsList(c.forbidden) /\ IsList(c.required)
    /\ \A list, other \in c.allowed : IsList(list) /\ list = other
    /\ \A r \in {c.forbidden[i] : i \in 1..Len(c.forbidden)} :
        r.name \in Strings /\ DOMAIN r.to = DOMAIN AnyTo
    /\ \A r \in {c.required[i] : i \in 1..Len(c.required)} : r.name \in Strings

(* What Scan returns: every file once, imports that have a path, and one   *)
(* resolution for one path. A local import without a directory is spelled  *)
(* with a slash at its end, unlike a package.                              *)
WellScanned(scan) ==
    /\ IsList(scan)
    /\ \A k, l \in 1..Len(scan) : scan[k].path = scan[l].path => k = l
    /\ \A f \in FilesOf(scan) :
        /\ {f.path, f.pkg} \subseteq Strings /\ f.line \in Nat
        /\ f.imports \in Seq([path : Strings \ {""}, resolved : Strings, type : Strings,
                              line : Nat])
    /\ \A f, g \in FilesOf(scan) : \A i \in 1..Len(f.imports), j \in 1..Len(g.imports) :
        f.imports[i].path = g.imports[j].path =>
            [f.imports[i] EXCEPT !.line = 0] = [g.imports[j] EXCEPT !.line = 0]
    /\ \A f \in FilesOf(scan) : \A i \in 1..Len(f.imports) :
        f.imports[i].type = "local" /\ f.imports[i].resolved = "" =>
            f.imports[i].path \notin Known(scan)

ASSUME QuestionsAssumption ==
    \A question \in Questions :
        /\ \A c \in question.configurations : WellFormed(c) /\ Listed(c)
        /\ \A scan \in question.scans : WellScanned(scan)

(* Different strings are ordered. *)
ASSUME RankAssumption ==
    /\ \A s, t \in Strings : Rank[s] \in Nat /\ (Rank[s] = Rank[t] => s = t)
    /\ Severity \cup {"", "local", "forbidden", "reachable", "unreachable", "required",
                      Reserved} \subseteq Strings

VARIABLES
    config,     \* the validated configuration
    files,      \* the scanned files
    phase,      \* "forbidden", "allowed", "required", "sort", "done", "error"
    rule,       \* index of the current rule in its list
    file,       \* reachable rule: index of the current file,
    imp,        \* of its current import,
    lowest,     \* and lowestLineByTarget, a partial function
    found,      \* bag of the violations not yet sorted
    violations  \* the sorted result

vars == <<config, files, phase, rule, file, imp, lowest, found, violations>>

cursor == <<file, imp, lowest>>

Init ==
    /\ \E question \in Questions :
        /\ config \in {c \in question.configurations : Valid(c)}
        /\ files \in question.scans
    /\ phase = "forbidden"
    /\ rule = 1
    /\ file = 1
    /\ imp = 1
    /\ lowest = <<>>
    /\ found = EmptyBag
    /\ violations = <<>>

-----------------------------------------------------------------------------
(* Violations. A nil target is the target "" with the type "". *)

SourceViolation(r, kind, f) ==
    [rule |-> r.name, severity |-> r.severity, kind |-> kind, path |-> f.path,
     line |-> f.line, package |-> f.name, target |-> "", type |-> "", importPath |-> ""]

EdgeViolation(name, severity, kind, f, d) ==
    [rule |-> name, severity |-> severity, kind |-> kind, path |-> f.path,
     line |-> d.line, package |-> f.name, target |-> EffectivePath(d),
     type |-> d.type, importPath |-> d.path]

FolderViolation(r, p, q) ==
    [rule |-> r.name, severity |-> r.severity, kind |-> "forbidden", path |-> p,
     line |-> 0, package |-> "", target |-> q, type |-> "local", importPath |-> ""]

ReachableViolation(r, f, q, line) ==
    [rule |-> r.name, severity |-> r.severity, kind |-> "reachable", path |-> f.path,
     line |-> line, package |-> f.name, target |-> q, type |-> "local", importPath |-> ""]

(* One violation for each site, equal ones counted. *)
BagOf(violation) ==
    [v \in {violation[s] : s \in DOMAIN violation} |->
        Cardinality({s \in DOMAIN violation : violation[s] = v})]

(* The places in the files: <<k, i>> is import i of file k. *)
FileSites == 1..Len(files)
ImportSites == UNION {{<<k, i>> : i \in 1..Len(files[k].imports)} : k \in FileSites}
ImportAt(s) == files[s[1]].imports[s[2]]

-----------------------------------------------------------------------------
(* Evaluating a rule: the sites it looks at, the verdict on each, and the  *)
(* violation a "yes" stands for, as functions of the site.                 *)

Fail ==
    /\ phase' = "error"
    /\ found' = EmptyBag
    /\ UNCHANGED <<config, files, rule, file, imp, lowest, violations>>

Report(verdict, violation) ==
    IF \E s \in DOMAIN verdict : verdict[s] = "error"
    THEN Fail
    ELSE /\ LET hits == {s \in DOMAIN verdict : verdict[s] = "yes"}
            IN  found' = found (+) BagOf([s \in hits |-> violation[s]])
         /\ rule' = rule + 1
         /\ UNCHANGED <<config, files, phase, file, imp, lowest, violations>>

(* A violation is reported unless something matches. *)
Unless(verdict) ==
    CASE verdict = "yes" -> "no" [] verdict = "no" -> "yes" [] OTHER -> "error"

Active(r) == r.severity # "ignore"

Rule == config.forbidden[rule]

AtForbidden == phase = "forbidden" /\ rule <= Len(config.forbidden) /\ Active(Rule)

FolderRule == Rule.scope = "folder"
ReachableRule == ~FolderRule /\ Rule.to.reachable = {TRUE}
UnreachableRule == ~FolderRule /\ Rule.to.reachable = {FALSE}
ModuleRule == ~FolderRule /\ Rule.to.reachable = {}

EvaluateFolder ==
    /\ AtForbidden
    /\ FolderRule
    /\ LET from == Rule.from
           packages == {f.pkg : f \in FilesOf(files)}
           sites == {s \in packages \X Known(files) :
                        MatchesFolder(files, from, s[1]) /\ s[2] \in Dependencies(files, s[1])}
       IN  Report([s \in sites |->
                      MatchesFolderEdge(files, Rule.to, s[1], s[2], Captures(from, s[1]))],
                  [s \in sites |-> FolderViolation(Rule, s[1], s[2])])

(* Mutated forms of Closed: the walk follows the edges backwards; the      *)
(* predicate of the filter is inverted.                                    *)
ClosedBackward(seeds) ==
    Reach(Transpose(Edges(files, Rule.to.fileNot)), seeds \cap Known(files))

ClosedInverted(seeds) ==
    Reach(Edges(files, {f.path : f \in FilesOf(files)} \ Rule.to.fileNot),
          seeds \cap Known(files))

(* The packages a reachable rule may walk to. *)
Closed(seeds) == Reach(Edges(files, Rule.to.fileNot), seeds \cap Known(files))

AtReachable == AtForbidden /\ ReachableRule
CurrentFile == files[file]
Selected == MatchesFile(files, Rule.from, CurrentFile)

(* Mutated form of Lower: the last import that leads to a package wins. *)
LowerLast(targets, line) ==
    [q \in DOMAIN lowest \cup targets |-> IF q \in targets THEN line ELSE lowest[q]]

Lower(targets, line) ==
    [q \in DOMAIN lowest \cup targets |->
        IF q \in targets /\ (q \in DOMAIN lowest => line < lowest[q])
        THEN line ELSE lowest[q]]

(* Mutated form of NextImport: continue before the index moves on. *)
NextImportLocal == IF CurrentFile.imports[imp].type = "local" THEN imp + 1 ELSE imp

NextImport == imp + 1

(* One import of a selected file: every matching package in its closure.   *)
ReachableImport ==
    /\ AtReachable
    /\ file <= Len(files)
    /\ Selected
    /\ imp <= Len(CurrentFile.imports)
    /\ LET d == CurrentFile.imports[imp]
           walked == IF d.type = "local" /\ d.resolved # "" THEN Closed({d.resolved}) ELSE {}
           verdict(q) == MatchesPackage(Rule.to, q, Captures(Rule.from, CurrentFile.path))
       IN  IF \E q \in walked : verdict(q) = "error"
           THEN Fail
           ELSE /\ lowest' = Lower({q \in walked : verdict(q) = "yes"}, d.line)
                /\ imp' = NextImport
                /\ UNCHANGED <<config, files, phase, rule, file, found, violations>>

(* The next file: the map is emptied into the violations. *)
ReachableFile ==
    /\ AtReachable
    /\ file <= Len(files)
    /\ Selected => imp > Len(CurrentFile.imports)
    /\ found' = found (+) BagOf([q \in DOMAIN lowest |->
                    ReachableViolation(Rule, CurrentFile, q, lowest[q])])
    /\ file' = file + 1
    /\ imp' = 1
    /\ lowest' = <<>>
    /\ UNCHANGED <<config, files, phase, rule, violations>>

ReachableEnd ==
    /\ AtReachable
    /\ file > Len(files)
    /\ file' = 1
    /\ rule' = rule + 1
    /\ UNCHANGED <<config, files, phase, imp, lowest, found, violations>>

EvaluateUnreachable ==
    /\ AtForbidden
    /\ UnreachableRule
    /\ LET seeds == {f.pkg : f \in {g \in FilesOf(files) : MatchesFile(files, Rule.from, g)}}
           reached == Closed(seeds)
           match(k) == MatchesPackage(Rule.to, files[k].pkg, <<>>)
       IN  Report([k \in FileSites |->
                      IF match(k) = "yes" /\ files[k].pkg \in reached THEN "no" ELSE match(k)],
                  [k \in FileSites |-> SourceViolation(Rule, "unreachable", files[k])])

EvaluateSource ==
    /\ AtForbidden
    /\ ModuleRule
    /\ SourceOnly(Rule)
    /\ Report([k \in FileSites |->
                  IF MatchesFile(files, Rule.from, files[k]) THEN "yes" ELSE "no"],
              [k \in FileSites |-> SourceViolation(Rule, "forbidden", files[k])])

EvaluateEdges ==
    /\ AtForbidden
    /\ ModuleRule
    /\ ~SourceOnly(Rule)
    /\ LET sites == {s \in ImportSites : MatchesFile(files, Rule.from, files[s[1]])}
       IN  Report([s \in sites |->
                      MatchesModuleEdge(files, Rule.to, files[s[1]], ImportAt(s),
                                        Captures(Rule.from, files[s[1]].path))],
                  [s \in sites |->
                      EdgeViolation(Rule.name, Rule.severity, "forbidden",
                                    files[s[1]], ImportAt(s))])

(* Rules whose severity is ignore are not compiled. *)
SkipIgnored ==
    /\ \/ phase = "forbidden" /\ rule <= Len(config.forbidden)
          /\ ~Active(config.forbidden[rule])
       \/ phase = "required" /\ rule <= Len(config.required)
          /\ ~Active(config.required[rule])
    /\ rule' = rule + 1
    /\ UNCHANGED <<config, files, phase, file, imp, lowest, found, violations>>

Enter(next) ==
    /\ phase' = next
    /\ rule' = 1
    /\ UNCHANGED <<config, files, file, imp, lowest, found, violations>>

EndForbidden ==
    /\ phase = "forbidden"
    /\ rule > Len(config.forbidden)
    /\ Enter("allowed")

FailClosed == config.allowed # {} /\ config.allowedSeverity # "ignore"

(* Mutated form of AllowedVerdict: a rule not meant for the file decides. *)
AllowedVerdictAnyFile(allowed, f, d) ==
    FirstVerdict([i \in 1..Len(allowed) |->
        IF ~MatchesFile(files, allowed[i].from, f) THEN "yes"
        ELSE MatchesDependency(allowed[i].to, d, Captures(allowed[i].from, f.path))])

(* isAllowed *)
AllowedVerdict(allowed, f, d) ==
    FirstVerdict([i \in 1..Len(allowed) |->
        IF ~MatchesFile(files, allowed[i].from, f) THEN "no"
        ELSE MatchesDependency(allowed[i].to, d, Captures(allowed[i].from, f.path))])

EvaluateAllowed ==
    /\ phase = "allowed"
    /\ FailClosed
    /\ rule = 1
    /\ LET allowed == CHOOSE list \in config.allowed : TRUE
       IN  Report([s \in ImportSites |->
                      Unless(AllowedVerdict(allowed, files[s[1]], ImportAt(s)))],
                  [s \in ImportSites |->
                      EdgeViolation(Reserved, config.allowedSeverity, "not-in-allowed",
                                    files[s[1]], ImportAt(s))])

EndAllowed ==
    /\ phase = "allowed"
    /\ FailClosed => rule > 1
    /\ Enter("required")

EvaluateRequired ==
    /\ phase = "required"
    /\ rule <= Len(config.required)
    /\ LET r == config.required[rule]
           satisfied(f) ==
               FirstVerdict([i \in 1..Len(f.imports) |->
                   MatchesDependency(r.to, f.imports[i], Captures(r.from, f.path))])
       IN  /\ Active(r)
           /\ Report([k \in FileSites |->
                         IF MatchesFile(files, r.from, files[k])
                         THEN Unless(satisfied(files[k])) ELSE "no"],
                     [k \in FileSites |-> SourceViolation(r, "required", files[k])])

EndRequired ==
    /\ phase = "required"
    /\ rule > Len(config.required)
    /\ Enter("sort")

-----------------------------------------------------------------------------
(* sortViolations *)

(* Mutated form of Key: the comparison ends before the dependency type. *)
KeyWithoutType(v) ==
    <<Rank[v.rule], Rank[v.severity], Rank[v.path], v.line, Rank[v.target]>>

Key(v) ==
    <<Rank[v.rule], Rank[v.severity], Rank[v.path], v.line, Rank[v.target],
      Rank[v.type], Rank[v.kind], Rank[v.importPath]>>

Before(v, w) ==
    \E n \in 1..Len(Key(v)) :
        /\ Key(v)[n] < Key(w)[n]
        /\ \A m \in 1..(n - 1) : Key(v)[m] = Key(w)[m]

Emit ==
    /\ phase = "sort"
    /\ \E v \in DOMAIN found :
        /\ \A w \in DOMAIN found : ~Before(w, v)
        /\ violations' = Append(violations, v)
        /\ found' = found (-) SetToBag({v})
    /\ UNCHANGED <<config, files, phase, rule, cursor>>

Return ==
    /\ phase = "sort"
    /\ found = EmptyBag
    /\ phase' = "done"
    /\ UNCHANGED <<config, files, rule, cursor, found, violations>>

Returned == phase \in {"done", "error"} /\ UNCHANGED vars

Next ==
    \/ EvaluateFolder
    \/ ReachableImport
    \/ ReachableFile
    \/ ReachableEnd
    \/ EvaluateUnreachable
    \/ EvaluateSource
    \/ EvaluateEdges
    \/ SkipIgnored
    \/ EndForbidden
    \/ EvaluateAllowed
    \/ EndAllowed
    \/ EvaluateRequired
    \/ EndRequired
    \/ Emit
    \/ Return
    \/ Returned

Spec == Init /\ [][Next]_vars /\ WF_vars(Next)
-----------------------------------------------------------------------------
(* Properties *)

Reported == {violations[i] : i \in 1..Len(violations)}

(* The rules evaluated in the result, whatever their list. *)
ActiveForbidden ==
    {config.forbidden[i] : i \in {j \in 1..Len(config.forbidden) : Active(config.forbidden[j])}}

ReportedBy(r) == {v \in Reported : v.rule = r.name}

(* A configuration the validator accepts never makes Evaluate fail: no     *)
(* template meets a file whose matching pattern lacks the group it refers  *)
(* to, whichever pattern of from.path matches first.                       *)
NoError == phase # "error"

(* The result does not depend on the order in which the map of a reachable *)
(* rule is ranged over, nor on what an unstable sort does with equal       *)
(* elements: two violations the comparison cannot tell apart are the same. *)
OneOrder ==
    phase = "done" => \A v, w \in Reported : v # w => Before(v, w) \/ Before(w, v)

(* What a baseline entry records of a violation. *)
Identity(v) ==
    <<v.rule, v.path, IF v.importPath # "" THEN v.importPath ELSE v.target>>

(* A baseline entry, which has no kind, severity or line, stands for one   *)
(* finding: violations it cannot tell apart differ in their line only.     *)
IdentityDetermines ==
    phase = "done" => \A v, w \in Reported :
        Identity(v) = Identity(w) => [v EXCEPT !.line = 0] = [w EXCEPT !.line = 0]

(* A reachable rule reports a file and a package it reaches once, at the   *)
(* line of the first import in the file that leads there.                  *)
LowestLine ==
    phase = "done" =>
        \A r \in {s \in ActiveForbidden : s.scope = "module" /\ s.to.reachable = {TRUE}} :
        \A f \in {g \in FilesOf(files) : MatchesFile(files, r.from, g)} :
        \A q \in Known(files) :
            LET leads(d) == /\ d.type = "local" /\ d.resolved # ""
                            /\ q \in Reach(Edges(files, r.to.fileNot), {d.resolved})
                lines == {f.imports[i].line : i \in {j \in 1..Len(f.imports) :
                            leads(f.imports[j])}}
                hits == {i \in 1..Len(violations) :
                            /\ violations[i].rule = r.name
                            /\ violations[i].path = f.path
                            /\ violations[i].target = q}
            IN  IF lines # {} /\ MatchesPackage(r.to, q, Captures(r.from, f.path)) = "yes"
                THEN /\ Cardinality(hits) = 1
                     /\ \A i \in hits :
                        /\ violations[i].line \in lines
                        /\ \A n \in lines : violations[i].line <= n
                ELSE hits = {}

(* Two rules that ask opposite questions about the same files and packages. *)
Opposite(r, u) ==
    /\ r.scope = "module" /\ u.scope = "module"
    /\ r.to.reachable = {TRUE} /\ u.to.reachable = {FALSE}
    /\ r.from = u.from /\ r.to = [u.to EXCEPT !.reachable = {TRUE}]
    /\ r.to.fileNot = {}

(* The entry files of a rule are whole packages. *)
Whole(from) ==
    \A f, g \in FilesOf(files) :
        f.pkg = g.pkg /\ MatchesFile(files, from, f) => MatchesFile(files, from, g)

(* reachable: true and reachable: false never claim the same package: a    *)
(* file reported unreachable lies in a package without entry files that no *)
(* entry file is reported to reach. If the entry files are whole packages, *)
(* the two rules split the matching ones. Otherwise a package that only    *)
(* another file of an entry package imports is neither, because one search *)
(* starts from the imports of a file and the other from its package.       *)
Split ==
    phase = "done" =>
        \A r, u \in ActiveForbidden : Opposite(r, u) =>
            \A f \in {g \in FilesOf(files) : MatchesPackage(u.to, g.pkg, <<>>) = "yes"} :
                LET unreached == \E v \in ReportedBy(u) : v.path = f.path
                    entry == \E g \in FilesOf(files) :
                                g.pkg = f.pkg /\ MatchesFile(files, u.from, g)
                    reached == \E v \in ReportedBy(r) : v.target = f.pkg
                IN  /\ unreached => ~entry /\ ~reached
                    /\ Whole(u.from) => unreached \/ entry \/ reached

(* Two rules that differ in their file filter, narrow excluding more. *)
Narrower(wide, narrow) ==
    /\ wide.from = narrow.from
    /\ wide.scope = "module" /\ narrow.scope = "module"
    /\ wide.to # narrow.to
    /\ wide.to = [narrow.to EXCEPT !.fileNot = wide.to.fileNot]
    /\ wide.to.fileNot \subseteq narrow.to.fileNot

(* Excluding more files finds fewer reachable packages and more            *)
(* unreachable ones, never the other way round.                            *)
FilterNarrows ==
    phase = "done" =>
        \A wide, narrow \in ActiveForbidden : Narrower(wide, narrow) =>
            /\ wide.to.reachable = {TRUE} =>
                {<<v.path, v.target>> : v \in ReportedBy(narrow)}
                    \subseteq {<<v.path, v.target>> : v \in ReportedBy(wide)}
            /\ wide.to.reachable = {FALSE} =>
                {v.path : v \in ReportedBy(wide)} \subseteq {v.path : v \in ReportedBy(narrow)}

(* A filter that keeps a violation keeps the line it is reported at, as    *)
(* DESIGN.ja.md says: reachableFilePathNot changes neither which import    *)
(* starts the walk nor from.line.                                          *)
FilterKeepsLine ==
    phase = "done" =>
        \A wide, narrow \in ActiveForbidden :
            Narrower(wide, narrow) /\ wide.to.reachable = {TRUE} =>
                \A v \in ReportedBy(wide), w \in ReportedBy(narrow) :
                    v.path = w.path /\ v.target = w.target => v.line = w.line

(* A rule at folder scope and the same rule at module scope, both with     *)
(* from: {}, report the same package edges: the module rule through the    *)
(* local imports of the files, the folder rule through the package graph.  *)
(* Conditions of from are matched with files in one, packages in the other.*)
ScopesAgree ==
    phase = "done" =>
        \A m, g \in ActiveForbidden :
            /\ m.scope = "module" /\ g.scope = "folder"
            /\ m.from = AnyFrom /\ g.from = AnyFrom /\ m.to = g.to
            => {<<v.path, v.target>> : v \in ReportedBy(g)} =
                    {e \in Known(files) \X Known(files) :
                        /\ e[1] # e[2]
                        /\ \E v \in ReportedBy(m) : \E f \in FilesOf(files) :
                            /\ f.pkg = e[1] /\ f.path = v.path
                            /\ v.type = "local" /\ v.target = e[2]}

(* A chain of edges reported as leading to a more unstable package never   *)
(* closes: the remedy the rule asks for, to turn an edge round, is never   *)
(* asked of every edge of a cycle.                                         *)
UnstableAcyclic ==
    phase = "done" =>
        \A g \in ActiveForbidden : g.scope = "folder" /\ g.to.moreUnstable = {TRUE} =>
            LET edges == [p \in Known(files) |->
                            {q \in Known(files) : \E v \in ReportedBy(g) :
                                v.path = p /\ v.target = q}]
            IN  \A p \in Known(files) : p \notin Reach(edges, edges[p])

(* With an allowed list, an import is either matched by a rule meant for   *)
(* its file or reported, as often as it occurs: nothing slips through.     *)
NothingSlips ==
    phase = "done" /\ FailClosed =>
        \A allowed \in config.allowed :
            LET unmatched == {s \in ImportSites :
                    ~\E i \in 1..Len(allowed) :
                        /\ MatchesFile(files, allowed[i].from, files[s[1]])
                        /\ MatchesDependency(allowed[i].to, ImportAt(s),
                                Captures(allowed[i].from, files[s[1]].path)) = "yes"}
                hits(s) == {i \in 1..Len(violations) :
                    /\ violations[i].rule = Reserved
                    /\ violations[i].path = files[s[1]].path
                    /\ violations[i].line = ImportAt(s).line
                    /\ violations[i].importPath = ImportAt(s).path}
                twins(s) == {t \in ImportSites : t[1] = s[1] /\ ImportAt(t) = ImportAt(s)}
            IN  \A s \in ImportSites :
                    Cardinality(hits(s)) =
                        IF s \in unmatched THEN Cardinality(twins(s)) ELSE 0

(* Evaluate returns. *)
Termination == <>(phase \in {"done", "error"})

=============================================================================
